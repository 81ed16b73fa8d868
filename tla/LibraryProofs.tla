---------------------------- MODULE LibraryProofs ----------------------------
(***************************************************************************)
(* Sessions, addresses and names, for every instance.                      *)
(*                                                                         *)
(* Sessions: none is given out twice between two seedings, for an int of   *)
(* any width.  A session that came back would close a cycle of Drawn       *)
(* without 0, but every cycle goes through 0.  That is so because Drawn    *)
(* has the full period: applied 2^j times it is x -> A * x + C with        *)
(* A = 4p + 1 and C = 2^j * (2w + 1), so that of two neighbours among the  *)
(* multiples of 2^j one is a multiple of 2^(j + 1), up to 2^Width, 0.      *)
(*                                                                         *)
(* Addresses: the text of every IPv6 address is read back as that address. *)
(* StateAt names the state of inet_pton6's loop behind each word that      *)
(* inet_ntop6 writes, so that each word leads from one of them to the next.*)
(*                                                                         *)
(* Names: what libgai's getaddrinfo has listed is found again by its       *)
(* names, told apart by its texts, and testga's error tests pass.          *)
(***************************************************************************)
EXTENDS MCLibrary, SocketsProofs, SequenceTheorems

-----------------------------------------------------------------------------
(* Sessions: powers of two.                                                *)

\* The equations of pow2.
LEMMA PowUnfold ==
  ASSUME Width \in Nat
  PROVE  \A n \in 0 .. Width : pow2[n] = IF n = 0 THEN 1 ELSE 2 * pow2[n - 1]
<1>1. pow2 = CHOOSE g : g = [n \in 0 .. Width |-> PowStep(g, n)]
  BY DEF pow2, PowStep
<1>2. pow2 = [n \in 0 .. Width |-> PowStep(pow2, n)]
  BY <1>1, PowExists
<1>3. \A n \in 0 .. Width : pow2[n] = PowStep(pow2, n)
  BY <1>2
<1> QED
  BY <1>3 DEF PowStep

-----------------------------------------------------------------------------
(* Arithmetic.                                                             *)

\* Division with remainder.
LEMMA Divides ==
  ASSUME NEW m \in Nat \ {0}
  PROVE  \A z \in Nat : z % m \in 0 .. m - 1 /\ \E q \in Nat : z = (z % m) + q * m
<1> TAKE z \in Nat
<1> DEFINE q == z \div m
           r == z % m
<1>1. r \in 0 .. m - 1 /\ q \in Nat /\ z = m * q + r
  OBVIOUS
<1> HIDE DEF q, r
<1>2. m * q = q * m /\ m * q \in Nat
  BY <1>1
<1>3. z = r + q * m
  BY <1>1, <1>2
<1>4. \E k \in Nat : z = r + k * m
  BY <1>1, <1>3
<1> QED
  BY <1>1, <1>4 DEF r

LEMMA Remainder ==
  ASSUME NEW m \in Nat \ {0}
  PROVE  \A r \in 0 .. m - 1, q \in Nat : (r + q * m) % m = r
<1> TAKE r \in 0 .. m - 1, q \in Nat
<1>1. q * m \in Nat /\ r + q * m \in Nat
  OBVIOUS
<1> QED
  BY <1>1

\* Multiples of m do not matter.
LEMMA Wraps ==
  ASSUME NEW m \in Nat \ {0}
  PROVE  \A x, k \in Nat : (x + k * m) % m = x % m
<1> TAKE x, k \in Nat
<1> DEFINE r == x % m
<1>1. PICK q \in Nat : x = r + q * m
  BY Divides
<1>2. r \in 0 .. m - 1
  BY Divides
<1> HIDE DEF r
<1>3. q + k \in Nat
  OBVIOUS
<1>4. (r + (q + k) * m) % m = r
  BY <1>2, <1>3, Remainder
<1>5. r + (q + k) * m = x + k * m
  BY <1>1, <1>2
<1> QED
  BY <1>4, <1>5 DEF r

\* A step of a congruence may be taken before or after the reduction.
Affine(A, C, z) == A * z + C
LEMMA Reduces ==
  ASSUME NEW m \in Nat \ {0}
  PROVE  \A A, C, z \in Nat : Affine(A, C, z % m) % m = Affine(A, C, z) % m
<1> TAKE A, C, z \in Nat
<1> DEFINE r == z % m
<1>1. PICK q \in Nat : z = r + q * m
  BY Divides
<1>2. r \in Nat
  BY Divides
<1> HIDE DEF r
<1>3. A * r + C \in Nat /\ A * q \in Nat
  BY <1>2
<1>4. ((A * r + C) + (A * q) * m) % m = (A * r + C) % m
  BY <1>3, Wraps
<1>5. (A * r + C) + (A * q) * m = A * z + C
  BY <1>1, <1>2
<1>6. Affine(A, C, r) % m = Affine(A, C, z) % m
  BY <1>4, <1>5 DEF Affine
<1> QED
  BY <1>6 DEF r

\* What is left of a multiple of d modulo a multiple of d.
Multiple(z, d) == \E u \in Nat : z = u * d
LEMMA MultipleLeft ==
  \A d, m \in Nat \ {0} : \A z \in Nat :
    Multiple(z, d) /\ Multiple(m, d) => Multiple(z % m, d)
<1> SUFFICES ASSUME NEW d \in Nat \ {0}, NEW m \in Nat \ {0}, NEW z \in Nat,
                    Multiple(z, d), Multiple(m, d)
             PROVE  Multiple(z % m, d)
  OBVIOUS
<1>0. PICK v \in Nat, e \in Nat : z = v * d /\ m = e * d
  BY DEF Multiple
<1> DEFINE r == z % m
<1>1. r \in 0 .. m - 1 /\ \E q \in Nat : z = r + q * m
  BY Divides
<1>2. PICK q \in Nat : z = r + q * m
  BY <1>1
<1> HIDE DEF r
<1>3. r \in Nat
  BY <1>1
<1> DEFINE u == v - q * e
<1>4. u \in Int /\ r = u * d
  BY <1>0, <1>2, <1>3
<1> HIDE DEF u
<1>5. u >= 0
  BY <1>3, <1>4
<1>6. u \in Nat
  BY <1>4, <1>5
<1>7. Multiple(r, d)
  BY <1>4, <1>6 DEF Multiple
<1> QED
  BY <1>7 DEF r

\* Two steps of the congruence with 4p + 1 and b * (2w + 1) are one step of
\* such a congruence with 2b.
LEMMA Twice ==
  \A p, w, b, y \in Nat :
    (4 * p + 1) * ((4 * p + 1) * y + b * (2 * w + 1)) + b * (2 * w + 1)
      = (4 * (4 * p * p + 2 * p) + 1) * y + (2 * b) * (2 * (2 * p * w + p + w) + 1)
  OBVIOUS

\* An odd multiple of b goes to an even one.
LEMMA Evens ==
  \A p, w, b, t \in Nat :
    (4 * p + 1) * ((2 * t + 1) * b) + b * (2 * w + 1)
      = (4 * p * t + 2 * p + t + w + 1) * (2 * b)
  OBVIOUS

\* Powers of two are positive, and the width is a multiple of each.
LEMMA PowPositive ==
  ASSUME Width \in Nat
  PROVE  \A n \in 0 .. Width : pow2[n] \in Nat \ {0}
<1> DEFINE Z == {n \in 0 .. Width : pow2[n] \notin Nat \ {0}}
<1> SUFFICES ASSUME Z # {} PROVE FALSE
  OBVIOUS
<1>1. PICK n \in Z : \A m \in Z : n <= m
  <2>1. Z \in SUBSET Nat
    OBVIOUS
  <2> HIDE DEF Z
  <2> QED
    BY <2>1, LeastNumber
<1>2. n \in 0 .. Width /\ pow2[n] \notin Nat \ {0}
  OBVIOUS
<1> HIDE DEF Z
<1>3. n # 0 /\ pow2[n] = 2 * pow2[n - 1]
  BY <1>2, PowUnfold
<1>4. n - 1 \in 0 .. Width /\ n - 1 \notin Z
  BY <1>1, <1>2, <1>3
<1>5. pow2[n - 1] \in Nat \ {0}
  BY <1>4 DEF Z
<1> QED
  BY <1>2, <1>3, <1>5

LEMMA PowDivides ==
  ASSUME Width \in Nat
  PROVE  \A n \in 0 .. Width : Multiple(Modulus, pow2[Width - n])
<1> DEFINE Z == {n \in 0 .. Width : ~Multiple(Modulus, pow2[Width - n])}
<1> SUFFICES ASSUME Z # {} PROVE FALSE
  OBVIOUS
<1>1. PICK n \in Z : \A m \in Z : n <= m
  <2>1. Z \in SUBSET Nat
    OBVIOUS
  <2> HIDE DEF Z
  <2> QED
    BY <2>1, LeastNumber
<1>2. n \in 0 .. Width /\ ~Multiple(Modulus, pow2[Width - n])
  OBVIOUS
<1> HIDE DEF Z
<1>3. n # 0
  <2>1. Modulus = 1 * pow2[Width - 0] /\ pow2[Width - 0] \in Nat
    BY PowPositive DEF Modulus
  <2> QED
    BY <1>2, <2>1 DEF Multiple
<1>4. n - 1 \in 0 .. Width /\ n - 1 \notin Z
  BY <1>1, <1>2, <1>3
<1>5. PICK e \in Nat : Modulus = e * pow2[Width - (n - 1)]
  BY <1>4 DEF Z, Multiple
<1> DEFINE k == Width - n
<1>6. k \in 0 .. Width /\ k + 1 \in 0 .. Width /\ Width - (n - 1) = k + 1
  BY <1>2, <1>3
<1> HIDE DEF k
<1>7. pow2[k + 1] = 2 * pow2[k] /\ pow2[k] \in Nat
  <2>1. k + 1 # 0 /\ (k + 1) - 1 = k
    BY <1>6
  <2> QED
    BY <1>6, <2>1, PowUnfold, PowPositive
<1>8. e * (2 * pow2[k]) = (e * 2) * pow2[k]
  BY <1>7
<1>9. Modulus = (e * 2) * pow2[k] /\ e * 2 \in Nat
  BY <1>5, <1>6, <1>7, <1>8
<1>10. Multiple(Modulus, pow2[Width - n])
  BY <1>9 DEF k, Multiple
<1> QED
  BY <1>2, <1>10

-----------------------------------------------------------------------------
(* The cycle.                                                              *)

\* Stage j: D is closed under a congruence with 4p + 1 and 2^j * (2w + 1), and
\* holds a multiple of 2^j.
Stepped(D, p, w, j) ==
  \A y \in D : ((4 * p + 1) * y + pow2[j] * (2 * w + 1)) % Modulus \in D
Stage(D, j) ==
  /\ \E p, w \in Nat : Stepped(D, p, w, j)
  /\ \E x \in D : Multiple(x, pow2[j])

LEMMA NextStage ==
  ASSUME Width \in Nat, NEW D \in SUBSET (0 .. Modulus - 1), NEW j \in 0 .. Width,
         j # Width, Stage(D, j)
  PROVE  Stage(D, j + 1)
<1> DEFINE b == pow2[j]
           m == Modulus
<1>1. /\ b \in Nat \ {0} /\ m \in Nat \ {0} /\ j + 1 \in 0 .. Width
      /\ pow2[j + 1] = 2 * b /\ D \subseteq Nat
  <2>1. j + 1 \in 0 .. Width /\ j + 1 # 0 /\ (j + 1) - 1 = j /\ Width \in 0 .. Width
    OBVIOUS
  <2>2. pow2[j + 1] = 2 * b
    BY <2>1, PowUnfold
  <2>3. b \in Nat \ {0} /\ m \in Nat \ {0}
    BY <2>1, PowPositive DEF Modulus
  <2> QED
    BY <2>1, <2>2, <2>3
<1>2. PICK p \in Nat, w \in Nat : Stepped(D, p, w, j)
  BY DEF Stage
<1> DEFINE G(y) == (4 * p + 1) * y + b * (2 * w + 1)
<1>3. \A y \in D : G(y) % m \in D
  BY <1>2 DEF Stepped
<1> HIDE DEF b, m
<1>4. \A y \in Nat : G(y) \in Nat
  BY <1>1
<1>5. \E p2, w2 \in Nat : Stepped(D, p2, w2, j + 1)
  <2> DEFINE p2 == 4 * p * p + 2 * p
             w2 == 2 * p * w + p + w
  <2>1. p2 \in Nat /\ w2 \in Nat
    OBVIOUS
  <2>2. ASSUME NEW y \in D
        PROVE  ((4 * p2 + 1) * y + (2 * b) * (2 * w2 + 1)) % m \in D
    <3>1. y \in Nat /\ G(y) % m \in D
      BY <1>1, <1>3
    <3>2. G(G(y) % m) % m \in D
      BY <1>3, <3>1
    <3>3. G(G(y) % m) % m = G(G(y)) % m
      <4> DEFINE A == 4 * p + 1
                 C == b * (2 * w + 1)
                 z == G(y)
      <4>1. A \in Nat /\ C \in Nat /\ z \in Nat
        BY <1>1, <1>4, <3>1
      <4> HIDE DEF A, C, z
      <4>2. Affine(A, C, z % m) % m = Affine(A, C, z) % m
        <5>1. m \in Nat \ {0}
          BY <1>1
        <5>2. \A A1, C1, z1 \in Nat : Affine(A1, C1, z1 % m) % m = Affine(A1, C1, z1) % m
          BY <5>1, Reduces
        <5> QED
          BY <4>1, <5>2
      <4> QED
        BY <4>2 DEF Affine, A, C, z
    <3>4. G(G(y)) = (4 * p2 + 1) * y + (2 * b) * (2 * w2 + 1)
      BY <1>1, <3>1, Twice
    <3> QED
      BY <3>2, <3>3, <3>4
  <2> HIDE DEF p2, w2
  <2>3. Stepped(D, p2, w2, j + 1)
    BY <1>1, <2>2 DEF Stepped, m
  <2> QED
    BY <2>1, <2>3
<1>6. \E x \in D : Multiple(x, 2 * b)
  <2>1. PICK u \in Nat : u * b \in D
    BY DEF Stage, Multiple, b
  <2>2. PICK t \in Nat : u = 2 * t \/ u = 2 * t + 1
    <3>1. u = 2 * (u \div 2) \/ u = 2 * (u \div 2) + 1
      OBVIOUS
    <3>2. u \div 2 \in Nat
      OBVIOUS
    <3> QED
      BY <3>1, <3>2
  <2>3. CASE u = 2 * t
    <3>1. (2 * t) * b = t * (2 * b)
      BY <1>1
    <3> QED
      BY <2>1, <2>3, <3>1 DEF Multiple
  <2>4. CASE u = 2 * t + 1
    <3> DEFINE v == 4 * p * t + 2 * p + t + w + 1
               z == G((2 * t + 1) * b)
               d == 2 * b
    <3>1. z % m \in D
      BY <1>3, <2>1, <2>4
    <3>2. z = v * d /\ v \in Nat
      BY <1>1, Evens
    <3>3. Multiple(z, d)
      BY <3>2 DEF Multiple
    <3>4. Multiple(m, d)
      <4>1. Width - (j + 1) \in 0 .. Width /\ Width - (Width - (j + 1)) = j + 1
        BY <1>1
      <4> QED
        BY <1>1, <4>1, PowDivides DEF m
    <3>5. z \in Nat /\ d \in Nat \ {0} /\ m \in Nat \ {0}
      <4>1. (2 * t + 1) * b \in Nat
        BY <1>1
      <4> QED
        BY <1>1, <1>4, <4>1
    <3> HIDE DEF v, z, d
    <3>6. Multiple(z % m, d)
      BY <3>3, <3>4, <3>5, MultipleLeft
    <3> QED
      BY <3>1, <3>6 DEF d
  <2> QED
    BY <2>2, <2>3, <2>4
<1> QED
  BY <1>1, <1>5, <1>6 DEF Stage

\* Numbers that are closed under Drawn include 0.
LEMMA CycleHasZero ==
  ASSUME Width \in Nat, NEW D \in SUBSET (0 .. Modulus - 1), D # {},
         \A x \in D : Drawn(x) \in D
  PROVE  0 \in D
<1> DEFINE Z == {j \in 0 .. Width : ~Stage(D, j)}
<1>1. Modulus \in Nat \ {0} /\ pow2[0] = 1 /\ D \subseteq Nat
  <2>1. Width \in 0 .. Width /\ 0 \in 0 .. Width
    OBVIOUS
  <2> QED
    BY <2>1, PowPositive, PowUnfold DEF Modulus
<1>2. Stage(D, 0)
  <2>1. ASSUME NEW y \in D
        PROVE  ((4 * 5060025 + 1) * y + pow2[0] * (2 * 27160 + 1)) % Modulus \in D
    <3>1. (4 * 5060025 + 1) * y + pow2[0] * (2 * 27160 + 1) = y * 20240101 + 54321
      BY <1>1
    <3> QED
      BY <3>1 DEF Drawn
  <2>2. Stepped(D, 5060025, 27160, 0)
    BY <2>1 DEF Stepped
  <2>3. PICK x \in D : TRUE
    OBVIOUS
  <2>4. Multiple(x, pow2[0])
    <3>1. x \in Nat /\ x = x * pow2[0]
      BY <1>1
    <3> QED
      BY <3>1 DEF Multiple
  <2> QED
    BY <2>2, <2>3, <2>4 DEF Stage
<1>3. Z = {}
  <2> SUFFICES ASSUME Z # {} PROVE FALSE
    OBVIOUS
  <2>1. PICK n \in Z : \A k \in Z : n <= k
    <3>1. Z \in SUBSET Nat
      OBVIOUS
    <3> HIDE DEF Z
    <3> QED
      BY <3>1, LeastNumber
  <2>2. n \in 0 .. Width /\ ~Stage(D, n)
    OBVIOUS
  <2> HIDE DEF Z
  <2>3. n # 0
    BY <1>2, <2>2
  <2> DEFINE j == n - 1
  <2>4. j \in 0 .. Width /\ j # Width /\ j + 1 = n /\ j \notin Z
    BY <2>1, <2>2, <2>3
  <2> HIDE DEF j
  <2>5. Stage(D, j)
    BY <2>4 DEF Z
  <2> QED
    BY <2>2, <2>4, <2>5, NextStage
<1>4. PICK u \in Nat : u * Modulus \in D
  BY <1>3 DEF Stage, Multiple, Modulus
<1>5. u * Modulus < Modulus
  BY <1>1, <1>4
<1>6. u = 0
  <2> SUFFICES ASSUME u # 0 PROVE FALSE
    OBVIOUS
  <2>1. u - 1 \in Nat /\ (u - 1) * Modulus >= 0 /\ u * Modulus = (u - 1) * Modulus + Modulus
    BY <1>1
  <2> QED
    BY <1>1, <1>5, <2>1
<1> QED
  BY <1>1, <1>4, <1>6

-----------------------------------------------------------------------------
(* The sessions given out.                                                 *)

SessionInv ==
  /\ state \in 0 .. Modulus - 1 /\ drawn \subseteq 0 .. Modulus - 1
  /\ state # 0 => state \in drawn /\ 0 \notin drawn
  /\ \A x \in drawn \ {state} : Drawn(x) \in drawn

LEMMA DrawnType ==
  ASSUME Width \in Nat
  PROVE  Modulus \in Nat \ {0} /\ \A s \in Nat : Drawn(s) \in 0 .. Modulus - 1
<1>1. Modulus \in Nat \ {0}
  BY PowPositive DEF Modulus
<1>2. ASSUME NEW s \in Nat PROVE Drawn(s) \in 0 .. Modulus - 1
  <2>1. s * 20240101 + 54321 \in Nat
    OBVIOUS
  <2> QED
    BY <1>1, <2>1, Divides DEF Drawn
<1> QED
  BY <1>1, <1>2

LEMMA DrawStep ==
  ASSUME Width \in Nat, Seeds \subseteq Nat, SessionInv, [getSessin]_<<state, drawn>>
  PROVE  SessionInv' /\ (state # 0 /\ ~UNCHANGED <<state, drawn>> => state' \notin drawn)
<1>1. Modulus \in Nat \ {0} /\ \A s \in Nat : Drawn(s) \in 0 .. Modulus - 1
  BY DrawnType
<1>2. CASE state = 0 /\ ~UNCHANGED <<state, drawn>>
  <2>1. PICK seed \in Seeds : state' = Drawn(seed) /\ drawn' = {state'}
    BY <1>2 DEF getSessin
  <2> QED
    BY <1>1, <1>2, <2>1 DEF SessionInv, Modulus
<1>3. CASE state # 0 /\ ~UNCHANGED <<state, drawn>>
  <2>1. /\ state' = Drawn(state) /\ drawn' = drawn \cup {state'}
        /\ state \in Nat /\ state \in drawn /\ 0 \notin drawn
        /\ drawn \in SUBSET (0 .. Modulus - 1)
    BY <1>1, <1>3 DEF getSessin, SessionInv
  <2>2. state' \notin drawn
    <3> SUFFICES ASSUME state' \in drawn PROVE FALSE
      OBVIOUS
    <3>1. \A x \in drawn : Drawn(x) \in drawn
      BY <2>1 DEF SessionInv
    <3> QED
      BY <2>1, <3>1, CycleHasZero
  <2>3. /\ state' \in 0 .. Modulus - 1 /\ drawn' \subseteq 0 .. Modulus - 1
        /\ state' # 0 => state' \in drawn' /\ 0 \notin drawn'
        /\ \A x \in drawn' \ {state'} : Drawn(x) \in drawn'
    BY <1>1, <2>1 DEF SessionInv
  <2> QED
    BY <2>2, <2>3 DEF SessionInv, Modulus
<1>4. CASE UNCHANGED <<state, drawn>>
  BY <1>4 DEF SessionInv, Modulus
<1> QED
  BY <1>2, <1>3, <1>4

\* For an int of any width, the 32 bits of the code among them, getSessin
\* returns no session twice between two seedings (game.cpp:42-48).
THEOREM SessionsAreNew ==
  ASSUME Width \in Nat, Seeds \subseteq Nat
  PROVE  SessionSpec => NoSessionTwice
<1>1. SessionInit => SessionInv
  BY DrawnType DEF SessionInit, SessionInv
<1>2. SessionInv /\ [getSessin]_<<state, drawn>> => SessionInv'
  BY DrawStep
<1>3. SessionInv /\ [getSessin]_<<state, drawn>> => [state # 0 => state' \notin drawn]_<<state, drawn>>
  BY DrawStep
<1> QED
  BY <1>1, <1>2, <1>3, PTL DEF SessionSpec, NoSessionTwice

-----------------------------------------------------------------------------
(* Reading a text, one token after the other.                              *)

\* Numbers of 16 bits, and the bytes of an IPv4 address.
Words == {n \in Nat : n <= 65535}
Octets == {n \in Nat : n <= 255}
Quads == Octets \X Octets \X Octets \X Octets

TextTokens ==
  {Colon} \cup {Hex(n) : n \in Words} \cup {<<"quad", q>> : q \in Quads}
ReadStates == [ok : BOOLEAN, groups : Seq(Int), colon : Int, val : Int]

\* What inet_pton6 does with each kind of token.
LEMMA TokenColon ==
  ASSUME NEW s \in ReadStates, s.ok, s.val # Finished
  PROVE  Token(s, Colon) =
           IF s.val # Empty THEN Store(s)
           ELSE IF s.colon # -1 THEN Refuse(s) ELSE [s EXCEPT !.colon = Len(s.groups)]
BY DEF Token, Colon

LEMMA TokenHex ==
  ASSUME NEW s \in ReadStates, s.ok, s.val = Empty, NEW n \in Words
  PROVE  Token(s, Hex(n)) = [s EXCEPT !.val = n]
<1> DEFINE t == Hex(n)
<1>1. t[1] = "hex" /\ t[2] = n /\ ~(t[2] > 65535) /\ s.val # Finished
  BY DEF Hex, Words, Empty, Finished
<1> HIDE DEF t
<1>2. Token(s, t) = [s EXCEPT !.val = t[2]]
  BY <1>1 DEF Token
<1> QED
  BY <1>1, <1>2 DEF t

LEMMA QuadKept ==
  ASSUME NEW q \in Quads
  PROVE  /\ inet_pton4(q) = q /\ q # << >>
         /\ <<256 * q[1] + q[2], 256 * q[3] + q[4]>> \in Seq(Int)
<1>1. PICK a \in Octets, b \in Octets, c \in Octets, d \in Octets : q = <<a, b, c, d>>
  BY DEF Quads
<1>2. Len(q) = 4 /\ q # << >> /\ DOMAIN q = 1 .. 4
  BY <1>1
<1>3. /\ q[1] = a /\ q[2] = b /\ q[3] = c /\ q[4] = d
      /\ a \in Nat /\ b \in Nat /\ c \in Nat /\ d \in Nat
      /\ a <= 255 /\ b <= 255 /\ c <= 255 /\ d <= 255
  BY <1>1 DEF Octets
<1>4. \A i \in 1 .. 4 : q[i] \in Nat /\ q[i] <= 255
  BY <1>3
<1>5. inet_pton4(q) = q
  BY <1>2, <1>4 DEF inet_pton4, Empty
<1>6. 256 * q[1] + q[2] \in Int /\ 256 * q[3] + q[4] \in Int
  BY <1>3
<1>7. <<256 * q[1] + q[2], 256 * q[3] + q[4]>> \in Seq(Int)
  BY <1>6
<1> QED
  BY <1>2, <1>5, <1>7

\* The groups that the bytes of an IPv4 address make.
Halves(q) == <<256 * q[1] + q[2], 256 * q[3] + q[4]>>

LEMMA TokenQuad ==
  ASSUME NEW s \in ReadStates, s.ok, s.val = Empty, Len(s.groups) <= 6,
         NEW q \in Quads
  PROVE  Token(s, <<"quad", q>>)
           = [s EXCEPT !.groups = s.groups \o Halves(q), !.val = Finished]
<1> DEFINE t == <<"quad", q>>
<1>1. t[1] = "quad" /\ t[2] = q
  OBVIOUS
<1>2. inet_pton4(t[2]) = q /\ q # << >>
  BY <1>1, QuadKept
<1> HIDE DEF t
<1>3. ~(Len(s.groups) > 6) /\ s.val # Finished
  <2>1. Len(s.groups) \in Nat
    BY DEF ReadStates
  <2> QED
    BY <2>1 DEF Empty, Finished
<1> QED
  BY <1>1, <1>2, <1>3 DEF Token, t, Halves

\* A text is read to a state, whatever the text.
LEMMA TokenType ==
  ASSUME NEW s \in ReadStates, NEW t \in TextTokens
  PROVE  Token(s, t) \in ReadStates
<1>1. ASSUME NEW r \in ReadStates, NEW v \in Int
      PROVE  [r EXCEPT !.val = v] \in ReadStates /\ [r EXCEPT !.colon = v] \in ReadStates
  <2>2. [r EXCEPT !.val = v] \in ReadStates
    BY DEF ReadStates
  <2>3. [r EXCEPT !.colon = v] \in ReadStates
    BY DEF ReadStates
  <2> QED
    BY <2>2, <2>3
<1>10. Refuse(s) \in ReadStates
  BY DEF ReadStates, Refuse
<1>2. ASSUME NEW h \in Seq(Int), NEW v \in Int
      PROVE  /\ [s EXCEPT !.groups = h] \in ReadStates
             /\ [s EXCEPT !.groups = h, !.val = v] \in ReadStates
  BY DEF ReadStates
<1>3. s.groups \in Seq(Int) /\ s.val \in Int /\ Len(s.groups) \in Int
  BY DEF ReadStates
<1>4. Store(s) \in ReadStates
  <2>1. Append(s.groups, s.val) \in Seq(Int) /\ Empty \in Int
    BY <1>3 DEF Empty
  <2> DEFINE r == [s EXCEPT !.groups = Append(s.groups, s.val)]
  <2>2. r \in ReadStates /\ [r EXCEPT !.val = Empty] \in ReadStates
    BY <1>1, <1>2, <2>1
  <2>3. [r EXCEPT !.val = Empty]
          = [s EXCEPT !.groups = Append(@, s.val), !.val = Empty]
    BY DEF ReadStates
  <2>4. Store(s) = Refuse(s) \/ Store(s) = [r EXCEPT !.val = Empty]
    BY <2>3, Zenon DEF Store
  <2> HIDE DEF r
  <2> QED
    BY <1>10, <2>2, <2>4
<1>5. CASE ~s.ok
  BY <1>5 DEF Token
<1>11. CASE s.ok /\ s.val = Finished
  <2>1. \/ Token(s, t) = Refuse(s)
        \/ Token(s, t) = [s EXCEPT !.val = t[2]] /\ s.val = Empty
        \/ Token(s, t) = [s EXCEPT !.colon = Len(s.groups)] /\ s.val = Empty
    BY <1>11 DEF Token
  <2> QED
    BY <1>10, <1>11, <2>1 DEF Empty, Finished
<1>6. CASE s.ok /\ s.val # Finished /\ t = Colon
  BY <1>1, <1>3, <1>4, <1>6, <1>10, TokenColon
<1>7. CASE s.ok /\ s.val # Finished /\ \E n \in Words : t = Hex(n)
  <2>1. PICK n \in Words : t = Hex(n)
    BY <1>7
  <2>2. t[1] = "hex" /\ t[2] = n
    BY <2>1 DEF Hex
  <2>3. Token(s, t) = Refuse(s) \/ Token(s, t) = [s EXCEPT !.val = n]
    BY <1>7, <2>2 DEF Token
  <2>4. n \in Int
    BY DEF Words
  <2> QED
    BY <1>1, <1>10, <2>3, <2>4
<1>8. CASE s.ok /\ s.val # Finished /\ \E q \in Quads : t = <<"quad", q>>
  <2>1. PICK q \in Quads : t = <<"quad", q>>
    BY <1>8
  <2>2. t[1] = "quad" /\ t[2] = q
    BY <2>1
  <2>3. inet_pton4(t[2]) = q
    BY <2>2, QuadKept
  <2> DEFINE h == <<256 * q[1] + q[2], 256 * q[3] + q[4]>>
  <2>4. h \in Seq(Int)
    BY QuadKept
  <2>5. \/ Token(s, t) = Refuse(s)
        \/ Token(s, t) = [s EXCEPT !.groups = s.groups \o h, !.val = Finished]
    <3>1. t[1] # "hex" /\ t[1] # ":"
      BY <2>2
    <3> QED
      BY <1>8, <2>2, <2>3, <3>1 DEF Token
  <2> HIDE DEF h
  <2>6. s.groups \o h \in Seq(Int)
    BY <1>3, <2>4
  <2>7. [s EXCEPT !.groups = s.groups \o h, !.val = Finished] \in ReadStates
    <3>1. Finished \in Int
      BY DEF Finished
    <3> QED
      BY <1>2, <2>6, <3>1
  <2> QED
    BY <1>10, <2>5, <2>7
<1>9. t = Colon \/ (\E n \in Words : t = Hex(n))
        \/ (\E q \in Quads : t = <<"quad", q>>)
  BY DEF TextTokens
<1> QED
  BY <1>5, <1>6, <1>7, <1>8, <1>9, <1>11

Reads(t) == FoldLeft(Token, Start6, t)
ReadStep(g, t, s) == IF s = {} THEN Start6 ELSE Token(g[s \ {Max(s)}], t[Max(s)])

\* The fold that inet_pton6 reads with.
LEMMA ReadsUnfold ==
  ASSUME NEW t
  PROVE  Reads(t) = (CHOOSE g : g = [s \in SUBSET DOMAIN t |-> ReadStep(g, t, s)])[DOMAIN t]
BY DEF Reads, FoldLeft, MapThenFoldSet, ReadStep

\* The states of the loop, before the first token and after each.
LEMMA ReadsLoop ==
  ASSUME NEW t \in Seq(TextTokens)
  PROVE  \E r : /\ Reads(t) = r[Len(t)] /\ r[0] = Start6
                /\ \A k \in 1 .. Len(t) : r[k] = Token(r[k - 1], t[k])
<1> DEFINE F == [p \in ReadStates \X TextTokens |-> Token(p[1], p[2])]
           g == CHOOSE g : g = [s \in SUBSET DOMAIN t |-> ReadStep(g, t, s)]
<1>1. PICK n \in Nat : n = Len(t) /\ DOMAIN t = 1 .. n /\ t \in [1 .. n -> TextTokens]
  OBVIOUS
<1>2. F \in [ReadStates \X TextTokens -> ReadStates]
  BY TokenType
<1>3. Start6 \in ReadStates
  BY DEF Start6, ReadStates, Empty
<1>4. \A p \in ReadStates, x \in TextTokens : F[<<p, x>>] = Token(p, x)
  OBVIOUS
<1> HIDE DEF F
<1>5. PICK h \in [SUBSET (1 .. n) -> ReadStates] : Tabled(h, F, Start6, t, n)
  BY <1>1, <1>2, <1>3, TableExists
<1>6. ASSUME NEW s \in SUBSET (1 .. n) PROVE h[s] = ReadStep(h, t, s)
  <2>1. h[s] = TableStep(h, F, Start6, t, s)
    BY <1>5 DEF Tabled
  <2>2. CASE s # {}
    <3>1. Max(s) \in s
      BY <2>2, MaxOf
    <3>2. s \ {Max(s)} \in SUBSET (1 .. n) /\ t[Max(s)] \in TextTokens
      BY <1>1, <3>1
    <3>3. h[s \ {Max(s)}] \in ReadStates
      BY <1>5, <3>2
    <3> QED
      BY <1>4, <2>1, <2>2, <3>2, <3>3 DEF TableStep, ReadStep
  <2> QED
    BY <2>1, <2>2 DEF TableStep, ReadStep
<1>7. h = [s \in SUBSET DOMAIN t |-> ReadStep(h, t, s)]
  BY <1>1, <1>5, <1>6
<1>8. g = [s \in SUBSET DOMAIN t |-> ReadStep(g, t, s)]
  BY <1>7
<1>9. Reads(t) = g[1 .. n]
  BY <1>1, ReadsUnfold
<1> HIDE DEF g
<1>10. \A s \in SUBSET (1 .. n) : g[s] = ReadStep(g, t, s)
  BY <1>1, <1>8
<1> DEFINE r == [k \in 0 .. n |-> g[1 .. k]]
<1>11. r[0] = Start6
  <2>1. 1 .. 0 = {} /\ {} \in SUBSET (1 .. n) /\ r[0] = g[1 .. 0]
    OBVIOUS
  <2>2. g[{}] = ReadStep(g, t, {})
    BY <1>10, <2>1
  <2>3. ReadStep(g, t, {}) = Start6
    BY DEF ReadStep
  <2> QED
    BY <2>1, <2>2, <2>3
<1>12. ASSUME NEW k \in 1 .. n PROVE r[k] = Token(r[k - 1], t[k])
  <2>1. /\ k \in Nat \ {0} /\ k \in 1 .. k
        /\ 1 .. k \in SUBSET (1 .. n) /\ 1 .. k \in SUBSET (1 .. k)
    OBVIOUS
  <2>4. 1 .. k # {} /\ (1 .. k) \ {k} = 1 .. k - 1
    BY <2>1, Below
  <2>2. Max(1 .. k) = k
    BY <2>1, MaxTop
  <2>3. g[1 .. k] = Token(g[1 .. k - 1], t[k])
    BY <1>10, <2>1, <2>2, <2>4 DEF ReadStep
  <2> QED
    BY <2>3
<1>13. r[n] = g[1 .. n]
  OBVIOUS
<1> HIDE DEF r
<1> QED
  BY <1>1, <1>9, <1>11, <1>12, <1>13

\* A text is read token by token.
LEMMA ReadsAppend ==
  ASSUME NEW t \in Seq(TextTokens), NEW x \in TextTokens
  PROVE  Reads(Append(t, x)) = Token(Reads(t), x)
<1> DEFINE u == Append(t, x)
<1>1. PICK n \in Nat : n = Len(t)
  OBVIOUS
<1>2. u \in Seq(TextTokens) /\ Len(u) = n + 1 /\ u[n + 1] = x /\ \A k \in 1 .. n : u[k] = t[k]
  BY <1>1
<1> HIDE DEF u
<1>3. PICK r : /\ Reads(t) = r[n] /\ r[0] = Start6
               /\ \A k \in 1 .. n : r[k] = Token(r[k - 1], t[k])
  BY <1>1, ReadsLoop
<1>4. PICK q : /\ Reads(u) = q[n + 1] /\ q[0] = Start6
               /\ \A k \in 1 .. n + 1 : q[k] = Token(q[k - 1], u[k])
  <2>1. u \in Seq(TextTokens)
    BY <1>2
  <2>2. \E q : /\ Reads(u) = q[Len(u)] /\ q[0] = Start6
               /\ \A k \in 1 .. Len(u) : q[k] = Token(q[k - 1], u[k])
    BY <2>1, ReadsLoop
  <2>3. Len(u) = n + 1
    BY <1>2
  <2> QED
    BY <2>2, <2>3
<1>5. r[n] = q[n]
  <2> DEFINE Z == {k \in 0 .. n : r[k] # q[k]}
  <2> SUFFICES ASSUME Z # {} PROVE FALSE
    OBVIOUS
  <2>1. PICK k \in Z : \A m \in Z : k <= m
    <3>1. Z \in SUBSET Nat
      OBVIOUS
    <3> HIDE DEF Z
    <3> QED
      BY <3>1, LeastNumber
  <2>2. k \in 1 .. n /\ r[k] # q[k] /\ k - 1 \notin Z
    BY <1>3, <1>4, <2>1
  <2>3. k - 1 \in 0 .. n /\ k \in 1 .. n + 1
    BY <2>2
  <2>4. r[k - 1] = q[k - 1]
    BY <2>2, <2>3
  <2> HIDE DEF Z
  <2> QED
    BY <1>2, <1>3, <1>4, <2>2, <2>3, <2>4
<1> QED
  BY <1>2, <1>3, <1>4, <1>5 DEF u

LEMMA ReadsNothing == Reads(<< >>) = Start6
<1>1. << >> \in Seq(TextTokens) /\ Len(<< >>) = 0
  OBVIOUS
<1> QED
  BY <1>1, ReadsLoop
-----------------------------------------------------------------------------
(* The run of zeros that a text leaves out.                                *)

\* The run b is none, or two groups of g or more, all zero.
IsRun(b, g) ==
  /\ b.base \in Nat /\ b.len \in Nat /\ 1 <= b.base /\ b.base + b.len <= 9
  /\ 2 <= b.len \/ (b.len = 0 /\ b.base = 9)
  /\ \A k \in Nat : b.base <= k /\ k < b.base + b.len => g[k] = 0

RunAt(g, i) ==
  [base |-> i, len |-> CHOOSE n \in 0 .. 9 - i : Zero(g, i, n) /\ ~Zero(g, i, n + 1)]
Longest(q) == FoldLeft(LAMBDA b, c : IF c.len > b.len THEN c ELSE b, NoRun, q)
LongestStep(h, q, s) ==
  IF s = {} THEN NoRun
  ELSE IF q[Max(s)].len > h[s \ {Max(s)}].len THEN q[Max(s)] ELSE h[s \ {Max(s)}]

\* The fold that Best is.
LEMMA BestUnfold ==
  ASSUME NEW g
  PROVE  LET best == Longest([i \in 1 .. 8 |-> RunAt(g, i)])
         IN  Best(g) = IF best.len < 2 THEN NoRun ELSE best
BY DEF Best, Longest, RunAt

LEMMA LongestUnfold ==
  ASSUME NEW q
  PROVE  Longest(q) = (CHOOSE h : h = [s \in SUBSET DOMAIN q |-> LongestStep(h, q, s)])[DOMAIN q]
BY DEF Longest, FoldLeft, MapThenFoldSet, LongestStep

\* The longest of some runs is one of them, or none.
LEMMA LongestOf ==
  ASSUME NEW I, NEW n \in Nat, NEW q \in [1 .. n -> I]
  PROVE  Longest(q) \in I \cup {NoRun}
<1> DEFINE V == I \cup {NoRun}
           F == [p \in V \X I |-> IF p[2].len > p[1].len THEN p[2] ELSE p[1]]
           g == CHOOSE g : g = [s \in SUBSET DOMAIN q |-> LongestStep(g, q, s)]
<1>1. F \in [V \X I -> V] /\ NoRun \in V
  OBVIOUS
<1>2. \A b \in V, c \in I : F[<<b, c>>] = IF c.len > b.len THEN c ELSE b
  OBVIOUS
<1>0. I \subseteq V
  OBVIOUS
<1> HIDE DEF F, V
<1>3. PICK h \in [SUBSET (1 .. n) -> V] : Tabled(h, F, NoRun, q, n)
  BY <1>1, TableExists
<1>4. ASSUME NEW s \in SUBSET (1 .. n) PROVE h[s] = LongestStep(h, q, s)
  <2>1. h[s] = TableStep(h, F, NoRun, q, s)
    BY <1>3 DEF Tabled
  <2>2. CASE s # {}
    <3>1. Max(s) \in s
      BY <2>2, MaxOf
    <3>2. s \ {Max(s)} \in SUBSET (1 .. n) /\ q[Max(s)] \in I
      BY <3>1
    <3>3. h[s \ {Max(s)}] \in V
      BY <1>3, <3>2
    <3> QED
      BY <1>2, <2>1, <2>2, <3>2, <3>3 DEF TableStep, LongestStep
  <2> QED
    BY <2>1, <2>2 DEF TableStep, LongestStep
<1>5. h = [s \in SUBSET DOMAIN q |-> LongestStep(h, q, s)]
  BY <1>3, <1>4
<1>6. g = [s \in SUBSET DOMAIN q |-> LongestStep(g, q, s)]
  BY <1>5
<1>7. Longest(q) = g[1 .. n]
  BY LongestUnfold
<1> HIDE DEF g
<1>8. \A s \in SUBSET (1 .. n) : g[s] = LongestStep(g, q, s)
  BY <1>6
<1> DEFINE Z == {k \in 0 .. n : g[1 .. k] \notin V}
<1>9. Z = {}
  <2> SUFFICES ASSUME Z # {} PROVE FALSE
    OBVIOUS
  <2>1. PICK k \in Z : \A m \in Z : k <= m
    <3>1. Z \in SUBSET Nat
      OBVIOUS
    <3> HIDE DEF Z
    <3> QED
      BY <3>1, LeastNumber
  <2>2. k \in 0 .. n /\ g[1 .. k] \notin V
    OBVIOUS
  <2>3. k # 0
    <3>1. 1 .. 0 = {} /\ {} \in SUBSET (1 .. n)
      OBVIOUS
    <3>2. g[{}] = LongestStep(g, q, {})
      BY <1>8, <3>1
    <3>3. g[{}] = NoRun
      BY <3>2 DEF LongestStep
    <3> QED
      BY <1>1, <2>2, <3>1, <3>3
  <2>4. k \in Nat \ {0} /\ k - 1 \in 0 .. n /\ k - 1 \notin Z
    BY <2>1, <2>2, <2>3
  <2>5. g[1 .. k - 1] \in V
    BY <2>4
  <2>6. /\ k \in 1 .. k /\ 1 .. k \in SUBSET (1 .. k) /\ 1 .. k \in SUBSET (1 .. n)
        /\ k \in 1 .. n
    BY <2>2, <2>4
  <2>7. Max(1 .. k) = k /\ 1 .. k # {} /\ (1 .. k) \ {k} = 1 .. k - 1
    BY <2>4, <2>6, MaxTop, Below
  <2>8. g[1 .. k] = IF q[k].len > g[1 .. k - 1].len THEN q[k] ELSE g[1 .. k - 1]
    BY <1>8, <2>6, <2>7 DEF LongestStep
  <2>9. q[k] \in V
    BY <1>0, <2>6
  <2> HIDE DEF Z
  <2> QED
    BY <2>2, <2>5, <2>8, <2>9
<1>10. n \notin Z /\ n \in 0 .. n
  BY <1>9
<1> QED
  BY <1>7, <1>10 DEF V

\* The length at each place is that of a run of zeros.
LEMMA RunAtIsRun ==
  ASSUME NEW g, NEW i \in Nat, 1 <= i, i <= 8
  PROVE  /\ RunAt(g, i).base = i /\ RunAt(g, i).len \in Nat
         /\ Zero(g, i, RunAt(g, i).len)
<1> DEFINE Z == {n \in Nat : ~Zero(g, i, n + 1)}
<1>1. PICK n \in Z : \A m \in Z : n <= m
  <2>1. Z \in SUBSET Nat
    OBVIOUS
  <2>2. 9 - i \in Z
    BY DEF Zero
  <2> HIDE DEF Z
  <2> QED
    BY <2>1, <2>2, LeastNumber
<1>2. n \in Nat /\ ~Zero(g, i, n + 1)
  OBVIOUS
<1>3. Zero(g, i, n)
  <2>1. CASE n = 0
    BY <2>1 DEF Zero
  <2>2. CASE n # 0
    <3>1. n - 1 \in Nat /\ n - 1 \notin Z
      BY <1>1, <1>2, <2>2
    <3>2. Zero(g, i, (n - 1) + 1)
      BY <3>1
    <3>3. (n - 1) + 1 = n
      BY <1>2
    <3> QED
      BY <3>2, <3>3
  <2> QED
    BY <2>1, <2>2
<1> HIDE DEF Z
<1>4. n \in 0 .. 9 - i
  BY <1>2, <1>3 DEF Zero
<1> DEFINE m == CHOOSE n_1 \in 0 .. 9 - i : Zero(g, i, n_1) /\ ~Zero(g, i, n_1 + 1)
<1>5. m \in 0 .. 9 - i /\ Zero(g, i, m)
  BY <1>2, <1>3, <1>4
<1>6. RunAt(g, i).base = i /\ RunAt(g, i).len = m
  BY DEF RunAt
<1> HIDE DEF m
<1> QED
  BY <1>5, <1>6

\* What is left out of a text is a run of zeros.
LEMMA BestIsRun ==
  ASSUME NEW g
  PROVE  IsRun(Best(g), g)
<1> DEFINE I == {RunAt(g, i) : i \in 1 .. 8}
           q == [i \in 1 .. 8 |-> RunAt(g, i)]
<1>1. q \in [1 .. 8 -> I]
  OBVIOUS
<1>2. Best(g) = IF Longest(q).len < 2 THEN NoRun ELSE Longest(q)
  BY BestUnfold
<1>3. ASSUME NEW b \in I, ~(b.len < 2) PROVE IsRun(b, g)
  <2>1. PICK i \in 1 .. 8 : b = RunAt(g, i)
    OBVIOUS
  <2>2. i \in Nat /\ 1 <= i /\ i <= 8
    OBVIOUS
  <2>3. b.base = i /\ b.len \in Nat /\ Zero(g, i, b.len)
    BY <2>1, <2>2, RunAtIsRun
  <2> QED
    BY <1>3, <2>2, <2>3 DEF IsRun, Zero
<1> HIDE DEF I, q
<1>4. Longest(q) \in I \cup {NoRun}
  <2>1. PICK n \in Nat : n = 8
    OBVIOUS
  <2>2. q \in [1 .. n -> I]
    BY <1>1, <2>1
  <2> QED
    BY <2>2, LongestOf
<1>5. NoRun.len = 0 /\ IsRun(NoRun, g)
  BY DEF NoRun, IsRun
<1> QED
  BY <1>2, <1>3, <1>4, <1>5
-----------------------------------------------------------------------------
(* The states in which a text of g is read.                                *)

Address6 == [1 .. 8 -> Words]
\* The first m groups of g that are not left out, and the loop's state.
Got(g, b, m) == [k \in 1 .. m |-> g[IF k < b.base THEN k ELSE k + b.len]]
Held(g, b, m, c, v) == [ok |-> TRUE, groups |-> Got(g, b, m), colon |-> c, val |-> v]

\* Which group is the m-th that is not left out.
Nth(b, m) == IF m < b.base THEN m ELSE m + b.len

LEMMA GroupType ==
  ASSUME NEW g \in Address6, NEW i \in Nat, 1 <= i, i <= 8
  PROVE  g[i] \in Words /\ g[i] \in Int /\ g[i] # Empty /\ g[i] # Finished
BY DEF Address6, Words, Empty, Finished

LEMMA GotType ==
  ASSUME NEW g \in Address6, NEW b, IsRun(b, g), NEW m \in Nat, m + b.len <= 8
  PROVE  Got(g, b, m) \in Seq(Int) /\ Len(Got(g, b, m)) = m
<1>1. ASSUME NEW k \in 1 .. m PROVE g[IF k < b.base THEN k ELSE k + b.len] \in Int
  <2>1. b.base \in Nat /\ b.len \in Nat
    BY DEF IsRun
  <2> DEFINE j == IF k < b.base THEN k ELSE k + b.len
  <2>2. j \in Nat /\ 1 <= j /\ j <= 8
    BY <2>1
  <2> QED
    BY <2>2, GroupType
<1> QED
  BY <1>1 DEF Got

LEMMA GotNext ==
  ASSUME NEW g \in Address6, NEW b, IsRun(b, g), NEW m \in Nat, m + 1 + b.len <= 8
  PROVE  Append(Got(g, b, m), g[Nth(b, m + 1)]) = Got(g, b, m + 1)
<1> DEFINE q == Got(g, b, m)
           x == g[Nth(b, m + 1)]
<1>0. b.base \in Nat /\ b.len \in Nat
  BY DEF IsRun
<1>1. q \in Seq(Int) /\ Len(q) = m /\ \A k \in 1 .. m : q[k] = g[Nth(b, k)]
  <2>1. m + b.len <= 8
    BY <1>0
  <2> QED
    BY <2>1, GotType DEF Got, Nth
<1>2. x \in Int
  <2>1. Nth(b, m + 1) \in Nat /\ 1 <= Nth(b, m + 1) /\ Nth(b, m + 1) <= 8
    BY <1>0 DEF Nth
  <2> QED
    BY <2>1, GroupType
<1>3. Got(g, b, m + 1) = [k \in 1 .. m + 1 |-> g[Nth(b, k)]]
  BY DEF Got, Nth
<1> HIDE DEF q, x
<1>4. Append(q, x) = [k \in 1 .. m + 1 |-> IF k <= m THEN q[k] ELSE x]
  <2> DEFINE a == Append(q, x)
  <2>1. a \in Seq(Int) /\ Len(a) = m + 1
    BY <1>1, <1>2
  <2>2. \A k \in 1 .. m + 1 : a[k] = IF k <= m THEN q[k] ELSE x
    BY <1>1, <1>2
  <2> HIDE DEF a
  <2>3. a = [k \in 1 .. m + 1 |-> a[k]]
    BY <2>1
  <2>4. a = [k \in 1 .. m + 1 |-> IF k <= m THEN q[k] ELSE x]
    BY <2>2, <2>3
  <2> QED
    BY <2>4 DEF a
<1>5. \A k \in 1 .. m + 1 : (IF k <= m THEN q[k] ELSE x) = g[Nth(b, k)]
  BY <1>1 DEF x
<1> QED
  BY <1>3, <1>4, <1>5 DEF q, x

LEMMA HeldType ==
  ASSUME NEW g \in Address6, NEW b, IsRun(b, g), NEW m \in Nat, m + b.len <= 8,
         NEW c \in Int, NEW v \in Int
  PROVE  /\ Held(g, b, m, c, v) \in ReadStates
         /\ Held(g, b, m, c, v).ok /\ Held(g, b, m, c, v).groups = Got(g, b, m)
         /\ Held(g, b, m, c, v).colon = c /\ Held(g, b, m, c, v).val = v
         /\ Len(Held(g, b, m, c, v).groups) = m
BY GotType DEF Held, ReadStates

\* A state with this content, and the states that follow it.
Only(q, c, v) == [ok : {TRUE}, groups : {q}, colon : {c}, val : {v}]

LEMMA HeldIs ==
  ASSUME NEW g, NEW b, NEW m, NEW c, NEW v, NEW s
  PROVE  s \in Only(Got(g, b, m), c, v) <=> s = Held(g, b, m, c, v)
<1>1. ASSUME NEW o, NEW q
      PROVE  s \in [ok : {o}, groups : {q}, colon : {c}, val : {v}]
               <=> s = [ok |-> o, groups |-> q, colon |-> c, val |-> v]
  OBVIOUS
<1> QED
  BY <1>1, Zenon DEF Only, Held

LEMMA OnlyExcept ==
  ASSUME NEW q, NEW c, NEW v, NEW s \in Only(q, c, v), NEW w, NEW x
  PROVE  /\ [s EXCEPT !.val = w] \in Only(q, c, w)
         /\ [s EXCEPT !.colon = w] \in Only(q, w, v)
         /\ [s EXCEPT !.groups = w] \in Only(w, c, v)
         /\ [s EXCEPT !.groups = w, !.val = x] \in Only(w, c, x)
<1>1. [s EXCEPT !.val = w] \in Only(q, c, w)
  BY DEF Only
<1>2. [s EXCEPT !.colon = w] \in Only(q, w, v)
  BY DEF Only
<1>3. [s EXCEPT !.groups = w] \in Only(w, c, v)
  BY DEF Only
<1>4. [s EXCEPT !.groups = w, !.val = x] \in Only(w, c, x)
  BY DEF Only
<1> QED
  BY <1>1, <1>2, <1>3, <1>4

\* A number that is followed by a colon is stored.
LEMMA ColonStores ==
  ASSUME NEW g \in Address6, NEW b, IsRun(b, g), NEW m \in Nat, m + 1 + b.len <= 8,
         NEW c \in Int
  PROVE  LET v == g[Nth(b, m + 1)]
         IN  /\ Store(Held(g, b, m, c, v)) = Held(g, b, m + 1, c, Empty)
             /\ Token(Held(g, b, m, c, v), Colon) = Held(g, b, m + 1, c, Empty)
<1> DEFINE v == g[Nth(b, m + 1)]
           s == Held(g, b, m, c, v)
<1>0. b.base \in Nat /\ b.len \in Nat
  BY DEF IsRun
<1>1. v \in Int /\ v # Empty /\ v # Finished
  <2>1. Nth(b, m + 1) \in Nat /\ 1 <= Nth(b, m + 1) /\ Nth(b, m + 1) <= 8
    BY <1>0 DEF Nth
  <2> QED
    BY <2>1, GroupType
<1>2. Append(Got(g, b, m), v) = Got(g, b, m + 1)
  BY GotNext
<1> HIDE DEF v
<1>3. /\ s \in ReadStates /\ s.ok /\ s.val = v /\ Len(s.groups) = m
      /\ s.groups = Got(g, b, m) /\ s.colon = c
  <2>1. m + b.len <= 8
    BY <1>0
  <2> QED
    BY <1>1, <2>1, HeldType
<1>4. Len(s.groups) # 8
  BY <1>0, <1>3
<1>5. [s EXCEPT !.groups = Append(@, s.val), !.val = Empty] = Held(g, b, m + 1, c, Empty)
  <2> HIDE DEF s
  <2>1. s \in Only(Got(g, b, m), c, v)
    BY HeldIs DEF s
  <2>2. [s EXCEPT !.groups = Append(s.groups, s.val), !.val = Empty]
          \in Only(Append(s.groups, s.val), c, Empty)
    BY <2>1, OnlyExcept
  <2>3. Append(s.groups, s.val) = Got(g, b, m + 1)
    BY <1>2, <1>3
  <2> QED
    BY <2>2, <2>3, HeldIs
<1> HIDE DEF s
<1>6. Store(s) = Held(g, b, m + 1, c, Empty)
  BY <1>4, <1>5 DEF Store
<1>7. Token(s, Colon) = Store(s)
  BY <1>1, <1>3, TokenColon
<1> QED
  BY <1>6, <1>7 DEF s, v

\* A colon behind a colon is where groups are left out.
LEMMA ColonMarks ==
  ASSUME NEW g \in Address6, NEW b, IsRun(b, g), NEW m \in Nat, m + b.len <= 8
  PROVE  Token(Held(g, b, m, -1, Empty), Colon) = Held(g, b, m, m, Empty)
<1> DEFINE s == Held(g, b, m, -1, Empty)
<1>1. /\ s \in ReadStates /\ s.ok /\ s.val = Empty /\ s.colon = -1 /\ Len(s.groups) = m
      /\ s.groups = Got(g, b, m) /\ s.val # Finished
  BY HeldType DEF Empty, Finished
<1> HIDE DEF s
<1>2. [s EXCEPT !.colon = m] = Held(g, b, m, m, Empty)
  <2>1. s \in Only(Got(g, b, m), -1, Empty)
    BY HeldIs DEF s
  <2>2. [s EXCEPT !.colon = m] \in Only(Got(g, b, m), m, Empty)
    BY <2>1, OnlyExcept
  <2> QED
    BY <2>2, HeldIs
<1>3. Token(s, Colon) = [s EXCEPT !.colon = m]
  BY <1>1, TokenColon
<1> QED
  BY <1>2, <1>3 DEF s

\* A number is held.
LEMMA HexHolds ==
  ASSUME NEW g \in Address6, NEW b, IsRun(b, g), NEW m \in Nat, m + b.len <= 8,
         NEW c \in Int, NEW n \in Words
  PROVE  Token(Held(g, b, m, c, Empty), Hex(n)) = Held(g, b, m, c, n)
<1> DEFINE s == Held(g, b, m, c, Empty)
<1>1. /\ s \in ReadStates /\ s.ok /\ s.val = Empty /\ s.groups = Got(g, b, m)
      /\ s.colon = c
  BY HeldType DEF Empty
<1> HIDE DEF s
<1>2. [s EXCEPT !.val = n] = Held(g, b, m, c, n)
  <2>1. s \in Only(Got(g, b, m), c, Empty)
    BY HeldIs DEF s
  <2>2. [s EXCEPT !.val = n] \in Only(Got(g, b, m), c, n)
    BY <2>1, OnlyExcept
  <2> QED
    BY <2>2, HeldIs
<1>3. Token(s, Hex(n)) = [s EXCEPT !.val = n]
  BY <1>1, TokenHex
<1> QED
  BY <1>2, <1>3 DEF s

\* An IPv4 text holds the bytes of the last two groups.
LEMMA Divided ==
  ASSUME NEW w \in Nat, NEW m \in Nat \ {0}
  PROVE  \E q \in Nat, r \in 0 .. m - 1 : q = w \div m /\ r = w % m /\ w = m * q + r
<1> DEFINE q == w \div m
           r == w % m
<1>1. r \in 0 .. m - 1 /\ q \in Nat /\ w = m * q + r
  OBVIOUS
<1>2. q = w \div m /\ r = w % m
  OBVIOUS
<1> HIDE DEF q, r
<1> QED
  BY <1>1, <1>2

LEMMA BytesKept ==
  ASSUME NEW g \in Address6
  PROVE  /\ Bytes(g) \in Quads
         /\ 256 * Bytes(g)[1] + Bytes(g)[2] = g[7]
         /\ 256 * Bytes(g)[3] + Bytes(g)[4] = g[8]
<1>1. ASSUME NEW w \in Words
      PROVE  \E x \in Octets, y \in Octets : x = w \div 256 /\ y = w % 256 /\ 256 * x + y = w
  <2>1. w \in Nat /\ w <= 65535
    BY DEF Words
  <2>2. PICK m \in Nat \ {0} : m = 256
    OBVIOUS
  <2>3. PICK x \in Nat, y \in 0 .. m - 1 : x = w \div m /\ y = w % m /\ w = m * x + y
    BY <2>1, Divided
  <2>4. x <= 255 /\ y <= 255 /\ 256 * x + y = w
    BY <2>1, <2>2, <2>3
  <2> QED
    BY <2>2, <2>3, <2>4 DEF Octets
<1>2. g[7] \in Words /\ g[8] \in Words
  BY DEF Address6
<1>3. PICK p \in Octets, q \in Octets :
        p = g[7] \div 256 /\ q = g[7] % 256 /\ 256 * p + q = g[7]
  BY <1>1, <1>2
<1>4. PICK r \in Octets, s \in Octets :
        r = g[8] \div 256 /\ s = g[8] % 256 /\ 256 * r + s = g[8]
  BY <1>1, <1>2
<1>5. Bytes(g) = <<p, q, r, s>>
  BY <1>3, <1>4 DEF Bytes
<1> QED
  BY <1>3, <1>4, <1>5 DEF Quads

LEMMA QuadStores ==
  ASSUME NEW g \in Address6, NEW b, IsRun(b, g), NEW m \in Nat, m + b.len = 6,
         b.base <= m + 1, NEW c \in Int
  PROVE  Token(Held(g, b, m, c, Empty), <<"quad", Bytes(g)>>) = Held(g, b, m + 2, c, Finished)
<1> DEFINE s == Held(g, b, m, c, Empty)
           h == Halves(Bytes(g))
<1>0. b.base \in Nat /\ b.len \in Nat
  BY DEF IsRun
<1>1. /\ s \in ReadStates /\ s.ok /\ s.val = Empty /\ Len(s.groups) <= 6
      /\ s.groups = Got(g, b, m) /\ s.colon = c
  <2>1. m + b.len <= 8 /\ m <= 6
    BY <1>0
  <2> QED
    BY <2>1, HeldType DEF Empty
<1>2. h = <<g[7], g[8]>>
  BY BytesKept DEF Halves
<1>3. Nth(b, m + 1) = 7 /\ Nth(b, (m + 1) + 1) = 8
  BY <1>0 DEF Nth
<1>4. Append(Append(Got(g, b, m), g[7]), g[8]) = Got(g, b, (m + 1) + 1)
  <2>1. Append(Got(g, b, m), g[7]) = Got(g, b, m + 1)
    BY <1>0, <1>3, GotNext
  <2>2. Append(Got(g, b, m + 1), g[8]) = Got(g, b, (m + 1) + 1)
    BY <1>0, <1>3, GotNext
  <2> QED
    BY <2>1, <2>2
<1>5. Got(g, b, m) \o <<g[7], g[8]>> = Append(Append(Got(g, b, m), g[7]), g[8])
  <2>1. Got(g, b, m) \in Seq(Int) /\ g[7] \in Int /\ g[8] \in Int
    BY <1>0, GotType, GroupType
  <2> QED
    BY <2>1
<1> HIDE DEF s, h
<1>6. [s EXCEPT !.groups = s.groups \o h, !.val = Finished] = Held(g, b, m + 2, c, Finished)
  <2>1. s \in Only(Got(g, b, m), c, Empty)
    BY HeldIs DEF s
  <2>2. [s EXCEPT !.groups = s.groups \o h, !.val = Finished]
          \in Only(s.groups \o h, c, Finished)
    BY <2>1, OnlyExcept
  <2>3. s.groups \o h = Got(g, b, m + 2)
    <3>1. (m + 1) + 1 = m + 2
      OBVIOUS
    <3> QED
      BY <1>1, <1>2, <1>4, <1>5, <3>1
  <2> QED
    BY <2>2, <2>3, HeldIs
<1>7. Token(s, <<"quad", Bytes(g)>>)
        = [s EXCEPT !.groups = s.groups \o h, !.val = Finished]
  <2>1. Bytes(g) \in Quads
    BY BytesKept
  <2> QED
    BY <1>1, <2>1, TokenQuad DEF h
<1> QED
  BY <1>6, <1>7 DEF s
-----------------------------------------------------------------------------
(* The words of a text, and the state behind each.                         *)

After(b) == b.base + b.len
Mapped(g, b) == b.base = 1 /\ (b.len = 6 \/ (b.len = 5 /\ g[6] = 65535))
InRun(b, i) == b.base <= i /\ i < After(b)
InQuad(g, b, i) == Mapped(g, b) /\ 7 <= i

Word(g, b, i) ==
  CASE i \in b.base .. After(b) - 1 -> IF i = b.base THEN <<Colon>> ELSE << >>
    [] Mapped(g, b) /\ i = 7 -> <<Colon, <<"quad", Bytes(g)>>>>
    [] Mapped(g, b) /\ i = 8 -> << >>
    [] OTHER -> IF i = 1 THEN <<Hex(g[i])>> ELSE <<Colon, Hex(g[i])>>
Closing(b) == IF b.len # 0 /\ After(b) = 9 THEN <<Colon>> ELSE << >>

\* The text of an address is its words, one after the other.
LEMMA TextUnfold ==
  ASSUME NEW g
  PROVE  inet_ntop6(g) = FlattenSeq([i \in 1 .. 8 |-> Word(g, Best(g), i)]) \o Closing(Best(g))
BY DEF inet_ntop6, Word, Mapped, After, Closing, inet_ntop4

LEMMA WordIs ==
  ASSUME NEW g, NEW b, IsRun(b, g), NEW i \in Nat, 1 <= i, i <= 8
  PROVE  /\ InRun(b, i) => Word(g, b, i) = IF i = b.base THEN <<Colon>> ELSE << >>
         /\ InQuad(g, b, i) =>
              Word(g, b, i) = IF i = 7 THEN <<Colon, <<"quad", Bytes(g)>>>> ELSE << >>
         /\ ~InRun(b, i) /\ ~InQuad(g, b, i) =>
              Word(g, b, i) = IF i = 1 THEN <<Hex(g[i])>> ELSE <<Colon, Hex(g[i])>>
<1>0. b.base \in Nat /\ b.len \in Nat /\ After(b) \in Nat
  BY DEF IsRun, After
<1>1. i \in b.base .. After(b) - 1 <=> InRun(b, i)
  BY <1>0 DEF InRun
<1>2. InQuad(g, b, i) => ~InRun(b, i) /\ (i = 7 \/ i = 8)
  BY <1>0 DEF InQuad, InRun, Mapped, After
<1>3. Mapped(g, b) /\ (i = 7 \/ i = 8) => InQuad(g, b, i)
  BY DEF InQuad
<1>4. CASE InRun(b, i)
  <2>1. ~(Mapped(g, b) /\ i = 7) /\ ~(Mapped(g, b) /\ i = 8)
    BY <1>2, <1>3, <1>4
  <2> QED
    BY <1>1, <1>2, <1>4, <2>1 DEF Word
<1>5. CASE InQuad(g, b, i)
  <2>1. Mapped(g, b) /\ 7 <= i /\ ~InRun(b, i) /\ (i = 7 \/ i = 8)
    BY <1>2, <1>5 DEF InQuad
  <2>2. CASE i = 7
    BY <1>1, <1>5, <2>1, <2>2 DEF Word
  <2>3. CASE i = 8
    BY <1>1, <1>5, <2>1, <2>3 DEF Word
  <2> QED
    BY <2>1, <2>2, <2>3
<1>6. CASE ~InRun(b, i) /\ ~InQuad(g, b, i)
  BY <1>1, <1>3, <1>6 DEF Word
<1> QED
  BY <1>4, <1>5, <1>6

LEMMA WordType ==
  ASSUME NEW g \in Address6, NEW b, IsRun(b, g), NEW i \in Nat, 1 <= i, i <= 8
  PROVE  Word(g, b, i) \in Seq(TextTokens)
<1>1. /\ Colon \in TextTokens /\ Hex(g[i]) \in TextTokens
      /\ <<"quad", Bytes(g)>> \in TextTokens
  BY GroupType, BytesKept DEF TextTokens
<1>2. ASSUME NEW x \in TextTokens, NEW y \in TextTokens
      PROVE  << >> \in Seq(TextTokens) /\ <<x>> \in Seq(TextTokens)
             /\ <<x, y>> \in Seq(TextTokens)
  OBVIOUS
<1> DEFINE h == Hex(g[i])
           q == <<"quad", Bytes(g)>>
           c == Colon
<1>3. /\ << >> \in Seq(TextTokens) /\ <<c>> \in Seq(TextTokens)
      /\ <<h>> \in Seq(TextTokens) /\ <<c, h>> \in Seq(TextTokens)
      /\ <<c, q>> \in Seq(TextTokens)
  <2>1. c \in TextTokens /\ h \in TextTokens /\ q \in TextTokens
    BY <1>1
  <2> HIDE DEF c, h, q
  <2> QED
    BY <1>2, <2>1
<1>4. \/ Word(g, b, i) = << >> \/ Word(g, b, i) = <<c>> \/ Word(g, b, i) = <<h>>
      \/ Word(g, b, i) = <<c, h>> \/ Word(g, b, i) = <<c, q>>
  BY WordIs
<1> HIDE DEF c, h, q
<1> QED
  BY <1>3, <1>4

\* Reading on by one token, and by two.
LEMMA ReadsOn ==
  ASSUME NEW u \in Seq(TextTokens), NEW x \in TextTokens, NEW y \in TextTokens
  PROVE  /\ u \o << >> = u
         /\ Reads(u \o <<x>>) = Token(Reads(u), x)
         /\ Reads(u \o <<x, y>>) = Token(Token(Reads(u), x), y)
<1>1. u \o << >> = u /\ u \o <<x>> = Append(u, x)
  OBVIOUS
<1>2. u \o <<x, y>> = Append(Append(u, x), y) /\ Append(u, x) \in Seq(TextTokens)
  OBVIOUS
<1> QED
  BY <1>1, <1>2, ReadsAppend

Count(g, b, i) ==
  IF i < b.base THEN i - 1
  ELSE IF i < After(b) THEN b.base - 1
  ELSE IF InQuad(g, b, i) THEN 8 - b.len ELSE i - 1 - b.len
Mark(b, i) == IF i < After(b) THEN -1 ELSE b.base - 1
AtHand(g, b, i) ==
  IF InRun(b, i) THEN Empty ELSE IF InQuad(g, b, i) THEN Finished ELSE g[i]
\* The state behind the i-th word.
StateAt(g, b, i) == Held(g, b, Count(g, b, i), Mark(b, i), AtHand(g, b, i))

\* The first word; of a text that begins with "::" the first colon is skipped.
LEMMA FirstWord ==
  ASSUME NEW g \in Address6, NEW b, IsRun(b, g)
  PROVE  Reads(IF b.base = 1 THEN << >> ELSE Word(g, b, 1)) = StateAt(g, b, 1)
<1>0. b.base \in Nat /\ b.len \in Nat /\ After(b) \in Nat /\ After(b) = b.base + b.len
  BY DEF IsRun, After
<1>1. Held(g, b, 0, -1, Empty) = Start6
  <2>1. Got(g, b, 0) = << >>
    BY DEF Got
  <2> QED
    BY <2>1 DEF Held, Start6
<1>2. CASE b.base = 1
  <2>1. InRun(b, 1) /\ Count(g, b, 1) = 0 /\ Mark(b, 1) = -1
    BY <1>0, <1>2 DEF IsRun, InRun, Count, Mark
  <2>2. StateAt(g, b, 1) = Held(g, b, 0, -1, Empty)
    BY <2>1 DEF StateAt, AtHand
  <2> QED
    BY <1>1, <1>2, <2>2, ReadsNothing
<1>3. CASE b.base # 1
  <2>1. /\ 1 < b.base /\ ~InRun(b, 1) /\ ~InQuad(g, b, 1)
        /\ Count(g, b, 1) = 0 /\ Mark(b, 1) = -1
    BY <1>0, <1>3 DEF IsRun, InRun, InQuad, Count, Mark
  <2>2. Word(g, b, 1) = <<Hex(g[1])>>
    BY <2>1, WordIs
  <2>3. g[1] \in Words /\ Hex(g[1]) \in TextTokens
    BY GroupType DEF TextTokens
  <2>4. Reads(<<Hex(g[1])>>) = Token(Start6, Hex(g[1]))
    <3>1. << >> \in Seq(TextTokens) /\ <<Hex(g[1])>> = Append(<< >>, Hex(g[1]))
      OBVIOUS
    <3> QED
      BY <2>3, <3>1, ReadsAppend, ReadsNothing
  <2>5. Token(Start6, Hex(g[1])) = Held(g, b, 0, -1, g[1])
    <3>1. 0 + b.len <= 8
      BY <1>0 DEF IsRun
    <3> QED
      BY <1>1, <2>3, <3>1, HexHolds
  <2>6. StateAt(g, b, 1) = Held(g, b, 0, -1, g[1])
    BY <2>1 DEF StateAt, AtHand
  <2> QED
    BY <1>3, <2>2, <2>4, <2>5, <2>6
<1> QED
  BY <1>2, <1>3

\* Each word leads from one state to the next.
LEMMA NextWord ==
  ASSUME NEW g \in Address6, NEW b, IsRun(b, g), NEW i \in Nat, 2 <= i, i <= 8,
         NEW u \in Seq(TextTokens), Reads(u) = StateAt(g, b, i - 1)
  PROVE  Reads(u \o Word(g, b, i)) = StateAt(g, b, i)
<1>0. /\ b.base \in Nat /\ b.len \in Nat /\ After(b) \in Nat /\ After(b) = b.base + b.len
      /\ 1 <= b.base /\ After(b) <= 9 /\ (2 <= b.len \/ (b.len = 0 /\ b.base = 9))
  BY DEF IsRun, After
<1> DEFINE w == Word(g, b, i)
<1>1. /\ InRun(b, i) => w = IF i = b.base THEN <<Colon>> ELSE << >>
      /\ InQuad(g, b, i) => w = IF i = 7 THEN <<Colon, <<"quad", Bytes(g)>>>> ELSE << >>
      /\ ~InRun(b, i) /\ ~InQuad(g, b, i) => w = <<Colon, Hex(g[i])>>
  <2>1. 1 <= i /\ i # 1
    OBVIOUS
  <2> QED
    BY <2>1, WordIs
<1> HIDE DEF w
<1>2. /\ Colon \in TextTokens /\ Hex(g[i]) \in TextTokens /\ g[i] \in Words
      /\ <<"quad", Bytes(g)>> \in TextTokens
  BY GroupType, BytesKept DEF TextTokens
<1>3. Reads(u \o <<Colon, Hex(g[i])>>) = Token(Token(StateAt(g, b, i - 1), Colon), Hex(g[i]))
  <2> DEFINE x == Colon
             y == Hex(g[i])
  <2>1. x \in TextTokens /\ y \in TextTokens
    BY <1>2
  <2> HIDE DEF x, y
  <2>2. Reads(u \o <<x, y>>) = Token(Token(Reads(u), x), y)
    BY <2>1, ReadsOn
  <2> QED
    BY <2>2 DEF x, y
<1>4. Reads(u \o <<Colon>>) = Token(StateAt(g, b, i - 1), Colon)
  BY <1>2, ReadsOn
<1>5. CASE i < b.base
  <2>1. /\ ~InRun(b, i) /\ ~InQuad(g, b, i) /\ ~InRun(b, i - 1) /\ ~InQuad(g, b, i - 1)
        /\ Count(g, b, i - 1) = i - 2 /\ Mark(b, i - 1) = -1
        /\ Count(g, b, i) = i - 1 /\ Mark(b, i) = -1
    BY <1>0, <1>5 DEF InRun, InQuad, Mapped, Count, Mark
  <2>2. /\ StateAt(g, b, i - 1) = Held(g, b, i - 2, -1, g[i - 1])
        /\ StateAt(g, b, i) = Held(g, b, i - 1, -1, g[i])
    BY <2>1 DEF StateAt, AtHand
  <2>3. Token(Held(g, b, i - 2, -1, g[i - 1]), Colon) = Held(g, b, i - 1, -1, Empty)
    <3> DEFINE m == i - 2
    <3>1. m \in Nat /\ m + 1 = i - 1 /\ m + 1 + b.len <= 8 /\ Nth(b, m + 1) = i - 1
      BY <1>0, <1>5 DEF Nth
    <3> HIDE DEF m
    <3>2. Token(Held(g, b, m, -1, g[Nth(b, m + 1)]), Colon) = Held(g, b, m + 1, -1, Empty)
      BY <3>1, ColonStores
    <3> QED
      BY <3>1, <3>2 DEF m
  <2>4. Token(Held(g, b, i - 1, -1, Empty), Hex(g[i])) = Held(g, b, i - 1, -1, g[i])
    <3>1. i - 1 \in Nat /\ (i - 1) + b.len <= 8
      BY <1>0, <1>5
    <3> QED
      BY <1>2, <3>1, HexHolds
  <2> QED
    BY <1>1, <1>3, <2>1, <2>2, <2>3, <2>4 DEF w
<1>6. CASE i = b.base
  <2>1. /\ InRun(b, i) /\ ~InRun(b, i - 1) /\ ~InQuad(g, b, i - 1)
        /\ Count(g, b, i - 1) = i - 2 /\ Mark(b, i - 1) = -1
        /\ Count(g, b, i) = i - 1 /\ Mark(b, i) = -1
    BY <1>0, <1>6 DEF InRun, InQuad, Mapped, Count, Mark
  <2>2. /\ StateAt(g, b, i - 1) = Held(g, b, i - 2, -1, g[i - 1])
        /\ StateAt(g, b, i) = Held(g, b, i - 1, -1, Empty)
    BY <2>1 DEF StateAt, AtHand
  <2>3. Token(Held(g, b, i - 2, -1, g[i - 1]), Colon) = Held(g, b, i - 1, -1, Empty)
    <3> DEFINE m == i - 2
    <3>1. m \in Nat /\ m + 1 = i - 1 /\ m + 1 + b.len <= 8 /\ Nth(b, m + 1) = i - 1
      BY <1>0, <1>6 DEF Nth
    <3> HIDE DEF m
    <3>2. Token(Held(g, b, m, -1, g[Nth(b, m + 1)]), Colon) = Held(g, b, m + 1, -1, Empty)
      BY <3>1, ColonStores
    <3> QED
      BY <3>1, <3>2 DEF m
  <2> QED
    BY <1>1, <1>4, <1>6, <2>1, <2>2, <2>3 DEF w
<1>7. CASE b.base < i /\ i < After(b)
  <2>1. /\ InRun(b, i) /\ InRun(b, i - 1) /\ i # b.base
        /\ Count(g, b, i - 1) = b.base - 1 /\ Mark(b, i - 1) = -1
        /\ Count(g, b, i) = b.base - 1 /\ Mark(b, i) = -1
    BY <1>0, <1>7 DEF InRun, Count, Mark
  <2>2. StateAt(g, b, i) = StateAt(g, b, i - 1)
    BY <2>1 DEF StateAt, AtHand
  <2>3. u \o << >> = u
    OBVIOUS
  <2> QED
    BY <1>1, <2>1, <2>2, <2>3 DEF w
<1>8. CASE i = After(b) /\ ~InQuad(g, b, i)
  <2>1. /\ ~InRun(b, i) /\ InRun(b, i - 1)
        /\ Count(g, b, i - 1) = b.base - 1 /\ Mark(b, i - 1) = -1
        /\ Count(g, b, i) = b.base - 1 /\ Mark(b, i) = b.base - 1
    BY <1>0, <1>8 DEF InRun, Count, Mark
  <2>2. /\ StateAt(g, b, i - 1) = Held(g, b, b.base - 1, -1, Empty)
        /\ StateAt(g, b, i) = Held(g, b, b.base - 1, b.base - 1, g[i])
    BY <1>8, <2>1 DEF StateAt, AtHand
  <2>3. b.base - 1 \in Nat /\ (b.base - 1) + b.len <= 8
    BY <1>0
  <2>4. Token(Held(g, b, b.base - 1, -1, Empty), Colon)
          = Held(g, b, b.base - 1, b.base - 1, Empty)
    BY <2>3, ColonMarks
  <2>5. Token(Held(g, b, b.base - 1, b.base - 1, Empty), Hex(g[i]))
          = Held(g, b, b.base - 1, b.base - 1, g[i])
    BY <1>2, <2>3, HexHolds
  <2> QED
    BY <1>1, <1>3, <1>8, <2>1, <2>2, <2>4, <2>5 DEF w
<1>9. CASE After(b) < i /\ ~InQuad(g, b, i)
  <2> DEFINE m == i - 2 - b.len
             c == b.base - 1
  <2>1. /\ ~InRun(b, i) /\ ~InRun(b, i - 1) /\ ~InQuad(g, b, i - 1)
        /\ Count(g, b, i - 1) = m /\ Mark(b, i - 1) = c
        /\ Count(g, b, i) = m + 1 /\ Mark(b, i) = c
    <3>1. /\ ~InRun(b, i) /\ ~InRun(b, i - 1) /\ ~InQuad(g, b, i - 1)
          /\ ~(i < b.base) /\ ~(i < After(b)) /\ ~(i - 1 < b.base) /\ ~(i - 1 < After(b))
      BY <1>0, <1>9 DEF InRun, InQuad
    <3>2. Count(g, b, i - 1) = i - 1 - 1 - b.len /\ Count(g, b, i) = i - 1 - b.len
      BY <1>9, <3>1 DEF Count
    <3>3. Mark(b, i - 1) = c /\ Mark(b, i) = c
      BY <3>1 DEF Mark
    <3>4. i - 1 - 1 - b.len = m /\ i - 1 - b.len = m + 1
      BY <1>0
    <3> QED
      BY <3>1, <3>2, <3>3, <3>4
  <2>2. /\ StateAt(g, b, i - 1) = Held(g, b, m, c, g[i - 1])
        /\ StateAt(g, b, i) = Held(g, b, m + 1, c, g[i])
    BY <1>9, <2>1 DEF StateAt, AtHand
  <2>3. /\ m \in Nat /\ c \in Int /\ m + 1 + b.len <= 8 /\ Nth(b, m + 1) = i - 1
        /\ m + 1 \in Nat
    BY <1>0, <1>9 DEF Nth
  <2> HIDE DEF m, c
  <2>4. Token(Held(g, b, m, c, g[Nth(b, m + 1)]), Colon) = Held(g, b, m + 1, c, Empty)
    BY <2>3, ColonStores
  <2>5. Token(Held(g, b, m + 1, c, Empty), Hex(g[i])) = Held(g, b, m + 1, c, g[i])
    BY <1>2, <2>3, HexHolds
  <2> QED
    BY <1>1, <1>3, <1>9, <2>1, <2>2, <2>3, <2>4, <2>5 DEF w
<1>10. CASE InQuad(g, b, i) /\ i = 7
  <2>1. Reads(u \o <<Colon, <<"quad", Bytes(g)>>>>)
          = Token(Token(StateAt(g, b, 6), Colon), <<"quad", Bytes(g)>>)
    <3> DEFINE x == Colon
               y == <<"quad", Bytes(g)>>
    <3>1. x \in TextTokens /\ y \in TextTokens /\ Reads(u) = StateAt(g, b, 6)
      BY <1>2, <1>10
    <3> HIDE DEF x, y
    <3>2. Reads(u \o <<x, y>>) = Token(Token(Reads(u), x), y)
      BY <3>1, ReadsOn
    <3> QED
      BY <3>1, <3>2 DEF x, y
  <2>2. /\ b.base = 1 /\ After(b) <= 7 /\ ~InQuad(g, b, 6) /\ ~InRun(b, 7)
        /\ Count(g, b, 7) = 8 - b.len /\ Mark(b, 7) = 0
    BY <1>0, <1>10 DEF InQuad, InRun, Mapped, Count, Mark
  <2>3. StateAt(g, b, 7) = Held(g, b, 8 - b.len, 0, Finished)
    BY <1>10, <2>2 DEF StateAt, AtHand
  <2>4. CASE b.len = 6
    <3>1. InRun(b, 6) /\ Count(g, b, 6) = 0 /\ Mark(b, 6) = -1
      BY <1>0, <2>2, <2>4 DEF InRun, Count, Mark
    <3>2. StateAt(g, b, 6) = Held(g, b, 0, -1, Empty)
      BY <3>1 DEF StateAt, AtHand
    <3>3. Token(Held(g, b, 0, -1, Empty), Colon) = Held(g, b, 0, 0, Empty)
      BY <2>4, ColonMarks
    <3>4. Token(Held(g, b, 0, 0, Empty), <<"quad", Bytes(g)>>) = Held(g, b, 0 + 2, 0, Finished)
      BY <2>2, <2>4, QuadStores
    <3>5. 8 - b.len = 0 + 2
      BY <2>4
    <3> QED
      BY <1>1, <1>10, <2>1, <2>3, <3>2, <3>3, <3>4, <3>5 DEF w
  <2>5. CASE b.len # 6
    <3>0. b.len = 5 /\ After(b) = 6
      BY <1>0, <1>10, <2>5 DEF InQuad, Mapped
    <3>1. ~InRun(b, 6) /\ Count(g, b, 6) = 0 /\ Mark(b, 6) = 0
      BY <2>2, <3>0 DEF InRun, Count, Mark
    <3>2. StateAt(g, b, 6) = Held(g, b, 0, 0, g[6])
      BY <2>2, <3>1 DEF StateAt, AtHand
    <3>3. Token(Held(g, b, 0, 0, g[6]), Colon) = Held(g, b, 0 + 1, 0, Empty)
      <4>1. 0 + 1 + b.len <= 8 /\ Nth(b, 0 + 1) = 6
        BY <2>2, <3>0 DEF Nth
      <4>2. Token(Held(g, b, 0, 0, g[Nth(b, 0 + 1)]), Colon) = Held(g, b, 0 + 1, 0, Empty)
        BY <4>1, ColonStores
      <4> QED
        BY <4>1, <4>2
    <3>4. Token(Held(g, b, 1, 0, Empty), <<"quad", Bytes(g)>>) = Held(g, b, 1 + 2, 0, Finished)
      BY <2>2, <3>0, QuadStores
    <3>5. 8 - b.len = 1 + 2 /\ 0 + 1 = 1
      BY <3>0
    <3> QED
      BY <1>1, <1>10, <2>1, <2>3, <3>2, <3>3, <3>4, <3>5 DEF w
  <2> QED
    BY <2>4, <2>5
<1>11. CASE InQuad(g, b, i) /\ i # 7
  <2>1. i = 8 /\ InQuad(g, b, 7) /\ After(b) <= 7 /\ b.base = 1
    BY <1>0, <1>11 DEF InQuad, Mapped
  <2>2. /\ Count(g, b, 8) = 8 - b.len /\ Mark(b, 8) = b.base - 1
        /\ Count(g, b, 7) = 8 - b.len /\ Mark(b, 7) = b.base - 1
        /\ ~InRun(b, 7) /\ ~InRun(b, 8)
    BY <1>0, <1>11, <2>1 DEF Count, Mark, InRun
  <2>3. StateAt(g, b, 8) = StateAt(g, b, 7)
    BY <1>11, <2>1, <2>2 DEF StateAt, AtHand
  <2>4. u \o << >> = u /\ i - 1 = 7
    BY <2>1
  <2> QED
    BY <1>1, <1>11, <2>1, <2>3, <2>4 DEF w
<1>12. ~(i < b.base) /\ i # b.base /\ ~(b.base < i /\ i < After(b)) /\ i # After(b)
         => After(b) < i
  BY <1>0
<1>13. InQuad(g, b, i) => ~(i < b.base) /\ i # b.base /\ ~(i < After(b))
  BY <1>0 DEF InQuad, Mapped
<1> QED
  BY <1>5, <1>6, <1>7, <1>8, <1>9, <1>10, <1>11, <1>12, <1>13
-----------------------------------------------------------------------------
(* A text is read back.                                                    *)

\* The words of a text, joined one after the other.
LEMMA WordsJoined ==
  ASSUME NEW g, NEW b
  PROVE  \E f : /\ FlattenSeq([i \in 1 .. 8 |-> Word(g, b, i)]) = f[8]
                /\ f[1] = Word(g, b, 1)
                /\ \A i \in Nat : 2 <= i /\ i <= 8 => f[i] = f[i - 1] \o Word(g, b, i)
<1>1. PICK n \in Nat : n = 8
  OBVIOUS
<1> DEFINE s == [i \in 1 .. n |-> Word(g, b, i)]
<1>2. Len(s) = n /\ \A i \in 1 .. n : s[i] = Word(g, b, i)
  OBVIOUS
<1> HIDE DEF s
<1>3. PICK f : FlattenSeq(s) = f[Len(s)] /\ \A i \in 1 .. Len(s) : f[i] = FlattenStep(f, s, i)
  <2>1. Len(s) \in Nat \ {0}
    BY <1>1, <1>2
  <2> QED
    BY <2>1, FlattenUnfold
<1>4. FlattenSeq(s) = f[n] /\ \A i \in 1 .. n : f[i] = FlattenStep(f, s, i)
  BY <1>2, <1>3
<1>5. f[1] = Word(g, b, 1)
  <2>1. 1 \in 1 .. n
    BY <1>1
  <2> QED
    BY <1>2, <1>4, <2>1 DEF FlattenStep
<1>6. ASSUME NEW i \in Nat, 2 <= i, i <= n
      PROVE  f[i] = f[i - 1] \o Word(g, b, i)
  <2>1. i \in 1 .. n /\ i # 1
    BY <1>6
  <2> QED
    BY <1>2, <1>4, <2>1 DEF FlattenStep
<1> QED
  BY <1>1, <1>4, <1>5, <1>6 DEF s

\* The text u of the words up to the i-th, without the colon it may begin
\* with, is read to the i-th state.
ReadUpTo(g, b, i, f, u) ==
  /\ f = IF b.base = 1 THEN <<Colon>> \o u ELSE u
  /\ Reads(u) = StateAt(g, b, i)
  /\ b.base = 1 /\ i < After(b) => u = << >>
  /\ b.base = 1 /\ After(b) <= i => u # << >> /\ u[1] = Colon
  /\ b.base # 1 => u # << >> /\ u[1] = Hex(g[1])

\* What a sequence begins with, and a sequence behind one element.
LEMMA Begins ==
  ASSUME NEW T, NEW u \in Seq(T), NEW w \in Seq(T), NEW x \in T
  PROVE  /\ u # << >> => u \o w # << >> /\ (u \o w)[1] = u[1]
         /\ u = << >> => u \o w = w
         /\ w = << >> => u \o w = u
         /\ u \o w \in Seq(T)
         /\ (<<x>> \o u) \o w = <<x>> \o (u \o w)
<1>1. u # << >> => u \o w # << >> /\ (u \o w)[1] = u[1]
  OBVIOUS
<1>2. u = << >> => u \o w = w
  OBVIOUS
<1>3. w = << >> => u \o w = u
  OBVIOUS
<1>4. u \o w \in Seq(T) /\ <<x>> \in Seq(T)
  OBVIOUS
<1>5. (<<x>> \o u) \o w = <<x>> \o (u \o w)
  BY <1>4, ConcatAssociative
<1> QED
  BY <1>1, <1>2, <1>3, <1>4, <1>5

LEMMA ReadFirst ==
  ASSUME NEW g \in Address6, NEW b, IsRun(b, g), NEW f, f = Word(g, b, 1)
  PROVE  \E u \in Seq(TextTokens) : ReadUpTo(g, b, 1, f, u)
<1>0. /\ b.base \in Nat /\ b.len \in Nat /\ After(b) = b.base + b.len
      /\ 1 <= b.base /\ (2 <= b.len \/ (b.len = 0 /\ b.base = 9))
  BY DEF IsRun, After
<1> DEFINE u == IF b.base = 1 THEN << >> ELSE Word(g, b, 1)
<1>1. u \in Seq(TextTokens)
  BY WordType
<1>2. Reads(u) = StateAt(g, b, 1)
  BY FirstWord
<1>3. CASE b.base = 1
  <2>1. InRun(b, 1) /\ 1 < After(b)
    BY <1>0, <1>3 DEF InRun
  <2>2. Word(g, b, 1) = <<Colon>>
    BY <1>3, <2>1, WordIs
  <2>3. <<Colon>> \o << >> = <<Colon>>
    OBVIOUS
  <2>4. ~(After(b) <= 1)
    BY <1>0, <2>1
  <2> QED
    BY <1>1, <1>2, <1>3, <2>2, <2>3, <2>4 DEF ReadUpTo
<1>4. CASE b.base # 1
  <2>1. ~InRun(b, 1) /\ ~InQuad(g, b, 1)
    BY <1>0, <1>4 DEF InRun, InQuad
  <2>2. Word(g, b, 1) = <<Hex(g[1])>>
    BY <2>1, WordIs
  <2>3. ASSUME NEW x PROVE <<x>> # << >> /\ <<x>>[1] = x
    OBVIOUS
  <2>4. u # << >> /\ u[1] = Hex(g[1])
    BY <1>4, <2>2, <2>3
  <2> QED
    BY <1>1, <1>2, <1>4, <2>4 DEF ReadUpTo
<1> QED
  BY <1>3, <1>4

LEMMA ReadNext ==
  ASSUME NEW g \in Address6, NEW b, IsRun(b, g), NEW i \in Nat, 2 <= i, i <= 8,
         NEW f, NEW u \in Seq(TextTokens), ReadUpTo(g, b, i - 1, f, u)
  PROVE  \E v \in Seq(TextTokens) : ReadUpTo(g, b, i, f \o Word(g, b, i), v)
<1>0. /\ b.base \in Nat /\ b.len \in Nat /\ After(b) = b.base + b.len
      /\ 1 <= b.base /\ (2 <= b.len \/ (b.len = 0 /\ b.base = 9))
  BY DEF IsRun, After
<1> DEFINE w == Word(g, b, i)
<1>1. w \in Seq(TextTokens) /\ Colon \in TextTokens
  BY <1>0, WordType DEF TextTokens
<1>2. b.base = 1 /\ i < After(b) => w = << >>
  <2>1. b.base = 1 /\ i < After(b) => InRun(b, i) /\ i # b.base
    BY DEF InRun
  <2> QED
    BY <2>1, WordIs
<1>3. b.base = 1 /\ i = After(b) => w # << >> /\ w[1] = Colon
  <2> SUFFICES ASSUME b.base = 1, i = After(b) PROVE w # << >> /\ w[1] = Colon
    OBVIOUS
  <2>1. ~InRun(b, i) /\ (InQuad(g, b, i) => i = 7)
    BY <1>0 DEF InRun, InQuad, Mapped
  <2>2. w = <<Colon, <<"quad", Bytes(g)>>>> \/ w = <<Colon, Hex(g[i])>>
    BY <2>1, WordIs
  <2>3. ASSUME NEW x, NEW y PROVE <<x, y>> # << >> /\ <<x, y>>[1] = x
    OBVIOUS
  <2> QED
    BY <2>2, <2>3
<1> HIDE DEF w
<1> DEFINE v == u \o w
<1>4. Reads(v) = StateAt(g, b, i)
  <2>1. Reads(u) = StateAt(g, b, i - 1)
    BY DEF ReadUpTo
  <2> QED
    BY <2>1, NextWord DEF w
<1>5. /\ v \in Seq(TextTokens) /\ (<<Colon>> \o u) \o w = <<Colon>> \o v
      /\ u # << >> => v # << >> /\ v[1] = u[1]
      /\ u = << >> => v = w
  BY <1>1, Begins
<1> HIDE DEF v
<1>6. f \o w = IF b.base = 1 THEN <<Colon>> \o v ELSE v
  <2>1. f = IF b.base = 1 THEN <<Colon>> \o u ELSE u
    BY DEF ReadUpTo
  <2> QED
    BY <1>5, <2>1 DEF v
<1>7. CASE b.base = 1
  <2>1. CASE i < After(b)
    <3>1. u = << >> /\ v = << >>
      BY <1>0, <1>2, <1>5, <1>7, <2>1 DEF ReadUpTo
    <3>2. ~(After(b) <= i)
      BY <1>0, <2>1
    <3> QED
      BY <1>4, <1>5, <1>6, <1>7, <3>1, <3>2 DEF ReadUpTo, w
  <2>2. CASE i = After(b)
    <3>1. v # << >> /\ v[1] = Colon
      BY <1>0, <1>3, <1>5, <1>7, <2>2 DEF ReadUpTo
    <3>2. ~(i < After(b))
      BY <2>2
    <3> QED
      BY <1>4, <1>5, <1>6, <1>7, <3>1, <3>2 DEF ReadUpTo, w
  <2>3. CASE After(b) < i
    <3>1. v # << >> /\ v[1] = Colon
      BY <1>0, <1>5, <1>7, <2>3 DEF ReadUpTo
    <3>2. ~(i < After(b))
      BY <1>0, <2>3
    <3> QED
      BY <1>4, <1>5, <1>6, <1>7, <3>1, <3>2 DEF ReadUpTo, w
  <2> QED
    BY <1>0, <2>1, <2>2, <2>3
<1>8. CASE b.base # 1
  <2>1. v # << >> /\ v[1] = Hex(g[1])
    BY <1>5, <1>8 DEF ReadUpTo
  <2> QED
    BY <1>4, <1>5, <1>6, <1>8, <2>1 DEF ReadUpTo, w
<1> QED
  BY <1>7, <1>8

\* All the words are joined to a text that is read to the last state.
LEMMA ReadAll ==
  ASSUME NEW g \in Address6, NEW b, IsRun(b, g)
  PROVE  \E u \in Seq(TextTokens) :
           ReadUpTo(g, b, 8, FlattenSeq([i \in 1 .. 8 |-> Word(g, b, i)]), u)
<1>1. PICK f : /\ FlattenSeq([i \in 1 .. 8 |-> Word(g, b, i)]) = f[8]
               /\ f[1] = Word(g, b, 1)
               /\ \A i \in Nat : 2 <= i /\ i <= 8 => f[i] = f[i - 1] \o Word(g, b, i)
  BY WordsJoined
<1> DEFINE P(i) == \E u \in Seq(TextTokens) : ReadUpTo(g, b, i, f[i], u)
           Z == {i \in Nat : 1 <= i /\ i <= 8 /\ ~P(i)}
<1>2. P(1)
  BY <1>1, ReadFirst
<1>3. ASSUME NEW i \in Nat, 2 <= i, i <= 8, P(i - 1) PROVE P(i)
  <2>1. PICK u \in Seq(TextTokens) : ReadUpTo(g, b, i - 1, f[i - 1], u)
    BY <1>3
  <2>2. \E v \in Seq(TextTokens) : ReadUpTo(g, b, i, f[i - 1] \o Word(g, b, i), v)
    BY <1>3, <2>1, ReadNext
  <2> QED
    BY <1>1, <1>3, <2>2
<1> HIDE DEF P
<1>4. Z = {}
  <2> SUFFICES ASSUME Z # {} PROVE FALSE
    OBVIOUS
  <2>1. PICK i \in Z : \A m \in Z : i <= m
    <3>1. Z \in SUBSET Nat
      OBVIOUS
    <3> HIDE DEF Z
    <3> QED
      BY <3>1, LeastNumber
  <2>2. i \in Nat /\ 2 <= i /\ i <= 8 /\ ~P(i) /\ i - 1 \in Nat /\ i - 1 \notin Z
    BY <1>2, <2>1
  <2>3. P(i - 1)
    BY <2>2
  <2> QED
    BY <1>3, <2>2, <2>3
<1>5. P(8)
  BY <1>4
<1> QED
  BY <1>1, <1>5 DEF P

\* The number at hand behind the last token.
Stored(s) == IF s.ok /\ s.val \notin {Empty, Finished} THEN Store(s) ELSE s
\* The state in which a text of g has been read.
Final(g, b) ==
  Held(g, b, 8 - b.len, IF b.len = 0 THEN -1 ELSE b.base - 1,
       IF InQuad(g, b, 8) THEN Finished ELSE Empty)

LEMMA Stores ==
  ASSUME NEW g \in Address6, NEW b, IsRun(b, g), ~(b.len # 0 /\ After(b) = 9)
  PROVE  Stored(StateAt(g, b, 8)) = Final(g, b)
<1>0. /\ b.base \in Nat /\ b.len \in Nat /\ After(b) = b.base + b.len
      /\ 1 <= b.base /\ After(b) <= 9 /\ (2 <= b.len \/ (b.len = 0 /\ b.base = 9))
  BY DEF IsRun, After
<1> DEFINE c == IF b.len = 0 THEN -1 ELSE b.base - 1
<1>1. ~InRun(b, 8) /\ Mark(b, 8) = c /\ c \in Int
  BY <1>0 DEF InRun, Mark
<1> HIDE DEF c
<1>2. CASE InQuad(g, b, 8)
  <2>1. Count(g, b, 8) = 8 - b.len
    BY <1>0, <1>1, <1>2 DEF Count, InRun, InQuad, Mapped
  <2>2. StateAt(g, b, 8) = Held(g, b, 8 - b.len, c, Finished)
    BY <1>1, <1>2, <2>1 DEF StateAt, AtHand
  <2>3. StateAt(g, b, 8).val = Finished
    BY <2>2 DEF Held
  <2> QED
    BY <1>2, <2>2, <2>3 DEF Stored, Final, c
<1>3. CASE ~InQuad(g, b, 8)
  <2> DEFINE m == 7 - b.len
  <2>1. Count(g, b, 8) = m
    BY <1>0, <1>1, <1>3 DEF Count, InRun
  <2>2. m \in Nat /\ m + 1 = 8 - b.len /\ m + 1 + b.len <= 8 /\ Nth(b, m + 1) = 8
    BY <1>0 DEF Nth
  <2> HIDE DEF m
  <2>3. StateAt(g, b, 8) = Held(g, b, m, c, g[8])
    BY <1>1, <1>3, <2>1 DEF StateAt, AtHand
  <2>4. Held(g, b, m, c, g[8]).ok /\ Held(g, b, m, c, g[8]).val \notin {Empty, Finished}
    BY GroupType DEF Held
  <2>5. Store(Held(g, b, m, c, g[Nth(b, m + 1)])) = Held(g, b, m + 1, c, Empty)
    BY <1>1, <2>2, ColonStores
  <2> QED
    BY <1>3, <2>2, <2>3, <2>4, <2>5 DEF Stored, Final, c
<1> QED
  BY <1>2, <1>3

\* A run up to the end of an address is closed by one more colon.
LEMMA Closes ==
  ASSUME NEW g \in Address6, NEW b, IsRun(b, g), b.len # 0, After(b) = 9
  PROVE  Stored(Token(StateAt(g, b, 8), Colon)) = Final(g, b)
<1>0. /\ b.base \in Nat /\ b.len \in Nat /\ b.base + b.len = 9 /\ 2 <= b.len /\ 1 <= b.base
  BY DEF IsRun, After
<1>1. InRun(b, 8) /\ ~InQuad(g, b, 8) /\ Count(g, b, 8) = b.base - 1 /\ Mark(b, 8) = -1
  BY <1>0 DEF InRun, InQuad, Mapped, Count, Mark, After
<1>2. StateAt(g, b, 8) = Held(g, b, b.base - 1, -1, Empty)
  BY <1>1 DEF StateAt, AtHand
<1>3. b.base - 1 \in Nat /\ b.base - 1 + b.len <= 8 /\ b.base - 1 = 8 - b.len
  BY <1>0
<1>4. Token(StateAt(g, b, 8), Colon) = Held(g, b, b.base - 1, b.base - 1, Empty)
  BY <1>2, <1>3, ColonMarks
<1>5. Held(g, b, b.base - 1, b.base - 1, Empty).val = Empty
  BY DEF Held
<1> QED
  BY <1>0, <1>1, <1>3, <1>4, <1>5 DEF Stored, Final

\* The groups behind the run are moved back to their places.
LEMMA Restores ==
  ASSUME NEW g \in Address6, NEW b, IsRun(b, g)
  PROVE  /\ b.len # 0 => Shifted(Got(g, b, 8 - b.len), b.base - 1) = g
         /\ b.len = 0 => Got(g, b, 8) = g
<1>0. /\ b.base \in Nat /\ b.len \in Nat /\ b.base + b.len <= 9 /\ 1 <= b.base
      /\ 2 <= b.len \/ (b.len = 0 /\ b.base = 9)
      /\ \A k \in Nat : b.base <= k /\ k < b.base + b.len => g[k] = 0
  BY DEF IsRun
<1>1. PICK n \in Nat : n = 8
  OBVIOUS
<1>2. g = [i \in 1 .. n |-> g[i]]
  BY <1>1 DEF Address6
<1>3. ASSUME b.len = 0 PROVE Got(g, b, 8) = g
  <2>1. \A k \in 1 .. n : (IF k < b.base THEN k ELSE k + b.len) = k
    BY <1>0, <1>1, <1>3
  <2>2. Got(g, b, n) = [k \in 1 .. n |-> g[IF k < b.base THEN k ELSE k + b.len]]
    BY DEF Got
  <2> QED
    BY <1>1, <1>2, <2>1, <2>2
<1>4. ASSUME b.len # 0 PROVE Shifted(Got(g, b, 8 - b.len), b.base - 1) = g
  <2> DEFINE m == 8 - b.len
             c == b.base - 1
             q == Got(g, b, m)
  <2>0. m \in Nat /\ m + b.len = n /\ c \in Nat /\ m # 8 /\ m - c = 9 - (b.base + b.len)
    BY <1>0, <1>1, <1>4
  <2>1. Len(q) = m /\ \A k \in 1 .. m : q[k] = g[IF k < b.base THEN k ELSE k + b.len]
    BY <1>1, <2>0, GotType DEF Got
  <2> HIDE DEF q
  <2>2. Shifted(q, c) = [i \in 1 .. n |-> IF i > n - (m - c) THEN q[i - n + m]
                                          ELSE IF i <= c THEN q[i] ELSE 0]
    BY <1>1, <2>0, <2>1 DEF Shifted
  <2>3. ASSUME NEW i \in 1 .. n
        PROVE  (IF i > n - (m - c) THEN q[i - n + m] ELSE IF i <= c THEN q[i] ELSE 0) = g[i]
    <3>1. CASE i > n - (m - c)
      <4>1. i - n + m \in 1 .. m /\ ~(i - n + m < b.base) /\ (i - n + m) + b.len = i
        BY <1>0, <1>1, <2>0, <3>1
      <4> QED
        BY <2>1, <3>1, <4>1
    <3>2. CASE ~(i > n - (m - c)) /\ i <= c
      <4>1. i \in 1 .. m /\ i < b.base
        BY <1>0, <1>1, <2>0, <3>2
      <4> QED
        BY <2>1, <3>2, <4>1
    <3>3. CASE ~(i > n - (m - c)) /\ ~(i <= c)
      <4>1. b.base <= i /\ i < b.base + b.len /\ i \in Nat
        BY <1>0, <1>1, <2>0, <3>3
      <4> QED
        BY <1>0, <3>3, <4>1
    <3> QED
      BY <3>1, <3>2, <3>3
  <2>4. Shifted(q, c) = g
    <3> HIDE DEF m, c
    <3> QED
      BY <1>2, <2>2, <2>3
  <2> QED
    BY <2>4 DEF q
<1> QED
  BY <1>3, <1>4

\* The result of inet_pton6 on a text without a lone colon at its beginning.
LEMMA Result ==
  ASSUME NEW g \in Address6, NEW b, IsRun(b, g), NEW s, s = Final(g, b)
  PROVE  /\ s.ok
         /\ g = IF s.colon # -1 THEN Shifted(s.groups, s.colon)
                ELSE IF Len(s.groups) = 8 THEN s.groups ELSE << >>
<1>0. b.len \in Nat /\ b.base \in Nat /\ 1 <= b.base /\ 8 - b.len \in Nat
  BY DEF IsRun
<1>1. /\ s.ok /\ s.groups = Got(g, b, 8 - b.len) /\ Len(s.groups) = 8 - b.len
      /\ s.colon = IF b.len = 0 THEN -1 ELSE b.base - 1
  <2> DEFINE c == IF b.len = 0 THEN -1 ELSE b.base - 1
             v == IF InQuad(g, b, 8) THEN Finished ELSE Empty
             m == 8 - b.len
  <2>1. s = Held(g, b, m, c, v)
    BY DEF Final
  <2>2. c \in Int /\ v \in Int
    BY <1>0 DEF Empty, Finished
  <2>3. m \in Nat /\ m + b.len <= 8
    BY <1>0
  <2> HIDE DEF c, v, m
  <2>4. s.ok /\ s.groups = Got(g, b, m) /\ Len(s.groups) = m /\ s.colon = c
    BY <2>1, <2>2, <2>3, HeldType
  <2> QED
    BY <2>4 DEF c, m
<1>2. CASE b.len = 0
  BY <1>1, <1>2, Restores
<1>3. CASE b.len # 0
  <2>1. s.colon = b.base - 1 /\ s.colon # -1
    BY <1>0, <1>1, <1>3
  <2> QED
    BY <1>1, <1>3, <2>1, Restores
<1> QED
  BY <1>2, <1>3

\* inet_pton6 with its parts named.
LEMMA ReadUnfold ==
  ASSUME NEW t
  PROVE  LET rest == IF t # << >> /\ t[1] = Colon THEN Tail(t) ELSE t
             lone == t # << >> /\ t[1] = Colon /\ (Len(t) = 1 \/ t[2] # Colon)
             s    == Stored(Reads(rest))
         IN  inet_pton6(t) = IF lone \/ ~s.ok THEN << >>
                             ELSE IF s.colon # -1 THEN Shifted(s.groups, s.colon)
                             ELSE IF Len(s.groups) = 8 THEN s.groups ELSE << >>
BY DEF inet_pton6, Stored, Reads

\* The text inet_ntop makes of an IPv6 address is read back by inet_pton as
\* that address, whatever the address: whichever groups "::" stands for, and
\* with the last two groups as an IPv4 text or not.
THEOREM AddressesReadBack == \A g \in Address6 : ReadBack(g)
<1> TAKE g \in Address6
<1>1. PICK b : b = Best(g) /\ IsRun(b, g)
  BY BestIsRun
<1> DEFINE f == FlattenSeq([i \in 1 .. 8 |-> Word(g, b, i)])
           w == Closing(b)
           t == inet_ntop6(g)
<1>2. t = f \o w
  BY <1>1, TextUnfold
<1>3. PICK u \in Seq(TextTokens) : ReadUpTo(g, b, 8, f, u)
  BY <1>1, ReadAll
<1>4. Colon \in TextTokens /\ w \in Seq(TextTokens)
  <2>1. Colon \in TextTokens
    BY DEF TextTokens
  <2> QED
    BY <2>1 DEF Closing
<1> HIDE DEF f
<1> DEFINE v == u \o w
<1>5. Stored(Reads(v)) = Final(g, b)
  <2>1. Reads(u) = StateAt(g, b, 8)
    BY <1>3 DEF ReadUpTo
  <2>2. CASE b.len # 0 /\ After(b) = 9
    <3>1. w = <<Colon>>
      BY <2>2 DEF Closing
    <3>2. Reads(v) = Token(StateAt(g, b, 8), Colon)
      BY <1>4, <2>1, <3>1, ReadsOn
    <3> QED
      BY <1>1, <2>2, <3>2, Closes
  <2>3. CASE ~(b.len # 0 /\ After(b) = 9)
    <3>1. w = << >> /\ v = u
      BY <2>3 DEF Closing
    <3> QED
      BY <1>1, <2>1, <2>3, <3>1, Stores
  <2> QED
    BY <2>2, <2>3
<1>6. /\ v \in Seq(TextTokens) /\ (<<Colon>> \o u) \o w = <<Colon>> \o v
      /\ u # << >> => v # << >> /\ v[1] = u[1]
      /\ u = << >> => v = w
  BY <1>4, Begins
<1>7. b.base = 1 => v # << >> /\ v[1] = Colon
  <2> SUFFICES ASSUME b.base = 1 PROVE v # << >> /\ v[1] = Colon
    OBVIOUS
  <2>0. b.len \in Nat /\ 2 <= b.len /\ After(b) = 1 + b.len /\ After(b) <= 9
    BY <1>1 DEF IsRun, After
  <2>1. CASE After(b) <= 8
    BY <1>3, <1>6, <2>1 DEF ReadUpTo
  <2>2. CASE ~(After(b) <= 8)
    <3>1. After(b) = 9 /\ b.len # 0 /\ 8 < After(b)
      BY <2>0, <2>2
    <3>2. w = <<Colon>> /\ u = << >>
      BY <1>3, <3>1 DEF Closing, ReadUpTo
    <3>3. ASSUME NEW x PROVE <<x>> # << >> /\ <<x>>[1] = x
      OBVIOUS
    <3> QED
      BY <1>6, <3>2, <3>3
  <2> QED
    BY <2>1, <2>2
<1>8. CASE b.base = 1
  <2>1. t = <<Colon>> \o v
    BY <1>2, <1>3, <1>6, <1>8 DEF ReadUpTo
  <2> HIDE DEF t, v
  <2>2. ASSUME NEW x \in TextTokens
        PROVE  /\ <<x>> \o v # << >> /\ (<<x>> \o v)[1] = x /\ Tail(<<x>> \o v) = v
               /\ v # << >> => Len(<<x>> \o v) # 1 /\ (<<x>> \o v)[2] = v[1]
    BY <1>6
  <2>3. /\ t # << >> /\ t[1] = Colon /\ Tail(t) = v
        /\ v # << >> => Len(t) # 1 /\ t[2] = v[1]
    <3> DEFINE x == Colon
    <3>1. x \in TextTokens /\ t = <<x>> \o v
      BY <1>4, <2>1
    <3> HIDE DEF x
    <3>2. /\ <<x>> \o v # << >> /\ (<<x>> \o v)[1] = x /\ Tail(<<x>> \o v) = v
          /\ v # << >> => Len(<<x>> \o v) # 1 /\ (<<x>> \o v)[2] = v[1]
      BY <2>2, <3>1
    <3>3. /\ t # << >> /\ t[1] = x /\ Tail(t) = v
          /\ v # << >> => Len(t) # 1 /\ t[2] = v[1]
      BY <3>1, <3>2
    <3> QED
      BY <3>3 DEF x
  <2>4. ~(Len(t) = 1 \/ t[2] # Colon)
    <3>1. v # << >> /\ v[1] = Colon
      BY <1>7, <1>8
    <3> QED
      BY <2>3, <3>1
  <2> QED
    <3> DEFINE rest == IF t # << >> /\ t[1] = Colon THEN Tail(t) ELSE t
               lone == t # << >> /\ t[1] = Colon /\ (Len(t) = 1 \/ t[2] # Colon)
               s    == Stored(Reads(rest))
    <3>1. rest = v /\ ~lone
      BY <2>3, <2>4
    <3>2. inet_pton6(t) = IF lone \/ ~s.ok THEN << >>
                          ELSE IF s.colon # -1 THEN Shifted(s.groups, s.colon)
                          ELSE IF Len(s.groups) = 8 THEN s.groups ELSE << >>
      BY ReadUnfold
    <3>3. s = Final(g, b)
      BY <1>5, <3>1
    <3> HIDE DEF rest, lone, s
    <3>4. inet_pton6(t) = g
      BY <1>1, <3>1, <3>2, <3>3, Result
    <3> QED
      BY <3>4 DEF ReadBack, t
<1>9. CASE b.base # 1
  <2>1. t = v
    BY <1>2, <1>3, <1>9 DEF ReadUpTo
  <2>2. v[1] = Hex(g[1])
    BY <1>3, <1>6, <1>9 DEF ReadUpTo
  <2>3. ASSUME NEW x PROVE Hex(x) # Colon
    BY DEF Hex, Colon
  <2> HIDE DEF t, v
  <2>4. t[1] # Colon
    BY <2>1, <2>2, <2>3
  <2> QED
    BY <1>1, <1>5, <2>1, <2>4, ReadUnfold, Result DEF ReadBack, t
<1> QED
  BY <1>8, <1>9

-----------------------------------------------------------------------------
(* IPv4 texts.                                                             *)

\* What inet_pton takes of the parts between the dots of an IPv4 text, the
\* IPv4-only version takes as the same bytes, and it reads what the other
\* writes: for all texts, of however many parts.
THEOREM QuadsAgree ==
  ASSUME NEW P
  PROVE  \A t \in Seq(P) : SameQuad(t)
<1> TAKE t \in Seq(P)
<1> SUFFICES ASSUME inet_pton4(t) # << >>
             PROVE  /\ inet_pton_ipv4(t) = inet_pton4(t)
                    /\ inet_pton4(inet_ntop_ipv4(inet_pton_ipv4(t))) = inet_pton4(t)
  BY DEF SameQuad
<1>1. /\ Len(t) = 4 /\ \A i \in DOMAIN t : t[i] # Empty /\ t[i] <= 255
      /\ inet_pton4(t) = t
  BY DEF inet_pton4
<1>2. PICK n \in Nat : n = 4
  OBVIOUS
<1>3. DOMAIN t = 1 .. n /\ t = [i \in 1 .. n |-> t[i]]
  BY <1>1, <1>2
<1>4. inet_aton(t) = [i \in 1 .. n |-> IF i \in DOMAIN t /\ t[i] # Empty THEN t[i] ELSE 0]
  BY <1>1, <1>2 DEF inet_aton
<1>5. inet_aton(t) = t
  BY <1>1, <1>3, <1>4
<1> QED
  BY <1>1, <1>5 DEF inet_pton_ipv4, inet_ntop_ipv4

-----------------------------------------------------------------------------
(* Names and texts of what libgai has listed.                              *)

\* What an entry that libgai has made of a request for addresses is like.
LEMMA EntryIs ==
  ASSUME NEW r, NEW a, Answers(a, r), NEW i \in DOMAIN a.list
  PROVE  LET e == a.list[i]
         IN  /\ e.family \in Internet \cap FamiliesOf(r) /\ e.addr \in AddressesOf(r, e.family)
             /\ e.socktype \in TypesOf(r) /\ e.port = PortOf(r, e.socktype)
<1>1. PICK s : Fresh(s, r) /\ About(s, r) /\ Listing(a.list, s, r)
  BY DEF Answers
<1>2. PICK w \in [DOMAIN a.list -> DOMAIN s] : Lists(w, a.list, s, r)
  BY <1>1 DEF Listing
<1>3. /\ w[i] \in DOMAIN s
      /\ a.list[i].family = s[w[i]].family /\ a.list[i].addr = s[w[i]].addr
      /\ a.list[i].socktype \in TypesOf(r)
      /\ a.list[i].port = PortOf(r, a.list[i].socktype)
  BY <1>2 DEF Lists
<1> QED
  BY <1>1, <1>3 DEF About

\* Whatever a request is about is listed, with each socket type.
LEMMA EntryFor ==
  ASSUME NEW r, NEW a, Answers(a, r), NEW f \in Internet \cap FamiliesOf(r),
         NEW x \in AddressesOf(r, f), NEW st \in TypesOf(r)
  PROVE  \E i \in DOMAIN a.list :
           /\ a.list[i].family = f /\ a.list[i].addr = x
           /\ a.list[i].socktype = st /\ a.list[i].port = PortOf(r, st)
<1>1. PICK s : About(s, r) /\ Listing(a.list, s, r)
  BY DEF Answers
<1>2. PICK w \in [DOMAIN a.list -> DOMAIN s] : Lists(w, a.list, s, r)
  BY <1>1 DEF Listing
<1>3. PICK k \in DOMAIN s : s[k].family = f /\ s[k].addr = x
  BY <1>1 DEF About
<1>4. PICK i \in DOMAIN a.list : w[i] = k /\ a.list[i].socktype = st
  BY <1>2, <1>3 DEF Lists
<1> QED
  BY <1>2, <1>3, <1>4 DEF Lists

\* The addresses of a family are literals of that family.
LEMMA AddressesAreLiterals ==
  ASSUME NEW r, NEW f \in Internet, NEW x \in AddressesOf(r, f)
  PROVE  FamilyOf(x) = f
<1>1. \A h : \A y \in ToSet(LookUp(h, f)) : FamilyOf(y) = f
  <2> TAKE h
  <2>1. CASE h \in DOMAIN Dns
    BY <2>1, NamesAssumption DEF LookUp
  <2>2. CASE h \notin DOMAIN Dns
    BY <2>2, EmptyOnce DEF LookUp
  <2> QED
    BY <2>1, <2>2
<1>2. f = "AF_INET" \/ f = "AF_INET6"
  BY DEF Internet
<1>3. FamilyOf(IF f = "AF_INET" THEN "0.0.0.0" ELSE "0::0") = f
  BY <1>2, FamilyOfKnown
<1>4. f = "AF_INET6" => FamilyOf("0::1") = f
  BY FamilyOfKnown
<1>5. CASE FamilyOf(r.host) = f
  <2>1. r.host # NoText
    BY <1>2, <1>5, FamilyOfKnown
  <2>2. AddressesOf(r, f) = {r.host}
    BY <1>5, <2>1 DEF AddressesOf
  <2> QED
    BY <1>5, <2>2
<1>6. CASE FamilyOf(r.host) # f /\ r.host = NoText
  BY <1>1, <1>3, <1>4, <1>6 DEF AddressesOf
<1>7. CASE FamilyOf(r.host) # f /\ r.host # NoText
  BY <1>1, <1>7 DEF AddressesOf
<1> QED
  BY <1>5, <1>6, <1>7

\* The entries of a Unix domain path.
LEMMA PathEntries ==
  ASSUME NEW r, NEW i \in DOMAIN ga_unix(r).list
  PROVE  LET e == ga_unix(r).list[i]
         IN  /\ e.family = "AF_LOCAL" /\ e.addr = r.serv /\ e.port = 0
             /\ e.socktype # AnyType /\ r.serv \notin LongPaths
<1> DEFINE entry(st) == ga_aistruct(st, r.serv, "AF_LOCAL")
           l == ga_unix(r).list
<1>1. \A st : /\ entry(st).family = "AF_LOCAL" /\ entry(st).addr = r.serv
              /\ entry(st).port = 0 /\ entry(st).socktype = st
  BY DEF ga_aistruct
<1>2. \A s : Fail(s).list = << >>
  BY DEF Fail
<1>3. \A q, c : Succeed(q, c).list = q
  BY DEF Succeed
<1>4. r.serv \notin LongPaths
  BY <1>2 DEF ga_unix
<1>5. \/ l = << >>
      \/ r.socktype = AnyType /\ l = <<entry("SOCK_STREAM"), entry("SOCK_DGRAM")>>
      \/ r.socktype # AnyType /\ l = <<entry(r.socktype)>>
  BY <1>2, <1>3 DEF ga_unix
<1>6. "SOCK_STREAM" # AnyType /\ "SOCK_DGRAM" # AnyType
  BY DEF AnyType
<1> HIDE DEF l, entry
<1>7. \/ l[i] = entry("SOCK_STREAM") \/ l[i] = entry("SOCK_DGRAM")
      \/ r.socktype # AnyType /\ l[i] = entry(r.socktype)
  BY <1>5 DEF l
<1> QED
  BY <1>1, <1>4, <1>6, <1>7 DEF l

\* An entry is told by its text from the others of its list.
LEMMA TextsTell ==
  ASSUME NEW r, lib = "libgai", NEW a \in getaddrinfo(r)
  PROVE  TextTells(a.list)
<1> DEFINE l == a.list
<1>1. CASE \E s : s # Ok /\ a = Fail(s)
  BY <1>1 DEF Fail, TextTells
<1>2. CASE a = ga_unix(r)
  <2>1. \A i \in DOMAIN l : l[i].family = "AF_LOCAL" /\ l[i].addr = r.serv
    BY <1>2, PathEntries
  <2>2. "AF_LOCAL" \notin Internet
    BY DEF Internet
  <2> QED
    BY <2>1, <2>2 DEF TextTells, sock_ntop_host, sock_cmp_addr
<1>3. CASE Answers(a, r)
  <2>1. \A i \in DOMAIN l : l[i].family \in Internet /\ FamilyOf(l[i].addr) = l[i].family
    BY <1>3, EntryIs, AddressesAreLiterals
  <2> HIDE DEF l
  <2> SUFFICES ASSUME NEW i \in DOMAIN l, NEW j \in DOMAIN l
               PROVE  /\ (sock_ntop_host(l[i]) = sock_ntop_host(l[j]))
                           <=> (sock_cmp_addr(l[i], l[j]) = 0)
                      /\ (sock_ntop(l[i]) = sock_ntop(l[j]))
                           <=> (sock_cmp_addr(l[i], l[j]) = 0 /\ sock_cmp_port(l[i], l[j]) = 1)
    BY DEF TextTells, l
  <2> DEFINE x == l[i]  y == l[j]
  <2>2. sock_cmp_addr(x, y) = 0 <=> x.addr = y.addr
    BY <2>1 DEF sock_cmp_addr
  <2>3. sock_cmp_port(x, y) = 1 <=> x.family = y.family /\ x.port = y.port
    BY <2>1 DEF sock_cmp_port, sock_get_port
  <2>4. x.family \in {"AF_INET", "AF_INET6"} /\ y.family \in {"AF_INET", "AF_INET6"}
    BY <2>1 DEF Internet
  <2>5. sock_ntop(x) = sock_ntop(y)
          <=> x.addr = y.addr /\ x.family = y.family /\ x.port = y.port
    <3>1. x.addr = y.addr => x.family = y.family
      BY <2>1
    <3> HIDE DEF x, y
    <3>2. ASSUME NEW e, e.family \in {"AF_INET", "AF_INET6"}
          PROVE  sock_ntop(e) = IF e.port = 0 THEN <<e.addr>>
                                ELSE IF e.family = "AF_INET" THEN <<e.addr, ":", e.port>>
                                ELSE <<"[", e.addr, "]:", e.port>>
      BY <3>2 DEF sock_ntop
    <3>3. ASSUME NEW p, NEW q, NEW u, NEW v
          PROVE  /\ <<p>> # <<q, ":", v>> /\ <<p>> # <<"[", q, "]:", v>>
                 /\ <<p, ":", u>> # <<"[", q, "]:", v>>
                 /\ <<p>> = <<q>> => p = q
                 /\ <<p, ":", u>> = <<q, ":", v>> => p = q /\ u = v
                 /\ <<"[", p, "]:", u>> = <<"[", q, "]:", v>> => p = q /\ u = v
      OBVIOUS
    <3> QED
      BY <2>4, <3>1, <3>2, <3>3
  <2>6. sock_ntop_host(x) = sock_ntop_host(y) <=> x.addr = y.addr
    BY DEF sock_ntop_host
  <2> HIDE DEF x, y
  <2> QED
    BY <2>2, <2>3, <2>5, <2>6 DEF x, y
<1>4. \/ \E s : s # Ok /\ a = Fail(s)
      \/ a = ga_unix(r)
      \/ a.status = Ok /\ Answers(a, r)
      \/ a.status # Ok /\ l = << >>
  <2>1. CASE /\ ga_nsearch(r) # << >> /\ GaList(r) # << >>
             /\ a = ga_serv(GaList(r), r, Tried(r), r.canon /\ r.host # NoText)
    <3>1. a.status = Ok => Answers(a, r)
      BY <2>1, GaServed
    <3>2. a.status # Ok => l = << >>
      BY <2>1 DEF ga_serv, Fail, Succeed
    <3> QED
      BY <3>1, <3>2
  <2> QED
    BY <2>1, LibgaiCases
<1>5. CASE l = << >>
  BY <1>5 DEF TextTells
<1> QED
  BY <1>1, <1>2, <1>3, <1>4, <1>5

\* The older getnameinfo gives no other names than the newer one.
LEMMA NamesAreSame == \A l : SameNames(l)
<1> SUFFICES ASSUME NEW e PROVE old_getnameinfo(e) \subseteq getnameinfo(e, {})
  BY DEF SameNames
<1>1. HostsAt(e) # {} => gn_host(e, {}) = HostsAt(e)
  BY DEF gn_host
<1>2. ServicesAt(e.port, SocketTypes) # {} => gn_serv(e, {}) = ServicesAt(e.port, SocketTypes)
  BY DEF gn_serv
<1>3. CASE e.family \in Internet
  <2>1. getnameinfo(e, {}) = [host : gn_host(e, {}), serv : gn_serv(e, {})]
    BY <1>3 DEF getnameinfo, Internet
  <2>2. old_getnameinfo(e) = [host : HostsAt(e), serv : ServicesAt(e.port, SocketTypes)]
    BY <1>3 DEF old_getnameinfo
  <2>3. ASSUME NEW H, NEW S, NEW G, NEW T, H # {} => G = H, S # {} => T = S
        PROVE  [host : H, serv : S] \subseteq [host : G, serv : T]
    BY <2>3
  <2> QED
    BY <1>1, <1>2, <2>1, <2>2, <2>3
<1>4. CASE e.family \notin Internet
  BY <1>4 DEF old_getnameinfo
<1> QED
  BY <1>3, <1>4

\* A search that finds something makes a list.
LEMMA GaFinds ==
  ASSUME NEW r, NEW f \in Internet, r.family \in {"AF_UNSPEC", f}, Found(r, f) # << >>
  PROVE  ga_nsearch(r) # << >> /\ GaList(r) # << >>
<1>1. ASSUME NEW g \in Internet
      PROVE  /\ Entries(r, g, Found(r, g)) \in Seq(Range(Entries(r, g, Found(r, g))))
             /\ Len(Entries(r, g, Found(r, g))) = Len(Found(r, g))
  <2> DEFINE s == [family |-> g, host |-> Host(r, g)]
  <2>1. s.family \in Internet /\ Found(r, g) = Search(s)
    BY DEF Found
  <2> HIDE DEF s
  <2>2. Once(Found(r, g))
    BY <2>1, SearchOnce
  <2> QED
    BY <2>2, EntriesFresh
<1>0. Len(<< >>) = 0
  OBVIOUS
<1> DEFINE x == Entries(r, f, Found(r, f))
<1>2. x # << >>
  <2>1. Len(Found(r, f)) # 0
    <3> DEFINE s == [family |-> f, host |-> Host(r, f)]
    <3>1. s.family \in Internet /\ Found(r, f) = Search(s)
      BY DEF Found
    <3> HIDE DEF s
    <3>2. Found(r, f) \in Seq(Range(Found(r, f)))
      BY <3>1, SearchOnce DEF Once
    <3> QED
      BY <3>2
  <2>2. Len(x) # 0
    BY <1>1, <2>1
  <2> HIDE DEF x
  <2> QED
    BY <2>2
<1>3. CASE r.family = f
  <2>1. Len(ga_nsearch(r)) = 1 /\ GaList(r) = x
    BY <1>3, OneSearch
  <2>2. ga_nsearch(r) # << >>
    BY <1>0, <2>1
  <2> HIDE DEF x
  <2> QED
    BY <1>2, <2>1, <2>2
<1>4. CASE r.family = "AF_UNSPEC"
  <2> DEFINE y == Entries(r, "AF_INET6", Found(r, "AF_INET6"))
             z == Entries(r, "AF_INET", Found(r, "AF_INET"))
  <2>1. Len(ga_nsearch(r)) = 2 /\ GaList(r) = y \o z
    BY <1>4, TwoSearches
  <2>2. y \in Seq(Range(y)) /\ z \in Seq(Range(z)) /\ (x = y \/ x = z)
    BY <1>1 DEF Internet
  <2> HIDE DEF x, y, z
  <2>3. y \o z # << >>
    <3>1. y \in Seq(Range(y) \cup Range(z)) /\ z \in Seq(Range(y) \cup Range(z))
      BY <2>2
    <3> QED
      BY <1>2, <2>2, <3>1
  <2>4. ga_nsearch(r) # << >>
    BY <1>0, <2>1
  <2> QED
    BY <2>1, <2>3, <2>4
<1> QED
  BY <1>3, <1>4

\* Two searches that find nothing make none.
LEMMA GaFindsNone ==
  ASSUME NEW r, r.family = "AF_UNSPEC", \A f \in Internet : Found(r, f) = << >>
  PROVE  Len(ga_nsearch(r)) = 2 /\ GaList(r) = << >>
<1>1. Entries(r, "AF_INET6", << >>) = << >> /\ Entries(r, "AF_INET", << >>) = << >>
  BY DEF Entries
<1>2. << >> \o << >> = << >>
  OBVIOUS
<1> QED
  BY <1>1, <1>2, TwoSearches DEF Internet

\* A request that passes all the checks is served.
LEMMA GaServes ==
  ASSUME NEW r, ~r.badflags, r.host # NoText \/ r.serv # NoText, ga_echeck(r) = Ok,
         r.host \notin {"/local", "/unix"} \/ r.serv \notin Paths,
         ga_nsearch(r) # << >>, GaList(r) # << >>,
         FamilyOf(r.host) \in Internet => r.family \in {"AF_UNSPEC", FamilyOf(r.host)}
  PROVE  getaddrinfo(r)
           = {ga_serv(GaList(r), r, Tried(r), r.canon /\ r.host # NoText)}
BY DEF getaddrinfo, GaList

LEMMA ServStatus ==
  ASSUME NEW l, NEW r, NEW tried, NEW c
  PROVE  ga_serv(l, r, tried, c).status =
           IF r.serv = NoText \/ tried # << >> THEN Ok
           ELSE IF r.socktype = AnyType THEN "EAI_NONAME" ELSE "EAI_SERVICE"
BY DEF ga_serv, Fail, Succeed

\* The socket types that are tried are those the service is offered for.
LEMMA TriedTypes ==
  ASSUME NEW r
  PROVE  /\ r.socktype # AnyType /\ Offers(r.serv, r.socktype) => Tried(r) # << >>
         /\ r.socktype = AnyType /\ (\E st \in SocketTypes : Offers(r.serv, st)) =>
              Tried(r) # << >>
         /\ r.socktype # AnyType /\ ~Offers(r.serv, r.socktype) => Tried(r) = << >>
         /\ r.socktype = AnyType /\ (\A st \in SocketTypes : ~Offers(r.serv, st)) =>
              Tried(r) = << >>
<1> DEFINE try(st) == IF Offers(r.serv, st) THEN <<st>> ELSE << >>
<1>1. Tried(r) = IF r.socktype = AnyType THEN try("SOCK_STREAM") \o try("SOCK_DGRAM")
                 ELSE try(r.socktype)
  BY DEF Tried
<1>2. \A x, y : /\ <<x>> # << >> /\ <<x>> \o << >> # << >> /\ << >> \o <<x>> # << >>
                /\ <<x>> \o <<y>> # << >> /\ << >> \o << >> = << >>
  OBVIOUS
<1> QED
  BY <1>1, <1>2 DEF SocketTypes

\* A request for a host, or an address, of one family and for a service it is
\* offered for is answered with each of the addresses.
LEMMA FoundAgain ==
  ASSUME lib = "libgai", NEW q, ~q.badflags, q.host # NoText, q.serv # NoText,
         q.serv \notin Paths, q.family \in Internet,
         q.socktype \in SocketTypes \cup {AnyType, "SOCK_RAW"},
         FamilyOf(q.host) \in {q.family, "none"},
         NEW x \in AddressesOf(q, q.family), NEW st \in TypesOf(q)
  PROVE  \E a \in getaddrinfo(q) : \E j \in DOMAIN a.list :
           /\ a.list[j].family = q.family /\ a.list[j].addr = x
           /\ a.list[j].socktype = st /\ a.list[j].port = PortFor(q.serv, st)
<1>1. Found(q, q.family) # << >>
  BY FoundAddresses, EmptyOnce
<1>2. ga_nsearch(q) # << >> /\ GaList(q) # << >>
  BY <1>1, GaFinds
<1>3. ga_echeck(q) = Ok
  BY DEF ga_echeck, Internet
<1>4. FamilyOf(q.host) \in Internet => q.family \in {"AF_UNSPEC", FamilyOf(q.host)}
  BY DEF Internet
<1> DEFINE a == ga_serv(GaList(q), q, Tried(q), q.canon /\ q.host # NoText)
<1>5. getaddrinfo(q) = {a}
  BY <1>2, <1>3, <1>4, GaServes
<1>6. Tried(q) # << >>
  BY TriedTypes DEF TypesOf
<1>7. a.status = Ok
  BY <1>6, ServStatus
<1> HIDE DEF a
<1>8. Answers(a, q)
  BY <1>2, <1>7, GaServed DEF a
<1>9. q.family \in Internet \cap FamiliesOf(q)
  BY DEF FamiliesOf, Internet
<1>10. PICK j \in DOMAIN a.list : /\ a.list[j].family = q.family /\ a.list[j].addr = x
                                  /\ a.list[j].socktype = st /\ a.list[j].port = PortOf(q, st)
  BY <1>8, <1>9, EntryFor
<1> QED
  BY <1>5, <1>10 DEF PortOf

\* The names that are looked up again for the entry e, and the request.
NamesOf(e) ==
  getnameinfo(e, IF e.socktype = "SOCK_DGRAM" THEN {"NI_DGRAM"} ELSE {})
    \cup getnameinfo(e, {"NI_NUMERICHOST", "NI_NUMERICSERV"})
Again(e, n) ==
  [host |-> n.host, serv |-> n.serv,
   family |-> IF e.family \in Internet THEN e.family ELSE "AF_UNSPEC",
   socktype |-> e.socktype, passive |-> FALSE, canon |-> FALSE, badflags |-> FALSE]
IsFound(e, q) ==
  \E a \in getaddrinfo(q) : \E j \in DOMAIN a.list :
    /\ e.socktype \in {AnyType, a.list[j].socktype}
    /\ sock_cmp_addr(a.list[j], e) = 0 /\ a.list[j].port = e.port

LEMMA NamedUnfold ==
  ASSUME NEW l, \A i \in DOMAIN l : \A n \in NamesOf(l[i]) : IsFound(l[i], Again(l[i], n))
  PROVE  NamedBack(l)
<1>1. ASSUME NEW i \in DOMAIN l
      PROVE  do_onetest(l)[i].names
               \cup getnameinfo(l[i], {"NI_NUMERICHOST", "NI_NUMERICSERV"}) = NamesOf(l[i])
  BY DEF do_onetest, NamesOf
<1> QED
  BY <1>1 DEF NamedBack, Again, IsFound

\* The names of an entry: hosts with its address or the address, and services
\* that have its port for some type, or the port as a number.
LEMMA NamesAre ==
  ASSUME NEW e, e.family \in Internet, NEW n \in NamesOf(e)
  PROVE  /\ n.host = e.addr \/ n.host \in HostsAt(e)
         /\ \/ n.serv \in Digits(e.port)
            \/ n.serv \in ServicesAt(e.port, IF e.socktype = "SOCK_DGRAM" THEN {"SOCK_DGRAM"}
                                             ELSE SocketTypes)
<1>1. \A fl : e.family \in Internet =>
                getnameinfo(e, fl) = [host : gn_host(e, fl), serv : gn_serv(e, fl)]
  BY DEF getnameinfo, Internet
<1>2. ASSUME NEW fl, "NI_NOFQDN" \notin fl, NEW h \in gn_host(e, fl)
      PROVE  h = e.addr \/ h \in HostsAt(e)
  BY <1>2 DEF gn_host
<1>3. ASSUME NEW fl, NEW s \in gn_serv(e, fl)
      PROVE  \/ s \in Digits(e.port)
             \/ "NI_NUMERICSERV" \notin fl
                /\ s \in ServicesAt(e.port, IF "NI_DGRAM" \in fl THEN {"SOCK_DGRAM"}
                                            ELSE SocketTypes)
  BY <1>3 DEF gn_serv
<1> DEFINE few == IF e.socktype = "SOCK_DGRAM" THEN {"NI_DGRAM"} ELSE {}
           numeric == {"NI_NUMERICHOST", "NI_NUMERICSERV"}
<1>4. /\ "NI_NOFQDN" \notin few /\ "NI_NOFQDN" \notin numeric /\ "NI_NUMERICSERV" \in numeric
      /\ "NI_DGRAM" \in few <=> e.socktype = "SOCK_DGRAM"
  OBVIOUS
<1>5. n \in getnameinfo(e, few) \/ n \in getnameinfo(e, numeric)
  BY DEF NamesOf
<1> HIDE DEF few, numeric
<1>6. ASSUME NEW fl, n \in getnameinfo(e, fl)
      PROVE  n.host \in gn_host(e, fl) /\ n.serv \in gn_serv(e, fl)
  <2>1. n \in [host : gn_host(e, fl), serv : gn_serv(e, fl)]
    BY <1>1, <1>6
  <2> QED
    BY <2>1
<1>7. CASE n \in getnameinfo(e, few)
  <2>1. n.host \in gn_host(e, few) /\ n.serv \in gn_serv(e, few)
    BY <1>6, <1>7
  <2> QED
    BY <1>2, <1>3, <1>4, <2>1
<1>8. CASE n \in getnameinfo(e, numeric)
  <2>1. n.host \in gn_host(e, numeric) /\ n.serv \in gn_serv(e, numeric)
    BY <1>6, <1>8
  <2> QED
    BY <1>2, <1>3, <1>4, <2>1
<1> QED
  BY <1>5, <1>7, <1>8

\* An address with a port is found again by its names.
LEMMA AddressNamedBack ==
  ASSUME lib = "libgai", NEW r, NamesFit(r),
         r.socktype \in SocketTypes \cup {AnyType, "SOCK_RAW"},
         NEW e, e.family \in Internet, e.addr \in AddressesOf(r, e.family),
         e.socktype \in TypesOf(r), e.port = PortOf(r, e.socktype),
         NEW n \in NamesOf(e)
  PROVE  IsFound(e, Again(e, n))
<1> DEFINE q == Again(e, n)  f == e.family
<1>1. /\ q.host = n.host /\ q.serv = n.serv /\ q.family = f /\ q.socktype = e.socktype
      /\ ~q.badflags /\ ~q.passive
  BY DEF Again
<1> HIDE DEF q
<1>2. /\ n.host = e.addr \/ n.host \in HostsAt(e)
      /\ \/ n.serv \in Digits(e.port)
         \/ n.serv \in ServicesAt(e.port, IF e.socktype = "SOCK_DGRAM" THEN {"SOCK_DGRAM"}
                                          ELSE SocketTypes)
  BY NamesAre
<1>3. FamilyOf(e.addr) = f /\ f \in Internet
  BY AddressesAreLiterals
<1>4. q.host # NoText /\ FamilyOf(q.host) \in {f, "none"} /\ e.addr \in AddressesOf(q, f)
  <2>1. CASE n.host = e.addr
    <3>1. e.addr # NoText
      BY <1>3, FamilyOfKnown DEF Internet
    <3>2. AddressesOf(q, f) = {e.addr}
      BY <1>1, <1>3, <2>1, <3>1 DEF AddressesOf
    <3> QED
      BY <1>1, <1>3, <2>1, <3>1, <3>2
  <2>2. CASE n.host \in HostsAt(e)
    <3>1. n.host \in DOMAIN Dns /\ e.addr \in ToSet(Dns[n.host][f])
      BY <2>2 DEF HostsAt
    <3>2. n.host # NoText /\ FamilyOf(n.host) = "none"
      BY <3>1, NamesAssumption, FamilyOfLiteral
    <3>3. AddressesOf(q, f) = ToSet(LookUp(n.host, f))
      BY <1>1, <1>3, <3>2 DEF AddressesOf, Internet
    <3> QED
      BY <1>1, <3>1, <3>2, <3>3 DEF LookUp
  <2> QED
    BY <1>2, <2>1, <2>2
<1>5. e.socktype \in SocketTypes \cup {AnyType, "SOCK_RAW"}
  BY DEF TypesOf
<1>6. /\ q.serv # NoText /\ q.serv \notin Paths
      /\ \A st : e.socktype = AnyType \/ st = e.socktype =>
           Offers(q.serv, st) /\ PortFor(q.serv, st) = e.port
  <2>1. CASE n.serv \in Digits(e.port)
    BY <1>1, <2>1, NamesAssumption DEF Digits, Offers, PortFor
  <2>2. CASE n.serv \in ServicesAt(e.port, IF e.socktype = "SOCK_DGRAM" THEN {"SOCK_DGRAM"}
                                           ELSE SocketTypes)
    <3>1. n.serv \in DOMAIN Services /\ e.port # 0
      BY <2>2 DEF ServicesAt
    <3>2. r.serv # NoText /\ e.port = PortFor(r.serv, e.socktype)
      BY <3>1 DEF PortOf
    <3>3. /\ e.socktype # AnyType /\ e.socktype \in SocketTypes \cup {"SOCK_RAW"}
          /\ r.socktype = e.socktype \/ (r.socktype = AnyType /\ e.socktype \in SocketTypes)
      BY <1>5, <3>2 DEF TypesOf, SocketTypes, AnyType
    <3>4. PortFor(n.serv, e.socktype) = e.port
      BY <2>2, <3>2, <3>3 DEF NamesFit
    <3>5. n.serv # NoText /\ n.serv \notin Paths
      BY <3>1, NamesAssumption
    <3> QED
      BY <1>1, <3>1, <3>3, <3>4, <3>5 DEF Offers
  <2> QED
    BY <1>2, <2>1, <2>2
<1>7. PICK st \in TypesOf(q) : e.socktype = AnyType \/ st = e.socktype
  BY <1>1, <1>6 DEF TypesOf, SocketTypes
<1>8. PICK a \in getaddrinfo(q) : \E j \in DOMAIN a.list :
        /\ a.list[j].family = f /\ a.list[j].addr = e.addr
        /\ a.list[j].socktype = st /\ a.list[j].port = PortFor(q.serv, st)
  BY <1>1, <1>3, <1>4, <1>5, <1>6, FoundAgain
<1>9. PICK j \in DOMAIN a.list :
        /\ a.list[j].family = f /\ a.list[j].addr = e.addr
        /\ a.list[j].socktype = st /\ a.list[j].port = PortFor(q.serv, st)
  BY <1>8
<1>10. sock_cmp_addr(a.list[j], e) = 0 /\ e.socktype \in {AnyType, a.list[j].socktype}
  BY <1>7, <1>9 DEF sock_cmp_addr
<1> QED
  BY <1>6, <1>7, <1>9, <1>10 DEF IsFound, q

\* So is a path.
LEMMA PathNamedBack ==
  ASSUME NEW e, e.family = "AF_LOCAL", e.addr \in Paths \ LongPaths, e.port = 0,
         e.socktype # AnyType, NEW n \in NamesOf(e)
  PROVE  IsFound(e, Again(e, n))
<1> DEFINE q == Again(e, n)
<1>1. \A fl : getnameinfo(e, fl) = [host : {"/local"}, serv : {e.addr}]
  BY DEF getnameinfo, Internet
<1>2. n.host = "/local" /\ n.serv = e.addr
  <2>1. PICK fl : n \in getnameinfo(e, fl)
    BY DEF NamesOf
  <2>2. n \in [host : {"/local"}, serv : {e.addr}]
    BY <1>1, <2>1
  <2> QED
    BY <2>2
<1>3. /\ q.host = "/local" /\ q.serv = e.addr /\ q.family = "AF_UNSPEC"
      /\ q.socktype = e.socktype /\ ~q.badflags
  BY <1>2 DEF Again, Internet
<1> HIDE DEF q
<1>4. q.serv # NoText
  BY <1>3, NamesAssumption
<1>5. getaddrinfo(q) = {ga_unix(q)}
  <2>1. ga_echeck(q) = Ok
    BY <1>3 DEF ga_echeck, Internet, Ok
  <2> QED
    BY <1>3, <1>4, <2>1 DEF getaddrinfo
<1> DEFINE x == ga_aistruct(e.socktype, e.addr, "AF_LOCAL")
<1>6. x.family = "AF_LOCAL" /\ x.addr = e.addr /\ x.socktype = e.socktype /\ x.port = 0
  BY DEF ga_aistruct
<1>7. ga_unix(q) = Succeed(<<x>>, q.canon)
  BY <1>3 DEF ga_unix
<1> HIDE DEF x
<1>8. ga_unix(q).list = <<x>>
  BY <1>7 DEF Succeed
<1>9. 1 \in DOMAIN ga_unix(q).list /\ ga_unix(q).list[1] = x
  BY <1>8
<1>10. sock_cmp_addr(x, e) = 0
  BY <1>6 DEF sock_cmp_addr
<1> QED
  BY <1>5, <1>6, <1>9, <1>10 DEF IsFound, q

\* Everything libgai lists is found again by its names.
LEMMA ListNamedBack ==
  ASSUME lib = "libgai", NEW r, NamesFit(r),
         r.socktype \in SocketTypes \cup {AnyType, "SOCK_RAW"}, NEW a \in getaddrinfo(r)
  PROVE  NamedBack(a.list)
<1> SUFFICES ASSUME NEW i \in DOMAIN a.list, NEW n \in NamesOf(a.list[i])
             PROVE  IsFound(a.list[i], Again(a.list[i], n))
  BY NamedUnfold
<1>1. CASE \E s : s # Ok /\ a = Fail(s)
  BY <1>1 DEF Fail
<1>2. CASE a = ga_unix(r) /\ r.host \in {"/local", "/unix"} /\ r.serv \in Paths
  BY <1>2, PathEntries, PathNamedBack
<1>3. CASE /\ ga_nsearch(r) # << >> /\ GaList(r) # << >>
           /\ a = ga_serv(GaList(r), r, Tried(r), r.canon /\ r.host # NoText)
  <2>1. a.status = Ok
    BY <1>3 DEF ga_serv, Fail, Succeed
  <2>2. Answers(a, r)
    BY <1>3, <2>1, GaServed
  <2> QED
    BY <2>2, EntryIs, AddressNamedBack
<1> QED
  BY <1>1, <1>2, <1>3, LibgaiCases

-----------------------------------------------------------------------------
(* testga's error tests.                                                   *)

Asks(h, s, f, t) ==
  [host |-> h, serv |-> s, family |-> f, socktype |-> t,
   passive |-> FALSE, canon |-> FALSE, badflags |-> FALSE]
Ends(r, status) == \A a \in getaddrinfo(r) : a.status = status

LEMMA TestsUnfold ==
  ASSUME Ends([Asks(NoText, "daytime", "AF_UNSPEC", AnyType) EXCEPT !.passive = TRUE], Ok),
         Ends([Asks("localhost", NoText, "AF_UNSPEC", AnyType) EXCEPT !.badflags = TRUE],
              "EAI_BADFLAGS"),
         Ends(Asks("localhost", NoText, "AF_SNA", AnyType), "EAI_FAMILY"),
         Ends(Asks(NoText, NoText, "AF_UNSPEC", AnyType), "EAI_NONAME"),
         Ends(Asks("none.org", NoText, "AF_UNSPEC", AnyType), "EAI_NONAME"),
         Ends(Asks(NoText, "no-such", "AF_UNSPEC", AnyType), "EAI_NONAME"),
         Ends(Asks("localhost", "tftp", "AF_UNSPEC", "SOCK_STREAM"), "EAI_SERVICE"),
         Ends(Asks("localhost", NoText, "AF_INET", "SOCK_SEQPACKET"), "EAI_SOCKTYPE"),
         Ends(Asks("localhost", "telnet", "AF_UNSPEC", "SOCK_DGRAM"), "EAI_SERVICE")
  PROVE  ErrorsAsTested
<1> DEFINE r1 == [Asks(NoText, "daytime", "AF_UNSPEC", AnyType) EXCEPT !.passive = TRUE]
           r2 == [Asks("localhost", NoText, "AF_UNSPEC", AnyType) EXCEPT !.badflags = TRUE]
           r3 == Asks("localhost", NoText, "AF_SNA", AnyType)
           r4 == Asks(NoText, NoText, "AF_UNSPEC", AnyType)
           r5 == Asks("none.org", NoText, "AF_UNSPEC", AnyType)
           r6 == Asks(NoText, "no-such", "AF_UNSPEC", AnyType)
           r7 == Asks("localhost", "tftp", "AF_UNSPEC", "SOCK_STREAM")
           r8 == Asks("localhost", NoText, "AF_INET", "SOCK_SEQPACKET")
           r9 == Asks("localhost", "telnet", "AF_UNSPEC", "SOCK_DGRAM")
<1>1. do_errtest = {<<r1, Ok>>, <<r2, "EAI_BADFLAGS">>, <<r3, "EAI_FAMILY">>,
                    <<r4, "EAI_NONAME">>, <<r5, "EAI_NONAME">>, <<r6, "EAI_NONAME">>,
                    <<r7, "EAI_SERVICE">>, <<r8, "EAI_SOCKTYPE">>,
                    <<r9, "EAI_SERVICE">>}
  BY DEF do_errtest, Asks
<1>2. \A r, s : <<r, s>>[1] = r /\ <<r, s>>[2] = s
  OBVIOUS
<1> HIDE DEF r1, r2, r3, r4, r5, r6, r7, r8, r9
<1>3. /\ Ends(r1, Ok) /\ Ends(r2, "EAI_BADFLAGS") /\ Ends(r3, "EAI_FAMILY")
      /\ Ends(r4, "EAI_NONAME") /\ Ends(r5, "EAI_NONAME") /\ Ends(r6, "EAI_NONAME")
      /\ Ends(r7, "EAI_SERVICE") /\ Ends(r8, "EAI_SOCKTYPE")
      /\ Ends(r9, "EAI_SERVICE")
  BY DEF r1, r2, r3, r4, r5, r6, r7, r8, r9
<1>4. \A t \in do_errtest : Ends(t[1], t[2])
  BY <1>1, <1>2, <1>3
<1> QED
  BY <1>4 DEF ErrorsAsTested, Ends

\* A service that is asked for, for two families.
LEMMA ServiceAsked ==
  ASSUME NEW r, ~r.badflags, r.family = "AF_UNSPEC", r.serv # NoText,
         r.host \notin {"/local", "/unix"}, FamilyOf(r.host) = "none",
         NEW f \in Internet, Found(r, f) # << >>
  PROVE  Ends(r, IF Tried(r) # << >> THEN Ok
                 ELSE IF r.socktype = AnyType THEN "EAI_NONAME" ELSE "EAI_SERVICE")
<1>1. ga_nsearch(r) # << >> /\ GaList(r) # << >>
  BY GaFinds
<1>2. ga_echeck(r) = Ok /\ "none" \notin Internet
  BY DEF ga_echeck, Internet
<1>3. getaddrinfo(r) = {ga_serv(GaList(r), r, Tried(r), r.canon /\ r.host # NoText)}
  BY <1>1, <1>2, GaServes
<1> QED
  BY <1>3, ServStatus DEF Ends

\* Each test ends as testga expects.
LEMMA TestsPass == ErrorsAsTested
<1>0. NoText \notin {"/local", "/unix"} /\ NoText # "localhost"
  BY NamesAssumption, ResolverAssumption
<1>1. Ends([Asks(NoText, "daytime", "AF_UNSPEC", AnyType) EXCEPT !.passive = TRUE], Ok)
  <2> DEFINE r == [Asks(NoText, "daytime", "AF_UNSPEC", AnyType) EXCEPT !.passive = TRUE]
  <2>1. /\ r.host = NoText /\ r.serv = "daytime" /\ r.family = "AF_UNSPEC"
        /\ r.socktype = AnyType /\ r.passive /\ ~r.badflags
    BY DEF Asks
  <2> HIDE DEF r
  <2>2. PICK st \in SocketTypes : Offers("daytime", st)
    BY TestMachineAssumption
  <2>3. "daytime" # NoText
    BY <2>2, NamesAssumption DEF Offers, PortFor
  <2>4. Tried(r) # << >>
    BY <2>1, <2>2, TriedTypes
  <2>5. Host(r, "AF_INET") = "0.0.0.0"
    BY <2>1 DEF Host
  <2>6. Found(r, "AF_INET") = <<"0.0.0.0">>
    BY <2>5, FamilyOfKnown DEF Found, Search
  <2>7. <<"0.0.0.0">> # << >> /\ "AF_INET" \in Internet
    BY DEF Internet
  <2>8. Ends(r, Ok)
    BY <1>0, <2>1, <2>3, <2>4, <2>6, <2>7, FamilyOfKnown, ServiceAsked
  <2> QED
    BY <2>8 DEF r
<1>2. Ends([Asks("localhost", NoText, "AF_UNSPEC", AnyType) EXCEPT !.badflags = TRUE],
           "EAI_BADFLAGS")
  <2> DEFINE r == [Asks("localhost", NoText, "AF_UNSPEC", AnyType) EXCEPT !.badflags = TRUE]
  <2>1. r.badflags
    BY DEF Asks
  <2> HIDE DEF r
  <2>2. getaddrinfo(r) = {Fail("EAI_BADFLAGS")}
    BY <2>1 DEF getaddrinfo
  <2>3. Ends(r, "EAI_BADFLAGS")
    BY <2>2, FailStatus DEF Ends
  <2> QED
    BY <2>3 DEF r
<1>3. Ends(Asks("localhost", NoText, "AF_SNA", AnyType), "EAI_FAMILY")
  <2> DEFINE r == Asks("localhost", NoText, "AF_SNA", AnyType)
  <2>1. r.host = "localhost" /\ r.family = "AF_SNA" /\ ~r.badflags
    BY DEF Asks
  <2> HIDE DEF r
  <2>2. ga_echeck(r) = "EAI_FAMILY" /\ "EAI_FAMILY" # Ok
    BY <2>1 DEF ga_echeck, Internet, Ok
  <2>3. getaddrinfo(r) = {Fail("EAI_FAMILY")}
    BY <1>0, <2>1, <2>2 DEF getaddrinfo
  <2>4. Ends(r, "EAI_FAMILY")
    BY <2>3, FailStatus DEF Ends
  <2> QED
    BY <2>4 DEF r
<1>4. Ends(Asks(NoText, NoText, "AF_UNSPEC", AnyType), "EAI_NONAME")
  <2> DEFINE r == Asks(NoText, NoText, "AF_UNSPEC", AnyType)
  <2>1. r.host = NoText /\ r.serv = NoText /\ ~r.badflags
    BY DEF Asks
  <2> HIDE DEF r
  <2>2. getaddrinfo(r) = {Fail("EAI_NONAME")}
    BY <2>1 DEF getaddrinfo
  <2>3. Ends(r, "EAI_NONAME")
    BY <2>2, FailStatus DEF Ends
  <2> QED
    BY <2>3 DEF r
<1>5. Ends(Asks("none.org", NoText, "AF_UNSPEC", AnyType), "EAI_NONAME")
  <2> DEFINE r == Asks("none.org", NoText, "AF_UNSPEC", AnyType)
  <2>1. /\ r.host = "none.org" /\ r.serv = NoText /\ r.family = "AF_UNSPEC"
        /\ r.socktype = AnyType /\ ~r.passive /\ ~r.badflags
    BY DEF Asks
  <2> HIDE DEF r
  <2>2. CASE "none.org" = NoText
    <3>1. getaddrinfo(r) = {Fail("EAI_NONAME")}
      BY <2>1, <2>2 DEF getaddrinfo
    <3> QED
      BY <3>1, FailStatus DEF Ends, r
  <2>3. CASE "none.org" # NoText
    <3>1. \A f \in Internet : Host(r, f) = "none.org"
      BY <2>1, <2>3 DEF Host
    <3>2. \A f \in Internet : Found(r, f) = << >>
      <4> TAKE f \in Internet
      <4>1. LookUp("none.org", f) = << >> /\ FamilyOf("none.org") = "none"
        BY TestMachineAssumption
      <4> QED
        BY <3>1, <4>1 DEF Found, Search, Internet
    <3>3. Len(ga_nsearch(r)) = 2 /\ GaList(r) = << >>
      BY <2>1, <3>2, GaFindsNone
    <3>4. /\ ga_nsearch(r) # << >> /\ ga_echeck(r) = Ok /\ r.host \notin {"/local", "/unix"}
          /\ FamilyOf(r.host) \notin Internet
      <4>1. Len(<< >>) = 0
        OBVIOUS
      <4>2. ga_nsearch(r) # << >>
        BY <3>3, <4>1
      <4>3. ga_echeck(r) = Ok
        BY <2>1 DEF ga_echeck, Internet
      <4>4. r.host \notin {"/local", "/unix"}
        BY <2>1
      <4>5. FamilyOf(r.host) \notin Internet
        BY <2>1, TestMachineAssumption DEF Internet
      <4> QED
        BY <4>2, <4>3, <4>4, <4>5
    <3>5. getaddrinfo(r) = {Fail("EAI_NONAME")}
      BY <2>1, <2>3, <3>3, <3>4 DEF getaddrinfo, GaList
    <3> QED
      BY <3>5, FailStatus DEF Ends, r
  <2> QED
    BY <2>2, <2>3
<1>6. Ends(Asks(NoText, "no-such", "AF_UNSPEC", AnyType), "EAI_NONAME")
  <2> DEFINE r == Asks(NoText, "no-such", "AF_UNSPEC", AnyType)
  <2>1. /\ r.host = NoText /\ r.serv = "no-such" /\ r.family = "AF_UNSPEC"
        /\ r.socktype = AnyType /\ ~r.passive /\ ~r.badflags
    BY DEF Asks
  <2> HIDE DEF r
  <2>2. CASE "no-such" = NoText
    <3>1. getaddrinfo(r) = {Fail("EAI_NONAME")}
      BY <2>1, <2>2 DEF getaddrinfo
    <3> QED
      BY <3>1, FailStatus DEF Ends, r
  <2>3. CASE "no-such" # NoText
    <3>1. Tried(r) = << >>
      BY <2>1, TestMachineAssumption, TriedTypes
    <3>2. Host(r, "AF_INET6") = "0::1"
      BY <2>1 DEF Host
    <3>3. Found(r, "AF_INET6") = <<"0::1">>
      BY <3>2, FamilyOfKnown DEF Found, Search
    <3>4. <<"0::1">> # << >> /\ "AF_INET6" \in Internet
      BY DEF Internet
    <3>5. Ends(r, "EAI_NONAME")
      BY <1>0, <2>1, <2>3, <3>1, <3>3, <3>4, FamilyOfKnown, ServiceAsked
    <3> QED
      BY <3>5 DEF r
  <2> QED
    BY <2>2, <2>3
<1>7. Ends(Asks("localhost", "tftp", "AF_UNSPEC", "SOCK_STREAM"), "EAI_SERVICE")
  <2> DEFINE r == Asks("localhost", "tftp", "AF_UNSPEC", "SOCK_STREAM")
  <2>1. /\ r.host = "localhost" /\ r.serv = "tftp" /\ r.family = "AF_UNSPEC"
        /\ r.socktype = "SOCK_STREAM" /\ r.socktype # AnyType /\ ~r.passive /\ ~r.badflags
    BY DEF Asks, AnyType
  <2> HIDE DEF r
  <2>2. Tried(r) = << >> /\ r.serv # NoText
    BY <2>1, TestMachineAssumption, TriedTypes
  <2>3. PICK f \in Internet : LookUp("localhost", f) # << >>
    BY TestMachineAssumption
  <2>4. Found(r, f) = LookUp("localhost", f)
    <3>1. Host(r, f) = "localhost"
      BY <1>0, <2>1 DEF Host
    <3> QED
      BY <3>1, FamilyOfKnown DEF Found, Search, Internet
  <2>5. Ends(r, "EAI_SERVICE")
    BY <2>1, <2>2, <2>3, <2>4, FamilyOfKnown, ServiceAsked
  <2> QED
    BY <2>5 DEF r
<1>8. Ends(Asks("localhost", NoText, "AF_INET", "SOCK_SEQPACKET"), "EAI_SOCKTYPE")
  <2> DEFINE r == Asks("localhost", NoText, "AF_INET", "SOCK_SEQPACKET")
  <2>1. /\ r.host = "localhost" /\ r.family = "AF_INET" /\ r.socktype = "SOCK_SEQPACKET"
        /\ ~r.badflags
    BY DEF Asks
  <2> HIDE DEF r
  <2>2. ga_echeck(r) = "EAI_SOCKTYPE" /\ "EAI_SOCKTYPE" # Ok
    BY <2>1 DEF ga_echeck, Internet, SocketTypes, AnyType, Ok
  <2>3. getaddrinfo(r) = {Fail("EAI_SOCKTYPE")}
    BY <1>0, <2>1, <2>2 DEF getaddrinfo
  <2>4. Ends(r, "EAI_SOCKTYPE")
    BY <2>3, FailStatus DEF Ends
  <2> QED
    BY <2>4 DEF r
<1>9. Ends(Asks("localhost", "telnet", "AF_UNSPEC", "SOCK_DGRAM"), "EAI_SERVICE")
  <2> DEFINE r == Asks("localhost", "telnet", "AF_UNSPEC", "SOCK_DGRAM")
  <2>1. /\ r.host = "localhost" /\ r.serv = "telnet" /\ r.family = "AF_UNSPEC"
        /\ r.socktype = "SOCK_DGRAM" /\ r.socktype # AnyType /\ ~r.passive /\ ~r.badflags
    BY DEF Asks, AnyType
  <2> HIDE DEF r
  <2>2. Tried(r) = << >> /\ r.serv # NoText
    BY <2>1, TestMachineAssumption, TriedTypes
  <2>3. PICK f \in Internet : LookUp("localhost", f) # << >>
    BY TestMachineAssumption
  <2>4. Found(r, f) = LookUp("localhost", f)
    <3>1. Host(r, f) = "localhost"
      BY <1>0, <2>1 DEF Host
    <3> QED
      BY <3>1, FamilyOfKnown DEF Found, Search, Internet
  <2>5. Ends(r, "EAI_SERVICE")
    BY <2>1, <2>2, <2>3, <2>4, FamilyOfKnown, ServiceAsked
  <2> QED
    BY <2>5 DEF r
<1> QED
  BY <1>1, <1>2, <1>3, <1>4, <1>5, <1>6, <1>7, <1>8, <1>9, TestsUnfold

-----------------------------------------------------------------------------
(* Everything together.                                                    *)

\* The call is one of Calls, the address and the text are what they are named.
LibraryInv ==
  /\ Answered /\ (call = NoCall \/ call \in Calls)
  /\ address \in Address6 /\ text \in Seq(Parts)

LEMMA LibraryInit == MCInit => LibraryInv
<1> SUFFICES ASSUME MCInit PROVE LibraryInv
  OBVIOUS
<1>1. Answered /\ call = NoCall
  BY DEF MCInit, Init, Answered, NoCall, Resolvers, Openers
<1>2. PICK n \in Nat : n = 8
  OBVIOUS
<1>3. NoGroups \in Address6
  <2>1. NoGroups = [i \in 1 .. n |-> 0] /\ Address6 = [1 .. n -> Words] /\ 0 \in Words
    BY <1>2 DEF NoGroups, Address6, Words
  <2> QED
    BY <2>1
<1>4. [1 .. 8 -> Groups] \subseteq Address6
  <2>1. Groups \subseteq Words
    BY MCAssumption DEF Words
  <2>2. [1 .. n -> Groups] \subseteq [1 .. n -> Words]
    BY <2>1
  <2> QED
    BY <1>2, <2>2 DEF Address6
<1>5. address \in Address6
  BY <1>3, <1>4 DEF MCInit
<1>6. text = << >> \/ \E k \in Nat : text \in [1 .. k -> Parts]
  <2>1. PICK m \in Nat : m = 5
    OBVIOUS
  <2>2. text = << >> \/ text \in UNION {[1 .. k -> Parts] : k \in 1 .. m}
    BY <2>1 DEF MCInit
  <2> QED
    BY <2>2
<1>7. text \in Seq(Parts)
  <2>1. CASE text = << >>
    BY <2>1
  <2>2. CASE \E k \in Nat : text \in [1 .. k -> Parts]
    BY <2>2
  <2> QED
    BY <1>6, <2>1, <2>2
<1> QED
  BY <1>1, <1>5, <1>7 DEF LibraryInv

LEMMA LibraryStep == LibraryInv /\ [MCNext]_<<vars, sessions, others>> => LibraryInv'
<1> SUFFICES ASSUME LibraryInv, [MCNext]_<<vars, sessions, others>> PROVE LibraryInv'
  OBVIOUS
<1>1. address' = address /\ text' = text /\ [Next]_vars
  BY DEF MCNext, others
<1>2. Answered'
  BY <1>1, AnsweredStep DEF LibraryInv
<1>3. call' \in Calls \cup {call}
  BY <1>1 DEF Next, Resolve, Start, SocketFails, SocketOpens, Refused, Accepted,
              AtOnce, InProgress, Selected, Timed, vars
<1> QED
  BY <1>1, <1>2, <1>3 DEF LibraryInv

LEMMA LibraryKeeps == LibraryInv => TextsKept
<1> SUFFICES ASSUME LibraryInv PROVE TextsKept
  OBVIOUS
<1>1. ReadBack(address)
  BY AddressesReadBack DEF LibraryInv
<1>2. SameQuad(text)
  BY QuadsAgree DEF LibraryInv
<1>3. ASSUME call.fn = "getaddrinfo", lib = "libgai"
      PROVE  NamedBack(answer.list) /\ TextTells(answer.list) /\ SameNames(answer.list)
  <2>1. call \in Calls
    BY <1>3 DEF LibraryInv, NoCall
  <2>2. /\ call.req.socktype \in SocketTypes \cup {AnyType, "SOCK_RAW"}
        /\ NamesFit(call.req)
    BY <1>3, <2>1, MCAssumption
  <2>3. answer \in getaddrinfo(call.req)
    BY <1>3 DEF LibraryInv, Answered, Resolvers, Request
  <2> QED
    BY <1>3, <2>2, <2>3, ListNamedBack, TextsTell, NamesAreSame
<1> QED
  BY <1>1, <1>2, <1>3, TestsPass DEF TextsKept

\* Whatever the DNS and the services are, for all IPv6 addresses and IPv4
\* texts, and whatever was called before: addresses are read back from their
\* texts, and what libgai's getaddrinfo has listed is found again by its names,
\* provided that the ports' names fit, and told apart by its texts.
THEOREM TextsAreKept == MCSpec => []TextsKept
<1> QED
  BY LibraryInit, LibraryStep, LibraryKeeps, PTL DEF MCSpec
=============================================================================
