--------------------------- MODULE SocketsProofs ---------------------------
(***************************************************************************)
(* What the two getaddrinfo list, for every request, every answer of the   *)
(* DNS and every service; and the sockets that the library's calls leave   *)
(* open, for every such list and every sequence of calls.                  *)
(***************************************************************************)
EXTENDS Sockets, Induction

\* What is open, non-blocking or set up at each place a call can be at.
SocketsInv ==
  /\ pc \in {"idle", "try", "open", "nonblock", "select", "alarm", "exit"}
  /\ handler <=> pc = "alarm"
  /\ pc = "try" => call.fn \in Openers /\ open = {}
  /\ pc = "open" => call.fn \in Openers /\ open = {Head(res)}
  /\ pc \in {"nonblock", "select"} =>
       call.fn = "connect_nonb" /\ open = {Given} /\ nonblock
  /\ pc = "alarm" => call.fn = "connect_timeo" /\ open = {Given} /\ ~nonblock
  /\ OneSocketLeft

\* Every line of the library's loops keeps it: an address that is refused is
\* closed before the next one is tried, and the last one is closed before
\* the program gives up.
LEMMA SocketsStep == SocketsInv /\ [Next]_vars => SocketsInv'
<1> SUFFICES ASSUME SocketsInv, [Next]_vars PROVE SocketsInv'
  OBVIOUS
<1> USE DEF SocketsInv, OneSocketLeft, flags
<1>1. ASSUME NEW c \in Calls, Resolve(c) PROVE SocketsInv'
  <2>1. /\ pc = "idle" /\ ~handler /\ handler' = handler
        /\ call' = c /\ open' = {}
        /\ c.fn \notin {"connect_nonb", "connect_timeo"}
    BY <1>1 DEF Resolve, Openers
  <2>2. \/ pc' = "exit"
        \/ pc' = "try" /\ c.fn \in Openers
        \/ pc' = "idle" /\ c.fn \notin Openers
    BY <1>1 DEF Resolve, Return
  <2> QED
    BY <2>1, <2>2
<1>2. ASSUME SocketFails PROVE SocketsInv'
  BY <1>2 DEF SocketFails, Next_address
<1>3. ASSUME SocketOpens PROVE SocketsInv'
  BY <1>3 DEF SocketOpens, Return, Openers
<1>4. ASSUME Refused PROVE SocketsInv'
  BY <1>4 DEF Refused, Closed, Next_address
<1>5. ASSUME Accepted PROVE SocketsInv'
  BY <1>5 DEF Accepted, Return, Openers
<1>6. ASSUME NEW c \in Calls, Start(c) PROVE SocketsInv'
  BY <1>6 DEF Start
<1>7. ASSUME AtOnce PROVE SocketsInv'
  BY <1>7 DEF AtOnce, Return, Openers
<1>8. ASSUME InProgress PROVE SocketsInv'
  BY <1>8 DEF InProgress
<1>9. ASSUME Selected PROVE SocketsInv'
  BY <1>9 DEF Selected, Return, Openers
<1>10. ASSUME Timed PROVE SocketsInv'
  BY <1>10 DEF Timed, Return, Openers
<1>11. ASSUME UNCHANGED vars PROVE SocketsInv'
  BY <1>11 DEF vars
<1> QED
  BY <1>1, <1>2, <1>3, <1>4, <1>5, <1>6, <1>7, <1>8, <1>9, <1>10, <1>11 DEF Next

\* However many addresses a call has tried, one socket is open when it
\* returns one and none when the program gives up; and the two connects with
\* a time limit have closed and restored what they say, in every order of
\* calls in one process.
THEOREM NoSocketLeaks == Spec => []OneSocketLeft
<1>1. Init => SocketsInv
  BY DEF Init, SocketsInv, OneSocketLeft, NoCall, Openers
<1>2. SocketsInv => OneSocketLeft
  BY DEF SocketsInv
<1> QED
  BY <1>1, <1>2, SocketsStep, PTL DEF Spec

-----------------------------------------------------------------------------
(* Sequences.                                                              *)

\* The entries of one search, and of two.
LEMMA FlattenFew ==
  ASSUME NEW T, NEW a \in Seq(T), NEW b \in Seq(T)
  PROVE  FlattenSeq(<<a>>) = a /\ FlattenSeq(<<a, b>>) = a \o b
<1>1. FlattenSeq(<<a>>) = a
  <2> DEFINE s == <<a>>
  <2>1. Len(s) = 1 /\ Len(s) \in Nat \ {0} /\ s[1] = a
    OBVIOUS
  <2> HIDE DEF s
  <2>2. PICK g : FlattenSeq(s) = g[1] /\ \A i \in 1 .. 1 : g[i] = FlattenStep(g, s, i)
    BY <2>1, FlattenUnfold
  <2>3. FlattenSeq(s) = a
    BY <2>1, <2>2 DEF FlattenStep
  <2> QED
    BY <2>3 DEF s
<1>2. FlattenSeq(<<a, b>>) = a \o b
  <2> DEFINE s == <<a, b>>
  <2>1. Len(s) = 2 /\ Len(s) \in Nat \ {0} /\ s[1] = a /\ s[2] = b
    OBVIOUS
  <2> HIDE DEF s
  <2>2. PICK g : /\ FlattenSeq(s) = g[Len(s)]
                 /\ \A i \in 1 .. Len(s) : g[i] = FlattenStep(g, s, i)
    BY <2>1, FlattenUnfold
  <2>3. g[1] = FlattenStep(g, s, 1) /\ g[2] = FlattenStep(g, s, 2)
    BY <2>1, <2>2
  <2>4. FlattenStep(g, s, 1) = s[1] /\ FlattenStep(g, s, 2) = g[1] \o s[2]
    BY DEF FlattenStep
  <2> QED
    BY <2>1, <2>2, <2>3, <2>4 DEF s
<1> QED
  BY <1>1, <1>2

\* Blocks of one entry.
LEMMA FlattenOnes ==
  ASSUME NEW T, NEW n \in Nat \ {0}, NEW f \in [1 .. n -> T]
  PROVE  FlattenSeq([i \in 1 .. n |-> <<f[i]>>]) = f
<1> DEFINE s == [i \in 1 .. n |-> <<f[i]>>]
<1>1. s \in Seq(Seq(T)) /\ Len(s) = n
  OBVIOUS
<1>2. PICK g : /\ FlattenSeq(s) = g[n]
               /\ \A i \in 1 .. n : g[i] = FlattenStep(g, s, i)
  <2> HIDE DEF s
  <2> QED
    BY <1>1, FlattenUnfold
<1> DEFINE Part(i) == [k \in 1 .. i |-> f[k]]
           Z == {i \in 1 .. n : g[i] # Part(i)}
<1>3. Z = {}
  <2> SUFFICES ASSUME Z # {} PROVE FALSE
    OBVIOUS
  <2>1. PICK i \in Z : \A m \in Z : i <= m
    <3>1. Z \in SUBSET Nat
      OBVIOUS
    <3> HIDE DEF Z
    <3> QED
      BY <3>1, LeastNumber
  <2>2. i \in 1 .. n /\ g[i] # Part(i) /\ g[i] = FlattenStep(g, s, i) /\ s[i] = <<f[i]>>
    BY <1>2
  <2>3. CASE i = 1
    <3>1. <<f[1]>> = Part(1)
      OBVIOUS
    <3> QED
      BY <2>2, <2>3, <3>1 DEF FlattenStep
  <2>4. CASE i # 1
    <3>1. i - 1 \in 1 .. n /\ i - 1 \notin Z
      <4> HIDE DEF Z, Part, s
      <4> QED
        BY <2>1, <2>2, <2>4
    <3>2. g[i - 1] = Part(i - 1)
      BY <3>1
    <3>3. Part(i - 1) \in Seq(T) /\ Len(Part(i - 1)) = i - 1
      BY <2>2, <3>1
    <3>4. Part(i - 1) \o <<f[i]>> = Part(i)
      BY <2>2, <3>1, <3>3
    <3> QED
      BY <2>2, <2>4, <3>2, <3>4 DEF FlattenStep
  <2> QED
    BY <2>3, <2>4
<1>4. g[n] = Part(n) /\ Part(n) = f
  <2>1. n \in 1 .. n /\ n \notin Z
    <3> HIDE DEF Z
    <3> QED
      BY <1>3
  <2>2. [k \in 1 .. n |-> f[k]] = f
    OBVIOUS
  <2> QED
    BY <2>1, <2>2
<1> QED
  BY <1>2, <1>4

Joined(q, b, m, n) == [k \in 1 .. n |-> IF k <= m THEN q[k] ELSE b[k - m]]

\* A concatenation, place by place.
LEMMA Appended ==
  ASSUME NEW T, NEW q \in Seq(T), NEW b \in Seq(T),
         NEW m \in Nat, NEW n \in Nat, Len(q) = m, Len(q) + Len(b) = n
  PROVE  q \o b = Joined(q, b, m, n)
<1>1. q \o b \in Seq(T) /\ Len(q \o b) = n
  OBVIOUS
<1>2. \A k \in 1 .. n : (q \o b)[k] = IF k <= m THEN q[k] ELSE b[k - m]
  OBVIOUS
<1> DEFINE c == q \o b
<1>3. c = [k \in 1 .. n |-> c[k]]
  <2> HIDE DEF c
  <2>1. c \in Seq(T) /\ Len(c) = n
    BY <1>1 DEF c
  <2> QED
    BY <2>1
<1> QED
  BY <1>2, <1>3 DEF Joined

\* Blocks of two entries.
Two(e, c, k) == IF k % 2 = 1 THEN e[(k + 1) \div 2] ELSE c[k \div 2]

Doubled(e, c, n) == [k \in 1 .. 2 * n |-> Two(e, c, k)]

LEMMA FlattenTwos ==
  ASSUME NEW T, NEW n \in Nat \ {0}, NEW e \in [1 .. n -> T], NEW c \in [1 .. n -> T]
  PROVE  FlattenSeq([i \in 1 .. n |-> <<e[i], c[i]>>]) = Doubled(e, c, n)
<1> DEFINE s == [i \in 1 .. n |-> <<e[i], c[i]>>]
<1>1. s \in Seq(Seq(T)) /\ Len(s) = n
  OBVIOUS
<1>2. PICK g : /\ FlattenSeq(s) = g[n]
               /\ \A i \in 1 .. n : g[i] = FlattenStep(g, s, i)
  <2> HIDE DEF s
  <2> QED
    BY <1>1, FlattenUnfold
<1> DEFINE Part(i) == Doubled(e, c, i)
           Z == {i \in 1 .. n : g[i] # Part(i)}
<1>3. Z = {}
  <2> SUFFICES ASSUME Z # {} PROVE FALSE
    OBVIOUS
  <2>1. PICK i \in Z : \A m \in Z : i <= m
    <3>1. Z \in SUBSET Nat
      OBVIOUS
    <3> HIDE DEF Z
    <3> QED
      BY <3>1, LeastNumber
  <2>2. i \in 1 .. n /\ g[i] # Part(i) /\ g[i] = FlattenStep(g, s, i)
    BY <1>2
  <2>3. s[i] = <<e[i], c[i]>> /\ e[i] \in T /\ c[i] \in T
    BY <2>2
  <2>4. /\ Two(e, c, 2 * i - 1) = e[i] /\ Two(e, c, 2 * i) = c[i]
    <3>1. /\ (2 * i - 1) % 2 = 1 /\ ((2 * i - 1) + 1) \div 2 = i
          /\ (2 * i) % 2 = 0 /\ (2 * i) \div 2 = i
      BY <2>2
    <3> QED
      BY <3>1 DEF Two
  <2>5. CASE i = 1
    <3>1. Part(1) = <<e[1], c[1]>>
      BY <2>4, <2>5 DEF Doubled
    <3> QED
      BY <2>2, <2>3, <2>5, <3>1 DEF FlattenStep
  <2>6. CASE i # 1
    <3>1. i - 1 \in 1 .. n /\ i - 1 \notin Z
      <4> HIDE DEF Z, Part, s
      <4> QED
        BY <2>1, <2>2, <2>6
    <3>2. g[i - 1] = Part(i - 1)
      BY <3>1
    <3>3. \A k \in 1 .. 2 * n : Two(e, c, k) \in T
      <4> SUFFICES ASSUME NEW k \in 1 .. 2 * n PROVE Two(e, c, k) \in T
        OBVIOUS
      <4>1. /\ k % 2 = 1 => (k + 1) \div 2 \in 1 .. n
            /\ k % 2 # 1 => k \div 2 \in 1 .. n
        OBVIOUS
      <4> QED
        BY <4>1 DEF Two
    <3>4. Part(i - 1) \o <<e[i], c[i]>> = Part(i)
      <4> DEFINE b == <<e[i], c[i]>>
      <4>1. b \in Seq(T) /\ Len(b) = 2 /\ b[1] = e[i] /\ b[2] = c[i]
        BY <2>3
      <4> HIDE DEF b, Z, s
      <4>2. PICK m \in Nat : m = 2 * i - 2
        BY <2>2
      <4>3. PICK p \in Nat : p = m + 2
        BY <4>2
      <4>12. 1 .. 2 * (i - 1) = 1 .. m /\ 1 .. 2 * i = 1 .. p /\ 1 .. p \subseteq 1 .. 2 * n
        BY <2>2, <4>2, <4>3
      <4> DEFINE q == [k \in 1 .. m |-> Two(e, c, k)]
      <4>4. Part(i - 1) = q /\ Part(i) = [k \in 1 .. p |-> Two(e, c, k)]
        BY <4>12 DEF Doubled
      <4>5. q \in Seq(T) /\ Len(q) = m /\ \A k \in 1 .. m : q[k] = Two(e, c, k)
        BY <3>3, <4>12, <4>3
      <4> HIDE DEF q
      <4>6. q \o b = Joined(q, b, m, p)
        <5>1. Len(q) + Len(b) = p
          BY <4>1, <4>5, <4>3
        <5> QED
          BY <4>1, <4>5, <5>1, Appended
      <4>7. Two(e, c, m + 1) = e[i] /\ Two(e, c, m + 2) = c[i]
        <5>1. m + 1 = 2 * i - 1 /\ m + 2 = 2 * i
          BY <2>2, <4>2
        <5> QED
          BY <2>4, <5>1
      <4>8. \A k \in 1 .. p : (IF k <= m THEN q[k] ELSE b[k - m]) = Two(e, c, k)
        <5> TAKE k \in 1 .. p
        <5>1. CASE k <= m
          BY <4>5, <4>3, <5>1
        <5>2. CASE k = m + 1
          BY <4>1, <4>7, <5>2
        <5>3. CASE k = m + 2
          BY <4>1, <4>7, <5>3
        <5> QED
          BY <4>3, <5>1, <5>2, <5>3
      <4>9. q \o b = [k \in 1 .. p |-> Two(e, c, k)]
        BY <4>6, <4>8 DEF Joined
      <4>10. Part(i - 1) \o b = Part(i)
        BY <4>4, <4>9
      <4> QED
        BY <4>10 DEF b
    <3> QED
      BY <2>2, <2>3, <2>6, <3>2, <3>4 DEF FlattenStep
  <2> QED
    BY <2>5, <2>6
<1>4. g[n] = Part(n)
  <2>1. n \in 1 .. n /\ n \notin Z
    <3> HIDE DEF Z
    <3> QED
      BY <1>3
  <2> QED
    BY <2>1
<1> QED
  BY <1>2, <1>4

-----------------------------------------------------------------------------
(* One pass of ga_port.                                                    *)

Block(e, st, port) ==
  IF e.clone /\ e.socktype # AnyType THEN ga_clone(e, st, port)
  ELSE IF e.clone \/ e.socktype = st THEN <<Filled(e, st, port)>> ELSE <<e>>

\* A pass of ga_port puts the block of each entry behind the last one.
LEMMA PortBlocks ==
  ASSUME NEW l, NEW st, NEW port
  PROVE  ga_port(l, st, port) = FlattenSeq([i \in DOMAIN l |-> Block(l[i], st, port)])
BY DEF ga_port, Block

\* No entry of l is copied by a pass for st, and all are filled in.
Settled(l, n, st) ==
  \A i \in 1 .. n : IF l[i].clone THEN l[i].socktype = AnyType ELSE l[i].socktype = st
AllFilled(l, n, st, port) == [i \in 1 .. n |-> Filled(l[i], st, port)]

\* Where nothing is copied, a pass fills in every entry where it is.
LEMMA PortsFilled ==
  ASSUME NEW n \in Nat \ {0}, NEW l, DOMAIN l = 1 .. n, NEW st, NEW port,
         Settled(l, n, st)
  PROVE  ga_port(l, st, port) = AllFilled(l, n, st, port)
<1> DEFINE f == AllFilled(l, n, st, port)
           U == {Filled(l[i], st, port) : i \in 1 .. n}
<1>1. f \in [1 .. n -> U]
  BY DEF AllFilled
<1>2. \A i \in 1 .. n : Block(l[i], st, port) = <<f[i]>>
  BY DEF Block, Settled, AllFilled
<1> HIDE DEF f, U
<1>3. FlattenSeq([i \in 1 .. n |-> <<f[i]>>]) = f
  BY <1>1, FlattenOnes
<1>4. [i \in DOMAIN l |-> Block(l[i], st, port)] = [i \in 1 .. n |-> <<f[i]>>]
  BY <1>2
<1> QED
  BY <1>3, <1>4, PortBlocks DEF f

\* Every entry of l is copied by a pass for st.
Settling(l, n) == \A i \in 1 .. n : l[i].clone /\ l[i].socktype # AnyType
\* The entries that a second pass adds.
Copies(l, n, st, port) == [i \in 1 .. n |-> [Filled(l[i], st, port) EXCEPT !.clone = FALSE]]

\* Where everything is, each entry is followed by its copy.
LEMMA PortsCloned ==
  ASSUME NEW n \in Nat \ {0}, NEW T, NEW l \in [1 .. n -> T], NEW st, NEW port,
         Settling(l, n)
  PROVE  ga_port(l, st, port) = Doubled(l, Copies(l, n, st, port), n)
<1> DEFINE c == Copies(l, n, st, port)
           U == {c[i] : i \in 1 .. n} \cup T
<1>1. c \in [1 .. n -> U] /\ l \in [1 .. n -> U]
  BY DEF Copies
<1>2. \A i \in 1 .. n : Block(l[i], st, port) = <<l[i], c[i]>>
  BY DEF Block, ga_clone, Copies, Settling
<1> HIDE DEF c, U
<1>3. FlattenSeq([i \in 1 .. n |-> <<l[i], c[i]>>]) = Doubled(l, c, n)
  BY <1>1, FlattenTwos
<1>4. [i \in DOMAIN l |-> Block(l[i], st, port)] = [i \in 1 .. n |-> <<l[i], c[i]>>]
  BY <1>2
<1>5. ga_port(l, st, port) = Doubled(l, c, n)
  BY <1>3, <1>4, PortBlocks
<1> QED
  BY <1>5 DEF c

-----------------------------------------------------------------------------
(* The passes of ga_serv.                                                  *)

Pass(l, st, r) == ga_port(l, st, PortFor(r.serv, st))

FoldStep(g, list, t, r, s) ==
  IF s = {} THEN list ELSE Pass(g[s \ {Max(s)}], t[Max(s)], r)

\* The passes are a fold over the socket types tried.
LEMMA FoldUnfold ==
  ASSUME NEW list, NEW r, NEW t
  PROVE  Passes(list, r, t)
           = (CHOOSE g : g = [s \in SUBSET DOMAIN t |-> FoldStep(g, list, t, r, s)])[DOMAIN t]
BY DEF Passes, FoldLeft, MapThenFoldSet, FoldStep, Pass

\* The socket type the fold takes last.
LEMMA MaxFew == Max({1}) = 1 /\ Max({2}) = 2 /\ Max({1, 2}) = 2
BY DEF Max

FoldsTo(g, list, r, t) == \A s \in SUBSET DOMAIN t : g[s] = FoldStep(g, list, t, r, s)

\* The recursion of that fold, once a solution of it is shown.
LEMMA FoldSolved ==
  ASSUME NEW list, NEW r, NEW t, NEW h,
         FoldsTo(h, list, r, t), h = [s \in SUBSET DOMAIN t |-> h[s]]
  PROVE  \E g : Passes(list, r, t) = g[DOMAIN t] /\ FoldsTo(g, list, r, t)
<1> DEFINE g == CHOOSE g : g = [s \in SUBSET DOMAIN t |-> FoldStep(g, list, t, r, s)]
<1>1. h = [s \in SUBSET DOMAIN t |-> FoldStep(h, list, t, r, s)]
  BY DEF FoldsTo
<1>2. g = [s \in SUBSET DOMAIN t |-> FoldStep(g, list, t, r, s)]
  BY <1>1
<1>3. Passes(list, r, t) = g[DOMAIN t]
  BY FoldUnfold
<1> HIDE DEF g
<1>4. FoldsTo(g, list, r, t)
  BY <1>2 DEF FoldsTo
<1> QED
  BY <1>3, <1>4

\* One socket type is one pass.
LEMMA OnePass ==
  ASSUME NEW list, NEW r, NEW a
  PROVE  Passes(list, r, <<a>>) = Pass(list, a, r)
<1> DEFINE t == <<a>>
           h == [s \in SUBSET {1} |-> IF s = {} THEN list ELSE Pass(list, a, r)]
<1>1. DOMAIN t = {1} /\ t[1] = a /\ {1} \ {1} = {} /\ {1} # {}
  OBVIOUS
<1>7. \A s \in SUBSET {1} : s = {} \/ s = {1}
  OBVIOUS
<1>2. h[{}] = list /\ h[{1}] = Pass(list, a, r)
  BY <1>1
<1>8. h = [s \in SUBSET {1} |-> h[s]]
  OBVIOUS
<1> HIDE DEF t, h
<1>3. \A g : /\ FoldStep(g, list, t, r, {}) = list
             /\ FoldStep(g, list, t, r, {1}) = Pass(g[{}], a, r)
  BY <1>1, MaxFew DEF FoldStep
<1>4. PICK g : /\ Passes(list, r, t) = g[DOMAIN t]
               /\ FoldsTo(g, list, r, t)
  <2>1. FoldsTo(h, list, r, t)
    <3>1. h[{}] = FoldStep(h, list, t, r, {}) /\ h[{1}] = FoldStep(h, list, t, r, {1})
      BY <1>2, <1>3
    <3> QED
      BY <1>1, <1>7, <3>1 DEF FoldsTo
  <2>2. h = [s \in SUBSET DOMAIN t |-> h[s]]
    BY <1>1, <1>8
  <2> QED
    BY <2>1, <2>2, FoldSolved
<1>5. Passes(list, r, t) = Pass(list, a, r)
  BY <1>1, <1>3, <1>4 DEF FoldsTo
<1> QED
  BY <1>5 DEF t

\* Two are two, in their order.
LEMMA TwoPasses ==
  ASSUME NEW list, NEW r, NEW a, NEW b
  PROVE  Passes(list, r, <<a, b>>) = Pass(Pass(list, a, r), b, r)
<1> DEFINE t == <<a, b>>
           h == [s \in SUBSET {1, 2} |->
                   IF s = {} THEN list
                   ELSE IF s = {1} THEN Pass(list, a, r)
                   ELSE IF s = {2} THEN Pass(list, b, r)
                   ELSE Pass(Pass(list, a, r), b, r)]
<1>1. /\ DOMAIN t = {1, 2} /\ t[1] = a /\ t[2] = b
      /\ {1} \ {1} = {} /\ {2} \ {2} = {} /\ {1, 2} \ {2} = {1}
      /\ {1} # {} /\ {2} # {} /\ {1, 2} # {}
  OBVIOUS
<1>2. \A s \in SUBSET {1, 2} : s = {} \/ s = {1} \/ s = {2} \/ s = {1, 2}
  OBVIOUS
<1>3. /\ h[{}] = list /\ h[{1}] = Pass(list, a, r) /\ h[{2}] = Pass(list, b, r)
      /\ h[{1, 2}] = Pass(Pass(list, a, r), b, r)
  <2>1. {1} # {2} /\ {1, 2} # {1} /\ {1, 2} # {2}
    OBVIOUS
  <2> QED
    BY <1>1, <2>1
<1>4. h = [s \in SUBSET {1, 2} |-> h[s]]
  OBVIOUS
<1> HIDE DEF t, h
<1>5. \A g : /\ FoldStep(g, list, t, r, {}) = list
             /\ FoldStep(g, list, t, r, {1}) = Pass(g[{}], a, r)
             /\ FoldStep(g, list, t, r, {2}) = Pass(g[{}], b, r)
             /\ FoldStep(g, list, t, r, {1, 2}) = Pass(g[{1}], b, r)
  BY <1>1, MaxFew DEF FoldStep
<1>6. FoldsTo(h, list, r, t)
  BY <1>1, <1>2, <1>3, <1>5 DEF FoldsTo
<1>7. h = [s \in SUBSET DOMAIN t |-> h[s]]
  BY <1>1, <1>4
<1>8. PICK g : /\ Passes(list, r, t) = g[DOMAIN t]
               /\ FoldsTo(g, list, r, t)
  BY <1>6, <1>7, FoldSolved
<1>9. Passes(list, r, t) = Pass(Pass(list, a, r), b, r)
  BY <1>1, <1>5, <1>8 DEF FoldsTo
<1> QED
  BY <1>9 DEF t

-----------------------------------------------------------------------------
(* What ga_serv makes of a list of entries.                                *)

\* The entries of a search, none twice, IPv6 before IPv4.
Fresh(e, r) ==
  /\ \A i \in DOMAIN e :
       /\ e[i].family \in Internet
       /\ e[i] = ga_aistruct(r.socktype, e[i].addr, e[i].family)
  /\ \A i, j \in DOMAIN e :
       (e[i].family = e[j].family /\ e[i].addr = e[j].addr) => i = j
  /\ \A i, j \in DOMAIN e :
       (e[i].family = "AF_INET" /\ e[j].family = "AF_INET6") => j < i

PortOf(r, st) == IF r.serv = NoText THEN 0 ELSE PortFor(r.serv, st)

\* l lists every entry of e with every socket type once, in their order;
\* w tells of which entry the ones of l are made.
Lists(w, l, e, r) ==
  /\ \A k \in DOMAIN l :
       /\ w[k] \in DOMAIN e
       /\ l[k].family = e[w[k]].family /\ l[k].addr = e[w[k]].addr
       /\ l[k].socktype \in TypesOf(r)
       /\ l[k].port = PortOf(r, l[k].socktype)
  /\ \A k, m \in DOMAIN l : (w[k] = w[m] /\ l[k].socktype = l[m].socktype) => k = m
  /\ \A i \in DOMAIN e, st \in TypesOf(r) :
       \E k \in DOMAIN l : w[k] = i /\ l[k].socktype = st
  /\ \A k, m \in DOMAIN l : w[k] < w[m] => k < m
Listing(l, e, r) == l \in Seq(Range(l)) /\ \E w \in [DOMAIN l -> DOMAIN e] : Lists(w, l, e, r)

\* The entries are the addresses the request is about.
About(e, r) ==
  \A f, x : (f \in Internet \cap FamiliesOf(r) /\ x \in AddressesOf(r, f))
              <=> \E i \in DOMAIN e : e[i].family = f /\ e[i].addr = x

Line(l, i) == <<l[i].family, l[i].addr, l[i].socktype>>

\* A list of this kind, made of the entries of the addresses a request is
\* about, is what ListedOnce asks for.
LEMMA ListingIsWanted ==
  ASSUME NEW r, NEW e, NEW l, e \in Seq(Range(e)), Fresh(e, r), About(e, r), Listing(l, e, r)
  PROVE  /\ {Line(l, i) : i \in DOMAIN l} = Wanted(r)
         /\ Len(l) = Cardinality(Wanted(r))
         /\ \A i \in DOMAIN l : l[i].port = PortOf(r, l[i].socktype)
         /\ \A i, j \in DOMAIN l :
                (l[i].family = "AF_INET" /\ l[j].family = "AF_INET6") => j < i
<1>1. PICK w \in [DOMAIN l -> DOMAIN e] : Lists(w, l, e, r)
  BY DEF Listing
<1>2. /\ l \in Seq(Range(l)) /\ Len(l) \in Nat /\ DOMAIN l = 1 .. Len(l)
  BY DEF Listing
<1>3. \A k, m \in DOMAIN l : Line(l, k) = Line(l, m) => k = m
  <2> TAKE k, m \in DOMAIN l
  <2> SUFFICES ASSUME Line(l, k) = Line(l, m) PROVE k = m
    OBVIOUS
  <2>1. l[k].family = l[m].family /\ l[k].addr = l[m].addr /\ l[k].socktype = l[m].socktype
    BY DEF Line
  <2>2. w[k] = w[m]
    BY <1>1, <2>1 DEF Lists, Fresh
  <2> QED
    BY <1>1, <2>1, <2>2 DEF Lists
<1>4. \A f, x, st : <<f, x, st>> \in Wanted(r)
        <=> (f \in Internet \cap FamiliesOf(r) /\ x \in AddressesOf(r, f) /\ st \in TypesOf(r))
  BY DEF Wanted
<1>5. \A z \in Wanted(r) : \E f, x, st : z = <<f, x, st>>
  BY DEF Wanted
<1>6. \A k \in DOMAIN l : Line(l, k) \in Wanted(r)
  <2> TAKE k \in DOMAIN l
  <2> DEFINE f == l[k].family  x == l[k].addr  st == l[k].socktype
  <2>1. w[k] \in DOMAIN e /\ e[w[k]].family = f /\ e[w[k]].addr = x /\ st \in TypesOf(r)
    BY <1>1 DEF Lists
  <2>2. f \in Internet \cap FamiliesOf(r) /\ x \in AddressesOf(r, f)
    BY <2>1 DEF About
  <2> QED
    BY <1>4, <2>1, <2>2 DEF Line
<1>7. \A z \in Wanted(r) : \E k \in DOMAIN l : z = Line(l, k)
  <2> TAKE z \in Wanted(r)
  <2>1. PICK f, x, st : z = <<f, x, st>>
    BY <1>5
  <2>2. f \in Internet \cap FamiliesOf(r) /\ x \in AddressesOf(r, f) /\ st \in TypesOf(r)
    BY <1>4, <2>1
  <2>3. PICK i \in DOMAIN e : e[i].family = f /\ e[i].addr = x
    BY <2>2 DEF About
  <2>4. PICK k \in DOMAIN l : w[k] = i /\ l[k].socktype = st
    BY <1>1, <2>2 DEF Lists
  <2>5. z = Line(l, k)
    BY <1>1, <2>1, <2>3, <2>4 DEF Lists, Line
  <2> QED
    BY <2>5
<1>8. {Line(l, i) : i \in DOMAIN l} = Wanted(r)
  BY <1>6, <1>7
<1>9. Len(l) = Cardinality(Wanted(r))
  <2> DEFINE S == 1 .. Len(l)
             b == [k \in S |-> Line(l, k)]
  <2>1. b \in Bijection(S, Wanted(r))
    BY <1>2, <1>3, <1>6, <1>7 DEF Bijection, Injection, Surjection, IsInjective
  <2>2. ExistsBijection(S, Wanted(r))
    BY <2>1 DEF ExistsBijection
  <2>3. IsFiniteSet(S) /\ Cardinality(S) = Len(l)
    <3>1. 1 \in Int /\ Len(l) \in Int /\ Len(l) \in Nat
      BY <1>2
    <3>2. IsFiniteSet(1 .. Len(l)) /\ Cardinality(1 .. Len(l)) = IF 1 > Len(l) THEN 0 ELSE Len(l) - 1 + 1
      BY <3>1, FS_Interval
    <3> QED
      BY <3>1, <3>2
  <2> HIDE DEF S, b
  <2> QED
    BY <2>2, <2>3, FS_Bijection
<1>10. \A i \in DOMAIN l : l[i].port = PortOf(r, l[i].socktype)
  BY <1>1 DEF Lists
<1>11. \A i, j \in DOMAIN l :
          (l[i].family = "AF_INET" /\ l[j].family = "AF_INET6") => j < i
  BY <1>1 DEF Lists, Fresh
<1> QED
  BY <1>8, <1>9, <1>10, <1>11

\* A function on 1 .. n is a sequence.
LEMMA IsSequence ==
  ASSUME NEW n \in Nat, NEW l, l = [k \in 1 .. n |-> l[k]]
  PROVE  l \in Seq(Range(l)) /\ Len(l) = n /\ DOMAIN l = 1 .. n
<1>1. \A k \in 1 .. n : l[k] \in Range(l)
  BY DEF Range
<1>2. l \in [1 .. n -> Range(l)]
  BY <1>1
<1> QED
  BY <1>2

\* One entry for each.
LEMMA ListingOfOne ==
  ASSUME NEW r, NEW e, NEW st, NEW n \in Nat, e \in Seq(Range(e)), Len(e) = n,
         TypesOf(r) = {st}, NEW l, l = [i \in 1 .. n |-> l[i]],
         \A i \in 1 .. n : /\ l[i].family = e[i].family /\ l[i].addr = e[i].addr
                           /\ l[i].socktype = st /\ l[i].port = PortOf(r, st)
  PROVE  Listing(l, e, r)
<1> DEFINE w == [i \in 1 .. n |-> i]
<1>1. /\ DOMAIN e = 1 .. n /\ DOMAIN l = 1 .. n
      /\ w \in [1 .. n -> 1 .. n] /\ \A i \in 1 .. n : w[i] = i
  OBVIOUS
<1>2. l \in Seq(Range(l))
  BY IsSequence
<1> HIDE DEF w
<1>3. Lists(w, l, e, r)
  BY <1>1 DEF Lists
<1> QED
  BY <1>1, <1>2, <1>3 DEF Listing

\* Two entries for each, the second a copy of the first.
LEMMA ListingOfTwo ==
  ASSUME NEW r, NEW e, NEW a, NEW b, NEW n \in Nat, e \in Seq(Range(e)), Len(e) = n,
         a # b, TypesOf(r) = {a, b}, NEW l, NEW c, NEW d, l = Doubled(c, d, n),
         \A i \in 1 .. n :
           /\ c[i].family = e[i].family /\ c[i].addr = e[i].addr
           /\ c[i].socktype = a /\ c[i].port = PortOf(r, a)
           /\ d[i].family = e[i].family /\ d[i].addr = e[i].addr
           /\ d[i].socktype = b /\ d[i].port = PortOf(r, b)
  PROVE  Listing(l, e, r)
<1> DEFINE half(k) == IF k % 2 = 1 THEN (k + 1) \div 2 ELSE k \div 2
           w == [k \in 1 .. 2 * n |-> half(k)]
<1>1. \A k \in 1 .. 2 * n : half(k) \in 1 .. n
  OBVIOUS
<1>2. /\ DOMAIN e = 1 .. n /\ DOMAIN l = 1 .. 2 * n
      /\ \A k \in 1 .. 2 * n : l[k] = IF k % 2 = 1 THEN c[half(k)] ELSE d[half(k)]
  BY DEF Doubled, Two
<1>3. l \in Seq(Range(l))
  <2> DEFINE N == 2 * n
  <2>1. N \in Nat /\ l = [k \in 1 .. N |-> l[k]]
    BY DEF Doubled
  <2> HIDE DEF N
  <2> QED
    BY <2>1, IsSequence
<1>4. w \in [1 .. 2 * n -> 1 .. n] /\ \A k \in 1 .. 2 * n : w[k] = half(k)
  BY <1>1
<1> DEFINE typ(k) == IF k % 2 = 1 THEN a ELSE b
<1>5. ASSUME NEW k \in 1 .. 2 * n
      PROVE  /\ w[k] \in 1 .. n
             /\ l[k].family = e[w[k]].family /\ l[k].addr = e[w[k]].addr
             /\ l[k].socktype = typ(k) /\ l[k].port = PortOf(r, typ(k))
  <2>1. w[k] \in 1 .. n /\ l[k] = IF k % 2 = 1 THEN c[w[k]] ELSE d[w[k]]
    BY <1>2, <1>4
  <2> HIDE DEF w, half
  <2> QED
    BY <2>1
<1>6. ASSUME NEW k \in 1 .. 2 * n, NEW m \in 1 .. 2 * n
      PROVE  /\ half(k) = half(m) /\ typ(k) = typ(m) => k = m
             /\ half(k) < half(m) => k < m
  <2>1. half(k) < half(m) => k < m
    OBVIOUS
  <2>2. typ(k) = typ(m) => k % 2 = m % 2
    OBVIOUS
  <2>3. half(k) = half(m) /\ k % 2 = m % 2 => k = m
    OBVIOUS
  <2> HIDE DEF half, typ
  <2> QED
    BY <2>1, <2>2, <2>3
<1>7. ASSUME NEW i \in 1 .. n
      PROVE  /\ 2 * i - 1 \in 1 .. 2 * n /\ half(2 * i - 1) = i /\ typ(2 * i - 1) = a
             /\ 2 * i \in 1 .. 2 * n /\ half(2 * i) = i /\ typ(2 * i) = b
  OBVIOUS
<1>8. Lists(w, l, e, r)
  <2> DEFINE K == 1 .. 2 * n
  <2> HIDE DEF w, half, typ, K
  <2>1. \A k \in K :
       /\ w[k] \in DOMAIN e
       /\ l[k].family = e[w[k]].family /\ l[k].addr = e[w[k]].addr
       /\ l[k].socktype \in TypesOf(r)
       /\ l[k].port = PortOf(r, l[k].socktype)
    BY <1>2, <1>5 DEF K, typ
  <2>2. \A k, m \in K : (w[k] = w[m] /\ l[k].socktype = l[m].socktype) => k = m
    <3> TAKE k, m \in K
    <3>1. w[k] = half(k) /\ w[m] = half(m) /\ l[k].socktype = typ(k) /\ l[m].socktype = typ(m)
      BY <1>4, <1>5 DEF K
    <3>2. half(k) = half(m) /\ typ(k) = typ(m) => k = m
      BY <1>6 DEF K
    <3> QED
      BY <3>1, <3>2
  <2>3. \A k, m \in K : w[k] < w[m] => k < m
    BY <1>4, <1>6 DEF K
  <2>4. \A i \in DOMAIN e, st \in TypesOf(r) :
         \E k \in K : w[k] = i /\ l[k].socktype = st
    <3> TAKE i \in DOMAIN e, st \in TypesOf(r)
    <3>1. i \in 1 .. n /\ (st = a \/ st = b)
      BY <1>2
    <3>2. CASE st = a
      <4> DEFINE k == 2 * i - 1
      <4>1. k \in K /\ half(k) = i /\ typ(k) = a
        BY <1>7, <3>1 DEF K
      <4> HIDE DEF k
      <4> QED
        BY <1>4, <1>5, <3>2, <4>1 DEF K
    <3>3. CASE st = b
      <4> DEFINE k == 2 * i
      <4>1. k \in K /\ half(k) = i /\ typ(k) = b
        BY <1>7, <3>1 DEF K
      <4> HIDE DEF k
      <4> QED
        BY <1>4, <1>5, <3>3, <4>1 DEF K
    <3> QED
      BY <3>1, <3>2, <3>3
  <2>5. DOMAIN l = K
    BY <1>2 DEF K
  <2> QED
    BY <2>1, <2>2, <2>3, <2>4, <2>5 DEF Lists
<1>9. w \in [DOMAIN l -> DOMAIN e]
  BY <1>2, <1>4
<1> HIDE DEF w
<1> QED
  BY <1>3, <1>8, <1>9 DEF Listing

\* What ga_aistruct puts into an entry.
LEMMA FreshFields ==
  ASSUME NEW r, NEW e, Fresh(e, r), NEW i \in DOMAIN e
  PROVE  /\ e[i].socktype = r.socktype /\ e[i].port = 0
         /\ e[i].clone <=> r.socktype = AnyType
<1>1. e[i] = ga_aistruct(r.socktype, e[i].addr, e[i].family) /\ e[i].family # "AF_LOCAL"
  BY DEF Fresh, Internet
<1> DEFINE f == e[i].family  x == e[i].addr
<1>2. /\ ga_aistruct(r.socktype, x, f).socktype = r.socktype
      /\ ga_aistruct(r.socktype, x, f).port = 0
      /\ ga_aistruct(r.socktype, x, f).clone = (r.socktype = AnyType /\ f # "AF_LOCAL")
  BY DEF ga_aistruct
<1> QED
  BY <1>1, <1>2

\* What a pass puts into one.
LEMMA FilledFields ==
  ASSUME NEW e, NEW st, NEW port
  PROVE  /\ Filled(e, st, port).family = e.family /\ Filled(e, st, port).addr = e.addr
         /\ Filled(e, st, port).socktype = st /\ Filled(e, st, port).port = port
         /\ Filled(e, st, port).clone = e.clone
BY DEF Filled

Fills(l, e, n, st, port) ==
  /\ l = [i \in 1 .. n |-> l[i]]
  /\ \A i \in 1 .. n : /\ l[i].family = e[i].family /\ l[i].addr = e[i].addr
                       /\ l[i].socktype = st /\ l[i].port = port
                       /\ l[i].clone = e[i].clone

\* The first pass fills in every entry: it has the socket type, or none yet.
LEMMA FirstPass ==
  ASSUME NEW r, NEW e, NEW n \in Nat \ {0}, e \in Seq(Range(e)), Len(e) = n,
         Fresh(e, r), NEW st, r.socktype = AnyType \/ r.socktype = st
  PROVE  Fills(Pass(e, st, r), e, n, st, PortFor(r.serv, st))
<1> DEFINE port == PortFor(r.serv, st)
           l == AllFilled(e, n, st, port)
<1>1. e \in [1 .. n -> Range(e)] /\ DOMAIN e = 1 .. n
  OBVIOUS
<1>2. Settled(e, n, st)
  BY <1>1, FreshFields DEF Settled
<1>3. ga_port(e, st, port) = l
  <2> HIDE DEF port, l
  <2>1. ga_port(e, st, port) = AllFilled(e, n, st, port)
    BY <1>1, <1>2, PortsFilled
  <2> QED
    BY <2>1 DEF l
<1>4. \A i \in 1 .. n : /\ l[i].family = e[i].family /\ l[i].addr = e[i].addr
                        /\ l[i].socktype = st /\ l[i].port = port
                        /\ l[i].clone = e[i].clone
  BY FilledFields DEF AllFilled
<1>5. l = [i \in 1 .. n |-> l[i]]
  BY DEF AllFilled
<1>6. Fills(l, e, n, st, port)
  <2> HIDE DEF l, port
  <2> QED
    BY <1>4, <1>5 DEF Fills
<1>7. Pass(e, st, r) = l
  BY <1>3 DEF Pass
<1> HIDE DEF l
<1> QED
  BY <1>6, <1>7

\* The second pass, for the second socket type, copies every entry.
LEMMA SecondPass ==
  ASSUME NEW r, NEW e, NEW n \in Nat \ {0}, e \in Seq(Range(e)), Len(e) = n,
         r.socktype = AnyType, Fresh(e, r), NEW a, NEW b, a # AnyType, a # b,
         TypesOf(r) = {a, b}, r.serv # NoText
  PROVE  Listing(Pass(Pass(e, a, r), b, r), e, r)
<1> DEFINE c == Pass(e, a, r)
           port == PortFor(r.serv, b)
           d == Copies(c, n, b, port)
<1>1. Fills(c, e, n, a, PortFor(r.serv, a))
  BY FirstPass
<1>2. \A i \in 1 .. n : e[i].clone
  <2>1. DOMAIN e = 1 .. n
    OBVIOUS
  <2> QED
    BY <2>1, FreshFields
<1> HIDE DEF c
<1>3. c \in [1 .. n -> Range(c)]
  BY <1>1 DEF Fills, Range
<1>4. Settling(c, n)
  BY <1>1, <1>2 DEF Fills, Settling
<1>5. Pass(c, b, r) = Doubled(c, d, n)
  <2>1. ga_port(c, b, port) = Doubled(c, d, n)
    <3> HIDE DEF port
    <3> QED
      BY <1>3, <1>4, PortsCloned
  <2> QED
    BY <2>1 DEF Pass
<1>6. \A i \in 1 .. n : d[i].family = c[i].family /\ d[i].addr = c[i].addr
                        /\ d[i].socktype = b /\ d[i].port = port
  <2> TAKE i \in 1 .. n
  <2>1. d[i] = [Filled(c[i], b, port) EXCEPT !.clone = FALSE]
    BY DEF Copies
  <2> HIDE DEF d, port
  <2> QED
    BY <2>1 DEF Filled
<1>7. \A i \in 1 .. n :
           /\ c[i].family = e[i].family /\ c[i].addr = e[i].addr
           /\ c[i].socktype = a /\ c[i].port = PortOf(r, a)
           /\ d[i].family = e[i].family /\ d[i].addr = e[i].addr
           /\ d[i].socktype = b /\ d[i].port = PortOf(r, b)
  <2> HIDE DEF d
  <2> QED
    BY <1>1, <1>6 DEF Fills, PortOf
<1> DEFINE l == Pass(c, b, r)
<1>8. Listing(l, e, r)
  <2> HIDE DEF l, d
  <2>1. l = Doubled(c, d, n)
    BY <1>5 DEF l
  <2> QED
    BY <1>7, <2>1, ListingOfTwo
<1> QED
  BY <1>8 DEF c

\* Whatever the service, what ga_serv makes of the entries lists each with
\* every socket type the service has.
LEMMA ServedOnce ==
  ASSUME NEW r, NEW e, NEW c, e \in Seq(Range(e)), e # << >>, Fresh(e, r),
         ga_serv(e, r, Tried(r), c).status = Ok
  PROVE  Listing(ga_serv(e, r, Tried(r), c).list, e, r)
<1> DEFINE a == ga_serv(e, r, Tried(r), c)
           n == Len(e)
<1>1. n \in Nat \ {0} /\ DOMAIN e = 1 .. n /\ e = [i \in 1 .. n |-> e[i]]
  OBVIOUS
<1>2. Fail("EAI_NONAME").status # Ok /\ Fail("EAI_SERVICE").status # Ok
  BY DEF Fail, Ok
<1>3. CASE r.serv = NoText
  <2>1. a.list = e /\ TypesOf(r) = {r.socktype}
    BY <1>3 DEF ga_serv, Succeed, TypesOf
  <2>2. \A i \in 1 .. n : e[i].socktype = r.socktype /\ e[i].port = PortOf(r, r.socktype)
    BY <1>1, <1>3, FreshFields DEF PortOf
  <2> HIDE DEF n
  <2>3. Listing(e, e, r)
    BY <1>1, <2>1, <2>2, ListingOfOne DEF n
  <2> QED
    BY <2>1, <2>3
<1>4. ASSUME r.serv # NoText PROVE Tried(r) # << >> /\ a.list = Passes(e, r, Tried(r))
  BY <1>2, <1>4 DEF ga_serv, Succeed
<1>5. ASSUME r.serv # NoText, NEW st, r.socktype = AnyType \/ r.socktype = st,
             Tried(r) = <<st>>, TypesOf(r) = {st}
      PROVE  Listing(a.list, e, r)
  <2> DEFINE l == Pass(e, st, r)
  <2>1. a.list = l
    BY <1>4, <1>5, OnePass
  <2> HIDE DEF a, n
  <2>2. Fills(l, e, n, st, PortFor(r.serv, st))
    BY <1>1, <1>5, FirstPass DEF n
  <2> HIDE DEF l
  <2>3. Listing(l, e, r)
    BY <1>1, <1>5, <2>2, ListingOfOne DEF n, Fills, PortOf
  <2> QED
    BY <2>1, <2>3
<1>6. CASE r.serv # NoText /\ r.socktype # AnyType
  <2> DEFINE st == r.socktype
  <2>1. Offers(r.serv, st)
    BY <1>4, <1>6 DEF Tried
  <2>2. Tried(r) = <<st>> /\ TypesOf(r) = {st}
    BY <1>6, <2>1 DEF Tried, TypesOf
  <2> QED
    BY <1>5, <1>6, <2>2
<1>7. CASE r.serv # NoText /\ r.socktype = AnyType
  <2> DEFINE tcp == "SOCK_STREAM"  udp == "SOCK_DGRAM"
             try(st) == IF Offers(r.serv, st) THEN <<st>> ELSE << >>
  <2>1. Tried(r) = try(tcp) \o try(udp) /\ TypesOf(r) = {st \in {tcp, udp} : Offers(r.serv, st)}
    BY <1>7 DEF Tried, TypesOf, SocketTypes
  <2>2. << >> \o << >> = << >> /\ << >> \o <<udp>> = <<udp>> /\ <<tcp>> \o << >> = <<tcp>>
        /\ <<tcp>> \o <<udp>> = <<tcp, udp>>
    <3>1. << >> \in Seq({tcp, udp}) /\ <<tcp>> \in Seq({tcp, udp}) /\ <<udp>> \in Seq({tcp, udp})
      OBVIOUS
    <3> HIDE DEF tcp, udp
    <3>2. << >> \o << >> = << >> /\ << >> \o <<udp>> = <<udp>> /\ <<tcp>> \o << >> = <<tcp>>
      BY <3>1
    <3>3. <<tcp>> \o <<udp>> = <<tcp, udp>>
      <4> DEFINE q == <<tcp>> \o <<udp>>
      <4>1. q \in Seq({tcp, udp}) /\ Len(q) = 2 /\ q[1] = tcp /\ q[2] = udp
        BY <3>1
      <4> HIDE DEF q
      <4>2. q = <<tcp, udp>>
        BY <4>1
      <4> QED
        BY <4>2 DEF q
    <3> QED
      BY <3>2, <3>3
  <2>3. CASE Offers(r.serv, tcp) /\ ~Offers(r.serv, udp)
    <3>1. Tried(r) = <<tcp>> /\ TypesOf(r) = {tcp}
      BY <2>1, <2>2, <2>3
    <3> QED
      BY <1>5, <1>7, <3>1
  <2>4. CASE ~Offers(r.serv, tcp) /\ Offers(r.serv, udp)
    <3>1. Tried(r) = <<udp>> /\ TypesOf(r) = {udp}
      BY <2>1, <2>2, <2>4
    <3> QED
      BY <1>5, <1>7, <3>1
  <2>5. CASE Offers(r.serv, tcp) /\ Offers(r.serv, udp)
    <3>1. Tried(r) = <<tcp, udp>> /\ TypesOf(r) = {tcp, udp}
      BY <2>1, <2>2, <2>5
    <3>2. a.list = Pass(Pass(e, tcp, r), udp, r)
      BY <1>4, <1>7, <3>1, TwoPasses
    <3>3. tcp # AnyType /\ tcp # udp
      BY DEF AnyType
    <3>4. Listing(Pass(Pass(e, tcp, r), udp, r), e, r)
      <4> HIDE DEF a, n, tcp, udp
      <4> QED
        BY <1>1, <1>7, <3>1, <3>3, SecondPass DEF n
    <3> QED
      BY <3>2, <3>4
  <2>6. CASE ~Offers(r.serv, tcp) /\ ~Offers(r.serv, udp)
    BY <1>4, <1>7, <2>1, <2>2, <2>6
  <2> QED
    BY <2>3, <2>4, <2>5, <2>6
<1> QED
  BY <1>3, <1>6, <1>7

-----------------------------------------------------------------------------
(* What is found: libgai.                                                  *)

Once(x) == x \in Seq(Range(x)) /\ IsInjective(x)

\* A literal has the family it is written in.
LEMMA FamilyOfLiteral ==
  ASSUME NEW h
  PROVE  /\ h \in Literal4 => FamilyOf(h) = "AF_INET"
         /\ h \in Literal6 => FamilyOf(h) = "AF_INET6"
         /\ h \notin Literal4 \cup Literal6 => FamilyOf(h) = "none"
BY ResolverAssumption DEF FamilyOf

\* The hosts both libraries look up when none is given.
LEMMA FamilyOfKnown ==
  /\ FamilyOf("0.0.0.0") = "AF_INET" /\ FamilyOf("0::0") = "AF_INET6"
  /\ FamilyOf("0::1") = "AF_INET6"
  /\ FamilyOf(NoText) = "none" /\ FamilyOf("localhost") = "none"
BY FamilyOfLiteral, ResolverAssumption

\* No address at all.
LEMMA EmptyOnce == Once(<< >>) /\ ToSet(<< >>) = {}
BY DEF Once, IsInjective, ToSet

\* A literal is the one address found for it.
LEMMA SingleOnce ==
  ASSUME NEW h
  PROVE  Once(<<h>>) /\ ToSet(<<h>>) = {h}
BY DEF Once, IsInjective, ToSet, Range

\* An answer of the DNS has no address twice.
LEMMA LookUpOnce ==
  ASSUME NEW h, NEW f \in Internet
  PROVE  Once(LookUp(h, f))
<1>1. CASE h \in DOMAIN Dns
  <2>1. LookUp(h, f) = Dns[h][f]
    BY <1>1 DEF LookUp
  <2>2. Dns[h][f] \in Seq(ToSet(Dns[h][f]))
    BY <1>1, ResolverAssumption
  <2>3. IsInjective(Dns[h][f])
    BY <1>1, DnsAssumption
  <2>4. ToSet(Dns[h][f]) = Range(Dns[h][f])
    BY DEF ToSet, Range
  <2> QED
    BY <2>1, <2>2, <2>3, <2>4 DEF Once
<1>2. CASE h \notin DOMAIN Dns
  BY <1>2, EmptyOnce DEF LookUp
<1> QED
  BY <1>1, <1>2

\* A search of libgai brings no address twice.
LEMMA SearchOnce ==
  ASSUME NEW s, s.family \in Internet
  PROVE  Once(Search(s))
BY EmptyOnce, SingleOnce, LookUpOnce DEF Search

\* The host libgai searches for the family f.
Host(r, f) ==
  CASE r.host # NoText -> r.host
    [] r.host = NoText /\ r.passive -> IF f = "AF_INET" THEN "0.0.0.0" ELSE "0::0"
    [] OTHER -> IF f = "AF_INET" THEN "localhost" ELSE "0::1"
Found(r, f) == Search([family |-> f, host |-> Host(r, f)])

\* Its search for a family brings the addresses the request is about.
LEMMA FoundAddresses ==
  ASSUME NEW r, NEW f \in Internet, lib = "libgai"
  PROVE  Once(Found(r, f)) /\ ToSet(Found(r, f)) = AddressesOf(r, f)
<1> DEFINE s == [family |-> f, host |-> Host(r, f)]
<1>1. s.family = f /\ s.host = Host(r, f)
  OBVIOUS
<1>2. Once(Found(r, f))
  <2> HIDE DEF s
  <2> QED
    BY <1>1, SearchOnce DEF Found, s
<1>3. f = "AF_INET" \/ f = "AF_INET6"
  BY DEF Internet
<1> DEFINE h == Host(r, f)
<1>4. ToSet(Found(r, f)) = CASE FamilyOf(h) = f -> {h}
                             [] FamilyOf(h) \in Internet \ {f} -> {}
                             [] OTHER -> ToSet(LookUp(h, f))
  <2> HIDE DEF s
  <2> QED
    BY <1>1, EmptyOnce, SingleOnce DEF Found, Search, s
<1>5. CASE r.host # NoText
  <2>1. h = r.host
    BY <1>5 DEF Host
  <2>2. AddressesOf(r, f) = CASE FamilyOf(r.host) = f -> {r.host}
                             [] FamilyOf(r.host) \in Internet \ {f} -> {}
                             [] OTHER -> ToSet(LookUp(r.host, f))
    <3> HIDE DEF h, s
    <3> QED
      BY <1>5 DEF AddressesOf
  <2> HIDE DEF h, s
  <2> QED
    BY <1>2, <1>4, <2>1, <2>2
<1>6. CASE r.host = NoText /\ r.passive
  <2>1. h = IF f = "AF_INET" THEN "0.0.0.0" ELSE "0::0"
    BY <1>6 DEF Host
  <2>2. FamilyOf(h) = f
    BY <1>3, <2>1, FamilyOfKnown
  <2>3. ToSet(Found(r, f)) = {h}
    BY <1>4, <2>2
  <2>4. FamilyOf(r.host) # f /\ FamilyOf(r.host) \notin Internet
    BY <1>3, <1>6, FamilyOfKnown DEF Internet
  <2>5. AddressesOf(r, f) = {IF f = "AF_INET" THEN "0.0.0.0" ELSE "0::0"}
    BY <1>6, <2>4 DEF AddressesOf
  <2> QED
    BY <1>2, <2>1, <2>3, <2>5
<1>7. CASE r.host = NoText /\ ~r.passive
  <2>1. h = IF f = "AF_INET" THEN "localhost" ELSE "0::1"
    BY <1>7 DEF Host
  <2>2. FamilyOf(r.host) # f /\ FamilyOf(r.host) \notin Internet
    BY <1>3, <1>7, FamilyOfKnown DEF Internet
  <2>3. CASE f = "AF_INET"
    <3>1. ToSet(Found(r, f)) = ToSet(LookUp("localhost", f))
      BY <1>4, <2>1, <2>3, FamilyOfKnown DEF Internet
    <3>2. AddressesOf(r, f) = ToSet(LookUp("localhost", f))
      BY <1>7, <2>2, <2>3 DEF AddressesOf
    <3> QED
      BY <1>2, <3>1, <3>2
  <2>4. CASE f = "AF_INET6"
    <3>1. ToSet(Found(r, f)) = {"0::1"}
      BY <1>4, <2>1, <2>4, FamilyOfKnown DEF Internet
    <3>2. AddressesOf(r, f) = {"0::1"}
      BY <1>7, <2>2, <2>4 DEF AddressesOf
    <3> QED
      BY <1>2, <3>1, <3>2
  <2> QED
    BY <1>3, <2>3, <2>4
<1> QED
  BY <1>2, <1>5, <1>6, <1>7

\* The entries made of the addresses x.
Among(e, f, x) == \E i \in DOMAIN e : e[i].family = f /\ e[i].addr = x

\* The entries made of the addresses of one search.
LEMMA EntriesFresh ==
  ASSUME NEW r, NEW f \in Internet, NEW x, Once(x)
  PROVE  /\ Entries(r, f, x) \in Seq(Range(Entries(r, f, x)))
         /\ Len(Entries(r, f, x)) = Len(x)
         /\ Fresh(Entries(r, f, x), r)
         /\ \A g, y : Among(Entries(r, f, x), g, y) <=> (g = f /\ y \in ToSet(x))
<1> DEFINE e == Entries(r, f, x)  n == Len(x)
<1>1. n \in Nat /\ DOMAIN x = 1 .. n
  BY DEF Once
<1>2. e \in Seq(Range(e)) /\ Len(e) = n /\ DOMAIN e = 1 .. n
  <2>1. e = [j \in 1 .. n |-> e[j]]
    BY <1>1 DEF Entries
  <2> HIDE DEF e, n
  <2> QED
    BY <1>1, <2>1, IsSequence
<1>3. \A j \in 1 .. n : /\ e[j] = ga_aistruct(r.socktype, x[j], f)
                        /\ e[j].family = f /\ e[j].addr = x[j]
  BY <1>1 DEF Entries, ga_aistruct
<1>4. \A i, j \in 1 .. n : x[i] = x[j] => i = j
  BY <1>1 DEF Once, IsInjective
<1> HIDE DEF e, n
<1>5. Fresh(e, r)
  <2>1. \A i \in DOMAIN e : /\ e[i].family \in Internet
                            /\ e[i] = ga_aistruct(r.socktype, e[i].addr, e[i].family)
    BY <1>2, <1>3
  <2>2. \A i, j \in DOMAIN e : (e[i].family = e[j].family /\ e[i].addr = e[j].addr) => i = j
    BY <1>2, <1>3, <1>4
  <2>3. \A i, j \in DOMAIN e : (e[i].family = "AF_INET" /\ e[j].family = "AF_INET6") => j < i
    BY <1>2, <1>3
  <2> QED
    BY <2>1, <2>2, <2>3 DEF Fresh
<1>6. \A g, y : Among(e, g, y) <=> (g = f /\ y \in ToSet(x))
  BY <1>1, <1>2, <1>3 DEF Among, ToSet
<1> QED
  BY <1>2, <1>5, <1>6 DEF e, n

\* A sequence is one of its own elements.
LEMMA SequenceOfOwn ==
  ASSUME NEW T, NEW e \in Seq(T)
  PROVE  e \in Seq(Range(e))
<1>1. PICK N \in Nat : N = Len(e)
  OBVIOUS
<1>2. e = [k \in 1 .. N |-> e[k]]
  BY <1>1
<1> QED
  BY <1>2, IsSequence

Joins(e, a, b, m, n) ==
  /\ m \in Nat /\ n \in Nat /\ DOMAIN a = 1 .. m /\ DOMAIN b = 1 .. n
  /\ DOMAIN e = 1 .. m + n
  /\ \A i \in 1 .. m : e[i] = a[i]
  /\ \A i \in m + 1 .. m + n : i - m \in 1 .. n /\ e[i] = b[i - m]

\* What is where in a concatenation.
LEMMA Concatenated ==
  ASSUME NEW T, NEW a \in Seq(T), NEW b \in Seq(T)
  PROVE  Joins(a \o b, a, b, Len(a), Len(b)) /\ a \o b \in Seq(T)
BY DEF Joins

Both(r, x, y) == Entries(r, "AF_INET6", x) \o Entries(r, "AF_INET", y)
\* The entries of e are about the IPv6 addresses x and the IPv4 addresses y.
HoldsBoth(e, x, y) ==
  \A g, z : Among(e, g, z)
              <=> (g = "AF_INET6" /\ z \in ToSet(x)) \/ (g = "AF_INET" /\ z \in ToSet(y))

\* The entries of two searches, IPv6 before IPv4, are as those of one.
LEMMA BothFresh ==
  ASSUME NEW r, NEW x, NEW y, Once(x), Once(y)
  PROVE  /\ Both(r, x, y) \in Seq(Range(Both(r, x, y))) /\ Fresh(Both(r, x, y), r)
         /\ HoldsBoth(Both(r, x, y), x, y)
<1> DEFINE a == Entries(r, "AF_INET6", x)  b == Entries(r, "AF_INET", y)
           m == Len(a)  n == Len(b)  T == Range(a) \cup Range(b)
           e == Both(r, x, y)
<1>1. /\ a \in Seq(Range(a)) /\ Fresh(a, r)
      /\ \A g, z : Among(a, g, z) <=> (g = "AF_INET6" /\ z \in ToSet(x))
  BY EntriesFresh DEF Internet
<1>2. /\ b \in Seq(Range(b)) /\ Fresh(b, r)
      /\ \A g, z : Among(b, g, z) <=> (g = "AF_INET" /\ z \in ToSet(y))
  BY EntriesFresh DEF Internet
<1>3. \A i \in DOMAIN a : a[i].family = "AF_INET6"
  <2> HIDE DEF a
  <2> QED
    BY <1>1 DEF Among
<1>4. \A i \in DOMAIN b : b[i].family = "AF_INET"
  <2> HIDE DEF b
  <2> QED
    BY <1>2 DEF Among
<1>5. a \in Seq(T) /\ b \in Seq(T) /\ e = a \o b
  <2> HIDE DEF a, b, e
  <2>1. a \in Seq(T)
    BY <1>1
  <2>2. b \in Seq(T)
    BY <1>2
  <2> QED
    BY <2>1, <2>2 DEF a, b, e, Both
<1> HIDE DEF a, b, e, T
<1>6. Joins(e, a, b, m, n) /\ e \in Seq(T)
  BY <1>5, Concatenated
<1>7. /\ m \in Nat /\ n \in Nat /\ DOMAIN a = 1 .. m /\ DOMAIN b = 1 .. n
      /\ DOMAIN e = 1 .. m + n
  BY <1>6 DEF Joins
<1>8. \A i \in 1 .. m : e[i] = a[i]
  BY <1>6 DEF Joins
<1>9. \A i \in m + 1 .. m + n : i - m \in 1 .. n /\ e[i] = b[i - m]
  BY <1>6 DEF Joins
<1>10. e \in Seq(Range(e))
  BY <1>6, SequenceOfOwn
<1> HIDE DEF m, n
<1>11. ASSUME NEW i \in DOMAIN e
      PROVE  \/ i \in 1 .. m /\ e[i] = a[i] /\ e[i].family = "AF_INET6"
             \/ /\ i \in m + 1 .. m + n /\ i - m \in 1 .. n
                /\ e[i] = b[i - m] /\ e[i].family = "AF_INET"
  <2>1. CASE i \in 1 .. m
    BY <1>3, <1>7, <1>8, <2>1
  <2>2. CASE i \in m + 1 .. m + n
    BY <1>4, <1>7, <1>9, <2>2
  <2> QED
    BY <1>7, <2>1, <2>2
<1>12. Fresh(e, r)
  <2>1. \A i \in DOMAIN e : /\ e[i].family \in Internet
                            /\ e[i] = ga_aistruct(r.socktype, e[i].addr, e[i].family)
    <3> TAKE i \in DOMAIN e
    <3>1. CASE i \in 1 .. m /\ e[i] = a[i]
      BY <1>1, <1>7, <3>1 DEF Fresh
    <3>2. CASE i - m \in 1 .. n /\ e[i] = b[i - m]
      BY <1>2, <1>7, <3>2 DEF Fresh
    <3> QED
      BY <1>11, <3>1, <3>2
  <2>2. ASSUME NEW i \in DOMAIN e, NEW j \in DOMAIN e, e[i].family = e[j].family, e[i].addr = e[j].addr
        PROVE  i = j
    <3>1. CASE i \in 1 .. m /\ j \in 1 .. m
      <4>1. i \in DOMAIN a /\ j \in DOMAIN a /\ e[i] = a[i] /\ e[j] = a[j]
        BY <1>7, <1>8, <3>1
      <4> QED
        BY <1>1, <2>2, <4>1 DEF Fresh
    <3>2. CASE i \in m + 1 .. m + n /\ j \in m + 1 .. m + n
      <4>1. i - m \in DOMAIN b /\ j - m \in DOMAIN b /\ e[i] = b[i - m] /\ e[j] = b[j - m]
        BY <1>7, <1>9, <3>2
      <4>2. i - m = j - m
        BY <1>2, <2>2, <4>1 DEF Fresh
      <4> QED
        BY <1>7, <3>2, <4>2
    <3> QED
      BY <1>11, <2>2, <3>1, <3>2
  <2>3. \A i, j \in DOMAIN e : (e[i].family = "AF_INET" /\ e[j].family = "AF_INET6") => j < i
    <3> TAKE i, j \in DOMAIN e
    <3> SUFFICES ASSUME e[i].family = "AF_INET", e[j].family = "AF_INET6" PROVE j < i
      OBVIOUS
    <3>1. i \in m + 1 .. m + n
      BY <1>11
    <3>2. j \in 1 .. m
      BY <1>11
    <3> QED
      BY <1>7, <3>1, <3>2
  <2> QED
    BY <2>1, <2>2, <2>3 DEF Fresh
<1>13. ASSUME NEW g, NEW z
       PROVE  Among(e, g, z) <=> Among(a, g, z) \/ Among(b, g, z)
  <2>1. ASSUME Among(e, g, z) PROVE Among(a, g, z) \/ Among(b, g, z)
    <3>1. PICK i \in DOMAIN e : e[i].family = g /\ e[i].addr = z
      BY <2>1 DEF Among
    <3>2. CASE i \in 1 .. m /\ e[i] = a[i]
      BY <1>7, <3>1, <3>2 DEF Among
    <3>3. CASE i - m \in 1 .. n /\ e[i] = b[i - m]
      BY <1>7, <3>1, <3>3 DEF Among
    <3> QED
      BY <1>11, <3>2, <3>3
  <2>2. ASSUME Among(a, g, z) PROVE Among(e, g, z)
    <3>1. PICK i \in 1 .. m : a[i].family = g /\ a[i].addr = z
      BY <1>7, <2>2 DEF Among
    <3>2. i \in DOMAIN e /\ e[i] = a[i]
      BY <1>7, <1>8
    <3> QED
      BY <3>1, <3>2 DEF Among
  <2>3. ASSUME Among(b, g, z) PROVE Among(e, g, z)
    <3>1. PICK i \in 1 .. n : b[i].family = g /\ b[i].addr = z
      BY <1>7, <2>3 DEF Among
    <3> DEFINE k == m + i
    <3>2. k \in DOMAIN e /\ k \in m + 1 .. m + n /\ k - m = i
      BY <1>7
    <3>3. e[k] = b[i]
      BY <1>9, <3>2
    <3> HIDE DEF k
    <3> QED
      BY <3>1, <3>2, <3>3 DEF Among
  <2> QED
    BY <2>1, <2>2, <2>3
<1> QED
  <2>1. HoldsBoth(e, x, y)
    BY <1>1, <1>2, <1>13 DEF HoldsBoth
  <2> QED
    BY <1>10, <1>12, <2>1 DEF e

\* The list libgai makes.
GaList(r) ==
  FlattenSeq([i \in DOMAIN ga_nsearch(r) |->
                Entries(r, ga_nsearch(r)[i].family, Search(ga_nsearch(r)[i]))])

\* A request for one family is searched once.
LEMMA OneSearch ==
  ASSUME NEW r, r.family \in Internet
  PROVE  /\ Len(ga_nsearch(r)) = 1
         /\ GaList(r) = Entries(r, r.family, Found(r, r.family))
<1> DEFINE f == r.family  s == ga_nsearch(r)  x == Entries(r, f, Found(r, f))
<1>1. /\ DOMAIN s = 1 .. 1 /\ s[1].family = f /\ s[1].host = Host(r, f)
      /\ s[1] = [family |-> f, host |-> Host(r, f)] /\ Len(s) = 1
  BY DEF ga_nsearch, Host, Internet
<1>2. x \in Seq(Range(x))
  <2>1. Once(Found(r, f))
    BY SearchOnce DEF Found
  <2> QED
    BY <2>1, EntriesFresh
<1>3. [i \in DOMAIN s |-> Entries(r, s[i].family, Search(s[i]))] = <<x>>
  <2> HIDE DEF s
  <2> QED
    BY <1>1 DEF Found
<1> HIDE DEF x
<1> QED
  BY <1>1, <1>2, <1>3, FlattenFew DEF GaList, x

\* A request for any family is searched twice, for IPv6 first.
LEMMA TwoSearches ==
  ASSUME NEW r, r.family = "AF_UNSPEC"
  PROVE  /\ Len(ga_nsearch(r)) = 2
         /\ GaList(r) = Entries(r, "AF_INET6", Found(r, "AF_INET6"))
                          \o Entries(r, "AF_INET", Found(r, "AF_INET"))
<1> DEFINE s == ga_nsearch(r)
           x == Entries(r, "AF_INET6", Found(r, "AF_INET6"))
           y == Entries(r, "AF_INET", Found(r, "AF_INET"))
<1>1. /\ DOMAIN s = 1 .. 2 /\ Len(s) = 2
      /\ s[1].family = "AF_INET6" /\ s[2].family = "AF_INET"
      /\ s[1] = [family |-> "AF_INET6", host |-> Host(r, "AF_INET6")]
      /\ s[2] = [family |-> "AF_INET", host |-> Host(r, "AF_INET")]
  BY DEF ga_nsearch, Host, Internet
<1>2. x \in Seq(Range(x)) /\ y \in Seq(Range(y))
  <2>1. Once(Found(r, "AF_INET6")) /\ Once(Found(r, "AF_INET"))
    BY SearchOnce DEF Found, Internet
  <2>2. "AF_INET6" \in Internet /\ "AF_INET" \in Internet
    BY DEF Internet
  <2> QED
    BY <2>1, <2>2, EntriesFresh
<1>3. [i \in DOMAIN s |-> Entries(r, s[i].family, Search(s[i]))] = <<x, y>>
  <2> HIDE DEF s
  <2> QED
    BY <1>1 DEF Found
<1> DEFINE T == Range(x) \cup Range(y)
<1> HIDE DEF x, y
<1>4. x \in Seq(T) /\ y \in Seq(T)
  BY <1>2
<1> HIDE DEF T
<1>5. FlattenSeq(<<x, y>>) = x \o y
  BY <1>4, FlattenFew
<1>6. GaList(r) = x \o y
  BY <1>3, <1>5 DEF GaList
<1> QED
  BY <1>1, <1>6 DEF x, y


Answers(a, r) ==
  \E e : e \in Seq(Range(e)) /\ Fresh(e, r) /\ About(e, r) /\ Listing(a.list, e, r)
Local(a) ==
  /\ \A i \in DOMAIN a.list : a.list[i].family = "AF_LOCAL"
  /\ \A i, j \in DOMAIN a.list : a.list[i].socktype = a.list[j].socktype => i = j

\* What libgai has found before it fills in the ports is what the request
\* is about.
LEMMA GaAbout ==
  ASSUME NEW r, r.family \in Internet \cup {"AF_UNSPEC"}, lib = "libgai"
  PROVE  GaList(r) \in Seq(Range(GaList(r))) /\ Fresh(GaList(r), r) /\ About(GaList(r), r)
<1> DEFINE e == GaList(r)
<1>1. \A f \in Internet : Once(Found(r, f)) /\ ToSet(Found(r, f)) = AddressesOf(r, f)
  BY FoundAddresses
<1>2. CASE r.family \in Internet
  <2> DEFINE f == r.family
  <2>1. e = Entries(r, f, Found(r, f))
    BY <1>2, OneSearch
  <2>2. /\ e \in Seq(Range(e)) /\ Fresh(e, r)
        /\ \A g, y : Among(e, g, y) <=> (g = f /\ y \in ToSet(Found(r, f)))
    <3> DEFINE x == Found(r, f)
    <3>1. Once(x) /\ f \in Internet
      BY <1>1, <1>2
    <3>2. e = Entries(r, f, x)
      BY <2>1
    <3> HIDE DEF e, f, x
    <3>3. /\ e \in Seq(Range(e)) /\ Fresh(e, r)
          /\ \A g, y : Among(e, g, y) <=> (g = f /\ y \in ToSet(x))
      BY <3>1, <3>2, EntriesFresh
    <3> QED
      BY <3>3 DEF x
  <2>3. Internet \cap FamiliesOf(r) = {f}
    BY <1>2 DEF FamiliesOf, Internet
  <2> HIDE DEF e
  <2>4. About(e, r)
    <3> HIDE DEF f
    <3>1. f \in Internet /\ ToSet(Found(r, f)) = AddressesOf(r, f)
      BY <1>1, <1>2 DEF f
    <3>2. \A g, y : (g \in Internet \cap FamiliesOf(r) /\ y \in AddressesOf(r, g))
                      <=> Among(e, g, y)
      BY <2>2, <2>3, <3>1
    <3> QED
      BY <3>2 DEF About, Among
  <2> QED
    BY <2>2, <2>4 DEF e
<1>3. CASE r.family = "AF_UNSPEC"
  <2> DEFINE f == "AF_INET6"  g == "AF_INET"
  <2>1. e = Entries(r, f, Found(r, f)) \o Entries(r, g, Found(r, g))
    BY <1>3, TwoSearches
  <2>2. Internet \cap FamiliesOf(r) = {f, g}
    BY <1>3 DEF FamiliesOf, Internet
  <2>3. f \in Internet /\ g \in Internet
    BY DEF Internet
  <2> HIDE DEF e
  <2>4. /\ e \in Seq(Range(e)) /\ Fresh(e, r)
        /\ HoldsBoth(e, Found(r, f), Found(r, g))
    <3>1. e = Both(r, Found(r, f), Found(r, g))
      BY <2>1 DEF Both
    <3> QED
      BY <1>1, <2>3, <3>1, BothFresh
  <2>5. About(e, r)
    <3> HIDE DEF f, g
    <3> QED
      <4> DEFINE x == Found(r, f)  y == Found(r, g)
      <4>1. ToSet(x) = AddressesOf(r, f) /\ ToSet(y) = AddressesOf(r, g)
        BY <1>1, <2>3
      <4>3. \A h, z : Among(e, h, z) <=> (h = f /\ z \in ToSet(x)) \/ (h = g /\ z \in ToSet(y))
        BY <2>4 DEF HoldsBoth, f, g
      <4> HIDE DEF x, y
      <4>2. \A h, z : (h \in Internet \cap FamiliesOf(r) /\ z \in AddressesOf(r, h))
                        <=> Among(e, h, z)
        BY <2>2, <4>1, <4>3
      <4> QED
        BY <4>2 DEF About, Among
  <2> QED
    BY <2>4, <2>5 DEF e
<1> QED
  BY <1>2, <1>3

\* An error is told by its status.
LEMMA FailStatus ==
  ASSUME NEW e
  PROVE  Fail(e).status = e
BY DEF Fail

\* A Unix domain path has each socket type once.
LEMMA UnixOnce ==
  ASSUME NEW r, ga_unix(r).status = Ok
  PROVE  Local(ga_unix(r))
<1> DEFINE entry(st) == ga_aistruct(st, r.serv, "AF_LOCAL")
           a == ga_unix(r)
<1>1. \A st : entry(st).family = "AF_LOCAL" /\ entry(st).socktype = st
  BY DEF ga_aistruct
<1>2. \/ a.list = <<entry("SOCK_STREAM"), entry("SOCK_DGRAM")>>
      \/ a.list = <<entry(r.socktype)>>
  BY FailStatus DEF ga_unix, Succeed, Ok
<1> HIDE DEF entry
<1> QED
  BY <1>1, <1>2 DEF Local

\* The three kinds of answers libgai gives.
LEMMA LibgaiCases ==
  ASSUME NEW r, NEW a \in getaddrinfo(r)
  PROVE  \/ \E s : s # Ok /\ a = Fail(s)
         \/ a = ga_unix(r) /\ r.host \in {"/local", "/unix"} /\ r.serv \in Paths
         \/ /\ ga_nsearch(r) # << >> /\ GaList(r) # << >>
            /\ a = ga_serv(GaList(r), r, Tried(r), r.canon /\ r.host # NoText)
BY DEF getaddrinfo, GaList, Ok, LookupErrors

\* One that ga_serv has filled in lists what the request is about.
LEMMA GaServed ==
  ASSUME NEW r, NEW c, lib = "libgai", ga_nsearch(r) # << >>, GaList(r) # << >>,
         NEW a, a = ga_serv(GaList(r), r, Tried(r), c), a.status = Ok
  PROVE  Answers(a, r)
<1> DEFINE e == GaList(r)
<1>1. r.family \in Internet \cup {"AF_UNSPEC"}
  BY DEF ga_nsearch
<1>2. e \in Seq(Range(e)) /\ Fresh(e, r) /\ About(e, r)
  BY <1>1, GaAbout
<1>3. Listing(a.list, e, r)
  <2> HIDE DEF e
  <2> QED
    BY <1>2, ServedOnce DEF e
<1> QED
  BY <1>2, <1>3 DEF Answers

\* Every answer of libgai lists what the request is about, or a path.
LEMMA LibgaiAnswers ==
  ASSUME NEW r, lib = "libgai", NEW a \in getaddrinfo(r), a.status = Ok
  PROVE  Local(a) \/ Answers(a, r)
BY LibgaiCases, FailStatus, UnixOnce, GaServed

-----------------------------------------------------------------------------
(* What is found: libfree.                                                 *)

\* What libfree looks up, and for which family.
OldKind(r) ==
  IF FamilyOf(old_host(r)) \in Internet THEN FamilyOf(old_host(r))
  ELSE IF old_use_inet6(r, before) THEN "AF_INET6" ELSE "AF_INET"
OldFound(r) ==
  IF FamilyOf(old_host(r)) \in Internet THEN <<old_host(r)>> ELSE LookUp(old_host(r), OldKind(r))

\* The requests libfree looks up.
OldLooksUp(r) ==
  /\ ~(r.host = NoText /\ r.passive /\ r.family = "AF_UNSPEC")
  /\ old_family(r) \in {"AF_UNSPEC", OldKind(r)}

\* libfree looks up one of the two families,
LEMMA OldKindType == ASSUME NEW r PROVE OldKind(r) \in Internet
BY DEF OldKind, Internet

\* and brings no address twice.
LEMMA OldFoundOnce == ASSUME NEW r PROVE Once(OldFound(r))
BY SingleOnce, LookUpOnce, OldKindType DEF OldFound

\* What it looks up is what the request is about: of a literal its own
\* family, of no host the wildcard or the local one, of a name the family asked
\* for or, if none was, the one its resolver was left with.
LEMMA OldAddresses ==
  ASSUME NEW r, lib = "libfree", OldLooksUp(r), NEW f, NEW x
  PROVE  (f \in Internet \cap FamiliesOf(r) /\ x \in AddressesOf(r, f))
           <=> (f = OldKind(r) /\ x \in ToSet(OldFound(r)))
<1> DEFINE k == OldKind(r)  h == old_host(r)
<1>1. k \in Internet /\ Internet = {"AF_INET", "AF_INET6"}
  BY OldKindType DEF Internet
<1>2. CASE FamilyOf(r.host) \in Internet
  <2>1. r.host # NoText
    BY <1>2, FamilyOfKnown DEF Internet
  <2>2. h = r.host /\ k = FamilyOf(r.host) /\ OldFound(r) = <<r.host>>
    BY <1>2, <2>1 DEF old_host, OldKind, OldFound
  <2>3. ToSet(OldFound(r)) = {r.host}
    BY <2>2, SingleOnce
  <2>4. ASSUME f \in Internet
        PROVE  AddressesOf(r, f) = IF f = k THEN {r.host} ELSE {}
    <3>1. FamilyOf(r.host) = f <=> f = k
      BY <2>2
    <3>2. CASE f = k
      <4> HIDE DEF k, h
      <4> QED
        BY <1>2, <2>1, <3>1, <3>2 DEF AddressesOf
    <3>3. CASE f # k
      <4> HIDE DEF k, h
      <4> QED
        BY <1>2, <2>1, <3>1, <3>3 DEF AddressesOf
    <3> QED
      BY <3>2, <3>3
  <2>5. FamiliesOf(r) = Internet \/ FamiliesOf(r) = {k}
    BY <1>2, <2>1, <2>2 DEF FamiliesOf, OldLooksUp, old_family
  <2> HIDE DEF k
  <2> QED
    BY <1>1, <2>3, <2>4, <2>5 DEF k
<1>3. CASE FamilyOf(r.host) \notin Internet
  <2>1. old_family(r) = r.family /\ r.family \in {"AF_UNSPEC", k}
    BY <1>3 DEF OldLooksUp, old_family
  <2>2. CASE r.host = NoText /\ r.passive
    <3>1. r.family = k
      BY <2>1, <2>2 DEF OldLooksUp
    <3>2. h = IF k = "AF_INET" THEN "0.0.0.0" ELSE "0::0"
      BY <1>1, <2>2, <3>1 DEF old_host
    <3>3. FamilyOf(h) = k /\ OldFound(r) = <<h>>
      BY <1>1, <3>2, FamilyOfKnown DEF OldFound
    <3>4. ToSet(OldFound(r)) = {h}
      BY <3>3, SingleOnce
    <3>5. FamiliesOf(r) = {k}
      BY <1>1, <3>1 DEF FamiliesOf
    <3>6. AddressesOf(r, k) = {h}
      <4>1. FamilyOf(r.host) # k
        BY <1>1, <1>3
      <4> HIDE DEF k, h
      <4> QED
        BY <1>1, <1>3, <2>2, <3>2, <4>1 DEF AddressesOf
    <3> HIDE DEF k, h
    <3> QED
      BY <1>1, <3>4, <3>5, <3>6 DEF k
  <2>3. CASE ~(r.host = NoText /\ r.passive)
    <3>1. h = IF r.host = NoText THEN "localhost" ELSE r.host
      BY <2>3 DEF old_host
    <3>2. FamilyOf(h) \notin Internet
      BY <1>3, <3>1, FamilyOfKnown DEF Internet
    <3>3. OldFound(r) = LookUp(h, k)
      BY <3>2 DEF OldFound
    <3>4. FamiliesOf(r) = {k}
      <4>1. CASE r.family = "AF_UNSPEC"
        <5>1. k = IF before THEN "AF_INET6" ELSE "AF_INET"
          BY <2>1, <3>2, <4>1 DEF OldKind, old_use_inet6
        <5> HIDE DEF k
        <5> QED
          BY <1>3, <4>1, <5>1 DEF FamiliesOf
      <4>2. CASE r.family # "AF_UNSPEC"
        BY <2>1, <4>2 DEF FamiliesOf
      <4> QED
        BY <4>1, <4>2
    <3>5. AddressesOf(r, k) = ToSet(LookUp(h, k))
      <4>1. FamilyOf(r.host) # k
        BY <1>1, <1>3
      <4> HIDE DEF k, h
      <4> QED
        BY <1>1, <1>3, <2>3, <3>1, <4>1 DEF AddressesOf
    <3> HIDE DEF k, h
    <3> QED
      BY <1>1, <3>3, <3>4, <3>5 DEF k
  <2> QED
    BY <2>2, <2>3
<1> QED
  BY <1>2, <1>3

\* A Unix domain path has one entry.
LEMMA LocalOnce ==
  ASSUME NEW path, NEW r, addrinfo_local(path, r).status = Ok
  PROVE  Local(addrinfo_local(path, r))
<1> DEFINE text == IF path \in LongPaths THEN <<"cut", path>> ELSE path
           entry == ga_aistruct(r.socktype, text, "AF_LOCAL")
           a == addrinfo_local(path, r)
<1>1. entry.family = "AF_LOCAL"
  BY DEF ga_aistruct
<1>2. a.list = <<entry>>
  BY FailStatus DEF addrinfo_local, Succeed, Ok
<1> HIDE DEF entry, a
<1>3. Local(a)
  BY <1>1, <1>2 DEF Local
<1> QED
  BY <1>3 DEF a

\* libfree's search for a service ends as libgai's does, or in an error.
LEMMA OldServed ==
  ASSUME NEW r, NEW e, NEW c, ga_serv(e, r, old_serv(r), c).status = Ok
  PROVE  ga_serv(e, r, old_serv(r), c) = ga_serv(e, r, Tried(r), c)
<1>1. Fail("EAI_NONAME").status # Ok /\ Fail("EAI_SERVICE").status # Ok
  BY FailStatus DEF Ok
<1>2. CASE r.serv = NoText
  BY <1>2 DEF ga_serv
<1>3. CASE r.serv # NoText
  BY <1>1, <1>3 DEF ga_serv, old_serv
<1> QED
  BY <1>2, <1>3

\* Every answer of libfree lists what the request is about, or a path.
LEMMA LibfreeAnswers ==
  ASSUME NEW r, lib = "libfree", NEW a \in old_getaddrinfo(r, before), a.status = Ok
  PROVE  Local(a) \/ Answers(a, r)
<1>1. \/ \E s : s # Ok /\ a = Fail(s)
      \/ \E p : a = addrinfo_local(p, r)
      \/ /\ OldFound(r) # << >> /\ OldLooksUp(r)
         /\ a = ga_serv(Entries(r, OldKind(r), OldFound(r)), r, old_serv(r), r.canon)
  BY DEF old_getaddrinfo, Undefined, OldFound, OldKind, OldLooksUp, Ok, LookupErrors
<1>2. CASE \E s : s # Ok /\ a = Fail(s)
  BY <1>2, FailStatus
<1>3. CASE \E p : a = addrinfo_local(p, r)
  BY <1>3, LocalOnce
<1>4. CASE /\ OldFound(r) # << >> /\ OldLooksUp(r)
           /\ a = ga_serv(Entries(r, OldKind(r), OldFound(r)), r, old_serv(r), r.canon)
  <2> DEFINE e == Entries(r, OldKind(r), OldFound(r))
  <2>1. /\ e \in Seq(Range(e)) /\ Len(e) = Len(OldFound(r)) /\ Fresh(e, r)
        /\ \A g, y : Among(e, g, y) <=> (g = OldKind(r) /\ y \in ToSet(OldFound(r)))
    <3> DEFINE k == OldKind(r)  x == OldFound(r)
    <3>1. k \in Internet /\ Once(x)
      BY OldKindType, OldFoundOnce
    <3> HIDE DEF k, x
    <3>2. /\ Entries(r, k, x) \in Seq(Range(Entries(r, k, x)))
          /\ Len(Entries(r, k, x)) = Len(x) /\ Fresh(Entries(r, k, x), r)
          /\ \A g, y : Among(Entries(r, k, x), g, y) <=> (g = k /\ y \in ToSet(x))
      BY <3>1, EntriesFresh
    <3> QED
      BY <3>2 DEF k, x
  <2> HIDE DEF e
  <2>2. e # << >>
    BY <1>4, <2>1, OldFoundOnce DEF Once
  <2>3. About(e, r)
    BY <1>4, <2>1, OldAddresses DEF About, Among
  <2>4. a = ga_serv(e, r, Tried(r), r.canon)
    BY <1>4, OldServed DEF e
  <2>5. Listing(a.list, e, r)
    BY <2>1, <2>2, <2>4, ServedOnce
  <2> QED
    BY <2>1, <2>3, <2>5 DEF Answers
<1> QED
  BY <1>1, <1>2, <1>3, <1>4

Resolvers == Openers \cup {"getaddrinfo", "host_serv"}
\* The answer is one getaddrinfo gives.
Answered ==
  /\ lib \in {"libgai", "libfree"}
  /\ call.fn \in Resolvers =>
       answer \in IF lib = "libgai" THEN getaddrinfo(Request(call))
                  ELSE old_getaddrinfo(Request(call), before)

\* Only a call that resolves changes the answer, and with it the request and
\* the state of the resolver it is the answer to.
LEMMA AnsweredStep == Answered /\ [Next]_vars => Answered'
<1> SUFFICES ASSUME Answered, [Next]_vars PROVE Answered'
  OBVIOUS
<1>1. ASSUME NEW c \in Calls, Resolve(c) PROVE Answered'
  <2>1. /\ call' = c /\ lib' = lib /\ before' = use_inet6
        /\ answer' \in IF lib = "libgai" THEN getaddrinfo(Request(c))
                       ELSE old_getaddrinfo(Request(c), use_inet6)
    BY <1>1 DEF Resolve
  <2> QED
    BY <2>1 DEF Answered
<1>2. ASSUME NEW c \in Calls, Start(c) PROVE Answered'
  <2>1. call' = c /\ lib' = lib /\ c.fn \in {"connect_nonb", "connect_timeo"}
    BY <1>2 DEF Start
  <2> QED
    BY <2>1 DEF Answered, Resolvers, Openers
<1>3. CASE UNCHANGED <<lib, call, before, answer>>
  BY <1>3 DEF Answered
<1>4. CASE SocketFails \/ SocketOpens \/ Refused \/ Accepted
  BY <1>3, <1>4 DEF SocketFails, SocketOpens, Refused, Accepted
<1>5. CASE AtOnce \/ InProgress \/ Selected \/ Timed
  BY <1>3, <1>5 DEF AtOnce, InProgress, Selected, Timed
<1>6. CASE UNCHANGED vars
  BY <1>3, <1>6 DEF vars
<1> QED
  BY <1>1, <1>2, <1>4, <1>5, <1>6 DEF Next

\* Every such answer is listed once.
LEMMA AnsweredIsListed == Answered => ListedOnce
<1> SUFFICES ASSUME Answered, call.fn \in Resolvers, answer.status = Ok PROVE ListedOnce
  BY DEF ListedOnce, Resolvers
<1> DEFINE r == Request(call)  l == answer.list
<1>1. Local(answer) \/ Answers(answer, r)
  BY LibgaiAnswers, LibfreeAnswers DEF Answered
<1>2. CASE Local(answer)
  BY <1>2 DEF ListedOnce, Local
<1>3. CASE Answers(answer, r)
  <2>1. /\ {Line(l, i) : i \in DOMAIN l} = Wanted(r)
        /\ Len(l) = Cardinality(Wanted(r))
        /\ \A i \in DOMAIN l : l[i].port = PortOf(r, l[i].socktype)
        /\ \A i, j \in DOMAIN l :
             (l[i].family = "AF_INET" /\ l[j].family = "AF_INET6") => j < i
    <3> HIDE DEF r, l
    <3> QED
      BY <1>3, ListingIsWanted DEF Answers, l
  <2> QED
    BY <2>1 DEF ListedOnce, Line, PortOf
<1> QED
  BY <1>1, <1>2, <1>3

\* Whatever the DNS, the services and the texts are, and whatever was asked
\* before: a list that getaddrinfo returns, of either library, has every address
\* the request is about with every socket type of the service once, with the port
\* of that service for that type, IPv6 before IPv4 - though the two passes of
\* ga_port first fill in and then copy the entries of a list they walk along.
THEOREM EntriesAreListedOnce == Spec => []ListedOnce
<1>1. Init => Answered
  BY DEF Init, Answered, NoCall, Resolvers, Openers
<1>2. Answered /\ [Next]_vars => Answered'
  BY AnsweredStep
<1>3. Answered => ListedOnce
  BY AnsweredIsListed
<1> QED
  BY <1>1, <1>2, <1>3, PTL DEF Spec
=============================================================================
