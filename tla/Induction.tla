----------------------------- MODULE Induction -----------------------------
(***************************************************************************)
(* Induction by a least counterexample, on finite sets and on numbers (the *)
(* induction theorems of the library have an operator as parameter, which  *)
(* the provers cannot instantiate), and what follows for powers of two and *)
(* the sums, folds and flattened sequences of the community modules.       *)
(***************************************************************************)
EXTENDS Integers, SequencesExt, FiniteSetTheorems, TLAPS

\* Sets of subsets of a finite set have minimal members: this is what the proofs
\* below use where one would use induction on a finite set.
LEMMA LeastSubset ==
  ASSUME NEW S, IsFiniteSet(S), NEW Z \in SUBSET SUBSET S, Z # {}
  PROVE  \E T \in Z : \A U \in Z : U \subseteq T => U = T
<1> DEFINE R == StrictSubsetOrdering(S)
           F == FiniteSubsetsOf(S)
<1>1. IsWellFoundedOn(R, F)
  BY FS_StrictSubsetOrderingWellFounded
<1>2. Z \subseteq F
  BY FS_FiniteSubsetsOfFinite
<1> HIDE DEF R, F
<1>3. PICK T \in Z : \A U \in Z : <<U, T>> \notin R
  BY <1>1, <1>2, WFMin
<1>4. \A U \in Z : U \subseteq T => U = T
  <2> TAKE U \in Z
  <2>1. U \in SUBSET S /\ T \in SUBSET S
    OBVIOUS
  <2> QED
    BY <1>3, <2>1 DEF R, StrictSubsetOrdering
<1> QED
  BY <1>4

\* Every set of numbers has a least member.
LEMMA LeastNumber ==
  ASSUME NEW Z \in SUBSET Nat, Z # {}
  PROVE  \E n \in Z : \A m \in Z : n <= m
<1> DEFINE R == OpToRel(<, Nat)
<1>1. R = {p \in Nat \X Nat : p[1] < p[2]}
  BY Zenon DEF OpToRel
<1>2. IsWellFoundedOn(R, Nat)
  BY NatLessThanWellFounded
<1> HIDE DEF R
<1>3. PICK n \in Z : \A m \in Z : <<m, n>> \notin R
  BY <1>2, WFMin
<1>4. \A m \in Z : n <= m
  <2> TAKE m \in Z
  <2>1. m \in Nat /\ n \in Nat /\ (<<m, n>> \in R <=> m < n)
    BY <1>1
  <2> QED
    BY <1>3, <2>1
<1> QED
  BY <1>4

-----------------------------------------------------------------------------
(* Powers of two as a recursive function: the recursion has a solution.    *)

PowStep(g, n) == IF n = 0 THEN 1 ELSE 2 * g[n - 1]

\* 2^n is defined for every n.
LEMMA PowExists == \A n \in Nat : \E g : g = [k \in 0 .. n |-> PowStep(g, k)]
<1> DEFINE Z == {n \in Nat : ~ \E g : g = [k \in 0 .. n |-> PowStep(g, k)]}
<1> SUFFICES ASSUME Z # {} PROVE FALSE
  OBVIOUS
<1>1. PICK n \in Z : \A m \in Z : n <= m
  <2>1. Z \in SUBSET Nat
    OBVIOUS
  <2> HIDE DEF Z
  <2> QED
    BY <2>1, LeastNumber
<1>2. n \in Nat /\ ~ \E g : g = [k \in 0 .. n |-> PowStep(g, k)]
  OBVIOUS
<1>3. n # 0
  <2>1. [k \in 0 .. 0 |-> 1] = [k \in 0 .. 0 |-> PowStep([i \in 0 .. 0 |-> 1], k)]
    BY DEF PowStep
  <2> QED
    BY <1>2, <2>1
<1>4. n - 1 \in Nat /\ n - 1 \notin Z
  BY <1>1, <1>2, <1>3
<1>5. PICK g : g = [k \in 0 .. n - 1 |-> PowStep(g, k)]
  BY <1>4
<1> DEFINE h == [k \in 0 .. n |-> PowStep(g, k)]
<1>6. ASSUME NEW k \in 0 .. n PROVE PowStep(g, k) = PowStep(h, k)
  <2>1. CASE k = 0
    BY <2>1 DEF PowStep
  <2>2. CASE k # 0
    <3>1. k - 1 \in 0 .. n - 1 /\ k - 1 \in 0 .. n
      BY <1>2, <2>2
    <3>2. g[k - 1] = PowStep(g, k - 1)
      BY <1>5, <3>1
    <3>3. h[k - 1] = PowStep(g, k - 1)
      BY <3>1
    <3> QED
      BY <2>2, <3>2, <3>3 DEF PowStep
  <2> QED
    BY <2>1, <2>2
<1>7. h = [k \in 0 .. n |-> PowStep(h, k)]
  BY <1>6
<1> QED
  BY <1>2, <1>7

-----------------------------------------------------------------------------
(* Sums over finite sets: the recursion has a solution, and only one.      *)

Pick(s) == CHOOSE x \in s : TRUE
SumStep(g, f, s) == IF s = {} THEN 0 ELSE f[Pick(s)] + g[s \ {Pick(s)}]
Sums(g, f, S) == g = [s \in SUBSET S |-> SumStep(g, f, s)]

\* What a solution is at one set.
LEMMA SumsUnfold ==
  ASSUME NEW f, NEW S, NEW g, Sums(g, f, S), NEW s \in SUBSET S
  PROVE  g[s] = SumStep(g, f, s)
<1> DEFINE h == [t \in SUBSET S |-> SumStep(g, f, t)]
<1>1. h[s] = SumStep(g, f, s)
  OBVIOUS
<1>2. g = h
  BY DEF Sums
<1> HIDE DEF h
<1> QED
  BY <1>1, <1>2

\* The fold takes out a member.
LEMMA Picked == \A s : s # {} => Pick(s) \in s
  BY DEF Pick

\* Solutions over different sets agree where both are defined.
LEMMA SumsAgree ==
  ASSUME NEW f, NEW S, IsFiniteSet(S), NEW T, NEW g, Sums(g, f, S), NEW h, Sums(h, f, T),
         NEW U, U \subseteq S, U \subseteq T
  PROVE  g[U] = h[U]
<1> DEFINE Z == {V \in SUBSET U : g[V] # h[V]}
<1> SUFFICES ASSUME Z # {} PROVE FALSE
  OBVIOUS
<1>1. IsFiniteSet(U)
  BY FS_Subset
<1>2. PICK V \in Z : \A W \in Z : W \subseteq V => W = V
  <2>1. Z \in SUBSET SUBSET U
    OBVIOUS
  <2> HIDE DEF Z
  <2> QED
    BY <1>1, <2>1, LeastSubset
<1>3. g[V] = SumStep(g, f, V) /\ h[V] = SumStep(h, f, V)
  BY SumsUnfold
<1>4. g[V] # h[V] /\ V \in SUBSET U
  OBVIOUS
<1>5. V # {} /\ g[V \ {Pick(V)}] # h[V \ {Pick(V)}]
  BY <1>3, <1>4 DEF SumStep
<1>6. V \ {Pick(V)} \in Z /\ V \ {Pick(V)} # V
  BY <1>4, <1>5, Picked
<1> QED
  BY <1>2, <1>6

\* There is a solution over every finite set.
LEMMA SumsExist ==
  ASSUME NEW f, NEW S, IsFiniteSet(S)
  PROVE  \A T \in SUBSET S : \E g : Sums(g, f, T)
<1> DEFINE Z == {T \in SUBSET S : ~\E g : Sums(g, f, T)}
<1> SUFFICES ASSUME Z # {} PROVE FALSE
  OBVIOUS
<1>1. PICK T \in Z : \A U \in Z : U \subseteq T => U = T
  <2>1. Z \in SUBSET SUBSET S
    OBVIOUS
  <2> HIDE DEF Z
  <2> QED
    BY <2>1, LeastSubset
<1>2. T \in SUBSET S /\ ~\E g : Sums(g, f, T)
  OBVIOUS
<1> DEFINE k(s) == CHOOSE g : Sums(g, f, s)
           g == [s \in SUBSET T |-> SumStep(k(s \ {Pick(s)}), f, s)]
<1>3. ASSUME NEW s \in SUBSET T, s # T PROVE Sums(k(s), f, s)
  <2>1. s \in SUBSET S /\ s \notin Z
    BY <1>1, <1>2, <1>3
  <2> QED
    BY <2>1
<1> HIDE DEF Z, k
<1>4. ASSUME NEW s \in SUBSET T, s # {} PROVE g[s \ {Pick(s)}] = k(s \ {Pick(s)})[s \ {Pick(s)}]
  <2> DEFINE r == s \ {Pick(s)}
             q == r \ {Pick(r)}
  <2>1. r \in SUBSET T /\ r # T /\ q \in SUBSET T /\ q \subseteq r
    BY <1>4, Picked
  <2>2. Sums(k(r), f, r) /\ k(r)[r] = SumStep(k(r), f, r)
    BY <1>3, <2>1, SumsUnfold
  <2>3. g[r] = SumStep(k(q), f, r)
    BY <2>1
  <2>4. CASE r = {}
    BY <2>2, <2>3, <2>4 DEF SumStep
  <2>5. CASE r # {}
    <3>1. q # T /\ Sums(k(q), f, q) /\ IsFiniteSet(q)
      <4>1. IsFiniteSet(q)
        BY <1>2, <2>1, FS_Subset
      <4>2. q # T
        BY <2>1
      <4> QED
        BY <1>3, <2>1, <4>1, <4>2
    <3>2. k(q)[q] = k(r)[q]
      BY <2>1, <2>2, <3>1, SumsAgree
    <3> QED
      BY <2>2, <2>3, <2>5, <3>2 DEF SumStep
  <2> QED
    BY <2>4, <2>5
<1>5. ASSUME NEW s \in SUBSET T PROVE SumStep(k(s \ {Pick(s)}), f, s) = SumStep(g, f, s)
  BY <1>4 DEF SumStep
<1>6. g = [s \in SUBSET T |-> SumStep(g, f, s)]
  <2> DEFINE h == [s \in SUBSET T |-> SumStep(g, f, s)]
  <2>1. \A s \in SUBSET T : g[s] = h[s]
    BY <1>5
  <2> QED
    BY <1>5
<1> QED
  BY <1>2, <1>6 DEF Sums

\* SumFunctionOnSet of the community modules is the solution over the set.
LEMMA SumUnfold ==
  ASSUME NEW f, NEW S
  PROVE  SumFunctionOnSet(f, S) = (CHOOSE g : Sums(g, f, S))[S]
BY DEF SumFunctionOnSet, FoldFunctionOnSet, MapThenFoldSet, Sums, SumStep, Pick

-----------------------------------------------------------------------------
(* What is used of sums.                                                   *)

\* The sum, one member at a time.
LEMMA SumPick ==
  ASSUME NEW f, NEW S, IsFiniteSet(S)
  PROVE  SumFunctionOnSet(f, S) =
           IF S = {} THEN 0 ELSE f[Pick(S)] + SumFunctionOnSet(f, S \ {Pick(S)})
<1> DEFINE k(s) == CHOOSE g : Sums(g, f, s)
           r == S \ {Pick(S)}
<1>1. Sums(k(S), f, S) /\ Sums(k(r), f, r)
  BY SumsExist
<1>2. SumFunctionOnSet(f, S) = k(S)[S] /\ SumFunctionOnSet(f, r) = k(r)[r]
  BY SumUnfold
<1> HIDE DEF k
<1>3. k(S)[S] = SumStep(k(S), f, S)
  BY <1>1, SumsUnfold
<1>4. k(S)[r] = k(r)[r]
  BY <1>1, SumsAgree
<1> QED
  BY <1>2, <1>3, <1>4 DEF SumStep

\* The sum over nothing.
LEMMA SumEmpty == \A f : SumFunctionOnSet(f, {}) = 0
BY SumPick, FS_EmptySet

\* A sum of integers is an integer.
LEMMA SumType ==
  ASSUME NEW f, NEW S, IsFiniteSet(S), \A x \in S : f[x] \in Int
  PROVE  SumFunctionOnSet(f, S) \in Int
<1> DEFINE Z == {T \in SUBSET S : SumFunctionOnSet(f, T) \notin Int}
<1> SUFFICES ASSUME Z # {} PROVE FALSE
  OBVIOUS
<1>1. PICK T \in Z : \A U \in Z : U \subseteq T => U = T
  <2>1. Z \in SUBSET SUBSET S
    OBVIOUS
  <2> HIDE DEF Z
  <2> QED
    BY <2>1, LeastSubset
<1>2. T \in SUBSET S /\ SumFunctionOnSet(f, T) \notin Int /\ IsFiniteSet(T)
  BY FS_Subset
<1>3. T # {}
  BY <1>2, SumEmpty
<1> DEFINE r == T \ {Pick(T)}
<1>4. r \in SUBSET S /\ r \subseteq T /\ r # T /\ f[Pick(T)] \in Int
  BY <1>2, <1>3, Picked
<1>5. SumFunctionOnSet(f, r) \in Int
  BY <1>1, <1>4
<1> HIDE DEF r
<1>6. SumFunctionOnSet(f, T) = f[Pick(T)] + SumFunctionOnSet(f, r)
  BY <1>2, <1>3, SumPick DEF r
<1> QED
  BY <1>2, <1>4, <1>5, <1>6

\* Any element may be taken out first.
LEMMA SumTake ==
  ASSUME NEW f, NEW S, IsFiniteSet(S), \A x \in S : f[x] \in Int, NEW x \in S
  PROVE  SumFunctionOnSet(f, S) = f[x] + SumFunctionOnSet(f, S \ {x})
<1> DEFINE sum(T) == SumFunctionOnSet(f, T)
           Z == {T \in SUBSET S : \E y \in T : sum(T) # f[y] + sum(T \ {y})}
<1> SUFFICES ASSUME Z # {} PROVE FALSE
  OBVIOUS
<1>1. PICK T \in Z : \A U \in Z : U \subseteq T => U = T
  <2>1. Z \in SUBSET SUBSET S
    OBVIOUS
  <2> HIDE DEF Z
  <2> QED
    BY <2>1, LeastSubset
<1>2. PICK y \in T : sum(T) # f[y] + sum(T \ {y})
  OBVIOUS
<1> DEFINE p == Pick(T)
<1>3. \A U \in SUBSET S : IsFiniteSet(U) /\ sum(U) \in Int
  BY FS_Subset, SumType
<1>4. p \in T /\ sum(T) = f[p] + sum(T \ {p})
  BY <1>2, <1>3, Picked, SumPick
<1>5. ASSUME NEW U \in SUBSET T, U # T, NEW z \in U PROVE sum(U) = f[z] + sum(U \ {z})
  BY <1>1, <1>5
<1> HIDE DEF sum, Z, p
<1>6. p # y
  BY <1>2, <1>4
<1>7. sum(T \ {p}) = f[y] + sum((T \ {p}) \ {y})
  BY <1>4, <1>5, <1>6
<1>8. sum(T \ {y}) = f[p] + sum((T \ {y}) \ {p})
  BY <1>4, <1>5, <1>6
<1>9. (T \ {p}) \ {y} = (T \ {y}) \ {p}
  OBVIOUS
<1>10. /\ f[p] \in Int /\ f[y] \in Int
       /\ sum((T \ {y}) \ {p}) \in Int /\ sum(T \ {p}) \in Int
  BY <1>3, <1>4 DEF Z
<1> DEFINE a == sum((T \ {y}) \ {p})
<1>11. sum(T \ {y}) = f[p] + a /\ sum(T \ {p}) = f[y] + a /\ a \in Int
  BY <1>7, <1>8, <1>9, <1>10
<1> HIDE DEF a
<1>12. sum(T) = f[p] + (f[y] + a) /\ sum(T) # f[y] + (f[p] + a)
  BY <1>2, <1>4, <1>11
<1> QED
  BY <1>10, <1>11, <1>12

\* Only the values on the set count.
LEMMA SumSame ==
  ASSUME NEW f, NEW g, NEW S, IsFiniteSet(S), \A x \in S : f[x] = g[x]
  PROVE  SumFunctionOnSet(f, S) = SumFunctionOnSet(g, S)
<1> DEFINE Z == {T \in SUBSET S : SumFunctionOnSet(f, T) # SumFunctionOnSet(g, T)}
<1> SUFFICES ASSUME Z # {} PROVE FALSE
  OBVIOUS
<1>1. PICK T \in Z : \A U \in Z : U \subseteq T => U = T
  <2>1. Z \in SUBSET SUBSET S
    OBVIOUS
  <2> HIDE DEF Z
  <2> QED
    BY <2>1, LeastSubset
<1>2. T \in SUBSET S /\ SumFunctionOnSet(f, T) # SumFunctionOnSet(g, T) /\ IsFiniteSet(T)
  BY FS_Subset
<1>3. T # {}
  BY <1>2, SumEmpty
<1> DEFINE r == T \ {Pick(T)}
<1>4. r \in SUBSET S /\ r \subseteq T /\ r # T /\ f[Pick(T)] = g[Pick(T)]
  BY <1>2, <1>3, Picked
<1>5. SumFunctionOnSet(f, r) = SumFunctionOnSet(g, r)
  BY <1>1, <1>4
<1> HIDE DEF r
<1>6. /\ SumFunctionOnSet(f, T) = f[Pick(T)] + SumFunctionOnSet(f, r)
      /\ SumFunctionOnSet(g, T) = g[Pick(T)] + SumFunctionOnSet(g, r)
  BY <1>2, <1>3, SumPick DEF r
<1> QED
  BY <1>2, <1>4, <1>5, <1>6

\* Values that grow by one at most make a sum grow by at most their number.
LEMMA SumGrows ==
  ASSUME NEW f, NEW g, NEW S, IsFiniteSet(S),
         \A x \in S : f[x] \in Int /\ g[x] \in Int /\ g[x] - f[x] \in 0 .. 1
  PROVE  SumFunctionOnSet(g, S) - SumFunctionOnSet(f, S) \in 0 .. Cardinality(S)
<1> DEFINE more(T) == SumFunctionOnSet(g, T) - SumFunctionOnSet(f, T)
           Z == {T \in SUBSET S : more(T) \notin 0 .. Cardinality(T)}
<1> SUFFICES ASSUME Z # {} PROVE FALSE
  OBVIOUS
<1>1. PICK T \in Z : \A U \in Z : U \subseteq T => U = T
  <2>1. Z \in SUBSET SUBSET S
    OBVIOUS
  <2> HIDE DEF Z
  <2> QED
    BY <2>1, LeastSubset
<1>2. T \in SUBSET S /\ more(T) \notin 0 .. Cardinality(T) /\ IsFiniteSet(T)
  BY FS_Subset
<1>3. T # {}
  BY <1>2, SumEmpty, FS_EmptySet
<1> DEFINE p == Pick(T)
           r == T \ {p}
<1>4. p \in T /\ p \in S /\ r \in SUBSET S /\ r \subseteq T /\ r # T
  BY <1>2, <1>3, Picked
<1>5. more(r) \in 0 .. Cardinality(r)
  BY <1>1, <1>4
<1>6. IsFiniteSet(r) /\ Cardinality(r) = Cardinality(T) - 1 /\ Cardinality(T) \in Nat
  BY <1>2, <1>4, FS_RemoveElement, FS_CardinalityType
<1>7. /\ SumFunctionOnSet(f, T) = f[p] + SumFunctionOnSet(f, r)
      /\ SumFunctionOnSet(g, T) = g[p] + SumFunctionOnSet(g, r)
  BY <1>2, <1>3, SumPick
<1>8. SumFunctionOnSet(f, r) \in Int /\ SumFunctionOnSet(g, r) \in Int
  <2>1. (\A x \in r : f[x] \in Int) /\ (\A x \in r : g[x] \in Int)
    BY <1>4
  <2> QED
    BY <1>6, <2>1, SumType
<1>9. f[p] \in Int /\ g[p] \in Int /\ g[p] - f[p] \in 0 .. 1
  BY <1>4
<1> HIDE DEF p, r
<1> QED
  BY <1>2, <1>5, <1>6, <1>7, <1>8, <1>9

-----------------------------------------------------------------------------
(* Folds over sequences, one element after the other.                      *)

\* The largest of the first n numbers and of a set that contains n.
LEMMA MaxTop ==
  ASSUME NEW n \in Nat, NEW s \in SUBSET (1 .. n), n \in s
  PROVE  Max(s) = n
<1>1. n \in s /\ \A y \in s : n >= y
  OBVIOUS
<1>2. \A x \in s : (\A y \in s : x >= y) => x = n
  <2> TAKE x \in s
  <2> HAVE \A y \in s : x >= y
  <2>1. x >= n /\ n >= x /\ x \in Nat
    BY <1>1
  <2> QED
    BY <2>1
<1> QED
  BY <1>1, <1>2 DEF Max

LEMMA Below ==
  ASSUME NEW k \in Nat \ {0}
  PROVE  1 .. k # {} /\ (1 .. k) \ {k} = 1 .. k - 1
OBVIOUS

LEMMA MaxOf ==
  ASSUME NEW n \in Nat, NEW s \in SUBSET (1 .. n), s # {}
  PROVE  Max(s) \in s
<1> DEFINE Z == {n - y : y \in s}
<1>1. PICK z \in Z : \A y \in Z : z <= y
  <2>1. Z \in SUBSET Nat
    OBVIOUS
  <2>2. PICK y \in s : TRUE
    OBVIOUS
  <2>3. n - y \in Z
    BY <2>2
  <2> HIDE DEF Z
  <2> QED
    BY <2>1, <2>3, LeastNumber
<1>2. PICK m \in s : z = n - m
  OBVIOUS
<1>3. \A y \in s : n - m <= n - y
  BY <1>1, <1>2
<1>4. \A y \in s : m >= y
  BY <1>3
<1> QED
  BY <1>4 DEF Max

TableStep(h, F, base, q, s) == IF s = {} THEN base ELSE F[<<h[s \ {Max(s)}], q[Max(s)]>>]
Tabled(h, F, base, q, n) == \A s \in SUBSET (1 .. n) : h[s] = TableStep(h, F, base, q, s)

\* The recursion that FoldLeft is defined by has a solution, for an operation
\* that is a function F from states V and elements I to states.
LEMMA TableExists ==
  ASSUME NEW V, NEW I, NEW F \in [V \X I -> V], NEW base \in V,
         NEW N \in Nat, NEW q \in [1 .. N -> I]
  PROVE  \E h \in [SUBSET (1 .. N) -> V] : Tabled(h, F, base, q, N)
<1> DEFINE P(n) == \E h \in [SUBSET (1 .. n) -> V] : Tabled(h, F, base, q, n)
           Z == {n \in 0 .. N : ~P(n)}
<1> SUFFICES P(N)
  OBVIOUS
<1> HIDE DEF P
<1> SUFFICES ASSUME Z # {} PROVE FALSE
  OBVIOUS
<1>1. PICK n \in Z : \A m \in Z : n <= m
  <2>1. Z \in SUBSET Nat
    OBVIOUS
  <2> HIDE DEF Z
  <2> QED
    BY <2>1, LeastNumber
<1>2. n \in 0 .. N /\ ~P(n)
  OBVIOUS
<1>3. n # 0
  <2> DEFINE e == [s \in SUBSET (1 .. 0) |-> base]
  <2>1. 1 .. 0 = {} /\ SUBSET (1 .. 0) = {{}}
    OBVIOUS
  <2>2. e \in [SUBSET (1 .. 0) -> V] /\ \A s \in SUBSET (1 .. 0) : e[s] = base
    OBVIOUS
  <2> HIDE DEF e
  <2>3. Tabled(e, F, base, q, 0)
    BY <2>1, <2>2 DEF Tabled, TableStep
  <2>4. P(0)
    BY <2>2, <2>3 DEF P
  <2> QED
    BY <1>2, <2>4
<1>4. n - 1 \in 0 .. N /\ P(n - 1)
  BY <1>1, <1>2, <1>3
<1>5. PICK h \in [SUBSET (1 .. n - 1) -> V] : Tabled(h, F, base, q, n - 1)
  BY <1>4 DEF P
<1> DEFINE k == [s \in SUBSET (1 .. n) |->
                   IF n \in s THEN F[<<h[s \ {n}], q[n]>>] ELSE h[s]]
<1>6. ASSUME NEW s \in SUBSET (1 .. n), n \notin s
      PROVE  s \in SUBSET (1 .. n - 1) /\ k[s] = h[s]
  BY <1>2, <1>6
<1>7. ASSUME NEW s \in SUBSET (1 .. n), n \in s
      PROVE  /\ s \ {n} \in SUBSET (1 .. n - 1) /\ k[s \ {n}] = h[s \ {n}]
             /\ k[s] = F[<<h[s \ {n}], q[n]>>]
  BY <1>2, <1>6, <1>7
<1>8. k \in [SUBSET (1 .. n) -> V]
  <2>1. ASSUME NEW s \in SUBSET (1 .. n) PROVE k[s] \in V
    <3>1. q[n] \in I
      BY <1>2, <1>3
    <3> QED
      BY <1>6, <1>7, <3>1
  <2> QED
    BY <2>1
<1> HIDE DEF k
<1>9. ASSUME NEW s \in SUBSET (1 .. n) PROVE k[s] = TableStep(k, F, base, q, s)
  <2>1. CASE n \in s
    <3>1. Max(s) = n /\ s # {}
      BY <1>2, <2>1, MaxTop
    <3> QED
      BY <1>7, <2>1, <3>1 DEF TableStep
  <2>2. CASE n \notin s
    <3>1. s \in SUBSET (1 .. n - 1) /\ k[s] = h[s]
      BY <1>6, <2>2
    <3>2. h[s] = TableStep(h, F, base, q, s)
      BY <1>5, <3>1 DEF Tabled
    <3>3. s \ {Max(s)} \in SUBSET (1 .. n) /\ n \notin s \ {Max(s)}
      BY <2>2
    <3>4. k[s \ {Max(s)}] = h[s \ {Max(s)}]
      BY <1>6, <3>3
    <3> QED
      BY <3>1, <3>2, <3>4 DEF TableStep
  <2> QED
    BY <2>1, <2>2
<1>10. Tabled(k, F, base, q, n)
  BY <1>9 DEF Tabled
<1> QED
  BY <1>2, <1>8, <1>10 DEF P

\* The recursion that FlattenSeq is defined by.
FlattenStep(g, s, i) == IF i = 1 THEN s[i] ELSE g[i - 1] \o s[i]

\* The recursion that FlattenSeq is defined by has a solution.
LEMMA FlattenExists ==
  ASSUME NEW s
  PROVE  \A n \in Nat : \E g : g = [i \in 1 .. n |-> FlattenStep(g, s, i)]
<1> DEFINE Z == {n \in Nat : ~ \E g : g = [i \in 1 .. n |-> FlattenStep(g, s, i)]}
<1> SUFFICES ASSUME Z # {} PROVE FALSE
  OBVIOUS
<1>1. PICK n \in Z : \A m \in Z : n <= m
  <2>1. Z \in SUBSET Nat
    OBVIOUS
  <2> HIDE DEF Z
  <2> QED
    BY <2>1, LeastNumber
<1>2. n \in Nat /\ ~ \E g : g = [i \in 1 .. n |-> FlattenStep(g, s, i)]
  OBVIOUS
<1>3. n # 0
  <2> DEFINE e == [i \in 1 .. 0 |-> 0]
  <2>1. e = [i \in 1 .. 0 |-> FlattenStep(e, s, i)]
    OBVIOUS
  <2> HIDE DEF e
  <2> QED
    BY <1>2, <2>1
<1>4. n - 1 \in Nat /\ n - 1 \notin Z
  BY <1>1, <1>2, <1>3
<1>5. PICK g : g = [i \in 1 .. n - 1 |-> FlattenStep(g, s, i)]
  BY <1>4
<1> DEFINE h == [i \in 1 .. n |-> FlattenStep(g, s, i)]
<1>6. ASSUME NEW i \in 1 .. n PROVE FlattenStep(g, s, i) = FlattenStep(h, s, i)
  <2>1. CASE i = 1
    BY <2>1 DEF FlattenStep
  <2>2. CASE i # 1
    <3>1. i - 1 \in 1 .. n - 1 /\ i - 1 \in 1 .. n
      BY <1>2, <2>2
    <3>2. g[i - 1] = FlattenStep(g, s, i - 1)
      BY <1>5, <3>1
    <3>3. h[i - 1] = FlattenStep(g, s, i - 1)
      BY <3>1
    <3> QED
      BY <2>2, <3>2, <3>3 DEF FlattenStep
  <2> QED
    BY <2>1, <2>2
<1>7. h = [i \in 1 .. n |-> FlattenStep(h, s, i)]
  BY <1>6
<1> QED
  BY <1>2, <1>7

\* FlattenSeq, one step after the other.
LEMMA FlattenUnfold ==
  ASSUME NEW s, Len(s) \in Nat \ {0}
  PROVE  \E g : /\ FlattenSeq(s) = g[Len(s)]
                /\ \A i \in 1 .. Len(s) : g[i] = FlattenStep(g, s, i)
<1> DEFINE g == CHOOSE g : g = [i \in 1 .. Len(s) |-> FlattenStep(g, s, i)]
<1>1. FlattenSeq(s) = g[Len(s)]
  BY DEF FlattenSeq, FlattenStep
<1>2. g = [i \in 1 .. Len(s) |-> FlattenStep(g, s, i)]
  BY FlattenExists
<1>3. \A i \in 1 .. Len(s) : g[i] = FlattenStep(g, s, i)
  <2> HIDE DEF g
  <2> QED
    BY <1>2
<1> HIDE DEF g
<1> QED
  BY <1>1, <1>3
=============================================================================
