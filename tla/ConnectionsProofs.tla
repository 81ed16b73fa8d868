-------------------------- MODULE ConnectionsProofs --------------------------
(***************************************************************************)
(* What holds of the select loop for every number of connections and       *)
(* clients, whatever they send and the network does: proofs.  The clients  *)
(* touch neither the tables nor the pass; the inductive invariant PassInv  *)
(* says how far a pass has got at each of its steps.  StreamInv says for   *)
(* each client where in its exchange it is and how much of which message   *)
(* is still on the way.                                                    *)
(***************************************************************************)
EXTENDS Connections, Induction

\* What the loop still has to serve.
Left == {f \in rset \ {Listen} : f >= fd}

PassInv ==
  /\ TypeOK /\ FdsAccounted
  /\ pc = "accept" =>
       /\ Listen \in rset /\ backlog # << >> /\ fd = 1
       /\ nready = Cardinality(rset) /\ rset \ {Listen} \subseteq Open
  /\ pc \in {"scan", "recv", "send"} => nready = Cardinality(Left) /\ Left \subseteq Open
  /\ pc \in {"recv", "send"} => fd \in Left

\* Sets of descriptors are finite.
LEMMA FdsFinite ==
  /\ IsFiniteSet(Fds) /\ IsFiniteSet({Listen} \cup Fds)
  /\ Cardinality(Fds) = MAX_PLAYER
  /\ \A f \in Fds : f \in Nat /\ f # Listen
<1>1. MAX_PLAYER \in Nat \ {0} /\ Fds = 1 .. MAX_PLAYER
  BY ConnectionsAssumption DEF Fds
<1>2. IsFiniteSet(Fds) /\ Cardinality(Fds) = MAX_PLAYER
  <2>1. /\ IsFiniteSet(1 .. MAX_PLAYER)
        /\ Cardinality(1 .. MAX_PLAYER) = IF 1 > MAX_PLAYER THEN 0 ELSE MAX_PLAYER - 1 + 1
    BY <1>1, FS_Interval
  <2> QED
    BY <1>1, <2>1
<1>3. IsFiniteSet(Fds \cup {Listen})
  BY <1>2, FS_AddElement
<1>4. Fds \cup {Listen} = {Listen} \cup Fds
  OBVIOUS
<1>5. \A f \in Fds : f \in Nat /\ f # Listen
  BY <1>1 DEF Listen
<1> QED
  BY <1>2, <1>3, <1>4, <1>5

LEMMA InitPassInv == Init => PassInv
<1> SUFFICES ASSUME Init PROVE PassInv
  OBVIOUS
<1>1. Open = {}
  BY DEF Init, Open
<1>2. FdsAccounted
  BY <1>1, FS_EmptySet DEF Init, FdsAccounted
<1>3. TypeOK
  BY ConnectionsAssumption DEF Init, TypeOK, Fds, Listen
<1> QED
  BY <1>2, <1>3 DEF Init, PassInv

\* Clients and network leave the main thread alone.
Around(c) == Connect(c) \/ Ask(c) \/ Leave(c) \/ Fin(c) \/ Takes(c) \/ Network(c)
LEMMA AroundStep == ASSUME PassInv, NEW c \in Clients, Around(c) PROVE PassInv'
<1>1. UNCHANGED <<tableVars, passVars>> /\ (backlog' = backlog \/ backlog' = Append(backlog, c))
  <2>1. CASE Connect(c) \/ Ask(c)
    BY <2>1 DEF Connect, Ask
  <2>2. CASE Leave(c) \/ Fin(c) \/ HangUp(c)
    BY <2>2 DEF Leave, Fin, HangUp
  <2>3. CASE TakeHeader(c) \/ TakeRest(c)
    BY <2>3 DEF TakeHeader, TakeRest
  <2>4. CASE Network(c)
    BY <2>4 DEF Network, DeliverUp, DeliverDown
  <2> QED
    BY <2>1, <2>2, <2>3, <2>4 DEF Around, Takes
<1>2. /\ UNCHANGED <<open, allset, fdCnt, maxfd, rset, nready, fd, pc>>
      /\ backlog' \in Seq(Clients)
      /\ backlog # << >> => backlog' # << >>
  BY <1>1 DEF tableVars, passVars, PassInv, TypeOK
<1>3. Open' = Open /\ Left' = Left
  BY <1>2 DEF Open, Left
<1>4. TypeOK'
  BY <1>2 DEF PassInv, TypeOK
<1>5. FdsAccounted'
  BY <1>2, <1>3 DEF PassInv, FdsAccounted
<1> QED
  BY <1>2, <1>3, <1>4, <1>5 DEF PassInv

LEMMA SelectStep == PassInv /\ Select => PassInv'
<1> SUFFICES ASSUME PassInv, Select PROVE PassInv'
  OBVIOUS
<1>1. /\ UNCHANGED <<backlog, open, allset, fdCnt, maxfd>>
      /\ rset' = allset \cap Readable /\ rset' # {}
      /\ nready' = Cardinality(rset') /\ fd' = 1
      /\ pc' = IF Listen \in rset' THEN "accept" ELSE "scan"
  BY DEF Select, tableVars, Listen
<1>2. Open \subseteq Fds /\ allset = {Listen} \cup Open /\ rset' \subseteq {Listen} \cup Fds
  BY <1>1 DEF Open, PassInv, FdsAccounted
<1>3. IsFiniteSet(rset') /\ Cardinality(rset') \in Nat
  <2>1. IsFiniteSet(rset')
    BY <1>2, FdsFinite, FS_Subset
  <2> QED
    BY <2>1, FS_CardinalityType
<1>4. rset' \ {Listen} \subseteq Open /\ (Listen \in rset' => backlog # << >>)
  <2>1. Listen \notin Open
    BY <1>2, FdsFinite
  <2> QED
    BY <1>1, <1>2, <2>1 DEF Readable
<1>5. Left' = rset' \ {Listen} /\ Open' = Open
  BY <1>1, <1>2, FdsFinite DEF Left, Open, Fds
<1>6. TypeOK' /\ FdsAccounted'
  BY <1>1, <1>2, <1>3, <1>5, ConnectionsAssumption DEF PassInv, TypeOK, FdsAccounted
<1>7. Listen \notin rset' => Left' = rset'
  BY <1>5
<1> QED
  BY <1>1, <1>4, <1>5, <1>6, <1>7 DEF PassInv

\* The lowest free descriptor is one of Fds, as long as there is room.
LEMMA AcceptStep == PassInv /\ Accept => PassInv'
<1> SUFFICES ASSUME PassInv, Accept PROVE PassInv'
  OBVIOUS
<1>1. /\ pc = "accept" /\ UNCHANGED <<rset, fd>> /\ fd = 1
      /\ Listen \in rset /\ nready = Cardinality(rset) /\ rset \ {Listen} \subseteq Open
      /\ backlog # << >> /\ backlog \in Seq(Clients)
      /\ rset \subseteq {Listen} \cup Fds
      /\ nready' = nready - 1
      /\ pc' = IF nready - 1 <= 0 THEN "select" ELSE "scan"
  BY DEF Accept, Counted, PassInv, TypeOK
<1>2. Open \subseteq Fds /\ fdCnt = Cardinality(Open) /\ allset = {Listen} \cup Open
      /\ \A f \in Open : f <= maxfd
  BY DEF Open, PassInv, FdsAccounted
<1>3. /\ nready - 1 = Cardinality(rset \ {Listen}) /\ nready - 1 \in Nat
  <2>1. IsFiniteSet(rset) /\ IsFiniteSet(rset \ {Listen})
    BY <1>1, FdsFinite, FS_Subset, FS_RemoveElement
  <2>2. Cardinality(rset \ {Listen}) = Cardinality(rset) - 1
    BY <1>1, <2>1, FS_RemoveElement
  <2>3. Cardinality(rset \ {Listen}) \in Nat
    BY <2>1, FS_CardinalityType
  <2> QED
    BY <1>1, <2>2, <2>3
<1>4. Left' = rset \ {Listen}
  BY <1>1, FdsFinite, ConnectionsAssumption DEF Left, Fds
<1>5. CASE UNCHANGED <<backlog, tableVars>>
  <2>1. Open' = Open
    BY <1>5 DEF Open, tableVars
  <2>2. TypeOK'
    BY <1>1, <1>3, <1>5 DEF PassInv, TypeOK, tableVars
  <2>3. FdsAccounted'
    BY <1>5, <2>1 DEF PassInv, FdsAccounted, tableVars
  <2> QED
    BY <1>1, <1>3, <1>4, <2>1, <2>2, <2>3 DEF PassInv
<1>6. ASSUME NEW connfd \in Fds \ Open, HasRoom,
             open' = [open EXCEPT ![connfd] = Head(backlog)],
             allset' = allset \cup {connfd},
             maxfd' = SetMax(maxfd, connfd),
             fdCnt' = fdCnt + 1, backlog' = Tail(backlog)
      PROVE  PassInv'
  <2>1. Head(backlog) \in Clients /\ Head(backlog) # NoClient /\ Tail(backlog) \in Seq(Clients)
    BY <1>1, ConnectionsAssumption
  <2>2. open \in [Fds -> Clients \cup {NoClient}]
    BY DEF PassInv, TypeOK
  <2>3. Open' = Open \cup {connfd}
    BY <1>6, <2>1, <2>2 DEF Open
  <2>4. Cardinality(Open \cup {connfd}) = Cardinality(Open) + 1
    BY <1>2, <1>6, FdsFinite, FS_Subset, FS_AddElement
  <2>5. /\ maxfd' \in {Listen} \cup Fds
        /\ maxfd <= maxfd' /\ connfd <= maxfd' /\ maxfd \in Int /\ connfd \in Int
    BY <1>6, FdsFinite DEF PassInv, TypeOK, SetMax, Listen
  <2>6. TypeOK'
    <3>1. fdCnt' \in 0 .. MAX_PLAYER
      BY <1>6, ConnectionsAssumption DEF HasRoom, PassInv, TypeOK
    <3>2. open' \in [Fds -> Clients \cup {NoClient}] /\ allset' \subseteq {Listen} \cup Fds
      BY <1>6, <2>1, <2>2 DEF PassInv, TypeOK
    <3> QED
      BY <1>1, <1>3, <1>6, <2>1, <2>5, <3>1, <3>2 DEF PassInv, TypeOK
  <2>7. FdsAccounted'
    <3>1. \A f \in Open' : f <= maxfd'
      <4> TAKE f \in Open'
      <4>1. CASE f = connfd
        BY <2>5, <4>1
      <4>2. CASE f # connfd
        <5>1. f \in Open /\ f <= maxfd /\ f \in Int
          BY <1>2, <2>3, <4>2, FdsFinite
        <5> QED
          BY <2>5, <5>1, FdsFinite DEF Listen
      <4> QED
        BY <4>1, <4>2
    <3> QED
      BY <1>2, <1>6, <2>3, <2>4, <3>1 DEF FdsAccounted
  <2> QED
    BY <1>1, <1>3, <1>4, <2>3, <2>6, <2>7 DEF PassInv
<1> QED
  BY <1>5, <1>6 DEF Accept

LEMMA ScanStep == PassInv /\ Scan => PassInv'
<1> SUFFICES ASSUME PassInv, Scan PROVE PassInv'
  OBVIOUS
<1>1. /\ pc = "scan" /\ UNCHANGED <<backlog, open, allset, fdCnt, maxfd, rset, nready>>
      /\ rset \subseteq {Listen} \cup Fds /\ fd \in 1 .. MAX_PLAYER + 1
      /\ nready = Cardinality(Left) /\ Left \subseteq Open
  BY DEF Scan, tableVars, PassInv, TypeOK
<1>2. Open' = Open
  BY <1>1 DEF Open
<1>3. FdsAccounted'
  BY <1>1, <1>2 DEF PassInv, FdsAccounted
<1>4. CASE pc' = "select" /\ UNCHANGED fd
  BY <1>1, <1>3, <1>4 DEF PassInv, TypeOK
<1>5. CASE fd' \in Ahead /\ (\A f \in Ahead : fd' <= f) /\ pc' = "recv"
  <2>1. Left = Ahead
    <3>1. \A f \in Ahead : f \in Left
      BY <1>1, FdsFinite DEF Ahead, Left, Listen
    <3>2. \A f \in Left : f \in Ahead
      BY <1>1 DEF Ahead, Left, PassInv, FdsAccounted
    <3> QED
      BY <3>1, <3>2
  <2>2. /\ fd' \in Left /\ \A f \in Left : fd' <= f
    BY <1>5, <2>1
  <2>3. fd' \in Fds /\ fd' \in Nat /\ fd' >= fd
    <3>1. fd' \in rset \ {Listen} /\ fd' >= fd
      BY <2>2 DEF Left
    <3> QED
      BY <1>1, <3>1, FdsFinite
  <2>4. \A f \in rset \ {Listen} : (f >= fd') <=> (f >= fd)
    <3> TAKE f \in rset \ {Listen}
    <3>1. f \in Nat /\ fd \in Nat
      BY <1>1, FdsFinite, ConnectionsAssumption
    <3>2. f >= fd => fd' <= f
      BY <2>2 DEF Left
    <3> QED
      BY <2>3, <3>1, <3>2
  <2>5. Left' = Left
    BY <1>1, <2>4 DEF Left
  <2>6. TypeOK'
    BY <1>1, <1>5, <2>3, ConnectionsAssumption DEF PassInv, TypeOK, Fds
  <2> QED
    BY <1>1, <1>2, <1>3, <1>5, <2>2, <2>5, <2>6 DEF PassInv
<1> QED
  BY <1>4, <1>5 DEF Scan

\* One descriptor is done, and its connection closed or not.
LEMMA DoneStep ==
  ASSUME PassInv, pc \in {"recv", "send"}, UNCHANGED <<backlog, rset>>,
         fd' = fd + 1, Counted("scan"), UNCHANGED tableVars \/ corruptedClose
  PROVE  PassInv'
<1>1. /\ fd \in Left /\ Left \subseteq Open /\ nready = Cardinality(Left)
      /\ rset \subseteq {Listen} \cup Fds
      /\ fd \in Fds /\ fd \in 1 .. MAX_PLAYER /\ MAX_PLAYER \in Nat
  <2>1. /\ fd \in Left /\ Left \subseteq Open /\ nready = Cardinality(Left)
        /\ rset \subseteq {Listen} \cup Fds
    BY DEF PassInv, TypeOK
  <2>2. fd \in Fds
    BY <2>1 DEF Open
  <2> QED
    BY <2>1, <2>2, ConnectionsAssumption DEF Fds
<1>2. Left' = Left \ {fd}
  <2>1. \A f \in rset \ {Listen} : (f >= fd') <=> (f >= fd /\ f # fd)
    <3> TAKE f \in rset \ {Listen}
    <3>1. f \in Nat /\ fd \in Nat /\ fd' = fd + 1
      BY <1>1, FdsFinite
    <3> QED
      BY <3>1
  <2>2. rset' = rset
    OBVIOUS
  <2> QED
    BY <2>1, <2>2 DEF Left
<1>3. IsFiniteSet(Left) /\ IsFiniteSet(Left \ {fd})
  BY <1>1, FdsFinite, FS_Subset, FS_RemoveElement DEF Left
<1>4. Cardinality(Left \ {fd}) = nready - 1 /\ nready - 1 \in Nat
  <2>1. Cardinality(Left \ {fd}) = Cardinality(Left) - 1
    BY <1>1, <1>3, FS_RemoveElement
  <2>2. Cardinality(Left \ {fd}) \in Nat
    BY <1>3, FS_CardinalityType
  <2> QED
    BY <1>1, <2>1, <2>2
<1>5. nready' = nready - 1 /\ pc' \in {"select", "scan"} /\ fd' \in 1 .. MAX_PLAYER + 1
  BY <1>1 DEF Counted
<1>6. CASE UNCHANGED tableVars
  <2>1. Open' = Open
    BY <1>6 DEF Open, tableVars
  <2>2. TypeOK' /\ FdsAccounted'
    BY <1>4, <1>5, <1>6, <2>1 DEF PassInv, TypeOK, FdsAccounted, tableVars
  <2> QED
    BY <1>1, <1>2, <1>4, <1>5, <2>1, <2>2 DEF PassInv
<1>7. CASE corruptedClose
  <2>1. /\ open' = [open EXCEPT ![fd] = NoClient] /\ open \in [Fds -> Clients \cup {NoClient}]
        /\ fdCnt' = fdCnt - 1 /\ allset' = allset \ {fd} /\ maxfd' = maxfd
    BY <1>7 DEF corruptedClose, PassInv, TypeOK
  <2>2. Open' = Open \ {fd}
    BY <1>1, <2>1 DEF Open
  <2>3. IsFiniteSet(Open)
    BY FdsFinite, FS_Subset DEF Open
  <2>4. Cardinality(Open \ {fd}) = Cardinality(Open) - 1 /\ Cardinality(Open \ {fd}) \in Nat
    <3>1. IsFiniteSet(Open \ {fd}) /\ Cardinality(Open \ {fd}) = Cardinality(Open) - 1
      BY <1>1, <2>3, FS_RemoveElement
    <3> QED
      BY <3>1, FS_CardinalityType
  <2>5. fd # Listen
    BY <1>1, FdsFinite
  <2>6. FdsAccounted'
    BY <2>1, <2>2, <2>4, <2>5 DEF PassInv, FdsAccounted
  <2>7. TypeOK'
    <3>1. fdCnt' \in 0 .. MAX_PLAYER
      BY <1>1, <2>1, <2>4 DEF PassInv, TypeOK, FdsAccounted
    <3> QED
      BY <1>4, <1>5, <2>1, <3>1 DEF PassInv, TypeOK
  <2> QED
    BY <1>1, <1>2, <1>4, <1>5, <2>2, <2>6, <2>7 DEF PassInv
<1> QED
  BY <1>6, <1>7

LEMMA ReceiveStep == PassInv /\ recvData => PassInv'
<1> SUFFICES ASSUME PassInv, recvData PROVE PassInv'
  OBVIOUS
<1>1. pc = "recv" /\ UNCHANGED <<backlog, rset>>
  BY DEF recvData
<1>2. CASE pc' = "send" /\ UNCHANGED <<tableVars, nready, fd>>
  <2>1. UNCHANGED <<backlog, open, allset, fdCnt, maxfd, rset, nready, fd>>
    BY <1>1, <1>2 DEF tableVars
  <2>2. Open' = Open /\ Left' = Left
    BY <2>1 DEF Open, Left
  <2>3. TypeOK'
    BY <1>2, <2>1 DEF PassInv, TypeOK
  <2>4. FdsAccounted'
    BY <2>1, <2>2 DEF PassInv, FdsAccounted
  <2> QED
    BY <1>1, <1>2, <2>1, <2>2, <2>3, <2>4 DEF PassInv
<1>3. CASE corruptedClose /\ fd' = fd + 1 /\ Counted("scan")
  BY <1>1, <1>3, DoneStep
<1> QED
  BY <1>2, <1>3 DEF recvData

LEMMA HandleStep == PassInv /\ commandHandler => PassInv'
<1> SUFFICES ASSUME PassInv, commandHandler PROVE PassInv'
  OBVIOUS
<1>1. pc = "send" /\ UNCHANGED <<backlog, rset>>
  BY DEF commandHandler
<1>2. CASE fd' = fd + 1 /\ Counted("scan") /\ UNCHANGED tableVars
  BY <1>1, <1>2, DoneStep
<1>3. CASE corruptedClose /\ fd' = fd + 1 /\ Counted("scan")
  BY <1>1, <1>3, DoneStep
<1>4. CASE pc' = "killed" /\ UNCHANGED <<tableVars, fd, nready>>
  <2>1. UNCHANGED <<backlog, open, allset, fdCnt, maxfd, rset, nready, fd>>
    BY <1>1, <1>4 DEF tableVars
  <2>2. Open' = Open
    BY <2>1 DEF Open
  <2>3. TypeOK'
    BY <1>4, <2>1 DEF PassInv, TypeOK
  <2>4. FdsAccounted'
    BY <2>1, <2>2 DEF PassInv, FdsAccounted
  <2> QED
    BY <1>4, <2>3, <2>4 DEF PassInv
<1> QED
  BY <1>2, <1>3, <1>4 DEF commandHandler

LEMMA NextPassInv == PassInv /\ [Next]_vars => PassInv'
<1> SUFFICES ASSUME PassInv, [Next]_vars PROVE PassInv'
  OBVIOUS
<1>1. CASE Server
  BY <1>1, SelectStep, AcceptStep, ScanStep, ReceiveStep, HandleStep DEF Server
<1>2. ASSUME NEW c \in Clients,
             Connect(c) \/ Ask(c) \/ Leave(c) \/ Fin(c) \/ Takes(c) \/ Network(c)
      PROVE  PassInv'
  BY <1>2, AroundStep DEF Around
<1>3. CASE UNCHANGED vars
  <2>1. UNCHANGED <<backlog, open, allset, fdCnt, maxfd, rset, nready, fd, pc>>
    BY <1>3 DEF vars, tableVars, passVars
  <2>2. Open' = Open /\ Left' = Left
    BY <2>1 DEF Open, Left
  <2>3. TypeOK'
    BY <2>1 DEF PassInv, TypeOK
  <2>4. FdsAccounted'
    BY <2>1, <2>2 DEF PassInv, FdsAccounted
  <2> QED
    BY <2>1, <2>2, <2>3, <2>4 DEF PassInv
<1> QED
  BY <1>1, <1>2, <1>3 DEF Next

\* The invariant of the select loop, from which the theorems follow.
THEOREM PassKept == Spec => []PassInv
  BY InitPassInv, NextPassInv, PTL DEF Spec

\* fdCnt, allset, maxfd and the open descriptors agree for ever, whatever is
\* accepted, closed in the middle of a pass, or refused because of MAX_PLAYER
\* (server.c:82-160).
THEOREM TablesAgree == Spec => []FdsAccounted
<1>1. PassInv => FdsAccounted
  BY DEF PassInv
<1> QED
  BY <1>1, PassKept, PTL

\* nready always counts what the loop still has to serve, so no pass ends
\* early and none looks for descriptors that are not ready (server.c:110-157).
THEOREM PassesAreExact == Spec => []PassExact
<1>1. PassInv => PassExact
  BY DEF PassInv, PassExact, Left
<1> QED
  BY <1>1, PassKept, PTL

-----------------------------------------------------------------------------
(* The first word, for every width of its fields.  pow2 and or are         *)
(* recursive functions: each has a solution, by a least counterexample     *)
(* (for pow2 see Induction).                                               *)

Bits == CodeBits + LenBits
\* The equations of pow2.
LEMMA PowUnfold == \A n \in 0 .. Bits : pow2[n] = IF n = 0 THEN 1 ELSE 2 * pow2[n - 1]
<1>1. Bits \in Nat
  BY WireAssumption DEF Bits
<1>2. pow2 = CHOOSE g : g = [n \in 0 .. Bits |-> PowStep(g, n)]
  BY DEF pow2, PowStep, Bits
<1>3. pow2 = [n \in 0 .. Bits |-> PowStep(pow2, n)]
  BY <1>1, <1>2, PowExists
<1>4. \A n \in 0 .. Bits : pow2[n] = PowStep(pow2, n)
  BY <1>3
<1> QED
  BY <1>4 DEF PowStep

\* One step of the recursion for x | y, for p = <<x, y>>.
Half(p) == <<p[1] \div 2, p[2] \div 2>>
OrStep(g, p) == IF p = <<0, 0>> THEN 0 ELSE SetMax(p[1] % 2, p[2] % 2) + 2 * g[Half(p)]
Pairs(n) == (0 .. n) \X (0 .. n)

\* The bitwise or is defined on pairs of any width.
LEMMA OrExists == \A n \in Nat : \E g : g = [p \in Pairs(n) |-> OrStep(g, p)]
<1> DEFINE Z == {n \in Nat : ~ \E g : g = [p \in Pairs(n) |-> OrStep(g, p)]}
<1> SUFFICES ASSUME Z # {} PROVE FALSE
  OBVIOUS
<1>1. PICK n \in Z : \A m \in Z : n <= m
  <2>1. Z \in SUBSET Nat
    OBVIOUS
  <2> HIDE DEF Z
  <2> QED
    BY <2>1, LeastNumber
<1>2. n \in Nat /\ ~ \E g : g = [p \in Pairs(n) |-> OrStep(g, p)]
  OBVIOUS
<1>3. n # 0
  <2> DEFINE g == [p \in Pairs(0) |-> 0]
  <2>1. ASSUME NEW p \in Pairs(0) PROVE OrStep(g, p) = 0
    BY DEF OrStep, Pairs
  <2>2. g = [p \in Pairs(0) |-> OrStep(g, p)]
    BY <2>1
  <2> QED
    BY <1>2, <2>2
<1>4. n - 1 \in Nat /\ n - 1 \notin Z
  BY <1>1, <1>2, <1>3
<1>5. PICK g : g = [p \in Pairs(n - 1) |-> OrStep(g, p)]
  BY <1>4
<1> DEFINE h == [p \in Pairs(n) |-> OrStep(g, p)]
<1>6. ASSUME NEW p \in Pairs(n) PROVE OrStep(g, p) = OrStep(h, p)
  <2>1. \A k \in 0 .. n : k \div 2 \in 0 .. n - 1 /\ k \div 2 \in 0 .. n
    BY <1>2, <1>3
  <2>2. Half(p) \in Pairs(n - 1) /\ Half(p) \in Pairs(n)
    BY <2>1 DEF Half, Pairs
  <2>3. g[Half(p)] = OrStep(g, Half(p))
    BY <1>5, <2>2
  <2>4. h[Half(p)] = OrStep(g, Half(p))
    BY <2>2
  <2> QED
    BY <2>3, <2>4 DEF OrStep
<1>7. h = [p \in Pairs(n) |-> OrStep(h, p)]
  BY <1>6
<1> QED
  BY <1>2, <1>7

\* The equations of or.
LEMMA OrUnfold ==
  ASSUME Word \in Nat \ {0}
  PROVE  \A x, y \in 0 .. Word - 1 :
    or[<<x, y>>] = IF x = 0 /\ y = 0 THEN 0
                   ELSE SetMax(x % 2, y % 2) + 2 * or[<<x \div 2, y \div 2>>]
<1>1. Word - 1 \in Nat
  OBVIOUS
<1>2. or = CHOOSE g : g = [p \in Pairs(Word - 1) |-> OrStep(g, p)]
  BY DEF or, OrStep, Half, Pairs
<1>3. or = [p \in Pairs(Word - 1) |-> OrStep(or, p)]
  BY <1>1, <1>2, OrExists
<1>4. \A p \in Pairs(Word - 1) : or[p] = OrStep(or, p)
  BY <1>3
<1>5. \A x, y \in 0 .. Word - 1 : or[<<x, y>>] = OrStep(or, <<x, y>>)
  BY <1>4 DEF Pairs
<1> QED
  BY <1>5 DEF OrStep, Half

\* Powers of two are positive, and add up in the exponent.
LEMMA PowPositive == \A n \in 0 .. Bits : pow2[n] \in Nat \ {0}
<1> DEFINE Z == {n \in 0 .. Bits : pow2[n] \notin Nat \ {0}}
<1> SUFFICES ASSUME Z # {} PROVE FALSE
  OBVIOUS
<1>1. PICK n \in Z : \A m \in Z : n <= m
  <2>1. Z \in SUBSET Nat
    OBVIOUS
  <2> HIDE DEF Z
  <2> QED
    BY <2>1, LeastNumber
<1>2. n \in 0 .. Bits /\ pow2[n] \notin Nat \ {0} /\ Bits \in Nat
  BY WireAssumption DEF Bits
<1> HIDE DEF Z
<1>3. n # 0 /\ pow2[n] = 2 * pow2[n - 1]
  BY <1>2, PowUnfold
<1>4. n - 1 \in 0 .. Bits /\ n - 1 \notin Z
  BY <1>1, <1>2, <1>3
<1>5. pow2[n - 1] \in Nat \ {0}
  BY <1>4 DEF Z
<1> QED
  BY <1>2, <1>3, <1>5

LEMMA PowAdds ==
  ASSUME NEW a \in Nat
  PROVE  \A b \in Nat : a + b <= Bits => pow2[a + b] = pow2[a] * pow2[b]
<1> DEFINE Z == {b \in Nat : a + b <= Bits /\ pow2[a + b] # pow2[a] * pow2[b]}
<1> SUFFICES ASSUME Z # {} PROVE FALSE
  OBVIOUS
<1>1. PICK b \in Z : \A m \in Z : b <= m
  <2>1. Z \in SUBSET Nat
    OBVIOUS
  <2> HIDE DEF Z
  <2> QED
    BY <2>1, LeastNumber
<1>2. b \in Nat /\ a + b <= Bits /\ pow2[a + b] # pow2[a] * pow2[b] /\ Bits \in Nat
  BY WireAssumption DEF Bits
<1> HIDE DEF Z
<1>3. pow2[a] \in Nat /\ pow2[b] \in Nat
  BY <1>2, PowPositive
<1>4. b # 0
  <2> SUFFICES ASSUME b = 0 PROVE FALSE
    OBVIOUS
  <2>1. pow2[b] = 1 /\ a + b = a
    BY <1>2, PowUnfold
  <2> QED
    BY <1>2, <1>3, <2>1
<1>5. b - 1 \in Nat /\ b - 1 \notin Z /\ a + (b - 1) <= Bits
  BY <1>1, <1>2, <1>4
<1>6. pow2[a + (b - 1)] = pow2[a] * pow2[b - 1]
  BY <1>5 DEF Z
<1>7. pow2[b] = 2 * pow2[b - 1]
  BY <1>2, <1>4, PowUnfold
<1>8. pow2[a + b] = 2 * pow2[a + (b - 1)]
  <2>1. a + b \in 0 .. Bits /\ a + b # 0 /\ (a + b) - 1 = a + (b - 1)
    BY <1>2, <1>4
  <2>2. pow2[a + b] = 2 * pow2[(a + b) - 1]
    BY <2>1, PowUnfold
  <2> QED
    BY <2>1, <2>2
<1>9. pow2[b - 1] \in Nat
  BY <1>2, <1>5, PowPositive
<1>10. \A p, q \in Nat : 2 * (p * q) = p * (2 * q)
  OBVIOUS
<1>11. pow2[a + b] = pow2[a] * pow2[b]
  BY <1>3, <1>6, <1>7, <1>8, <1>9, <1>10
<1> QED
  BY <1>2, <1>11

\* The code has room in the low bits.
LEMMA CodesFit == \A n \in 12 .. Bits : pow2[n] >= 4096
<1> DEFINE Z == {n \in 12 .. Bits : ~ (pow2[n] >= 4096)}
<1> SUFFICES ASSUME Z # {} PROVE FALSE
  OBVIOUS
<1>1. PICK n \in Z : \A m \in Z : n <= m
  <2>1. Z \in SUBSET Nat
    OBVIOUS
  <2> HIDE DEF Z
  <2> QED
    BY <2>1, LeastNumber
<1>2. n \in 12 .. Bits /\ ~ (pow2[n] >= 4096) /\ Bits \in Nat
  BY WireAssumption DEF Bits
<1> HIDE DEF Z
<1>3. \A k \in 0 .. 12 : k \in 0 .. Bits
  BY <1>2
<1>4. pow2[12] = 4096
  <2>1. pow2[4] = 16
    BY <1>3, PowUnfold
  <2>2. pow2[8] = 256
    BY <1>3, <2>1, PowUnfold
  <2> QED
    BY <1>3, <2>2, PowUnfold
<1>5. n # 12
  BY <1>2, <1>4
<1>6. n - 1 \in 12 .. Bits /\ n - 1 \notin Z
  BY <1>1, <1>2, <1>5
<1>7. pow2[n - 1] >= 4096
  BY <1>6 DEF Z
<1>8. pow2[n] = 2 * pow2[n - 1] /\ pow2[n - 1] \in Nat
  BY <1>2, <1>6, PowUnfold, PowPositive
<1> QED
  BY <1>2, <1>7, <1>8

\* The word is as wide as its two fields, and each code fits into the lower.
LEMMA WordFacts ==
  /\ Bits \in Nat /\ CodeBits \in 0 .. Bits
  /\ Shift \in Nat \ {0} /\ Shift >= 4096
  /\ Word \in Nat \ {0} /\ Word = Shift * pow2[LenBits] /\ pow2[LenBits] \in Nat \ {0}
<1>1. Bits \in Nat /\ CodeBits \in 0 .. Bits /\ LenBits \in 0 .. Bits /\ CodeBits >= 12
      /\ Bits = CodeBits + LenBits
  BY WireAssumption DEF Bits
<1>2. Word = Shift * pow2[LenBits]
  BY <1>1, PowAdds, WireAssumption DEF Word, Shift
<1> QED
  BY <1>1, <1>2, PowPositive, CodesFit DEF Shift, Word

\* x | x and 0 | x are x.
LEMMA OrSame == \A x \in 0 .. Word - 1 : or[<<x, x>>] = x /\ or[<<0, x>>] = x
<1> DEFINE Z == {x \in 0 .. Word - 1 : ~ (or[<<x, x>>] = x /\ or[<<0, x>>] = x)}
<1> SUFFICES ASSUME Z # {} PROVE FALSE
  OBVIOUS
<1>0. Word \in Nat \ {0}
  BY WordFacts
<1>1. PICK x \in Z : \A m \in Z : x <= m
  <2>1. Z \in SUBSET Nat
    BY <1>0
  <2> HIDE DEF Z
  <2> QED
    BY <2>1, LeastNumber
<1>2. x \in 0 .. Word - 1 /\ ~ (or[<<x, x>>] = x /\ or[<<0, x>>] = x)
  OBVIOUS
<1> HIDE DEF Z
<1>3. /\ or[<<x, x>>] = IF x = 0 /\ x = 0 THEN 0
                        ELSE SetMax(x % 2, x % 2) + 2 * or[<<x \div 2, x \div 2>>]
      /\ or[<<0, x>>] = IF 0 = 0 /\ x = 0 THEN 0
                        ELSE SetMax(0 % 2, x % 2) + 2 * or[<<0 \div 2, x \div 2>>]
  BY <1>0, <1>2, OrUnfold
<1>4. x # 0
  BY <1>2, <1>3
<1> DEFINE y == x \div 2
           b == x % 2
<1>5. y \in 0 .. Word - 1 /\ y < x /\ b \in 0 .. 1 /\ x = 2 * y + b
  BY <1>0, <1>2, <1>4
<1>6. y \notin Z
  BY <1>1, <1>5
<1>7. or[<<y, y>>] = y /\ or[<<0, y>>] = y
  BY <1>5, <1>6 DEF Z
<1>8. SetMax(b, b) = b /\ SetMax(0, b) = b /\ 0 % 2 = 0 /\ 0 \div 2 = 0
  BY <1>5 DEF SetMax
<1>9. or[<<x, x>>] = b + 2 * or[<<y, y>>] /\ or[<<0, x>>] = b + 2 * or[<<0, y>>]
  BY <1>3, <1>4, <1>8
<1> HIDE DEF y, b
<1> QED
  BY <1>2, <1>5, <1>7, <1>9

\* A code and a length do not meet: k bits of code, the length shifted by k.
LEMMA OrApart ==
  \A k \in 0 .. CodeBits : \A c \in 0 .. pow2[k] - 1, l \in Nat :
    c + l * pow2[k] < Word =>
      /\ or[<<c + l * pow2[k], l * pow2[k]>>] = c + l * pow2[k]
      /\ or[<<c, l * pow2[k]>>] = c + l * pow2[k]
<1> DEFINE Apart(k) == \A c \in 0 .. pow2[k] - 1, l \in Nat :
             c + l * pow2[k] < Word =>
                /\ or[<<c + l * pow2[k], l * pow2[k]>>] = c + l * pow2[k]
                /\ or[<<c, l * pow2[k]>>] = c + l * pow2[k]
           Z == {k \in 0 .. CodeBits : ~ Apart(k)}
<1> SUFFICES ASSUME Z # {} PROVE FALSE
  OBVIOUS
<1>1. PICK k \in Z : \A m \in Z : k <= m
  <2>1. Z \in SUBSET Nat
    OBVIOUS
  <2> HIDE DEF Z
  <2> QED
    BY <2>1, LeastNumber
<1>2. k \in 0 .. CodeBits /\ ~ Apart(k)
  OBVIOUS
<1>3. k \in 0 .. Bits /\ Bits \in Nat /\ Word \in Nat \ {0} /\ pow2[k] \in Nat \ {0}
  BY <1>2, WordFacts, PowPositive
<1> HIDE DEF Z
<1>4. CASE k = 0
  <2>1. pow2[k] = 1
    BY <1>3, <1>4, PowUnfold
  <2>2. Apart(k)
    <3> SUFFICES ASSUME NEW c \in 0 .. pow2[k] - 1, NEW l \in Nat, c + l * pow2[k] < Word
                 PROVE  /\ or[<<c + l * pow2[k], l * pow2[k]>>] = c + l * pow2[k]
                        /\ or[<<c, l * pow2[k]>>] = c + l * pow2[k]
      OBVIOUS
    <3>1. c = 0 /\ l * pow2[k] = l /\ c + l * pow2[k] = l /\ l \in 0 .. Word - 1
      BY <1>3, <2>1
    <3> QED
      BY <3>1, OrSame
  <2> QED
    BY <1>2, <2>2
<1>5. CASE k # 0
  <2> DEFINE p == pow2[k - 1]
  <2>0. k \in Nat /\ k - 1 \in Nat /\ ~ (k <= k - 1)
    BY <1>3, <1>5
  <2>1. k - 1 \in 0 .. CodeBits /\ k - 1 \in 0 .. Bits /\ k - 1 \notin Z
    <3>1. k - 1 \notin Z
      BY <1>1, <2>0
    <3>2. k \in 0 .. CodeBits /\ CodeBits \in Nat
      BY <1>2, WireAssumption
    <3> QED
      BY <1>3, <2>0, <3>1, <3>2
  <2>2. p \in Nat \ {0} /\ pow2[k] = 2 * p
    BY <1>3, <1>5, <2>1, PowUnfold, PowPositive
  <2>3. Apart(k - 1)
    BY <2>1 DEF Z
  <2>4. Apart(k)
    <3> SUFFICES ASSUME NEW c \in 0 .. pow2[k] - 1, NEW l \in Nat, c + l * pow2[k] < Word
                 PROVE  /\ or[<<c + l * pow2[k], l * pow2[k]>>] = c + l * pow2[k]
                        /\ or[<<c, l * pow2[k]>>] = c + l * pow2[k]
      OBVIOUS
    <3> DEFINE d == c \div 2
               b == c % 2
               n == l * p
    <3>1. c \in Nat /\ b \in 0 .. 1 /\ d \in 0 .. p - 1 /\ c = 2 * d + b
      BY <2>2
    <3>2. n \in Nat
      BY <2>2
    <3>3. l * pow2[k] = 2 * n
      <4>1. l * (2 * p) = 2 * (l * p)
        BY <2>2
      <4> QED
        BY <2>2, <4>1
    <3>4. d + n < Word => or[<<d + n, n>>] = d + n /\ or[<<d, n>>] = d + n
      BY <2>3, <3>1
    <3> HIDE DEF d, b, n, p
    <3>5. d + n < Word /\ c + 2 * n < Word
      BY <1>3, <3>1, <3>2, <3>3
    <3>6. /\ c + 2 * n \in 0 .. Word - 1 /\ 2 * n \in 0 .. Word - 1 /\ c \in 0 .. Word - 1
      BY <1>3, <3>1, <3>2, <3>5
    <3>7. /\ (c + 2 * n) \div 2 = d + n /\ (2 * n) \div 2 = n /\ c \div 2 = d
          /\ (c + 2 * n) % 2 = b /\ (2 * n) % 2 = 0 /\ c % 2 = b
      BY <3>1, <3>2
    <3>8. SetMax(b, 0) = b
      BY <3>1 DEF SetMax
    <3>9. CASE c = 0 /\ n = 0
      <4>1. or[<<0, 0>>] = 0
        <5>1. 0 \in 0 .. Word - 1
          BY <1>3
        <5> QED
          BY <5>1, OrSame
      <4>2. c + 2 * n = 0 /\ 2 * n = 0
        BY <3>9
      <4> QED
        BY <3>3, <3>9, <4>1, <4>2
    <3>10. CASE ~ (c = 0 /\ n = 0)
      <4>1. c + 2 * n # 0 /\ ~ (c = 0 /\ 2 * n = 0)
        BY <3>1, <3>2, <3>10
      <4>2. /\ or[<<c + 2 * n, 2 * n>>] =
                 SetMax((c + 2 * n) % 2, (2 * n) % 2)
                 + 2 * or[<<(c + 2 * n) \div 2, (2 * n) \div 2>>]
            /\ or[<<c, 2 * n>>] =
                 SetMax(c % 2, (2 * n) % 2) + 2 * or[<<c \div 2, (2 * n) \div 2>>]
        BY <1>3, <3>6, <4>1, OrUnfold
      <4>3. /\ or[<<c + 2 * n, 2 * n>>] = b + 2 * or[<<d + n, n>>]
            /\ or[<<c, 2 * n>>] = b + 2 * or[<<d, n>>]
        BY <3>7, <3>8, <4>2
      <4>4. /\ or[<<c + 2 * n, 2 * n>>] = b + 2 * (d + n)
            /\ or[<<c, 2 * n>>] = b + 2 * (d + n)
        BY <3>4, <3>5, <4>3
      <4>5. b + 2 * (d + n) = c + 2 * n
        BY <3>1, <3>2
      <4> QED
        BY <3>3, <4>4, <4>5
    <3> QED
      BY <3>9, <3>10
  <2> QED
    BY <1>2, <2>4
<1> QED
  BY <1>4, <1>5

\* Code and length are taken out of a word as they were put into it.
LEMMA TakenApart ==
  \A c \in 0 .. Shift - 1, l \in Nat :
    getLen(c + l * Shift) = l /\ getCode(c + l * Shift) = c
<1>1. \A s \in Nat \ {0} : \A c \in 0 .. s - 1, l \in Nat :
        (c + l * s) \div s = l /\ (c + l * s) % s = c
  <2> TAKE s \in Nat \ {0}
  <2> TAKE c \in 0 .. s - 1, l \in Nat
  <2>1. l * s \in Nat /\ c + l * s \in Nat
    OBVIOUS
  <2> QED
    BY <2>1
<1>2. Shift \in Nat \ {0}
  BY WordFacts
<1> QED
  BY <1>1, <1>2 DEF getLen, getCode

\* What the 12 bits of a code hold.
Codes == 0 .. 4095

\* What either side sends as first word is the code and, above it, the length:
\* adding the length and or-ing it in once more leaves it as it is.
LEMMA FirstWord ==
  ASSUME NEW code \in Codes, NEW len \in Nat, len < pow2[LenBits]
  PROVE  /\ getCode(ServerWord(code, len)) = code /\ getLen(ServerWord(code, len)) = len
         /\ getCode(ClientWord(code, len)) = code /\ getLen(ClientWord(code, len)) = len
<1> DEFINE L == pow2[LenBits]
           m == len * Shift
           w == code + m
<1>1. /\ Shift \in Nat \ {0} /\ Shift >= 4096 /\ code \in 0 .. Shift - 1
      /\ Word \in Nat \ {0} /\ Word = Shift * L /\ L \in Nat \ {0} /\ CodeBits \in 0 .. Bits
      /\ CodeBits \in Nat
  BY WordFacts, WireAssumption DEF Codes
<1>2. m \in Nat /\ w \in Nat /\ w < Word
  <2>1. m \in Nat
    BY <1>1
  <2>2. (len + 1) * Shift <= L * Shift
    <3>1. L - (len + 1) \in Nat
      BY <1>1
    <3>2. (L - (len + 1)) * Shift >= 0
      BY <1>1, <3>1
    <3>3. (L - (len + 1)) * Shift = L * Shift - (len + 1) * Shift
      BY <1>1
    <3> QED
      BY <1>1, <3>2, <3>3
  <2>3. (len + 1) * Shift = m + Shift
    BY <1>1
  <2> QED
    BY <1>1, <2>1, <2>2, <2>3
<1>3. w % Word = w /\ m % Word = m
  <2>1. \A i, n \in Nat : i < n => i % n = i
    OBVIOUS
  <2>2. m < Word
    BY <1>1, <1>2
  <2> HIDE DEF m, w
  <2> QED
    BY <1>1, <1>2, <2>1, <2>2
<1>4. or[<<w, m>>] = w /\ or[<<code, m>>] = w
  BY <1>1, <1>2, OrApart DEF Shift
<1>5. ServerWord(code, len) = w /\ ClientWord(code, len) = w
  BY <1>3, <1>4 DEF ServerWord, ClientWord, setLen
<1>6. getLen(w) = len /\ getCode(w) = code
  BY <1>1, TakenApart
<1> HIDE DEF w
<1> QED
  BY <1>5, <1>6

-----------------------------------------------------------------------------
(* The streams.  A request or a reply is on its way as a whole or in two   *)
(* parts, and no client starts before the last exchange is over.           *)

Requests ==
  {[word |-> ClientWord(code, HEADER_SIZE), words |-> ClientOut(code, HEADER_SIZE)] :
     code \in Asked}
Answers ==
  {[word  |-> ServerWord(code, ReplyLen(code, Cells, Players)),
    words |-> ServerOut(code, ReplyLen(code, Cells, Players))] : code \in Replies}

Silent(c) == down[c] = 0 /\ got[c] = 0
Quiet(c) == up[c] = 0 /\ inbox[c] = 0 /\ ~Handling(c)
Requesting(c) ==
  /\ msg[c] \in Requests
  /\ IF Handling(c) THEN up[c] = 0 /\ inbox[c] = 0 ELSE up[c] + inbox[c] = HEADER_SIZE
  /\ Silent(c)
Answered(c, n) == msg[c] \in Answers /\ Quiet(c) /\ down[c] + got[c] = n
Gone(c) ==
  /\ Silent(c)
  /\ IF Handling(c) THEN msg[c] \in Requests /\ up[c] = 0 /\ inbox[c] = 0
     ELSE Quiet(c) \/ (msg[c] \in Requests /\ up[c] + inbox[c] <= HEADER_SIZE)

Stream(c) ==
  /\ phase[c] = "idle" => Quiet(c) /\ Silent(c) /\ msg[c] \in {NoMessage} \cup Answers
  /\ phase[c] = "asked" => Requesting(c) \/ Answered(c, Announced(c))
  /\ phase[c] = "rest" => Answered(c, Announced(c) - HEADER_SIZE)
  /\ phase[c] = "off" => Gone(c)

StreamTypes ==
  /\ phase \in [Clients -> {"off", "idle", "asked", "rest"}]
  /\ msg \in [Clients -> {NoMessage} \cup Requests \cup Answers]
  /\ up \in [Clients -> Nat] /\ inbox \in [Clients -> Nat]
  /\ down \in [Clients -> Nat] /\ got \in [Clients -> Nat]

StreamInv == StreamTypes /\ \A c \in Clients : Stream(c)

\* The codes of the replies are 0xA01, ..., 0xA08 and 0xF01, ..., 0xF08, their
\* lengths are numbers, and both sides have the same table for them.
LEMMA ReplyFacts ==
  ASSUME NEW code \in Replies
  PROVE  /\ code \in Codes
         /\ ReplyLen(code, Cells, Players) \in Nat
         /\ ReplyLen(code, Cells, Players) >= HEADER_SIZE
         /\ \A len : ServerOut(code, len) = ClientIn(code, len)
<1>1. PICK c \in 1 .. 8 : code = 2560 + c \/ code = 3840 + c
  BY DEF Replies, Commands, RES_SUCC, RES_FAIL, CMD_REGISTER, CMD_PLAYER_INFO
<1>2. SetMax(0, Cells - 2) \in Nat /\ SetMax(0, Players - 2) \in Nat
  BY ConnectionsAssumption DEF SetMax
<1>3. ReplyLen(code, Cells, Players) \in
        {HEADER_SIZE, HEADER_SIZE + SetMax(0, Cells - 2), HEADER_SIZE + SetMax(0, Players - 2)}
  <2> DEFINE a == SetMax(0, Cells - 2)
             b == SetMax(0, Players - 2)
  <2> HIDE DEF a, b
  <2>1. HEADER_SIZE + 0 = HEADER_SIZE
    BY DEF HEADER_SIZE
  <2> QED
    BY <2>1 DEF ReplyLen, a, b
<1>4. \A len : ServerOut(code, len) = ClientIn(code, len)
  <2> TAKE len
  <2>1. CASE code = 2560 + c
    BY <1>1, <2>1 DEF ServerOut, ClientIn, Replies, Commands, RES_SUCC, RES_FAIL, CMD_REGISTER,
         CMD_JOIN, CMD_START_GAME, CMD_ROOM_INFO, CMD_ACTION, CMD_MAP_INFO, CMD_QUIT,
         CMD_PLAYER_INFO
  <2>2. CASE code = 3840 + c
    BY <1>1, <2>2 DEF ServerOut, ClientIn, Replies, Commands, RES_SUCC, RES_FAIL, CMD_REGISTER,
         CMD_JOIN, CMD_START_GAME, CMD_ROOM_INFO, CMD_ACTION, CMD_MAP_INFO, CMD_QUIT,
         CMD_PLAYER_INFO
  <2> QED
    BY <1>1, <2>1, <2>2
<1> QED
  BY <1>1, <1>2, <1>3, <1>4 DEF HEADER_SIZE, Codes

\* The header fits as well.
LEMMA HeaderFits == LengthsFit => HEADER_SIZE < pow2[LenBits] /\ pow2[LenBits] \in Nat
<1> SUFFICES ASSUME LengthsFit PROVE HEADER_SIZE < pow2[LenBits] /\ pow2[LenBits] \in Nat
  OBVIOUS
<1>1. RES_SUCC(1) \in Replies
  BY DEF Replies, Commands, CMD_REGISTER, CMD_PLAYER_INFO
<1>2. /\ ReplyLen(RES_SUCC(1), Cells, Players) < pow2[LenBits]
      /\ ReplyLen(RES_SUCC(1), Cells, Players) \in Nat
      /\ ReplyLen(RES_SUCC(1), Cells, Players) >= HEADER_SIZE
  BY <1>1, ReplyFacts DEF LengthsFit
<1>3. pow2[LenBits] \in Nat
  BY WordFacts
<1> QED
  BY <1>2, <1>3 DEF HEADER_SIZE

\* What a request says, and what a reply does.
LEMMA RequestSays ==
  ASSUME LengthsFit, NEW m \in Requests
  PROVE  /\ getLen(m.word) = HEADER_SIZE
         /\ getCode(m.word) \in Commands
         /\ m.words = ServerIn(getCode(m.word), getLen(m.word))
<1>1. PICK code \in Asked :
        m = [word |-> ClientWord(code, HEADER_SIZE), words |-> ClientOut(code, HEADER_SIZE)]
  BY DEF Requests
<1>2. code \in Commands /\ code \in Codes
  BY ConnectionsAssumption DEF Commands, CMD_REGISTER, CMD_PLAYER_INFO, Codes
<1>3. HEADER_SIZE \in Nat /\ HEADER_SIZE < pow2[LenBits]
  BY HeaderFits DEF HEADER_SIZE
<1>4. getLen(ClientWord(code, HEADER_SIZE)) = HEADER_SIZE
      /\ getCode(ClientWord(code, HEADER_SIZE)) = code
  BY <1>2, <1>3, FirstWord
<1>5. ClientOut(code, HEADER_SIZE) = ServerIn(code, HEADER_SIZE)
  BY <1>2
    DEF ClientOut, ServerIn, Commands, CMD_REGISTER, CMD_JOIN, CMD_START_GAME,
        CMD_PLAYER_INFO
<1> QED
  BY <1>1, <1>2, <1>4, <1>5

LEMMA AnswerSays ==
  ASSUME LengthsFit, NEW m \in Answers
  PROVE  /\ getLen(m.word) \in Nat /\ getLen(m.word) >= HEADER_SIZE
         /\ getCode(m.word) \in Replies
         /\ m.words = ClientIn(getCode(m.word), getLen(m.word))
<1> DEFINE RLen(code) == ReplyLen(code, Cells, Players)
<1>1. PICK code \in Replies :
        m = [word |-> ServerWord(code, RLen(code)), words |-> ServerOut(code, RLen(code))]
  BY DEF Answers
<1>2. /\ code \in Codes /\ RLen(code) \in Nat /\ RLen(code) >= HEADER_SIZE
      /\ ServerOut(code, RLen(code)) = ClientIn(code, RLen(code))
      /\ RLen(code) < pow2[LenBits]
  BY ReplyFacts DEF LengthsFit
<1> HIDE DEF RLen
<1>3. getLen(ServerWord(code, RLen(code))) = RLen(code)
      /\ getCode(ServerWord(code, RLen(code))) = code
  BY <1>2, FirstWord
<1> QED
  BY <1>1, <1>2, <1>3

\* A step that leaves a client and its connection alone.
Aside(c) ==
  /\ phase'[c] = phase[c] /\ msg'[c] = msg[c]
  /\ up'[c] = up[c] /\ inbox'[c] = inbox[c] /\ down'[c] = down[c] /\ got'[c] = got[c]
  /\ Handling(c)' <=> Handling(c)
LEMMA AloneStep == ASSUME NEW c \in Clients, Stream(c), Aside(c) PROVE Stream(c)'
<1>1. Quiet(c)' = Quiet(c) /\ Silent(c)' = Silent(c) /\ Announced(c)' = Announced(c)
  BY DEF Aside, Quiet, Silent, Announced
<1>2. /\ Requesting(c)' = Requesting(c) /\ Gone(c)' = Gone(c)
      /\ Answered(c, Announced(c))' = Answered(c, Announced(c))
      /\ Answered(c, Announced(c) - HEADER_SIZE)' = Answered(c, Announced(c) - HEADER_SIZE)
  BY <1>1 DEF Aside, Requesting, Gone, Answered, Requests, Answers
<1> QED
  BY <1>1, <1>2 DEF Aside, Stream, Answers

\* A step of one client, or for one.
LEMMA OneStreamStep ==
  ASSUME StreamInv, StreamTypes', NEW c \in Clients, Stream(c)',
         \A d \in Clients \ {c} : Aside(d)
  PROVE  StreamInv'
<1>1. ASSUME NEW d \in Clients PROVE Stream(d)'
  BY AloneStep DEF StreamInv
<1> QED
  BY <1>1 DEF StreamInv

\* The descriptor at hand belongs to a client.
LEMMA AtHand ==
  ASSUME PassInv, pc \in {"recv", "send"}
  PROVE  fd \in Fds /\ open[fd] \in Clients
  BY DEF PassInv, Open, TypeOK

LEMMA InitStreams == Init => StreamInv
<1> SUFFICES ASSUME Init PROVE StreamInv
  OBVIOUS
<1>1. StreamTypes
  BY DEF Init, StreamTypes
<1>2. ASSUME NEW c \in Clients PROVE Stream(c)
  BY <1>2 DEF Init, Stream, Gone, Silent, Quiet, Handling
<1> QED
  BY <1>1, <1>2 DEF StreamInv

LEMMA ConnectStreams ==
  ASSUME PassInv, StreamInv, NEW c \in Clients, Connect(c) PROVE StreamInv'
<1>1. /\ UNCHANGED <<open, fd, pc, down, got>>
      /\ phase' = [phase EXCEPT ![c] = "idle"] /\ msg' = [msg EXCEPT ![c] = NoMessage]
      /\ up' = [up EXCEPT ![c] = 0] /\ inbox' = [inbox EXCEPT ![c] = 0]
      /\ phase[c] = "off" /\ ~Connected(c)
  BY DEF Connect, tableVars, passVars
<1>2. StreamTypes /\ Stream(c)
  BY DEF StreamInv
<1>3. StreamTypes'
  BY <1>1, <1>2 DEF StreamTypes
<1>4. ~Handling(c)
  BY <1>1, AtHand DEF Handling, Connected
<1>5. Stream(c)'
  <2>1. Silent(c)
    BY <1>1, <1>2 DEF Stream, Gone
  <2>2. Quiet(c)' /\ Silent(c)' /\ phase'[c] = "idle" /\ msg'[c] = NoMessage
    BY <1>1, <1>2, <1>4, <2>1 DEF Quiet, Silent, Handling, StreamTypes
  <2> QED
    BY <2>2 DEF Stream
<1>6. \A d \in Clients \ {c} : Aside(d)
  BY <1>1, <1>2 DEF Aside, Handling, StreamTypes
<1> QED
  BY <1>3, <1>5, <1>6, OneStreamStep

LEMMA AskStreams == ASSUME StreamInv, NEW c \in Clients, Ask(c) PROVE StreamInv'
<1>1. PICK code \in Asked :
        msg' = [msg EXCEPT ![c] = [word |-> ClientWord(code, HEADER_SIZE),
                                   words |-> ClientOut(code, HEADER_SIZE)]]
  BY DEF Ask
<1> DEFINE m == [word |-> ClientWord(code, HEADER_SIZE), words |-> ClientOut(code, HEADER_SIZE)]
<1>2. m \in Requests /\ msg' = [msg EXCEPT ![c] = m]
  BY <1>1 DEF Requests
<1> HIDE DEF m
<1>3. /\ UNCHANGED <<open, fd, pc, inbox, down, got>>
      /\ phase' = [phase EXCEPT ![c] = "asked"] /\ up' = [up EXCEPT ![c] = HEADER_SIZE]
      /\ phase[c] = "idle"
  BY DEF Ask, tableVars, passVars
<1>4. StreamTypes /\ Stream(c)
  BY DEF StreamInv
<1>5. StreamTypes'
  BY <1>2, <1>3, <1>4 DEF StreamTypes, HEADER_SIZE, Requests, Answers
<1>6. Stream(c)'
  <2>1. Quiet(c) /\ Silent(c)
    BY <1>3, <1>4 DEF Stream
  <2>2. phase'[c] = "asked" /\ msg'[c] \in Requests' /\ up'[c] = HEADER_SIZE /\ inbox'[c] = 0
        /\ Silent(c)' /\ ~Handling(c)'
    BY <1>2, <1>3, <1>4, <2>1 DEF Quiet, Silent, Handling, StreamTypes, Requests
  <2>3. Requesting(c)'
    BY <2>2 DEF Requesting, HEADER_SIZE
  <2> QED
    BY <2>2, <2>3 DEF Stream
<1>7. \A d \in Clients \ {c} : Aside(d)
  BY <1>2, <1>3, <1>4 DEF Aside, Handling, StreamTypes
<1> QED
  BY <1>5, <1>6, <1>7, OneStreamStep

LEMMA UpStreams == ASSUME StreamInv, NEW c \in Clients, DeliverUp(c) PROVE StreamInv'
<1>1. PICK n \in Pieces(up[c]) :
        up' = [up EXCEPT ![c] = @ - n] /\ inbox' = [inbox EXCEPT ![c] = @ + n]
  BY DEF DeliverUp
<1>2. UNCHANGED <<open, fd, pc, phase, msg, down, got>>
  BY DEF DeliverUp, tableVars, passVars
<1>3. StreamTypes /\ Stream(c)
  BY DEF StreamInv
<1>4. n \in Nat /\ n > 0 /\ n <= up[c] /\ up[c] \in Nat /\ inbox[c] \in Nat
  BY <1>3 DEF Pieces, StreamTypes
<1>5. up'[c] = up[c] - n /\ inbox'[c] = inbox[c] + n /\ up'[c] \in Nat /\ inbox'[c] \in Nat
  BY <1>1, <1>3, <1>4 DEF StreamTypes
<1>6. StreamTypes'
  BY <1>1, <1>2, <1>3, <1>4 DEF StreamTypes, Requests, Answers
<1>7. Stream(c)'
  <2>1. ~Quiet(c) /\ up[c] # 0
    BY <1>4 DEF Quiet
  <2>2. /\ phase'[c] = phase[c] /\ msg'[c] = msg[c] /\ Handling(c)' = Handling(c)
        /\ Silent(c)' = Silent(c) /\ up'[c] + inbox'[c] = up[c] + inbox[c]
    BY <1>2, <1>4, <1>5 DEF Handling, Silent
  <2>3. CASE phase[c] = "asked"
    <3>1. Requesting(c) /\ ~Handling(c)
      BY <1>3, <2>1, <2>3 DEF Stream, Answered, Requesting
    <3>2. Requesting(c)'
      BY <2>2, <3>1 DEF Requesting, Requests
    <3> QED
      BY <2>2, <2>3, <3>2 DEF Stream
  <2>4. CASE phase[c] = "off"
    <3>1. Silent(c) /\ ~Handling(c) /\ msg[c] \in Requests /\ up[c] + inbox[c] <= HEADER_SIZE
      BY <1>3, <2>1, <2>4 DEF Stream, Gone
    <3>2. Gone(c)'
      BY <2>2, <3>1 DEF Gone, Requests
    <3> QED
      BY <2>2, <2>4, <3>2 DEF Stream
  <2> QED
    BY <1>3, <2>1, <2>3, <2>4 DEF Stream, StreamTypes, Answered
<1>8. \A d \in Clients \ {c} : Aside(d)
  BY <1>1, <1>2, <1>3 DEF Aside, Handling, StreamTypes
<1> QED
  BY <1>6, <1>7, <1>8, OneStreamStep

LEMMA DownStreams == ASSUME StreamInv, NEW c \in Clients, DeliverDown(c) PROVE StreamInv'
<1>1. PICK n \in Pieces(down[c]) :
        down' = [down EXCEPT ![c] = @ - n] /\ got' = [got EXCEPT ![c] = @ + n]
  BY DEF DeliverDown
<1>2. UNCHANGED <<open, fd, pc, phase, msg, up, inbox>>
  BY DEF DeliverDown, tableVars, passVars
<1>3. StreamTypes /\ Stream(c)
  BY DEF StreamInv
<1>4. n \in Nat /\ n > 0 /\ n <= down[c] /\ down[c] \in Nat /\ got[c] \in Nat
  BY <1>3 DEF Pieces, StreamTypes
<1>5. down'[c] = down[c] - n /\ got'[c] = got[c] + n /\ down'[c] \in Nat /\ got'[c] \in Nat
  BY <1>1, <1>3, <1>4 DEF StreamTypes
<1>6. StreamTypes'
  BY <1>1, <1>2, <1>3, <1>4 DEF StreamTypes, Requests, Answers
<1>7. Stream(c)'
  <2>1. ~Silent(c)
    BY <1>4 DEF Silent
  <2>2. /\ phase'[c] = phase[c] /\ msg'[c] = msg[c] /\ Quiet(c)' = Quiet(c)
        /\ Announced(c)' = Announced(c) /\ down'[c] + got'[c] = down[c] + got[c]
    BY <1>2, <1>4, <1>5 DEF Handling, Quiet, Announced
  <2>3. CASE phase[c] = "asked"
    <3>1. Answered(c, Announced(c))
      BY <1>3, <2>1, <2>3 DEF Stream, Requesting
    <3>2. Answered(c, Announced(c))'
      BY <2>2, <3>1 DEF Answered, Answers
    <3> QED
      BY <2>2, <2>3, <3>2 DEF Stream
  <2>4. CASE phase[c] = "rest"
    <3>1. Answered(c, Announced(c) - HEADER_SIZE)
      BY <1>3, <2>4 DEF Stream
    <3>2. Answered(c, Announced(c) - HEADER_SIZE)'
      BY <2>2, <3>1 DEF Answered, Answers
    <3> QED
      BY <2>2, <2>4, <3>2 DEF Stream
  <2> QED
    BY <1>3, <2>1, <2>3, <2>4 DEF Stream, StreamTypes, Gone
<1>8. \A d \in Clients \ {c} : Aside(d)
  BY <1>1, <1>2, <1>3 DEF Aside, Handling, StreamTypes
<1> QED
  BY <1>6, <1>7, <1>8, OneStreamStep

\* A client that stops loses what it has not read, and perhaps the end of its
\* request.
LEMMA StopStreams ==
  ASSUME LengthsFit, StreamInv, NEW c \in Clients, phase[c] # "off", Stop(c),
         UNCHANGED <<backlog, tableVars, passVars>>
  PROVE  StreamInv'
<1>1. PICK n \in {0} \cup Pieces(up[c]) : up' = [up EXCEPT ![c] = n]
  BY DEF Stop
<1>2. /\ UNCHANGED <<open, fd, pc, msg, inbox>>
      /\ phase' = [phase EXCEPT ![c] = "off"]
      /\ down' = [down EXCEPT ![c] = 0] /\ got' = [got EXCEPT ![c] = 0]
  BY DEF Stop, tableVars, passVars
<1>3. StreamTypes /\ Stream(c)
  BY DEF StreamInv
<1>4. n \in Nat /\ n <= up[c] /\ up[c] \in Nat /\ inbox[c] \in Nat
  BY <1>3 DEF Pieces, StreamTypes
<1>5. StreamTypes'
  BY <1>1, <1>2, <1>3, <1>4 DEF StreamTypes, Requests, Answers
<1>6. Stream(c)'
  <2>1. /\ phase'[c] = "off" /\ msg'[c] = msg[c] /\ Handling(c)' = Handling(c)
        /\ Silent(c)' /\ up'[c] = n /\ inbox'[c] = inbox[c]
    BY <1>1, <1>2, <1>3 DEF Handling, Silent, StreamTypes
  <2>2. CASE Quiet(c)
    <3>1. Quiet(c)'
      BY <1>4, <2>1, <2>2 DEF Quiet
    <3> QED
      BY <2>1, <3>1 DEF Stream, Gone, Quiet
  <2>3. CASE ~Quiet(c)
    <3>1. Requesting(c)
      BY <1>3, <2>3 DEF Stream, StreamTypes, Answered
    <3>2. IF Handling(c)' THEN up'[c] = 0 /\ inbox'[c] = 0 ELSE up'[c] + inbox'[c] <= HEADER_SIZE
      BY <1>4, <2>1, <3>1 DEF Requesting
    <3>3. msg'[c] \in Requests'
      BY <2>1, <3>1 DEF Requesting, Requests
    <3> QED
      BY <2>1, <3>2, <3>3 DEF Stream, Gone
  <2> QED
    BY <2>2, <2>3
<1>7. \A d \in Clients \ {c} : Aside(d)
  BY <1>1, <1>2, <1>3 DEF Aside, Handling, StreamTypes
<1> QED
  BY <1>5, <1>6, <1>7, OneStreamStep

LEMMA HeaderStreams ==
  ASSUME LengthsFit, StreamInv, NEW c \in Clients, TakeHeader(c) PROVE StreamInv'
<1>1. /\ phase[c] = "asked" /\ got[c] > 0 /\ UNCHANGED <<backlog, tableVars, passVars>>
      /\ UNCHANGED <<open, fd, pc>>
  BY DEF TakeHeader, tableVars, passVars
<1>2. CASE ~TakesHeader(c) /\ Stop(c)
  BY <1>1, <1>2, StopStreams
<1>3. CASE /\ TakesHeader(c)
           /\ got' = [got EXCEPT ![c] = SetMax(0, @ - HEADER_SIZE)]
           /\ phase' = [phase EXCEPT ![c] =
                          IF Announced(c) = HEADER_SIZE THEN "idle" ELSE "rest"]
           /\ UNCHANGED <<msg, up, inbox, down, fin>>
  <2>1. StreamTypes /\ Stream(c) /\ got[c] \in Nat /\ down[c] \in Nat /\ got[c] # 0
    BY <1>1 DEF StreamInv, StreamTypes
  <2>2. Answered(c, Announced(c))
    BY <1>1, <2>1 DEF Stream, Requesting, Silent
  <2>3. Announced(c) \in Nat /\ Announced(c) >= HEADER_SIZE /\ down[c] + got[c] = Announced(c)
    BY <2>2, AnswerSays DEF Answered, Announced
  <2>4. got[c] >= HEADER_SIZE /\ SetMax(0, got[c] - HEADER_SIZE) = got[c] - HEADER_SIZE
        /\ got[c] - HEADER_SIZE \in Nat
    BY <1>3, <2>1 DEF TakesHeader, HEADER_SIZE, SetMax
  <2>5. /\ got'[c] = got[c] - HEADER_SIZE
        /\ phase'[c] = IF Announced(c) = HEADER_SIZE THEN "idle" ELSE "rest"
        /\ msg'[c] = msg[c] /\ down'[c] = down[c]
        /\ Quiet(c)' = Quiet(c) /\ Announced(c)' = Announced(c)
    BY <1>1, <1>3, <2>1, <2>4 DEF StreamTypes, Quiet, Handling, Announced
  <2>6. StreamTypes'
    BY <1>3, <2>1, <2>4 DEF StreamTypes, Requests, Answers
  <2>7. Stream(c)'
    <3>1. msg'[c] \in Answers' /\ Quiet(c)'
      BY <2>2, <2>5 DEF Answered, Answers
    <3>2. CASE Announced(c) = HEADER_SIZE
      <4>1. Silent(c)'
        BY <2>1, <2>3, <2>4, <2>5, <3>2 DEF Silent, HEADER_SIZE
      <4> QED
        BY <2>5, <3>1, <3>2, <4>1 DEF Stream
    <3>3. CASE Announced(c) # HEADER_SIZE
      <4>1. down'[c] + got'[c] = Announced(c) - HEADER_SIZE
        BY <2>1, <2>3, <2>5 DEF HEADER_SIZE
      <4>2. Answered(c, Announced(c) - HEADER_SIZE)'
        BY <2>5, <3>1, <4>1 DEF Answered, HEADER_SIZE
      <4> QED
        BY <2>5, <3>3, <4>2 DEF Stream
    <3> QED
      BY <3>2, <3>3
  <2>8. \A d \in Clients \ {c} : Aside(d)
    BY <1>1, <1>3, <2>1 DEF Aside, Handling, StreamTypes
  <2> QED
    BY <2>6, <2>7, <2>8, OneStreamStep
<1> QED
  BY <1>2, <1>3 DEF TakeHeader

LEMMA RestStreams ==
  ASSUME LengthsFit, StreamInv, NEW c \in Clients, TakeRest(c) PROVE StreamInv'
<1> DEFINE rest == Announced(c) - HEADER_SIZE
<1>1. /\ phase[c] = "rest" /\ got[c] > 0 /\ UNCHANGED <<backlog, tableVars, passVars>>
      /\ UNCHANGED <<open, fd, pc>>
  BY DEF TakeRest, tableVars, passVars
<1>2. CASE got[c] < rest /\ Stop(c)
  BY <1>1, <1>2, StopStreams
<1>3. CASE /\ got[c] >= rest
           /\ got' = [got EXCEPT ![c] = @ - rest]
           /\ phase' = [phase EXCEPT ![c] = "idle"]
           /\ UNCHANGED <<msg, up, inbox, down, fin>>
  <2>1. StreamTypes /\ Stream(c) /\ got[c] \in Nat /\ down[c] \in Nat
    BY DEF StreamInv, StreamTypes
  <2>2. Answered(c, rest) /\ down[c] + got[c] = rest
    BY <1>1, <2>1 DEF Stream, Answered
  <2>3. rest \in Int
    BY <2>2, AnswerSays DEF Answered, Announced, HEADER_SIZE
  <2> HIDE DEF rest
  <2>4. down[c] = 0 /\ got[c] - rest = 0
    BY <1>3, <2>1, <2>2, <2>3
  <2>5. /\ got'[c] = 0 /\ phase'[c] = "idle" /\ msg'[c] = msg[c] /\ down'[c] = 0
        /\ Quiet(c)' = Quiet(c)
    BY <1>1, <1>3, <2>1, <2>4 DEF StreamTypes, Quiet, Handling
  <2>6. StreamTypes'
    <3>1. got' = [got EXCEPT ![c] = 0]
      BY <1>3, <2>4
    <3> QED
      BY <1>3, <2>1, <3>1 DEF StreamTypes, Requests, Answers
  <2>7. Stream(c)'
    <3>1. msg'[c] \in Answers' /\ Quiet(c)' /\ Silent(c)'
      BY <2>2, <2>5 DEF Answered, Answers, Silent
    <3> QED
      BY <2>5, <3>1 DEF Stream
  <2>8. \A d \in Clients \ {c} : Aside(d)
    BY <1>1, <1>3, <2>1 DEF Aside, Handling, StreamTypes
  <2> QED
    BY <2>6, <2>7, <2>8, OneStreamStep
<1> QED
  BY <1>2, <1>3 DEF TakeRest

\* Steps that touch no stream: fin, and the main thread up to the receive.
LEMMA StillStreams ==
  ASSUME StreamInv, UNCHANGED <<phase, msg, up, inbox, down, got>>,
         \A d \in Clients : Handling(d)' = Handling(d)
  PROVE  StreamInv'
<1>1. StreamTypes'
  BY DEF StreamInv, StreamTypes, Requests, Answers
<1>2. ASSUME NEW d \in Clients PROVE Stream(d)'
  <2>1. Stream(d) /\ Aside(d)
    BY DEF StreamInv, Aside
  <2> QED
    BY <2>1, AloneStep
<1> QED
  BY <1>1, <1>2 DEF StreamInv

LEMMA ClientStreams ==
  ASSUME LengthsFit, PassInv, StreamInv, NEW c \in Clients, Around(c) PROVE StreamInv'
<1>1. CASE Connect(c)
  BY <1>1, ConnectStreams
<1>2. CASE Ask(c)
  BY <1>2, AskStreams
<1>3. CASE Leave(c) \/ HangUp(c)
  BY <1>3, StopStreams DEF Leave, HangUp
<1>4. CASE Fin(c)
  BY <1>4, StillStreams DEF Fin, tableVars, passVars, Handling
<1>5. CASE TakeHeader(c)
  BY <1>5, HeaderStreams
<1>6. CASE TakeRest(c)
  BY <1>6, RestStreams
<1>7. CASE DeliverUp(c)
  BY <1>7, UpStreams
<1>8. CASE DeliverDown(c)
  BY <1>8, DownStreams
<1> QED
  BY <1>1, <1>2, <1>3, <1>4, <1>5, <1>6, <1>7, <1>8 DEF Around, Takes, Network

LEMMA WaitStreams == ASSUME StreamInv, Select \/ Accept \/ Scan PROVE StreamInv'
<1>1. UNCHANGED <<phase, msg, up, inbox, down, got>> /\ pc # "send" /\ pc' # "send"
  <2>1. CASE Select
    BY <2>1 DEF Select, clientVars
  <2>2. CASE Accept
    BY <2>2 DEF Accept, Counted, clientVars
  <2>3. CASE Scan
    BY <2>3 DEF Scan, clientVars
  <2> QED
    BY <2>1, <2>2, <2>3
<1> QED
  BY <1>1, StillStreams DEF Handling

LEMMA ReceiveStreams ==
  ASSUME LengthsFit, PassInv, StreamInv, recvData PROVE StreamInv'
<1>1. pc = "recv" /\ UNCHANGED <<phase, msg, up, down, got>> /\ \A d \in Clients : ~Handling(d)
  BY DEF recvData, Handling
<1>0. PICK c \in Clients : c = open[fd]
  BY <1>1, AtHand
<1>2. CASE ~Whole(c) /\ fin[c] /\ Counted("scan") /\ UNCHANGED inbox
  BY <1>1, <1>2, StillStreams DEF Counted, Handling
<1>3. CASE /\ Whole(c)
           /\ inbox' = [inbox EXCEPT ![c] = @ - Announced(c)]
           /\ pc' = "send"
           /\ UNCHANGED <<tableVars, nready, fd>>
  <2>1. c \in Clients /\ StreamTypes /\ Stream(c) /\ ~Handling(c)
    BY <1>1 DEF StreamInv
  <2>2. open' = open /\ fd' = fd
    BY <1>3 DEF tableVars
  <2> DEFINE k == inbox[c] - Announced(c)
  <2>3. up[c] \in Nat /\ inbox[c] \in Nat /\ inbox[c] >= HEADER_SIZE /\ ~Quiet(c)
    BY <1>3, <2>1 DEF StreamTypes, Whole, Quiet, HEADER_SIZE
  <2>4. /\ msg[c] \in Requests /\ Silent(c) /\ phase[c] \in {"asked", "off"}
        /\ up[c] + inbox[c] <= HEADER_SIZE
    BY <2>1, <2>3 DEF Stream, StreamTypes, Answered, Requesting, Gone, HEADER_SIZE
  <2>5. Announced(c) = HEADER_SIZE
    BY <2>4, RequestSays DEF Announced
  <2>6. up[c] = 0 /\ k = 0
    BY <2>3, <2>4, <2>5 DEF HEADER_SIZE
  <2>7. inbox' = [inbox EXCEPT ![c] = 0]
    BY <1>3, <2>6
  <2> HIDE DEF k
  <2>8. StreamTypes'
    BY <1>1, <2>1, <2>7 DEF StreamTypes, Requests, Answers
  <2>9. Stream(c)'
    <3>1. /\ Handling(c)' /\ up'[c] = 0 /\ inbox'[c] = 0 /\ Silent(c)' /\ msg'[c] \in Requests'
          /\ phase'[c] = phase[c]
      BY <1>0, <1>1, <1>3, <2>1, <2>2, <2>4, <2>6, <2>7
         DEF Handling, Silent, StreamTypes, Requests
    <3> QED
      BY <2>4, <3>1 DEF Stream, Requesting, Gone
  <2>10. \A d \in Clients \ {c} : Aside(d)
    BY <1>0, <1>1, <2>1, <2>2, <2>7 DEF Aside, Handling, StreamTypes
  <2> QED
    BY <2>1, <2>8, <2>9, <2>10, OneStreamStep
<1> QED
  BY <1>0, <1>2, <1>3 DEF recvData

LEMMA HandleStreams ==
  ASSUME LengthsFit, PassInv, StreamInv, commandHandler PROVE StreamInv'
<1>0. PICK c \in Clients : c = open[fd] /\ pc = "send"
  BY AtHand DEF commandHandler
<1> DEFINE cmd == getCode(msg[c].word)
           RLen(code) == ReplyLen(code, Cells, Players)
           Reply(code) == [word |-> ServerWord(code, RLen(code)),
                           words |-> ServerOut(code, RLen(code))]
<1>1. /\ pc = "send" /\ pc' # "send" /\ UNCHANGED <<phase, up, inbox, got>>
      /\ c \in Clients /\ StreamTypes /\ Stream(c) /\ Handling(c)
      /\ \A d \in Clients : ~Handling(d)'
      /\ \A d \in Clients \ {c} : ~Handling(d)
  <2>1. pc = "send" /\ pc' # "send" /\ UNCHANGED <<phase, up, inbox, got>>
    BY DEF commandHandler, Counted
  <2> QED
    BY <1>0, <2>1 DEF StreamInv, Handling
<1>2. /\ msg[c] \in Requests /\ Silent(c) /\ up[c] = 0 /\ inbox[c] = 0
      /\ phase[c] \in {"asked", "off"}
  BY <1>1 DEF Stream, StreamTypes, Answered, Requesting, Gone, Quiet
<1>3. up'[c] = 0 /\ inbox'[c] = 0 /\ got'[c] = 0 /\ phase'[c] = phase[c] /\ Quiet(c)'
  BY <1>1, <1>2 DEF Quiet, Silent
<1>4. ASSUME phase[c] = "off", UNCHANGED <<msg, down>> PROVE StreamInv'
  <2>1. StreamTypes'
    BY <1>1, <1>4 DEF StreamTypes, Requests, Answers
  <2>2. Stream(c)'
    BY <1>2, <1>3, <1>4 DEF Stream, Gone, Silent, Quiet
  <2>3. \A d \in Clients \ {c} : Aside(d)
    BY <1>1, <1>4 DEF Aside
  <2> QED
    BY <1>1, <2>1, <2>2, <2>3, OneStreamStep
<1>5. ASSUME NEW code \in {RES_SUCC(cmd), RES_FAIL(cmd)},
             msg' = [msg EXCEPT ![c] = Reply(code)],
             down' = [down EXCEPT ![c] = IF phase[c] = "off" THEN 0 ELSE RLen(code)]
      PROVE  StreamInv'
  <2>1. cmd \in Commands
    BY <1>2, RequestSays
  <2>2. code \in Replies
    BY <2>1 DEF Replies
  <2>3. RLen(code) \in Nat /\ Reply(code) \in Answers
    BY <2>2, ReplyFacts DEF Answers
  <2>4. getLen(Reply(code).word) = RLen(code)
    <3>1. RLen(code) < pow2[LenBits] /\ code \in Codes
      BY <2>2, ReplyFacts DEF LengthsFit
    <3> HIDE DEF RLen
    <3>2. getLen(ServerWord(code, RLen(code))) = RLen(code)
      BY <2>3, <3>1, FirstWord
    <3> QED
      BY <3>2
  <2> HIDE DEF cmd, Reply, RLen
  <2>5. StreamTypes'
    BY <1>1, <1>5, <2>3 DEF StreamTypes, Requests, Answers
  <2>6. /\ msg'[c] = Reply(code)
        /\ down'[c] = IF phase[c] = "off" THEN 0 ELSE RLen(code)
    BY <1>1, <1>5 DEF StreamTypes
  <2>7. Stream(c)'
    <3>1. CASE phase[c] = "off"
      BY <1>2, <1>3, <2>6, <3>1 DEF Stream, Gone, Silent, Quiet
    <3>2. CASE phase[c] = "asked"
      <4>1. Announced(c)' = RLen(code) /\ down'[c] + got'[c] = RLen(code) /\ msg'[c] \in Answers'
        BY <1>3, <2>3, <2>4, <2>6, <3>2 DEF Announced, Answers
      <4>2. Answered(c, Announced(c))'
        BY <1>3, <4>1 DEF Answered
      <4> QED
        BY <1>3, <3>2, <4>2 DEF Stream
    <3> QED
      BY <1>2, <3>1, <3>2
  <2>8. \A d \in Clients \ {c} : Aside(d)
    BY <1>1, <1>5 DEF Aside, StreamTypes
  <2> QED
    BY <1>1, <2>5, <2>7, <2>8, OneStreamStep
<1> QED
  BY <1>0, <1>4, <1>5 DEF commandHandler

LEMMA NextStreams ==
  ASSUME LengthsFit, PassInv, StreamInv, [Next]_vars PROVE StreamInv'
<1>1. CASE Server
  BY <1>1, WaitStreams, ReceiveStreams, HandleStreams DEF Server
<1>2. ASSUME NEW c \in Clients,
             Connect(c) \/ Ask(c) \/ Leave(c) \/ Fin(c) \/ Takes(c) \/ Network(c)
      PROVE  StreamInv'
  BY <1>2, ClientStreams DEF Around
<1>3. CASE UNCHANGED vars
  BY <1>3, StillStreams DEF vars, clientVars, tableVars, passVars, Handling
<1> QED
  BY <1>1, <1>2, <1>3 DEF Next

LEMMA StreamsInStep == LengthsFit /\ StreamInv => InStep
<1> SUFFICES ASSUME LengthsFit, StreamInv, NEW c \in Clients
             PROVE  LET code == getCode(msg[c].word) IN
                    /\ phase[c] = "idle" =>
                         /\ up[c] = 0 /\ inbox[c] = 0 /\ down[c] = 0 /\ got[c] = 0
                         /\ msg[c] # NoMessage =>
                              /\ code \in Replies
                              /\ msg[c].words = ClientIn(code, Announced(c))
                    /\ Handling(c) =>
                         /\ code \in Commands
                         /\ msg[c].words = ServerIn(code, Announced(c))
  BY DEF InStep
<1>1. CASE phase[c] = "idle"
  <2>1. Quiet(c) /\ Silent(c) /\ msg[c] \in {NoMessage} \cup Answers
    BY <1>1 DEF StreamInv, Stream
  <2>2. msg[c] # NoMessage =>
          /\ getCode(msg[c].word) \in Replies
          /\ msg[c].words = ClientIn(getCode(msg[c].word), Announced(c))
    BY <2>1, AnswerSays DEF Announced
  <2> QED
    BY <2>1, <2>2 DEF Quiet, Silent
<1>2. CASE phase[c] # "idle"
  <2>1. Handling(c) => msg[c] \in Requests
    BY <1>2
      DEF StreamInv, StreamTypes, Stream, Requesting, Answered, Quiet, Gone
  <2> QED
    BY <1>2, <2>1, RequestSays DEF Announced
<1> QED
  BY <1>1, <1>2

\* On every connection requests and replies stay in step, whatever the network
\* cuts, whoever leaves in the middle of anything and whatever descriptor is
\* closed meanwhile, as long as the lengths fit into the header
\* (server_comm.c:16-158, cliaction.c:104-262).
THEOREM ExchangesInStep == ASSUME LengthsFit PROVE Spec => []InStep
<1>1. Init => PassInv /\ StreamInv
  BY InitPassInv, InitStreams
<1>2. PassInv /\ StreamInv /\ [Next]_vars => PassInv' /\ StreamInv'
  BY NextPassInv, NextStreams
<1>3. PassInv /\ StreamInv => InStep
  BY StreamsInStep
<1> QED
  BY <1>1, <1>2, <1>3, PTL DEF Spec
=============================================================================
