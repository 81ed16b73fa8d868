-------------------------- MODULE RoomServerProofs --------------------------
(***************************************************************************)
(* What holds of the list of rooms and of the rooms in it, for every       *)
(* number of blocks, ids, slots and sessions and whatever linger times:    *)
(* proofs.  The inductive invariant IInv says, besides the properties,     *)
(*                                                                         *)
(*   Lists      the list and the live blocks, block by block               *)
(*   Control    what the main thread knows at each of its steps            *)
(*   PointsTo   the handler's pointer leads to a block of the right id     *)
(*   Filling    only the handler of Register_Room sees an unfilled room    *)
(*   Compared   what verifySession has compared stays true                 *)
(***************************************************************************)
EXTENDS RoomServer, TLAPS

\* erase(it): one element less, the others in their order.
LEMMA RemoveAtFacts ==
  ASSUME NEW S, NEW s \in Seq(S), NEW i \in 1 .. Len(s)
  PROVE  /\ RemoveAt(s, i) \in Seq(S)
         /\ Len(RemoveAt(s, i)) = Len(s) - 1
         /\ \A j \in 1 .. Len(s) - 1 :
              RemoveAt(s, i)[j] = IF j < i THEN s[j] ELSE s[j + 1]
<1> DEFINE front == SubSeq(s, 1, i - 1)
           back  == SubSeq(s, i + 1, Len(s))
<1>1. front \in Seq(S) /\ Len(front) = i - 1 /\ \A j \in 1 .. i - 1 : front[j] = s[j]
  OBVIOUS
<1>2. /\ back \in Seq(S) /\ Len(back) = Len(s) - i
      /\ \A j \in 1 .. Len(s) - i : back[j] = s[i + j]
  OBVIOUS
<1>3. RemoveAt(s, i) = front \o back
  BY DEF RemoveAt
<1> HIDE DEF front, back
<1>4. Len(front \o back) = Len(s) - 1 /\ front \o back \in Seq(S)
  BY <1>1, <1>2
<1>5. \A j \in 1 .. Len(s) - 1 :
        (front \o back)[j] = IF j < i THEN s[j] ELSE s[j + 1]
  <2> TAKE j \in 1 .. Len(s) - 1
  <2>1. CASE j < i
    BY <1>1, <1>2, <2>1
  <2>2. CASE ~(j < i)
    <3>1. (front \o back)[j] = back[j - (i - 1)]
      BY <1>1, <1>2, <2>2
    <3>2. back[j - (i - 1)] = s[i + (j - (i - 1))]
      BY <1>2, <2>2
    <3> QED
      BY <3>1, <3>2, <2>2
  <2> QED
    BY <2>1, <2>2
<1> QED
  BY <1>3, <1>4, <1>5

-----------------------------------------------------------------------------
(* The inductive invariant.                                                *)

\* No live room has that id.
Absent(id) == \A a \in Addr : heap[a].live => heap[a].room_id # id

Lists ==
  /\ \A i, j \in DOMAIN Room_List : Room_List[i] = Room_List[j] => i = j
  /\ \A a \in Addr : heap[a].live <=> \E i \in DOMAIN Room_List : Room_List[i] = a
  /\ \A a, b \in Addr :
       heap[a].live /\ heap[b].live /\ heap[a].room_id = heap[b].room_id => a = b

Control ==
  /\ pc = "select" => req = [op |-> "none"] /\ room = NULL
  /\ pc \notin {"select", "down"} => req \in Request
  /\ pc \in {"peek", "check", "lock", "body", "unlock", "blocked", "hung"} => room \in Addr
  /\ pc = "add" => req.op = "register" /\ Absent(req.ticket.room)
  /\ pc = "peek" => req.op = "map"
  /\ pc \in {"verify", "check"} => req.op \in Verified
  /\ pc = "verify" /\ room = NULL => Absent(req.ticket.room)
  /\ pc \in {"lookup", "add", "lock", "body"} /\ req.op \in NewComers => state < MaxSession
  /\ gpc \in Deleting \cup {"round"} => it <= Len(Room_List)

PointsTo ==
  room # NULL => req \in Request /\ heap[room].room_id = req.ticket.room

Filling ==
  \A a \in Addr : heap[a].live =>
    IF heap[a].ready THEN heap[a].game_state \in GameStates
    ELSE /\ room = a /\ req.op = "register"
         /\ pc \in {"lock", "body", "blocked", "hung", "down"}

Compared ==
  pc \in {"lock", "body"} /\ req.op \in Verified \ {"map"} =>
    heap[room].session[req.ticket.pid] = req.ticket.session

IInv ==
  /\ TypeOK /\ Lists /\ Control /\ PointsTo /\ Filling /\ Compared
  /\ LobbyNeverLeftLocked

\* The properties follow.
LEMMA IInvImplies == IInv => TypeOK /\ UniqueIds /\ ListExact /\ SeatOwner /\ LobbyNeverLeftLocked
<1> SUFFICES ASSUME IInv PROVE UniqueIds /\ ListExact /\ SeatOwner
  BY DEF IInv
<1>1. \A i \in DOMAIN Room_List : Room_List[i] \in Addr
  BY DEF IInv, TypeOK
<1>2. UniqueIds
  BY <1>1 DEF IInv, Lists, UniqueIds
<1>3. ListExact
  BY <1>1 DEF IInv, Lists, ListExact
<1>4. SeatOwner
  BY ServerAssumption DEF IInv, Control, PointsTo, Filling, Compared, SeatOwner, Verified
<1> QED
  BY <1>2, <1>3, <1>4

LEMMA InitIInv == Init => IInv
<1> SUFFICES ASSUME Init PROVE IInv
  OBVIOUS
<1>1. \A a \in Addr : heap[a] = Unused
  BY DEF Init
<1>2. Unused \in NodeRoom /\ ~Unused.live /\ ~Unused.locked
  BY ServerAssumption DEF Unused, NodeRoom, MaxAge
<1>3. TypeOK
  BY <1>1, <1>2, ServerAssumption DEF Init, TypeOK
<1>4. Lists /\ Control /\ PointsTo /\ Filling /\ Compared
  BY <1>1, <1>2 DEF Init, Lists, Control, PointsTo, Filling, Compared, Absent, Deleting
<1>5. LobbyNeverLeftLocked
  BY <1>1, <1>2 DEF Init, LobbyNeverLeftLocked
<1> QED
  BY <1>3, <1>4, <1>5 DEF IInv

-----------------------------------------------------------------------------
(* Requests and steps that leave the rooms alone.                          *)

\* What a request is made of.
LEMMA RequestFacts ==
  ASSUME NEW r \in Request
  PROVE  /\ r.op \in NewComers \cup Verified
         /\ r.ticket.room \in RoomIds /\ r.ticket.pid \in Pids
         /\ r.op \in Verified => r.ticket \in Ticket
         /\ r.op # "none"
<1>1. 0 \in Pids
  BY ServerAssumption DEF Pids
<1>2. CASE r \in [op : NewComers, ticket : {NoTicket(id) : id \in RoomIds}]
  BY <1>1, <1>2 DEF NoTicket, NewComers, Verified
<1>3. CASE r \in [op : Verified, ticket : Ticket]
  BY <1>3 DEF Ticket, Verified
<1> QED
  BY <1>2, <1>3 DEF Request

\* getRoom finds a live room of that id, or there is none.
LEMMA FoundFacts ==
  ASSUME TypeOK, Lists, NEW id, NEW found \in getRoom(id)
  PROVE  \/ found = NULL /\ Absent(id)
         \/ found \in Addr /\ heap[found].live /\ heap[found].room_id = id
<1>1. \A i \in DOMAIN Room_List : Room_List[i] \in Addr /\ heap[Room_List[i]].live
  BY DEF TypeOK, Lists
<1>2. CASE Named(id) = {}
  BY <1>1, <1>2 DEF getRoom, First, Named, Absent, Lists
<1>3. CASE Named(id) # {}
  BY <1>1, <1>3 DEF getRoom, First, Named
<1> QED
  BY <1>2, <1>3

\* The rooms stay as they are.
LEMMA ListsKept ==
  ASSUME Lists, UNCHANGED <<Room_List, heap>>
  PROVE  Lists'
BY DEF Lists

LEMMA RecvStep == IInv /\ Recv => IInv'
<1> SUFFICES ASSUME IInv, Recv PROVE IInv'
  OBVIOUS
<1> USE DEF IInv, Recv, gameVars
<1>1. /\ req' \in Request
      /\ req'.op \in NewComers => state < MaxSession
      /\ req'.op \in Verified => req'.ticket \in Ticket
  <2>1. CASE \E op \in NewComers \cap Commands, id \in RoomIds :
               state < MaxSession /\ req' = [op |-> op, ticket |-> NoTicket(id)]
    BY <2>1 DEF Request, NewComers, Verified
  <2>2. CASE \E op \in Verified \cap Commands, t \in issued : req' = [op |-> op, ticket |-> t]
    BY <2>2 DEF Request, TypeOK, NewComers, Verified
  <2> QED
    BY <2>1, <2>2
<1>2. TypeOK'
  BY <1>1 DEF TypeOK
<1>3. Lists'
  BY ListsKept
<1>4. Control' /\ PointsTo' /\ Filling' /\ Compared'
  BY <1>1 DEF Control, PointsTo, Filling, Compared
<1>5. LobbyNeverLeftLocked'
  BY DEF LobbyNeverLeftLocked, LeftLocked
<1> QED
  BY <1>2, <1>3, <1>4, <1>5

LEMMA LookupStep == IInv /\ Lookup => IInv'
<1> SUFFICES ASSUME IInv, Lookup PROVE IInv'
  OBVIOUS
<1> USE DEF IInv
<1>1. /\ UNCHANGED <<Room_List, heap, list_mutex, state, issued, gpc, it>>
      /\ pc = "lookup" /\ req \in Request
  BY DEF Lookup, gameVars, Control
<1>2. Lists'
  BY <1>1, ListsKept
<1>3. LobbyNeverLeftLocked' /\ TypeOK' /\ Control' /\ PointsTo' /\ Filling' /\ Compared'
  <2>1. PICK found \in getRoom(req.ticket.room) :
          \/ Reply
          \/ /\ req.op = "register" /\ found = NULL /\ pc' = "add" /\ UNCHANGED <<req, room>>
          \/ /\ req.op = "join" /\ found # NULL /\ pc' = "lock"
             /\ room' = found /\ UNCHANGED req
          \/ /\ req.op \in Verified /\ room' = found /\ UNCHANGED req
             /\ pc' = IF req.op = "map" /\ found # NULL THEN "peek" ELSE "verify"
    BY DEF Lookup
  <2>2. \/ found = NULL /\ Absent(req.ticket.room)
        \/ found \in Addr /\ heap[found].live /\ heap[found].room_id = req.ticket.room
    BY FoundFacts
  <2>3. CASE Reply
    BY <1>1, <2>3 DEF Reply, TypeOK, Control, PointsTo, Filling, Compared,
                      LobbyNeverLeftLocked, LeftLocked
  <2>4. CASE req.op = "register" /\ found = NULL /\ pc' = "add" /\ UNCHANGED <<req, room>>
    BY <1>1, <2>2, <2>4, ServerAssumption
       DEF TypeOK, Control, PointsTo, Filling, Compared, Absent, NewComers,
           LobbyNeverLeftLocked, LeftLocked
  <2>5. CASE /\ req.op = "join" /\ found # NULL /\ pc' = "lock"
             /\ room' = found /\ UNCHANGED req
    BY <1>1, <2>2, <2>5, ServerAssumption
       DEF TypeOK, Control, PointsTo, Filling, Compared, NewComers, Verified,
           LobbyNeverLeftLocked, LeftLocked
  <2>6. CASE /\ req.op \in Verified /\ room' = found /\ UNCHANGED req
             /\ pc' = IF req.op = "map" /\ found # NULL THEN "peek" ELSE "verify"
    BY <1>1, <2>2, <2>6, ServerAssumption
       DEF TypeOK, Control, PointsTo, Filling, Compared, Absent, NewComers, Verified,
           LobbyNeverLeftLocked, LeftLocked
  <2> QED
    BY <2>1, <2>3, <2>4, <2>5, <2>6
<1> QED
  BY <1>2, <1>3

LEMMA PeekStep == IInv /\ Peek => IInv'
<1> SUFFICES ASSUME IInv, Peek PROVE IInv'
  OBVIOUS
<1> USE DEF IInv, Peek, gameVars
<1>1. Lists'
  BY ListsKept
<1>2. TypeOK' /\ Control' /\ PointsTo' /\ Compared'
  BY ServerAssumption DEF TypeOK, Control, PointsTo, Compared, NewComers, Verified
<1>3. Filling'
  BY DEF Control, Filling
<1>4. LobbyNeverLeftLocked'
  BY DEF LobbyNeverLeftLocked, LeftLocked
<1> QED
  BY <1>1, <1>2, <1>3, <1>4

LEMMA VerifyLookupStep == IInv /\ VerifyLookup => IInv'
<1> SUFFICES ASSUME IInv, VerifyLookup PROVE IInv'
  OBVIOUS
<1> USE DEF IInv
<1>1. /\ UNCHANGED <<Room_List, heap, list_mutex, state, issued, gpc, it>>
      /\ pc = "verify" /\ req \in Request /\ req.op \in Verified
  BY DEF VerifyLookup, gameVars, Control
<1>2. Lists'
  BY <1>1, ListsKept
<1>3. CASE Reply
  BY <1>1, <1>2, <1>3 DEF Reply, TypeOK, Control, PointsTo, Filling, Compared,
                    LobbyNeverLeftLocked, LeftLocked
<1>4. CASE getRoom(req.ticket.room) # {NULL} /\ pc' = "check" /\ UNCHANGED <<req, room>>
  <2>1. room # NULL
    <3> SUFFICES ASSUME room = NULL PROVE FALSE
      OBVIOUS
    <3>1. Absent(req.ticket.room)
      BY <1>1 DEF Control
    <3>2. Named(req.ticket.room) = {}
      BY <3>1 DEF Named, Absent, Lists, TypeOK
    <3> QED
      BY <3>2, <1>4 DEF getRoom, First
  <2>2. TypeOK' /\ Control' /\ PointsTo' /\ Filling' /\ Compared'
    BY <1>1, <1>4, <2>1 DEF TypeOK, Control, PointsTo, Filling, Compared, NewComers, Verified
  <2>3. LobbyNeverLeftLocked'
    BY <1>1, <1>4 DEF LobbyNeverLeftLocked, LeftLocked
  <2> QED
    BY <1>2, <2>2, <2>3
<1>5. \/ Reply
      \/ getRoom(req.ticket.room) # {NULL} /\ pc' = "check" /\ UNCHANGED <<req, room>>
  BY DEF VerifyLookup
<1> QED
  BY <1>3, <1>4, <1>5

LEMMA VerifyCheckStep == IInv /\ VerifyCheck => IInv'
<1> SUFFICES ASSUME IInv, VerifyCheck PROVE IInv'
  OBVIOUS
<1> USE DEF IInv, VerifyCheck, gameVars
<1>1. Lists'
  BY ListsKept
<1>2. TypeOK' /\ Control' /\ PointsTo' /\ Filling' /\ Compared'
  BY DEF TypeOK, Control, PointsTo, Filling, Compared, NewComers, Verified, SessionMatches, Reply
<1>3. LobbyNeverLeftLocked'
  BY DEF LobbyNeverLeftLocked, LeftLocked, Reply
<1> QED
  BY <1>1, <1>2, <1>3

LEMMA BlockStep == IInv /\ (Block \/ Hang) => IInv'
<1> SUFFICES ASSUME IInv, Block \/ Hang PROVE IInv'
  OBVIOUS
<1> USE DEF IInv
<1>1. /\ UNCHANGED <<Room_List, heap, list_mutex, req, room, state, issued, gpc, it>>
      /\ pc = "lock" /\ pc' \in {"blocked", "hung"}
  BY DEF Block, Hang, gameVars
<1>2. Lists'
  BY <1>1, ListsKept
<1>3. TypeOK' /\ Control' /\ PointsTo' /\ Filling' /\ Compared'
  BY <1>1 DEF TypeOK, Control, PointsTo, Filling, Compared
<1>4. LobbyNeverLeftLocked'
  BY <1>1 DEF LobbyNeverLeftLocked, LeftLocked
<1> QED
  BY <1>2, <1>3, <1>4

\* The room left locked is a live one that the command was verified for, so
\* it is filled, and it is not a lobby.
LEMMA StartRefusedStep == IInv /\ StartRefused => IInv'
<1> SUFFICES ASSUME IInv, StartRefused PROVE IInv'
  OBVIOUS
<1> USE DEF IInv
<1>1. /\ UNCHANGED <<Room_List, heap, list_mutex, state, issued, gpc, it>>
      /\ pc = "body" /\ req.op = "start" /\ room \in Addr
      /\ heap[room].game_state # GAME_STATE_WAIT
      /\ pc' = "select" /\ req' = [op |-> "none"] /\ room' = NULL
  BY DEF StartRefused, Refused, Reply, gameVars, Control
<1>2. Lists'
  BY <1>1, ListsKept
<1>3. TypeOK' /\ Control' /\ PointsTo' /\ Filling' /\ Compared'
  BY <1>1 DEF TypeOK, Control, PointsTo, Filling, Compared
<1>4. heap[room].live => heap[room].game_state \in {GAME_STATE_INGAME, GAME_STATE_END}
  BY <1>1 DEF Filling, GameStates
<1>5. LobbyNeverLeftLocked'
  BY <1>1, <1>4 DEF LobbyNeverLeftLocked, LeftLocked
<1> QED
  BY <1>2, <1>3, <1>5

\* A fault leaves everything as it is; what the handler has locked was locked
\* by a handler at work.
Falls == Fault \/ (RoundUnready /\ pc' # pc)
LEMMA DownStep == IInv /\ Falls => IInv'
<1> SUFFICES ASSUME IInv, Falls PROVE IInv'
  OBVIOUS
<1> USE DEF IInv
<1>1. /\ UNCHANGED <<Room_List, heap, list_mutex, req, room, state, issued>>
      /\ pc' = "down" /\ gpc' = "down" /\ it' = it
  BY DEF Falls, Fault, RoundUnready
<1>2. Lists'
  BY <1>1, ListsKept
<1>3. TypeOK'
  BY <1>1 DEF TypeOK
<1>4. Control' /\ PointsTo' /\ Filling' /\ Compared'
  BY <1>1 DEF Control, PointsTo, Filling, Compared, Absent, Deleting
<1>5. LobbyNeverLeftLocked'
  BY <1>1 DEF LobbyNeverLeftLocked, LeftLocked
<1> QED
  BY <1>2, <1>3, <1>4, <1>5

\* The game thread on its way, and a round that ends nothing.
GameMoves ==
  \/ GameLock \/ PlayDone \/ SweepLock \/ Sweep \/ SweepDone \/ PlayUnready
  \/ Play /\ UNCHANGED heap
  \/ RoundUnready /\ pc' = pc /\ UNCHANGED heap
LEMMA GameMovesStep == IInv /\ GameMoves => IInv'
<1> SUFFICES ASSUME IInv, GameMoves PROVE IInv'
  OBVIOUS
<1> USE DEF IInv
<1>1. /\ UNCHANGED <<Room_List, heap, pc, req, room, state, issued>>
      /\ list_mutex' \in {"free", "game"}
      /\ gpc' \in {"sleep", "play", "round", "delended", "sweep", "down"} \cup Deleting
      /\ it' \in 1 .. Len(Room_List) + 1
      /\ gpc' \in Deleting \cup {"round"} => it' <= Len(Room_List)
  <2>1. CASE RoundUnready /\ pc' = pc /\ UNCHANGED heap
    <3>1. gpc = "round" /\ it \in 1 .. Len(Room_List) /\ Len(Room_List) \in Nat
      BY <2>1 DEF RoundUnready, TypeOK, Control
    <3>2. /\ UNCHANGED <<Room_List, heap, list_mutex, pc, req, room, state, issued>>
          /\ (gpc' = "play" /\ it' = it + 1) \/ (gpc' = "down" /\ it' = it)
      BY <2>1 DEF RoundUnready
    <3> QED
      BY <3>1, <3>2 DEF TypeOK, Deleting
  <2>2. CASE Play /\ UNCHANGED heap
    BY <2>2 DEF Play, mainVars, TypeOK, Deleting
  <2>3. CASE GameLock \/ PlayDone \/ SweepLock \/ SweepDone \/ PlayUnready
    BY <2>3 DEF GameLock, PlayDone, SweepLock, SweepDone, PlayUnready, mainVars, TypeOK,
       begin, Deleting
  <2>4. CASE Sweep
    <3>1. \/ gpc' = "sweep" /\ it' = it + 1
          \/ gpc' \in Deleting /\ it' = it
      BY <2>4 DEF Sweep, Judgement, Deleting
    <3>2. it \in 1 .. Len(Room_List) /\ Len(Room_List) \in Nat
      BY <2>4 DEF Sweep, TypeOK
    <3> QED
      BY <2>4, <3>1, <3>2 DEF Sweep, mainVars, TypeOK, Deleting
  <2> QED
    BY <2>1, <2>2, <2>3, <2>4 DEF GameMoves
<1>2. Lists'
  BY <1>1, ListsKept
<1>3. TypeOK' /\ Control' /\ PointsTo' /\ Filling' /\ Compared'
  BY <1>1 DEF TypeOK, Control, PointsTo, Filling, Compared, Absent
<1>4. LobbyNeverLeftLocked'
  BY <1>1 DEF LobbyNeverLeftLocked, LeftLocked
<1> QED
  BY <1>2, <1>3, <1>4

-----------------------------------------------------------------------------
(* Steps that change a room.                                               *)

\* Nothing of the list depends on more than the rooms' ids and lives.
LEMMA ListsOfSame ==
  ASSUME Lists, Room_List' = Room_List,
         \A a \in Addr : heap'[a].live = heap[a].live /\ heap'[a].room_id = heap[a].room_id
  PROVE  Lists' /\ \A id : Absent(id) => Absent(id)'
BY DEF Lists, Absent

\* A room whose mutex changes.
SameButLock(n, r) ==
  /\ n.live = r.live /\ n.room_id = r.room_id /\ n.ready = r.ready
  /\ n.game_state = r.game_state /\ n.session = r.session
LEMMA LockedFacts ==
  ASSUME NEW r \in NodeRoom, NEW b \in BOOLEAN
  PROVE  LET n == [r EXCEPT !.locked = b] IN
           n \in NodeRoom /\ SameButLock(n, r) /\ (n.locked <=> b)
BY DEF NodeRoom, SameButLock

LEMMA LockStep == IInv /\ (Lock \/ Unlock) => IInv'
<1> SUFFICES ASSUME IInv, Lock \/ Unlock PROVE IInv'
  OBVIOUS
<1> USE DEF IInv
<1>1. /\ UNCHANGED <<Room_List, list_mutex, state, issued, gpc, it>>
      /\ room \in Addr
      /\ \/ /\ pc = "lock" /\ pc' = "body" /\ UNCHANGED <<req, room>>
            /\ heap' = [heap EXCEPT ![room].locked = TRUE]
         \/ /\ pc = "unlock" /\ Reply
            /\ heap' = [heap EXCEPT ![room].locked = FALSE]
  BY DEF Lock, Unlock, gameVars, Control
<1>2. heap \in [Addr -> NodeRoom] /\ heap[room] \in NodeRoom
  BY <1>1 DEF TypeOK
<1>3. PICK n \in NodeRoom :
        /\ heap' = [heap EXCEPT ![room] = n] /\ SameButLock(n, heap[room])
        /\ pc = "unlock" => ~n.locked
  <2>1. CASE pc = "lock"
    BY <1>1, <1>2, <2>1, LockedFacts
  <2>2. CASE pc = "unlock"
    BY <1>1, <1>2, <2>2, LockedFacts
  <2> QED
    BY <1>1, <2>1, <2>2
<1>4. /\ heap' \in [Addr -> NodeRoom]
      /\ heap'[room] = n /\ \A a \in Addr \ {room} : heap'[a] = heap[a]
  BY <1>1, <1>2, <1>3
<1>5. \A a \in Addr : SameButLock(heap'[a], heap[a])
  BY <1>3, <1>4 DEF SameButLock
<1>6. Lists'
  BY <1>1, <1>5, ListsOfSame DEF SameButLock
<1>7. TypeOK'
  BY <1>1, <1>4 DEF TypeOK, Reply
<1>8. Control' /\ PointsTo' /\ Filling' /\ Compared'
  BY <1>1, <1>5 DEF Control, PointsTo, Filling, Compared, Reply, SameButLock
<1>9. LobbyNeverLeftLocked'
  BY <1>1, <1>3, <1>4, <1>5 DEF LobbyNeverLeftLocked, LeftLocked, Reply, SameButLock
<1> QED
  BY <1>6, <1>7, <1>8, <1>9

\* A room that a handler works on.
SameRoom(n, r) == n.live = r.live /\ n.room_id = r.room_id
LEMMA TakenFacts ==
  ASSUME NEW r \in NodeRoom, NEW p \in Pids, NEW s \in 0 .. MaxSession
  PROVE  /\ Taken(r, p, s) \in NodeRoom /\ SameRoom(Taken(r, p, s), r)
         /\ Taken(r, p, s).ready = r.ready /\ Taken(r, p, s).game_state = r.game_state
BY DEF Taken, NodeRoom, SameRoom

LEMMA FilledFacts ==
  ASSUME NEW r \in NodeRoom
  PROVE  /\ Filled(r) \in NodeRoom /\ SameRoom(Filled(r), r)
         /\ Filled(r).ready /\ Filled(r).game_state = GAME_STATE_WAIT
<1> DEFINE w == [r EXCEPT !.game_state = GAME_STATE_WAIT]
<1>1. w \in NodeRoom /\ SameRoom(w, r) /\ w.game_state = GAME_STATE_WAIT
  BY DEF NodeRoom, SameRoom, GameStates
<1>2. Filled(r) = [w EXCEPT !.ready = TRUE]
  BY DEF Filled
<1> HIDE DEF w
<1> QED
  BY <1>1, <1>2 DEF NodeRoom, SameRoom

LEMMA BegunFacts ==
  ASSUME NEW r \in NodeRoom
  PROVE  LET n == [r EXCEPT !.game_state = GAME_STATE_INGAME] IN
           /\ n \in NodeRoom /\ SameRoom(n, r)
           /\ n.ready = r.ready /\ n.game_state = GAME_STATE_INGAME
BY DEF NodeRoom, SameRoom, GameStates

\* A handler's work on its room, filled in the end.
LEMMA Worked ==
  ASSUME IInv, pc = "body", pc' = "unlock",
         UNCHANGED <<Room_List, list_mutex, req, room, gpc, it>>,
         NEW n \in NodeRoom, heap' = [heap EXCEPT ![room] = n],
         SameRoom(n, heap[room]),
         n.live => n.ready /\ n.game_state \in GameStates,
         state' \in 0 .. MaxSession, issued' \subseteq Ticket
  PROVE  IInv'
<1> USE DEF IInv
<1>1. heap \in [Addr -> NodeRoom] /\ room \in Addr
  BY DEF TypeOK, Control
<1>2. /\ heap' \in [Addr -> NodeRoom]
      /\ heap'[room] = n /\ \A a \in Addr \ {room} : heap'[a] = heap[a]
  BY <1>1
<1>3. \A a \in Addr : SameRoom(heap'[a], heap[a])
  BY <1>1, <1>2 DEF SameRoom
<1>4. Lists'
  BY <1>3, ListsOfSame DEF SameRoom
<1>5. TypeOK'
  BY <1>2 DEF TypeOK
<1>6. Control' /\ PointsTo' /\ Compared'
  BY <1>1, <1>3 DEF Control, PointsTo, Compared, SameRoom
<1>7. Filling'
  BY <1>2 DEF Filling
<1>8. LobbyNeverLeftLocked'
  BY <1>2 DEF LobbyNeverLeftLocked, LeftLocked
<1> QED
  BY <1>4, <1>5, <1>6, <1>7, <1>8

LEMMA BodyStep == IInv /\ Body => IInv'
<1> SUFFICES ASSUME IInv, Body PROVE IInv'
  OBVIOUS
<1>1. /\ pc = "body" /\ pc' = "unlock"
      /\ UNCHANGED <<Room_List, list_mutex, req, room, gpc, it>>
  BY DEF Body, gameVars
<1>2. /\ heap \in [Addr -> NodeRoom] /\ room \in Addr /\ heap[room] \in NodeRoom
      /\ req \in Request /\ state \in 0 .. MaxSession /\ issued \subseteq Ticket
      /\ MaxSession \in Nat
      /\ req.op \in NewComers => state < MaxSession
  BY <1>1, ServerAssumption DEF IInv, TypeOK, Control
<1>3. /\ req.op \in NewComers \cup Verified /\ req.ticket.room \in RoomIds
      /\ req.ticket.pid \in Pids
  BY <1>2, RequestFacts
<1>4. heap[room].live /\ req.op # "register" =>
        heap[room].ready /\ heap[room].game_state \in GameStates
  BY <1>2 DEF IInv, Filling
<1>5. heap[room] = heap[room] /\ heap = [heap EXCEPT ![room] = heap[room]]
  BY <1>2
<1>6. ASSUME NEW p \in Pids, req.op \in NewComers
      PROVE  state + 1 \in 0 .. MaxSession /\
             [room |-> req.ticket.room, pid |-> p, session |-> state + 1] \in Ticket
  BY <1>2, <1>3, <1>6 DEF Ticket
<1>7. CASE Register_Room
  <2> DEFINE n == Taken(Filled(heap[room]), 0, state + 1)
  <2>1. 0 \in Pids /\ req.op \in NewComers
    BY <1>7, ServerAssumption DEF Pids, Register_Room, NewComers
  <2>2. /\ n \in NodeRoom /\ SameRoom(n, heap[room])
        /\ n.ready /\ n.game_state \in GameStates
    BY <1>2, <1>6, <2>1, FilledFacts, TakenFacts DEF SameRoom, GameStates
  <2>3. /\ heap' = [heap EXCEPT ![room] = n]
        /\ state' \in 0 .. MaxSession /\ issued' \subseteq Ticket
    BY <1>2, <1>6, <1>7, <2>1 DEF Register_Room, Seat
  <2> QED
    BY <1>1, <2>2, <2>3, Worked
<1>8. CASE /\ req.op = "join"
           /\ \E p \in FreeSlots : (\A q \in FreeSlots : p <= q) /\ Seat(p, heap[room])
  <2>1. PICK p \in FreeSlots : Seat(p, heap[room])
    BY <1>8
  <2> DEFINE n == Taken(heap[room], p, state + 1)
  <2>2. p \in Pids /\ req.op \in NewComers
    BY <1>8 DEF FreeSlots, NewComers
  <2>3. /\ n \in NodeRoom /\ SameRoom(n, heap[room])
        /\ n.ready = heap[room].ready /\ n.game_state = heap[room].game_state
    BY <1>2, <1>6, <2>2, TakenFacts
  <2>4. n.live => n.ready /\ n.game_state \in GameStates
    BY <1>4, <1>8, <2>3 DEF SameRoom
  <2>5. /\ heap' = [heap EXCEPT ![room] = n]
        /\ state' \in 0 .. MaxSession /\ issued' \subseteq Ticket
    BY <1>2, <1>6, <2>1, <2>2 DEF Seat
  <2> QED
    BY <1>1, <2>3, <2>4, <2>5, Worked
<1>9. CASE Start_Game
  <2> DEFINE n == [heap[room] EXCEPT !.game_state = GAME_STATE_INGAME]
  <2>1. /\ n \in NodeRoom /\ SameRoom(n, heap[room])
        /\ n.ready = heap[room].ready /\ n.game_state = GAME_STATE_INGAME
    BY <1>2, BegunFacts
  <2>2. n.live => n.ready /\ n.game_state \in GameStates
    BY <1>4, <1>9, <2>1 DEF SameRoom, Start_Game, GameStates
  <2>3. heap' = [heap EXCEPT ![room] = n] /\ UNCHANGED <<state, issued>>
    BY <1>2, <1>9 DEF Start_Game
  <2> QED
    BY <1>1, <1>2, <2>1, <2>2, <2>3, Worked
<1>10. CASE Quit_Game /\ heap[room].game_state = GAME_STATE_WAIT
  <2> DEFINE n == Taken(heap[room], req.ticket.pid, 0)
  <2>1. /\ n \in NodeRoom /\ SameRoom(n, heap[room])
        /\ n.ready = heap[room].ready /\ n.game_state = heap[room].game_state
    BY <1>2, <1>3, TakenFacts
  <2>2. n.live => n.ready /\ n.game_state \in GameStates
    BY <1>4, <1>10, <2>1 DEF SameRoom, Quit_Game
  <2>3. heap' = [heap EXCEPT ![room] = n] /\ UNCHANGED <<state, issued>>
    BY <1>2, <1>10 DEF Quit_Game
  <2> QED
    BY <1>1, <1>2, <2>1, <2>2, <2>3, Worked
<1>11. CASE req.op # "register" /\ UNCHANGED <<heap, state, issued>>
  BY <1>1, <1>2, <1>4, <1>5, <1>11, Worked DEF SameRoom
<1> QED
  BY <1>7, <1>8, <1>9, <1>10, <1>11
     DEF Body, Join_Room, Quit_Game, Room_Info

\* A new room gets a free block, and its id was absent.
LEMMA addRoomStep == IInv /\ addRoom => IInv'
<1> SUFFICES ASSUME IInv, addRoom PROVE IInv'
  OBVIOUS
<1>1. PICK a \in Addr, garbage \in Garbage :
        /\ ~heap[a].live
        /\ heap' = [heap EXCEPT ![a] = NewRoom(req.ticket.room, garbage)]
        /\ Room_List' = Append(Room_List, a)
        /\ room' = a
  BY DEF addRoom
<1>2. /\ pc = "add" /\ pc' = "lock" /\ req.op = "register"
      /\ UNCHANGED <<list_mutex, req, state, issued, gpc, it>>
      /\ heap \in [Addr -> NodeRoom] /\ Room_List \in Seq(Addr) /\ it \in 1 .. Len(Room_List) + 1
      /\ req \in Request /\ Absent(req.ticket.room)
      /\ gpc = "delete" => it <= Len(Room_List)
      /\ state < MaxSession
  BY DEF addRoom, gameVars, IInv, TypeOK, Control, NewComers
<1> DEFINE n == NewRoom(req.ticket.room, garbage)
<1>3. /\ n \in NodeRoom /\ n.live /\ ~n.ready /\ ~n.locked
      /\ n.room_id = req.ticket.room
  <2>1. req.ticket.room \in RoomIds /\ garbage \in GameStates \cup {JUNK}
    BY <1>2, RequestFacts, ServerAssumption
  <2> QED
    BY <2>1, ServerAssumption DEF NewRoom, NodeRoom, MaxAge
<1> HIDE DEF n
<1>4. /\ heap' \in [Addr -> NodeRoom]
      /\ heap'[a] = n /\ \A b \in Addr \ {a} : heap'[b] = heap[b]
  BY <1>1, <1>2, <1>3 DEF n
<1>5. /\ Room_List' \in Seq(Addr) /\ Len(Room_List') = Len(Room_List) + 1
      /\ DOMAIN Room_List = 1 .. Len(Room_List)
      /\ DOMAIN Room_List' = 1 .. Len(Room_List) + 1
      /\ \A i \in 1 .. Len(Room_List) : Room_List'[i] = Room_List[i]
      /\ Room_List'[Len(Room_List) + 1] = a /\ Len(Room_List) \in Nat
  BY <1>1, <1>2
<1>6. Lists'
  <2>1. \A i \in DOMAIN Room_List : Room_List[i] # a
    BY <1>1 DEF IInv, Lists
  <2>2. \A i, j \in DOMAIN Room_List' : Room_List'[i] = Room_List'[j] => i = j
    BY <1>5, <2>1 DEF IInv, Lists
  <2>3. \A b \in Addr : heap'[b].live <=> \E i \in DOMAIN Room_List' : Room_List'[i] = b
    <3> TAKE b \in Addr
    <3>1. CASE b = a
      BY <1>3, <1>4, <1>5, <3>1
    <3>2. CASE b # a
      BY <1>4, <1>5, <3>2 DEF IInv, Lists
    <3> QED
      BY <3>1, <3>2
  <2>4. \A b, c \in Addr :
          heap'[b].live /\ heap'[c].live /\ heap'[b].room_id = heap'[c].room_id => b = c
    BY <1>2, <1>3, <1>4 DEF IInv, Lists, Absent
  <2> QED
    BY <2>2, <2>3, <2>4 DEF Lists
<1>7. TypeOK'
  BY <1>1, <1>2, <1>4, <1>5 DEF TypeOK, IInv
<1>8. Control' /\ PointsTo' /\ Compared'
  BY <1>1, <1>2, <1>3, <1>4, <1>5 DEF Control, PointsTo, Compared, NewComers, Verified
<1>9. Filling'
  BY <1>1, <1>2, <1>3, <1>4 DEF Filling, IInv
<1>10. LobbyNeverLeftLocked'
  BY <1>2, <1>3, <1>4 DEF IInv, LobbyNeverLeftLocked, LeftLocked
<1> QED
  BY <1>6, <1>7, <1>8, <1>9, <1>10 DEF IInv

-----------------------------------------------------------------------------
(* Steps of the game thread and of the clock that change a room.           *)

LEMMA EndedFacts ==
  ASSUME NEW r \in NodeRoom
  PROVE  /\ Ended(r) \in NodeRoom /\ Ended(r).live = r.live
         /\ Ended(r).room_id = r.room_id /\ Ended(r).ready = r.ready
         /\ Ended(r).session = r.session /\ Ended(r).game_state = GAME_STATE_END
<1> DEFINE e == [r EXCEPT !.game_state = GAME_STATE_END]
<1>1. /\ e \in NodeRoom /\ e.live = r.live /\ e.room_id = r.room_id
      /\ e.ready = r.ready /\ e.session = r.session /\ e.game_state = GAME_STATE_END
  BY DEF NodeRoom, GameStates
<1>2. Ended(r) = [e EXCEPT !.age = 0] /\ 0 \in 0 .. MaxAge
  BY ServerAssumption DEF Ended, MaxAge
<1> HIDE DEF e
<1> QED
  BY <1>1, <1>2 DEF NodeRoom

\* A round that ends the game of a room, which is filled or about to be.
LEMMA PlayEndsStep == IInv /\ (Play \/ RoundUnready) /\ ~UNCHANGED heap => IInv'
<1> SUFFICES ASSUME IInv, Play \/ RoundUnready, ~UNCHANGED heap PROVE IInv'
  OBVIOUS
<1> DEFINE a == Room_List[it]
           n == Ended(heap[a])
<1>1. /\ UNCHANGED <<Room_List, list_mutex, pc, req, room, state, issued>>
      /\ gpc' = "play" /\ it \in 1 .. Len(Room_List) /\ it' = it + 1
      /\ heap' = [heap EXCEPT ![a] = n] /\ a \in Addr
      /\ heap \in [Addr -> NodeRoom] /\ heap[a] \in NodeRoom
  BY DEF Play, RoundUnready, Played, mainVars, IInv, TypeOK, Control
<1>2. /\ n \in NodeRoom /\ n.live = heap[a].live /\ n.room_id = heap[a].room_id
      /\ n.ready = heap[a].ready /\ n.session = heap[a].session
      /\ n.game_state = GAME_STATE_END
  BY <1>1, EndedFacts
<1> HIDE DEF n, a
<1>3. /\ heap' \in [Addr -> NodeRoom]
      /\ heap'[a] = n /\ \A b \in Addr \ {a} : heap'[b] = heap[b]
  BY <1>1, <1>2
<1>4. \A b \in Addr :
        /\ heap'[b].live = heap[b].live /\ heap'[b].room_id = heap[b].room_id
        /\ heap'[b].ready = heap[b].ready /\ heap'[b].session = heap[b].session
        /\ heap'[b].game_state \in {heap[b].game_state, GAME_STATE_END}
  BY <1>2, <1>3
<1>5. Lists' /\ \A id : Absent(id) => Absent(id)'
  BY <1>1, <1>4, ListsOfSame DEF IInv
<1>6. TypeOK'
  BY <1>1, <1>3 DEF TypeOK, IInv
<1>7. Control' /\ PointsTo' /\ Compared'
  <2>1. Control'
    BY <1>1, <1>4 DEF Control, IInv, Absent, Deleting
  <2>2. room \in Addr \cup {NULL}
    BY DEF IInv, TypeOK
  <2>3. PointsTo'
    BY <1>1, <1>4, <2>2 DEF PointsTo, IInv
  <2>4. Compared'
    BY <1>1, <1>4 DEF Compared, Control, IInv
  <2> QED
    BY <2>1, <2>3, <2>4
<1>8. Filling'
  BY <1>1, <1>4 DEF Filling, IInv, GameStates
<1>9. LobbyNeverLeftLocked'
  BY <1>1, <1>2, <1>3 DEF IInv, LobbyNeverLeftLocked, LeftLocked
<1> QED
  BY <1>5, <1>6, <1>7, <1>8, <1>9 DEF IInv

LEMMA OlderFacts ==
  ASSUME NEW r \in NodeRoom
  PROVE  LET o == Older(r) IN
           /\ o \in NodeRoom /\ o.live = r.live /\ o.room_id = r.room_id
           /\ o.ready = r.ready /\ o.session = r.session
           /\ o.game_state = r.game_state /\ o.locked = r.locked
<1>1. r.age \in 0 .. MaxAge /\ MaxAge \in Nat
  BY ServerAssumption DEF NodeRoom, MaxAge
<1>2. CASE r.live /\ r.age < MaxAge
  <2>1. Older(r) = [r EXCEPT !.age = r.age + 1] /\ r.age + 1 \in 0 .. MaxAge
    BY <1>1, <1>2 DEF Older, NodeRoom
  <2> QED
    BY <2>1 DEF NodeRoom
<1>3. CASE ~(r.live /\ r.age < MaxAge)
  BY <1>3 DEF Older
<1> QED
  BY <1>2, <1>3

LEMMA TickStep == IInv /\ Tick => IInv'
<1> SUFFICES ASSUME IInv, Tick PROVE IInv'
  OBVIOUS
<1>1. /\ UNCHANGED <<Room_List, list_mutex, pc, req, room, state, issued, gpc, it>>
      /\ heap' = [a \in Addr |-> Older(heap[a])]
      /\ heap \in [Addr -> NodeRoom]
  BY DEF Tick, mainVars, gameVars, IInv, TypeOK
<1>2. \A a \in Addr : heap[a] \in NodeRoom /\ heap'[a] = Older(heap[a])
  BY <1>1
<1>3. \A a \in Addr :
        /\ heap'[a] \in NodeRoom
        /\ heap'[a].live = heap[a].live /\ heap'[a].room_id = heap[a].room_id
        /\ heap'[a].ready = heap[a].ready /\ heap'[a].session = heap[a].session
        /\ heap'[a].game_state = heap[a].game_state /\ heap'[a].locked = heap[a].locked
  BY <1>2, OlderFacts
<1>4. Lists' /\ \A id : Absent(id) => Absent(id)'
  BY <1>1, <1>3, ListsOfSame DEF IInv
<1>5. heap' \in [Addr -> NodeRoom]
  BY <1>1, <1>3
<1>6. TypeOK'
  BY <1>1, <1>5 DEF TypeOK, IInv
<1>7. Control' /\ PointsTo' /\ Compared'
  <2>1. Control'
    BY <1>1, <1>3 DEF Control, IInv, Absent
  <2>2. room \in Addr \cup {NULL}
    BY DEF IInv, TypeOK
  <2>3. PointsTo'
    BY <1>1, <1>3, <2>2 DEF PointsTo, IInv
  <2>4. Compared'
    BY <1>1, <1>3 DEF Compared, Control, IInv
  <2> QED
    BY <2>1, <2>3, <2>4
<1>8. Filling'
  BY <1>1, <1>3 DEF Filling, IInv
<1>9. LobbyNeverLeftLocked'
  BY <1>1, <1>3 DEF IInv, LobbyNeverLeftLocked, LeftLocked
<1> QED
  BY <1>4, <1>6, <1>7, <1>8, <1>9 DEF IInv

\* delended takes out of the list exactly the block that it frees, and moves
\* on to another one of the list, or to its end.
LEMMA DeleteStep == IInv /\ Delete => IInv'
<1> SUFFICES ASSUME IInv, Delete PROVE IInv'
  OBVIOUS
<1> DEFINE a == Room_List[it]
           n == IF room = a THEN [heap[a] EXCEPT !.live = FALSE] ELSE Unused
<1>1. /\ UNCHANGED <<list_mutex, pc, req, room, state, issued>>
      /\ gpc' = "sweep" /\ it \in 1 .. Len(Room_List)
      /\ heap' = [heap EXCEPT ![a] = n] /\ a \in Addr
      /\ heap \in [Addr -> NodeRoom] /\ heap[a] \in NodeRoom
      /\ Room_List \in Seq(Addr) /\ Len(Room_List) \in Nat
      /\ Room_List' = RemoveAt(Room_List, it)
      /\ it' = IF it < Len(Room_List) THEN it + 1 ELSE 1
  <2>1. it \in 1 .. Len(Room_List) /\ Room_List \in Seq(Addr) /\ heap \in [Addr -> NodeRoom]
    BY DEF Delete, IInv, TypeOK, Control
  <2> QED
    BY <2>1 DEF Delete, mainVars, Erased, Onward, begin
<1>2. /\ n \in NodeRoom /\ ~n.live
      /\ room = a => n.room_id = heap[a].room_id /\ n.session = heap[a].session
  <2>1. CASE room = a
    BY <1>1, <2>1 DEF NodeRoom
  <2>2. CASE room # a
    BY <2>2, ServerAssumption DEF NodeRoom, Unused, MaxAge
  <2> QED
    BY <2>1, <2>2
<1>3. /\ Room_List' \in Seq(Addr) /\ Len(Room_List') = Len(Room_List) - 1
      /\ DOMAIN Room_List = 1 .. Len(Room_List)
      /\ DOMAIN Room_List' = 1 .. Len(Room_List) - 1
      /\ \A j \in 1 .. Len(Room_List) - 1 :
           Room_List'[j] = IF j < it THEN Room_List[j] ELSE Room_List[j + 1]
  BY <1>1, RemoveAtFacts
<1>4. /\ heap' \in [Addr -> NodeRoom]
      /\ heap'[a] = n /\ \A b \in Addr \ {a} : heap'[b] = heap[b]
  BY <1>1, <1>2
<1> HIDE DEF n
<1>5. \A i, j \in 1 .. Len(Room_List) : Room_List[i] = Room_List[j] => i = j
  BY <1>3 DEF IInv, Lists
<1>6. Lists'
  <2>1. \A i, j \in DOMAIN Room_List' : Room_List'[i] = Room_List'[j] => i = j
    <3> TAKE i, j \in DOMAIN Room_List'
    <3> DEFINE old(k) == IF k < it THEN k ELSE k + 1
    <3>1. /\ old(i) \in 1 .. Len(Room_List) /\ Room_List'[i] = Room_List[old(i)]
          /\ old(j) \in 1 .. Len(Room_List) /\ Room_List'[j] = Room_List[old(j)]
          /\ old(i) = old(j) => i = j
      BY <1>1, <1>3
    <3> QED
      BY <3>1, <1>5
  <2>2. \A b \in Addr : heap'[b].live <=> \E i \in DOMAIN Room_List' : Room_List'[i] = b
    <3> TAKE b \in Addr
    <3>1. CASE b = a
      <4>1. \A j \in DOMAIN Room_List' : Room_List'[j] # a
        <5> TAKE j \in DOMAIN Room_List'
        <5> DEFINE o == IF j < it THEN j ELSE j + 1
        <5>1. o \in 1 .. Len(Room_List) /\ o # it /\ Room_List'[j] = Room_List[o]
          BY <1>1, <1>3
        <5> QED
          BY <5>1, <1>1, <1>5
      <4> QED
        BY <1>2, <1>4, <3>1, <4>1
    <3>2. CASE b # a
      <4>1. heap'[b].live <=> \E i \in 1 .. Len(Room_List) : Room_List[i] = b
        BY <1>3, <1>4, <3>2 DEF IInv, Lists
      <4>2. ASSUME NEW i \in 1 .. Len(Room_List), Room_List[i] = b
            PROVE  \E j \in DOMAIN Room_List' : Room_List'[j] = b
        <5> DEFINE j == IF i < it THEN i ELSE i - 1
        <5>1. i # it
          BY <3>2, <4>2
        <5>2. j \in DOMAIN Room_List' /\ Room_List'[j] = Room_List[i]
          BY <1>1, <1>3, <5>1
        <5> QED
          BY <5>2, <4>2
      <4>3. ASSUME NEW j \in DOMAIN Room_List', Room_List'[j] = b
            PROVE  \E i \in 1 .. Len(Room_List) : Room_List[i] = b
        BY <1>1, <1>3, <4>3
      <4> QED
        BY <4>1, <4>2, <4>3
    <3> QED
      BY <3>1, <3>2
  <2>3. \A b, c \in Addr :
          heap'[b].live /\ heap'[c].live /\ heap'[b].room_id = heap'[c].room_id => b = c
    BY <1>2, <1>4 DEF IInv, Lists
  <2> QED
    BY <2>1, <2>2, <2>3 DEF Lists
<1>7. TypeOK'
  <2>1. it' \in 1 .. Len(Room_List') + 1
    BY <1>1, <1>3
  <2> QED
    BY <1>1, <1>3, <1>4, <2>1 DEF TypeOK, IInv
<1>8. \A id : Absent(id) => Absent(id)'
  BY <1>2, <1>4 DEF Absent
<1>9. Control'
  BY <1>1, <1>8 DEF Control, IInv, Absent, Deleting
<1>10. PointsTo' /\ Compared'
  <2>1. room \in Addr => heap'[room].room_id = heap[room].room_id
                         /\ heap'[room].session = heap[room].session
    BY <1>2, <1>4
  <2> QED
    BY <1>1, <2>1 DEF IInv, TypeOK, Control, PointsTo, Compared
<1>11. Filling'
  BY <1>1, <1>2, <1>4 DEF Filling, IInv
<1>12. LobbyNeverLeftLocked'
  BY <1>1, <1>2, <1>4 DEF IInv, LobbyNeverLeftLocked, LeftLocked
<1> QED
  BY <1>6, <1>7, <1>9, <1>10, <1>11, <1>12 DEF IInv

-----------------------------------------------------------------------------
(* The theorems.                                                           *)

LEMMA NextIInv == IInv /\ [Next]_vars => IInv'
<1> SUFFICES ASSUME IInv, [Next]_vars PROVE IInv'
  OBVIOUS
<1>1. CASE Recv \/ Handler
  <2>1. Fault => IInv'
    BY DownStep DEF Falls
  <2> QED
    BY <1>1, <2>1, RecvStep, LookupStep, addRoomStep, PeekStep, VerifyLookupStep,
       VerifyCheckStep, LockStep, BlockStep, BodyStep, StartRefusedStep DEF Handler
<1>2. CASE GameThread
  <2>1. RoundUnready => UNCHANGED heap \/ pc' = pc
    BY DEF RoundUnready
  <2> QED
    BY <1>2, <2>1, GameMovesStep, PlayEndsStep, DownStep, DeleteStep
       DEF GameThread, GameMoves, Falls
<1>3. CASE Tick
  BY <1>3, TickStep
<1>4. CASE UNCHANGED vars
  <2>1. UNCHANGED <<Room_List, heap, list_mutex, pc, req, room, state, issued, gpc, it>>
    BY <1>4 DEF vars, mainVars, gameVars
  <2>2. Lists'
    BY <2>1, ListsKept DEF IInv
  <2>3. TypeOK' /\ Control' /\ PointsTo' /\ Filling' /\ Compared'
    BY <2>1 DEF IInv, TypeOK, Control, PointsTo, Filling, Compared, Absent
  <2>4. LobbyNeverLeftLocked'
    BY <2>1 DEF IInv, LobbyNeverLeftLocked, LeftLocked
  <2> QED
    BY <2>2, <2>3, <2>4 DEF IInv
<1> QED
  BY <1>1, <1>2, <1>3, <1>4 DEF Next

LEMMA AlwaysIInv == Spec => []IInv
BY InitIInv, NextIInv, PTL DEF Spec

\* The types; the iterator of the game thread stays on the list or at its
\* end, also after an erase.
THEOREM ServerTypes == Spec => []TypeOK
BY AlwaysIInv, IInvImplies, PTL

\* Two critical sections of Register_Room never make a second room of an id.
THEOREM IdsAreUnique == Spec => []UniqueIds
BY AlwaysIInv, IInvImplies, PTL

\* addRoom and delended keep list and heap in agreement.
THEOREM ListIsExact == Spec => []ListExact
BY AlwaysIInv, IInvImplies, PTL

\* What verifySession compared before the lock still holds behind it.
THEOREM OwnersAct == Spec => []SeatOwner
BY AlwaysIInv, IInvImplies, PTL

\* Only started rooms are ever left locked.
THEOREM LobbiesAreUnlocked == Spec => []LobbyNeverLeftLocked
BY AlwaysIInv, IInvImplies, PTL

-----------------------------------------------------------------------------
(* Linger times: the room that delended has judged expired, and that was   *)
(* filled then, is still expired when it is deleted, whatever the memory   *)
(* of a new room says.                                                     *)

Limit(r) == IF r.game_state = GAME_STATE_END THEN LingerEnd ELSE LingerWait
Judged ==
  /\ gpc = "delete" => /\ heap[Room_List[it]].ready
                       /\ heap[Room_List[it]].age > Limit(heap[Room_List[it]])
  /\ pc \in {"lock", "body"} /\ req.op = "register" => ~heap[room].ready

\* No handler makes an expired room younger, ends it or revives it.
SameAge(n, r) ==
  /\ n.age = r.age
  /\ n.game_state = GAME_STATE_END <=> r.game_state = GAME_STATE_END
LEMMA AgesKept ==
  ASSUME IInv, Judged, Body \/ Lock \/ Unlock
  PROVE  Judged'
<1>1. /\ UNCHANGED <<Room_List, gpc, it>>
      /\ heap \in [Addr -> NodeRoom] /\ room \in Addr /\ heap[room] \in NodeRoom
      /\ gpc = "delete" => Room_List[it] \in Addr
  <2>1. UNCHANGED <<Room_List, gpc, it>> /\ pc \in {"lock", "body", "unlock"}
    BY DEF Body, Lock, Unlock, gameVars
  <2>2. gpc = "delete" => it \in 1 .. Len(Room_List)
    BY DEF IInv, TypeOK, Control, Deleting
  <2> QED
    BY <2>1, <2>2 DEF IInv, TypeOK, Control
<1>2. ASSUME NEW n, heap' = [heap EXCEPT ![room] = n],
             heap[room].ready => n.ready /\ SameAge(n, heap[room]),
             pc' \in {"lock", "body"} =>
               pc = "lock" /\ UNCHANGED <<req, room>> /\ (n.ready <=> heap[room].ready)
      PROVE  Judged'
  <2>1. heap'[room] = n /\ \A a \in Addr \ {room} : heap'[a] = heap[a]
    BY <1>1, <1>2
  <2>2. ASSUME gpc = "delete"
        PROVE  /\ heap'[Room_List[it]].ready
               /\ heap'[Room_List[it]].age > Limit(heap'[Room_List[it]])
    BY <1>1, <1>2, <2>1, <2>2 DEF Judged, Limit, SameAge
  <2>3. pc' \in {"lock", "body"} /\ req'.op = "register" => ~heap'[room'].ready
    BY <1>2, <2>1 DEF Judged
  <2> QED
    BY <1>1, <2>2, <2>3 DEF Judged
<1>3. CASE Lock \/ Unlock
  <2>1. PICK b \in BOOLEAN : heap' = [heap EXCEPT ![room] = [heap[room] EXCEPT !.locked = b]]
    BY <1>1, <1>3 DEF Lock, Unlock
  <2> DEFINE n == [heap[room] EXCEPT !.locked = b]
  <2>2. SameAge(n, heap[room]) /\ n.ready = heap[room].ready
    BY <1>1 DEF NodeRoom, SameAge
  <2> HIDE DEF n
  <2> QED
    BY <1>2, <1>3, <2>1, <2>2 DEF n, Lock, Unlock, Reply
<1>4. CASE Body
  <2>1. pc = "body" /\ pc' = "unlock"
    BY <1>4 DEF Body
  <2>2. CASE Register_Room
    <3>1. ~heap[room].ready /\ \E n : heap' = [heap EXCEPT ![room] = n]
      BY <2>1, <2>2 DEF Judged, Register_Room, Seat
    <3> QED
      BY <2>1, <3>1, <1>2
  <2>3. ASSUME NEW p \in Pids, NEW q, heap' = [heap EXCEPT ![room] = Taken(heap[room], p, q)]
        PROVE  Judged'
    <3> DEFINE n == Taken(heap[room], p, q)
    <3>1. n.ready = heap[room].ready /\ SameAge(n, heap[room])
      BY <1>1 DEF Taken, NodeRoom, SameAge
    <3>2. heap' = [heap EXCEPT ![room] = n]
      BY <2>3
    <3> HIDE DEF n
    <3> QED
      BY <2>1, <3>1, <3>2, <1>2
  <2>4. CASE Start_Game
    <3> DEFINE n == [heap[room] EXCEPT !.game_state = GAME_STATE_INGAME]
    <3>1. n.ready = heap[room].ready /\ n.age = heap[room].age
          /\ n.game_state = GAME_STATE_INGAME
      BY <1>1 DEF NodeRoom
    <3>2. heap[room].game_state = GAME_STATE_WAIT /\ heap' = [heap EXCEPT ![room] = n]
      BY <1>1, <2>4 DEF Start_Game
    <3>3. SameAge(n, heap[room])
      BY <3>1, <3>2 DEF SameAge, GAME_STATE_WAIT, GAME_STATE_INGAME, GAME_STATE_END
    <3> HIDE DEF n
    <3> QED
      BY <2>1, <3>1, <3>2, <3>3, <1>2
  <2>5. CASE UNCHANGED heap
    BY <1>1, <2>1, <2>5 DEF Judged, Limit
  <2>6. req.ticket.pid \in Pids
    BY <2>1, RequestFacts DEF IInv, Control
  <2>7. CASE Join_Room
    BY <2>3, <2>5, <2>7 DEF Join_Room, Seat, FreeSlots
  <2>8. CASE Quit_Game
    BY <1>1, <2>3, <2>5, <2>6, <2>8 DEF Quit_Game
  <2> QED
    BY <1>4, <2>2, <2>4, <2>5, <2>7, <2>8 DEF Body, Room_Info
<1> QED
  BY <1>3, <1>4

LEMMA JudgedByMain ==
  ASSUME IInv, Judged, Recv \/ Handler
  PROVE  Judged'
<1>1. CASE Body \/ Lock \/ Unlock
  BY <1>1, AgesKept
<1>2. CASE addRoom
  <2>1. PICK a \in Addr, garbage \in Garbage :
          /\ ~heap[a].live
          /\ heap' = [heap EXCEPT ![a] = NewRoom(req.ticket.room, garbage)]
          /\ Room_List' = Append(Room_List, a)
          /\ room' = a
    BY <1>2 DEF addRoom
  <2> DEFINE n == NewRoom(req.ticket.room, garbage)
  <2>2. ~n.ready
    BY DEF NewRoom
  <2>3. heap'[a] = n /\ \A b \in Addr \ {a} : heap'[b] = heap[b]
    BY <2>1 DEF IInv, TypeOK
  <2>4. UNCHANGED <<gpc, it, req>> /\ Room_List \in Seq(Addr)
    BY <1>2 DEF addRoom, gameVars, IInv, TypeOK
  <2> HIDE DEF n
  <2>5. ASSUME gpc = "delete" PROVE heap'[Room_List'[it]] = heap[Room_List[it]]
    <3>1. /\ it \in 1 .. Len(Room_List) /\ Room_List[it] \in Addr
          /\ heap[Room_List[it]].live
      BY <2>5 DEF IInv, TypeOK, Control, Lists, Deleting
    <3>2. Room_List'[it] = Room_List[it]
      BY <2>1, <2>4, <3>1
    <3> QED
      BY <2>1, <2>3, <3>1, <3>2
  <2> QED
    BY <2>1, <2>2, <2>3, <2>4, <2>5 DEF Judged, Limit
<1>3. CASE Recv \/ Lookup \/ Peek \/ VerifyLookup \/ VerifyCheck
  <2>1. UNCHANGED <<heap, Room_List, gpc, it>>
    BY <1>3 DEF Recv, Lookup, Peek, VerifyLookup, VerifyCheck, gameVars
  <2>2. pc' \in {"lock", "body"} => req'.op # "register"
    BY <1>3 DEF Recv, Lookup, Peek, VerifyLookup, VerifyCheck, Reply, IInv, Control, Verified
  <2> QED
    BY <2>1, <2>2 DEF Judged, Limit
<1>4. CASE Block \/ StartRefused \/ Fault \/ Hang
  <2>1. UNCHANGED <<heap, Room_List, it>> /\ gpc' \in {gpc, "down"} /\ pc' \notin {"lock", "body"}
    BY <1>4 DEF Block, StartRefused, Fault, Hang, Reply, gameVars
  <2> QED
    BY <2>1 DEF Judged, Limit
<1> QED
  BY <1>1, <1>2, <1>3, <1>4 DEF Handler

\* What delended has compared when it decides to delete a filled room.
LEMMA JudgedBySweep ==
  ASSUME IInv, Judged, Sweep
  PROVE  Judged'
<1>1. /\ UNCHANGED <<heap, Room_List, pc, req, room>>
      /\ gpc' = "delete" =>
           Played.age > RoomLinger(Played.game_state) /\ Played.ready /\ it' = it
  BY DEF Sweep, mainVars, Judgement
<1>2. ASSUME gpc' = "delete" PROVE Played.age > Limit(Played)
  <2>1. /\ Room_List[it] \in Addr /\ Played \in NodeRoom /\ Played.live
    BY DEF Sweep, Played, IInv, TypeOK, Lists
  <2>2. Played.game_state \in GameStates
    BY <1>1, <1>2, <2>1 DEF IInv, Filling, Played
  <2>3. Played.age \in Nat
    BY <2>1, ServerAssumption DEF NodeRoom, MaxAge
  <2>4. \/ Played.game_state = GAME_STATE_WAIT /\ RoomLinger(Played.game_state) = LingerWait
        \/ Played.game_state = GAME_STATE_INGAME /\ RoomLinger(Played.game_state) = LingerIngame
        \/ Played.game_state = GAME_STATE_END /\ RoomLinger(Played.game_state) = LingerEnd
    BY <2>2 DEF GameStates, RoomLinger, GAME_STATE_WAIT, GAME_STATE_INGAME, GAME_STATE_END
  <2> QED
    BY <1>1, <1>2, <2>3, <2>4, ServerAssumption
       DEF Limit, GAME_STATE_WAIT, GAME_STATE_INGAME, GAME_STATE_END
<1> QED
  BY <1>1, <1>2 DEF Judged, Played, Limit

LEMMA NextJudged == IInv /\ Judged /\ [Next]_vars => Judged'
<1> SUFFICES ASSUME IInv, Judged, [Next]_vars PROVE Judged'
  OBVIOUS
<1>1. CASE Recv \/ Handler
  BY <1>1, JudgedByMain
<1>2. CASE Sweep
  BY <1>2, JudgedBySweep
<1>3. CASE \/ GameLock \/ PlayDone \/ SweepLock \/ SweepDone \/ PlayUnready
           \/ (Play \/ RoundUnready) /\ UNCHANGED heap
  <2>1. /\ UNCHANGED <<heap, Room_List, req, room>> /\ gpc' # "delete"
        /\ pc' \in {"lock", "body"} => pc = pc'
    BY <1>3 DEF GameLock, PlayDone, SweepLock, SweepDone, PlayUnready, Play, RoundUnready, mainVars
  <2> QED
    BY <2>1 DEF Judged
<1>4. CASE (Play \/ RoundUnready) /\ ~UNCHANGED heap
  <2> DEFINE a == Room_List[it]
             n == Ended(heap[a])
  <2>1. /\ UNCHANGED <<pc, req, room>> /\ gpc' = "play"
        /\ heap' = [heap EXCEPT ![a] = n] /\ a \in Addr
        /\ heap \in [Addr -> NodeRoom] /\ heap[a] \in NodeRoom
    BY <1>4 DEF Play, RoundUnready, Played, mainVars, IInv, TypeOK, Control
  <2>2. n.ready = heap[a].ready
    BY <2>1, EndedFacts
  <2> HIDE DEF n, a
  <2>3. heap'[a] = n /\ \A b \in Addr \ {a} : heap'[b] = heap[b]
    BY <2>1
  <2>4. pc \in {"lock", "body"} => room \in Addr
    BY DEF IInv, Control
  <2> QED
    BY <2>1, <2>2, <2>3, <2>4 DEF Judged
<1>5. CASE Delete
  <2> DEFINE a == Room_List[it]
             n == IF room = a THEN [heap[a] EXCEPT !.live = FALSE] ELSE Unused
  <2>1. /\ UNCHANGED <<pc, req, room>> /\ gpc' = "sweep" /\ heap' = [heap EXCEPT ![a] = n]
        /\ heap \in [Addr -> NodeRoom] /\ a \in Addr /\ heap[a] \in NodeRoom
    BY <1>5 DEF Delete, mainVars, IInv, TypeOK, Control
  <2>2. room = a => (n.ready <=> heap[a].ready)
    BY <2>1 DEF NodeRoom, Unused
  <2> HIDE DEF n
  <2>3. heap'[a] = n /\ \A b \in Addr \ {a} : heap'[b] = heap[b]
    BY <2>1
  <2>4. pc \in {"lock", "body"} => room \in Addr
    BY DEF IInv, Control
  <2> QED
    BY <2>1, <2>2, <2>3, <2>4 DEF Judged
<1>6. CASE Tick
  <2>1. \A a \in Addr : heap[a] \in NodeRoom /\ heap'[a] = Older(heap[a])
    BY <1>6 DEF Tick, IInv, TypeOK
  <2>2. \A a \in Addr : heap'[a].ready = heap[a].ready
    BY <2>1, OlderFacts
  <2>3. UNCHANGED <<pc, req, room, gpc>> /\ gpc # "delete"
    BY <1>6 DEF Tick, mainVars, gameVars, Deleting
  <2>4. pc \in {"lock", "body"} => room \in Addr
    BY DEF IInv, Control
  <2> QED
    BY <2>2, <2>3, <2>4 DEF Judged
<1>7. CASE UNCHANGED vars
  BY <1>7 DEF vars, mainVars, gameVars, Judged, Limit
<1> QED
  BY <1>1, <1>2, <1>3, <1>4, <1>5, <1>6, <1>7 DEF Next, GameThread

\* No step but the one of delended takes a room's life: the list, which is
\* exact before and after the step, loses a room in no other.
LEMMA OnlyDeleteFrees ==
  ASSUME IInv, [Next]_vars, NEW a \in Addr, heap[a].live, ~heap'[a].live
  PROVE  gpc \in Deleting /\ a = Room_List[it]
<1>1. /\ \E i \in DOMAIN Room_List : Room_List[i] = a
      /\ \A i \in DOMAIN Room_List' : Room_List'[i] # a
  <2>1. IInv'
    BY NextIInv
  <2> QED
    BY <2>1 DEF IInv, Lists
<1>2. CASE Room_List' = Room_List
  BY <1>1, <1>2
<1>3. CASE addRoom
  <2>1. PICK b \in Addr : Room_List' = Append(Room_List, b)
    BY <1>3 DEF addRoom
  <2>2. Room_List \in Seq(Addr)
    BY DEF IInv, TypeOK
  <2> QED
    BY <1>1, <2>1, <2>2
<1>4. CASE Delete
  <2>1. gpc \in Deleting /\ heap \in [Addr -> NodeRoom]
        /\ \E n : heap' = [heap EXCEPT ![Room_List[it]] = n]
    BY <1>4 DEF Delete, IInv, TypeOK
  <2> QED
    BY <2>1
<1> QED
  BY <1>2, <1>3, <1>4
     DEF Next, Handler, GameThread, vars, Recv, Lookup, Peek, VerifyLookup, VerifyCheck, Lock,
         Block, Body, StartRefused, Unlock, Fault, Hang, GameLock, Play, PlayUnready,
         RoundUnready, PlayDone, SweepLock, Sweep, SweepDone, Tick

\* Whatever a recycled block holds, delended deletes no lobby and no game
\* that was filled when it judged it before the linger time of a lobby is
\* over, and no ended room before its own, although the main thread may
\* change the room between the decision and the deletion.
THEOREM LingersLongEnough == Spec => NoEarlyDelete
<1> DEFINE Kept == \A a \in Addr :
             heap[a].live /\ ~heap'[a].live /\ heap[a].ready /\ gpc # "delete_raw" =>
               heap[a].age > (IF heap[a].game_state = GAME_STATE_END
                              THEN LingerEnd ELSE LingerWait)
<1>1. Init => IInv /\ Judged
  <2>1. Init => Judged
    BY DEF Init, Judged
  <2> QED
    BY <2>1, InitIInv
<1>2. IInv /\ Judged /\ [Next]_vars => IInv' /\ Judged' /\ [Kept]_heap
  <2> SUFFICES ASSUME IInv, Judged, [Next]_vars PROVE Kept
    BY NextIInv, NextJudged
  <2> QED
    BY OnlyDeleteFrees DEF Judged, Limit, Deleting
<1> HIDE DEF Kept
<1>3. Spec => [][Kept]_heap
  BY <1>1, <1>2, PTL DEF Spec
<1> QED
  BY <1>3 DEF NoEarlyDelete, Kept
=============================================================================
