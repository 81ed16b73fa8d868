----------------------------- MODULE RoomServer -----------------------------
(***************************************************************************)
(* The rooms of the server and the two threads that share them             *)
(* (server/game.cpp):                                                      *)
(*                                                                         *)
(*  - Room_List, a list of pointers, guarded by list_mutex;                *)
(*  - every room has a room_mutex, which only the handlers take;           *)
(*  - the main thread serves one request at a time.  A handler looks its   *)
(*    room up under list_mutex, releases it, verifies the session (a       *)
(*    second lookup), and only then takes room_mutex: between these steps  *)
(*    it holds nothing but a raw pointer;                                  *)
(*  - the game thread (GameHandler) holds list_mutex, never a room_mutex,  *)
(*    while it plays a round of every room and while delended deletes the  *)
(*    rooms that have outlived their linger time.                          *)
(*                                                                         *)
(* What next_round and the handlers do inside a room is GameRoom's matter: *)
(* here a round may end the game, and the requests that leave a room's     *)
(* seats and game_state alone are one operation, "info".                   *)
(***************************************************************************)
EXTENDS DataFormat, Sequences, FiniteSets, SequencesExt

CONSTANTS
  Addr,           \* bound: the heap blocks a Node_Room may get
  NULL,
  RoomIds,        \* the room ids the clients use
  Commands,       \* the commands the clients send, of NewComers and Verified
  PlayerNumber,   \* player_number of every room
  MaxSession,     \* bound: sessions getSessin hands out
  Garbage,        \* what game_state may hold before Register_Room sets it
  LingerEnd, LingerWait, LingerIngame  \* RoomLinger (20, 600 and 1800 s)

\* The commands, by what they do to the list, the seats and game_state;
\* "info" is Room_Info, Add_Action and Get_Player_Info.
NewComers == {"register", "join"}
Verified  == {"start", "info", "quit", "map"}

JUNK == 99     \* a game_state that is none of the three

ASSUME ServerAssumption ==
  /\ NULL \notin Addr
  /\ Commands \subseteq NewComers \cup Verified
  /\ PlayerNumber \in Nat \ {0}
  /\ MaxSession \in Nat
  /\ Garbage \subseteq GameStates \cup {JUNK}
  /\ LingerEnd \in Nat /\ LingerWait \in Nat /\ LingerIngame \in Nat
  /\ LingerEnd < LingerWait /\ LingerWait < LingerIngame

VARIABLES
  Room_List,   \* sequence of addresses
  heap,        \* the Node_Room at every address, freed ones included
  list_mutex,  \* "free" or "game"; a handler's lock..unlock is one step
  pc,          \* main thread
  req,         \* the request being served
  room,        \* local variable of the handler: an address or NULL
  state,       \* static variable of getSessin: sessions are 1, 2, ...
  issued,      \* what the replies told the clients: room, slot and session
  gpc,         \* game thread
  it           \* its iterator: an index into Room_List, Len + 1 is end()

mainVars == <<pc, req, room, state, issued>>
gameVars == <<gpc, it>>
vars == <<Room_List, heap, list_mutex, mainVars, gameVars>>

-----------------------------------------------------------------------------
Pids == 0 .. PlayerNumber - 1
MaxAge == LingerIngame + 1    \* bound: ages above it are all the same

\* Mutant of RoomLinger: the lobby has the linger time of an ended room.
RoomLinger_Swapped(s) ==
  CASE s = GAME_STATE_END -> LingerWait
    [] s = GAME_STATE_INGAME -> LingerIngame
    [] OTHER -> LingerEnd

RoomLinger(s) ==
  CASE s = GAME_STATE_WAIT   -> LingerWait
    [] s = GAME_STATE_INGAME -> LingerIngame
    [] s = GAME_STATE_END    -> LingerEnd
    [] OTHER                 -> 0     \* operator[] of a missing key

\* A block no handler points to.
Unused == [live |-> FALSE, ready |-> FALSE, room_id |-> NULL,
           game_state |-> JUNK, session |-> [p \in Pids |-> 0],
           locked |-> FALSE, age |-> 0]

\* A Node_Room after new: ready becomes TRUE when Register_Room has filled it.
NewRoom(id, garbage) ==
  [live |-> TRUE, ready |-> FALSE, room_id |-> id,
   game_state |-> garbage, session |-> [p \in Pids |-> 0],
   locked |-> FALSE, age |-> 0]

Ticket == [room : RoomIds, pid : Pids, session : 1 .. MaxSession]
NoTicket(id) == [room |-> id, pid |-> 0, session |-> 0]

\* Where the list has rooms of that id.
Named(id) == {i \in DOMAIN Room_List : heap[Room_List[i]].room_id = id}
\* The first of some places of the list, or NULL: as a set of one element.
First(places) ==
  IF places = {} THEN {NULL}
  ELSE {Room_List[i] : i \in {i \in places : \A j \in places : i <= j}}

\* Mutant of getRoom: the id of a room that has ended is free again.
getRoom_NotEnded(id) ==
  First({i \in Named(id) : heap[Room_List[i]].game_state # GAME_STATE_END})
\* getRoom: the first room of the list with that id.
getRoom(id) == First(Named(id))

Init ==
  /\ Room_List = << >>
  /\ heap = [a \in Addr |-> Unused]
  /\ list_mutex = "free"
  /\ pc = "select"
  /\ req = [op |-> "none"]
  /\ room = NULL
  /\ state = 0
  /\ issued = {}
  /\ gpc = "sleep"
  /\ it = 1

-----------------------------------------------------------------------------
(* The main thread.                                                        *)

\* The handler is done, its reply is sent, the main thread selects again.
Reply == pc' = "select" /\ req' = [op |-> "none"] /\ room' = NULL

\* A request arrives: from somebody new, or with a ticket handed out at any
\* time before, maybe for a seat or a room that is gone.
Recv ==
  /\ pc = "select"
  /\ \/ \E op \in NewComers \cap Commands, id \in RoomIds :
          /\ state < MaxSession
          /\ op = "register" => \E a \in Addr : ~heap[a].live
          /\ req' = [op |-> op, ticket |-> NoTicket(id)]
     \/ \E op \in Verified \cap Commands, t \in issued : req' = [op |-> op, ticket |-> t]
  /\ pc' = "lookup"
  /\ UNCHANGED <<Room_List, heap, list_mutex, room, state, issued, gameVars>>

\* The first statement of every handler.
Lookup ==
  /\ pc = "lookup"
  /\ list_mutex = "free"
  /\ \E found \in getRoom(req.ticket.room) :
       \/ /\ \/ req.op = "register" /\ found # NULL
             \/ req.op = "join" /\ found = NULL
          /\ Reply
       \/ /\ req.op = "register" /\ found = NULL
          /\ pc' = "add"
          /\ UNCHANGED <<req, room>>
       \/ /\ req.op = "join" /\ found # NULL
          /\ pc' = "lock"
          /\ room' = found
          /\ UNCHANGED req
       \/ /\ req.op \in Verified
          /\ pc' = IF req.op = "map" /\ found # NULL THEN "peek" ELSE "verify"
          /\ room' = found
          /\ UNCHANGED req
  /\ UNCHANGED <<Room_List, heap, list_mutex, state, issued, gameVars>>

\* addRoom: the room is in the list before Register_Room has filled it; its
\* game_state is whatever the block held: 0 (WAIT) in a fresh one, anything in
\* a recycled one.
addRoom ==
  /\ pc = "add"
  /\ list_mutex = "free"
  /\ \E a \in Addr, garbage \in Garbage :
       /\ ~heap[a].live
       /\ heap' = [heap EXCEPT ![a] = NewRoom(req.ticket.room, garbage)]
       /\ Room_List' = Append(Room_List, a)
       /\ room' = a
  /\ pc' = "lock"
  /\ UNCHANGED <<list_mutex, req, state, issued, gameVars>>

\* Map_Info reads game_state without room_mutex: anybody may see a map after
\* the end.
Peek ==
  /\ pc = "peek"
  /\ pc' = IF heap[room].game_state = GAME_STATE_END THEN "lock" ELSE "verify"
  /\ UNCHANGED <<Room_List, heap, list_mutex, req, room, state, issued,
                 gameVars>>

\* verifySession, its own lookup.  Only the main thread adds rooms, so it
\* finds the room of the first lookup or none.
VerifyLookup ==
  /\ pc = "verify"
  /\ list_mutex = "free"
  /\ \/ getRoom(req.ticket.room) = {NULL} /\ Reply
     \/ /\ getRoom(req.ticket.room) # {NULL}
        /\ pc' = "check"
        /\ UNCHANGED <<req, room>>
  /\ UNCHANGED <<Room_List, heap, list_mutex, state, issued, gameVars>>

\* verifySession, the comparison, under no lock.
\* Mutant of SessionMatches: only the room is compared.
SessionMatches_RoomOnly == heap[room].room_id = req.ticket.room
SessionMatches == heap[room].session[req.ticket.pid] = req.ticket.session
VerifyCheck ==
  /\ pc = "check"
  /\ \/ ~SessionMatches /\ Reply
     \/ SessionMatches /\ pc' = "lock" /\ UNCHANGED <<req, room>>
  /\ UNCHANGED <<Room_List, heap, list_mutex, state, issued, gameVars>>

\* room_mutex.lock()
Lock ==
  /\ pc = "lock"
  /\ ~heap[room].locked
  /\ heap' = [heap EXCEPT ![room].locked = TRUE]
  /\ pc' = "body"
  /\ UNCHANGED <<Room_List, list_mutex, req, room, state, issued, gameVars>>

\* room_mutex.lock() of a mutex that an earlier handler has left locked: the
\* main thread waits for itself, for ever.
Block ==
  /\ pc = "lock"
  /\ heap[room].locked
  /\ pc' = "blocked"
  /\ UNCHANGED <<Room_List, heap, list_mutex, req, room, state, issued,
                 gameVars>>

FreeSlots == {p \in Pids : heap[room].session[p] = 0}

\* A new player takes slot p of r; the reply tells him his session.
Taken(r, p, s) == [r EXCEPT !.session = [@ EXCEPT ![p] = s]]
Seat(p, r) ==
  /\ state' = state + 1
  /\ heap' = [heap EXCEPT ![room] = Taken(r, p, state + 1)]
  /\ issued' = issued \cup
       {[room |-> req.ticket.room, pid |-> p, session |-> state + 1]}

\* The handler's work between lock() and unlock().
Filled(r) == [[r EXCEPT !.game_state = GAME_STATE_WAIT] EXCEPT !.ready = TRUE]
Register_Room ==
  /\ req.op = "register"
  /\ Seat(0, Filled(heap[room]))

Join_Room ==
  /\ req.op = "join"
  /\ \/ \E p \in FreeSlots : \* the first one
          (\A q \in FreeSlots : p <= q) /\ Seat(p, heap[room])
     \/ UNCHANGED <<heap, state, issued>>     \* full, or wrong password

Start_Game ==
  /\ req.op = "start"
  /\ heap[room].game_state = GAME_STATE_WAIT
  /\ heap' = [heap EXCEPT ![room].game_state = GAME_STATE_INGAME]
  /\ UNCHANGED <<state, issued>>

Quit_Game ==
  /\ req.op = "quit"
  /\ heap' = IF heap[room].game_state = GAME_STATE_WAIT
             THEN [heap EXCEPT ![room] = Taken(@, req.ticket.pid, 0)]
             ELSE heap
  /\ UNCHANGED <<state, issued>>

Room_Info == req.op \in {"info", "map"} /\ UNCHANGED <<heap, state, issued>>

Body ==
  /\ pc = "body"
  /\ Register_Room \/ Join_Room \/ Start_Game \/ Quit_Game \/ Room_Info
  /\ pc' = "unlock"
  /\ UNCHANGED <<Room_List, list_mutex, req, room, gameVars>>

\* Mutant of Refused: a lobby with free slots is refused, too.
Refused_TooFew == heap[room].game_state # GAME_STATE_WAIT \/ FreeSlots # {}
Refused == heap[room].game_state # GAME_STATE_WAIT

\* Start_Game of a game that has started: "Game Already Start", and the
\* handler returns without unlock().
StartRefused ==
  /\ pc = "body"
  /\ req.op = "start"
  /\ Refused
  /\ Reply
  /\ UNCHANGED <<Room_List, heap, list_mutex, state, issued, gameVars>>

Unlock ==
  /\ pc = "unlock"
  /\ heap' = [heap EXCEPT ![room].locked = FALSE]
  /\ Reply
  /\ UNCHANGED <<Room_List, list_mutex, state, issued, gameVars>>

\* The handler works on a room that delended has deleted meanwhile.  It may
\* find the old contents (the actions above), fault, or wait for ever for a
\* mutex whose memory free() has overwritten.
Dangling ==
  /\ pc \in {"peek", "check", "lock", "body", "unlock"}
  /\ ~heap[room].live
Fault ==
  /\ Dangling
  /\ pc' = "down" /\ gpc' = "down"
  /\ UNCHANGED <<Room_List, heap, list_mutex, req, room, state, issued, it>>
Hang ==
  /\ Dangling
  /\ pc = "lock"
  /\ pc' = "hung"
  /\ UNCHANGED <<Room_List, heap, list_mutex, req, room, state, issued,
                 gameVars>>

-----------------------------------------------------------------------------
(* The game thread.                                                        *)

Played == heap[Room_List[it]]

\* GameHandler: list_mutex.lock() before the rounds.
GameLock ==
  /\ gpc = "sleep"
  /\ list_mutex = "free"
  /\ list_mutex' = "game"
  /\ gpc' = "play"
  /\ it' = 1
  /\ UNCHANGED <<Room_List, heap, mainVars>>

Playable == Played.ready

Ended(r) == [[r EXCEPT !.game_state = GAME_STATE_END] EXCEPT !.age = 0]

\* One room of the loop.  A round leaves the game going or ends it, and the
\* end restarts the room's clock.
Play ==
  /\ gpc = "play"
  /\ it <= Len(Room_List)
  /\ Played.game_state = GAME_STATE_INGAME => Playable
  /\ it' = it + 1
  /\ \/ UNCHANGED heap
     \/ /\ Played.game_state = GAME_STATE_INGAME
        /\ heap' = [heap EXCEPT ![Room_List[it]] = Ended(@)]
  /\ UNCHANGED <<Room_List, list_mutex, mainVars, gpc>>

\* The loop comes to a room that Register_Room has not filled yet, and whose
\* memory happens to say INGAME: next_round begins on sizes that are garbage
\* and on empty vectors.
PlayUnready ==
  /\ gpc = "play"
  /\ it <= Len(Room_List)
  /\ Played.game_state = GAME_STATE_INGAME /\ ~Played.ready
  /\ gpc' = "round"
  /\ UNCHANGED <<Room_List, heap, list_mutex, mainVars, it>>

\* That round faults, or does nothing, or ends the game of the room (with no
\* player counted alive), which Register_Room may have filled meanwhile.
RoundUnready ==
  /\ gpc = "round"
  /\ \/ /\ it' = it + 1 /\ gpc' = "play"
        /\ \/ UNCHANGED heap
           \/ heap' = [heap EXCEPT ![Room_List[it]] = Ended(@)]
        /\ UNCHANGED pc
     \/ pc' = "down" /\ gpc' = "down" /\ UNCHANGED <<heap, it>>
  /\ UNCHANGED <<Room_List, list_mutex, req, room, state, issued>>

\* Mutant of PlayDone: list_mutex is not released before delended.
PlayDone_KeepsMutex ==
  /\ gpc = "play"
  /\ it > Len(Room_List)
  /\ gpc' = "delended"
  /\ UNCHANGED <<Room_List, heap, list_mutex, mainVars, it>>

PlayDone ==
  /\ gpc = "play"
  /\ it > Len(Room_List)
  /\ list_mutex' = "free"
  /\ gpc' = "delended"
  /\ UNCHANGED <<Room_List, heap, mainVars, it>>

\* Mutant of begin: the sweep starts at the second room.
begin_Second == 2
\* Room_List.begin()
begin == 1

\* delended
SweepLock ==
  /\ gpc = "delended"
  /\ list_mutex = "free"
  /\ list_mutex' = "game"
  /\ gpc' = "sweep"
  /\ it' = begin
  /\ UNCHANGED <<Room_List, heap, mainVars>>

\* delended judges one room.  "delete" and "delete_raw" are the same place in
\* the code: raw is a room judged before Register_Room had filled it.
Judgement(r) == IF r.ready THEN "delete" ELSE "delete_raw"
Sweep ==
  /\ gpc = "sweep"
  /\ it <= Len(Room_List)
  /\ IF Played.age > RoomLinger(Played.game_state)
     THEN gpc' = Judgement(Played) /\ UNCHANGED it
     ELSE it' = it + 1 /\ UNCHANGED gpc
  /\ UNCHANGED <<Room_List, heap, list_mutex, mainVars>>

\* Mutant of Erased: the deleted room stays in the list.
Erased_Nothing == Room_List
\* Room_List after erase(it).
Erased == RemoveAt(Room_List, it)

\* Mutant of Onward: the iterator moves past the end.
Onward_PastEnd == it + 1
\* it = erase(it); it++.  The room after the deleted one is skipped; after
\* the last one, it++ of end() is begin(), as libstdc++ lists are circular.
Onward == IF it < Len(Room_List) THEN it + 1 ELSE begin

\* delended deletes an expired room, whoever points to it.
Deleting == {"delete", "delete_raw"}
Delete ==
  /\ gpc \in Deleting
  /\ LET a == Room_List[it] IN
       heap' = [heap EXCEPT ![a] =
                  IF room = a THEN [@ EXCEPT !.live = FALSE] ELSE Unused]
  /\ Room_List' = Erased
  /\ it' = Onward
  /\ gpc' = "sweep"
  /\ UNCHANGED <<list_mutex, mainVars>>

SweepDone ==
  /\ gpc = "sweep"
  /\ it > Len(Room_List)
  /\ list_mutex' = "free"
  /\ gpc' = "sleep"
  /\ UNCHANGED <<Room_List, heap, mainVars, it>>

-----------------------------------------------------------------------------
\* A second passes.  delended reads the clock once, when it starts: what
\* passes during the sweep counts from the next one on.
Older(r) == IF r.live /\ r.age < MaxAge THEN [r EXCEPT !.age = @ + 1] ELSE r
Tick ==
  /\ gpc \notin {"sweep"} \cup Deleting
  /\ heap' = [a \in Addr |-> Older(heap[a])]
  /\ UNCHANGED <<Room_List, list_mutex, mainVars, gameVars>>

Handler ==
  \/ Lookup \/ addRoom \/ Peek \/ VerifyLookup \/ VerifyCheck
  \/ Lock \/ Block \/ Body \/ StartRefused \/ Unlock \/ Fault \/ Hang
GameThread ==
  \/ GameLock \/ Play \/ PlayUnready \/ RoundUnready \/ PlayDone
  \/ SweepLock \/ Sweep \/ Delete \/ SweepDone
Next == Recv \/ Handler \/ GameThread \/ Tick

Spec == Init /\ [][Next]_vars

\* Both threads are scheduled and time passes.  The game thread sleeps a
\* second without list_mutex in every iteration: the handlers get the mutex
\* sooner or later and the clock moves on between two sweeps, hence strong
\* fairness of both.  No client is obliged to send.
FairSpec ==
  Spec /\ SF_vars(Handler) /\ WF_vars(GameThread) /\ SF_vars(Tick)
-----------------------------------------------------------------------------
(* Properties.                                                             *)

\* The type of every variable.
NodeRoom ==
  [live : BOOLEAN, ready : BOOLEAN, room_id : RoomIds \cup {NULL},
   game_state : GameStates \cup {JUNK}, session : [Pids -> 0 .. MaxSession],
   locked : BOOLEAN, age : 0 .. MaxAge]
Request ==
  [op : NewComers, ticket : {NoTicket(id) : id \in RoomIds}]
    \cup [op : Verified, ticket : Ticket]
TypeOK ==
  /\ Room_List \in Seq(Addr)
  /\ heap \in [Addr -> NodeRoom]
  /\ list_mutex \in {"free", "game"}
  /\ pc \in {"select", "lookup", "add", "peek", "verify", "check", "lock",
             "body", "unlock", "blocked", "hung", "down"}
  /\ req \in Request \cup {[op |-> "none"]}
  /\ room \in Addr \cup {NULL}
  /\ state \in 0 .. MaxSession
  /\ issued \subseteq Ticket
  /\ gpc \in {"sleep", "play", "round", "delended", "sweep", "down"} \cup Deleting
  /\ it \in 1 .. Len(Room_List) + 1

\* No two rooms of the list have the same id, although Register_Room looks
\* and adds in two separate critical sections of list_mutex.
UniqueIds ==
  \A i, j \in DOMAIN Room_List :
    heap[Room_List[i]].room_id = heap[Room_List[j]].room_id => i = j

\* The list holds every allocated room exactly once and no freed one, also
\* while delended erases under its own iterator.
ListExact ==
  /\ \A i, j \in DOMAIN Room_List : Room_List[i] = Room_List[j] => i = j
  /\ {Room_List[i] : i \in DOMAIN Room_List} = {a \in Addr : heap[a].live}

\* A command that got through verifySession acts on the room it names, which
\* Register_Room has filled, and for the player who holds the seat now: a
\* ticket of a seat given up, or of an earlier room of the same id, is no
\* use, although the session is compared before room_mutex is taken.
SeatOwner ==
  pc = "body" /\ req.op \in Verified \ {"map"} /\ heap[room].live =>
    /\ heap[room].ready
    /\ heap[room].room_id = req.ticket.room
    /\ heap[room].session[req.ticket.pid] = req.ticket.session

\* A room whose mutex is left locked has been started: no handler leaves the
\* lobby of a room locked (Start_Game is the one that returns without
\* unlock(), and only when the game has started).
LeftLocked(a) ==
  heap[a].locked /\ ~(room = a /\ pc \in {"body", "unlock", "down"})
LobbyNeverLeftLocked ==
  \A a \in Addr : heap[a].live /\ LeftLocked(a) =>
    heap[a].game_state \in {GAME_STATE_INGAME, GAME_STATE_END}

\* A room that was filled when delended judged it, lobby or match, is never
\* deleted before the linger time of the lobby is over: delended may have
\* seen the lobby expired just before Start_Game began the match, so
\* LingerIngame would be too much to promise.  An ended room lives at least
\* LingerEnd longer.  The excuse is the window of addRoom: a room in the list
\* that nobody has filled is judged by what its memory happens to say, and
\* may be deleted when Register_Room has just filled it.
NoEarlyDelete ==
  [][\A a \in Addr :
       heap[a].live /\ ~heap'[a].live /\ heap[a].ready /\ gpc # "delete_raw" =>
         heap[a].age > (IF heap[a].game_state = GAME_STATE_END
                        THEN LingerEnd ELSE LingerWait)]_heap

\* Every room that has ended is deleted, although delended skips a room
\* after each deletion, and whoever has left it locked.
EndedRoomDeleted ==
  \A a \in Addr :
    (heap[a].live /\ heap[a].ready /\ heap[a].game_state = GAME_STATE_END)
      ~> (~heap[a].live \/ gpc = "down")

\* Every request is answered, unless its handler waits for a room that an
\* earlier handler has left locked, or works on freed memory.
AnsweredOrLeftLocked ==
  pc = "lookup" ~>
    \/ pc \in {"select", "hung", "down"}
    \/ pc = "blocked" /\ LeftLocked(room)

\* Every request is answered, as data_format.h has it (an error code or an
\* ok code for every command), if the memory is not freed meanwhile.
EveryRequestAnswered ==
  pc = "lookup" ~> pc \in {"select", "hung", "down"}
=============================================================================
