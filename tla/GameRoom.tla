------------------------------ MODULE GameRoom ------------------------------
(***************************************************************************)
(* One room of the server (struct Node_Room, server/game.cpp), from the    *)
(* return of Register_Room on, worked on by two threads:                   *)
(*                                                                         *)
(*  - the main thread runs the command handlers Join_Room, Start_Game,     *)
(*    Quit_Game and Add_Action, one at a time;                             *)
(*  - the game thread (GameHandler) runs next_round on the room while it   *)
(*    is INGAME.                                                           *)
(*                                                                         *)
(* The handlers lock room_mutex, next_round does not: nothing orders the   *)
(* two threads.  next_round is therefore cut at its loop iterations (the   *)
(* growth pass, one order per player, one verdict per player, the final    *)
(* decision) and a handler may run between any two of them; Start_Game is  *)
(* cut between genMap and the assignment of game_state.                    *)
(*                                                                         *)
(* A session is abstracted to "the slot is taken" (session # 0); the       *)
(* requests of a verified player are the ones modelled, a request that     *)
(* fails verifySession or the password changes nothing.                    *)
(***************************************************************************)
EXTENDS Board, Sequences, FiniteSets, Functions

CONSTANTS
  PlayerNumber,     \* player_number of the room
  CASTLE_DEFAULT,   \* garrison of a neutral castle (40 in the code)
  SpaceRoundNeed,   \* space_round_need: rounds between growths of a plain (25)
  Orders,           \* the orders the clients send, a subset of Order
  MaxRound,         \* bound: rounds the game thread plays
  MaxOrders         \* bound: orders a player may have queued

ASSUME RoomAssumption ==
  /\ PlayerNumber \in Nat \ {0}
  /\ CASTLE_DEFAULT \in Nat
  /\ SpaceRoundNeed \in Nat \ {0}
  /\ Orders \subseteq Order
  /\ MaxRound \in Nat
  /\ MaxOrders \in Nat

VARIABLES
  game_state,    \* WAIT, INGAME or END
  round,
  seated,        \* slots whose session is not 0
  player_state,  \* per slot: ALIVE, QUITED or DEAD
  home,          \* per slot: <<homeX, homeY>>
  game_map,      \* cell -> Grid, or NoMap before genMap
  action_queue,  \* per slot: the queue of orders
  main,          \* main thread: "idle", or "starting" inside Start_Game
  pc,            \* game thread: where it is in next_round
  pid,           \* loop variable of next_round
  player_alive   \* local variable of next_round

mainVars == <<game_state, seated, main>>
gameVars == <<round, pc, pid, player_alive>>
vars == <<game_state, round, seated, player_state, home, game_map,
          action_queue, main, pc, pid, player_alive>>

-----------------------------------------------------------------------------
Pids  == 0 .. PlayerNumber - 1
Owners == Pids \cup {GAME_MAP_OWN_NEUTRAL}
Grid  == [type : Terrain, owner : Owners, soldier_num : Int]
NoMap == << >>

-----------------------------------------------------------------------------
(* Register_Room: the room as it is when the handler unlocks room_mutex.   *)

Init ==
  /\ game_state = GAME_STATE_WAIT
  /\ round = 0
  /\ seated = {0}
  /\ player_state = [p \in Pids |-> PLAYER_STATE_ALIVE]
  /\ home = [p \in Pids |-> <<0, 0>>]
  /\ game_map = NoMap
  /\ action_queue = [p \in Pids |-> << >>]
  /\ main = "idle"
  /\ pc = "idle"
  /\ pid = 0
  /\ player_alive = 0

-----------------------------------------------------------------------------
(* The main thread.                                                        *)

\* Mutant of FreeSlots: the slot of a player who is out counts as free.
FreeSlots_OrOut ==
  {p \in Pids : p \notin seated \/ player_state[p] # PLAYER_STATE_ALIVE}
\* The slots whose session is 0.
FreeSlots == Pids \ seated

\* Join_Room: the first slot whose session is 0, whatever the game state.
Join_Room ==
  /\ main = "idle"
  /\ \E p \in FreeSlots :
       /\ \A q \in FreeSlots : p <= q
       /\ seated' = seated \cup {p}
       /\ player_state' = [player_state EXCEPT ![p] = PLAYER_STATE_ALIVE]
  /\ UNCHANGED <<game_state, home, game_map, action_queue, main, gameVars>>

\* Mutant of Vacates: the slot is freed in a running game, too.
Vacates_Always == TRUE
\* A quit gives the slot back.
Vacates == game_state = GAME_STATE_WAIT

\* Quit_Game: in the lobby the slot becomes a fresh Node_Player, afterwards
\* the player keeps the slot and is QUITED.
Quit_Game(p) ==
  /\ main = "idle"
  /\ p \in seated
  /\ \/ /\ Vacates
        /\ seated' = seated \ {p}
        /\ player_state' = [player_state EXCEPT ![p] = PLAYER_STATE_ALIVE]
        /\ home' = [home EXCEPT ![p] = <<0, 0>>]
     \/ /\ ~Vacates
        /\ player_state' = [player_state EXCEPT ![p] = PLAYER_STATE_QUITED]
        /\ UNCHANGED <<seated, home>>
  /\ UNCHANGED <<game_state, game_map, action_queue, main, gameVars>>

\* The players genMap finds a point for: the first SizeX*SizeY of them.
Placed == {p \in Pids : p < SizeX * SizeY}

\* The Grid genMap writes at c, for homes h and random terrain t.
GenGrid(h, t, c) ==
  IF \E p \in Placed : h[p] = c
  THEN [type |-> GAME_MAP_HOME,
        owner |-> CHOOSE p \in Placed : h[p] = c,
        soldier_num |-> 0]
  ELSE [type |-> t[c],
        owner |-> GAME_MAP_OWN_NEUTRAL,
        soldier_num |-> IF t[c] = GAME_MAP_CASTLE THEN CASTLE_DEFAULT ELSE 0]

\* Mutant of GenMap: the room is INGAME before its map is built.
GenMap_TooLate ==
  /\ main = "idle"
  /\ game_state = GAME_STATE_WAIT
  /\ seated # {}
  /\ game_state' = GAME_STATE_INGAME
  /\ main' = "starting"
  /\ UNCHANGED <<seated, player_state, home, game_map, action_queue, gameVars>>

\* Start_Game up to the end of genMap: distinct random homes for the placed
\* players, seated or not; a player without a point keeps its old home.
GenMap ==
  /\ main = "idle"
  /\ game_state = GAME_STATE_WAIT
  /\ seated # {}
  /\ \E h \in [Pids -> Cells], t \in [Cells -> OpenTerrain] :
       /\ \A p, q \in Placed : h[p] = h[q] => p = q
       /\ \A p \in Pids \ Placed : h[p] = home[p]
       /\ home' = h
       /\ game_map' = [c \in Cells |-> GenGrid(h, t, c)]
  /\ main' = "starting"
  /\ UNCHANGED <<game_state, seated, player_state, action_queue, gameVars>>

\* The rest of Start_Game: the game thread may now see the room.
Start_Game ==
  /\ main = "starting"
  /\ main' = "idle"
  /\ game_state' = GAME_STATE_INGAME
  /\ UNCHANGED <<seated, player_state, home, game_map, action_queue, gameVars>>

\* Add_Action with one order, which is what the client sends.
Add_Action(p, o) ==
  /\ main = "idle"
  /\ p \in seated
  /\ game_state = GAME_STATE_INGAME
  /\ player_state[p] = PLAYER_STATE_ALIVE
  /\ Len(action_queue[p]) < MaxOrders
  /\ action_queue' = [action_queue EXCEPT ![p] = Append(@, o)]
  /\ UNCHANGED <<mainVars, player_state, home, game_map, gameVars>>

-----------------------------------------------------------------------------
(* The game thread: next_round, cut at its loop iterations.                *)

\* Mutant of Growth: a neutral castle grows for ever.
Growth_NoLimit(g, r) ==
  IF g.type \in {GAME_MAP_HOME, GAME_MAP_CASTLE} THEN 1 ELSE 0

\* What the growth pass adds to cell g in round r (castle_round_need is 1).
Growth(g, r) ==
  CASE g.type = GAME_MAP_HOME -> 1
    [] /\ g.type = GAME_MAP_CASTLE
       /\ \/ g.owner # GAME_MAP_OWN_NEUTRAL
          \/ g.soldier_num < CASTLE_DEFAULT -> 1
    [] /\ g.type = GAME_MAP_SPACE
       /\ r % SpaceRoundNeed = 0
       /\ g.owner # GAME_MAP_OWN_NEUTRAL -> 1
    [] OTHER -> 0

\* Mutant of Playing: GameHandler plays every room that has left the lobby.
Playing_LeftLobby == game_state # GAME_STATE_WAIT
\* GameHandler plays the room.
Playing == game_state = GAME_STATE_INGAME

\* GameHandler finds the room INGAME; next_round counts the round and grows.
Grow ==
  /\ pc = "idle"
  /\ Playing
  /\ round < MaxRound
  /\ round' = round + 1
  /\ game_map' = [c \in Cells |->
       [game_map[c] EXCEPT !.soldier_num = @ + Growth(game_map[c], round')]]
  /\ pc' = "orders"
  /\ pid' = 0
  /\ UNCHANGED <<mainVars, player_state, home, action_queue, player_alive>>

\* The order is refused: off the map, onto a mountain, or not from own land.
Legal(p, o) ==
  /\ Target(o) \in Cells
  /\ game_map[Target(o)].type # GAME_MAP_MOUNTAIN
  /\ game_map[Source(o)].owner = p

\* Mutants of Enter: the survivors of a capture are counted the wrong way
\* round; the capturing army takes no losses; a draw leaves the cell to
\* nobody.
Enter_Swapped(g, p, n) ==
  IF g.owner = p THEN [g EXCEPT !.soldier_num = @ + n]
  ELSE IF n > g.soldier_num
       THEN [g EXCEPT !.owner = p, !.soldier_num = @ - n]
       ELSE [g EXCEPT !.soldier_num = @ - n]
Enter_NoLosses(g, p, n) ==
  IF g.owner = p THEN [g EXCEPT !.soldier_num = @ + n]
  ELSE IF n > g.soldier_num
       THEN [g EXCEPT !.owner = p, !.soldier_num = n]
       ELSE [g EXCEPT !.soldier_num = @ - n]
Enter_Draw(g, p, n) ==
  IF g.owner = p THEN [g EXCEPT !.soldier_num = @ + n]
  ELSE IF n > g.soldier_num
       THEN [type |-> g.type, owner |-> p, soldier_num |-> n - g.soldier_num]
       ELSE [g EXCEPT !.owner = IF n = g.soldier_num THEN GAME_MAP_OWN_NEUTRAL ELSE @,
                      !.soldier_num = @ - n]

\* Cell g after n soldiers of p have entered it.
Enter(g, p, n) ==
  IF g.owner = p THEN [g EXCEPT !.soldier_num = @ + n]
  ELSE IF n > g.soldier_num
       THEN [type |-> g.type, owner |-> p, soldier_num |-> n - g.soldier_num]
       ELSE [g EXCEPT !.soldier_num = @ - n]

\* The map after order o of p.
Execute(p, o) ==
  LET n == Marching(o, game_map[Source(o)].soldier_num)
  IN  IF Legal(p, o)
      THEN [game_map EXCEPT ![Source(o)].soldier_num = @ - n,
                            ![Target(o)] = Enter(@, p, n)]
      ELSE game_map

\* Mutant of NextPid: pid <= player_number.
NextPid_PastLast(part) ==
  IF pid < PlayerNumber
  THEN pc' = pc /\ pid' = pid + 1
  ELSE pc' = part /\ pid' = 0

\* The loop "for pid" goes on, or next_round goes to its next part.
NextPid(part) ==
  IF pid + 1 < PlayerNumber
  THEN pc' = pc /\ pid' = pid + 1
  ELSE pc' = part /\ pid' = 0

\* One iteration of the order loop: at most one order of player pid.
PlayOrder ==
  /\ pc = "orders"
  /\ \/ action_queue[pid] = << >> /\ UNCHANGED <<action_queue, game_map>>
     \/ /\ action_queue[pid] # << >>
        /\ action_queue' = [action_queue EXCEPT ![pid] = Tail(@)]
        /\ game_map' = Execute(pid, Head(action_queue[pid]))
  /\ NextPid("judge")
  /\ player_alive' = 0
  /\ UNCHANGED <<mainVars, round, player_state, home>>

HoldsHome(p) == game_map[home[p]].owner = p

\* Still in the game: alive, and in his own home.
Stands(p) == player_state[p] = PLAYER_STATE_ALIVE /\ HoldsHome(p)

\* The player_state of p after the verdict loop has passed him.
Verdict(p) == IF HoldsHome(p) THEN player_state[p] ELSE PLAYER_STATE_DEAD

\* One iteration of the verdict loop.
Judge ==
  /\ pc = "judge"
  /\ player_state' = [player_state EXCEPT ![pid] = Verdict(pid)]
  /\ player_alive' = player_alive + (IF Stands(pid) THEN 1 ELSE 0)
  /\ NextPid("decide")
  /\ UNCHANGED <<mainVars, round, home, game_map, action_queue>>

\* Mutants of Over: two players may be left, or nobody.
Over_TwoLeft == player_alive <= 2
Over_NobodyLeft == player_alive < 1
\* The game is over.
Over == player_alive <= 1

\* The end of next_round: the game is over when at most one player is left.
Decide ==
  /\ pc = "decide"
  /\ game_state' = IF Over THEN GAME_STATE_END ELSE game_state
  /\ pc' = "idle"
  /\ UNCHANGED <<seated, main, player_state, home, game_map, action_queue,
                 round, pid, player_alive>>

-----------------------------------------------------------------------------
MainThread ==
  \/ Join_Room
  \/ \E p \in Pids : Quit_Game(p)
  \/ GenMap
  \/ Start_Game
  \/ \E p \in Pids, o \in Orders : Add_Action(p, o)

GameThread == Grow \/ PlayOrder \/ Judge \/ Decide

Next == MainThread \/ GameThread

Spec == Init /\ [][Next]_vars

\* The game thread loops for ever and the operating system schedules it;
\* nothing obliges a client to send a request.
FairSpec == Spec /\ WF_vars(GameThread)
-----------------------------------------------------------------------------
(* Properties.                                                             *)

\* The type of every variable, with the values of the loop variables.
TypeOK ==
  /\ game_state \in GameStates
  /\ round \in Nat
  /\ seated \in SUBSET Pids
  /\ player_state \in [Pids -> PlayerStates]
  /\ home \in [Pids -> Cells]
  /\ game_map \in [Cells -> Grid] \cup {NoMap}
  /\ action_queue \in [Pids -> Seq(Orders)]
  /\ main \in {"idle", "starting"}
  /\ pc \in {"idle", "orders", "judge", "decide"}
  /\ pid \in Pids
  /\ player_alive \in Nat

\* The game thread never works on a room whose map is not built: next_round
\* indexes game_map without a lock or a check, only the order of the two
\* assignments in Start_Game (genMap, then INGAME) protects it.
MapBeforePlay ==
  game_state # GAME_STATE_WAIT \/ pc # "idle" => game_map # NoMap

\* No sequence of growth, marches and fights leaves a cell with a negative
\* number of soldiers (next_round subtracts without checking).
NoNegativeArmy ==
  game_map # NoMap => \A c \in Cells : game_map[c].soldier_num >= 0

\* What nobody has conquered stays as genMap made it: mountains are never
\* entered, neutral plains are empty, a neutral castle never outgrows its
\* garrison, and a home always has some player as owner.
NeutralGround ==
  game_map # NoMap => \A c \in Cells : LET g == game_map[c] IN
    /\ g.type = GAME_MAP_MOUNTAIN =>
         g.owner = GAME_MAP_OWN_NEUTRAL /\ g.soldier_num = 0
    /\ g.type = GAME_MAP_SPACE /\ g.owner = GAME_MAP_OWN_NEUTRAL =>
         g.soldier_num = 0
    /\ g.type = GAME_MAP_CASTLE /\ g.owner = GAME_MAP_OWN_NEUTRAL =>
         g.soldier_num <= CASTLE_DEFAULT
    /\ g.type = GAME_MAP_HOME => g.owner # GAME_MAP_OWN_NEUTRAL

\* Orders wait only for a player who holds the slot, and only once the game
\* runs: a slot never hands the orders of one player on to the next (nothing
\* in the code clears action_queue).
OrdersHaveOwner ==
  \A p \in Pids : action_queue[p] # << >> =>
    p \in seated /\ game_state # GAME_STATE_WAIT

\* Between two rounds a player who is ALIVE without his home owns no land at
\* all.  The code lets one exist: Join_Room hands out a slot whose home has
\* fallen and sets it ALIVE; such a player must not be able to act.
NoHomelessArmy ==
  (game_map # NoMap /\ pc = "idle") =>
    \A p \in Pids :
      (player_state[p] = PLAYER_STATE_ALIVE /\ ~HoldsHome(p)) =>
        \A c \in Cells : game_map[c].owner # p

\* The players still in the game.
Standing == {p \in Pids : Stands(p)}

\* When the game is over at most one player is left standing.  next_round
\* counts player by player while quits and joins go on beside it, and joins
\* are still accepted after the end.
AtMostOneWinner ==
  game_state = GAME_STATE_END => Cardinality(Standing) <= 1

\* The soldiers on the land of o.
Army(m, o) ==
  SumFunction([c \in DOMAIN m |-> IF m[c].owner = o THEN m[c].soldier_num ELSE 0])

\* Soldiers come from the growth pass only, and nobody gets more than one per
\* cell and round.  Any other step changes the armies of two owners at most
\* (one of them may be the neutral one) and takes as much from either: a
\* march loses nobody, a fight costs both sides the same number.
EqualLosses ==
  [][game_map # NoMap =>
       LET Lost(o) == Army(game_map, o) - Army(game_map', o)
           changed == {o \in Owners : Lost(o) # 0}
       IN  IF round' # round
           THEN \A o \in changed : -Lost(o) \in 1 .. SizeX * SizeY
           ELSE \/ changed = {}
                \/ \E p, q \in changed :
                     p # q /\ changed = {p, q} /\ Lost(p) = Lost(q) /\ Lost(p) > 0]_game_map

\* A player who is out comes back only as somebody new: his slot was free
\* and has been taken by Join_Room (growth, recaptured homes and quits never
\* revive him).
OutIsOut ==
  [][\A p \in Pids :
       player_state[p] # PLAYER_STATE_ALIVE
         /\ player_state'[p] = PLAYER_STATE_ALIVE
       => p \notin seated /\ p \in seated']_player_state

\* After the end nothing moves on the map any more, and the room never
\* leaves END: what a client reads in the linger time is the final position.
FinalPosition ==
  [][game_state = GAME_STATE_END =>
       /\ game_state' = GAME_STATE_END
       /\ UNCHANGED <<game_map, round, home>>]_vars

\* When at most one player is left standing between two rounds (the others
\* lost or quit, by the main thread, unseen by the game thread) the game
\* thread ends the game; MaxRound is the only excuse.
LastOneEnds ==
  (/\ game_state = GAME_STATE_INGAME
   /\ pc = "idle"
   /\ round < MaxRound
   /\ Cardinality(Standing) <= 1) ~> game_state = GAME_STATE_END

\* The match a room plays: before the start nobody is in contention.
Match == INSTANCE Match WITH
  Slots <- Pids,
  phase <- game_state,
  contenders <- IF game_state = GAME_STATE_WAIT THEN {} ELSE Standing

\* GameRoom implements Match: in particular the verdict counted slot by slot
\* beside joins and quits is one the whole match agrees with, nobody comes
\* into contention by joining, and no order is played after the end.
MatchSpec == Match!Spec

\* What the clients of the room can tell of it.
Roster == INSTANCE Roster WITH Slots <- Pids

\* GameRoom implements Roster: whatever the threads do beside each other,
\* the states of room and players change in the ways a client expects (the
\* verdicts come in a running game only, a free slot is handed out ALIVE, a
\* game starts once and ends once).
RosterSpec == Roster!Spec
=============================================================================
