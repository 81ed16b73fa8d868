--------------------------- MODULE GameRoomProofs ---------------------------
(***************************************************************************)
(* What holds of a room for every number of players, size of map, set of   *)
(* orders and bound: proofs.  The state invariants rest on five inductive  *)
(* ones, each proved on top of those before it:                            *)
(*                                                                         *)
(*   TypeInv      types, and where each thread can be in each game state   *)
(*   ArmyInv      what is true of each single cell of the map              *)
(*   SlotInv      what the slots that nobody has taken look like           *)
(*   VerdictInv   the count of the verdict loop against the truth          *)
(*   HomelessInv  how far the verdict loop has got with the fallen         *)
(***************************************************************************)
EXTENDS Views, Induction

\* There are finitely many players, 0 is one, and <<0, 0>> is a cell.
LEMMA PidFacts ==
  /\ IsFiniteSet(Pids)
  /\ 0 \in Pids
  /\ Pids \subseteq Nat
  /\ <<0, 0>> \in Cells
BY RoomAssumption, BoardAssumption, FS_Interval DEF Pids, Cells

\* Before genMap game_map is none of the maps.
LEMMA NoMapIsNone == NoMap \notin [Cells -> Grid]
<1> SUFFICES ASSUME NoMap \in [Cells -> Grid] PROVE FALSE
  OBVIOUS
<1>1. DOMAIN NoMap = Cells
  OBVIOUS
<1>2. DOMAIN NoMap = {}
  BY DEF NoMap
<1> QED
  BY <1>1, <1>2, PidFacts

\* An order marches from a cell of the map ...
LEMMA SourceInCells == \A o \in Order : Source(o) \in Cells
BY DEF Order, Source, Cells

\* ... to another one: the four ways all move.
LEMMA SourceNotTarget == \A o \in Order : Source(o) # Target(o)
BY BoardAssumption DEF Order, Source, Target, dx, dy

\* A cell grows by at most one soldier a round.
LEMMA GrowthBound == \A g \in Grid, r \in Nat : Growth(g, r) \in {0, 1}
BY DEF Growth

\* soldier_trans is not negative and not more than the cell holds.
LEMMA MarchingBound == \A o \in Order, n \in Nat : Marching(o, n) \in 0 .. n
BY DEF Marching, Order

\* soldier_trans is an integer, whatever the cell holds.
LEMMA MarchingType == \A o \in Order, n \in Int : Marching(o, n) \in Int
BY DEF Marching, Order

\* The fields of a cell after n soldiers of p have entered it.
LEMMA EnterFacts ==
  ASSUME NEW g \in Grid, NEW p \in Pids, NEW n \in Int
  PROVE  /\ Enter(g, p, n) \in Grid
         /\ Enter(g, p, n).type = g.type
         /\ Enter(g, p, n).owner \in {g.owner, p}
         /\ g.owner # p /\ n <= g.soldier_num =>
              /\ Enter(g, p, n).owner = g.owner
              /\ Enter(g, p, n).soldier_num = g.soldier_num - n
         /\ g.owner # p /\ n > g.soldier_num =>
              /\ Enter(g, p, n).owner = p
              /\ Enter(g, p, n).soldier_num = n - g.soldier_num
         /\ g.owner = p => Enter(g, p, n).soldier_num = g.soldier_num + n
BY DEF Enter, Grid, Owners

\* The map after a legal order, cell by cell.
LEMMA ExecuteCell ==
  ASSUME NEW p \in Pids, NEW o \in Order, game_map \in [Cells -> Grid],
         Legal(p, o)
  PROVE  LET n == Marching(o, game_map[Source(o)].soldier_num) IN
         /\ Execute(p, o) \in [Cells -> Grid]
         /\ Execute(p, o)[Source(o)] =
              [game_map[Source(o)] EXCEPT !.soldier_num = @ - n]
         /\ Execute(p, o)[Target(o)] = Enter(game_map[Target(o)], p, n)
         /\ \A c \in Cells \ {Source(o), Target(o)} :
              Execute(p, o)[c] = game_map[c]
<1> DEFINE n == Marching(o, game_map[Source(o)].soldier_num)
           s == [game_map[Source(o)] EXCEPT !.soldier_num = @ - n]
           t == Enter(game_map[Target(o)], p, n)
<1>1. Source(o) \in Cells /\ Target(o) \in Cells /\ Source(o) # Target(o)
  BY SourceInCells, SourceNotTarget DEF Legal
<1>2. n \in Int
  BY <1>1, MarchingType DEF Grid
<1>3. s \in Grid /\ t \in Grid
  BY <1>1, <1>2, EnterFacts DEF Grid
<1>4. Execute(p, o) = [game_map EXCEPT ![Source(o)] = s, ![Target(o)] = t]
  BY <1>1 DEF Execute
<1> HIDE DEF n, s, t
<1>5. /\ Execute(p, o) \in [Cells -> Grid]
      /\ Execute(p, o)[Source(o)] = s
      /\ Execute(p, o)[Target(o)] = t
      /\ \A c \in Cells \ {Source(o), Target(o)} : Execute(p, o)[c] = game_map[c]
  BY <1>1, <1>3, <1>4
<1> QED
  BY <1>5 DEF n, s, t

-----------------------------------------------------------------------------
(* Types, and the phases of a room.                                        *)

\* Where the two threads can be in each game state, and when there is a map.
PhaseInv ==
  /\ game_state # GAME_STATE_WAIT \/ main = "starting" =>
       game_map \in [Cells -> Grid]
  /\ game_state = GAME_STATE_WAIT /\ main = "idle" => game_map = NoMap
  /\ main = "starting" => game_state = GAME_STATE_WAIT
  /\ pc # "idle" => game_state = GAME_STATE_INGAME

\* Types and phases together are inductive, neither is alone: next_round
\* indexes a map that only the phases say is there.
TypeInv == TypeOK /\ PhaseInv

\* genMap writes grids.
LEMMA GenGridType ==
  ASSUME NEW h \in [Pids -> Cells], NEW t \in [Cells -> OpenTerrain],
         NEW c \in Cells
  PROVE  GenGrid(h, t, c) \in Grid
<1>1. CASE \E p \in Placed : h[p] = c
  <2>1. (CHOOSE p \in Placed : h[p] = c) \in Owners
    BY <1>1 DEF Placed, Owners
  <2> QED
    BY <1>1, <2>1 DEF GenGrid, Grid, Terrain
<1>2. CASE ~ \E p \in Placed : h[p] = c
  BY <1>2, RoomAssumption DEF GenGrid, Grid, Terrain, Owners
<1> QED
  BY <1>1, <1>2

\* Either the loop goes on, or it was the last slot.
LEMMA NextPidFacts ==
  ASSUME NEW part, pid \in Pids, NextPid(part)
  PROVE  /\ pid' \in Pids
         /\ \/ pc' = pc /\ pid' = pid + 1
            \/ pc' = part /\ pid' = 0 /\ pid + 1 = PlayerNumber
BY RoomAssumption DEF NextPid, Pids

\* Register_Room leaves a well-typed room in the lobby.
LEMMA TypeInit == Init => TypeInv
BY PidFacts DEF Init, TypeInv, TypeOK, PhaseInv, GameStates, PlayerStates,
  GAME_STATE_WAIT, PLAYER_STATE_ALIVE

\* Every handler and every part of next_round keeps types and phases.
LEMMA TypeStep == TypeInv /\ [Next]_vars => TypeInv'
<1> SUFFICES ASSUME TypeInv, [Next]_vars PROVE TypeInv'
  OBVIOUS
<1> USE DEF TypeInv
<1>0. /\ GAME_STATE_WAIT # GAME_STATE_INGAME
      /\ GAME_STATE_WAIT # GAME_STATE_END
      /\ GAME_STATE_INGAME # GAME_STATE_END
      /\ {GAME_STATE_WAIT, GAME_STATE_INGAME, GAME_STATE_END} = GameStates
      /\ {PLAYER_STATE_ALIVE, PLAYER_STATE_QUITED, PLAYER_STATE_DEAD}
           = PlayerStates
  BY DEF GAME_STATE_WAIT, GAME_STATE_INGAME, GAME_STATE_END, GameStates,
    PlayerStates
<1>1. ASSUME Join_Room PROVE TypeInv'
  BY <1>0, <1>1 DEF Join_Room, FreeSlots, TypeOK, PhaseInv, gameVars
<1>2. ASSUME NEW p \in Pids, Quit_Game(p) PROVE TypeInv'
  BY <1>0, <1>2, PidFacts DEF Quit_Game, Vacates, TypeOK, PhaseInv, gameVars
<1>3. ASSUME GenMap PROVE TypeInv'
  <2>1. game_map' \in [Cells -> Grid] /\ home' \in [Pids -> Cells]
    BY <1>3, GenGridType DEF GenMap
  <2> QED
    BY <1>0, <1>3, <2>1 DEF GenMap, TypeOK, PhaseInv, gameVars
<1>4. ASSUME Start_Game PROVE TypeInv'
  BY <1>0, <1>4 DEF Start_Game, TypeOK, PhaseInv, gameVars
<1>5. ASSUME NEW p \in Pids, NEW o \in Orders, Add_Action(p, o)
      PROVE  TypeInv'
  <2>1. action_queue' \in [Pids -> Seq(Orders)]
    BY <1>5 DEF Add_Action, TypeOK
  <2> QED
    BY <1>5, <2>1 DEF Add_Action, TypeOK, PhaseInv, gameVars, mainVars
<1>6. ASSUME Grow PROVE TypeInv'
  <2>1. game_map \in [Cells -> Grid] /\ round' \in Nat
    BY <1>0, <1>6 DEF Grow, Playing, PhaseInv, TypeOK
  <2>2. ASSUME NEW c \in Cells
        PROVE  [game_map[c] EXCEPT !.soldier_num =
                  @ + Growth(game_map[c], round')] \in Grid
    BY <2>1, GrowthBound DEF Grid
  <2>3. game_map' \in [Cells -> Grid]
    BY <1>6, <2>2 DEF Grow, Playing
  <2> QED
    BY <1>0, <1>6, <2>1, <2>3, PidFacts DEF Grow, Playing, TypeOK, PhaseInv, mainVars
<1>7. ASSUME PlayOrder PROVE TypeInv'
  <2>1. game_map \in [Cells -> Grid]
    BY <1>0, <1>7 DEF PlayOrder, PhaseInv, TypeOK
  <2>2. game_map' \in [Cells -> Grid]
        /\ action_queue' \in [Pids -> Seq(Orders)]
    <3>1. CASE action_queue[pid] = << >>
      BY <1>7, <2>1, <3>1 DEF PlayOrder, TypeOK
    <3>2. CASE action_queue[pid] # << >>
      <4>1. action_queue[pid] \in Seq(Orders) /\ pid \in Pids
        BY DEF TypeOK
      <4>2. Head(action_queue[pid]) \in Order
            /\ Tail(action_queue[pid]) \in Seq(Orders)
        BY <3>2, <4>1, RoomAssumption
      <4>3. Execute(pid, Head(action_queue[pid])) \in [Cells -> Grid]
        <5>1. CASE Legal(pid, Head(action_queue[pid]))
          BY <2>1, <4>1, <4>2, <5>1, ExecuteCell
        <5>2. CASE ~Legal(pid, Head(action_queue[pid]))
          BY <2>1, <5>2 DEF Execute
        <5> QED
          BY <5>1, <5>2
      <4> QED
        BY <1>7, <3>2, <4>2, <4>3 DEF PlayOrder, TypeOK
    <3> QED
      BY <3>1, <3>2
  <2>3. pid' \in Pids /\ pc' \in {"orders", "judge"}
    BY <1>7, NextPidFacts DEF PlayOrder, TypeOK
  <2> QED
    BY <1>0, <1>7, <2>2, <2>3 DEF PlayOrder, TypeOK, PhaseInv, mainVars
<1>8. ASSUME Judge PROVE TypeInv'
  <2>1. pid' \in Pids /\ pc' \in {"judge", "decide"}
    BY <1>8, NextPidFacts DEF Judge, Verdict, Stands, TypeOK
  <2>2. player_alive' \in Nat /\ player_state' \in [Pids -> PlayerStates]
    BY <1>0, <1>8 DEF Judge, Verdict, Stands, TypeOK, HoldsHome
  <2> QED
    BY <1>0, <1>8, <2>1, <2>2 DEF Judge, Verdict, Stands, TypeOK, PhaseInv, mainVars
<1>9. ASSUME Decide PROVE TypeInv'
  BY <1>0, <1>9 DEF Decide, Over, TypeOK, PhaseInv
<1>10. ASSUME UNCHANGED vars PROVE TypeInv'
  BY <1>10 DEF vars, TypeOK, PhaseInv
<1> QED
  BY <1>1, <1>2, <1>3, <1>4, <1>5, <1>6, <1>7, <1>8, <1>9, <1>10
    DEF Next, MainThread, GameThread

\* Every variable keeps its type, in Register_Room's room and after any number of
\* handler calls and rounds.
THEOREM TypeCorrect == Spec => []TypeOK
<1>1. TypeInv => TypeOK
  BY DEF TypeInv
<1> QED
  BY <1>1, TypeInit, TypeStep, PTL DEF Spec

-----------------------------------------------------------------------------
(* The phases: there is a map to play on, and the end is final.            *)

\* The three states of a room have three codes.
LEMMA StateCodes ==
  /\ GAME_STATE_WAIT # GAME_STATE_INGAME
  /\ GAME_STATE_WAIT # GAME_STATE_END
  /\ GAME_STATE_INGAME # GAME_STATE_END
BY DEF GAME_STATE_WAIT, GAME_STATE_INGAME, GAME_STATE_END

\* next_round never runs on a room without a map: Start_Game calls genMap before
\* it sets INGAME, and nothing takes the map away.
THEOREM MapReady == Spec => []MapBeforePlay
<1>1. TypeInv => MapBeforePlay
  BY NoMapIsNone, StateCodes DEF TypeInv, PhaseInv, MapBeforePlay
<1> QED
  BY <1>1, TypeInit, TypeStep, PTL DEF Spec

\* After the end the map, the homes and the state of the room are final: neither
\* GameHandler nor Start_Game touches a room in END.
THEOREM EndIsFinal == Spec => FinalPosition
<1> DEFINE Final == game_state = GAME_STATE_END =>
                      /\ game_state' = GAME_STATE_END
                      /\ UNCHANGED <<game_map, round, home>>
<1>1. TypeInv /\ [Next]_vars => Final
  <2> SUFFICES ASSUME TypeInv, [Next]_vars, game_state = GAME_STATE_END
               PROVE  Final
    OBVIOUS
  <2>1. pc = "idle" /\ main = "idle"
    BY StateCodes DEF TypeInv, PhaseInv, TypeOK
  <2>2. ~GenMap /\ ~Start_Game /\ ~GameThread
    BY <2>1, StateCodes
      DEF GenMap, Start_Game, GameThread, Grow, Playing, PlayOrder, Judge, Decide
  <2>3. ASSUME Join_Room PROVE Final
    BY <2>3 DEF Join_Room, FreeSlots, gameVars
  <2>4. ASSUME NEW p \in Pids, Quit_Game(p) PROVE Final
    BY <2>4, StateCodes DEF Quit_Game, Vacates, gameVars
  <2>5. ASSUME NEW p \in Pids, NEW o \in Orders, Add_Action(p, o) PROVE Final
    BY <2>5 DEF Add_Action, gameVars, mainVars
  <2> QED
    BY <2>2, <2>3, <2>4, <2>5 DEF Next, MainThread, vars
<1>2. TypeInv /\ [Next]_vars => [Final]_vars
  BY <1>1
<1> QED
  BY <1>2, TypeInit, TypeStep, PTL DEF Spec, FinalPosition

-----------------------------------------------------------------------------
(* The armies.                                                             *)

\* What is true of every cell of a map, always: NoNegativeArmy and
\* NeutralGround, cell by cell.
Sane(g) ==
  /\ g.soldier_num >= 0
  /\ g.type = GAME_MAP_MOUNTAIN =>
       g.owner = GAME_MAP_OWN_NEUTRAL /\ g.soldier_num = 0
  /\ g.type = GAME_MAP_SPACE /\ g.owner = GAME_MAP_OWN_NEUTRAL =>
       g.soldier_num = 0
  /\ g.type = GAME_MAP_CASTLE /\ g.owner = GAME_MAP_OWN_NEUTRAL =>
       g.soldier_num <= CASTLE_DEFAULT
  /\ g.type = GAME_MAP_HOME => g.owner # GAME_MAP_OWN_NEUTRAL

\* The map is sane, once there is one.
ArmyInv == game_map # NoMap => \A c \in Cells : Sane(game_map[c])

\* The terrains have different codes, and no player is the neutral owner.
LEMMA TerrainCodes ==
  /\ \A p \in Pids : p # GAME_MAP_OWN_NEUTRAL
  /\ GAME_MAP_HOME \notin OpenTerrain
  /\ GAME_MAP_MOUNTAIN # GAME_MAP_CASTLE
  /\ GAME_MAP_MOUNTAIN # GAME_MAP_SPACE
  /\ GAME_MAP_MOUNTAIN # GAME_MAP_HOME
  /\ GAME_MAP_CASTLE # GAME_MAP_SPACE
  /\ GAME_MAP_CASTLE # GAME_MAP_HOME
  /\ GAME_MAP_SPACE # GAME_MAP_HOME
BY DEF Pids, OpenTerrain, GAME_MAP_OWN_NEUTRAL, GAME_MAP_MOUNTAIN,
  GAME_MAP_CASTLE, GAME_MAP_SPACE, GAME_MAP_HOME

\* genMap makes sane cells.
LEMMA SaneGenGrid ==
  ASSUME NEW h \in [Pids -> Cells], NEW t \in [Cells -> OpenTerrain],
         NEW c \in Cells
  PROVE  Sane(GenGrid(h, t, c))
<1>1. CASE \E p \in Placed : h[p] = c
  <2> DEFINE k == CHOOSE p \in Placed : h[p] = c
  <2>1. k \in Pids
    BY <1>1 DEF Placed
  <2>2. GenGrid(h, t, c) =
          [type |-> GAME_MAP_HOME, owner |-> k, soldier_num |-> 0]
    BY <1>1 DEF GenGrid
  <2> HIDE DEF k
  <2> QED
    BY <2>1, <2>2, TerrainCodes DEF Sane
<1>2. CASE ~ \E p \in Placed : h[p] = c
  BY <1>2, RoomAssumption, TerrainCodes DEF GenGrid, Sane
<1> QED
  BY <1>1, <1>2

\* Growth keeps a cell sane: a neutral castle stops at its garrison.
LEMMA SaneGrowth ==
  ASSUME NEW g \in Grid, Sane(g), NEW r \in Nat
  PROVE  Sane([g EXCEPT !.soldier_num = @ + Growth(g, r)])
BY RoomAssumption, TerrainCodes DEF Sane, Growth, Grid

\* An army entering keeps a cell sane, which fight it may be.
LEMMA SaneEnter ==
  ASSUME NEW g \in Grid, Sane(g), g.type # GAME_MAP_MOUNTAIN,
         NEW p \in Pids, NEW n \in Nat
  PROVE  Sane(Enter(g, p, n))
<1> DEFINE e == Enter(g, p, n)
<1>1. g.soldier_num \in Nat /\ p # GAME_MAP_OWN_NEUTRAL
  BY TerrainCodes DEF Sane, Grid
<1>2. /\ e.type = g.type
      /\ g.owner = p => e.owner = p /\ e.soldier_num = g.soldier_num + n
      /\ g.owner # p /\ n > g.soldier_num =>
           e.owner = p /\ e.soldier_num = n - g.soldier_num
      /\ g.owner # p /\ n <= g.soldier_num =>
           e.owner = g.owner /\ e.soldier_num = g.soldier_num - n
  BY EnterFacts
<1> HIDE DEF e
<1>3. e.owner = p => Sane(e)
  BY <1>1, <1>2, TerrainCodes DEF Sane
<1>4. g.owner # p /\ n <= g.soldier_num => Sane(e)
  BY <1>1, <1>2, RoomAssumption DEF Sane
<1> QED
  BY <1>1, <1>2, <1>3, <1>4 DEF e

\* An army leaving keeps a cell sane: it is not larger than the cell holds.
LEMMA SaneLeave ==
  ASSUME NEW g \in Grid, Sane(g), NEW p \in Pids, g.owner = p,
         NEW n \in 0 .. g.soldier_num
  PROVE  Sane([g EXCEPT !.soldier_num = @ - n])
BY TerrainCodes DEF Sane, Grid

\* An order keeps the whole map sane.
LEMMA SaneExecute ==
  ASSUME NEW p \in Pids, NEW o \in Order, game_map \in [Cells -> Grid],
         \A c \in Cells : Sane(game_map[c])
  PROVE  \A c \in Cells : Sane(Execute(p, o)[c])
<1>1. CASE ~Legal(p, o)
  BY <1>1 DEF Execute
<1>2. CASE Legal(p, o)
  <2> DEFINE s == game_map[Source(o)]
             t == game_map[Target(o)]
             n == Marching(o, s.soldier_num)
  <2>1. /\ Source(o) \in Cells /\ Target(o) \in Cells
        /\ s \in Grid /\ Sane(s) /\ s.owner = p
        /\ t \in Grid /\ Sane(t) /\ t.type # GAME_MAP_MOUNTAIN
    BY <1>2, SourceInCells DEF Legal
  <2>2. s.soldier_num \in Nat
    BY <2>1 DEF Sane, Grid
  <2>3. n \in 0 .. s.soldier_num
    BY <2>2, MarchingBound
  <2>4. Sane([s EXCEPT !.soldier_num = @ - n])
    BY <2>1, <2>3, SaneLeave
  <2>5. Sane(Enter(t, p, n))
    BY <2>1, <2>2, <2>3, SaneEnter
  <2> QED
    BY <1>2, <2>4, <2>5, ExecuteCell
<1> QED
  BY <1>1, <1>2

\* Only genMap, the growth pass and the orders write the map.
LEMMA ArmyStep == TypeInv /\ ArmyInv /\ [Next]_vars => ArmyInv'
<1> SUFFICES ASSUME TypeInv, ArmyInv, [Next]_vars PROVE ArmyInv'
  OBVIOUS
<1>1. ASSUME UNCHANGED game_map PROVE ArmyInv'
  BY <1>1 DEF ArmyInv
<1>2. ASSUME GenMap PROVE ArmyInv'
  BY <1>2, SaneGenGrid DEF GenMap, ArmyInv
<1>3. ASSUME Grow PROVE ArmyInv'
  <2>1. game_map \in [Cells -> Grid] /\ round' \in Nat
    BY <1>3, StateCodes DEF Grow, Playing, TypeInv, PhaseInv, TypeOK
  <2>2. \A c \in Cells : game_map[c] \in Grid /\ Sane(game_map[c])
    BY <2>1, NoMapIsNone DEF ArmyInv
  <2> QED
    BY <1>3, <2>1, <2>2, SaneGrowth DEF Grow, Playing, ArmyInv
<1>4. ASSUME PlayOrder, action_queue[pid] # << >> PROVE ArmyInv'
  <2>1. game_map \in [Cells -> Grid] /\ pid \in Pids
        /\ action_queue[pid] \in Seq(Orders)
    BY <1>4, StateCodes DEF PlayOrder, TypeInv, PhaseInv, TypeOK
  <2>2. Head(action_queue[pid]) \in Order
    BY <1>4, <2>1, RoomAssumption
  <2>3. \A c \in Cells : Sane(game_map[c])
    BY <2>1, NoMapIsNone DEF ArmyInv
  <2> QED
    BY <1>4, <2>1, <2>2, <2>3, SaneExecute DEF PlayOrder, ArmyInv
<1> QED
  BY <1>1, <1>2, <1>3, <1>4
    DEF Next, MainThread, GameThread, Join_Room, Quit_Game, Start_Game,
        Add_Action, PlayOrder, Judge, Decide, vars

\* Every map is sane, always.
LEMMA ArmyAlways == Spec => [](TypeInv /\ ArmyInv)
<1>1. Init => ArmyInv
  BY DEF Init, ArmyInv
<1> QED
  BY <1>1, ArmyStep, TypeInit, TypeStep, PTL DEF Spec

\* No cell ever has a negative number of soldiers: next_round never subtracts more
\* than the cell holds.
THEOREM ArmiesPositive == Spec => []NoNegativeArmy
<1>1. ArmyInv => NoNegativeArmy
  BY DEF ArmyInv, Sane, NoNegativeArmy
<1> QED
  BY <1>1, ArmyAlways, PTL

\* What nobody has conquered stays as genMap made it, through all rounds of growth
\* and all fights of next_round.
THEOREM NeutralStays == Spec => []NeutralGround
<1>1. ArmyInv => NeutralGround
  BY DEF ArmyInv, Sane, NeutralGround
<1> QED
  BY <1>1, ArmyAlways, PTL

-----------------------------------------------------------------------------
(* The orders.                                                             *)

\* Nobody but the owner of a slot queues orders, and a started game keeps him.
LEMMA OrdersStep ==
  TypeInv /\ OrdersHaveOwner /\ [Next]_vars => OrdersHaveOwner'
<1> SUFFICES ASSUME TypeInv, OrdersHaveOwner, [Next]_vars
             PROVE  OrdersHaveOwner'
  OBVIOUS
<1>1. ASSUME action_queue' = action_queue, seated \subseteq seated',
             game_state' = GAME_STATE_WAIT => game_state = GAME_STATE_WAIT
      PROVE  OrdersHaveOwner'
  BY <1>1 DEF OrdersHaveOwner
<1>2. ASSUME Join_Room PROVE OrdersHaveOwner'
  BY <1>1, <1>2 DEF Join_Room, FreeSlots
<1>3. ASSUME NEW p \in Pids, Quit_Game(p) PROVE OrdersHaveOwner'
  BY <1>3 DEF Quit_Game, Vacates, OrdersHaveOwner
<1>4. ASSUME GenMap \/ Start_Game PROVE OrdersHaveOwner'
  BY <1>1, <1>4, StateCodes DEF GenMap, Start_Game
<1>5. ASSUME NEW p \in Pids, NEW o \in Orders, Add_Action(p, o)
      PROVE  OrdersHaveOwner'
  BY <1>5, StateCodes DEF Add_Action, OrdersHaveOwner, mainVars, TypeInv, TypeOK
<1>6. ASSUME PlayOrder PROVE OrdersHaveOwner'
  <2>1. \A p \in Pids : action_queue'[p] # << >> => action_queue[p] # << >>
    BY <1>6 DEF PlayOrder, TypeInv, TypeOK
  <2> QED
    BY <1>6, <2>1 DEF PlayOrder, OrdersHaveOwner, mainVars
<1>7. ASSUME Grow \/ Judge \/ Decide PROVE OrdersHaveOwner'
  BY <1>1, <1>7, StateCodes DEF Grow, Playing, Judge, Decide, mainVars
<1>8. ASSUME UNCHANGED vars PROVE OrdersHaveOwner'
  BY <1>1, <1>8 DEF vars
<1> QED
  BY <1>2, <1>3, <1>4, <1>5, <1>6, <1>7, <1>8 DEF Next, MainThread, GameThread

\* A slot never hands the orders of one player on to the next: Quit_Game frees it
\* only in the lobby, where Add_Action accepts nothing.
THEOREM OrdersStayWithOwner == Spec => []OrdersHaveOwner
<1>1. Init => OrdersHaveOwner
  BY DEF Init, OrdersHaveOwner
<1> QED
  BY <1>1, OrdersStep, TypeInit, TypeStep, PTL DEF Spec

-----------------------------------------------------------------------------
(* Slots without a player, and the verdict.                                *)

\* There is a map.
Built == game_state # GAME_STATE_WAIT \/ main = "starting"

\* What the slots nobody has taken are like: alive in the lobby; in a game
\* they own their home at most, and not even that once they are out, so
\* that whoever joins changes neither the verdict nor the map.
SlotInv ==
  /\ game_state = GAME_STATE_WAIT =>
       \A p \in Pids : player_state[p] = PLAYER_STATE_ALIVE
  /\ Built => \A p \in Pids \ seated :
       /\ player_state[p] # PLAYER_STATE_ALIVE => ~HoldsHome(p)
       /\ \A c \in Cells : game_map[c].owner = p => c = home[p]

\* The standing slots the verdict loop has passed.
Judged(k) == {q \in Standing : q < k}

\* The count of the verdict loop is never below the number of standing slots
\* it has passed, whoever has quit or joined meanwhile.
VerdictInv ==
  /\ pc = "judge" => Cardinality(Judged(pid)) <= player_alive
  /\ pc = "decide" => Cardinality(Standing) <= player_alive
  /\ game_state = GAME_STATE_END => Cardinality(Standing) <= 1

\* p owns no cell; p is alive, though his home has fallen.
Landless(p) == \A c \in Cells : game_map[c].owner # p
Homeless(p) == player_state[p] = PLAYER_STATE_ALIVE /\ ~HoldsHome(p)

\* Slots without a home own nothing, once the verdict loop has passed them.
HomelessInv ==
  /\ pc = "judge" => \A p \in Pids : p < pid /\ Homeless(p) => Landless(p)
  /\ pc = "decide" \/ (pc = "idle" /\ Built) =>
       \A p \in Pids : Homeless(p) => Landless(p)

\* What an order of player p can do to the owners of the cells.
LEMMA OwnersAfterOrder ==
  ASSUME NEW p \in Pids, NEW o \in Order, game_map \in [Cells -> Grid]
  PROVE  \A c \in Cells : Execute(p, o)[c].owner \in {game_map[c].owner, p}
<1>1. CASE ~Legal(p, o)
  BY <1>1 DEF Execute
<1>2. CASE Legal(p, o)
  <2> DEFINE s == game_map[Source(o)]
             n == Marching(o, s.soldier_num)
  <2>1. Source(o) \in Cells /\ Target(o) \in Cells /\ s.soldier_num \in Int
    BY <1>2, SourceInCells DEF Legal, Grid
  <2>2. Execute(p, o)[Source(o)].owner = s.owner
    BY <1>2, <2>1, ExecuteCell DEF Grid
  <2>3. Execute(p, o)[Target(o)].owner \in {game_map[Target(o)].owner, p}
    <3>1. n \in Int /\ game_map[Target(o)] \in Grid
      BY <2>1, MarchingType
    <3>2. Execute(p, o)[Target(o)] = Enter(game_map[Target(o)], p, n)
      BY <1>2, ExecuteCell
    <3> QED
      BY <3>1, <3>2, EnterFacts
  <2> QED
    BY <1>2, <2>2, <2>3, ExecuteCell
<1> QED
  BY <1>1, <1>2

\* One iteration of the order loop: only player pid, who has a seat, gains.
LEMMA OwnersAfterPlayOrder ==
  ASSUME TypeInv, OrdersHaveOwner, PlayOrder
  PROVE  \A c \in Cells :
           \/ game_map'[c].owner = game_map[c].owner
           \/ game_map'[c].owner = pid /\ pid \in seated
<1>1. game_map \in [Cells -> Grid] /\ pid \in Pids
      /\ action_queue[pid] \in Seq(Orders)
  BY StateCodes DEF PlayOrder, TypeInv, PhaseInv, TypeOK
<1>2. CASE action_queue[pid] = << >>
  BY <1>2 DEF PlayOrder
<1>3. CASE action_queue[pid] # << >>
  <2>1. Head(action_queue[pid]) \in Order /\ pid \in seated
    BY <1>1, <1>3, RoomAssumption DEF OrdersHaveOwner
  <2> QED
    BY <1>1, <1>3, <2>1, OwnersAfterOrder DEF PlayOrder
<1> QED
  BY <1>2, <1>3

\* The growth pass moves no border.
LEMMA OwnersAfterGrow ==
  ASSUME TypeInv, Grow
  PROVE  \A c \in Cells : game_map'[c].owner = game_map[c].owner
<1>1. game_map \in [Cells -> Grid]
  BY StateCodes DEF Grow, Playing, TypeInv, PhaseInv
<1> QED
  BY <1>1 DEF Grow, Playing, Grid

\* genMap gives every placed slot its home and nothing else.
LEMMA OwnersAfterGenMap ==
  ASSUME TypeInv, GenMap
  PROVE  /\ \A p \in Placed : game_map'[home'[p]].owner = p
         /\ \A c \in Cells, p \in Pids : game_map'[c].owner = p =>
              p \in Placed /\ home'[p] = c
<1>1. PICK h \in [Pids -> Cells], t \in [Cells -> OpenTerrain] :
        /\ \A p, q \in Placed : h[p] = h[q] => p = q
        /\ home' = h
        /\ game_map' = [c \in Cells |-> GenGrid(h, t, c)]
  BY DEF GenMap
<1>2. ASSUME NEW p \in Placed PROVE game_map'[h[p]].owner = p
  <2>1. h[p] \in Cells
    BY DEF Placed
  <2>2. (CHOOSE q \in Placed : h[q] = h[p]) = p
    BY <1>1
  <2>3. GenGrid(h, t, h[p]).owner = p
    BY <2>2 DEF GenGrid
  <2> QED
    BY <1>1, <2>1, <2>3
<1>3. ASSUME NEW c \in Cells, NEW p \in Pids, game_map'[c].owner = p
      PROVE  p \in Placed /\ h[p] = c
  <2>1. GenGrid(h, t, c).owner = p
    BY <1>1, <1>3
  <2>2. \E q \in Placed : h[q] = c
    BY <2>1, TerrainCodes DEF GenGrid
  <2>3. p = CHOOSE q \in Placed : h[q] = c
    BY <2>1, <2>2 DEF GenGrid
  <2> QED
    BY <2>2, <2>3
<1> QED
  BY <1>1, <1>2, <1>3

\* The free slots stay as they are; only who has a seat conquers anything.
LEMMA SlotStep ==
  TypeInv /\ OrdersHaveOwner /\ SlotInv /\ [Next]_vars => SlotInv'
<1> SUFFICES ASSUME TypeInv, OrdersHaveOwner, SlotInv, [Next]_vars
             PROVE  SlotInv'
  OBVIOUS
<1>1. ASSUME UNCHANGED <<game_state, main, seated, player_state, home,
                         game_map>>
      PROVE  SlotInv'
  BY <1>1 DEF SlotInv, Built, HoldsHome
<1>2. ASSUME Join_Room PROVE SlotInv'
  BY <1>2 DEF Join_Room, FreeSlots, SlotInv, Built, HoldsHome, TypeInv, TypeOK
<1>3. ASSUME NEW p \in Pids, Quit_Game(p) PROVE SlotInv'
  <2>1. CASE game_state = GAME_STATE_WAIT
    BY <1>3, <2>1 DEF Quit_Game, Vacates, SlotInv, Built, TypeInv, TypeOK
  <2>2. CASE game_state # GAME_STATE_WAIT
    BY <1>3, <2>2 DEF Quit_Game, Vacates, SlotInv, Built, HoldsHome, TypeInv, TypeOK
  <2> QED
    BY <2>1, <2>2
<1>4. ASSUME GenMap PROVE SlotInv'
  BY <1>4, OwnersAfterGenMap DEF GenMap, SlotInv, Built
<1>5. ASSUME Start_Game PROVE SlotInv'
  BY <1>5, StateCodes DEF Start_Game, SlotInv, Built, HoldsHome
<1>10. ASSUME UNCHANGED <<game_state, main, seated, player_state, home>>,
              game_state = GAME_STATE_INGAME,
              \A p \in Pids \ seated, c \in Cells :
                game_map'[c].owner = p => game_map[c].owner = p
       PROVE  SlotInv'
  <2>1. Built /\ game_state' # GAME_STATE_WAIT
    BY <1>10, StateCodes DEF Built
  <2>2. ASSUME NEW p \in Pids \ seated
        PROVE  /\ player_state[p] # PLAYER_STATE_ALIVE =>
                    game_map'[home[p]].owner # p
               /\ \A c \in Cells : game_map'[c].owner = p => c = home[p]
    <3>1. home[p] \in Cells
      BY DEF TypeInv, TypeOK
    <3> QED
      BY <1>10, <2>1, <3>1 DEF SlotInv, HoldsHome
  <2> QED
    BY <1>10, <2>1, <2>2 DEF SlotInv, HoldsHome
<1>6. ASSUME Grow PROVE SlotInv'
  BY <1>6, <1>10, OwnersAfterGrow DEF Grow, Playing, mainVars
<1>7. ASSUME PlayOrder PROVE SlotInv'
  <2>1. game_state = GAME_STATE_INGAME
    BY <1>7 DEF PlayOrder, TypeInv, PhaseInv
  <2>2. \A p \in Pids \ seated, c \in Cells :
          game_map'[c].owner = p => game_map[c].owner = p
    BY <1>7, OwnersAfterPlayOrder
  <2> QED
    BY <1>7, <1>10, <2>1, <2>2 DEF PlayOrder, mainVars
<1>8. ASSUME Judge PROVE SlotInv'
  BY <1>8, StateCodes
    DEF Judge, Verdict, Stands, SlotInv, Built, HoldsHome, mainVars, TypeInv, TypeOK, PhaseInv
<1>9. ASSUME Decide PROVE SlotInv'
  BY <1>9, StateCodes
    DEF Decide, Over, SlotInv, Built, HoldsHome, TypeInv, TypeOK, PhaseInv
<1> QED
  BY <1>1, <1>2, <1>3, <1>4, <1>5, <1>6, <1>7, <1>8, <1>9
    DEF Next, MainThread, GameThread, Add_Action, mainVars, gameVars, vars

\* The standing slots can be counted.
LEMMA StandingFinite == IsFiniteSet(Standing) /\ Cardinality(Standing) \in Nat
BY PidFacts, FS_Subset, FS_CardinalityType DEF Standing, Stands

\* So can those the verdict loop has passed.
LEMMA JudgedFinite ==
  \A k : IsFiniteSet(Judged(k)) /\ Cardinality(Judged(k)) \in Nat
BY StandingFinite, FS_Subset, FS_CardinalityType DEF Judged

\* The verdict holds on if no slot starts to stand and the game thread rests.
LEMMA VerdictKept ==
  ASSUME TypeInv, VerdictInv, Standing' \subseteq Standing,
         UNCHANGED <<pc, pid, player_alive>>,
         game_state' = GAME_STATE_END => game_state = GAME_STATE_END
  PROVE  VerdictInv'
<1>1. Judged(pid)' \subseteq Judged(pid)
  BY DEF Judged
<1>2. Cardinality(Judged(pid)') <= Cardinality(Judged(pid))
  BY <1>1, JudgedFinite, FS_Subset
<1>3. Cardinality(Standing') <= Cardinality(Standing)
  BY StandingFinite, FS_Subset
<1>4. /\ Cardinality(Judged(pid)) \in Nat /\ Cardinality(Judged(pid)') \in Nat
      /\ Cardinality(Standing) \in Nat /\ Cardinality(Standing') \in Nat
      /\ player_alive \in Nat
  BY <1>1, JudgedFinite, StandingFinite, FS_Subset, FS_CardinalityType
    DEF TypeInv, TypeOK
<1> QED
  BY <1>2, <1>3, <1>4 DEF VerdictInv

\* The verdict loop passes one slot.
LEMMA JudgedNext ==
  ASSUME NEW k \in Nat
  PROVE  /\ k \notin Standing => Judged(k + 1) = Judged(k)
         /\ k \in Standing => Judged(k + 1) = Judged(k) \cup {k}
         /\ k \notin Judged(k)
<1>1. Standing \subseteq Nat
  BY PidFacts DEF Standing, Stands
<1>2. \A q \in Nat : q < k + 1 <=> q < k \/ q = k
  OBVIOUS
<1>3. k \notin Judged(k)
  BY DEF Judged
<1>4. \A q : q \in Judged(k + 1) <=> q \in Judged(k) \/ (q \in Standing /\ q = k)
  BY <1>1, <1>2 DEF Judged
<1> QED
  BY <1>3, <1>4

\* One iteration of the verdict loop counts the slot it passes if it stands.
LEMMA VerdictJudge ==
  ASSUME TypeInv, VerdictInv, Judge
  PROVE  VerdictInv'
<1>1. /\ pid \in Pids /\ pid \in Nat /\ player_alive \in Nat
      /\ game_state' = GAME_STATE_INGAME
      /\ player_state \in [Pids -> PlayerStates]
  BY PidFacts DEF Judge, Verdict, Stands, TypeInv, TypeOK, PhaseInv, mainVars
<1>2. Cardinality(Judged(pid)) <= player_alive
  BY DEF Judge, Verdict, Stands, VerdictInv
<1>3. Standing' = Standing
  <2>1. ASSUME NEW p \in Pids
        PROVE  /\ HoldsHome(p)' <=> HoldsHome(p)
               /\ HoldsHome(p) => player_state'[p] = player_state[p]
               /\ player_state'[p] = PLAYER_STATE_ALIVE =>
                    player_state[p] = PLAYER_STATE_ALIVE
    BY <1>1 DEF Judge, Verdict, Stands, HoldsHome, PLAYER_STATE_ALIVE, PLAYER_STATE_DEAD
  <2> QED
    BY <2>1 DEF Standing, Stands
<1>4. Cardinality(Judged(pid + 1)) <= player_alive' /\ player_alive' \in Nat
  <2>1. CASE pid \notin Standing
    <3>1. Judged(pid + 1) = Judged(pid)
      BY <1>1, <2>1, JudgedNext
    <3>2. player_alive' = player_alive
      BY <1>1, <2>1 DEF Judge, Standing, Stands, HoldsHome
    <3> QED
      BY <1>1, <1>2, <3>1, <3>2
  <2>2. CASE pid \in Standing
    <3>1. Judged(pid + 1) = Judged(pid) \cup {pid} /\ pid \notin Judged(pid)
      BY <1>1, <2>2, JudgedNext
    <3>2. Cardinality(Judged(pid + 1)) = Cardinality(Judged(pid)) + 1
      BY <3>1, JudgedFinite, FS_AddElement
    <3>3. player_alive' = player_alive + 1
      BY <1>1, <2>2 DEF Judge, Standing, Stands, HoldsHome
    <3> QED
      BY <1>1, <1>2, <3>2, <3>3, JudgedFinite
  <2> QED
    BY <2>1, <2>2
<1>5. \/ pc' = "judge" /\ pid' = pid + 1
      \/ pc' = "decide" /\ pid + 1 = PlayerNumber
  BY <1>1, NextPidFacts DEF Judge, Verdict, Stands
<1>6. CASE pc' = "judge" /\ pid' = pid + 1
  <2>1. Judged(pid)' = Judged(pid + 1)
    BY <1>3, <1>6 DEF Judged
  <2> QED
    BY <1>1, <1>4, <1>6, <2>1, StateCodes DEF VerdictInv
<1>7. CASE pc' = "decide" /\ pid + 1 = PlayerNumber
  <2>1. Standing' = Judged(pid + 1)
    BY <1>3, <1>7, RoomAssumption DEF Judged, Standing, Pids
  <2> QED
    BY <1>1, <1>4, <1>7, <2>1, StateCodes DEF VerdictInv
<1> QED
  BY <1>5, <1>6, <1>7

\* The verdict survives everything the main thread does beside the loop.
LEMMA VerdictStep ==
  TypeInv /\ SlotInv /\ VerdictInv /\ [Next]_vars => VerdictInv'
<1> SUFFICES ASSUME TypeInv, SlotInv, VerdictInv, [Next]_vars
             PROVE  VerdictInv'
  OBVIOUS
<1>1. ASSUME pc' \notin {"judge", "decide"}, game_state' # GAME_STATE_END
      PROVE  VerdictInv'
  BY <1>1 DEF VerdictInv
<1>2. game_state = GAME_STATE_WAIT => pc = "idle"
  BY StateCodes DEF TypeInv, PhaseInv
<1>3. ASSUME Join_Room PROVE VerdictInv'
  <2>1. CASE game_state = GAME_STATE_WAIT
    BY <1>1, <1>2, <1>3, <2>1, StateCodes DEF Join_Room, FreeSlots, gameVars
  <2>2. CASE game_state # GAME_STATE_WAIT
    <3>1. Standing' \subseteq Standing
      BY <1>3, <2>2
        DEF Join_Room, FreeSlots, SlotInv, Built, Standing, Stands, HoldsHome, TypeInv, TypeOK
    <3> QED
      BY <1>3, <3>1, VerdictKept DEF Join_Room, FreeSlots, gameVars
  <2> QED
    BY <2>1, <2>2
<1>4. ASSUME NEW p \in Pids, Quit_Game(p) PROVE VerdictInv'
  <2>1. CASE game_state = GAME_STATE_WAIT
    BY <1>1, <1>2, <1>4, <2>1, StateCodes DEF Quit_Game, Vacates, gameVars
  <2>2. CASE game_state # GAME_STATE_WAIT
    <3>1. Standing' \subseteq Standing
      BY <1>4, <2>2
        DEF Quit_Game, Vacates, Standing, Stands, HoldsHome, TypeInv, TypeOK,
            PLAYER_STATE_ALIVE, PLAYER_STATE_QUITED
    <3> QED
      BY <1>4, <3>1, VerdictKept DEF Quit_Game, Vacates, gameVars
  <2> QED
    BY <2>1, <2>2
<1>5. ASSUME GenMap PROVE VerdictInv'
  BY <1>1, <1>2, <1>5, StateCodes DEF GenMap, gameVars
<1>6. ASSUME Start_Game PROVE VerdictInv'
  BY <1>1, <1>2, <1>6, StateCodes DEF Start_Game, gameVars, TypeInv, PhaseInv
<1>7. ASSUME Grow PROVE VerdictInv'
  BY <1>1, <1>7, StateCodes DEF Grow, Playing, mainVars
<1>8. ASSUME PlayOrder PROVE VerdictInv'
  <2>1. /\ game_state' = GAME_STATE_INGAME /\ player_alive' = 0
        /\ pc' = "orders" \/ (pc' = "judge" /\ pid' = 0)
    BY <1>8, NextPidFacts
      DEF PlayOrder, TypeInv, TypeOK, PhaseInv, mainVars
  <2>2. CASE pc' = "judge" /\ pid' = 0
    <3>1. Judged(pid)' = {}
      <4>1. Standing' \subseteq Nat
        BY PidFacts DEF Standing, Stands
      <4>2. \A q \in Nat : ~(q < pid')
        BY <2>2
      <4>3. \A q : q \notin Judged(pid)'
        BY <4>1, <4>2 DEF Judged
      <4> QED
        BY <4>3
    <3> QED
      BY <2>1, <2>2, <3>1, FS_EmptySet, StateCodes DEF VerdictInv
  <2> QED
    BY <1>1, <2>1, <2>2, StateCodes
<1>9. ASSUME Judge PROVE VerdictInv'
  BY <1>9, VerdictJudge
<1>10. ASSUME Decide PROVE VerdictInv'
  <2>1. Standing' = Standing /\ Cardinality(Standing) <= player_alive
    BY <1>10 DEF Decide, Over, VerdictInv, Standing, Stands, HoldsHome
  <2>2. pc' = "idle" /\ (game_state' = GAME_STATE_END => player_alive <= 1)
    BY <1>10, StateCodes DEF Decide, Over, TypeInv, PhaseInv
  <2> QED
    BY <2>1, <2>2, StandingFinite DEF VerdictInv, TypeInv, TypeOK
<1>11. ASSUME UNCHANGED <<game_state, player_state, home, game_map, gameVars>>
       PROVE  VerdictInv'
  BY <1>11 DEF VerdictInv, Judged, Standing, Stands, HoldsHome, gameVars
<1> QED
  BY <1>3, <1>4, <1>5, <1>6, <1>7, <1>8, <1>9, <1>10, <1>11
    DEF Next, MainThread, GameThread, Add_Action, mainVars, gameVars, vars

-----------------------------------------------------------------------------
(* Players without a home.                                                 *)

\* A fallen player loses his land, or his life, before the round ends.
LEMMA HomelessStep ==
  TypeInv /\ OrdersHaveOwner /\ SlotInv /\ HomelessInv /\ [Next]_vars
    => HomelessInv'
<1> SUFFICES ASSUME TypeInv, OrdersHaveOwner, SlotInv, HomelessInv,
                    [Next]_vars
             PROVE  HomelessInv'
  OBVIOUS
<1>0. game_state = GAME_STATE_WAIT /\ main = "idle" => pc = "idle" /\ ~Built
  BY StateCodes DEF TypeInv, PhaseInv, Built
<1>1. ASSUME pc' = "idle", ~Built' PROVE HomelessInv'
  BY <1>1 DEF HomelessInv
<1>2. ASSUME UNCHANGED <<pc, pid, game_map>>, Built' => Built,
             \A p \in Pids : Homeless(p)' => Homeless(p) \/ Landless(p)
      PROVE  HomelessInv'
  BY <1>2 DEF HomelessInv, Landless
<1>3. ASSUME Join_Room PROVE HomelessInv'
  <2>1. CASE ~Built
    BY <1>1, <1>0, <1>3, <2>1 DEF Join_Room, FreeSlots, Built, gameVars, TypeInv, TypeOK
  <2>2. CASE Built
    <3>1. PICK p \in Pids \ seated :
            player_state' = [player_state EXCEPT ![p] = PLAYER_STATE_ALIVE]
      BY <1>3 DEF Join_Room, FreeSlots
    <3>2. ASSUME NEW q \in Pids, Homeless(q)'
          PROVE  Homeless(q) \/ Landless(q)
      <4>1. ~HoldsHome(q) /\ home[q] \in Cells
        BY <1>3, <3>2 DEF Join_Room, FreeSlots, Homeless, HoldsHome, TypeInv, TypeOK
      <4>2. CASE q = p
        BY <2>2, <4>1, <4>2 DEF SlotInv, Landless, HoldsHome
      <4>3. CASE q # p
        BY <3>1, <3>2, <4>1, <4>3 DEF Homeless, TypeInv, TypeOK
      <4> QED
        BY <4>2, <4>3
    <3> QED
      BY <1>2, <1>3, <2>2, <3>2 DEF Join_Room, FreeSlots, gameVars
  <2> QED
    BY <2>1, <2>2
<1>4. ASSUME NEW p \in Pids, Quit_Game(p) PROVE HomelessInv'
  <2>1. CASE game_state = GAME_STATE_WAIT
    BY <1>0, <1>1, <1>4, <2>1 DEF Quit_Game, Vacates, Built, gameVars
  <2>2. CASE game_state # GAME_STATE_WAIT
    <3>1. \A q \in Pids : Homeless(q)' => Homeless(q)
      BY <1>4, <2>2
        DEF Quit_Game, Vacates, Homeless, HoldsHome, TypeInv, TypeOK,
            PLAYER_STATE_ALIVE, PLAYER_STATE_QUITED
    <3> QED
      BY <1>2, <1>4, <2>2, <3>1 DEF Quit_Game, Vacates, Built, gameVars
  <2> QED
    BY <2>1, <2>2
<1>5. ASSUME GenMap PROVE HomelessInv'
  <2>1. pc' = "idle"
    BY <1>0, <1>5 DEF GenMap, gameVars
  <2>2. \A p \in Pids : Homeless(p)' => Landless(p)'
    BY <1>5, OwnersAfterGenMap DEF Homeless, HoldsHome, Landless
  <2> QED
    BY <2>1, <2>2 DEF HomelessInv
<1>6. ASSUME Start_Game PROVE HomelessInv'
  BY <1>2, <1>6 DEF Start_Game, Built, gameVars, Homeless, HoldsHome
<1>7. ASSUME Grow PROVE HomelessInv'
  BY <1>7 DEF Grow, Playing, HomelessInv
<1>8. ASSUME PlayOrder PROVE HomelessInv'
  <2>1. pc' = "orders" \/ (pc' = "judge" /\ pid' = 0)
    BY <1>8, NextPidFacts DEF PlayOrder, TypeInv, TypeOK
  <2>2. \A p \in Pids : ~(p < 0)
    BY DEF Pids
  <2> QED
    BY <2>1, <2>2 DEF HomelessInv
<1>9. ASSUME Judge PROVE HomelessInv'
  <2>1. /\ pid \in Pids
        /\ player_state \in [Pids -> PlayerStates]
    BY DEF TypeInv, TypeOK
  <2>2. \A p \in Pids : Homeless(p)' => Homeless(p) /\ p # pid
    BY <1>9, <2>1
      DEF Judge, Verdict, Stands, Homeless, HoldsHome, PLAYER_STATE_ALIVE, PLAYER_STATE_DEAD
  <2>3. \A p \in Pids : Landless(p)' <=> Landless(p)
    BY <1>9 DEF Judge, Verdict, Stands, Landless
  <2>4. \A p \in Pids : p < pid /\ Homeless(p) => Landless(p)
    BY <1>9 DEF Judge, Verdict, Stands, HomelessInv
  <2>5. \/ pc' = "judge" /\ pid' = pid + 1
        \/ pc' = "decide" /\ pid + 1 = PlayerNumber
    BY <1>9, <2>1, NextPidFacts DEF Judge, Verdict, Stands
  <2>6. \A p \in Pids : p < pid + 1 => p < pid \/ p = pid
    BY <2>1 DEF Pids
  <2>7. \A p \in Pids : p < pid + 1 /\ Homeless(p)' => Landless(p)'
    BY <2>2, <2>3, <2>4, <2>6
  <2>8. pid + 1 = PlayerNumber => \A p \in Pids : p < pid + 1
    BY RoomAssumption DEF Pids
  <2> QED
    BY <2>5, <2>7, <2>8 DEF HomelessInv
<1>10. ASSUME Decide PROVE HomelessInv'
  BY <1>10 DEF Decide, Over, HomelessInv, Homeless, HoldsHome, Landless
<1>11. ASSUME UNCHANGED <<game_state, main, player_state, home, game_map,
                          gameVars>>
       PROVE  HomelessInv'
  BY <1>11 DEF HomelessInv, Built, Homeless, HoldsHome, Landless, gameVars
<1> QED
  BY <1>3, <1>4, <1>5, <1>6, <1>7, <1>8, <1>9, <1>10, <1>11
    DEF Next, MainThread, GameThread, Add_Action, mainVars, gameVars, vars

-----------------------------------------------------------------------------
(* The outcome.                                                            *)

\* The inductive invariant of a room.
RoomInv == TypeInv /\ OrdersHaveOwner /\ SlotInv /\ VerdictInv /\ HomelessInv

\* The room invariant holds in every reachable state.
LEMMA RoomAlways == Spec => []RoomInv
<1>1. Init => RoomInv
  <2> SUFFICES ASSUME Init PROVE RoomInv
    OBVIOUS
  <2>1. TypeInv
    BY TypeInit
  <2>2. OrdersHaveOwner
    BY DEF Init, OrdersHaveOwner
  <2>3. SlotInv /\ VerdictInv /\ HomelessInv
    BY StateCodes DEF Init, SlotInv, VerdictInv, HomelessInv, Built
  <2> QED
    BY <2>1, <2>2, <2>3 DEF RoomInv
<1>2. RoomInv /\ [Next]_vars => RoomInv'
  BY TypeStep, OrdersStep, SlotStep, VerdictStep, HomelessStep DEF RoomInv
<1> QED
  BY <1>1, <1>2, PTL DEF Spec

\* When next_round ends the game at most one player is left standing, however the
\* quits and joins of the main thread fell into its verdict loop.
THEOREM OneWinner == Spec => []AtMostOneWinner
<1>1. RoomInv => AtMostOneWinner
  BY DEF RoomInv, VerdictInv, AtMostOneWinner
<1> QED
  BY <1>1, RoomAlways, PTL

\* Between two rounds a player who is ALIVE without his home owns no land, even if
\* Join_Room has just put him into a slot whose home had fallen.
THEOREM HomelessOwnNothing == Spec => []NoHomelessArmy
<1>1. RoomInv => NoHomelessArmy
  BY StateCodes
    DEF RoomInv, HomelessInv, NoHomelessArmy, Homeless, Landless, Built,
        TypeInv, TypeOK, PhaseInv
<1> QED
  BY <1>1, RoomAlways, PTL

\* A player whom Quit_Game or next_round has put out comes back only as somebody
\* new, whom Join_Room puts into a free slot.
THEOREM OutStaysOut == Spec => OutIsOut
<1> DEFINE Out == \A p \in Pids :
                    player_state[p] # PLAYER_STATE_ALIVE
                      /\ player_state'[p] = PLAYER_STATE_ALIVE
                    => p \notin seated /\ p \in seated'
<1>1. RoomInv /\ [Next]_vars => Out
  <2> SUFFICES ASSUME RoomInv, [Next]_vars PROVE Out
    OBVIOUS
  <2>0. TypeInv /\ SlotInv /\ player_state \in [Pids -> PlayerStates]
    BY DEF RoomInv, TypeInv, TypeOK
  <2>1. CASE Join_Room
    BY <2>0, <2>1 DEF Join_Room, FreeSlots
  <2>2. ASSUME NEW p \in Pids, Quit_Game(p) PROVE Out
    BY <2>0, <2>2
      DEF Quit_Game, Vacates, SlotInv, PLAYER_STATE_ALIVE, PLAYER_STATE_QUITED
  <2>3. CASE Judge
    BY <2>0, <2>3
      DEF Judge, Verdict, PLAYER_STATE_ALIVE, PLAYER_STATE_DEAD
  <2>4. ASSUME UNCHANGED player_state PROVE Out
    BY <2>4
  <2> QED
    BY <2>1, <2>2, <2>3, <2>4
      DEF Next, MainThread, GameThread, GenMap, Start_Game, Add_Action, Grow,
          PlayOrder, Decide, vars
<1>2. RoomInv /\ [Next]_vars => [Out]_player_state
  BY <1>1
<1> QED
  BY <1>2, RoomAlways, PTL DEF Spec, OutIsOut

-----------------------------------------------------------------------------
(* The soldiers on the map.                                                *)

\* The soldiers of o in each cell of m.
Forces(m, o) == [c \in Cells |-> IF m[c].owner = o THEN m[c].soldier_num ELSE 0]

\* The map is finite.
LEMMA CellsFinite ==
  IsFiniteSet(Cells) /\ Cardinality(Cells) = SizeX * SizeY
<1> DEFINE X == 0 .. SizeX - 1
           Y == 0 .. SizeY - 1
<1>1. IsFiniteSet(X) /\ Cardinality(X) = SizeX
  BY BoardAssumption, FS_Interval
<1>2. IsFiniteSet(Y) /\ Cardinality(Y) = SizeY
  BY BoardAssumption, FS_Interval
<1> HIDE DEF X, Y
<1>3. IsFiniteSet(X \X Y) /\ Cardinality(X \X Y) = Cardinality(X) * Cardinality(Y)
  BY <1>1, <1>2, FS_Product
<1> QED
  BY <1>1, <1>2, <1>3 DEF Cells, X, Y

\* An army is a sum of integers over the cells.
LEMMA ArmySum ==
  ASSUME NEW m \in [Cells -> Grid], NEW o
  PROVE  /\ Army(m, o) = SumFunctionOnSet(Forces(m, o), Cells)
         /\ \A c \in Cells : Forces(m, o)[c] \in Int
         /\ Army(m, o) \in Int
<1>1. DOMAIN m = Cells /\ DOMAIN Forces(m, o) = Cells
  BY DEF Forces
<1>2. \A c \in Cells : Forces(m, o)[c] \in Int
  BY DEF Forces, Grid
<1>3. Army(m, o) = SumFunctionOnSet(Forces(m, o), Cells)
  BY <1>1 DEF Army, SumFunction, Forces
<1>4. SumFunctionOnSet(Forces(m, o), Cells) \in Int
  BY <1>1, <1>2, CellsFinite, SumType
<1> QED
  BY <1>2, <1>3, <1>4

\* The sum, with two cells taken out.
LEMMA TakeTwo ==
  ASSUME NEW m \in [Cells -> Grid], NEW o, NEW a \in Cells, NEW b \in Cells, a # b
  PROVE  LET f == Forces(m, o)
             rest == SumFunctionOnSet(f, (Cells \ {a}) \ {b})
         IN  rest \in Int /\ Army(m, o) = f[a] + (f[b] + rest)
<1> DEFINE f == Forces(m, o)
<1>1. \A c \in Cells : f[c] \in Int
  BY ArmySum
<1>2. IsFiniteSet(Cells) /\ IsFiniteSet(Cells \ {a}) /\ IsFiniteSet((Cells \ {a}) \ {b})
  BY CellsFinite, FS_Subset
<1>3. Army(m, o) = SumFunctionOnSet(f, Cells)
  BY ArmySum
<1> HIDE DEF f
<1>4. SumFunctionOnSet(f, Cells) = f[a] + SumFunctionOnSet(f, Cells \ {a})
  BY <1>1, <1>2, SumTake
<1>5. SumFunctionOnSet(f, Cells \ {a}) = f[b] + SumFunctionOnSet(f, (Cells \ {a}) \ {b})
  BY <1>1, <1>2, SumTake
<1>6. SumFunctionOnSet(f, (Cells \ {a}) \ {b}) \in Int
  BY <1>1, <1>2, SumType
<1> QED
  BY <1>3, <1>4, <1>5, <1>6 DEF f

\* When only two cells change, they account for all that an owner loses.
LEMMA TwoCells ==
  ASSUME NEW m \in [Cells -> Grid], NEW n \in [Cells -> Grid], NEW o,
         NEW a \in Cells, NEW b \in Cells, a # b,
         \A c \in Cells \ {a, b} : n[c] = m[c]
  PROVE  Army(m, o) - Army(n, o) =
           (Forces(m, o)[a] + Forces(m, o)[b]) - (Forces(n, o)[a] + Forces(n, o)[b])
<1> DEFINE R == (Cells \ {a}) \ {b}
           f(k) == Forces(k, o)
           rest(k) == SumFunctionOnSet(Forces(k, o), R)
<1>1. rest(m) = rest(n)
  <2>1. \A c \in R : Forces(m, o)[c] = Forces(n, o)[c]
    BY DEF Forces
  <2>2. IsFiniteSet(R)
    BY CellsFinite, FS_Subset
  <2> HIDE DEF R
  <2> QED
    BY <2>1, <2>2, SumSame
<1>2. ASSUME NEW k \in [Cells -> Grid]
      PROVE  rest(k) \in Int /\ Army(k, o) = f(k)[a] + (f(k)[b] + rest(k))
  BY TakeTwo
<1>3. f(m)[a] \in Int /\ f(m)[b] \in Int /\ f(n)[a] \in Int /\ f(n)[b] \in Int
  BY ArmySum
<1> HIDE DEF rest, f
<1>4. Army(m, o) - Army(n, o) = (f(m)[a] + f(m)[b]) - (f(n)[a] + f(n)[b])
  BY <1>1, <1>2, <1>3
<1> QED
  BY <1>4 DEF f

\* A round of growth gives an owner at most one soldier per cell.
LEMMA ArmyGrow ==
  ASSUME TypeInv, Grow, NEW o \in Owners
  PROVE  Army(game_map', o) - Army(game_map, o) \in 0 .. SizeX * SizeY
<1>1. /\ game_map \in [Cells -> Grid] /\ game_map' \in [Cells -> Grid]
      /\ round' \in Nat
  BY TypeStep, StateCodes, NoMapIsNone
    DEF Grow, Playing, TypeInv, PhaseInv, TypeOK, Next, GameThread, mainVars
<1>2. ASSUME NEW c \in Cells
      PROVE  Forces(game_map', o)[c] - Forces(game_map, o)[c] \in 0 .. 1
  <2>1. game_map[c] \in Grid /\ game_map[c].soldier_num \in Int
    BY <1>1 DEF Grid
  <2>2. Growth(game_map[c], round') \in {0, 1}
    BY <1>1, <2>1, GrowthBound
  <2>3. game_map'[c] = [game_map[c] EXCEPT !.soldier_num = @ + Growth(game_map[c], round')]
    BY DEF Grow
  <2>4. /\ game_map'[c].soldier_num = game_map[c].soldier_num + Growth(game_map[c], round')
        /\ game_map'[c].owner = game_map[c].owner
    BY <2>1, <2>3 DEF Grid
  <2> QED
    BY <2>1, <2>2, <2>4 DEF Forces
<1>3. \A c \in Cells :
        /\ Forces(game_map, o)[c] \in Int /\ Forces(game_map', o)[c] \in Int
        /\ Forces(game_map', o)[c] - Forces(game_map, o)[c] \in 0 .. 1
  BY <1>1, <1>2, ArmySum
<1>4. SumFunctionOnSet(Forces(game_map', o), Cells) - SumFunctionOnSet(Forces(game_map, o), Cells)
        \in 0 .. Cardinality(Cells)
  BY <1>3, CellsFinite, SumGrows
<1> QED
  BY <1>1, <1>4, CellsFinite, ArmySum

\* What each owner loses by a legal order of p into a cell of q: nothing if
\* it is p's own, and else n on either side.
LEMMA OrderLosses ==
  ASSUME NEW p \in Pids, NEW o \in Order, game_map \in [Cells -> Grid],
         \A c \in Cells : Sane(game_map[c]), Legal(p, o)
  PROVE  \E n \in Nat : \A w \in Owners :
           Army(game_map, w) - Army(Execute(p, o), w) =
             IF /\ game_map[Target(o)].owner # p
                /\ w \in {p, game_map[Target(o)].owner}
             THEN n ELSE 0
<1> DEFINE a == Source(o)
           b == Target(o)
           g == game_map
           s == g[a].soldier_num
           t == g[b].soldier_num
           q == g[b].owner
           n == Marching(o, s)
           m == Execute(p, o)
           Lost(w) == Army(g, w) - Army(m, w)
<1>1. /\ a \in Cells /\ b \in Cells /\ a # b /\ g[a] \in Grid /\ g[b] \in Grid
      /\ s \in Nat /\ t \in Nat /\ g[a].owner = p
  BY SourceInCells, SourceNotTarget DEF Legal, Sane, Grid
<1>2. n \in Nat
  BY <1>1, MarchingBound
<1>3. /\ m \in [Cells -> Grid]
      /\ m[a] = [g[a] EXCEPT !.soldier_num = @ - n]
      /\ m[b] = Enter(g[b], p, n)
      /\ \A c \in Cells \ {a, b} : m[c] = g[c]
  BY ExecuteCell
<1>4. m[a].soldier_num = s - n /\ m[a].owner = p
  BY <1>1, <1>3 DEF Grid
<1>5. /\ q # p /\ n <= t => m[b].soldier_num = t - n /\ m[b].owner = q
      /\ q # p /\ n > t => m[b].soldier_num = n - t /\ m[b].owner = p
      /\ q = p => m[b].soldier_num = t + n /\ m[b].owner = p
  BY <1>1, <1>2, <1>3, EnterFacts
<1>6. ASSUME NEW w \in Owners
      PROVE  Lost(w) = (Forces(g, w)[a] + Forces(g, w)[b])
                       - (Forces(m, w)[a] + Forces(m, w)[b])
  BY <1>1, <1>3, TwoCells
<1>7. ASSUME NEW w \in Owners
      PROVE  /\ Forces(g, w)[a] = IF w = p THEN s ELSE 0
             /\ Forces(g, w)[b] = IF w = q THEN t ELSE 0
             /\ Forces(m, w)[a] = IF w = p THEN s - n ELSE 0
             /\ Forces(m, w)[b] = IF w = m[b].owner THEN m[b].soldier_num ELSE 0
  BY <1>1, <1>4 DEF Forces
<1> HIDE DEF a, b, g, s, t, q, n, m, Lost
<1>8. CASE q = p
  <2>1. \A w \in Owners : Lost(w) = 0
    BY <1>1, <1>2, <1>4, <1>5, <1>6, <1>7, <1>8
  <2> QED
    BY <1>8, <2>1 DEF Lost, q, g, m, b
<1>9. CASE q # p /\ n <= t
  <2>1. \A w \in Owners : Lost(w) = IF w \in {p, q} THEN n ELSE 0
    BY <1>1, <1>2, <1>4, <1>5, <1>6, <1>7, <1>9
  <2> QED
    BY <1>2, <1>9, <2>1 DEF Lost, q, g, m, b
<1>10. CASE q # p /\ n > t
  <2>1. \A w \in Owners : Lost(w) = IF w \in {p, q} THEN t ELSE 0
    BY <1>1, <1>2, <1>4, <1>5, <1>6, <1>7, <1>10
  <2> QED
    BY <1>1, <1>10, <2>1 DEF Lost, q, g, m, b
<1> QED
  BY <1>1, <1>2, <1>8, <1>9, <1>10

\* Soldiers come from the growth pass only, and every other step of the room
\* leaves all armies as they are or takes the same number from the two sides
\* of a fight and nothing from anybody else.
THEOREM LossesAreEqual == Spec => EqualLosses
<1> DEFINE Lost(o) == Army(game_map, o) - Army(game_map', o)
           changed == {o \in Owners : Lost(o) # 0}
           Fair == \/ changed = {}
                   \/ \E p, q \in changed :
                        p # q /\ changed = {p, q} /\ Lost(p) = Lost(q) /\ Lost(p) > 0
           Counted == game_map # NoMap =>
             IF round' # round
             THEN \A o \in changed : -Lost(o) \in 1 .. SizeX * SizeY
             ELSE Fair
<1>1. TypeInv /\ ArmyInv /\ [Next]_vars => [Counted]_game_map
  <2> SUFFICES ASSUME TypeInv, ArmyInv, [Next]_vars, game_map # NoMap, game_map' # game_map
               PROVE  Counted
    OBVIOUS
  <2>1. game_map \in [Cells -> Grid] /\ \A c \in Cells : Sane(game_map[c])
    BY DEF TypeInv, TypeOK, ArmyInv
  <2>2. CASE Grow
    <3>1. round' # round /\ round \in Nat
      BY <2>2 DEF Grow, TypeInv, TypeOK
    <3>2. game_map' \in [Cells -> Grid]
      BY <2>2, TypeStep, StateCodes, NoMapIsNone
        DEF Grow, Playing, TypeInv, PhaseInv, TypeOK, Next, GameThread, mainVars
    <3>3. ASSUME NEW o \in Owners, Lost(o) # 0 PROVE -Lost(o) \in 1 .. SizeX * SizeY
      <4>1. Army(game_map', o) - Army(game_map, o) \in 0 .. SizeX * SizeY
        BY <2>2, ArmyGrow
      <4>2. Army(game_map', o) \in Int /\ Army(game_map, o) \in Int
        BY <2>1, <3>2, ArmySum
      <4>3. SizeX * SizeY \in Int
        BY BoardAssumption
      <4> QED
        BY <3>3, <4>1, <4>2, <4>3
    <3> QED
      BY <3>1, <3>3
  <2>3. CASE PlayOrder
    <3>1. /\ round' = round /\ pid \in Pids /\ action_queue[pid] \in Seq(Orders)
          /\ action_queue[pid] # << >>
          /\ game_map' = Execute(pid, Head(action_queue[pid]))
      BY <2>3 DEF PlayOrder, TypeInv, TypeOK
    <3> DEFINE o == Head(action_queue[pid])
               q == game_map[Target(o)].owner
    <3>2. o \in Order
      BY <3>1, RoomAssumption
    <3>3. Legal(pid, o)
      BY <3>1 DEF Execute
    <3>4. q \in Owners /\ pid \in Owners
      BY <2>1, <3>1, <3>3 DEF Legal, Grid, Owners
    <3>5. PICK n \in Nat : \A w \in Owners :
            Lost(w) = IF q # pid /\ w \in {pid, q} THEN n ELSE 0
      BY <2>1, <3>1, <3>2, <3>3, OrderLosses
    <3> HIDE DEF q, Lost
    <3>6. CASE n = 0 \/ q = pid
      BY <3>5, <3>6
    <3>7. CASE n > 0 /\ q # pid
      <4>1. changed = {pid, q}
        BY <3>4, <3>5, <3>7
      <4>2. Lost(pid) = n /\ Lost(q) = n
        BY <3>4, <3>5, <3>7
      <4> QED
        BY <3>1, <3>7, <4>1, <4>2
    <3> QED
      BY <3>1, <3>6, <3>7
  <2>4. ~GenMap
    BY StateCodes DEF GenMap, TypeInv, PhaseInv
  <2> QED
    BY <2>2, <2>3, <2>4
      DEF Next, MainThread, GameThread, Join_Room, Quit_Game, Start_Game,
          Add_Action, Judge, Decide, vars
<1> QED
  BY <1>1, ArmyAlways, PTL DEF Spec, EqualLosses

-----------------------------------------------------------------------------
(* What the players are told.                                              *)

\* A player sees every cell that he owns or that is next to one of his.
LEMMA OwnIsSeen ==
  ASSUME game_map # NoMap,
         NEW p \in Pids, NEW d \in Cells, game_map[d].owner = p,
         NEW c \in Cells, d \in Around(c)
  PROVE  Map_Info(p)[c] = game_map[c]
BY DEF Map_Info, mapMask

\* An order that next_round carries out is between cells its player is shown,
\* on maps of every size.
THEOREM MarchesAreSeen == Spec => []MarchSeen
<1>1. MarchSeen
  <2> SUFFICES ASSUME game_map # NoMap, NEW p \in Pids,
                      NEW o \in Orders, Legal(p, o),
                      NEW c \in {Source(o), Target(o)}
               PROVE  Map_Info(p)[c] = game_map[c]
    BY DEF MarchSeen
  <2>1. o \in Order
    BY RoomAssumption
  <2>2. Source(o) \in Cells /\ Target(o) \in Cells
    BY <2>1, SourceInCells DEF Legal
  <2>3. Source(o) \in Around(c)
    BY <2>1, <2>2, BoardAssumption DEF Around, Cells, Source, Target, Order, dx, dy
  <2> QED
    BY <2>2, <2>3, OwnIsSeen DEF Legal
<1> QED
  BY <1>1, PTL

\* A legal order changes the owner of its target at most, and leaves the cell
\* that it starts from, which is next to it, with its player.
LEMMA OrderBorders ==
  ASSUME NEW p \in Pids, NEW o \in Order, game_map \in [Cells -> Grid], Legal(p, o)
  PROVE  /\ \A c \in Cells : Execute(p, o)[c].owner # game_map[c].owner =>
              c = Target(o) /\ Execute(p, o)[c].owner = p
         /\ Source(o) \in Around(Target(o)) \ {Target(o)}
         /\ game_map[Source(o)].owner = p /\ Execute(p, o)[Source(o)].owner = p
<1> DEFINE n == Marching(o, game_map[Source(o)].soldier_num)
<1>1. Source(o) \in Cells /\ Target(o) \in Cells /\ Source(o) # Target(o)
  BY SourceInCells, SourceNotTarget DEF Legal
<1>2. game_map[Source(o)] \in Grid /\ game_map[Target(o)] \in Grid /\ n \in Int
  BY <1>1, MarchingType DEF Grid
<1>3. /\ Execute(p, o)[Source(o)] = [game_map[Source(o)] EXCEPT !.soldier_num = @ - n]
      /\ Execute(p, o)[Target(o)] = Enter(game_map[Target(o)], p, n)
      /\ \A c \in Cells \ {Source(o), Target(o)} : Execute(p, o)[c] = game_map[c]
  BY ExecuteCell
<1>4. Execute(p, o)[Source(o)].owner = game_map[Source(o)].owner
  BY <1>2, <1>3 DEF Grid
<1>5. Execute(p, o)[Target(o)].owner \in {game_map[Target(o)].owner, p}
  BY <1>2, <1>3, EnterFacts
<1>6. Source(o) \in Around(Target(o))
  BY <1>1, BoardAssumption DEF Around, Cells, Source, Target, Order, dx, dy
<1> QED
  BY <1>1, <1>3, <1>4, <1>5, <1>6 DEF Legal

\* Land is conquered only from next to it, and what has an owner keeps having
\* one, at every step of the two threads and on maps of every size.
THEOREM ConquestIsNear == Spec => LandChangesHands
<1> DEFINE Near == game_map # NoMap =>
             \A c \in Cells :
               LET p == game_map'[c].owner
               IN  p # game_map[c].owner =>
                     /\ p # GAME_MAP_OWN_NEUTRAL
                     /\ \E d \in Around(c) \ {c} :
                          game_map[d].owner = p /\ game_map'[d].owner = p
<1>1. TypeInv /\ [Next]_vars => [Near]_game_map
  <2> SUFFICES ASSUME TypeInv, [Next]_vars, game_map # NoMap, game_map' # game_map PROVE Near
    OBVIOUS
  <2>1. game_map \in [Cells -> Grid]
    BY DEF TypeInv, TypeOK
  <2>2. CASE Grow
    BY <2>2, OwnersAfterGrow
  <2>3. CASE PlayOrder
    <3>1. /\ pid \in Pids /\ action_queue[pid] \in Seq(Orders) /\ action_queue[pid] # << >>
          /\ game_map' = Execute(pid, Head(action_queue[pid]))
      BY <2>3 DEF PlayOrder, TypeInv, TypeOK
    <3>2. Head(action_queue[pid]) \in Order /\ Legal(pid, Head(action_queue[pid]))
      BY <3>1, RoomAssumption DEF Execute
    <3>3. pid # GAME_MAP_OWN_NEUTRAL
      BY <3>1, PidFacts DEF GAME_MAP_OWN_NEUTRAL
    <3> QED
      BY <2>1, <3>1, <3>2, <3>3, OrderBorders
  <2>4. ~GenMap
    BY StateCodes DEF GenMap, TypeInv, PhaseInv
  <2> QED
    BY <2>2, <2>3, <2>4
      DEF Next, MainThread, GameThread, Join_Room, Quit_Game, Start_Game,
          Add_Action, Judge, Decide, vars
<1> QED
  BY <1>1, TypeInit, TypeStep, PTL DEF Spec, LandChangesHands

-----------------------------------------------------------------------------
(* GameRoom implements Match and Roster: HomesInv is the invariant about   *)
(* the homes that the refinements need beside RoomInv, and every step of   *)
(* the room is a step of the match or a stutter, and a step of the roster  *)
(* or a stutter.                                                           *)

\* Who can own land: the placed slots, each from a home of its own.
HomesInv ==
  /\ Built =>
       /\ \A p, q \in Placed : home[p] = home[q] => p = q
       /\ \A c \in Cells, p \in Pids : game_map[c].owner = p => p \in Placed
  /\ main = "starting" =>
       /\ seated # {}
       /\ \A p \in Pids : HoldsHome(p) <=> p \in Placed

\* One iteration of the order loop: at most one cell changes its owner, and
\* then player pid, who has a seat and owned a cell before, gains it.
LEMMA OneCellChanges ==
  ASSUME TypeInv, OrdersHaveOwner, PlayOrder,
         ~ \A c \in Cells : game_map'[c].owner = game_map[c].owner
  PROVE  \E t \in Cells :
           /\ game_map[t].owner # pid /\ game_map'[t].owner = pid
           /\ pid \in seated
           /\ \E c \in Cells : game_map[c].owner = pid
           /\ \A c \in Cells \ {t} : game_map'[c].owner = game_map[c].owner
<1>1. game_map \in [Cells -> Grid] /\ pid \in Pids
      /\ action_queue[pid] \in Seq(Orders)
  BY StateCodes DEF PlayOrder, TypeInv, PhaseInv, TypeOK
<1>2. action_queue[pid] # << >>
  BY DEF PlayOrder
<1> DEFINE o == Head(action_queue[pid])
           n == Marching(o, game_map[Source(o)].soldier_num)
<1>3. o \in Order /\ pid \in seated /\ game_map' = Execute(pid, o)
  BY <1>1, <1>2, RoomAssumption DEF OrdersHaveOwner, PlayOrder
<1> HIDE DEF o
<1>4. Legal(pid, o)
  BY <1>3 DEF Execute
<1>5. Source(o) \in Cells /\ Target(o) \in Cells /\ game_map[Source(o)].owner = pid
  BY <1>3, <1>4, SourceInCells DEF Legal
<1>6. game_map'[Source(o)].owner = game_map[Source(o)].owner
  BY <1>1, <1>3, <1>4, <1>5, ExecuteCell DEF Grid
<1>7. \A c \in Cells \ {Target(o)} : game_map'[c].owner = game_map[c].owner
  BY <1>1, <1>3, <1>4, <1>6, ExecuteCell
<1>8. \A c \in Cells : game_map'[c].owner \in {game_map[c].owner, pid}
  BY <1>1, <1>3, OwnersAfterOrder
<1>9. game_map[Target(o)].owner # pid /\ game_map'[Target(o)].owner = pid
  BY <1>5, <1>7, <1>8
<1> QED
  BY <1>3, <1>5, <1>7, <1>9

\* Homes are set by genMap and only change hands afterwards.
LEMMA HomesStep == RoomInv /\ HomesInv /\ [Next]_vars => HomesInv'
<1> SUFFICES ASSUME RoomInv, HomesInv, [Next]_vars PROVE HomesInv'
  OBVIOUS
<1>0. TypeInv /\ OrdersHaveOwner /\ home \in [Pids -> Cells]
  BY DEF RoomInv, TypeInv, TypeOK
<1>1. ASSUME UNCHANGED <<game_state, main, home, game_map>>,
             seated # {} => seated' # {}
      PROVE  HomesInv'
  BY <1>1 DEF HomesInv, Built, HoldsHome
<1>2. ASSUME main' = "idle", UNCHANGED home, Built' => Built,
             \A c \in Cells, p \in Pids : game_map'[c].owner = p =>
               \E d \in Cells : game_map[d].owner = p
      PROVE  HomesInv'
  BY <1>2 DEF HomesInv
<1>3. ASSUME Join_Room PROVE HomesInv'
  BY <1>1, <1>3 DEF Join_Room, FreeSlots
<1>4. ASSUME NEW p \in Pids, Quit_Game(p) PROVE HomesInv'
  BY <1>4 DEF Quit_Game, Vacates, HomesInv, Built
<1>5. ASSUME GenMap PROVE HomesInv'
  <2>1. \A p \in Pids : HoldsHome(p)' <=> p \in Placed
    <3>1. home' \in [Pids -> Cells]
      BY <1>5 DEF GenMap
    <3> QED
      BY <1>0, <1>5, <3>1, OwnersAfterGenMap DEF HoldsHome
  <2>2. \A p, q \in Placed : home'[p] = home'[q] => p = q
    BY <1>5 DEF GenMap
  <2>3. \A c \in Cells, p \in Pids : game_map'[c].owner = p => p \in Placed
    BY <1>0, <1>5, OwnersAfterGenMap
  <2>4. seated' # {}
    BY <1>5 DEF GenMap
  <2> QED
    BY <2>1, <2>2, <2>3, <2>4 DEF HomesInv, Placed
<1>6. ASSUME Start_Game PROVE HomesInv'
  BY <1>2, <1>6 DEF Start_Game, Built
<1>7. ASSUME Grow PROVE HomesInv'
  <2>1. main' = "idle" /\ Built
    BY <1>0, <1>7, StateCodes
      DEF Grow, Playing, Built, mainVars, TypeInv, TypeOK, PhaseInv
  <2> QED
    BY <1>0, <1>2, <1>7, <2>1, OwnersAfterGrow DEF Grow
<1>8. ASSUME PlayOrder PROVE HomesInv'
  <2>1. main' = "idle" /\ Built
    BY <1>0, <1>8, StateCodes
      DEF PlayOrder, Built, mainVars, TypeInv, TypeOK, PhaseInv
  <2>2. \A c \in Cells, p \in Pids : game_map'[c].owner = p =>
          \E d \in Cells : game_map[d].owner = p
    <3>1. CASE \A c \in Cells : game_map'[c].owner = game_map[c].owner
      BY <3>1
    <3>2. CASE ~ \A c \in Cells : game_map'[c].owner = game_map[c].owner
      BY <1>0, <1>8, <3>2, OneCellChanges
    <3> QED
      BY <3>1, <3>2
  <2> QED
    BY <1>2, <1>8, <2>1, <2>2 DEF PlayOrder
<1>9. ASSUME Judge PROVE HomesInv'
  BY <1>1, <1>9 DEF Judge, mainVars
<1>10. ASSUME Decide PROVE HomesInv'
  <2>1. main' = "idle" /\ Built
    BY <1>0, <1>10, StateCodes DEF Decide, Built, TypeInv, TypeOK, PhaseInv
  <2> QED
    BY <1>2, <1>10, <2>1 DEF Decide
<1>11. ASSUME UNCHANGED <<mainVars, home, game_map>> PROVE HomesInv'
  BY <1>1, <1>11 DEF mainVars
<1> QED
  BY <1>3, <1>4, <1>5, <1>6, <1>7, <1>8, <1>9, <1>10, <1>11
    DEF Next, MainThread, GameThread, Add_Action, mainVars, vars

-----------------------------------------------------------------------------
(* The refinement mapping, step by step.                                   *)

\* The two modules mean the same by the codes of the game states.
LEMMA MatchCodes ==
  /\ Match!GAME_STATE_WAIT = GAME_STATE_WAIT
  /\ Match!GAME_STATE_INGAME = GAME_STATE_INGAME
  /\ Match!GAME_STATE_END = GAME_STATE_END
BY DEF Match!GAME_STATE_WAIT, Match!GAME_STATE_INGAME, Match!GAME_STATE_END,
  GAME_STATE_WAIT, GAME_STATE_INGAME, GAME_STATE_END

\* A set of at most one slot holds no two.
LEMMA AtMostOne ==
  ASSUME Cardinality(Standing) <= 1, NEW p \in Standing, NEW q \in Standing
  PROVE  p = q
<1> SUFFICES ASSUME p # q PROVE FALSE
  OBVIOUS
<1>1. {p, q} \subseteq Standing /\ IsFiniteSet(Standing)
  BY StandingFinite
<1>2. Cardinality({p, q}) <= Cardinality(Standing)
  BY <1>1, FS_Subset
<1>3. Cardinality({q}) = 1 /\ IsFiniteSet({q})
  BY FS_Singleton
<1>4. Cardinality({q} \cup {p}) = 2
  BY <1>3, FS_AddElement
<1>5. {q} \cup {p} = {p, q}
  OBVIOUS
<1>6. Cardinality(Standing) \in Nat
  BY StandingFinite
<1> QED
  BY <1>2, <1>4, <1>5, <1>6

\* A step that leaves all the match sees alone is a stutter of it.
LEMMA Stutter ==
  ASSUME UNCHANGED <<game_state, seated, player_state>>,
         game_state # GAME_STATE_WAIT => Standing' = Standing
  PROVE  UNCHANGED Match!vars
BY DEF Match!vars

\* What an order does to the standing slots: nothing, or player pid has got
\* his home back, or exactly one rival has lost his.
LEMMA StandingAfterPlayOrder ==
  ASSUME RoomInv, HomesInv, PlayOrder
  PROVE  \/ Standing' = Standing
         \/ pid \in seated /\ Standing' = Standing \cup {pid}
         \/ \E q \in Standing : Standing' = Standing \ {q}
<1>0. /\ TypeInv /\ OrdersHaveOwner /\ home \in [Pids -> Cells]
      /\ pid \in Pids /\ Built
  BY StateCodes
    DEF RoomInv, TypeInv, TypeOK, PhaseInv, PlayOrder, Built
<1>1. UNCHANGED <<player_state, home>>
  BY DEF PlayOrder
<1>2. CASE \A c \in Cells : game_map'[c].owner = game_map[c].owner
  BY <1>0, <1>1, <1>2 DEF Standing, Stands, HoldsHome
<1>3. CASE ~ \A c \in Cells : game_map'[c].owner = game_map[c].owner
  <2>1. PICK t \in Cells :
          /\ game_map[t].owner # pid /\ game_map'[t].owner = pid
          /\ pid \in seated
          /\ \E c \in Cells : game_map[c].owner = pid
          /\ \A c \in Cells \ {t} : game_map'[c].owner = game_map[c].owner
    BY <1>0, <1>3, OneCellChanges
  <2>2. /\ \A p, q \in Placed : home[p] = home[q] => p = q
        /\ \A c \in Cells, p \in Pids : game_map[c].owner = p => p \in Placed
        /\ pid \in Placed
    BY <1>0, <2>1 DEF HomesInv
  <2>3. \A p \in Pids : home[p] # t => (Stands(p)' <=> Stands(p))
    BY <1>0, <1>1, <2>1 DEF Stands, HoldsHome
  <2>4. \A p \in Pids : home[p] = t /\ p # pid => ~Stands(p)'
    BY <1>1, <2>1 DEF Stands, HoldsHome
  <2>5. \A p \in Pids \ Placed : ~Stands(p)
    BY <1>0, <2>2 DEF Stands, HoldsHome
  <2>6. CASE home[pid] = t
    <3>1. ~Stands(pid)
      BY <2>1, <2>6 DEF Stands, HoldsHome
    <3>2. \A p \in Pids \ {pid} : Stands(p)' <=> Stands(p)
      BY <2>2, <2>3, <2>4, <2>5, <2>6
    <3>3. PICK k \in Pids : k = pid
      BY <1>0
    <3>4. CASE Stands(k)'
      <4>1. \A p : p \in Standing' <=> p \in Standing \cup {pid}
        BY <1>0, <3>2, <3>3, <3>4 DEF Standing
      <4> QED
        BY <2>1, <4>1
    <3>5. CASE ~Stands(k)'
      <4>1. \A p : p \in Standing' <=> p \in Standing
        BY <1>0, <3>1, <3>2, <3>3, <3>5 DEF Standing
      <4> QED
        BY <4>1
    <3> QED
      BY <3>4, <3>5
  <2>7. CASE \E q \in Placed \ {pid} : home[q] = t /\ Stands(q)
    <3>1. PICK q \in Placed \ {pid} : home[q] = t /\ Stands(q)
      BY <2>7
    <3>2. q \in Pids /\ ~Stands(q)'
      BY <2>4, <3>1 DEF Placed
    <3>3. \A p \in Pids \ {q} : Stands(p)' <=> Stands(p)
      <4> TAKE p \in Pids \ {q}
      <4>1. CASE home[p] # t
        BY <2>3, <4>1
      <4>2. CASE home[p] = t
        <5>1. p \notin Placed
          BY <2>2, <3>1, <4>2
        <5> QED
          BY <2>2, <2>4, <2>5, <4>2, <5>1
      <4> QED
        BY <4>1, <4>2
    <3>4. q \in Standing /\ Standing' = Standing \ {q}
      BY <3>1, <3>2, <3>3 DEF Standing
    <3> QED
      BY <3>4
  <2>8. CASE home[pid] # t /\ ~ \E q \in Placed \ {pid} : home[q] = t /\ Stands(q)
    <3>1. \A p \in Pids : Stands(p)' <=> Stands(p)
      BY <2>3, <2>4, <2>5, <2>8
    <3> QED
      BY <3>1 DEF Standing
  <2> QED
    BY <2>6, <2>7, <2>8
<1> QED
  BY <1>2, <1>3

\* Every step of the room is a step of the match, or a stutter.
LEMMA MatchStep ==
  RoomInv /\ HomesInv /\ [Next]_vars => [Match!Next]_(Match!vars)
<1> SUFFICES ASSUME RoomInv, HomesInv, [Next]_vars
             PROVE  [Match!Next]_(Match!vars)
  OBVIOUS
<1>0. /\ TypeInv /\ SlotInv /\ VerdictInv /\ OrdersHaveOwner
      /\ player_state \in [Pids -> PlayerStates]
      /\ home \in [Pids -> Cells] /\ seated \subseteq Pids
  BY DEF RoomInv, TypeInv, TypeOK
<1>1. ASSUME Join_Room PROVE Match!Join
  <2>1. Standing' = Standing
    <3>1. PICK p \in Pids \ seated :
            player_state' = [player_state EXCEPT ![p] = PLAYER_STATE_ALIVE]
      BY <1>1 DEF Join_Room, FreeSlots
    <3>2. \A q \in Pids : Stands(q)' <=> Stands(q)
      BY <1>0, <1>1, <3>1
        DEF Join_Room, FreeSlots, SlotInv, Built, Stands, HoldsHome
    <3> QED
      BY <3>2 DEF Standing
  <2> QED
    BY <1>1, <2>1 DEF Join_Room, FreeSlots, Match!Join
<1>2. ASSUME NEW p \in Pids, Quit_Game(p) PROVE Match!Leave(p) \/ Match!Resign(p)
  <2>1. CASE Vacates
    BY <1>2, <2>1, MatchCodes DEF Quit_Game, Vacates, Match!Leave
  <2>2. CASE ~Vacates
    <3>1. \A q \in Pids : Stands(q)' <=> Stands(q) /\ q # p
      BY <1>0, <1>2, <2>2
        DEF Quit_Game, Stands, HoldsHome, PLAYER_STATE_ALIVE, PLAYER_STATE_QUITED
    <3>2. Standing' = Standing \ {p}
      BY <3>1 DEF Standing
    <3> QED
      BY <1>2, <2>2, <3>2, MatchCodes DEF Quit_Game, Vacates, Match!Resign
  <2> QED
    BY <2>1, <2>2
<1>3. ASSUME GenMap PROVE UNCHANGED Match!vars
  BY <1>3, Stutter DEF GenMap
<1>4. ASSUME Start_Game PROVE Match!Start
  <2>1. game_state = GAME_STATE_WAIT /\ seated # {}
    BY <1>0, <1>4 DEF Start_Game, HomesInv, TypeInv, PhaseInv
  <2>2. \A p \in Pids : Stands(p)' <=> p \in Placed
    BY <1>0, <1>4, <2>1 DEF Start_Game, HomesInv, SlotInv, Stands, HoldsHome
  <2>3. Standing' = Placed
    BY <2>2 DEF Standing, Placed
  <2> QED
    BY <1>4, <2>1, <2>3, StateCodes, MatchCodes DEF Start_Game, Match!Start
<1>5. ASSUME NEW p \in Pids, NEW o \in Orders, Add_Action(p, o)
      PROVE  UNCHANGED Match!vars
  BY <1>5, Stutter DEF Add_Action, mainVars, Standing, Stands, HoldsHome
<1>6. ASSUME Grow PROVE UNCHANGED Match!vars
  <2>1. \A p \in Pids : Stands(p)' <=> Stands(p)
    BY <1>0, <1>6, OwnersAfterGrow DEF Grow, Stands, HoldsHome
  <2>2. Standing' = Standing
    BY <2>1 DEF Standing
  <2> QED
    BY <1>6, <2>2, Stutter DEF Grow, mainVars
<1>7. ASSUME PlayOrder PROVE [Match!Next]_(Match!vars)
  <2>1. /\ game_state = GAME_STATE_INGAME /\ pid \in Pids
        /\ UNCHANGED <<game_state, seated, player_state>>
    BY <1>0, <1>7 DEF PlayOrder, mainVars, TypeInv, PhaseInv, TypeOK
  <2>2. CASE Standing' = Standing
    BY <2>1, <2>2, Stutter
  <2>3. CASE pid \in seated /\ Standing' = Standing \cup {pid}
    <3>1. Match!Recover(pid)
      BY <2>1, <2>3, StateCodes, MatchCodes DEF Match!Recover
    <3> QED
      BY <2>1, <3>1 DEF Match!Next
  <2>4. CASE \E q \in Standing : Standing' = Standing \ {q}
    <3>1. PICK q \in Standing : Standing' = Standing \ {q}
      BY <2>4
    <3>2. Match!Conquer(q)
      BY <2>1, <3>1, StateCodes, MatchCodes DEF Match!Conquer
    <3> QED
      BY <3>1, <3>2 DEF Match!Next, Standing
  <2> QED
    BY <1>7, <2>2, <2>3, <2>4, StandingAfterPlayOrder
<1>8. ASSUME Judge PROVE UNCHANGED Match!vars
  <2>1. \A p \in Pids : Stands(p)' <=> Stands(p)
    BY <1>0, <1>8
      DEF Judge, Verdict, Stands, HoldsHome, PLAYER_STATE_ALIVE, PLAYER_STATE_DEAD
  <2>2. Standing' = Standing
    BY <2>1 DEF Standing
  <2> QED
    BY <1>8, <2>2 DEF Judge, mainVars, Match!vars
<1>9. ASSUME Decide PROVE [Match!Next]_(Match!vars)
  <2>1. /\ game_state = GAME_STATE_INGAME
        /\ Cardinality(Standing) <= player_alive
        /\ UNCHANGED <<seated, player_state>> /\ Standing' = Standing
    BY <1>0, <1>9
      DEF Decide, TypeInv, PhaseInv, VerdictInv, Standing, Stands, HoldsHome
  <2>2. CASE Over
    <3>1. \A p, q \in Standing : p = q
      <4>1. Cardinality(Standing) <= 1
        BY <1>0, <2>1, <2>2, StandingFinite DEF Over, TypeInv, TypeOK
      <4> QED
        BY <4>1, AtMostOne
    <3>2. Match!Finish
      BY <1>9, <2>1, <2>2, <3>1, StateCodes, MatchCodes DEF Decide, Match!Finish
    <3> QED
      BY <3>2 DEF Match!Next
  <2>3. CASE ~Over
    BY <1>9, <2>1, <2>3, Stutter DEF Decide
  <2> QED
    BY <2>2, <2>3
<1>10. ASSUME UNCHANGED vars PROVE UNCHANGED Match!vars
  BY <1>10, Stutter DEF vars, Standing, Stands, HoldsHome
<1> QED
  BY <1>1, <1>2, <1>3, <1>4, <1>5, <1>6, <1>7, <1>8, <1>9, <1>10
    DEF Next, MainThread, GameThread, Match!Next

\* Every room plays a match: the verdict of next_round, counted without the
\* lock beside joins and quits, is the verdict of the abstract match.
THEOREM RoomImplementsMatch == Spec => MatchSpec
<1>1. Init => Match!Init
  BY MatchCodes DEF Init, Match!Init
<1>2. Init => HomesInv
  BY DEF Init, HomesInv, Built
<1>3. Spec => [](RoomInv /\ HomesInv)
  BY <1>2, RoomAlways, HomesStep, PTL DEF Spec
<1> QED
  BY <1>1, <1>3, MatchStep, PTL DEF Spec, MatchSpec, Match!Spec
-----------------------------------------------------------------------------
(* What the clients are told of the room.                                  *)

\* The codes of Roster are those of the room.
LEMMA RosterCodes ==
  /\ Roster!GAME_STATE_WAIT = GAME_STATE_WAIT
  /\ Roster!GAME_STATE_INGAME = GAME_STATE_INGAME
  /\ Roster!GAME_STATE_END = GAME_STATE_END
  /\ Roster!PLAYER_STATE_ALIVE = PLAYER_STATE_ALIVE
  /\ Roster!PLAYER_STATE_QUITED = PLAYER_STATE_QUITED
  /\ Roster!PLAYER_STATE_DEAD = PLAYER_STATE_DEAD
BY DEF Roster!GAME_STATE_WAIT, Roster!GAME_STATE_INGAME, Roster!GAME_STATE_END,
       Roster!PLAYER_STATE_ALIVE, Roster!PLAYER_STATE_QUITED,
       Roster!PLAYER_STATE_DEAD, GAME_STATE_WAIT, GAME_STATE_INGAME,
       GAME_STATE_END, PLAYER_STATE_ALIVE, PLAYER_STATE_QUITED,
       PLAYER_STATE_DEAD

\* Every step of the room is a step of the roster, or a stutter.
LEMMA RosterStep ==
  RoomInv /\ HomesInv /\ [Next]_vars => [Roster!Next]_(Roster!vars)
<1> SUFFICES ASSUME RoomInv, HomesInv, [Next]_vars
             PROVE  [Roster!Next]_(Roster!vars)
  OBVIOUS
<1>0. TypeInv /\ player_state \in [Pids -> PlayerStates] /\ seated \subseteq Pids
  BY DEF RoomInv, TypeInv, TypeOK
<1>1. ASSUME Join_Room PROVE Roster!Next
  <2>1. PICK p \in FreeSlots :
          /\ \A q \in FreeSlots : p <= q
          /\ seated' = seated \cup {p}
          /\ player_state' = [player_state EXCEPT ![p] = PLAYER_STATE_ALIVE]
    BY <1>1 DEF Join_Room
  <2>2. p \in Pids /\ Roster!Join(p)
    BY <1>1, <2>1, RosterCodes
      DEF Join_Room, FreeSlots, Roster!Join, Roster!FreeSlots
  <2> QED
    BY <2>2 DEF Roster!Next
<1>2. ASSUME NEW p \in Pids, Quit_Game(p) PROVE Roster!Next
  <2>1. Roster!Quit(p)
    BY <1>2, RosterCodes DEF Quit_Game, Vacates, Roster!Quit
  <2> QED
    BY <2>1 DEF Roster!Next
<1>3. ASSUME GenMap PROVE UNCHANGED Roster!vars
  BY <1>3 DEF GenMap, Roster!vars
<1>4. ASSUME Start_Game PROVE Roster!Next
  <2>1. game_state = GAME_STATE_WAIT /\ seated # {}
    BY <1>0, <1>4 DEF Start_Game, HomesInv, TypeInv, PhaseInv
  <2>2. Roster!Start
    BY <1>4, <2>1, RosterCodes DEF Start_Game, Roster!Start
  <2> QED
    BY <2>2 DEF Roster!Next
<1>5. ASSUME NEW p \in Pids, NEW o \in Orders, Add_Action(p, o)
      PROVE  UNCHANGED Roster!vars
  BY <1>5 DEF Add_Action, mainVars, Roster!vars
<1>6. ASSUME Grow PROVE UNCHANGED Roster!vars
  BY <1>6 DEF Grow, mainVars, Roster!vars
<1>7. ASSUME PlayOrder PROVE UNCHANGED Roster!vars
  BY <1>7 DEF PlayOrder, mainVars, Roster!vars
<1>8. ASSUME Judge PROVE [Roster!Next]_(Roster!vars)
  <2>1. /\ game_state = GAME_STATE_INGAME /\ pid \in Pids
        /\ UNCHANGED <<game_state, seated>>
        /\ player_state' = [player_state EXCEPT ![pid] = Verdict(pid)]
    BY <1>0, <1>8 DEF Judge, mainVars, TypeInv, PhaseInv, TypeOK
  <2>2. CASE HoldsHome(pid)
    BY <1>0, <2>1, <2>2 DEF Verdict, Roster!vars
  <2>3. CASE ~HoldsHome(pid)
    <3>1. Roster!Fall(pid)
      BY <2>1, <2>3, RosterCodes DEF Verdict, Roster!Fall
    <3> QED
      BY <2>1, <3>1 DEF Roster!Next, Roster!Round
  <2> QED
    BY <2>2, <2>3
<1>9. ASSUME Decide PROVE [Roster!Next]_(Roster!vars)
  <2>1. game_state = GAME_STATE_INGAME /\ UNCHANGED <<seated, player_state>>
    BY <1>0, <1>9 DEF Decide, TypeInv, PhaseInv
  <2>2. CASE Over
    <3>1. Roster!Finish
      BY <1>9, <2>1, <2>2, RosterCodes DEF Decide, Roster!Finish
    <3> QED
      BY <3>1 DEF Roster!Next, Roster!Round
  <2>3. CASE ~Over
    BY <1>9, <2>1, <2>3 DEF Decide, Roster!vars
  <2> QED
    BY <2>2, <2>3
<1>10. ASSUME UNCHANGED vars PROVE UNCHANGED Roster!vars
  BY <1>10 DEF vars, Roster!vars
<1> QED
  BY <1>1, <1>2, <1>3, <1>4, <1>5, <1>6, <1>7, <1>8, <1>9, <1>10
    DEF Next, MainThread, GameThread

\* Every room is a roster: what Client shows of the clients of a roster holds
\* of the clients of a room, however the two threads of the server meet.
THEOREM RoomImplementsRoster == Spec => RosterSpec
<1>1. Init => Roster!Init
  BY RosterCodes DEF Init, Roster!Init
<1>2. Init => HomesInv
  BY DEF Init, HomesInv, Built
<1>3. Spec => [](RoomInv /\ HomesInv)
  BY <1>2, RoomAlways, HomesStep, PTL DEF Spec
<1> QED
  BY <1>1, <1>3, RosterStep, PTL DEF Spec, RosterSpec, Roster!Spec
=============================================================================
