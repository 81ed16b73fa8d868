--------------------------- MODULE KeyboardProofs ---------------------------
(***************************************************************************)
(* Keyboard for every size of the map and every set of lines: the cursor   *)
(* stays on the map, every order sent is one the room can take, and the    *)
(* directions and marches of client and server agree.                      *)
(***************************************************************************)
EXTENDS Keyboard, TLAPS

\* The codes of the three modes differ.
LEMMA ModeCodes ==
  /\ ACTION_MODE_MOVE = 0
  /\ ACTION_MODE_SELECT_ALL = 1
  /\ ACTION_MODE_SELECT_HALF = 2
BY DEF ACTION_MODE_MOVE, ACTION_MODE_SELECT_ALL, ACTION_MODE_SELECT_HALF

\* postion_check yields a coordinate of the map, and leaves one alone.
LEMMA WithinMap ==
  ASSUME NEW size \in Nat \ {0}, NEW v \in Int
  PROVE  /\ Within(v, size) \in 0 .. size - 1
         /\ v \in 0 .. size - 1 => Within(v, size) = v
         /\ v = -1 => Within(v, size) = 0
         /\ v = size => Within(v, size) = size - 1
BY DEF Within

\* An order is never the value that stands for none.
LEMMA NoOrderNotOrder == NoOrder \notin Order
<1> SUFFICES ASSUME NoOrder \in Order PROVE FALSE
  OBVIOUS
<1>1. DOMAIN NoOrder = {"none"}
  BY DEF NoOrder
<1>2. DOMAIN NoOrder = {"x", "y", "way", "all_or_half"}
  BY DEF Order
<1> QED
  BY <1>1, <1>2

\* A move leaves the cursor on the map.
LEMMA MoveStays ==
  ASSUME TypeOK, NEW c \in Key, action_move(c)
  PROVE  POS_X' \in 0 .. SizeX - 1 /\ POS_Y' \in 0 .. SizeY - 1
BY WithinMap, BoardAssumption DEF TypeOK, action_move

\* A selection leaves the cursor on the map and sends an order.
LEMMA SelectSends ==
  ASSUME TypeOK, NEW c \in Key, NEW mode \in Int, action_select(c, mode)
  PROVE  /\ POS_X' \in 0 .. SizeX - 1
         /\ POS_Y' \in 0 .. SizeY - 1
         /\ sent' \in Order
<1>1. POS_X' \in 0 .. SizeX - 1 /\ POS_Y' \in 0 .. SizeY - 1
  BY MoveStays DEF action_select
<1>2. Way(c) \in 0 .. 3 /\ Half(mode) \in {0, 1}
  BY DEF Way, Half
<1>3. sent' \in Order
  BY <1>2 DEF action_select, TypeOK, Order
<1> QED
  BY <1>1, <1>3

\* A key keeps the types of what action_get assigns.
LEMMA GetKeepsTypes ==
  ASSUME TypeOK, NEW c \in Key, action_get(c)
  PROVE  /\ ACTION_MODE' \in Modes
         /\ POS_X' \in 0 .. SizeX - 1
         /\ POS_Y' \in 0 .. SizeY - 1
         /\ sent' \in Order \cup {NoOrder}
<1>1. CASE c \in {"q", "e", "r"}
  BY <1>1, ModeCodes DEF action_get, TypeOK, cursor, Modes
<1>2. CASE c \notin {"q", "e", "r"} /\ ACTION_MODE = ACTION_MODE_MOVE
  BY <1>2, MoveStays, ModeCodes DEF action_get, TypeOK
<1>3. CASE c \notin {"q", "e", "r"} /\ ACTION_MODE # ACTION_MODE_MOVE
  BY <1>3, SelectSends, ModeCodes DEF action_get, TypeOK
<1> QED
  BY <1>1, <1>2, <1>3

\* The character scanf takes is a key, and both buffers keep their types.
LEMMA TakeKeepsTypes ==
  ASSUME TypeOK, get_at_wait
  PROVE  tty' \in Seq(Lines) /\ buf' \in Seq(Key) /\ key' \in Key
<1>1. CASE buf # << >>
  BY <1>1 DEF get_at_wait, TypeOK
<1>2. CASE buf = << >>
  <2>1. Head(tty) \in Lines /\ Tail(tty) \in Seq(Lines)
    BY DEF get_at_wait, TypeOK
  <2>2. Head(tty) \in Seq(Key) /\ Head(tty) # << >>
    BY <2>1, KeyboardAssumption
  <2>3. Head(Head(tty)) \in Key /\ Tail(Head(tty)) \in Seq(Key)
    BY <2>2
  <2>4. /\ key' = Head(Head(tty))
        /\ buf' = Tail(Head(tty))
        /\ tty' = Tail(tty)
    BY <1>2 DEF get_at_wait
  <2> QED
    BY <2>1, <2>3, <2>4
<1> QED
  BY <1>1, <1>2

\* TypeOK is inductive.
LEMMA TypeKept == TypeOK /\ [Next]_vars => TypeOK'
<1> SUFFICES ASSUME TypeOK, [Next]_vars PROVE TypeOK'
  OBVIOUS
<1>1. CASE get_at_wait
  <2>1. tty' \in Seq(Lines) /\ buf' \in Seq(Key) /\ key' \in Key
    BY <1>1, TakeKeepsTypes
  <2>2. action_get(key')
    BY <1>1 DEF get_at_wait
  <2>3. PICK c \in Key : c = key'
    BY <2>1
  <2>4. /\ ACTION_MODE' \in Modes
        /\ POS_X' \in 0 .. SizeX - 1
        /\ POS_Y' \in 0 .. SizeY - 1
        /\ sent' \in Order \cup {NoOrder}
    <3>1. action_get(c)
      BY <2>2, <2>3 DEF action_get, action_move, action_select, cursor
    <3> QED
      BY <3>1, GetKeepsTypes
  <2> QED
    BY <2>1, <2>4 DEF TypeOK
<1>2. ASSUME NEW l \in Lines, Type(l) PROVE TypeOK'
  BY <1>2 DEF Type, TypeOK, cursor
<1>3. CASE UNCHANGED vars
  BY <1>3 DEF vars, TypeOK
<1> QED
  BY <1>1, <1>2, <1>3 DEF Next

\* The cursor is on the map and every order sent is one the room can take:
\* with it the assumption of GameRoom on its orders holds of this client.
THEOREM KeyboardTypes == Spec => []TypeOK
<1>1. Init => TypeOK
  BY BoardAssumption, ModeCodes DEF Init, TypeOK, Key, Modes, Wasd
<1> QED
  BY <1>1, TypeKept, PTL DEF Spec
-----------------------------------------------------------------------------
\* An order comes from action_select, in the mode the screen shows.
LEMMA OrderFromSelect ==
  ASSUME TypeOK, [Next]_vars, sent' # NoOrder, ~UNCHANGED vars
  PROVE  /\ ACTION_MODE # ACTION_MODE_MOVE
         /\ sent' = [x |-> POS_X, y |-> POS_Y, way |-> Way(key'),
                     all_or_half |-> Half(ACTION_MODE)]
         /\ action_move(key')
<1>1. get_at_wait
  BY DEF Next, Type
<1>2. action_get(key')
  BY <1>1 DEF get_at_wait
<1>3. PICK c : c = key'
  OBVIOUS
<1>4. action_get(c)
  BY <1>2, <1>3 DEF action_get, action_move, action_select, cursor
<1>5. /\ ACTION_MODE # ACTION_MODE_MOVE
      /\ sent' = [x |-> POS_X, y |-> POS_Y, way |-> Way(c),
                  all_or_half |-> Half(ACTION_MODE)]
      /\ action_move(c)
  BY <1>4, ModeCodes DEF action_get, action_select, Half
<1> QED
  BY <1>3, <1>5 DEF action_move

\* Client and server agree on the four directions, at the edges too.
THEOREM DirectionsAgree == Spec => CursorFollowsArmy
<1> DEFINE Follows ==
      (sent' # NoOrder /\ key' \in Wasd) =>
        /\ Source(sent') = cursor
        /\ cursor' = IF Target(sent') \in Cells THEN Target(sent') ELSE cursor
<1>1. ASSUME TypeOK, [Next]_vars PROVE [Follows]_vars
  <2> SUFFICES ASSUME sent' # NoOrder, key' \in Wasd, ~UNCHANGED vars
               PROVE  Follows
    OBVIOUS
  <2>1. PICK c \in Wasd : c = key'
    OBVIOUS
  <2>2. PICK o : o = sent'
    OBVIOUS
  <2>3. o = [x |-> POS_X, y |-> POS_Y, way |-> Way(c),
             all_or_half |-> Half(ACTION_MODE)]
    BY <1>1, <2>1, <2>2, OrderFromSelect
  <2>4. action_move(c)
    BY <1>1, <2>1, OrderFromSelect DEF action_move
  <2>5. Source(o) = cursor
    BY <2>3 DEF Source, cursor
  <2>6. /\ POS_X \in 0 .. SizeX - 1 /\ POS_Y \in 0 .. SizeY - 1
        /\ SizeX \in Nat \ {0} /\ SizeY \in Nat \ {0}
    BY <1>1, BoardAssumption DEF TypeOK
  <2>7. cursor' = IF Target(o) \in Cells THEN Target(o) ELSE cursor
    <3>1. CASE c = "w"
      <4>1. Target(o) = <<POS_X - 1, POS_Y>>
        BY <2>3, <2>6, <3>1 DEF Target, Way, dx, dy
      <4> QED
        BY <2>4, <2>6, <3>1, <4>1 DEF action_move, Within, Cells, cursor
    <3>2. CASE c = "a"
      <4>1. Target(o) = <<POS_X, POS_Y - 1>>
        BY <2>3, <2>6, <3>2 DEF Target, Way, dx, dy
      <4> QED
        BY <2>4, <2>6, <3>2, <4>1 DEF action_move, Within, Cells, cursor
    <3>3. CASE c = "s"
      <4>1. Target(o) = <<POS_X + 1, POS_Y>>
        BY <2>3, <2>6, <3>3 DEF Target, Way, dx, dy
      <4> QED
        BY <2>4, <2>6, <3>3, <4>1 DEF action_move, Within, Cells, cursor
    <3>4. CASE c = "d"
      <4>1. Target(o) = <<POS_X, POS_Y + 1>>
        BY <2>3, <2>6, <3>4 DEF Target, Way, dx, dy
      <4> QED
        BY <2>4, <2>6, <3>4, <4>1 DEF action_move, Within, Cells, cursor
    <3> QED
      BY <2>1, <3>1, <3>2, <3>3, <3>4 DEF Wasd
  <2> QED
    BY <2>2, <2>5, <2>7 DEF Source, Target
<1> QED
  BY <1>1, KeyboardTypes, PTL DEF Spec, CursorFollowsArmy

\* The march the server makes is the one of the mode on the screen.
THEOREM ModesAgree == Spec => ModeIsMarch
<1> DEFINE Agrees ==
      sent' # NoOrder =>
        /\ ACTION_MODE # ACTION_MODE_MOVE
        /\ \A n \in 1 .. 5 :
             n - Marching(sent', n) =
               IF ACTION_MODE = ACTION_MODE_SELECT_ALL THEN 1 ELSE n - n \div 2
<1>1. ASSUME TypeOK, [Next]_vars PROVE [Agrees]_vars
  <2> SUFFICES ASSUME sent' # NoOrder, ~UNCHANGED vars PROVE Agrees
    OBVIOUS
  <2>1. PICK o : o = sent'
    OBVIOUS
  <2>2. /\ ACTION_MODE # ACTION_MODE_MOVE
        /\ o.all_or_half = Half(ACTION_MODE)
    BY <1>1, <2>1, OrderFromSelect
  <2>3. \A n \in 1 .. 5 :
          n - Marching(o, n) =
            IF ACTION_MODE = ACTION_MODE_SELECT_ALL THEN 1 ELSE n - n \div 2
    BY <2>2 DEF Marching, Half
  <2> QED
    BY <2>1, <2>2, <2>3 DEF Marching
<1> QED
  BY <1>1, KeyboardTypes, PTL DEF Spec, ModeIsMarch
=============================================================================
