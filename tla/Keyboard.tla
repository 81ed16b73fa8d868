------------------------------ MODULE Keyboard ------------------------------
(***************************************************************************)
(* How the game screen of the client turns what its player types into      *)
(* orders: get_at_wait (client/cliscreen.c) and action_get with the        *)
(* functions it calls (client/cliaction.c).                                *)
(*                                                                         *)
(* A typed character passes two buffers.  The terminal is in canonical     *)
(* mode (state_loading ends with enable_cbreak, which sets ICANON): the    *)
(* kernel hands out whole lines, each with its newline.  stdin is          *)
(* buffered: scanf takes one character from the buffer of the C library,   *)
(* and only when that is empty it reads a line from the kernel.  select    *)
(* sees the kernel only.                                                   *)
(*                                                                         *)
(* The server's answer to an order is not modelled here (see Client): a    *)
(* refused order ends the client.                                          *)
(***************************************************************************)
EXTENDS Board, Sequences

CONSTANTS
  Lines,      \* the lines the player may type
  MaxLines    \* bound: lines the kernel holds

ACTION_MODE_MOVE        == 0
ACTION_MODE_SELECT_ALL  == 1
ACTION_MODE_SELECT_HALF == 2
Modes == {ACTION_MODE_MOVE, ACTION_MODE_SELECT_ALL, ACTION_MODE_SELECT_HALF}

Wasd == {"w", "a", "s", "d"}
Key  == Wasd \cup {"q", "e", "r", "newline", "other"}

\* The last step has sent no order.
NoOrder == [none |-> TRUE]

ASSUME KeyboardAssumption ==
  /\ Lines \subseteq {l \in Seq(Key) : l # << >>}
  /\ MaxLines \in Nat \ {0}

VARIABLES
  tty,           \* lines the kernel holds
  buf,           \* characters in the buffer of stdin
  ACTION_MODE,
  POS_X, POS_Y,  \* the cursor
  key,           \* history: the key taken last
  sent           \* history: the order sent by the last step

cursor == <<POS_X, POS_Y>>
vars == <<tty, buf, ACTION_MODE, POS_X, POS_Y, key, sent>>

\* The state in which state_game begins: scanf("%s") of the screens before
\* has left the newline of its line in the buffer.
Init ==
  /\ tty = << >>
  /\ buf = <<"newline">>
  /\ ACTION_MODE = ACTION_MODE_MOVE
  /\ POS_X = 0
  /\ POS_Y = 0
  /\ key = "newline"
  /\ sent = NoOrder

-----------------------------------------------------------------------------
\* The player types a line.
Type(l) ==
  /\ Len(tty) < MaxLines
  /\ tty' = Append(tty, l)
  /\ sent' = NoOrder
  /\ UNCHANGED <<buf, ACTION_MODE, cursor, key>>

\* Mutant of Within: the far edge is one too far.
Within_PastEdge(v, size) == IF v < 0 THEN 0 ELSE IF v > size THEN size ELSE v
\* postion_check, for one coordinate.
Within(v, size) == IF v < 0 THEN 0 ELSE IF v >= size THEN size - 1 ELSE v

\* action_move: the cursor goes one cell, but not off the map.
action_move(c) ==
  /\ POS_X' = Within(CASE c = "w" -> POS_X - 1 [] c = "s" -> POS_X + 1
                       [] OTHER -> POS_X, SizeX)
  /\ POS_Y' = Within(CASE c = "a" -> POS_Y - 1 [] c = "d" -> POS_Y + 1
                       [] OTHER -> POS_Y, SizeY)

\* Mutant of Way: a and d are exchanged.
Way_Mirrored(c) == CASE c = "w" -> 2 [] c = "a" -> 1 [] c = "d" -> 3 [] OTHER -> 0
\* The way of an order; 0 is also the way of a key that is none of wasd.
Way(c) == CASE c = "w" -> 2 [] c = "a" -> 3 [] c = "d" -> 1 [] OTHER -> 0

\* Mutant of Half: the two modes are exchanged.
Half_Exchanged(mode) == IF mode = ACTION_MODE_SELECT_ALL THEN 1 ELSE 0
\* all_or_half of an order, from the mode action_get passes on.
Half(mode) == IF mode = ACTION_MODE_SELECT_ALL THEN 0 ELSE 1

\* action_select: an order for the army under the cursor, then the cursor
\* goes the way the army went.
action_select(c, mode) ==
  /\ sent' = [x |-> POS_X, y |-> POS_Y, way |-> Way(c),
              all_or_half |-> Half(mode)]
  /\ action_move(c)

\* action_get: q, e and r choose the mode, any other key is for the mode.
action_get(c) ==
  \/ /\ c \in {"q", "e", "r"}
     /\ ACTION_MODE' = CASE c = "q" -> ACTION_MODE_MOVE
                         [] c = "e" -> ACTION_MODE_SELECT_ALL
                         [] c = "r" -> ACTION_MODE_SELECT_HALF
     /\ sent' = NoOrder
     /\ UNCHANGED cursor
  \/ /\ c \notin {"q", "e", "r"}
     /\ ACTION_MODE = ACTION_MODE_MOVE
     /\ action_move(c)
     /\ sent' = NoOrder
     /\ UNCHANGED ACTION_MODE
  \/ /\ c \notin {"q", "e", "r"}
     /\ ACTION_MODE = ACTION_MODE_SELECT_ALL
     /\ action_select(c, 1)
     /\ UNCHANGED ACTION_MODE
  \/ /\ c \notin {"q", "e", "r"}
     /\ ACTION_MODE = ACTION_MODE_SELECT_HALF
     /\ action_select(c, 0)
     /\ UNCHANGED ACTION_MODE

\* get_at_wait finds the kernel readable: scanf takes one character, from
\* the buffer if it holds any.  (A time-out changes nothing.)
get_at_wait ==
  /\ tty # << >>
  /\ \/ /\ buf # << >>
        /\ key' = Head(buf)
        /\ buf' = Tail(buf)
        /\ UNCHANGED tty
     \/ /\ buf = << >>
        /\ key' = Head(Head(tty))
        /\ buf' = Tail(Head(tty))
        /\ tty' = Tail(tty)
  /\ action_get(key')

Next == get_at_wait \/ \E l \in Lines : Type(l)

Spec == Init /\ [][Next]_vars

\* state_game polls for ever; nothing obliges the player to type.
FairSpec == Spec /\ WF_vars(get_at_wait)
-----------------------------------------------------------------------------
(* Properties.                                                             *)

\* The type of every variable.  The cursor is on the map and every order
\* sent is an Order, whatever is typed: this is what the server's room
\* assumes of its clients (Orders \subseteq Order in GameRoom).
TypeOK ==
  /\ tty \in Seq(Lines)
  /\ buf \in Seq(Key)
  /\ ACTION_MODE \in Modes
  /\ POS_X \in 0 .. SizeX - 1
  /\ POS_Y \in 0 .. SizeY - 1
  /\ key \in Key
  /\ sent \in Order \cup {NoOrder}

\* The cursor follows the army: after an order given with w, a, s or d it is
\* where the server's tables dx and dy send the army, or, when that is off
\* the map and the server refuses the order, where it was.  Client and
\* server have separate tables.
CursorFollowsArmy ==
  [][(sent' # NoOrder /\ key' \in Wasd) =>
       /\ Source(sent') = cursor
       /\ cursor' = IF Target(sent') \in Cells THEN Target(sent') ELSE cursor
    ]_vars

\* The mode shown on the screen is the march the server makes: with
\* SELECT_ALL one soldier stays, with SELECT_HALF the larger half stays,
\* with MOVE nobody marches.
ModeIsMarch ==
  [][sent' # NoOrder =>
       /\ ACTION_MODE # ACTION_MODE_MOVE
       /\ \A n \in 1 .. 5 :
            n - Marching(sent', n) =
              IF ACTION_MODE = ACTION_MODE_SELECT_ALL THEN 1 ELSE n - n \div 2
    ]_vars

\* The prompt: "Enter [wasd] to move, [q(MOVE) e(ALL) r(HALF)] to change
\* mode".  So orders come from w, a, s and d.
OrdersFromWasd == sent # NoOrder => key \in Wasd

\* The same prompt: every key the player has entered is acted on, whether or
\* not another line is ever typed.
EveryKeyActedOn ==
  (\E i \in 1 .. Len(buf) : buf[i] # "newline")
    ~> ~(\E i \in 1 .. Len(buf) : buf[i] # "newline")
=============================================================================
