---------------------------- MODULE ClientProofs ----------------------------
(***************************************************************************)
(* The clients of a room, for every number of clients and of slots: each   *)
(* client owns its slot until it leaves, the screen END is shown to nobody *)
(* who was out before he asked, and a refresh throws out no other players  *)
(* than OnlyOutExpelled names.                                             *)
(***************************************************************************)
EXTENDS Client, TLAPS

\* The codes differ, and those of the roster are those of the client.
LEMMA ClientCodes ==
  /\ GAME_STATE_WAIT = 0 /\ GAME_STATE_INGAME = 1 /\ GAME_STATE_END = 2
  /\ PLAYER_STATE_ALIVE = 0 /\ PLAYER_STATE_QUITED = 1 /\ PLAYER_STATE_DEAD = 2
  /\ GameStates = {0, 1, 2} /\ PlayerStates = {0, 1, 2}
  /\ Room!GAME_STATE_WAIT = 0 /\ Room!GAME_STATE_INGAME = 1
  /\ Room!GAME_STATE_END = 2
  /\ Room!PLAYER_STATE_ALIVE = 0 /\ Room!PLAYER_STATE_QUITED = 1
  /\ Room!PLAYER_STATE_DEAD = 2
BY DEF GAME_STATE_WAIT, GAME_STATE_INGAME, GAME_STATE_END, PLAYER_STATE_ALIVE,
       PLAYER_STATE_QUITED, PLAYER_STATE_DEAD, GameStates, PlayerStates,
       Room!GAME_STATE_WAIT, Room!GAME_STATE_INGAME, Room!GAME_STATE_END,
       Room!PLAYER_STATE_ALIVE, Room!PLAYER_STATE_QUITED,
       Room!PLAYER_STATE_DEAD

\* A reply is never the value that stands for none.
LEMMA NoReplyNotReply == NoReply \notin Reply
<1> SUFFICES ASSUME NoReply \in Reply PROVE FALSE
  OBVIOUS
<1>1. DOMAIN NoReply = {"none"}
  BY DEF NoReply
<1>2. DOMAIN NoReply = {"ok", "errmsg", "game_state", "player_id"}
  BY DEF Reply
<1> QED
  BY <1>1, <1>2

\* The screens at which a client waits for a reply.
Requests == ({"room_join"} \cup InLobby \cup InGame) \ Prompts

\* Replies are under way only to clients that wait for one, and a handler is
\* at work only for one that does.
Waits(c) ==
  /\ reply[c] # NoReply => screen[c] \in Requests
  /\ serving = c =>
       /\ reply[c] = NoReply
       /\ \/ screen[c] = "map_update" /\ (checked \/ c \in overtaken)
          \/ screen[c] = "player_update" /\ checked

AskInv == \A c \in Clients : Waits(c)

\* Slot 0 exists.
LEMMA SlotZero == 0 \in Slots
BY ClientAssumption DEF Slots

-----------------------------------------------------------------------------
(* What each kind of step does to the server's side of a slot.             *)

\* A step of the roster keeps its types.
LEMMA RoomTypes ==
  ASSUME game_state \in GameStates, player_state \in [Slots -> PlayerStates],
         Room!Next
  PROVE  game_state' \in GameStates /\ player_state' \in [Slots -> PlayerStates]
BY ClientCodes
  DEF Room!Next, Room!Start, Room!Round, Room!Finish, Room!Fall, Room!Join,
      Room!Quit

\* The answers have the type of a reply, and no other client gets one.
LEMMA AnswerTypes ==
  ASSUME TypeOK, NEW c \in Clients, NEW s \in GameStates, NEW p \in Slots,
         NEW msg \in {"Password Is Wrong", "refused"},
         Accept(c, s, p) \/ Refuse(c, msg)
  PROVE  /\ reply' \in [Clients -> Reply \cup {NoReply}]
         /\ \A d \in Clients \ {c} : reply'[d] = reply[d]
         /\ reply'[c] \in Reply
<1>1. CASE Accept(c, s, p)
  <2>1. [ok |-> TRUE, errmsg |-> "", game_state |-> s, player_id |-> p] \in Reply
    BY DEF Reply
  <2> QED
    BY <1>1, <2>1 DEF TypeOK, Accept
<1>2. CASE Refuse(c, msg)
  <2>1. [ok |-> FALSE, errmsg |-> msg, game_state |-> GAME_STATE_WAIT,
         player_id |-> 0] \in Reply
    BY SlotZero, ClientCodes DEF Reply
  <2> QED
    BY <1>2, <2>1 DEF TypeOK, Refuse
<1> QED
  BY <1>1, <1>2

\* The types are kept.
LEMMA ClientTypeStep == TypeOK /\ AskInv /\ [Next]_vars => TypeOK'
<1> SUFFICES ASSUME TypeOK, AskInv, [Next]_vars PROVE TypeOK'
  OBVIOUS
<1> USE DEF roomVars, serverVars, handlerVars
<1>1. ASSUME NEW c \in Clients, Join_Room(c) PROVE TypeOK'
  <2>1. CASE UNCHANGED <<roomVars, session>> /\ Refuse(c, "refused")
    BY <1>1, <2>1, AnswerTypes, SlotZero, ClientCodes DEF Join_Room, TypeOK
  <2>2. CASE UNCHANGED <<roomVars, session>> /\ Refuse(c, "Password Is Wrong")
    BY <1>1, <2>2, AnswerTypes, SlotZero, ClientCodes DEF Join_Room, TypeOK
  <2>3. ASSUME NEW p \in Slots, Room!Join(p), Accept(c, game_state, p),
               session' = [session EXCEPT ![p] = c]
        PROVE  TypeOK'
    <3>1. reply' \in [Clients -> Reply \cup {NoReply}]
      BY <2>3, AnswerTypes DEF TypeOK
    <3>2. game_state' \in GameStates /\ player_state' \in [Slots -> PlayerStates]
      BY <2>3, RoomTypes DEF TypeOK, Room!Next
    <3>3. seated' = {q \in Slots : session'[q] # Nobody}
      BY <2>3, ClientAssumption DEF TypeOK, Room!Join
    <3> QED
      BY <1>1, <2>3, <3>1, <3>2, <3>3 DEF Join_Room, TypeOK
  <2> QED
    BY <1>1, <2>1, <2>2, <2>3 DEF Join_Room
<1>2. ASSUME NEW c \in Clients, Unverified(c) PROVE TypeOK'
  BY <1>2, AnswerTypes, SlotZero, ClientCodes DEF Unverified, TypeOK
<1>3. ASSUME NEW c \in Clients, Room_Info(c) PROVE TypeOK'
  BY <1>3, AnswerTypes DEF Room_Info, TypeOK
<1>4. ASSUME NEW c \in Clients, Quit_Game(c) PROVE TypeOK'
  <2>1. PLAYER_ID[c] \in Slots
    BY DEF TypeOK
  <2>2. reply' \in [Clients -> Reply \cup {NoReply}]
    BY <1>4, <2>1, AnswerTypes DEF Quit_Game, TypeOK
  <2>3. game_state' \in GameStates /\ player_state' \in [Slots -> PlayerStates]
    BY <1>4, <2>1, RoomTypes DEF Quit_Game, TypeOK, Room!Next
  <2>5. seated' = {q \in Slots : session'[q] # Nobody}
    BY <1>4, <2>1, ClientAssumption, ClientCodes
      DEF Quit_Game, QuitSession, Room!Quit, TypeOK, verifySession
  <2> QED
    BY <1>4, <2>1, <2>2, <2>3, <2>5
      DEF Quit_Game, QuitSession, TypeOK, verifySession
<1>5. ASSUME NEW c \in Clients, Start_Game(c) PROVE TypeOK'
  <2>1. CASE Room!Start /\ Accept(c, game_state', PLAYER_ID[c]) /\ UNCHANGED server
    <3>1. game_state' \in GameStates
      BY <2>1, RoomTypes DEF TypeOK, Room!Next
    <3>2. PICK s \in GameStates : s = game_state'
      BY <3>1
    <3>3. Accept(c, s, PLAYER_ID[c])
      BY <2>1, <3>2 DEF Accept
    <3>4. reply' \in [Clients -> Reply \cup {NoReply}]
      BY <3>3, AnswerTypes DEF TypeOK
    <3> QED
      BY <1>5, <2>1, <3>1, <3>4 DEF Start_Game, TypeOK, Room!Start
  <2>2. CASE Refuse(c, "refused") /\ server' = "locked" /\ UNCHANGED roomVars
    BY <1>5, <2>2, AnswerTypes, SlotZero, ClientCodes DEF Start_Game, TypeOK
  <2> QED
    BY <1>5, <2>1, <2>2 DEF Start_Game
<1>6. ASSUME NEW c \in Clients, Map_Info_Peek(c) PROVE TypeOK'
  <2>1. reply' \in [Clients -> Reply \cup {NoReply}]
    BY <1>6, AnswerTypes, SlotZero, ClientCodes DEF Map_Info_Peek, TypeOK
  <2> QED
    BY <1>6, <2>1 DEF Map_Info_Peek, TypeOK
<1>7. ASSUME Map_Info PROVE TypeOK'
  <2>1. PICK c \in Clients : Map_Info!(c)
    BY <1>7 DEF Map_Info
  <2>2. reply' \in [Clients -> Reply \cup {NoReply}]
    BY <2>1, AnswerTypes, SlotZero, ClientCodes DEF TypeOK
  <2> QED
    BY <2>1, <2>2 DEF TypeOK
<1>17. ASSUME Answer PROVE TypeOK'
  <2>1. PICK c \in Clients : Answer!(c)
    BY <1>17 DEF Answer
  <2>2. reply' \in [Clients -> Reply \cup {NoReply}]
    BY <2>1, AnswerTypes DEF TypeOK
  <2> QED
    BY <2>1, <2>2 DEF TypeOK
<1>8. ASSUME NEW c \in Clients, Get_Player_Info(c) PROVE TypeOK'
  <2>1. reply' \in [Clients -> Reply \cup {NoReply}]
    BY <1>8, AnswerTypes, SlotZero, ClientCodes DEF Get_Player_Info, TypeOK
  <2> QED
    BY <1>8, <2>1 DEF Get_Player_Info, TypeOK
<1>9. ASSUME NEW c \in Clients, Add_Action(c) PROVE TypeOK'
  <2>1. reply' \in [Clients -> Reply \cup {NoReply}]
    BY <1>9, AnswerTypes, SlotZero, ClientCodes DEF Add_Action, TypeOK
  <2> QED
    BY <1>9, <2>1 DEF Add_Action, TypeOK
<1>10. ASSUME NEW c \in Clients, Block(c) PROVE TypeOK'
  BY <1>10 DEF Block, TypeOK
<1>11. ASSUME Round PROVE TypeOK'
  <2>1. game_state' \in GameStates /\ player_state' \in [Slots -> PlayerStates]
    BY <1>11, RoomTypes DEF Round, TypeOK, Room!Next
  <2> QED
    BY <1>11, <2>1
      DEF Round, TypeOK, Room!Round, Room!Finish, Room!Fall
<1>12. ASSUME delended PROVE TypeOK'
  BY <1>12 DEF delended, TypeOK
<1>13. ASSUME NEW c \in Clients, Receive(c) PROVE TypeOK'
  <2>1. reply[c] \in Reply
    BY <1>13 DEF Receive, TypeOK
  <2>2. reply' \in [Clients -> Reply \cup {NoReply}]
    BY <1>13 DEF Receive, TypeOK
  <2>3. CASE Error(reply[c])
    BY <1>13, <2>2, <2>3 DEF Receive, TypeOK, Screens, Terminal
  <2>4. CASE ~Error(reply[c])
    <3>1. screen[c] \in Requests
      BY <1>13 DEF Receive, AskInv, Waits
    <3>2. Onward(screen[c], reply[c].game_state) \in Screens
      BY <3>1
        DEF Requests, Prompts, Onward, Screens, InLobby, InGame, Terminal
    <3>3. screen' \in [Clients -> Screens]
      BY <1>13, <2>4, <3>2 DEF Receive, TypeOK
    <3> QED
      BY <1>13, <2>1, <2>2, <2>4, <3>3 DEF Receive, TypeOK, Reply, Updates
  <2> QED
    BY <2>3, <2>4
<1>14. ASSUME NEW c \in Clients, Refresh(c) \/ Enter(c) PROVE TypeOK'
  BY <1>14 DEF Refresh, Enter, Prompt, TypeOK, Screens, InLobby, InGame
<1>15. ASSUME NEW c \in Clients, Kill(c) PROVE TypeOK'
  BY <1>15 DEF Kill, TypeOK, Screens, Terminal
<1>16. CASE UNCHANGED vars
  BY <1>16 DEF vars, TypeOK
<1> QED
  BY <1>1, <1>2, <1>3, <1>4, <1>5, <1>6, <1>7, <1>8, <1>9, <1>10, <1>11,
     <1>12, <1>13, <1>14, <1>15, <1>16, <1>17 DEF Next, Serve
-----------------------------------------------------------------------------
(* The inductive invariant.  OwnSlot, EndScreen and OnlyOutExpelled speak   *)
(* of clients that have acted on a reply; it adds what the replies under   *)
(* way say.                                                                 *)

\* A reply r is under way to c, to its request of that name.
Answered(c, r, ok) == screen[c] = r /\ reply[c] # NoReply /\ reply[c].ok = ok

\* The client holds a slot: it has been let in and has not given it back.
Holds(c) ==
  /\ screen[c] \in InLobby \cup InGame \cup {"end"}
  /\ ~(screen[c] = "room_quit" /\ reply[c] # NoReply)

Owns(c) ==
  /\ Holds(c) => session[PLAYER_ID[c]] = c
  /\ Answered(c, "room_join", TRUE) => session[reply[c].player_id] = c

\* A client in the game, or about to enter it, has seen the start.
Started(c) ==
  (\/ screen[c] \in InGame
   \/ Answered(c, "start_game", TRUE)
   \/ /\ Answered(c, "room_update", TRUE)
      /\ reply[c].game_state = GAME_STATE_INGAME)
    => game_state # GAME_STATE_WAIT

\* The player of c is in the game, or fell while c was being answered.
Alive(c) == player_state[PLAYER_ID[c]] = PLAYER_STATE_ALIVE \/ c \in fallen

\* A client at the screen END, or about to get there, or whose answer is made
\* up.
Ends(c) ==
  /\ (\/ screen[c] = "end"
      \/ /\ Answered(c, "player_update", TRUE)
         /\ reply[c].game_state = GAME_STATE_END)
       => game_state = GAME_STATE_END /\ Alive(c)
  /\ serving = c /\ screen[c] = "player_update" => Alive(c)

\* A client whose refresh is about to end with an error.
Outs(c) ==
  Answered(c, "map_update", FALSE) \/ Answered(c, "player_update", FALSE)
    => \/ gone
       \/ player_state[PLAYER_ID[c]] # PLAYER_STATE_ALIVE
       \/ c \in overtaken

Good(c) == Waits(c) /\ Owns(c) /\ Started(c) /\ Ends(c) /\ Outs(c)

ClientInv == TypeOK /\ \A c \in Clients : Good(c)

\* A step of c, or of the main thread for c.
Acts(c) ==
  \/ Serve(c) \/ Receive(c) \/ Refresh(c) \/ Enter(c) \/ Kill(c)
  \/ (Map_Info \/ Answer) /\ serving = c

\* A step for one client leaves the others alone, and their marks.
LEMMA Others ==
  ASSUME TypeOK, Next, NEW d \in Clients, ~Acts(d)
  PROVE  /\ screen'[d] = screen[d]
         /\ reply'[d] = reply[d]
         /\ PLAYER_ID'[d] = PLAYER_ID[d]
         /\ d \in overtaken' <=> d \in overtaken
         /\ d \in fallen => d \in fallen'
         /\ serving' = d <=> serving = d
         /\ serving = d => checked' = checked
<1> USE DEF roomVars, serverVars, handlerVars
<1>1. ASSUME NEW c \in Clients, c # d,
             Serve(c) \/ Receive(c) \/ Refresh(c) \/ Enter(c) \/ Kill(c)
      PROVE  /\ screen'[d] = screen[d]
             /\ reply'[d] = reply[d]
             /\ PLAYER_ID'[d] = PLAYER_ID[d]
             /\ d \in overtaken' <=> d \in overtaken
             /\ d \in fallen => d \in fallen'
             /\ serving' = d <=> serving = d
             /\ serving = d => checked' = checked
  <2>1. CASE Serve(c)
    <3>1. /\ screen' = screen /\ PLAYER_ID' = PLAYER_ID
          /\ \A e \in Clients \ {c} : reply'[e] = reply[e]
      BY <2>1
        DEF Serve, Join_Room, Room_Info, Quit_Game, Start_Game, Map_Info_Peek,
            Get_Player_Info, Add_Action, Unverified, Block, Accept, Refuse,
            TypeOK
    <3>2. fallen' = fallen /\ (d \in overtaken' <=> d \in overtaken)
      BY <1>1, <2>1
        DEF Serve, Join_Room, Room_Info, Quit_Game, Start_Game, Map_Info_Peek,
            Get_Player_Info, Add_Action, Unverified, Block
    <3>3. (serving' = d <=> serving = d) /\ (serving = d => checked' = checked)
      BY <1>1, <2>1, ClientAssumption
        DEF Serve, Join_Room, Room_Info, Quit_Game, Start_Game, Map_Info_Peek,
            Get_Player_Info, Add_Action, Unverified, Block, Asked
    <3> QED
      BY <1>1, <3>1, <3>2, <3>3
  <2>2. CASE Receive(c)
    BY <1>1, <2>2 DEF Receive, TypeOK
  <2>3. CASE Refresh(c) \/ Enter(c)
    BY <1>1, <2>3 DEF Refresh, Enter, Prompt, TypeOK
  <2>4. CASE Kill(c)
    BY <1>1, <2>4 DEF Kill, TypeOK
  <2> QED
    BY <1>1, <2>1, <2>2, <2>3, <2>4
<1>2. CASE Map_Info
  <2>1. PICK c \in Clients : Map_Info!(c)
    BY <1>2 DEF Map_Info
  <2>2. c # d
    BY <1>2, <2>1 DEF Acts
  <2>3. reply'[d] = reply[d]
    BY <2>1, <2>2 DEF Accept, Refuse, TypeOK
  <2> QED
    BY <2>1, <2>2, <2>3, ClientAssumption
<1>4. CASE Answer
  <2>1. PICK c \in Clients : Answer!(c)
    BY <1>4 DEF Answer
  <2>2. c # d
    BY <1>4, <2>1 DEF Acts
  <2>3. reply'[d] = reply[d]
    BY <2>1, <2>2 DEF Accept, TypeOK
  <2> QED
    BY <2>1, <2>2, <2>3, ClientAssumption
<1>3. CASE Round \/ delended
  BY <1>3 DEF Round, delended
<1> QED
  BY <1>1, <1>2, <1>3, <1>4 DEF Next, Acts

\* What the world does to a slot of d while d does not act: the session and
\* the state of the player stay, except that the player may fall.
LEMMA SlotFacts ==
  ASSUME TypeOK, Next, NEW d \in Clients, ~Acts(d),
         NEW p \in Slots, session[p] = d
  PROVE  /\ session'[p] = d
         /\ player_state[p] # PLAYER_STATE_ALIVE =>
              player_state'[p] # PLAYER_STATE_ALIVE
         /\ game_state = GAME_STATE_END => player_state'[p] = player_state[p]
         /\ player_state'[p] = player_state[p] \/ Round
<1> USE ClientCodes DEF roomVars, serverVars, handlerVars
<1>0. d # Nobody /\ p \in seated
  BY ClientAssumption DEF TypeOK
<1>1. ASSUME NEW c \in Clients, Join_Room(c)
      PROVE  UNCHANGED <<session[p], player_state[p]>>
  BY <1>0, <1>1 DEF Join_Room, Room!Join, Room!FreeSlots, TypeOK
<1>2. ASSUME NEW c \in Clients, Quit_Game(c)
      PROVE  UNCHANGED <<session[p], player_state[p]>>
  <2>1. PLAYER_ID[c] # p
    BY <1>2 DEF Acts, Serve, Quit_Game, verifySession
  <2> QED
    BY <1>0, <1>2, <2>1 DEF Quit_Game, Room!Quit, TypeOK
<1>3. ASSUME NEW c \in Clients, Start_Game(c)
      PROVE  UNCHANGED <<session[p], player_state[p]>>
  BY <1>3 DEF Start_Game, Room!Start
<1>4. ASSUME NEW c \in Clients,
             \/ Room_Info(c) \/ Map_Info_Peek(c) \/ Get_Player_Info(c)
             \/ Add_Action(c) \/ Unverified(c) \/ Block(c) \/ Receive(c)
             \/ Refresh(c) \/ Enter(c) \/ Kill(c) \/ Map_Info \/ Answer \/ delended
      PROVE  UNCHANGED <<session[p], player_state[p]>>
  BY <1>4
    DEF Room_Info, Map_Info_Peek, Get_Player_Info, Add_Action, Unverified,
        Block, Receive, Refresh, Enter, Prompt, Kill, Map_Info, Answer,
        delended
<1>5. CASE Round
  BY <1>5 DEF Round, Room!Round, Room!Finish, Room!Fall, TypeOK
<1> QED
  BY <1>1, <1>2, <1>3, <1>4, <1>5 DEF Next, Serve

\* A game that has started stays started, one that is over stays over, and a
\* deleted room stays deleted.
LEMMA Forward ==
  ASSUME TypeOK, Next
  PROVE  /\ game_state # GAME_STATE_WAIT => game_state' # GAME_STATE_WAIT
         /\ game_state = GAME_STATE_END => game_state' = GAME_STATE_END
         /\ gone => gone'
<1> USE ClientCodes DEF roomVars, serverVars, handlerVars
<1> DEFINE P == /\ game_state # GAME_STATE_WAIT => game_state' # GAME_STATE_WAIT
                /\ game_state = GAME_STATE_END => game_state' = GAME_STATE_END
                /\ gone => gone'
<1>1. ASSUME NEW c \in Clients, Serve(c) PROVE P
  <2>1. CASE Join_Room(c)
    BY <2>1 DEF Join_Room, Room!Join
  <2>3. CASE Quit_Game(c)
    BY <2>3 DEF Quit_Game, Room!Quit
  <2>4. CASE Start_Game(c)
    BY <2>4 DEF Start_Game, Room!Start
  <2>2. CASE ~(Join_Room(c) \/ Quit_Game(c) \/ Start_Game(c))
    BY <1>1, <2>2
      DEF Serve, Room_Info, Map_Info_Peek, Get_Player_Info, Add_Action,
          Unverified, Block
  <2> QED
    BY <2>1, <2>2, <2>3, <2>4
<1>2. ASSUME NEW c \in Clients, Receive(c) \/ Refresh(c) \/ Enter(c) \/ Kill(c)
      PROVE  P
  BY <1>2 DEF Receive, Refresh, Enter, Prompt, Kill
<1>3. CASE Map_Info \/ Answer \/ delended
  BY <1>3 DEF Map_Info, Answer, delended
<1>4. CASE Round
  BY <1>4 DEF Round, Room!Round, Room!Finish, Room!Fall
<1> QED
  BY <1>1, <1>2, <1>3, <1>4 DEF Next

-----------------------------------------------------------------------------
(* The step, seen from one client d: while others act, and for each action *)
(* of its own.                                                             *)

\* The world goes on while d does nothing.
LEMMA GoodBystander ==
  ASSUME ClientInv, Next, NEW d \in Clients, ~Acts(d)
  PROVE  Good(d)'
<1>1. TypeOK /\ Good(d) /\ PLAYER_ID[d] \in Slots
  BY DEF ClientInv, TypeOK
<1>2. /\ screen'[d] = screen[d] /\ reply'[d] = reply[d]
      /\ PLAYER_ID'[d] = PLAYER_ID[d]
      /\ d \in overtaken' <=> d \in overtaken
      /\ d \in fallen => d \in fallen'
      /\ serving' = d <=> serving = d
      /\ serving = d => checked' = checked
  BY <1>1, Others
<1>3. /\ game_state # GAME_STATE_WAIT => game_state' # GAME_STATE_WAIT
      /\ game_state = GAME_STATE_END => game_state' = GAME_STATE_END
      /\ gone => gone'
  BY <1>1, Forward
<1>4. \A p \in Slots : session[p] = d =>
        /\ session'[p] = d
        /\ player_state[p] # PLAYER_STATE_ALIVE =>
             player_state'[p] # PLAYER_STATE_ALIVE
        /\ game_state = GAME_STATE_END => player_state'[p] = player_state[p]
        /\ player_state'[p] = player_state[p] \/ Round
  BY <1>1, SlotFacts
<1>5. Waits(d)'
  BY <1>1, <1>2 DEF Good, Waits
<1>6. Owns(d)'
  <2>1. Holds(d)' => session'[PLAYER_ID'[d]] = d
    BY <1>1, <1>2, <1>4 DEF Good, Owns, Holds
  <2>2. reply[d] # NoReply => reply[d].player_id \in Slots
    BY <1>1 DEF TypeOK, Reply
  <2>3. Answered(d, "room_join", TRUE)' => session'[reply'[d].player_id] = d
    BY <1>1, <1>2, <1>4, <2>2 DEF Good, Owns, Answered
  <2> QED
    BY <2>1, <2>3 DEF Owns
<1>7. Started(d)'
  BY <1>1, <1>2, <1>3 DEF Good, Started, Answered
<1>8. Ends(d)'
  <2>1. screen[d] = "end" \/ screen[d] = "player_update" =>
          session[PLAYER_ID[d]] = d
    BY <1>1 DEF Good, Owns, Holds, InGame
  <2>2. /\ serving = d /\ screen[d] = "player_update"
        /\ player_state'[PLAYER_ID[d]] # player_state[PLAYER_ID[d]]
        => d \in fallen'
    BY <1>1, <1>4, <2>1 DEF Round
  <2>3. serving' = d /\ screen'[d] = "player_update" => Alive(d)'
    BY <1>1, <1>2, <2>2 DEF Good, Ends, Alive
  <2>4. ASSUME \/ screen'[d] = "end"
               \/ /\ Answered(d, "player_update", TRUE)'
                  /\ reply'[d].game_state = GAME_STATE_END
        PROVE  game_state' = GAME_STATE_END /\ Alive(d)'
    BY <1>1, <1>2, <1>3, <1>4, <2>1, <2>4 DEF Good, Ends, Answered, Alive
  <2> QED
    BY <2>3, <2>4 DEF Ends
<1>9. Outs(d)'
  <2>1. screen[d] = "map_update" \/ screen[d] = "player_update" =>
          session[PLAYER_ID[d]] = d
    BY <1>1 DEF Good, Owns, Holds, InGame
  <2> QED
    BY <1>1, <1>2, <1>3, <1>4, <2>1 DEF Good, Outs, Answered
<1> QED
  BY <1>5, <1>6, <1>7, <1>8, <1>9 DEF Good

\* What an answer says to the client that gets it.
LEMMA Accepted ==
  ASSUME TypeOK, NEW d \in Clients, NEW s, NEW p, Accept(d, s, p)
  PROVE  /\ reply'[d].ok = TRUE
         /\ reply'[d].game_state = s
         /\ reply'[d].player_id = p
BY DEF TypeOK, Accept

LEMMA Refused ==
  ASSUME TypeOK, NEW d \in Clients, NEW msg, Refuse(d, msg)
  PROVE  reply'[d].ok = FALSE
BY DEF TypeOK, Refuse

\* A refusal leaves d where it was; in a refresh it takes a reason.
LEMMA GoodWhenRefused ==
  ASSUME ClientInv, NEW d \in Clients, NEW msg, Refuse(d, msg),
         screen[d] \in Requests, reply[d] = NoReply, serving' # d,
         screen' = screen, PLAYER_ID' = PLAYER_ID, session' = session,
         game_state' = game_state, player_state' = player_state,
         fallen' = fallen,
         screen[d] \in {"map_update", "player_update"} =>
           \/ gone'
           \/ player_state[PLAYER_ID[d]] # PLAYER_STATE_ALIVE
           \/ d \in overtaken'
  PROVE  Good(d)'
<1>1. reply'[d].ok = FALSE
  BY Refused DEF ClientInv
<1>2. Good(d)
  BY DEF ClientInv
<1>3. Waits(d)'
  BY DEF Waits
<1>4. Owns(d)'
  BY <1>1, <1>2 DEF Good, Owns, Holds, Answered
<1>5. Started(d)'
  BY <1>1, <1>2 DEF Good, Started, Answered
<1>6. Ends(d)'
  BY <1>1, <1>2 DEF Good, Ends, Alive, Answered
<1>7. Outs(d)'
  BY DEF Outs, Answered
<1> QED
  BY <1>3, <1>4, <1>5, <1>6, <1>7 DEF Good

\* An answer to a client that stays in its slot tells it the state of the
\* room; at player_update it goes to players who were alive when asked for.
LEMMA GoodWhenAccepted ==
  ASSUME ClientInv, NEW d \in Clients, NEW p, Accept(d, game_state, p),
         screen[d] \in {"room_update", "map_update", "player_update",
                        "action_requst"},
         reply[d] = NoReply, serving' # d,
         screen' = screen, PLAYER_ID' = PLAYER_ID, session' = session,
         game_state' = game_state, player_state' = player_state,
         fallen' = fallen,
         screen[d] = "player_update" => Alive(d)
  PROVE  Good(d)'
<1>1. reply'[d].ok = TRUE /\ reply'[d].game_state = game_state
  BY Accepted DEF ClientInv
<1>2. Good(d)
  BY DEF ClientInv
<1>3. Waits(d)'
  BY DEF Waits, Requests, InLobby, InGame, Prompts
<1>4. Owns(d)'
  BY <1>2 DEF Good, Owns, Holds, Answered
<1>5. Started(d)'
  BY <1>1, <1>2, ClientCodes DEF Good, Started, Answered
<1>6. Ends(d)'
  BY <1>1, <1>2 DEF Good, Ends, Alive, Answered
<1>7. Outs(d)'
  BY <1>1 DEF Outs, Answered
<1> QED
  BY <1>3, <1>4, <1>5, <1>6, <1>7 DEF Good

\* A client that holds its slot fails verifySession in a deleted room only.
LEMMA Verified ==
  ASSUME ClientInv, NEW d \in Clients, screen[d] \in InLobby \cup InGame,
         reply[d] = NoReply, ~verifySession(d)
  PROVE  gone
BY DEF ClientInv, Good, Owns, Holds, verifySession

LEMMA GoodJoin ==
  ASSUME ClientInv, NEW d \in Clients, Join_Room(d)
  PROVE  Good(d)'
<1> USE DEF roomVars, serverVars, handlerVars
<1>1. /\ screen[d] = "room_join" /\ reply[d] = NoReply /\ serving' # d
      /\ screen' = screen /\ PLAYER_ID' = PLAYER_ID /\ fallen' = fallen
  BY ClientAssumption DEF Join_Room, Asked
<1>2. "room_join" \in Requests
  BY DEF Requests, Prompts
<1>3. CASE UNCHANGED <<roomVars, session>> /\ \E msg : Refuse(d, msg)
  BY <1>1, <1>2, <1>3, GoodWhenRefused
<1>4. ASSUME NEW p \in Slots, session' = [session EXCEPT ![p] = d],
             Accept(d, game_state, p)
      PROVE  Good(d)'
  <2>1. reply'[d].ok = TRUE /\ reply'[d].player_id = p
    BY <1>4, Accepted DEF ClientInv
  <2>2. session'[p] = d
    BY <1>4 DEF ClientInv, TypeOK
  <2>3. Waits(d)'
    BY <1>1, <1>2 DEF Waits
  <2>4. Owns(d)'
    BY <1>1, <2>1, <2>2 DEF Owns, Holds, Answered, InLobby, InGame
  <2>5. Started(d)' /\ Ends(d)' /\ Outs(d)'
    BY <1>1 DEF Started, Ends, Outs, Answered, InGame
  <2> QED
    BY <2>3, <2>4, <2>5 DEF Good
<1> QED
  BY <1>3, <1>4 DEF Join_Room

LEMMA GoodQuit ==
  ASSUME ClientInv, NEW d \in Clients, Quit_Game(d)
  PROVE  Good(d)'
<1> USE DEF handlerVars
<1>1. /\ screen[d] = "room_quit" /\ serving' # d
      /\ screen' = screen /\ PLAYER_ID' = PLAYER_ID
  BY ClientAssumption DEF Quit_Game, Asked
<1>2. reply'[d] # NoReply
  <2>1. PLAYER_ID[d] \in Slots /\ game_state \in GameStates
    BY DEF ClientInv, TypeOK
  <2>2. reply'[d] \in Reply
    BY <2>1, AnswerTypes DEF Quit_Game, ClientInv
  <2> QED
    BY <2>2, NoReplyNotReply
<1>3. "room_quit" \in Requests
  BY DEF Requests, Prompts, InLobby
<1>4. Waits(d)'
  BY <1>1, <1>3 DEF Waits
<1>5. Owns(d)'
  BY <1>1, <1>2 DEF Owns, Holds, Answered
<1>6. Started(d)' /\ Ends(d)' /\ Outs(d)'
  BY <1>1 DEF Started, Ends, Outs, Answered, InGame
<1> QED
  BY <1>4, <1>5, <1>6 DEF Good

LEMMA GoodStart ==
  ASSUME ClientInv, NEW d \in Clients, Start_Game(d)
  PROVE  Good(d)'
<1> USE DEF roomVars, serverVars, handlerVars
<1>1. /\ screen[d] = "start_game" /\ reply[d] = NoReply /\ serving' # d
      /\ screen' = screen /\ PLAYER_ID' = PLAYER_ID /\ session' = session
      /\ fallen' = fallen
  BY ClientAssumption DEF Start_Game, Asked
<1>2. "start_game" \in Requests
  BY DEF Requests, Prompts, InLobby
<1>3. CASE UNCHANGED roomVars /\ Refuse(d, "refused")
  BY <1>1, <1>2, <1>3, GoodWhenRefused
<1>4. CASE Room!Start
  <2>1. Waits(d)'
    BY <1>1, <1>2 DEF Waits
  <2>2. Owns(d)'
    BY <1>1 DEF ClientInv, Good, Owns, Holds, Answered
  <2>3. Started(d)'
    BY <1>4, ClientCodes DEF Started, Room!Start
  <2>4. Ends(d)' /\ Outs(d)'
    BY <1>1 DEF Ends, Outs, Answered
  <2> QED
    BY <2>1, <2>2, <2>3, <2>4 DEF Good
<1> QED
  BY <1>3, <1>4 DEF Start_Game

LEMMA GoodMapInfoPeek ==
  ASSUME ClientInv, NEW d \in Clients, Map_Info_Peek(d)
  PROVE  Good(d)'
<1> USE DEF roomVars, serverVars, handlerVars
<1>1. /\ screen[d] = "map_update" /\ reply[d] = NoReply /\ serving # d
      /\ screen' = screen /\ PLAYER_ID' = PLAYER_ID /\ session' = session
      /\ game_state' = game_state /\ player_state' = player_state
      /\ gone' = gone /\ fallen' = fallen
  BY ClientAssumption DEF Map_Info_Peek, Asked
<1>2. "map_update" \in Requests /\ "map_update" \in InGame
  BY DEF Requests, Prompts, InGame
<1>3. CASE Accept(d, game_state, PLAYER_ID[d]) /\ UNCHANGED serving
  BY <1>1, <1>3, GoodWhenAccepted
<1>4. CASE ~verifySession(d) /\ Refuse(d, "refused") /\ UNCHANGED serving
  <2>1. gone
    BY <1>1, <1>2, <1>4, Verified
  <2> QED
    BY <1>1, <1>2, <1>4, <2>1, GoodWhenRefused
<1>5. CASE ~Ended /\ verifySession(d) /\ serving' = d /\ UNCHANGED reply
  <2>1. d \in overtaken'
    BY <1>5 DEF Map_Info_Peek, Ended, verifySession
  <2>2. Waits(d)'
    BY <1>1, <1>5, <2>1 DEF Waits
  <2>3. Good(d)
    BY DEF ClientInv
  <2>4. Owns(d)'
    BY <1>1, <1>5, <2>3 DEF Good, Owns, Holds, Answered
  <2>5. Started(d)' /\ Ends(d)' /\ Outs(d)'
    BY <1>1, <1>5, <2>3 DEF Good, Started, Ends, Outs, Answered
  <2> QED
    BY <2>2, <2>4, <2>5 DEF Good
<1> QED
  BY <1>3, <1>4, <1>5 DEF Map_Info_Peek

LEMMA GoodMapInfo ==
  ASSUME ClientInv, NEW d \in Clients, Map_Info, serving = d
  PROVE  Good(d)'
<1> USE DEF roomVars, serverVars, handlerVars
<1>1. PICK c \in Clients : Map_Info!(c)
  BY DEF Map_Info
<1>2. c = d
  BY <1>1
<1>3. /\ screen[d] = "map_update" /\ reply[d] = NoReply /\ d \in overtaken
      /\ game_state # GAME_STATE_WAIT
  BY <1>1, <1>2 DEF ClientInv, Good, Waits, Started, InGame
<1>4. "map_update" \in Requests
  BY DEF Requests, Prompts, InGame
<1>5. /\ screen' = screen /\ PLAYER_ID' = PLAYER_ID
      /\ session' = session /\ game_state' = game_state
      /\ player_state' = player_state /\ fallen' = fallen
  BY <1>1, <1>2
<1>6. CASE checked' = TRUE /\ UNCHANGED <<serving, reply>>
  <2>1. Good(d)
    BY DEF ClientInv
  <2>2. Waits(d)' /\ Owns(d)'
    BY <1>3, <1>5, <1>6, <2>1 DEF Good, Waits, Owns, Holds, Answered
  <2>3. Started(d)' /\ Ends(d)' /\ Outs(d)'
    BY <1>3, <1>5, <1>6, <2>1 DEF Good, Started, Ends, Outs, Answered
  <2> QED
    BY <2>2, <2>3 DEF Good
<1>7. CASE /\ serving' = Nobody /\ Refuse(d, "refused")
           /\ \/ game_state # GAME_STATE_INGAME
              \/ player_state[PLAYER_ID[d]] # PLAYER_STATE_ALIVE
  <2>1. game_state # GAME_STATE_INGAME => d \in overtaken'
    <3>1. game_state \in GameStates
      BY DEF ClientInv, TypeOK
    <3> QED
      BY <1>1, <1>2, <1>3, <3>1, ClientCodes
  <2> QED
    BY <1>3, <1>4, <1>5, <1>7, <2>1, ClientAssumption, GoodWhenRefused
<1> QED
  BY <1>1, <1>2, <1>6, <1>7

LEMMA GoodPlayerInfo ==
  ASSUME ClientInv, NEW d \in Clients, Get_Player_Info(d)
  PROVE  Good(d)'
<1> USE DEF roomVars, serverVars, handlerVars
<1>1. /\ screen[d] = "player_update" /\ reply[d] = NoReply /\ serving # d
      /\ screen' = screen /\ PLAYER_ID' = PLAYER_ID /\ session' = session
      /\ game_state' = game_state /\ player_state' = player_state
      /\ fallen' = fallen
  BY ClientAssumption DEF Get_Player_Info, Asked
<1>2. "player_update" \in Requests
  BY DEF Requests, Prompts, InGame
<1>3. Good(d) /\ game_state # GAME_STATE_WAIT
  BY <1>1 DEF ClientInv, Good, Started, InGame
<1>4. CASE /\ PlayerInfoFor(PLAYER_ID[d]) /\ serving' = d /\ checked' = TRUE
           /\ UNCHANGED reply
  <2>1. Waits(d)' /\ Owns(d)'
    BY <1>1, <1>3, <1>4 DEF Good, Waits, Owns, Holds, Answered
  <2>2. Started(d)' /\ Ends(d)' /\ Outs(d)'
    BY <1>1, <1>3, <1>4
      DEF Good, Started, Ends, Alive, Outs, Answered, PlayerInfoFor
  <2> QED
    BY <2>1, <2>2 DEF Good
<1>5. CASE /\ ~PlayerInfoFor(PLAYER_ID[d]) /\ Refuse(d, "refused")
           /\ UNCHANGED <<serving, checked>>
  <2>1. player_state[PLAYER_ID[d]] # PLAYER_STATE_ALIVE
    BY <1>3, <1>5 DEF PlayerInfoFor
  <2> QED
    BY <1>1, <1>2, <1>5, <2>1, GoodWhenRefused
<1> QED
  BY <1>4, <1>5 DEF Get_Player_Info

LEMMA GoodAnswer ==
  ASSUME ClientInv, NEW d \in Clients, Answer, serving = d
  PROVE  Good(d)'
<1> USE DEF roomVars, serverVars, handlerVars
<1>1. PICK c \in Clients : Answer!(c)
  BY DEF Answer
<1>2. c = d
  BY <1>1
<1>3. /\ screen[d] \in {"map_update", "player_update"} /\ reply[d] = NoReply
      /\ screen[d] = "player_update" => Alive(d)
  BY DEF ClientInv, Good, Waits, Ends
<1>4. /\ serving' # d /\ screen' = screen /\ PLAYER_ID' = PLAYER_ID
      /\ session' = session /\ game_state' = game_state
      /\ player_state' = player_state /\ fallen' = fallen
  BY <1>1, <1>2, ClientAssumption
<1> QED
  BY <1>1, <1>2, <1>3, <1>4, GoodWhenAccepted

LEMMA GoodOtherAnswers ==
  ASSUME ClientInv, NEW d \in Clients,
         \/ Room_Info(d) \/ Add_Action(d) \/ Unverified(d) \/ Block(d)
  PROVE  Good(d)'
<1> USE DEF roomVars, serverVars, handlerVars
<1>1. /\ reply[d] = NoReply /\ serving' # d /\ screen' = screen
      /\ PLAYER_ID' = PLAYER_ID /\ session' = session /\ gone' = gone
      /\ game_state' = game_state /\ player_state' = player_state
      /\ overtaken' = overtaken /\ fallen' = fallen /\ checked' = checked
  BY ClientAssumption DEF Room_Info, Add_Action, Unverified, Block, Asked
<1>2. CASE Room_Info(d)
  BY <1>1, <1>2, GoodWhenAccepted DEF Room_Info, Asked
<1>4. CASE Add_Action(d)
  <2>1. screen[d] = "action_requst" /\ "action_requst" \in Requests
    BY <1>4 DEF Add_Action, Asked, Requests, Prompts, InGame
  <2>2. CASE Accept(d, game_state, PLAYER_ID[d])
    BY <1>1, <2>1, <2>2, GoodWhenAccepted
  <2>3. CASE Refuse(d, "refused")
    BY <1>1, <2>1, <2>3, GoodWhenRefused
  <2> QED
    BY <1>4, <2>2, <2>3 DEF Add_Action
<1>5. CASE Unverified(d)
  <2>1. screen[d] \in InLobby \cup InGame /\ screen[d] \in Requests
    BY <1>5 DEF Unverified, Asked, Requests, Prompts
  <2>2. gone
    BY <1>1, <1>5, <2>1, Verified DEF Unverified
  <2> QED
    BY <1>1, <1>5, <2>1, <2>2, GoodWhenRefused DEF Unverified
<1>6. CASE Block(d)
  <2>1. reply' = reply
    BY <1>6 DEF Block
  <2>2. Good(d)
    BY DEF ClientInv
  <2>3. Waits(d)' /\ Owns(d)'
    BY <1>1, <2>1, <2>2 DEF Good, Waits, Owns, Holds, Answered
  <2>4. Started(d)' /\ Ends(d)' /\ Outs(d)'
    BY <1>1, <2>1, <2>2 DEF Good, Started, Ends, Alive, Outs, Answered
  <2> QED
    BY <2>3, <2>4 DEF Good
<1> QED
  BY <1>2, <1>4, <1>5, <1>6

\* The client has its reply.
LEMMA GoodReceive ==
  ASSUME ClientInv, NEW d \in Clients, Receive(d)
  PROVE  Good(d)'
<1> USE DEF roomVars, serverVars, handlerVars
<1>1. /\ session' = session /\ gone' = gone /\ game_state' = game_state
      /\ player_state' = player_state /\ serving' = serving
      /\ fallen' = fallen /\ reply'[d] = NoReply
  BY DEF Receive, ClientInv, TypeOK
<1>2. /\ Good(d) /\ screen[d] \in Requests /\ serving # d
      /\ reply[d] # NoReply /\ screen \in [Clients -> Screens]
      /\ PLAYER_ID \in [Clients -> Slots]
  BY DEF ClientInv, Good, Waits, Receive, TypeOK
<1>3. Waits(d)'
  BY <1>1, <1>2 DEF Waits
<1>4. Outs(d)'
  BY <1>1 DEF Outs, Answered
<1>5. CASE Error(reply[d])
  <2>1. screen'[d] = "error"
    BY <1>2, <1>5 DEF Receive
  <2>2. Owns(d)' /\ Started(d)' /\ Ends(d)'
    BY <1>1, <2>1
      DEF Owns, Holds, Started, Ends, Alive, Answered, InLobby, InGame
  <2> QED
    BY <1>3, <1>4, <2>2 DEF Good
<1>6. CASE ~Error(reply[d])
  <2>1. reply[d].ok = TRUE
    BY <1>2, <1>6 DEF Error, ClientInv, TypeOK, Reply
  <2>2. /\ screen'[d] = Onward(screen[d], reply[d].game_state)
        /\ PLAYER_ID'[d] = IF screen[d] = "room_join" THEN reply[d].player_id
                                                      ELSE PLAYER_ID[d]
    BY <1>2, <1>6 DEF Receive
  <2>3. CASE screen[d] = "room_join"
    <3>1. screen'[d] = "room_update"
      BY <2>2, <2>3 DEF Onward
    <3>2. Owns(d)'
      BY <1>1, <1>2, <2>1, <2>2, <2>3 DEF Good, Owns, Answered
    <3> QED
      BY <1>1, <1>3, <1>4, <3>1, <3>2 DEF Good, Started, Ends, Alive, Answered, InGame
  <2>4. CASE screen[d] = "room_update"
    <3>1. \/ screen'[d] = "lobby"
          \/ /\ screen'[d] = "map_update"
             /\ reply[d].game_state = GAME_STATE_INGAME
      BY <2>2, <2>4 DEF Onward
    <3>2. Owns(d)'
      BY <1>1, <1>2, <2>2, <2>4
        DEF Good, Owns, Holds, Answered, InLobby
    <3>3. Started(d)'
      BY <1>1, <1>2, <2>1, <2>4, <3>1 DEF Good, Started, Answered, InGame
    <3> QED
      BY <1>1, <1>3, <1>4, <3>1, <3>2, <3>3 DEF Good, Ends, Alive, Answered
  <2>5. CASE screen[d] = "room_quit"
    <3>1. screen'[d] = "exit"
      BY <2>2, <2>5 DEF Onward
    <3> QED
      BY <1>1, <1>3, <1>4, <3>1
        DEF Good, Owns, Holds, Started, Ends, Alive, Answered, InLobby, InGame
  <2>6. CASE screen[d] = "start_game"
    <3>1. screen'[d] = "map_update"
      BY <2>2, <2>6 DEF Onward
    <3>2. Owns(d)' /\ Started(d)'
      BY <1>1, <1>2, <2>1, <2>2, <2>6
        DEF Good, Owns, Holds, Started, Answered, InLobby
    <3> QED
      BY <1>1, <1>3, <1>4, <3>1, <3>2 DEF Good, Ends, Alive, Answered
  <2>7. CASE screen[d] \in {"map_update", "action_requst"}
    <3>1. screen'[d] \in {"map_update", "player_update"}
      BY <2>2, <2>7 DEF Onward
    <3>2. Owns(d)' /\ Started(d)'
      BY <1>1, <1>2, <2>2, <2>7
        DEF Good, Owns, Holds, Started, Answered, InGame
    <3> QED
      BY <1>1, <1>2, <1>3, <1>4, <3>1, <3>2 DEF Good, Ends, Alive, Answered
  <2>8. CASE screen[d] = "player_update"
    <3>1. \/ screen'[d] = "keys"
          \/ /\ screen'[d] = "end"
             /\ reply[d].game_state = GAME_STATE_END
      BY <2>2, <2>8 DEF Onward, Over
    <3>2. Owns(d)' /\ Started(d)'
      BY <1>1, <1>2, <2>2, <2>8
        DEF Good, Owns, Holds, Started, Answered, InGame
    <3>3. Ends(d)'
      BY <1>1, <1>2, <2>1, <2>2, <2>8, <3>1 DEF Good, Ends, Alive, Answered
    <3> QED
      BY <1>3, <1>4, <3>2, <3>3 DEF Good
  <2> QED
    BY <1>2, <2>3, <2>4, <2>5, <2>6, <2>7, <2>8
      DEF Requests, Prompts, InLobby, InGame
<1> QED
  BY <1>5, <1>6

\* The prompts, and the end of the process.
LEMMA GoodPrompt ==
  ASSUME ClientInv, NEW d \in Clients, Refresh(d) \/ Enter(d) \/ Kill(d)
  PROVE  Good(d)'
<1> USE DEF roomVars, serverVars, handlerVars
<1>1. /\ session' = session /\ gone' = gone /\ game_state' = game_state
      /\ player_state' = player_state /\ serving' = serving
      /\ PLAYER_ID' = PLAYER_ID
  BY DEF Refresh, Enter, Prompt, Kill
<1>2. Good(d) /\ screen \in [Clients -> Screens]
  BY DEF ClientInv, TypeOK
<1>3. CASE Kill(d)
  <2>1. screen'[d] = "exit" /\ reply'[d] = NoReply /\ serving # d
    BY <1>3 DEF Kill, ClientInv, TypeOK
  <2> QED
    BY <1>1, <2>1
      DEF Good, Waits, Owns, Holds, Started, Ends, Outs, Answered, InLobby,
          InGame
<1>4. CASE Refresh(d) \/ Enter(d)
  <2>1. reply' = reply
    BY <1>4 DEF Refresh, Enter, Prompt
  <2>2. \/ /\ screen[d] \in {"lobby", "scanf"}
           /\ screen'[d] \in {"room_update", "scanf", "room_quit", "start_game"}
        \/ /\ screen[d] = "keys"
           /\ screen'[d] \in {"map_update", "action_requst"}
    BY <1>2, <1>4 DEF Refresh, Enter, Prompt
  <2>3. reply[d] = NoReply /\ serving # d
    BY <1>2, <2>2 DEF Good, Waits, Requests, Prompts
  <2>4. Waits(d)'
    BY <1>1, <2>1, <2>3 DEF Waits
  <2>5. Owns(d)'
    BY <1>1, <1>2, <2>1, <2>2, <2>3
      DEF Good, Owns, Holds, Answered, InLobby, InGame
  <2>6. Started(d)'
    BY <1>1, <1>2, <2>1, <2>2, <2>3 DEF Good, Started, Answered, InGame
  <2>7. Ends(d)' /\ Outs(d)'
    BY <2>1, <2>2, <2>3 DEF Ends, Outs, Answered
  <2> QED
    BY <2>4, <2>5, <2>6, <2>7 DEF Good
<1> QED
  BY <1>3, <1>4

-----------------------------------------------------------------------------
(* The invariant, and what follows from it.                                *)

LEMMA ClientInvInit == Init => ClientInv
<1> SUFFICES ASSUME Init PROVE ClientInv
  OBVIOUS
<1>1. PICK c \in Clients :
        /\ session = [p \in Slots |-> IF p = 0 THEN c ELSE Nobody]
        /\ screen = [d \in Clients |-> IF d = c THEN "room_update"
                                                ELSE "room_join"]
  BY DEF Init
<1>2. TypeOK
  <2>1. /\ game_state \in GameStates /\ seated = {0}
        /\ player_state \in [Slots -> PlayerStates]
    BY ClientCodes DEF Init, Room!Init
  <2>2. seated = {p \in Slots : session[p] # Nobody}
    BY <1>1, <2>1, SlotZero, ClientAssumption
  <2>3. screen \in [Clients -> Screens]
    BY <1>1 DEF Screens, InLobby
  <2>4. session \in [Slots -> Clients \cup {Nobody}]
    BY <1>1
  <2> QED
    BY <2>1, <2>2, <2>3, <2>4, SlotZero, ClientCodes DEF Init, TypeOK
<1>3. ASSUME NEW d \in Clients PROVE Good(d)
  <2>1. /\ reply[d] = NoReply /\ serving # d
        /\ screen[d] \in {"room_join", "room_update"}
        /\ screen[d] = "room_update" => session[PLAYER_ID[d]] = d
    BY <1>1, SlotZero, ClientAssumption DEF Init
  <2> QED
    BY <2>1
      DEF Good, Waits, Owns, Holds, Started, Ends, Outs, Answered, InLobby,
          InGame
<1> QED
  BY <1>2, <1>3 DEF ClientInv

LEMMA ClientInvStep == ClientInv /\ [Next]_vars => ClientInv'
<1> SUFFICES ASSUME ClientInv, [Next]_vars PROVE ClientInv'
  OBVIOUS
<1>1. TypeOK'
  BY ClientTypeStep DEF ClientInv, Good, AskInv
<1>2. ASSUME NEW d \in Clients PROVE Good(d)'
  <2>1. CASE UNCHANGED vars
    <3>1. Good(d)
      BY DEF ClientInv
    <3> QED
      BY <2>1, <3>1
        DEF vars, roomVars, serverVars, handlerVars, Good, Waits, Owns, Holds,
            Started, Ends, Alive, Outs, Answered
  <2>2. CASE Next /\ ~Acts(d)
    BY <2>2, GoodBystander
  <2>3. CASE Acts(d)
    BY <2>3, GoodJoin, GoodQuit, GoodStart, GoodMapInfoPeek, GoodMapInfo,
       GoodPlayerInfo, GoodAnswer, GoodOtherAnswers, GoodReceive, GoodPrompt
      DEF Acts, Serve
  <2> QED
    BY <2>1, <2>2, <2>3
<1> QED
  BY <1>1, <1>2 DEF ClientInv

LEMMA ClientInvariant == Spec => []ClientInv
BY ClientInvInit, ClientInvStep, PTL DEF Spec

\* Type correctness of Client.
THEOREM ClientTypes == Spec => []TypeOK
<1>1. ClientInv => TypeOK
  BY DEF ClientInv
<1> QED
  BY <1>1, ClientInvariant, PTL

\* A client that has not been told it is out owns its slot, whatever the
\* other clients do: Join_Room never hands out a slot of a player who was
\* killed, is dead or has quit a running game.
THEOREM ClientsOwnSlots == Spec => []OwnSlot
<1>1. ClientInv => OwnSlot
  BY DEF ClientInv, Good, Owns, Holds, OwnSlot
<1> QED
  BY <1>1, ClientInvariant, PTL

\* The screen END is shown only in a game that is over, to players who are
\* alive or fell inside their last Get_Player_Info, wherever the game thread
\* comes between the looks of the handlers at room and player.
THEOREM EndScreenTrue == Spec => []EndScreen
<1>1. ClientInv => EndScreen
  BY DEF ClientInv, Good, Ends, Alive, EndScreen
<1> QED
  BY <1>1, ClientInvariant, PTL

\* A refresh of the game screen throws a client out only if its player is
\* out, the room is gone, or the game ended inside its Map_Info.
THEOREM OnlyOutAreExpelled == Spec => OnlyOutExpelled
<1> DEFINE Excused ==
      \A c \in Clients :
        /\ screen[c] \in {"map_update", "player_update"}
        /\ screen'[c] = "error"
        => \/ gone
           \/ player_state[PLAYER_ID[c]] # PLAYER_STATE_ALIVE
           \/ c \in overtaken
<1>1. ClientInv /\ [Next]_vars => [Excused]_screen
  <2> SUFFICES ASSUME ClientInv, Next, NEW c \in Clients,
                      screen[c] \in {"map_update", "player_update"},
                      screen'[c] = "error"
               PROVE  \/ gone
                      \/ player_state[PLAYER_ID[c]] # PLAYER_STATE_ALIVE
                      \/ c \in overtaken
    BY DEF vars
  <2>1. TypeOK /\ Good(c)
    BY DEF ClientInv
  <2>2. screen'[c] # screen[c]
    OBVIOUS
  <2>3. Acts(c)
    BY <2>1, <2>2, Others
  <2>4. ~Serve(c) /\ ~Map_Info /\ ~Answer
    BY <2>2
      DEF Serve, Join_Room, Room_Info, Quit_Game, Start_Game, Map_Info_Peek,
          Get_Player_Info, Add_Action, Unverified, Block, Map_Info, Answer, serverVars
  <2>5. ~Refresh(c) /\ ~Enter(c) /\ ~Kill(c)
    BY <2>1 DEF Refresh, Enter, Prompt, Kill, TypeOK
  <2>6. Receive(c)
    BY <2>3, <2>4, <2>5 DEF Acts
  <2>7. reply[c] # NoReply /\ Error(reply[c])
    BY <2>1, <2>6 DEF Receive, TypeOK, Onward
  <2>8. reply[c].ok = FALSE
    BY <2>1, <2>7 DEF Error, TypeOK, Reply
  <2> QED
    BY <2>1, <2>7, <2>8 DEF Good, Outs, Answered
<1> QED
  BY <1>1, ClientInvariant, PTL DEF Spec, OnlyOutExpelled
=============================================================================
