------------------------------- MODULE Client -------------------------------
(***************************************************************************)
(* The clients of one room and the main thread that answers them: the      *)
(* screens state_room and state_game (client/clistate.c) with the requests *)
(* they send (client/cliaction.c), and what the handlers of the server     *)
(* (server/game.cpp) answer.                                               *)
(*                                                                         *)
(* A client sends a request and waits for its reply.  The sending is not a *)
(* step of its own: until the main thread takes it, nobody sees a request. *)
(* Between the answer and its receipt anything may happen.                 *)
(*                                                                         *)
(* next_round does not take room_mutex, so a handler that reads the room   *)
(* more than once may see it change.  Map_Info and Get_Player_Info are cut *)
(* between such reads.  What the other handlers make of game_state and     *)
(* player_state is what they would make of both at one of the two moments. *)
(*                                                                         *)
(* The room is a Roster, which GameRoom implements.  A session is the      *)
(* client it was given to.  room_mutex matters in one case only: a second  *)
(* Start_Game leaves it locked, and the next handler that needs it blocks. *)
(***************************************************************************)
EXTENDS DataFormat

CONSTANTS
  Clients,
  PlayerNumber,   \* slots of the room
  Passwords,      \* what a buffer that was never written may hold
  Nobody          \* the session 0

ASSUME ClientAssumption ==
  /\ PlayerNumber \in Nat \ {0}
  /\ Nobody \notin Clients

VARIABLES
  \* the server
  game_state, seated, player_state,   \* the room, a Roster
  session,      \* slot -> the client whose session is in it
  passwd,       \* the password the room was registered with
  gone,         \* delended has deleted the room
  server,       \* "up", room_mutex left "locked", main thread "blocked"
  serving,      \* the client whose Map_Info or Get_Player_Info is under way
  checked,      \* that handler has found the player alive in a game
  \* the clients
  screen,       \* where the client is: a request, a prompt, or how it ended
  PLAYER_ID,
  GAME_STATE,
  reply,        \* the reply under way to the client
  overtaken,    \* history: clients whose last Map_Info began before END and
                \* did not look again before it
  fallen        \* history: clients whose player fell while Get_Player_Info
                \* was making up the answer to them

roomVars == <<game_state, seated, player_state>>
handlerVars == <<serving, checked, overtaken, fallen>>
serverVars == <<session, passwd, gone, server, handlerVars>>
vars == <<roomVars, serverVars, screen, PLAYER_ID, GAME_STATE, reply>>

Slots == 0 .. PlayerNumber - 1
Room == INSTANCE Roster

\* The requests, named after the functions that send them, and the prompts.
InLobby == {"room_update", "lobby", "scanf", "room_quit", "start_game"}
InGame == {"map_update", "player_update", "keys", "action_requst"}
Prompts == {"lobby", "scanf", "keys"}
\* The screen END, exit(0) or a signal, and exit(1) of error_mes.
Terminal == {"end", "exit", "error"}
Screens == {"room_join"} \cup InLobby \cup InGame \cup Terminal

Reply == [ok : BOOLEAN, errmsg : {"", "Password Is Wrong", "refused"},
          game_state : GameStates, player_id : Slots]
NoReply == [none |-> TRUE]

\* One client has registered the room (state_entry) and reads the reply.
\* Its password was to be the one typed, but memcpy(buf, passwd, BUF_SIZE)
\* overwrites what was typed with a local array that was never written.
Init ==
  /\ Room!Init
  /\ \E c \in Clients :
       /\ session = [p \in Slots |-> IF p = 0 THEN c ELSE Nobody]
       /\ screen = [d \in Clients |-> IF d = c THEN "room_update"
                                                ELSE "room_join"]
  /\ passwd \in Passwords
  /\ gone = FALSE
  /\ server = "up"
  /\ serving = Nobody
  /\ checked = FALSE
  /\ PLAYER_ID = [c \in Clients |-> 0]
  /\ GAME_STATE = [c \in Clients |-> 0]
  /\ reply = [c \in Clients |-> NoReply]
  /\ overtaken = {}
  /\ fallen = {}

-----------------------------------------------------------------------------
(* The main thread.                                                        *)

\* The main thread may take request r of c.
Asked(c, r) ==
  /\ screen[c] = r
  /\ reply[c] = NoReply
  /\ serving = Nobody
  /\ server # "blocked"

\* verifySession: the room exists and the slot has the session of c.
verifySession(c) == ~gone /\ session[PLAYER_ID[c]] = c

Accept(c, s, p) ==
  reply' = [reply EXCEPT ![c] =
              [ok |-> TRUE, errmsg |-> "", game_state |-> s, player_id |-> p]]
Refuse(c, msg) ==
  reply' = [reply EXCEPT ![c] =
              [ok |-> FALSE, errmsg |-> msg, game_state |-> GAME_STATE_WAIT,
               player_id |-> 0]]

\* Join_Room.  The client sends another array that was never written, for
\* the same reason as in Init.
Join_Room(c) ==
  /\ Asked(c, "room_join")
  /\ \/ /\ gone
        /\ Refuse(c, "refused")
        /\ UNCHANGED <<roomVars, session>>
     \/ /\ ~gone
        /\ server = "up"
        /\ Room!FreeSlots = {}
        /\ Refuse(c, "refused")
        /\ UNCHANGED <<roomVars, session>>
     \/ /\ ~gone
        /\ server = "up"
        /\ Room!FreeSlots # {}
        /\ \E w \in Passwords \ {passwd} : Refuse(c, "Password Is Wrong")
        /\ UNCHANGED <<roomVars, session>>
     \/ /\ ~gone
        /\ server = "up"
        /\ \E p \in Slots :
             /\ Room!Join(p)
             /\ session' = [session EXCEPT ![p] = c]
             /\ Accept(c, game_state, p)
  /\ UNCHANGED <<passwd, gone, server, handlerVars, screen, PLAYER_ID,
                 GAME_STATE>>

\* A request that verifySession turns down.
Unverified(c) ==
  /\ \E r \in (InLobby \cup InGame) \ (Prompts \cup {"map_update"}) :
       Asked(c, r)
  /\ ~verifySession(c)
  /\ Refuse(c, "refused")
  /\ UNCHANGED <<roomVars, serverVars, screen, PLAYER_ID, GAME_STATE>>

Room_Info(c) ==
  /\ Asked(c, "room_update")
  /\ verifySession(c)
  /\ server = "up"
  /\ Accept(c, game_state, PLAYER_ID[c])
  /\ UNCHANGED <<roomVars, serverVars, screen, PLAYER_ID, GAME_STATE>>

\* Mutant of QuitSession: the session is cleared in a running game too.
QuitSession_Cleared(c) == Nobody
\* What Quit_Game leaves as the session: 0 in the lobby only.
QuitSession(c) == IF game_state = GAME_STATE_WAIT THEN Nobody ELSE c

Quit_Game(c) ==
  /\ Asked(c, "room_quit")
  /\ verifySession(c)
  /\ server = "up"
  /\ Room!Quit(PLAYER_ID[c])
  /\ session' = [session EXCEPT ![PLAYER_ID[c]] = QuitSession(c)]
  /\ Accept(c, game_state, PLAYER_ID[c])
  /\ UNCHANGED <<passwd, gone, server, handlerVars, screen, PLAYER_ID,
                 GAME_STATE>>

\* Start_Game; a game that has started is refused and room_mutex stays locked.
Start_Game(c) ==
  /\ Asked(c, "start_game")
  /\ verifySession(c)
  /\ server = "up"
  /\ \/ /\ Room!Start
        /\ Accept(c, game_state', PLAYER_ID[c])
        /\ UNCHANGED server
     \/ /\ game_state # GAME_STATE_WAIT
        /\ Refuse(c, "refused")
        /\ server' = "locked"
        /\ UNCHANGED roomVars
  /\ UNCHANGED <<session, passwd, gone, handlerVars, screen, PLAYER_ID,
                 GAME_STATE>>

\* Mutant of Ended: Map_Info has no case for a game that is over.
Ended_Never == FALSE
\* Map_Info reads game_state before it locks: the map of an ended game is
\* given to anybody.
Ended == ~gone /\ game_state = GAME_STATE_END

\* The first part of Map_Info, up to the second look at game_state.
Map_Info_Peek(c) ==
  /\ Asked(c, "map_update")
  /\ \/ /\ Ended
        /\ server = "up"
        /\ Accept(c, game_state, PLAYER_ID[c])
        /\ UNCHANGED serving
     \/ /\ ~Ended
        /\ ~verifySession(c)
        /\ Refuse(c, "refused")
        /\ UNCHANGED serving
     \/ /\ ~Ended
        /\ verifySession(c)
        /\ server = "up"
        /\ serving' = c
        /\ UNCHANGED reply
  /\ overtaken' = IF serving' = c /\ game_state # GAME_STATE_END
                  THEN overtaken \cup {c} ELSE overtaken \ {c}
  /\ UNCHANGED <<roomVars, session, passwd, gone, server, checked, fallen, screen,
                 PLAYER_ID, GAME_STATE>>

\* The second look, with room_mutex: the game thread may have ended the game
\* in between.
Map_Info ==
  \E c \in Clients :
    /\ serving = c
    /\ ~checked
    /\ IF /\ game_state = GAME_STATE_INGAME
          /\ player_state[PLAYER_ID[c]] = PLAYER_STATE_ALIVE
       THEN checked' = TRUE /\ UNCHANGED <<serving, reply>>
       ELSE serving' = Nobody /\ Refuse(c, "refused") /\ UNCHANGED checked
    /\ overtaken' = IF game_state = GAME_STATE_END THEN overtaken
                                                   ELSE overtaken \ {c}
    /\ UNCHANGED <<roomVars, session, passwd, gone, server, fallen, screen,
                   PLAYER_ID, GAME_STATE>>

\* Mutant of PlayerInfoFor: the state of the player is not asked for.
PlayerInfoFor_Anybody(p) == game_state # GAME_STATE_WAIT
\* Get_Player_Info has an answer for slot p, in a game and after it.  (Only
\* the main thread takes a room out of WAIT: it is the look at player_state
\* that counts.)
PlayerInfoFor(p) ==
  game_state # GAME_STATE_WAIT /\ player_state[p] = PLAYER_STATE_ALIVE

\* Get_Player_Info up to the look at player_state.
Get_Player_Info(c) ==
  /\ Asked(c, "player_update")
  /\ verifySession(c)
  /\ server = "up"
  /\ \/ /\ PlayerInfoFor(PLAYER_ID[c])
        /\ serving' = c
        /\ checked' = TRUE
        /\ UNCHANGED reply
     \/ /\ ~PlayerInfoFor(PLAYER_ID[c])
        /\ Refuse(c, "refused")
        /\ UNCHANGED <<serving, checked>>
  /\ UNCHANGED <<roomVars, session, passwd, gone, server, overtaken, fallen,
                 screen, PLAYER_ID, GAME_STATE>>

\* Map_Info or Get_Player_Info makes up the answer, with the game_state of
\* now.
Answer ==
  \E c \in Clients :
    /\ serving = c
    /\ checked
    /\ Accept(c, game_state, PLAYER_ID[c])
    /\ serving' = Nobody
    /\ checked' = FALSE
    /\ UNCHANGED <<roomVars, session, passwd, gone, server, overtaken, fallen,
                   screen, PLAYER_ID, GAME_STATE>>

\* Add_Action; the order itself is GameRoom's.
Add_Action(c) ==
  /\ Asked(c, "action_requst")
  /\ verifySession(c)
  /\ server = "up"
  /\ IF /\ game_state = GAME_STATE_INGAME
        /\ player_state[PLAYER_ID[c]] = PLAYER_STATE_ALIVE
     THEN Accept(c, game_state, PLAYER_ID[c])
     ELSE Refuse(c, "refused")
  /\ UNCHANGED <<roomVars, serverVars, screen, PLAYER_ID, GAME_STATE>>

\* A handler needs room_mutex, which is left locked.
Block(c) ==
  /\ server = "locked"
  /\ \E r \in Screens \ (Prompts \cup Terminal) : Asked(c, r)
  /\ \/ screen[c] = "room_join" /\ ~gone
     \/ screen[c] # "room_join" /\ verifySession(c)
     \/ screen[c] = "map_update" /\ Ended
  /\ server' = "blocked"
  /\ UNCHANGED <<roomVars, session, passwd, gone, handlerVars, screen, PLAYER_ID,
                 GAME_STATE, reply>>

Serve(c) ==
  \/ Join_Room(c) \/ Room_Info(c) \/ Quit_Game(c) \/ Start_Game(c)
  \/ Map_Info_Peek(c) \/ Get_Player_Info(c) \/ Add_Action(c)
  \/ Unverified(c) \/ Block(c)

\* The game thread plays the room, or deletes it when its time has come (its
\* age is left open; RoomServer has it).
Round ==
  /\ ~gone
  /\ Room!Round
  /\ fallen' = fallen \cup
       {c \in Clients : /\ serving = c
                        /\ screen[c] = "player_update"
                        /\ player_state'[PLAYER_ID[c]] # player_state[PLAYER_ID[c]]}
  /\ UNCHANGED <<session, passwd, gone, server, serving, checked, overtaken,
                 screen, PLAYER_ID, GAME_STATE, reply>>

delended ==
  /\ ~gone
  /\ serving = Nobody
  /\ gone' = TRUE
  /\ UNCHANGED <<roomVars, session, passwd, server, handlerVars, screen, PLAYER_ID,
                 GAME_STATE, reply>>

-----------------------------------------------------------------------------
(* The clients.                                                            *)

\* Mutant of Error: no reply is taken for an error.
Error_Ignored(r) == FALSE
\* error_check: the reply has an error code.
Error(r) == ~r.ok

\* Mutant of Over: state_game does not look at GAME_STATE.
Over_Unseen(s) == FALSE
\* state_game ends its loop.
Over(s) == s = GAME_STATE_END

\* Where a client goes on that has read game_state s in the reply to r.
Onward(r, s) ==
  CASE r = "room_join" -> "room_update"
    [] r = "room_update" -> IF s = GAME_STATE_INGAME THEN "map_update"
                                                     ELSE "lobby"
    [] r = "room_quit" -> "exit"
    [] r = "start_game" -> "map_update"
    [] r = "map_update" -> "player_update"
    [] r = "player_update" -> IF Over(s) THEN "end" ELSE "keys"
    [] r = "action_requst" -> "map_update"

\* The functions that set GAME_STATE from their reply.
Updates == {"room_update", "map_update", "player_update"}

\* recv_data returns, or error_check ends the process.
Receive(c) ==
  /\ reply[c] # NoReply
  /\ reply' = [reply EXCEPT ![c] = NoReply]
  /\ \/ /\ Error(reply[c])
        /\ screen' = [screen EXCEPT ![c] = "error"]
        /\ UNCHANGED <<PLAYER_ID, GAME_STATE>>
     \/ /\ ~Error(reply[c])
        /\ screen' = [screen EXCEPT ![c] = Onward(@, reply[c].game_state)]
        /\ PLAYER_ID' = IF screen[c] = "room_join"
                        THEN [PLAYER_ID EXCEPT ![c] = reply[c].player_id]
                        ELSE PLAYER_ID
        /\ GAME_STATE' = IF screen[c] \in Updates
                         THEN [GAME_STATE EXCEPT ![c] = reply[c].game_state]
                         ELSE GAME_STATE
  /\ UNCHANGED <<roomVars, serverVars>>

Prompt(c, from, to) ==
  /\ screen[c] = from
  /\ screen' = [screen EXCEPT ![c] = to]
  /\ UNCHANGED <<roomVars, serverVars, PLAYER_ID, GAME_STATE, reply>>

\* The prompt times out, or the input sends no request.
Refresh(c) ==
  Prompt(c, "lobby", "room_update") \/ Prompt(c, "keys", "map_update")

\* The player types: q, r or something else in the lobby, an order in the
\* game.  In the lobby scanf("%s") skips an empty line and waits, without a
\* time-out, for the next.
Enter(c) ==
  \/ Prompt(c, "lobby", "scanf")
  \/ Prompt(c, "scanf", "room_update")
  \/ \E from \in {"lobby", "scanf"}, to \in {"room_quit", "start_game"} :
       Prompt(c, from, to)
  \/ Prompt(c, "keys", "action_requst")

\* The player stops the process.  His slot and session stay.  (While
\* a handler is at work for him it would come to the same just after it.)
Kill(c) ==
  /\ screen[c] \notin Terminal
  /\ serving # c
  /\ screen' = [screen EXCEPT ![c] = "exit"]
  /\ reply' = [reply EXCEPT ![c] = NoReply]
  /\ UNCHANGED <<roomVars, serverVars, PLAYER_ID, GAME_STATE>>

-----------------------------------------------------------------------------
Next ==
  \/ Map_Info \/ Answer \/ Round \/ delended
  \/ \E c \in Clients : Serve(c) \/ Receive(c) \/ Refresh(c) \/ Enter(c) \/ Kill(c)

Spec == Init /\ [][Next]_vars

\* A client goes on when it has a reply or its prompt has timed out.  The
\* main thread finishes what it has begun, and goes through all sockets that
\* are readable each time select returns, so that a request it can take
\* again and again is taken.  Nothing is asked of players or of delended.
FairSpec ==
  /\ Spec
  /\ WF_vars(Map_Info)
  /\ WF_vars(Answer)
  /\ \A c \in Clients :
       SF_vars(Serve(c)) /\ WF_vars(Receive(c)) /\ WF_vars(Refresh(c))
-----------------------------------------------------------------------------
(* Properties.                                                             *)

\* The type of every variable; the slots taken are those with a session.
TypeOK ==
  /\ game_state \in GameStates
  /\ player_state \in [Slots -> PlayerStates]
  /\ session \in [Slots -> Clients \cup {Nobody}]
  /\ seated = {p \in Slots : session[p] # Nobody}
  /\ passwd \in Passwords
  /\ gone \in BOOLEAN
  /\ server \in {"up", "locked", "blocked"}
  /\ serving \in Clients \cup {Nobody}
  /\ screen \in [Clients -> Screens]
  /\ PLAYER_ID \in [Clients -> Slots]
  /\ GAME_STATE \in [Clients -> GameStates]
  /\ reply \in [Clients -> Reply \cup {NoReply}]
  /\ checked \in BOOLEAN
  /\ overtaken \in SUBSET Clients
  /\ fallen \in SUBSET Clients

\* A client that has not been told it is out owns its slot: no sequence of
\* quits, losses, killed clients and joins gives the slot to another client
\* before this one has left (verifySession would throw it out).
OwnSlot ==
  \A c \in Clients :
    (/\ screen[c] \in InLobby \cup InGame
     /\ ~(screen[c] = "room_quit" /\ reply[c] # NoReply))
      => session[PLAYER_ID[c]] = c

\* Who sees the screen END was alive when the game was over, or fell while
\* his last Get_Player_Info was being answered: the two requests of a refresh
\* are answered at different moments, each after several looks at room and
\* player, and nobody who was out before that is shown it.
EndScreen ==
  \A c \in Clients : screen[c] = "end" =>
    /\ game_state = GAME_STATE_END
    /\ player_state[PLAYER_ID[c]] = PLAYER_STATE_ALIVE \/ c \in fallen

\* A refresh of the game screen ends a client with an error only if its
\* player is out, the room is gone, or the game ended between the two reads
\* of game_state in Map_Info, the first of which is without the lock.
OnlyOutExpelled ==
  [][\A c \in Clients :
       /\ screen[c] \in {"map_update", "player_update"}
       /\ screen'[c] = "error"
       => \/ gone
          \/ player_state[PLAYER_ID[c]] # PLAYER_STATE_ALIVE
          \/ c \in overtaken]_screen

\* A client in the game leaves it when the game is over, by the screen END
\* or by an error, although it only polls; a room_mutex left locked is the
\* only excuse.
EndReachesGame ==
  \A c \in Clients :
    (game_state = GAME_STATE_END /\ screen[c] \in InGame)
      ~> (screen[c] \in Terminal \/ server # "up")

\* When the room has been deleted all its clients leave, those too that
\* polled over the whole game and still show the lobby.  What keeps them is
\* a blocked main thread, or an empty line entered in the lobby.
GoneRoomEmpties ==
  \A c \in Clients :
    (gone /\ screen[c] \in InLobby \cup InGame)
      ~> (screen[c] \in Terminal \cup {"scanf"} \/ server = "blocked")

\* The prompts "Enter Room Password:" and the answer "Password Is Wrong" of
\* Join_Room: whoever enters the password the room was registered with is
\* not told that it is wrong.  All players of this model enter it.
RightPasswordAdmits ==
  \A c \in Clients :
    reply[c] # NoReply => reply[c].errmsg # "Password Is Wrong"
=============================================================================
