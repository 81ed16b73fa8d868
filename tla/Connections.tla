----------------------------- MODULE Connections -----------------------------
(***************************************************************************)
(* The connections between clients and server: the select loop of the main *)
(* thread (server.c), the exchange of messages over byte streams that may  *)
(* be cut anywhere (server_comm.c, cliaction.c, readn.c, writen.c), and    *)
(* clients that come, stop in the middle of anything, and come back.       *)
(*                                                                         *)
(* A client has one request on the way at a time; what a reply says is     *)
(* the matter of RoomServer and Client, here it is a code and a length.    *)
(* Descriptor 0 stands for listenfd, the connections have 1, 2, ...        *)
(***************************************************************************)
EXTENDS Wire, Sequences, FiniteSets

CONSTANTS
  Clients,
  NoClient,
  MAX_PLAYER,    \* 100 in the code
  Askers,        \* the clients that ask; the others only connect
  Asked,         \* the commands they send
  Cells, Players, \* sizes of the map and of the room, for the lengths
  Grain          \* bound: the network cuts a message at multiples of it

ASSUME ConnectionsAssumption ==
  /\ NoClient \notin Clients
  /\ MAX_PLAYER \in Nat \ {0}
  /\ Askers \subseteq Clients
  /\ Asked \subseteq Commands
  /\ Cells \in Nat /\ Players \in Nat
  /\ Grain \in Nat \ {0}

VARIABLES
  phase,     \* per client: "off", "idle", "asked" or "rest" (header read)
  msg,       \* per client: the last message on its connection
  up, inbox, \* units of its request: on the way, unread by the server
  down, got, \* units of the reply: on the way, unread by the client
  fin,       \* per client: the server's kernel knows that it has closed
  backlog,   \* connections not yet accepted
  open,      \* the server's descriptor table: the client at each descriptor
  allset, fdCnt, maxfd,  \* as in server.c
  rset, nready, fd,      \* of the current pass
  pc         \* main thread: "select", "accept", "scan", "recv" or "send",
             \* "killed" by SIGPIPE

clientVars == <<phase, msg, up, inbox, down, got, fin>>
tableVars  == <<open, allset, fdCnt, maxfd>>
passVars   == <<rset, nready, fd, pc>>
vars == <<clientVars, backlog, tableVars, passVars>>

Fds == 1 .. MAX_PLAYER
Listen == 0
Open == {f \in Fds : open[f] # NoClient}
Waiting(c) == \E i \in DOMAIN backlog : backlog[i] = c
Connected(c) == \E f \in Fds : open[f] = c
NoMessage == [word |-> 0, words |-> 0]

Init ==
  /\ phase = [c \in Clients |-> "off"]
  /\ msg = [c \in Clients |-> NoMessage]
  /\ up = [c \in Clients |-> 0] /\ inbox = up /\ down = up /\ got = up
  /\ fin = [c \in Clients |-> FALSE]
  /\ backlog = << >>
  /\ open = [f \in Fds |-> NoClient]
  /\ allset = {Listen} /\ fdCnt = 0 /\ maxfd = Listen
  /\ rset = {} /\ nready = 0 /\ fd = 1 /\ pc = "select"

-----------------------------------------------------------------------------
(* The clients and the network.                                            *)

\* connect_server: done as soon as the connection is in the backlog.
Connect(c) ==
  /\ phase[c] = "off" /\ ~Waiting(c) /\ ~Connected(c) /\ pc # "killed"
  /\ phase' = [phase EXCEPT ![c] = "idle"]
  /\ fin' = [fin EXCEPT ![c] = FALSE]
  /\ msg' = [msg EXCEPT ![c] = NoMessage]
  /\ up' = [up EXCEPT ![c] = 0] /\ inbox' = [inbox EXCEPT ![c] = 0]
  /\ backlog' = Append(backlog, c)
  /\ UNCHANGED <<down, got, tableVars, passVars>>

\* send_data
Ask(c) ==
  /\ phase[c] = "idle" /\ c \in Askers
  /\ phase' = [phase EXCEPT ![c] = "asked"]
  /\ \E code \in Asked :
       msg' = [msg EXCEPT ![c] = [word |-> ClientWord(code, HEADER_SIZE),
                                  words |-> ClientOut(code, HEADER_SIZE)]]
  /\ up' = [up EXCEPT ![c] = HEADER_SIZE]
  /\ UNCHANGED <<inbox, down, got, fin, backlog, tableVars, passVars>>

\* Some of the n units on the way arrive.
Pieces(n) == {k \in 1 .. n : k % Grain = 0 \/ k = n}
DeliverUp(c) ==
  /\ \E n \in Pieces(up[c]) :
       up' = [up EXCEPT ![c] = @ - n] /\ inbox' = [inbox EXCEPT ![c] = @ + n]
  /\ UNCHANGED <<phase, msg, down, got, fin, backlog, tableVars, passVars>>
DeliverDown(c) ==
  /\ \E n \in Pieces(down[c]) :
       down' = [down EXCEPT ![c] = @ - n] /\ got' = [got EXCEPT ![c] = @ + n]
  /\ UNCHANGED <<phase, msg, up, inbox, fin, backlog, tableVars, passVars>>

\* The client is gone: what it has sent may be lost, what it gets is.
Stop(c) ==
  /\ phase' = [phase EXCEPT ![c] = "off"]
  /\ \E n \in {0} \cup Pieces(up[c]) : up' = [up EXCEPT ![c] = n]
  /\ down' = [down EXCEPT ![c] = 0] /\ got' = [got EXCEPT ![c] = 0]
  /\ UNCHANGED <<msg, inbox, fin>>

\* The length in the header at hand.
Announced(c) == getLen(msg[c].word)

\* read() of the header brings 64 bytes.
TakesHeader(c) == got[c] >= HEADER_SIZE

\* recv_data, the first read.
TakeHeader(c) ==
  /\ phase[c] = "asked"
  /\ got[c] > 0
  /\ \/ /\ TakesHeader(c)
        /\ got' = [got EXCEPT ![c] = SetMax(0, @ - HEADER_SIZE)]
        /\ phase' = [phase EXCEPT ![c] =
                       IF Announced(c) = HEADER_SIZE THEN "idle" ELSE "rest"]
        /\ UNCHANGED <<msg, up, inbox, down, fin>>
     \/ ~TakesHeader(c) /\ Stop(c)
  /\ UNCHANGED <<backlog, tableVars, passVars>>

\* recv_data, the second read: all the rest, or the client gives up.
TakeRest(c) ==
  /\ phase[c] = "rest"
  /\ got[c] > 0
  /\ LET rest == Announced(c) - HEADER_SIZE IN
       \/ /\ got[c] >= rest
          /\ got' = [got EXCEPT ![c] = @ - rest]
          /\ phase' = [phase EXCEPT ![c] = "idle"]
          /\ UNCHANGED <<msg, up, inbox, down, fin>>
       \/ got[c] < rest /\ Stop(c)
  /\ UNCHANGED <<backlog, tableVars, passVars>>

\* The client is stopped, by its player or otherwise.
Leave(c) ==
  /\ phase[c] # "off"
  /\ Stop(c)
  /\ UNCHANGED <<backlog, tableVars, passVars>>

\* The server's end of a connection learns that the client has closed it.
Fin(c) ==
  /\ phase[c] = "off" /\ up[c] = 0 /\ ~fin[c]
  /\ Waiting(c) \/ Connected(c)
  /\ fin' = [fin EXCEPT ![c] = TRUE]
  /\ UNCHANGED <<phase, msg, up, inbox, down, got, backlog, tableVars, passVars>>

\* The server is dead: read() returns 0, the client ends.
HangUp(c) ==
  /\ pc = "killed" /\ phase[c] # "off"
  /\ Stop(c)
  /\ UNCHANGED <<backlog, tableVars, passVars>>

-----------------------------------------------------------------------------
(* The main thread of the server.                                          *)

Readable ==
  {f \in Open : inbox[open[f]] > 0 \/ fin[open[f]]}
    \cup (IF backlog # << >> THEN {Listen} ELSE {})

Select ==
  /\ pc = "select"
  /\ allset \cap Readable # {}
  /\ rset' = allset \cap Readable
  /\ nready' = Cardinality(rset')
  /\ fd' = Listen + 1
  /\ pc' = IF Listen \in rset' THEN "accept" ELSE "scan"
  /\ UNCHANGED <<clientVars, backlog, tableVars>>

\* Mutant of Counted: nready is not counted down.
Counted_Not(next) == nready' = nready /\ pc' = next
\* Mutant of Counted: the pass ends with one ready descriptor left.
Counted_OneShort(next) ==
  /\ nready' = nready - 1
  /\ pc' = IF nready - 1 <= 1 THEN "select" ELSE next
\* "if (--nready <= 0)": the pass is over, or goes on at next.
Counted(next) ==
  /\ nready' = nready - 1
  /\ pc' = IF nready - 1 <= 0 THEN "select" ELSE next

HasRoom == fdCnt < MAX_PLAYER

\* accept gives the lowest free descriptor.
Accept ==
  /\ pc = "accept"
  /\ \/ /\ HasRoom
        /\ \E connfd \in Fds \ Open :
             /\ \A f \in Fds \ Open : connfd <= f
             /\ open' = [open EXCEPT ![connfd] = Head(backlog)]
             /\ allset' = allset \cup {connfd}
             /\ maxfd' = SetMax(maxfd, connfd)
        /\ fdCnt' = fdCnt + 1
        /\ backlog' = Tail(backlog)
     \/ ~HasRoom /\ UNCHANGED <<backlog, tableVars>>
  /\ Counted("scan")
  /\ UNCHANGED <<clientVars, rset, fd>>

\* The descriptors of rset the loop still comes to.
Ahead == {f \in rset : f >= fd /\ f <= maxfd}

\* The loop over the descriptors.
Scan ==
  /\ pc = "scan"
  /\ \/ /\ fd' \in Ahead /\ \A f \in Ahead : fd' <= f
        /\ pc' = "recv"
     \/ /\ Ahead = {}
        /\ pc' = "select"
        /\ UNCHANGED fd
  /\ UNCHANGED <<clientVars, backlog, tableVars, rset, nready>>

\* Mutant of corruptedClose: the descriptor stays in allset.
corruptedClose_StaysSet ==
  /\ fdCnt' = fdCnt - 1
  /\ open' = [open EXCEPT ![fd] = NoClient]
  /\ UNCHANGED <<allset, maxfd>>
corruptedClose ==
  /\ fdCnt' = fdCnt - 1
  /\ open' = [open EXCEPT ![fd] = NoClient]
  /\ allset' = allset \ {fd}
  /\ UNCHANGED maxfd

\* The header has come, and the rest that it announces.
Whole(c) == inbox[c] >= HEADER_SIZE /\ inbox[c] >= Announced(c)

\* recvData: readn waits until the whole request has come, or the end.
recvData ==
  /\ pc = "recv"
  /\ LET c == open[fd] IN
       \/ /\ Whole(c)
          /\ inbox' = [inbox EXCEPT ![c] = @ - Announced(c)]
          /\ pc' = "send"
          /\ UNCHANGED <<tableVars, nready, fd>>
       \/ /\ ~Whole(c) /\ fin[c]
          /\ corruptedClose
          /\ fd' = fd + 1
          /\ Counted("scan")
          /\ UNCHANGED inbox
  /\ UNCHANGED <<phase, msg, up, down, got, fin, backlog, rset>>

\* commandHandler: whatever the handler replies is sent.  writen to a client
\* that is gone may fail, or raise the SIGPIPE nobody handles.
commandHandler ==
  /\ pc = "send"
  /\ LET c == open[fd]  cmd == getCode(msg[c].word) IN
       \/ /\ \E code \in {RES_SUCC(cmd), RES_FAIL(cmd)} :
               LET len == ReplyLen(code, Cells, Players) IN
                 /\ msg' = [msg EXCEPT ![c] = [word |-> ServerWord(code, len),
                                               words |-> ServerOut(code, len)]]
                 /\ down' = [down EXCEPT ![c] = IF phase[c] = "off" THEN 0 ELSE len]
          /\ fd' = fd + 1
          /\ Counted("scan")
          /\ UNCHANGED tableVars
       \/ /\ phase[c] = "off"
          /\ corruptedClose
          /\ fd' = fd + 1
          /\ Counted("scan")
          /\ UNCHANGED <<msg, down>>
       \/ /\ phase[c] = "off"
          /\ pc' = "killed"
          /\ UNCHANGED <<msg, down, tableVars, fd, nready>>
  /\ UNCHANGED <<phase, up, inbox, got, fin, backlog, rset>>

Server == Select \/ Accept \/ Scan \/ recvData \/ commandHandler

Takes(c) == TakeHeader(c) \/ TakeRest(c) \/ HangUp(c)
Network(c) == DeliverUp(c) \/ DeliverDown(c)

Next ==
  \/ Server
  \/ \E c \in Clients :
       Connect(c) \/ Ask(c) \/ Leave(c) \/ Fin(c) \/ Takes(c) \/ Network(c)

Spec == Init /\ [][Next]_vars

\* The server runs, a client that has asked reads, and what is sent and not
\* lost arrives; nobody is obliged to ask, to leave or to close.
FairSpec ==
  /\ Spec
  /\ WF_vars(Server)
  /\ \A c \in Clients : WF_vars(Takes(c)) /\ WF_vars(Network(c))
-----------------------------------------------------------------------------
(* Properties.                                                             *)

\* The type of the server's variables.
TypeOK ==
  /\ backlog \in Seq(Clients)
  /\ open \in [Fds -> Clients \cup {NoClient}]
  /\ allset \subseteq {Listen} \cup Fds
  /\ fdCnt \in 0 .. MAX_PLAYER
  /\ maxfd \in {Listen} \cup Fds
  /\ rset \subseteq {Listen} \cup Fds
  /\ nready \in Nat
  /\ fd \in 1 .. MAX_PLAYER + 1
  /\ pc \in {"select", "accept", "scan", "recv", "send", "killed"}

\* The three records the server keeps of its connections agree, through
\* accepts, failed receives and failed sends: fdCnt, allset and the
\* descriptors really open; and maxfd leaves none of them out.
FdsAccounted ==
  /\ fdCnt = Cardinality(Open)
  /\ allset = {Listen} \cup Open
  /\ \A f \in Open : f <= maxfd

\* A pass serves every ready descriptor exactly once, although connections
\* are accepted and closed in the middle of it: what is left of nready is
\* what is left of rset, and a descriptor the loop comes to is open.
PassExact ==
  pc \in {"scan", "recv", "send"} =>
    LET left == {f \in rset \ {Listen} : f >= fd}
    IN  nready = Cardinality(left) /\ left \subseteq Open

\* The length of every reply fits into the header: with the 12 bits of the code,
\* the one of a map of 4,093 cells at most.
LengthsFit == \A code \in Replies : ReplyLen(code, Cells, Players) < pow2[LenBits]

\* Requests and replies stay in step on a connection whatever the network
\* cuts: a client that is free to ask has nothing of an old exchange left
\* on its connection.  What it took is a reply, converted by the same table on
\* both sides, and so is the request the server comes to handle.
Handling(c) == pc = "send" /\ open[fd] = c
InStep ==
  \A c \in Clients : LET code == getCode(msg[c].word) IN
    /\ phase[c] = "idle" =>
         /\ up[c] = 0 /\ inbox[c] = 0 /\ down[c] = 0 /\ got[c] = 0
         /\ msg[c] # NoMessage =>
              code \in Replies /\ msg[c].words = ClientIn(code, Announced(c))
    /\ Handling(c) =>
         code \in Commands /\ msg[c].words = ServerIn(code, Announced(c))

\* The server waits for the rest of a request that will never come.
Stalled == pc = "recv" /\ phase[open[fd]] = "off" /\ ~fin[open[fd]]

\* A client whose connection is accepted and which asks is answered, or
\* ends (a reply that comes in pieces makes it end, so does the end of the
\* server).  The excuse is named: one request that stays incomplete stops
\* the server for everybody, because readn waits for ever.
Served ==
  <>[]Stalled
    \/ \A c \in Clients :
         (phase[c] = "asked" /\ Connected(c)) ~> phase[c] \in {"idle", "off"}
=============================================================================
