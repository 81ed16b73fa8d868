# C_generals in TLA+

C_generals is a networked "generals" game: a C/C++ server (`src/server`) that keeps
rooms, and a terminal client (`src/client`). This directory holds TLA+ models of both,
the TLC runs that check them, and theorems proved with TLAPS.

## 1. The system

### Components

| component | code | state it keeps | operations |
|---|---|---|---|
| game room | `server/game.cpp`, `struct Node_Room` | `game_state` (WAIT, INGAME, END), `round`, `players` (session, state, home, name), `action_queue`, `game_map`, `room_mutex`, `start` | `Register_Room`, `Join_Room`, `Start_Game` (`genMap`), `Quit_Game`, `Add_Action`, `next_round`; views `Room_Info`, `Map_Info`, `Get_Player_Info` |
| room list | `server/game.cpp` | `Room_List`, `list_mutex` | `getRoom`, `addRoom`, `delended` |
| game thread | `server/game.cpp`, `GameHandler` | its iterator | every second: a round of every INGAME room, then `delended` |
| main thread | `server/server.c` | `allset`, `fdCnt`, `maxfd` | `select`, `accept`, `recvData`, one `commandHandler` at a time, `sendData` |
| session generator | `server/game.cpp`, `getSessin` | one static int | next session |
| wire format | `server/server_comm.c`, `client/cliaction.c` | - | header of 64 bytes, length in the upper half of `code`, network order |
| client | `client/clistate.c`, `client/cliaction.c` | globals: session, room, player, map, cursor, mode | screens connect, loading, entry, room, game, end |
| terminal | `client/cliscreen.c` | - | printing, two reads with a timeout |
| vendored library | `lib`, `libfree`, `libgai`, `libroute` | - | sockets, `readn`, `writen` |

### How they interact

Clients send one request and wait for its reply. The main thread serves the requests of
all clients one after the other. A handler looks the room up under `list_mutex`, gives
the mutex back, checks the session with a second lookup, and then locks `room_mutex`.
The game thread holds `list_mutex`, and no `room_mutex`, while it plays rounds and while
it deletes rooms. So

* rounds and handlers of one room interleave freely (no lock is common to them);
* a handler's pointer may dangle once `list_mutex` is released;
* a handler that blocks, blocks every client; a game thread that blocks, stops every room.

### What is hard, and what correct means

* *Room.* Handlers run between the iterations of `next_round`. Correct: the map is there
  before it is played; soldiers are neither negative nor made from nothing; orders stay
  with the player who sent them; who is out stays out; at most one player is left when
  the game ends; it does end when one is left; then nothing moves any more.
* *Room list and threads.* Correct: ids are unique, the list holds the allocated rooms and
  no others, a command acts for the holder of the session, no lock is kept by a handler
  that has returned, ended rooms go and others stay, every request is answered.
* *Views.* What a client sees is what it may see (fog), and sums are right.
* *Wire format and select loop.* What is sent is what is received, however the stream is
  cut; the tables of the connections agree; every ready descriptor is served once in a
  pass; who asks is answered.
* *Client.* It owns its slot while it is in the room, follows the room to the end, shows
  END to whom it is due, and gives the orders its player means: cursor, directions and
  marches are those of the server.
* *Vendored library.* A resolver lists what exists, once; a socket that is not returned is
  closed; a text names the address it was made from.

`PROJECT.json` lists the hazards line by line, with the property that covers each.

## 2. Modules

```
DataFormat <- Board <- GameRoom <- Views <- MCGameRoom         (TLC)
           |        |                ^-- GameRoomProofs        (TLAPS)
           |        <- Keyboard <- MCKeyboard                  (TLC)
           |              ^-- KeyboardProofs                   (TLAPS)
           <- Match    (abstract; instantiated in GameRoom)
           <- Roster   (abstract; instantiated in GameRoom and in Client)
           <- Client   <- MCClient                             (TLC)
           |     ^-- ClientProofs                              (TLAPS)
           <- RoomServer <- MCRoomServer                       (TLC)
                 ^-- RoomServerProofs                          (TLAPS)

Wire <- Connections <- MCConnections                           (TLC)
             ^-- ConnectionsProofs                             (TLAPS)

Resolver  <- Sockets <- MCLibrary                              (TLC)
          <- Names <-----/  |
Addresses <-------------/   |
Session   <------------/    |
                            ^-- LibraryProofs                  (TLAPS)
             Sockets <- SocketsProofs <--/                     (TLAPS)

Induction <- GameRoomProofs, ConnectionsProofs, SocketsProofs, LibraryProofs
```

* **DataFormat** has the codes of `data_format.h`; **Board** what server and client must
  agree on: the cells, `struct Action`, and how `next_round` reads it (`dx`, `dy`, the march).

* **GameRoom** is one room from the return of `Register_Room` on. One action per handler
  (`Join_Room`, `Quit_Game`, `Add_Action`; `Start_Game` in two, `GenMap` up to the end of
  `genMap` and `Start_Game` from the assignment of INGAME), and `next_round` cut at its
  loop iterations: `Grow` (the round counter and the growth pass), `PlayOrder` (one
  iteration of the order loop), `Judge` (one of the verdict loop), `Decide`. `pc`, `pid`
  and `player_alive` are the game thread's position and locals, `main` is the main
  thread's. A session is abstracted to membership in `seated`. Orders are those a client
  can send: from a cell of its map, one per request.
  The growth pass is one step: no handler writes what it reads, so a handler between two
  of its cells commutes with it. `push` and `pop` on one `std::queue` from two threads are
  a data race; the model takes each as atomic.

* **Views** is what a player is shown of that room: `mapMask` (fog) and the map of `Map_Info`.
  They are operators: the handlers change nothing, and may read at any moment of a round.
  A view is of one moment; a reply of the code may be torn between two (section 6). Of
  `getStat` there is only what can go wrong beside `next_round`: it tests that a cell has an
  owner and then reads the owner again as an index (`LandChangesHands`).

* **Match** is what a room promises without map, orders and threads: seats, who is in
  contention, the end. `GameRoom!MatchSpec` is its instance under the mapping
  `contenders <- IF WAIT THEN {} ELSE Standing`.

* **RoomServer** is the list, the heap and the two threads, each handler cut at its
  lock operations and unlocked reads: `Recv`, `Lookup`, `addRoom`, `Peek` (the unlocked
  read of `game_state` in `Map_Info`), `VerifyLookup`, `VerifyCheck`, `Lock` or `Block`,
  `Body` (one disjunct per command), `StartRefused`, `Unlock`; and `GameLock`, `Play`,
  `PlayDone`, `SweepLock`, `Sweep`, `Delete`, `SweepDone` for the game thread; `Tick` for
  the clock. Heap blocks are recycled. Three undefined behaviours are nondeterministic
  choices: the `game_state` of a room that `addRoom` has published and `Register_Room` not
  yet filled (`Garbage`), a round on such a room, and a handler that works on a freed room
  (`Fault`, `Hang`, or the old contents). That round is two steps, `PlayUnready` and
  `RoundUnready`, between which `Register_Room` may fill the room: it faults, does nothing, or
  ends the game of the room. Likewise `Sweep` decides and `Delete` acts; `Judgement` keeps
  apart ("delete_raw") what was decided of a room that nobody had filled.
  `delended`'s loop, which moves on after `erase`, is translated as it is: it skips a room,
  and past the end it goes on at `begin()`, as the circular lists of libstdc++ do.

* **Roster** is what a client can tell of a room from the replies: `game_state`, the slots
  taken, the state of each player. How players fall is left open. GameRoom implements it
  (`RosterSpec`), so Client need not have the map, the orders and the loops of `next_round`.

* **Client** is several clients of one room and the main thread that answers them. The
  variable `screen` says at which request or prompt each of them is, with the names of the
  functions of `cliaction.c`; `reply` is the answer under way; PLAYER_ID and GAME_STATE are
  the client's globals. One action per handler on the server's side: `Join_Room`,
  `Room_Info`, `Quit_Game`, `Start_Game`, `Add_Action`, and two that are cut where they
  read the room again: `Map_Info_Peek` (without the lock), `Map_Info` (game and player) and
  `Answer`; `Get_Player_Info` (game and player, game.cpp:442 and 447) and `Answer`, which
  sends the `game_state` of its own moment (game.cpp:462). `next_round` takes no
  `room_mutex` and may come between any two of them. The other handlers are one step: what
  they make of their two reads is what they would make of both at one of the two moments,
  since only the main thread takes a room out of WAIT and a player never comes back without
  it. Further, `Unverified` for what `verifySession` turns down, and `Block` for a handler
  that meets the mutex a second `Start_Game` left locked. On the client's side: `Receive`
  (`recv_data`, `error_check`, the assignments and where the screen goes on), `Refresh`
  (the prompt times out), `Enter` (something is typed), `Kill`. `Round` is the roster's,
  `delended` deletes the room at any moment but not during a handler (RoomServer has that
  case). The room is not registered again under the same id after its deletion.

* **Keyboard** is one client's game screen below the requests: the two buffers a key passes
  (lines in the kernel, characters in stdin), `get_at_wait`, `action_get`, `action_move`,
  `action_select`, the cursor and the mode. Its `TypeOK` says that every order sent is an
  `Order` of Board, which is what GameRoom assumes of its clients (`RoomAssumption`).

* **Wire** is the first word of a message with the code in its low bits and the length above
  them (`setLen`, `getLen`, `getCode` on words of bounded width; `|` is a recursive function
  that halves both words, `or`, and `pow2` another, so that the proofs reach them),
  the lengths of the replies, and the four tables of words that client and server convert
  between host and network order. Lengths are in units of 16 bytes.

* **Connections** is the select loop of `server.c` and the clients at the other end: `Select`,
  `Accept`, `Scan`, `recvData`, `commandHandler` for the main thread; `Connect`, `Ask`,
  `TakeHeader`, `TakeRest`, `Leave` for a client; `DeliverUp`, `DeliverDown`, `Fin`, `HangUp`
  for the network. `allset`, `fdCnt`, `maxfd`, `rset`, `nready`, `fd` are the variables of the
  code, `open` is the kernel's table of descriptors. `readn` waits for the whole request;
  the client's second `read` takes what is there. What a reply says is left to RoomServer
  and Client: here it is a code and a length. `writen` to a client that is gone may succeed,
  fail (`corruptedClose`), or raise SIGPIPE, which the server does not handle (`killed`).

* **Session** is `getSessin`: the congruence on an int of `Width` bits that wraps, seeded
  while it is 0.

* **Resolver** has the two `getaddrinfo` of the vendored library (`libgai`, `libfree`) as
  operators from a request to the possible answers: checks, searches, `ga_clone`, `ga_port`,
  services, local paths. **Sockets** is a program that calls them, one call after another:
  `tcp_connect`, `tcp_listen`, `udp_client`, `udp_connect`, `udp_server`, `host_serv` and the two
  connects with a time limit. It keeps `use_inet6`, the resolver's global option. **Names** is
  the way back, `getnameinfo` and `sock_ntop`, with the tests of `testga.c`. **Addresses** is
  `inet_pton`, `inet_ntop` and `inet_aton` on texts cut into tokens.

* **MCGameRoom**, **MCRoomServer**, **MCKeyboard**, **MCClient**, **MCConnections**,
  **MCLibrary** give TLC orders, lines, clients, requests, texts and the symmetry. MCLibrary
  puts four machines that share nothing side by side; the variable `of` says which one runs.

* **GameRoomProofs**, **ClientProofs**, **KeyboardProofs**, **RoomServerProofs**,
  **ConnectionsProofs**, **SocketsProofs**, **LibraryProofs** hold the theorems; LibraryProofs is
  about MCLibrary, whose DNS, services, requests, groups and parts of texts are parameters
  there. **Induction** has the lemmas that several of them share: least subsets and least
  numbers, powers of two, sums over finite sets, folds along tables and sequences.

The definitions named `X_Something`, each before its `X`, are mutants: the same operator
with a plausible slip. A property is only kept if TLC finds it violated when the mutant
replaces the definition (`PROJECT.json`, "mutants").

## 3. Runs

| run | question | bounds |
|---|---|---|
| `room_conquest` | do armies, terrain, fog and final position stay right, does land change hands only next to its new owner, does a decided game end? | 2 players, 1x3 cells, 3 rounds, every march (all or half) and one off the map, 1 queued order, castles of 1, plains grow every 2nd round |
| `room_three` | do orders, outcome and players stay right when a free slot's home falls and the slot is filled, does the room implement Match and Roster? | 3 players, 1x3 cells, 3 rounds, marches with all but one, 1 queued order |
| `server_handlers` | list, ids, sessions, room locks and linger times under all commands; is every request answered? | 1 id, 2 recycled blocks, 2 slots, 2 sessions, all garbage |
| `server_delended` | does `delended` delete every room that has ended? | 2 rooms of 1 slot, fresh memory |
| `start_twice` | (violation) is every request answered after a second `Start_Game`? | 1 block, fresh memory |
| `client` | does each client own its slot, see END or an error when it should, and leave a finished game and a deleted room? | 2 clients, 2 slots, 2 contents of an unwritten buffer |
| `client_password` | (violation) does the right password admit? | 2 clients |
| `connections` | do the tables of the select loop agree, is every ready descriptor served, do requests and replies stay in step and mean the same on both sides, is who asks answered? | 3 clients, 2 of them asking, room for 2, replies longer than a header, streams cut at every 3rd unit |
| `library` | is everything listed once, no socket left open, every text read back, no session drawn twice? | 7 hosts, 7 services, 4 names in the DNS, addresses of 8 groups out of 0, 1, 65535, texts of 5 parts, an int of 6 bits |
| `keyboard_orders` | are the orders on the map, and what cursor and mode promise? | 2x3 cells, every line of at most two keys, 1 line in the kernel |
| `keyboard_enter` | (violation) do only w, a, s, d give orders? | as above |
| `keyboard_stuck` | (violation) is every key acted on? | as above |

*Why they are enough.* Every step of `next_round` concerns one player and at most two
cells. Three cells hold two homes and a cell to fight over, or three homes side by side,
and the third round is the first in which an army can take a home. With two slots players
who quit and are replaced give a loser, a slot that is taken again and a verdict loop that
is overtaken on both sides. But a free slot's home, which nobody marches from, has 3
soldiers in the third round, and one attacker brings 2. So `room_three` has three slots:
two attackers wear the home between them down, it falls in the third round, and whoever
joins then is ALIVE without a home, which is the case of `NoHomelessArmy`, `OutIsOut` and
`MatchSpec`. (A state with such a player is reached: TLC gives a trace when asked for one.)
With `CASTLE_DEFAULT = 1` and growth every second round, all branches of the growth pass
occur within three rounds; fights with equal, larger and smaller armies occur. What depends
on numbers beyond the bounds is proved for all values (section 5). In RoomServer one id on
two blocks gives the room, its successor of the same id and a dangling pointer to the
first; two ids on two blocks give `delended` a first and a last room. The linger times 0 <
1 < 2 keep the order of 20 < 600 < 1800, the only thing compared. Ages above `LingerIngame
+ 1` are not distinguished.

Two clients for two slots give a slot that is freed and taken by the
other client, and a client that finds its room gone. Lines of two keys leave one or
two characters in the buffer of stdin when the next line comes, so every key meets every
mode at every place of a board with corners, edges and (along x) opposite edges only.

Three clients for two descriptors give a full server, a descriptor that is closed in the
middle of a pass and given to the next client, and a client left in the backlog. A header
is 4 units and the long reply 5, so cuts at 3 units (`Grain`) divide header and rest, and a
piece may hold the end of the one and the beginning of the other. Two of the
clients ask: the third only occupies. The command asked is CMD_PLAYER_INFO: its
request is converted in part and its reply has a header alone or more. Words of 12 and 3
bits are the least that hold the codes and these lengths.

The library's requests combine every kind of host (none, literal of each family, name with
both, one or no family, local path) with every kind of service (none, number, one or both
protocols, unknown, short or long path). The eight groups of an address out of 0, 1 and
65535 give every position and length of a run of zeros, and the two forms with an IPv4
tail. An int of 6 bits keeps what makes the period of the congruence long: the multiplier
is 1 modulo 4 and the increment is odd; section 5 has every width.

*Deadlock* is checked in all runs but those of Client, where all clients may have ended,
`connections`, where a server killed by SIGPIPE leaves nobody to act, and `library`, where a
program exits when it cannot open a socket and nothing follows a text. `Tick` and `Recv` keep
RoomServer going; GameRoom can always join or quit.

*Fairness.* `GameRoom!FairSpec`: the game thread loops for ever and is scheduled (WF).
`RoomServer!FairSpec`: WF for the game thread; SF for the handler, because the game
thread releases `list_mutex` and sleeps a second in every iteration, so that a waiting
handler gets it; SF for the clock, which the model stops during a sweep only because
`delended` reads the time once. Nothing is assumed of clients.
`Client!FairSpec`: WF for the later steps of the two handlers that are cut (`Map_Info`,
`Answer`) and for a client that has its reply or
whose prompt times out (a client is a loop over two reads with a time-out); SF for the
service of a client's request, since the main loop goes through all readable sockets
each time `select` returns. Nothing obliges a player to type or `delended` to delete.
`Connections!FairSpec`: WF for the main thread, which is runnable whenever `select` or
`readn` can return; WF for a client that waits in `read`, and for the network: what is sent
and not lost arrives. Nobody is obliged to connect, to ask, to leave, or to close:
that a request stays incomplete is the excuse `Stalled` in `Served`.
`Keyboard!FairSpec`: WF for `get_at_wait`; nothing obliges the player to type.

## 4. What the runs show

All properties hold except those of the four violation runs:

* **start_twice (code bug).** `Start_Game` on a room that has started returns "Game
  Already Start" without unlocking `room_mutex` (game.cpp:244). The next command for the
  room blocks the main thread, hence the server. Two players pressing `r` in one lobby
  do it. `AnsweredOrLeftLocked` shows it is the only reason, besides freed memory, for
  which a request stays unanswered.
* **keyboard_enter (code bug).** `action_select` sends an order, with `way` 0, for every key
  that reaches it, also for the newline after each key: the terminal hands out lines. In
  a SELECT mode each Enter marches an army one cell down (cliaction.c:443).
* **keyboard_stuck (code bug).** `get_at_wait` lets `select` look at the kernel and reads
  through stdin. What `scanf` has left in the buffer waits for the next line, and each
  line makes one character be taken: the keys fall behind by one per line
  (cliscreen.c:173).
* **client_password (code bug).** `memcpy(buf, passwd, BUF_SIZE)` has source and destination
  exchanged (clistate.c:77 and 98). The password sent is what the stack held, both when a
  room is registered and when it is joined; the model leaves open what that is.

Worth knowing although no property is violated:

* A player may join a running or ended game through a free slot, whose home may have
  fallen. He is ALIVE, but owns nothing and is DEAD after the next round (`NoHomelessArmy`).
* `NoEarlyDelete` speaks of rooms that were filled when `delended` judged them. Between
  `addRoom` and its assignments in `Register_Room` a room has the `game_state` its recycled
  block had: `delended` may delete it at once (the one excuse of the property), and a round may
  end it (`RoundUnready`); both are in `server_handlers`, where blocks hold anything. And
  a started room is only safe for the lobby's linger time, not for a game's: `delended`
  may have read WAIT just before the start.
* A player whose home falls while his `Get_Player_Info` is being answered may be shown END:
  he was ALIVE at the first look (game.cpp:447), and the round that puts him out also ends the
  game before the answer is made (462). `EndScreen` names this excuse (`fallen`), and no other.
* `OnlyOutExpelled` needs its third excuse: when the game ends between the two looks of
  `Map_Info` at `game_state`, the winner's client is refused "Game not Going" and exits with
  an error instead of showing END. The same happens to an order sent after the end.
* `GoneRoomEmpties` is all there is for a client that polls over a whole game: `state_room`
  waits for INGAME and shows the lobby of an ended game until the room is deleted
  (`EndReachesGame` speaks of clients in the game only). An empty line entered in the
  lobby stops the polling until something else is typed.
* `Served` needs its excuse: `readn` waits without a time limit, so one client that has sent
  half a request and neither goes on nor closes stops the server for everybody.
* A reply that arrives in two pieces ends the client: it reads the rest with one `read`.
  And the server ends when it writes to a client that has closed: nothing handles SIGPIPE.
* With MAX_PLAYER connections and one more in the backlog, `select` returns at once for ever;
  the passes stay exact (`PassExact`), only the processor is kept busy.
* The multiplier and the increment of `getSessin` give it the full period: 0, the mark of a
  free slot, is among the sessions, once in 2^32. A slot with session 0 counts as free.
* What a player does not see he cannot march on, and the fog hides none of his marches:
  `MarchSeen` holds although `mapMask` and `next_round` share no code.
* In the vendored library, kept as it is in the models:
  - libfree's `getaddrinfo` leaves RES_USE_INET6 set; later requests are answered
    differently, or not at all (getaddrinfo.c:512).
  - It may `goto bad` before `aihead` has a value; the model lets it crash then.
  - libgai's ends the program (`err_quit`) for family AF_LOCAL without a path, because
    `ga_nsearch` finds no search.
  - `ga_unix` lists an entry of type SOCK_RAW for AF_UNSPEC, which `ga_echeck` refuses for
    AF_LOCAL.
  - `connect_nonb` leaves the socket open and non-blocking in two of its failures
    (`OneSocketLeft` names them).
  - `sock_cmp_port` returns 1 when the ports are equal, `sock_cmp_addr` returns 0 when the
    addresses are.
  - "::" in an address that is complete without it clears the last groups, where
    inet_pton.c:134 speaks of ignoring it.
* A killed client keeps its slot; only the deletion of the room gives it back.
* GameRoom's runs go on after a second start as if it had been answered properly:
  they show what holds in the room up to the moment the server stops.

## 5. Proofs

For every number of players, map size, garrison, growth period and set of orders
(`RoomAssumption`: they are positive or natural numbers, and the orders are on the map);
every number of blocks, ids, slots and sessions, and every linger time
(`ServerAssumption`); every MAX_PLAYER, set of clients and size of messages
(`ConnectionsAssumption`); every list of addresses and sequence of calls; every DNS, services
and texts (with the assumptions named below); every width of the int that makes the sessions:

| theorem | property | rests on |
|---|---|---|
| `TypeCorrect`, `MapReady`, `EndIsFinal` | `TypeOK`, `MapBeforePlay`, `FinalPosition` | `TypeInv` |
| `ArmiesPositive`, `NeutralStays` | `NoNegativeArmy`, `NeutralGround` | `ArmyInv` |
| `OrdersStayWithOwner` | `OrdersHaveOwner` | itself, with `TypeInv` |
| `OneWinner` | `AtMostOneWinner` | `VerdictInv`, `SlotInv` |
| `HomelessOwnNothing`, `OutStaysOut` | `NoHomelessArmy`, `OutIsOut` | `HomelessInv`, `SlotInv` |
| `MarchesAreSeen` | `MarchSeen` | `OwnIsSeen`; `TypeInv` |
| `ConquestIsNear` | `LandChangesHands` | `TypeInv` |
| `LossesAreEqual` | `EqualLosses` | `ArmyInv`, `TypeInv` |
| `RoomImplementsMatch` | `MatchSpec` | all of these and `HomesInv` |
| `RoomImplementsRoster` | `RosterSpec` | `RoomInv`, the conjunction of these |
| `ClientTypes`, `ClientsOwnSlots`, `EndScreenTrue`, `OnlyOutAreExpelled` | `TypeOK`, `OwnSlot`, `EndScreen`, `OnlyOutExpelled` of Client | `ClientInv` |
| `ServerTypes`, `IdsAreUnique`, `ListIsExact`, `OwnersAct`, `LobbiesAreUnlocked` | `TypeOK`, `UniqueIds`, `ListExact`, `SeatOwner`, `LobbyNeverLeftLocked` of RoomServer | `IInv` |
| `LingersLongEnough` | `NoEarlyDelete` | `IInv`, `Judged` |
| `TablesAgree`, `PassesAreExact` | `FdsAccounted`, `PassExact` of Connections | `PassInv` |
| `ExchangesInStep` | `InStep` of Connections | `StreamInv`, `PassInv` |
| `NoSocketLeaks` | `OneSocketLeft` of Sockets | `SocketsInv` |
| `EntriesAreListedOnce` | `ListedOnce` of Sockets | `Answered` |
| `SessionsAreNew` | `NoSessionTwice` of Session | `SessionInv` |
| `AddressesReadBack`, `QuadsAgree` | `ReadBack`, `SameQuad` of Addresses | operators only |
| `TextsAreKept` | `TextsKept` of MCLibrary | `LibraryInv` |
| `KeyboardTypes`, `DirectionsAgree`, `ModesAgree` | `TypeOK`, `CursorFollowsArmy`, `ModeIsMarch` of Keyboard | `TypeOK` |

* `TypeInv` adds to the types where each thread can be in each game state; without it
  the map would have no type.
* `ArmyInv` says of every single cell what the two properties say of the map. The lemmas
  `SaneGenGrid`, `SaneGrowth`, `SaneLeave`, `SaneEnter` treat one operation each.
* `SlotInv` is the reason why `Join_Room` is harmless at any time: a free slot of a game
  owns at most its home, because orders need a seat, and if it is not ALIVE its home
  has fallen, because only `Judge` puts a free slot out. So whoever joins does not begin to
  stand.
* `VerdictInv`: the count of the verdict loop is at least the number of standing slots
  it has passed. Quits lower the truth, not the count; joins do not raise it (`SlotInv`).
  So the game may be ended a round late, but never with two players left.
* `HomelessInv`: the verdict loop makes everybody it passes DEAD or homed, and a slot that
  joins behind it without a home owns nothing.
* `HomesInv`: the homes are different and only placed slots own land; an order changes
  one owner at most (`OneCellChanges`), so at most one slot enters or leaves contention.
* `ClientInv` says what the replies under way promise: that of `Join_Room` names a slot
  with the client's session, that of `Get_Player_Info` with END was given when the game was
  over, to a player who is alive or is in `fallen`, a refused refresh has one of the three
  reasons. None of `OwnSlot`, `EndScreen`, `OnlyOutExpelled` is inductive without it, since
  the client acts on a reply long after it was given. It is proved client by client:
  `GoodBystander` for the steps of all others (the slot of a client is changed by nobody
  else, a game does not go back), and one lemma for each action of its own.
* `IInv` of RoomServer: the five properties say nothing of what the main thread carries from
  one lock to the next, and are not inductive without it. `Lists` ties the list to the live
  blocks; `Control` says what each position of the two threads knows (`addRoom` is reached
  only when the id is absent); `PointsTo`, that the pointer is at a block of the id asked for,
  deleted or not; `Filling`, that the only live room with garbage in it is the one that
  `Register_Room` is about to fill; `Compared`, that the session compared is still that of
  the slot. Handlers are serialised by the main thread: that keeps ids unique although
  lookup and `addRoom` are two critical sections, and seats with their owners although
  `verifySession` holds no lock. A freed block keeps its contents or is recycled by
  `addRoom`, and that is only done by the same thread.
* `Judged` says of the room `delended` has decided to delete that it was old enough by what
  was read; ages only grow, and a room that was filled moves from WAIT to INGAME to END only.
  Nothing is assumed of the memory: a room judged before it was filled is left to the excuse.
* `PassInv` says how far a pass has got: after `select` nready counts `rset`, after the
  listening socket it counts `Left`, the descriptors of `rset` from `fd` on, all
  of them open, because the loop closes only the one it stands at and a new connection
  gets a descriptor that was not open, so not in `rset`. Clients and network touch
  none of this (`AroundStep`).
* Together, `RoomImplementsRoster` and the theorems on Client say what clients see of a real
  room, and `KeyboardTypes` discharges what GameRoom assumes of their orders.

* Induction: the library's induction theorems are out of reach (they have an operator as
  parameter), so module Induction argues by a least counterexample instead: every non-empty
  set of subsets of a finite set has a minimal member (`LeastSubset`), every non-empty set
  of numbers a least one (`LeastNumber`), both from the well-foundedness of those orders.
  That a recursive function satisfies its equation is shown in the same way, by the
  least number for which no function does.
* `LossesAreEqual` needs `Army`, a sum over the cells of any map. `SumFunction` is taken
  apart cell by cell with `LeastSubset`; then an order changes two cells, one after the
  other (`Leave`, `Enter`), and growth adds 0 or 1 to each. It is taken for each owner
  apart: what leaves the source and does not arrive is lost by the marcher, and the
  defender of the target loses the same.
* `ConquestIsNear`: an order writes its source and its target, leaves the owner of the source
  alone, and gives the target to nobody but the owner of the source (`OrderBorders`).
* `StreamInv` says of each client in which part of its exchange it is (`Quiet`, `Requesting`,
  `Answered`, `Gone`) and how much of which message is still on the way, in the pieces
  delivered and not; `FirstWord` that the word made by `setLen` gives code and length back,
  on the server's side too, where sendData adds the length first and sets it afterwards:
  the "or" of a word with its own upper half changes nothing (`OrSame`), and with two words
  that share no bit it is their sum (`OrApart`). The theorem assumes `LengthsFit`: the length of
  no reply exceeds its 16 bits. With larger maps the code would announce a wrong length
  (section 6). The run assumes the same of its instance.
* `SessionsAreNew`: a session that came back would close a cycle of `Drawn` without 0.
  But a set closed under `Drawn` contains 0: by induction on j it contains a multiple
  of 2^j, because 2^j steps are again a congruence x -> A x + C with A = 1 modulo 4 and C
  an odd multiple of 2^j (`NextStage`), so that of two neighbouring multiples one is a
  multiple of 2^(j + 1). This is the full period for 32 bits, of which the run has 6, and
  what allows RoomServer to draw its sessions from a counter.
* `SocketsInv` says what is open at each line of the loops over addresses and of the two
  connects with a time limit.
* `EntriesAreListedOnce` is an invariant of few states (`Answered`: the answer is one that
  getaddrinfo gives to the request of this call, in the state the resolver was in before it)
  and a theorem about operators. `LibgaiAnswers` and `LibfreeAnswers` say that what is found
  is what the request is about, each address once and IPv6 first (`Fresh`, `About`);
  `ServedOnce` that the passes of `ga_port` make of such a list one that has each entry with each
  socket type once (`Listing`): the first pass fills in (`PortsFilled`), the second copies
  (`PortsCloned`). The concatenation of the copies and the fold over the socket types are
  recursions whose solutions are shown to exist first (`FlattenUnfold`, `FoldSolved`).
  Assumed of the constants (`ResolverAssumption`, `DnsAssumption`, checked for the run's instance
  by TLC): no text is a literal of both families, "localhost" is none, and an answer of
  the DNS lists no address twice - with one listed twice both libraries list it twice.

* `AddressesReadBack`: `inet_ntop` writes a word for each group, `inet_pton` is a loop over
  tokens. `StateAt` names the state this loop is in when it has read the words of the first
  groups: the groups stored, the place of "::", the number at hand or that the text must
  end. `NextWord` shows that each word leads from one of these states to the next,
  `ReadAll` joins eight of them, and `Restores` that moving the groups behind "::" to the
  end, as inet_pton does last, gives the address. Of the run that "::" stands for only this
  matters: it has two groups or more, all zero (`BestIsRun`). The fold over the tokens of a
  text is taken apart at its end (`ReadsAppend`).
* `TextsAreKept`: `LibraryInv` is small (the answer is one of getaddrinfo to a request of
  `Calls`; address and text are what they are named), the work is in theorems on operators.
  `ListNamedBack`: an entry of the list has an address of the family and a port of the service
  (`EntryIs`, from `GaServed`); whatever `getnameinfo` calls it is looked up to the same family,
  type and port (`NamesAre`, `FoundAgain`), and the list of that request has the entry
  (`EntryFor`). `TestsPass` goes through the nine tests of testga one by one.
  What it assumes of the constants TLC checks for the run's instance. `NamesAssumption`: names,
  literals, numbers and paths are different texts, and the DNS answers with addresses of the
  family asked for. `TestMachineAssumption`: the machine testga's error tests are made for has
  "localhost", "daytime", "tftp" for datagrams only, "telnet" for streams only, and no
  "none.org" and "no-such".
  `MCAssumption`: groups have 16 bits, requests are for socket types that exist and satisfy
  `NamesFit`. Without `NamesFit` the theorem is false: `getservbyport` is asked for UDP or for
  any protocol (gn_ipv46.c:41), so a stream socket on the port of a service that exists for
  datagrams only gets that service's name, and is not found again by it. The run's requests
  give a port by number only where no service has it.

Only model-checked is liveness (`LastOneEnds`, `EndedRoomDeleted`, `AnsweredOrLeftLocked`,
`EndReachesGame`, `GoneRoomEmpties`, `Served`), which the prover does not reach.

## 6. Not modelled

* Zero or negative numbers of players, though the form of the client takes them (clistate.c:80):
  with 0 `Register_Room` writes players[-1], which is undefined behaviour. And the SUPER_PWD path
  of `Map_Info`, which no screen of the client reaches.
* The sums of `getStat`, and torn reads: a view is computed from one state of the map,
  though `next_round` may run between two cells of it, and a refresh of the screen is two
  requests. `push` and `pop` on one queue are atomic. Memory never runs out.
* The forms before the lobby, and how map, players and statistics are drawn: printing.
* The composition of Client's requests with RoomServer's handlers cut at their locks:
  Client has the room deleted between two requests and cuts two handlers only, RoomServer
  has the deletion under a handler. The product of both is too large for TLC.
* A round on a room that is not filled, in GameRoom: its rooms begin where `Register_Room` has
  returned and no round was under way. RoomServer has that window, with what it may do to
  `game_state`.
* Files and failing system calls in the vendored library: `unlink` of the path of a passive local
  request (ga_aistruct.c:82, libfree/getaddrinfo.c:750), and the error exits with a socket
  open (`setsockopt` and `listen` in tcp_listen.c:26 and 36; `select`, `fcntl` and `err_quit` in
  connect_nonb.c:30-42), where the process ends and its sockets with it.
* A map so large that its length does not fit into 16 bits, that is more than 4,093 cells
  (`LengthsFit`): Wire has the width of the field, but no instance has such a map. The client
  lets the player who registers a room enter any size (clistate.c:82-86).
* The rest of the vendored library: round-trip timers, readline, multicast, interface lists,
  the old copies in `libgai/old`, wrappers that only exit on an error, the options of
  `testga`. The program does not call them, or they have no state.
* Build files and manual tests.
