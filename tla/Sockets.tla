------------------------------ MODULE Sockets ------------------------------
(***************************************************************************)
(* The calls of the vendored library that resolve a host and open a socket *)
(* (tcp_connect, tcp_listen, udp_client, udp_connect, udp_server), the one *)
(* that only resolves (host_serv), and the two that connect a socket they  *)
(* are given within a time (connect_nonb, connect_timeo), one after another*)
(* in a process linked with libgai or with libfree.                        *)
(***************************************************************************)
EXTENDS Resolver, FiniteSets

CONSTANT Calls   \* the calls a program makes: [fn, req]

VARIABLES
  lib,        \* "libgai" or "libfree"
  use_inet6,  \* the resolver's RES_USE_INET6, as libfree leaves it
  call,       \* the current call
  before,     \* use_inet6 when it began
  pc,         \* "idle", "try", "open", "nonblock", "select", "alarm" or "exit"
  res,        \* the entries still to be tried
  answer,     \* what getaddrinfo returned
  open,       \* addresses of the sockets this call has opened
  ret,        \* result of the last call
  nonblock,   \* the given socket is non-blocking
  handler     \* connect_timeo's handler and its alarm are set

flags == <<nonblock, handler>>
vars == <<lib, use_inet6, call, before, pc, res, answer, open, ret, flags>>

Given == [family |-> "given"]
NoCall == [fn |-> "none"]
Openers == {"tcp_connect", "tcp_listen", "udp_client", "udp_connect", "udp_server"}

\* The hints each function makes.
Hints(fn, r) ==
  [r EXCEPT !.badflags = FALSE,
            !.passive = fn \in {"tcp_listen", "udp_server"},
            !.canon = fn = "host_serv",
            !.family = IF fn = "host_serv" THEN @ ELSE "AF_UNSPEC",
            !.socktype = CASE fn = "host_serv" -> @
                           [] fn \in {"tcp_connect", "tcp_listen"} -> "SOCK_STREAM"
                           [] OTHER -> "SOCK_DGRAM"]
Request(c) == IF c.fn = "getaddrinfo" THEN c.req ELSE Hints(c.fn, c.req)

Init ==
  /\ lib \in {"libgai", "libfree"}
  /\ use_inet6 = FALSE /\ before = FALSE
  /\ call = NoCall /\ pc = "idle"
  /\ res = << >> /\ answer = Fail(Ok) /\ open = {} /\ ret = "none"
  /\ nonblock = FALSE /\ handler = FALSE

Return(r) == pc' = "idle" /\ ret' = r

-----------------------------------------------------------------------------
(* Calls that resolve.                                                     *)

Resolve(c) ==
  /\ pc = "idle"
  /\ c.fn \in Openers \cup {"getaddrinfo", "host_serv"}
  /\ call' = c
  /\ before' = use_inet6
  /\ LET r == Request(c) IN
       /\ answer' \in IF lib = "libgai" THEN getaddrinfo(r)
                      ELSE old_getaddrinfo(r, use_inet6)
       /\ use_inet6' = (lib = "libfree" /\ old_use_inet6(r, use_inet6))
  /\ open' = {}
  /\ IF \/ answer'.status \in {"crash", "exit"}
        \/ answer'.status # Ok /\ c.fn \in Openers          \* err_quit
     THEN pc' = "exit" /\ res' = << >> /\ ret' = "none"
     ELSE IF c.fn \in Openers
          THEN pc' = "try" /\ res' = answer'.list /\ ret' = "none"
          ELSE res' = << >> /\ Return(IF answer'.status = Ok THEN "ok" ELSE "error")
  /\ UNCHANGED <<lib, flags>>

\* "while ( (res = res->ai_next) != NULL)", and err_sys behind it.
Next_address ==
  /\ res' = Tail(res)
  /\ pc' = IF Tail(res) = << >> THEN "exit" ELSE "try"

SocketFails ==
  /\ pc = "try"
  /\ Next_address
  /\ UNCHANGED <<lib, use_inet6, call, before, answer, open, ret, flags>>

\* udp_client is content with a socket; the others connect or bind it.
SocketOpens ==
  /\ pc = "try"
  /\ open' = open \cup {Head(res)}
  /\ IF call.fn = "udp_client" THEN Return("ok") ELSE pc' = "open" /\ ret' = ret
  /\ UNCHANGED <<lib, use_inet6, call, before, res, answer, flags>>

\* Mutant of Closed: the socket stays open.
Closed_Not == open
Closed == open \ {Head(res)}

\* connect or bind fails.
Refused ==
  /\ pc = "open"
  /\ open' = Closed
  /\ Next_address
  /\ UNCHANGED <<lib, use_inet6, call, before, answer, ret, flags>>

\* The address is taken.  (setsockopt and listen in tcp_listen do not fail
\* here: err_sys would end the process, which closes its sockets.)
Accepted ==
  /\ pc = "open"
  /\ Return("ok")
  /\ UNCHANGED <<lib, use_inet6, call, before, res, answer, open, flags>>

-----------------------------------------------------------------------------
(* Calls that connect the socket they are given.                           *)

Start(c) ==
  /\ pc = "idle"
  /\ c.fn \in {"connect_nonb", "connect_timeo"}
  /\ call' = c
  /\ before' = use_inet6
  /\ open' = {Given}
  /\ pc' = IF c.fn = "connect_nonb" THEN "nonblock" ELSE "alarm"
  /\ nonblock' = (c.fn = "connect_nonb")
  /\ handler' = (c.fn = "connect_timeo")
  /\ ret' = "none" /\ res' = << >>
  /\ UNCHANGED <<lib, use_inet6, answer>>

\* connect_nonb: connect returns at once, with success or a failure; the
\* failure leaves the socket open and non-blocking.
AtOnce ==
  /\ pc = "nonblock"
  /\ \/ Return("ok") /\ nonblock' = FALSE
     \/ Return("refused at once") /\ UNCHANGED nonblock
  /\ UNCHANGED <<lib, use_inet6, call, before, res, answer, open, handler>>

InProgress ==
  /\ pc = "nonblock"
  /\ pc' = "select"
  /\ UNCHANGED <<lib, use_inet6, call, before, res, answer, open, ret, flags>>

\* select runs out of time, or SO_ERROR tells how the connect ended, or
\* cannot be read.  (The ways out that end the process are left out: the
\* wrappers Select and Fcntl, and err_quit when neither set has the socket.)
Selected ==
  /\ pc = "select"
  /\ \/ Return("timeout") /\ open' = {} /\ UNCHANGED nonblock
     \/ Return("no SO_ERROR") /\ UNCHANGED <<open, nonblock>>
     \/ Return("ok") /\ UNCHANGED open /\ nonblock' = FALSE
     \/ Return("refused") /\ open' = {} /\ nonblock' = FALSE
  /\ UNCHANGED <<lib, use_inet6, call, before, res, answer, handler>>

\* connect_timeo: connect succeeds, fails, or is interrupted by the alarm
\* (which is lost if it comes before connect blocks); then alarm and handler
\* are undone.
Timed ==
  /\ pc = "alarm"
  /\ \/ Return("ok") /\ UNCHANGED open
     \/ Return("refused") /\ open' = {}
     \/ Return("timeout") /\ open' = {}
  /\ handler' = FALSE
  /\ UNCHANGED <<lib, use_inet6, call, before, res, answer, nonblock>>

Next ==
  \/ \E c \in Calls : Resolve(c) \/ Start(c)
  \/ SocketFails \/ SocketOpens \/ Refused \/ Accepted
  \/ AtOnce \/ InProgress \/ Selected \/ Timed

Spec == Init /\ [][Next]_vars

-----------------------------------------------------------------------------
(* Properties.                                                             *)

\* The addresses a request is about, for the family f.
AddressesOf(r, f) ==
  CASE FamilyOf(r.host) = f -> {r.host}
    [] FamilyOf(r.host) \in Internet \ {f} -> {}
    [] r.host = NoText ->
         IF r.passive THEN {IF f = "AF_INET" THEN "0.0.0.0" ELSE "0::0"}
         ELSE IF lib = "libgai" /\ f = "AF_INET6" THEN {"0::1"}
         ELSE ToSet(LookUp("localhost", f))
    [] OTHER -> ToSet(LookUp(r.host, f))
\* The families it is about; libfree knows one family for a name.
FamiliesOf(r) ==
  IF r.family # "AF_UNSPEC" THEN {r.family}
  ELSE IF lib = "libgai" \/ FamilyOf(r.host) \in Internet THEN Internet
  ELSE IF before THEN {"AF_INET6"} ELSE {"AF_INET"}
\* The socket types it wants and the service has.
TypesOf(r) ==
  IF r.serv = NoText THEN {r.socktype}
  ELSE {st \in IF r.socktype = AnyType THEN SocketTypes ELSE {r.socktype} :
          Offers(r.serv, st)}
\* What the answer should list: every address with every socket type.
Wanted(r) ==
  UNION {{f} \X AddressesOf(r, f) \X TypesOf(r) : f \in Internet \cap FamiliesOf(r)}

\* What getaddrinfo lists, after all the cloning of entries, is every wanted
\* address with every wanted socket type exactly once, with the port of that
\* service for that type, IPv6 before IPv4 (of a Unix
\* domain path, every socket type once).
ListedOnce ==
  (call.fn \in Openers \cup {"getaddrinfo", "host_serv"} /\ answer.status = Ok) =>
    LET r == Request(call)  l == answer.list
        line(i) == <<l[i].family, l[i].addr, l[i].socktype>>
    IN  \/ /\ \A i \in DOMAIN l : l[i].family = "AF_LOCAL"
           /\ \A i, j \in DOMAIN l : l[i].socktype = l[j].socktype => i = j
        \/ /\ {line(i) : i \in DOMAIN l} = Wanted(r)
           /\ Len(l) = Cardinality(Wanted(r))
           /\ \A i \in DOMAIN l :
                l[i].port = IF r.serv = NoText THEN 0 ELSE PortFor(r.serv, l[i].socktype)
           /\ \A i, j \in DOMAIN l :
                (l[i].family = "AF_INET" /\ l[j].family = "AF_INET6") => j < i

\* However many addresses were tried, a call that returns a socket leaves
\* that one open and a program that gives up leaves none; a failed connect
\* with a time limit has closed the socket and restored what it changed,
\* except in the two cases in which connect_nonb leaves both to its caller.
OneSocketLeft ==
  /\ pc = "exit" => open = {}
  /\ (pc = "idle" /\ call.fn \in Openers) => ret = "ok" /\ open = {Head(res)}
  /\ (pc = "idle" /\ call.fn \in {"connect_nonb", "connect_timeo"}) =>
       /\ ~handler
       /\ ret = "ok" => open = {Given} /\ ~nonblock
       /\ ret \in {"refused", "timeout"} => open = {}
       /\ ret = "refused" => ~nonblock
       /\ ret \in {"refused at once", "no SO_ERROR"} => open = {Given} /\ nonblock
=============================================================================
