------------------------------- MODULE Names -------------------------------
(***************************************************************************)
(* From a socket address back to texts: the two getnameinfo, sock_ntop and *)
(* the comparisons of socket addresses, as operators on the entries of     *)
(* Resolver, and the tests testga.c makes of them.                         *)
(***************************************************************************)
EXTENDS Resolver

\* A name is no address, number or path, and is looked up to addresses.
ASSUME NamesAssumption ==
  /\ NoText \notin DOMAIN Dns \cup DOMAIN Services \cup DOMAIN Numbers
                    \cup Paths \cup {"/local", "/unix"}
  /\ DOMAIN Dns \cap (Literal4 \cup Literal6) = {}
  /\ DOMAIN Services \cap DOMAIN Numbers = {}
  /\ Paths \cap (DOMAIN Services \cup DOMAIN Numbers) = {}
  /\ \A n \in DOMAIN Dns, f \in Internet : \A x \in ToSet(Dns[n][f]) : FamilyOf(x) = f

\* The machine that testga's error tests are made for.
ASSUME TestMachineAssumption ==
  /\ \E st \in SocketTypes : Offers("daytime", st)
  /\ "tftp" # NoText /\ ~Offers("tftp", "SOCK_STREAM")
  /\ "telnet" # NoText /\ ~Offers("telnet", "SOCK_DGRAM")
  /\ \A st \in SocketTypes : ~Offers("no-such", st)
  /\ FamilyOf("none.org") = "none" /\ \A f \in Internet : LookUp("none.org", f) = << >>
  /\ \E f \in Internet : LookUp("localhost", f) # << >>

\* gethostbyaddr: the names that have the address.
HostsAt(e) == {n \in DOMAIN Dns : e.addr \in ToSet(Dns[n][e.family])}
\* getservbyport, for UDP or for any protocol.
ServicesAt(port, types) ==
  {s \in DOMAIN Services : \E st \in types : port # 0 /\ Services[s][st] = port}
\* The number as a text.
Digits(port) == {s \in DOMAIN Numbers : Numbers[s] = port}

\* The name up to its first dot.
Label(n) == <<"label", n>>

\* The texts gn_ipv46 may give; none if it fails.
gn_host(e, flags) ==
  CASE "NI_NUMERICHOST" \in flags -> {e.addr}
    [] "NI_NUMERICHOST" \notin flags /\ HostsAt(e) # {} ->
         IF "NI_NOFQDN" \in flags THEN {Label(n) : n \in HostsAt(e)} ELSE HostsAt(e)
    [] OTHER -> IF "NI_NAMEREQD" \in flags THEN {} ELSE {e.addr}
gn_serv(e, flags) ==
  LET named == ServicesAt(e.port, IF "NI_DGRAM" \in flags THEN {"SOCK_DGRAM"} ELSE SocketTypes)
  IN  IF "NI_NUMERICSERV" \in flags \/ named = {} THEN Digits(e.port) ELSE named

getnameinfo(e, flags) ==
  CASE e.family \in Internet -> [host : gn_host(e, flags), serv : gn_serv(e, flags)]
    [] e.family = "AF_LOCAL" -> [host : {"/local"}, serv : {e.addr}]
    [] OTHER -> {}

\* libfree: names only, and no Unix domain.
old_getnameinfo(e) ==
  IF e.family \in Internet
  THEN [host : HostsAt(e), serv : ServicesAt(e.port, SocketTypes)]
  ELSE {}

sock_ntop(e) ==
  CASE e.family = "AF_INET" /\ e.port # 0  -> <<e.addr, ":", e.port>>
    [] e.family = "AF_INET6" /\ e.port # 0 -> <<"[", e.addr, "]:", e.port>>
    [] OTHER -> <<e.addr>>
sock_ntop_host(e) == <<e.addr>>

\* 0 if the addresses are the same.
sock_cmp_addr(a, b) == IF a.family = b.family /\ a.addr = b.addr THEN 0 ELSE -1
sock_get_port(e) == IF e.family \in Internet THEN e.port ELSE -1
\* 1, not 0, if the ports are the same.
sock_cmp_port(a, b) ==
  IF a.family # b.family \/ a.family \notin Internet THEN -1
  ELSE IF sock_get_port(a) = sock_get_port(b) THEN 1 ELSE 0

\* What testga prints of a list: every address, and the names it has.
do_onetest(l) ==
  [i \in DOMAIN l |->
     [text  |-> sock_ntop(l[i]),
      names |-> getnameinfo(l[i], IF l[i].socktype = "SOCK_DGRAM" THEN {"NI_DGRAM"} ELSE {})]]

\* The errors testga provokes, with the codes it expects.
do_errtest ==
  LET ask(h, s, f, t) ==
        [host |-> h, serv |-> s, family |-> f, socktype |-> t,
         passive |-> FALSE, canon |-> FALSE, badflags |-> FALSE]
  IN {<<[ask(NoText, "daytime", "AF_UNSPEC", AnyType) EXCEPT !.passive = TRUE], Ok>>,
      <<[ask("localhost", NoText, "AF_UNSPEC", AnyType) EXCEPT !.badflags = TRUE], "EAI_BADFLAGS">>,
      <<ask("localhost", NoText, "AF_SNA", AnyType), "EAI_FAMILY">>,
      <<ask(NoText, NoText, "AF_UNSPEC", AnyType), "EAI_NONAME">>,
      <<ask("none.org", NoText, "AF_UNSPEC", AnyType), "EAI_NONAME">>,
      <<ask(NoText, "no-such", "AF_UNSPEC", AnyType), "EAI_NONAME">>,
      <<ask("localhost", "tftp", "AF_UNSPEC", "SOCK_STREAM"), "EAI_SERVICE">>,
      <<ask("localhost", NoText, "AF_INET", "SOCK_SEQPACKET"), "EAI_SOCKTYPE">>,
      <<ask("localhost", "telnet", "AF_UNSPEC", "SOCK_DGRAM"), "EAI_SERVICE">>}

-----------------------------------------------------------------------------
(* Properties of a list l that libgai's getaddrinfo has returned.          *)

\* getservbyport finds the port a request gets for a socket type under names
\* that have it for this socket type.  It is asked for UDP or, for any other
\* socket type, for any protocol, so that a TCP port may get the name of a
\* service that has the port for UDP only.
NamesFit(r) ==
  \A st \in SocketTypes \cup {"SOCK_RAW"} :
    r.socktype = st \/ (r.socktype = AnyType /\ st \in SocketTypes) =>
      LET port == PortFor(r.serv, st)
      IN  \A s \in ServicesAt(port, IF st = "SOCK_DGRAM" THEN {st} ELSE SocketTypes) :
            PortFor(s, st) = port

\* A socket address whose names are looked up again is found again, with its
\* socket type and port, whether names or numbers are asked for.
NamedBack(l) ==
  \A i \in DOMAIN l :
    LET e == l[i]
        again(n) ==
          [host |-> n.host, serv |-> n.serv,
           family |-> IF e.family \in Internet THEN e.family ELSE "AF_UNSPEC",
           socktype |-> e.socktype, passive |-> FALSE, canon |-> FALSE, badflags |-> FALSE]
    IN \A n \in do_onetest(l)[i].names
               \cup getnameinfo(e, {"NI_NUMERICHOST", "NI_NUMERICSERV"}) :
         \E a \in getaddrinfo(again(n)) : \E j \in DOMAIN a.list :
           /\ e.socktype \in {AnyType, a.list[j].socktype}
           /\ sock_cmp_addr(a.list[j], e) = 0 /\ a.list[j].port = e.port

\* Texts and comparisons agree: two entries have the same text exactly if
\* both comparisons say so, and the same host text if the first does.
TextTells(l) ==
  \A i, j \in DOMAIN l :
    /\ (sock_ntop_host(l[i]) = sock_ntop_host(l[j])) <=> (sock_cmp_addr(l[i], l[j]) = 0)
    /\ l[i].family \in Internet =>
         (sock_ntop(l[i]) = sock_ntop(l[j])) <=>
           (sock_cmp_addr(l[i], l[j]) = 0 /\ sock_cmp_port(l[i], l[j]) = 1)

\* What the older getnameinfo gives, the newer one gives, too.
SameNames(l) == \A i \in DOMAIN l : old_getnameinfo(l[i]) \subseteq getnameinfo(l[i], {})

\* The tests of testga pass.
ErrorsAsTested ==
  \A t \in do_errtest : \A a \in getaddrinfo(t[1]) : a.status = t[2]
=============================================================================
