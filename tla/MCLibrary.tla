----------------------------- MODULE MCLibrary -----------------------------
(***************************************************************************)
(* Instances for TLC, side by side: programs that resolve and connect      *)
(* (Sockets), addresses and texts (Addresses), sessions (Session).         *)
(***************************************************************************)
EXTENDS Sockets, Names, Addresses, Session

CONSTANTS Groups, Parts

VARIABLES
  of,            \* "calls", "address", "text" or "session"
  address, text  \* an IPv6 address, an IPv4 text

MCDns ==
  [n \in {"localhost", "both.org", "four.org", "none.org"} |->
     [f \in Internet |->
        CASE n = "localhost" -> IF f = "AF_INET" THEN <<"127.0.0.1">> ELSE <<"0::1">>
          [] n = "both.org"  -> IF f = "AF_INET" THEN <<"192.0.2.1", "192.0.2.2">>
                                ELSE <<"db8::1", "db8::2">>
          [] n = "four.org" /\ f = "AF_INET" -> <<"192.0.2.4">>
          [] OTHER -> << >>]]
MCServices ==
  [s \in {"daytime", "telnet", "tftp"} |->
     [t \in SocketTypes |->
        CASE s = "daytime" -> IF t = "SOCK_STREAM" THEN 13 ELSE 14
          [] s = "telnet"  -> IF t = "SOCK_STREAM" THEN 23 ELSE 0
          [] OTHER         -> IF t = "SOCK_STREAM" THEN 0 ELSE 69]]
MCNumbers ==
  [s \in {"0", "7", "13", "14", "23", "69"} |->
     CASE s = "0" -> 0 [] s = "7" -> 7 [] s = "13" -> 13 [] s = "14" -> 14
       [] s = "23" -> 23 [] OTHER -> 69]

MCParts == {Empty, 0, 9, 255, 256}

Req(h, s, f, t) ==
  [host |-> h, serv |-> s, family |-> f, socktype |-> t,
   passive |-> FALSE, canon |-> FALSE, badflags |-> FALSE]
Hosts == {NoText, "192.0.2.9", "db8::9", "both.org", "four.org", "none.org", "/local"}
Servs == {NoText, "7", "daytime", "tftp", "no-such", "/tmp/s", "/tmp/long"}
MCRequests ==
  {[Req(h, s, f, t) EXCEPT !.passive = p] :
     h \in Hosts, s \in Servs, f \in {"AF_UNSPEC", "AF_INET", "AF_INET6", "AF_LOCAL"},
     t \in {AnyType, "SOCK_STREAM", "SOCK_RAW"}, p \in BOOLEAN}
    \ {r \in [host : Hosts \ {NoText}, serv : Servs, passive : {TRUE},
              canon : {FALSE}, badflags : {FALSE}, socktype : {AnyType, "SOCK_STREAM", "SOCK_RAW"},
              family : {"AF_UNSPEC", "AF_INET", "AF_INET6", "AF_LOCAL"}] :
         r.host # "/local"}
MCCalls ==
  {[fn |-> "getaddrinfo", req |-> r] : r \in MCRequests}
    \cup {[fn |-> "getaddrinfo",
           req |-> Req("both.org", "0", "AF_UNSPEC", t)] : t \in {AnyType, "SOCK_DGRAM"}}
    \cup {[fn |-> "getaddrinfo",
           req |-> [Req("both.org", "7", "AF_X25", AnyType) EXCEPT !.badflags = b]] : b \in BOOLEAN}
    \cup {[fn |-> f, req |-> Req(h, s, "AF_UNSPEC", AnyType)] :
            f \in Openers \cup {"host_serv"},
            h \in {NoText, "both.org", "none.org"}, s \in {"daytime", "tftp"}}
    \cup {[fn |-> f] : f \in {"connect_nonb", "connect_timeo"}}

\* Requests are for socket types that exist, and for ports with fitting names.
ASSUME MCAssumption ==
  /\ \A n \in Groups : n \in Nat /\ n <= 65535
  /\ \A c \in Calls : c.fn = "getaddrinfo" =>
       c.req.socktype \in SocketTypes \cup {AnyType, "SOCK_RAW"} /\ NamesFit(c.req)

sessions == <<state, drawn>>
others == <<of, address, text>>
MCSeeds == 0 .. Modulus - 1
NoGroups == [i \in 1 .. 8 |-> 0]

MCInit ==
  /\ Init
  /\ SessionInit
  /\ \/ of \in {"calls", "session"} /\ address = NoGroups /\ text = << >>
     \/ of = "address" /\ address \in [1 .. 8 -> Groups] /\ text = << >>
     \/ of = "text" /\ address = NoGroups
        /\ text \in UNION {[1 .. n -> Parts] : n \in 1 .. 5}
MCNext ==
  \/ of = "calls" /\ Next /\ UNCHANGED <<sessions, others>>
  \/ of = "session" /\ getSessin /\ UNCHANGED <<vars, others>>
MCSpec == MCInit /\ [][MCNext]_<<vars, sessions, others>>

\* The text made of an address is read back as that address, and the two
\* readings of IPv4 texts agree; what libgai lists is found again by its
\* names, and told apart by its texts.
TextsKept ==
  /\ ReadBack(address) /\ SameQuad(text)
  /\ of = "calls" /\ call.fn = "getaddrinfo" /\ lib = "libgai" =>
       NamedBack(answer.list) /\ TextTells(answer.list) /\ SameNames(answer.list)
  /\ of = "calls" /\ call = NoCall => ErrorsAsTested
=============================================================================
