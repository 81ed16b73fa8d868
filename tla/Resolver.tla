------------------------------ MODULE Resolver ------------------------------
(***************************************************************************)
(* The two getaddrinfo of the vendored library: libgai's and the older one *)
(* of libfree, as operators from a request to the answers it may get.      *)
(* Texts are values; a literal address stands for the address it denotes.  *)
(* Memory never runs out.                                                  *)
(***************************************************************************)
EXTENDS Naturals, Sequences, SequencesExt

CONSTANTS
  NoText,                 \* NULL or ""
  Literal4, Literal6,     \* texts that inet_pton takes
  Paths, LongPaths,       \* texts that begin with '/'
  Dns,                    \* name -> family -> addresses, << >> if unknown
  Services,               \* service name -> socket type -> port, 0 if none
  Numbers                 \* text of digits -> port

Internet == {"AF_INET", "AF_INET6"}
SocketTypes == {"SOCK_STREAM", "SOCK_DGRAM"}
AnyType == "0"                \* ai_socktype not specified
LookupErrors == {"EAI_NONAME", "EAI_AGAIN", "EAI_FAIL", "EAI_NODATA"}
Ok == "0"

ASSUME ResolverAssumption ==
  /\ "0.0.0.0" \in Literal4 /\ {"0::0", "0::1"} \subseteq Literal6
  /\ Literal4 \cap Literal6 = {}
  /\ "localhost" \in DOMAIN Dns
  /\ {NoText, "localhost"} \cap (Literal4 \cup Literal6) = {}
  /\ \A n \in DOMAIN Dns, f \in Internet : Dns[n][f] \in Seq(ToSet(Dns[n][f]))
  /\ LongPaths \subseteq Paths
  /\ \A s \in DOMAIN Services : DOMAIN Services[s] = SocketTypes

\* An answer of the DNS has no address twice.
ASSUME DnsAssumption ==
  \A n \in DOMAIN Dns, f \in Internet : IsInjective(Dns[n][f])

FamilyOf(h) ==
  CASE h \in Literal4 -> "AF_INET" [] h \in Literal6 -> "AF_INET6"
    [] OTHER -> "none"

\* gethostbyname and gethostbyname2.
LookUp(h, f) == IF h \in DOMAIN Dns THEN Dns[h][f] ELSE << >>

Fail(e) == [status |-> e, list |-> << >>, canon |-> FALSE]
Succeed(l, c) == [status |-> Ok, list |-> l, canon |-> c]

-----------------------------------------------------------------------------
(* Parts that the two have in common, line by line.                        *)

\* The check of family and socket type.
ga_echeck(r) ==
  CASE r.family \notin Internet \cup {"AF_UNSPEC", "AF_LOCAL"} -> "EAI_FAMILY"
    [] \/ /\ r.family \in Internet
          /\ r.socktype \notin SocketTypes \cup {AnyType, "SOCK_RAW"}
       \/ /\ r.family = "AF_LOCAL"
          /\ r.socktype \notin SocketTypes \cup {AnyType} -> "EAI_SOCKTYPE"
    [] OTHER -> Ok

\* A new entry; without a socket type it is to be cloned.  (For a passive
\* request with a path the code also unlinks the path: files are left out.)
ga_aistruct(socktype, addr, family) ==
  [family |-> family, addr |-> addr, socktype |-> socktype,
   clone |-> socktype = AnyType /\ family # "AF_LOCAL", port |-> 0]

\* An entry for each address found.
Entries(r, family, found) ==
  [j \in DOMAIN found |-> ga_aistruct(r.socktype, found[j], family)]

\* The socket type and the port are filled in.
Filled(e, st, port) ==
  [family |-> e.family, addr |-> e.addr, socktype |-> st, clone |-> e.clone, port |-> port]

\* Mutant of ga_clone: the new entry takes the place of the old one.
ga_clone_Replaces(e, st, port) == <<[Filled(e, st, port) EXCEPT !.clone = FALSE]>>
\* The copy goes behind the entry and gets the socket type and the port.
ga_clone(e, st, port) == <<e, [Filled(e, st, port) EXCEPT !.clone = FALSE]>>

ga_port(list, st, port) ==
  FlattenSeq([i \in DOMAIN list |->
    LET e == list[i] IN
      IF e.clone /\ e.socktype # AnyType THEN ga_clone(e, st, port)
      ELSE IF e.clone \/ e.socktype = st THEN <<Filled(e, st, port)>>
           ELSE <<e>>])

\* The port of a service for a socket type; 0 is not offered.
PortFor(serv, st) ==
  IF serv \in DOMAIN Numbers THEN Numbers[serv]
  ELSE IF serv \in DOMAIN Services /\ st \in SocketTypes THEN Services[serv][st]
  ELSE 0
\* A service has a port for a socket type; a number is one for each, be it 0.
Offers(serv, st) == serv \in DOMAIN Numbers \/ PortFor(serv, st) # 0
\* The socket types that get a port, TCP then UDP.
Tried(r) ==
  LET try(st) == IF Offers(r.serv, st) THEN <<st>> ELSE << >>
  IN  IF r.socktype = AnyType THEN try("SOCK_STREAM") \o try("SOCK_DGRAM")
      ELSE try(r.socktype)

\* One pass of ga_port after the other.
Passes(list, r, tried) ==
  FoldLeft(LAMBDA l, st : ga_port(l, st, PortFor(r.serv, st)), list, tried)

\* The ports are filled in, or there is no such service.
ga_serv(list, r, tried, canon) ==
  IF r.serv = NoText THEN Succeed(list, canon)
  ELSE IF tried = << >>
       THEN Fail(IF r.socktype = AnyType THEN "EAI_NONAME" ELSE "EAI_SERVICE")
       ELSE Succeed(Passes(list, r, tried), canon)

-----------------------------------------------------------------------------
(* libgai.                                                                 *)

\* What is searched, for which family: IPv6 first.
ga_nsearch(r) ==
  LET host(f) ==
        CASE r.host # NoText -> r.host
          [] r.host = NoText /\ r.passive -> IF f = "AF_INET" THEN "0.0.0.0" ELSE "0::0"
          [] OTHER -> IF f = "AF_INET" THEN "localhost" ELSE "0::1"
      families ==
        CASE r.family = "AF_UNSPEC" -> <<"AF_INET6", "AF_INET">>
          [] r.family \in Internet -> <<r.family>>
          [] OTHER -> << >>
  IN  [i \in DOMAIN families |->
         [family |-> families[i], host |-> host(families[i])]]

\* The addresses one search brings.
Search(s) ==
  CASE FamilyOf(s.host) = s.family -> <<s.host>>
    [] FamilyOf(s.host) \in Internet \ {s.family} -> << >>
    [] OTHER -> LookUp(s.host, s.family)

ga_unix(r) ==
  LET entry(st) == ga_aistruct(st, r.serv, "AF_LOCAL")
  IN  IF r.family \notin {"AF_UNSPEC", "AF_LOCAL"} THEN Fail("EAI_ADDRFAMILY")
      ELSE IF r.serv \in LongPaths THEN Fail("EAI_SERVICE")
      ELSE IF r.socktype = AnyType
           THEN Succeed(<<entry("SOCK_STREAM"), entry("SOCK_DGRAM")>>, r.canon)
      ELSE Succeed(<<entry(r.socktype)>>, r.canon)

getaddrinfo(r) ==
  LET searches == ga_nsearch(r)
      list == FlattenSeq([i \in DOMAIN searches |->
                            Entries(r, searches[i].family, Search(searches[i]))])
  IN  IF r.badflags THEN {Fail("EAI_BADFLAGS")}
      ELSE IF r.host = NoText /\ r.serv = NoText THEN {Fail("EAI_NONAME")}
      ELSE IF ga_echeck(r) # Ok THEN {Fail(ga_echeck(r))}
      ELSE IF r.host \in {"/local", "/unix"} /\ r.serv \in Paths THEN {ga_unix(r)}
      ELSE IF searches = << >> THEN {Fail("exit")}        \* err_quit
      ELSE IF FamilyOf(r.host) \in Internet /\ r.family \notin {"AF_UNSPEC", FamilyOf(r.host)}
           THEN {Fail("EAI_ADDRFAMILY")}
      ELSE IF list = << >>
           THEN {Fail(e) : e \in IF Len(searches) = 1 THEN LookupErrors ELSE {"EAI_NONAME"}}
      ELSE {ga_serv(list, r, Tried(r), r.canon /\ r.host # NoText)}

-----------------------------------------------------------------------------
(* libfree.  use_inet6 is the resolver's option RES_USE_INET6, which this  *)
(* getaddrinfo sets and never clears.                                      *)

\* "goto bad" before aihead has a value: freeaddrinfo of anything.
Undefined(e) == {Fail(e), Fail("crash")}

\* sun_path takes what fits of the path.  (A passive request unlinks the path
\* here, too: files are left out.)
addrinfo_local(path, r) ==
  IF r.socktype = AnyType THEN Fail("EAI_SOCKTYPE")
  ELSE Succeed(<<ga_aistruct(r.socktype,
                             IF path \in LongPaths THEN <<"cut", path>> ELSE path,
                             "AF_LOCAL")>>, FALSE)

\* The host that is looked up, and for which family.
old_host(r) ==
  IF r.host # NoText THEN r.host
  ELSE IF ~r.passive THEN "localhost"
  ELSE CASE r.family = "AF_INET" -> "0.0.0.0"
         [] r.family = "AF_INET6" -> "0::0"
         [] OTHER -> NoText
old_family(r) ==
  IF r.host # NoText /\ r.family = "AF_UNSPEC" /\ FamilyOf(r.host) \in Internet
  THEN FamilyOf(r.host) ELSE r.family

\* It asks the DNS.
old_asks(r) ==
  /\ ~r.badflags /\ ga_echeck(r) = Ok
  /\ r.serv \notin Paths
  /\ FamilyOf(old_host(r)) = "none" /\ old_host(r) \notin Paths \cup {NoText}
  /\ r.host # NoText \/ r.serv # NoText
\* The option after the request.
old_use_inet6(r, use_inet6) ==
  use_inet6 \/ (old_asks(r) /\ old_family(r) = "AF_INET6")

\* Numbers are taken for ports only if there is a socket type.
old_serv(r) ==
  IF r.serv \in DOMAIN Numbers /\ r.socktype = AnyType THEN << >> ELSE Tried(r)

old_getaddrinfo(r, use_inet6) ==
  LET host  == old_host(r)
      kind  == IF FamilyOf(host) \in Internet THEN FamilyOf(host)
               ELSE IF old_use_inet6(r, use_inet6) THEN "AF_INET6" ELSE "AF_INET"
      found == IF FamilyOf(host) \in Internet THEN <<host>> ELSE LookUp(host, kind)
      list  == Entries(r, kind, found)
  IN  IF r.badflags THEN Undefined("EAI_BADFLAGS")
      ELSE IF ga_echeck(r) # Ok THEN Undefined(ga_echeck(r))
      ELSE IF r.host = NoText /\ r.serv = NoText THEN Undefined("EAI_NONAME")
      ELSE IF /\ r.host = NoText /\ r.passive
              /\ r.family = "AF_UNSPEC" \/ (r.family = "AF_LOCAL" /\ r.serv \notin Paths)
           THEN Undefined("EAI_ADDRFAMILY")
      ELSE IF r.host \in Paths THEN {addrinfo_local(r.host, r)}
      ELSE IF r.serv \in Paths THEN {addrinfo_local(r.serv, r)}
      ELSE IF found = << >> THEN UNION {Undefined(e) : e \in LookupErrors}
      ELSE IF old_family(r) \notin {"AF_UNSPEC", kind} THEN Undefined("EAI_ADDRFAMILY")
      ELSE {ga_serv(list, r, old_serv(r), r.canon)}
=============================================================================
