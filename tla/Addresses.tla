----------------------------- MODULE Addresses -----------------------------
(***************************************************************************)
(* Addresses and their texts (libfree: inet_ntop, inet_pton, inet_aton).   *)
(* An IPv4 text is the sequence of its parts between dots, Empty or a      *)
(* number; an IPv6 text a sequence of <<"hex", n>>, <<":">> and <<"quad",  *)
(* IPv4 text>>.  An address is its 4 bytes, or its 8 groups of 16 bits.    *)
(***************************************************************************)
EXTENDS Integers, Sequences, SequencesExt

Empty == -1

\* inet_pton4: << >> if the text is refused.
inet_pton4(t) ==
  IF Len(t) = 4 /\ \A i \in DOMAIN t : t[i] # Empty /\ t[i] <= 255 THEN t ELSE << >>
inet_ntop4(a) == a

\* inet_aton: a missing part is 0, and so are the bytes behind a short text.
inet_aton(t) ==
  IF Len(t) \in 1 .. 4 /\ \A i \in DOMAIN t : t[i] <= 255
  THEN [i \in 1 .. 4 |-> IF i \in DOMAIN t /\ t[i] # Empty THEN t[i] ELSE 0]
  ELSE << >>
\* The IPv4-only versions.
inet_pton_ipv4(t) == inet_aton(t)
inet_ntop_ipv4(a) == a

-----------------------------------------------------------------------------
(* inet_ntop6.                                                             *)

Colon == <<":">>
Hex(n) == <<"hex", n>>
Bytes(g) == <<g[7] \div 256, g[7] % 256, g[8] \div 256, g[8] % 256>>

Zero(g, b, n) == b + n <= 9 /\ \A i \in b .. b + n - 1 : g[i] = 0
\* The first of the longest runs of zeros: where it begins and how long it
\* is; a single zero is none.
NoRun == [base |-> 9, len |-> 0]
Best(g) ==
  LET runs == [i \in 1 .. 8 |-> [base |-> i, len |->
                 CHOOSE n \in 0 .. 9 - i : Zero(g, i, n) /\ ~Zero(g, i, n + 1)]]
      best == FoldLeft(LAMBDA b, c : IF c.len > b.len THEN c ELSE b, NoRun, runs)
  IN  IF best.len < 2 THEN NoRun ELSE best

inet_ntop6(g) ==
  LET best   == Best(g)
      after  == best.base + best.len
      mapped == best.base = 1 /\ (best.len = 6 \/ (best.len = 5 /\ g[6] = 65535))
      word(i) ==
        CASE i \in best.base .. after - 1 -> IF i = best.base THEN <<Colon>> ELSE << >>
          [] mapped /\ i = 7 -> <<Colon, <<"quad", inet_ntop4(Bytes(g))>>>>
          [] mapped /\ i = 8 -> << >>
          [] OTHER -> IF i = 1 THEN <<Hex(g[i])>> ELSE <<Colon, Hex(g[i])>>
  IN  FlattenSeq([i \in 1 .. 8 |-> word(i)])
        \o IF best.len # 0 /\ after = 9 THEN <<Colon>> ELSE << >>

-----------------------------------------------------------------------------
(* inet_pton6.  Groups read, where "::" was (-1: not), the number at hand, *)
(* Finished behind an IPv4 text, which the whole text must end with.       *)

Finished == -2
Start6 == [ok |-> TRUE, groups |-> << >>, colon |-> -1, val |-> Empty]
Refuse(s) == [s EXCEPT !.ok = FALSE]

\* The number at hand becomes a group, if there is room.
Store(s) ==
  IF Len(s.groups) = 8 THEN Refuse(s)
  ELSE [s EXCEPT !.groups = Append(@, s.val), !.val = Empty]

Token(s, t) ==
  CASE ~s.ok -> s
    [] s.ok /\ s.val = Finished -> Refuse(s)
    [] s.ok /\ t[1] = "hex" ->
         IF s.val # Empty \/ t[2] > 65535 THEN Refuse(s) ELSE [s EXCEPT !.val = t[2]]
    [] s.ok /\ t[1] = ":" /\ s.val = Empty ->
         IF s.colon # -1 THEN Refuse(s) ELSE [s EXCEPT !.colon = Len(s.groups)]
    [] s.ok /\ t[1] = ":" /\ s.val \notin {Empty, Finished} -> Store(s)
    [] OTHER ->
         LET q == inet_pton4(t[2]) IN
           IF q = << >> \/ Len(s.groups) > 6 \/ s.val # Empty THEN Refuse(s)
           ELSE [s EXCEPT !.groups = @ \o <<256 * q[1] + q[2], 256 * q[3] + q[4]>>,
                          !.val = Finished]

\* Mutant of Shifted: the moved groups stay where they were, too.
Shifted_Copies(g, colon) ==
  LET n == Len(g) - colon IN
    [i \in 1 .. 8 |-> IF i > 8 - n THEN g[i - 8 + Len(g)]
                      ELSE IF i <= Len(g) THEN g[i] ELSE 0]
\* The groups behind "::" are moved to the end, one after another from the
\* last on, and the place each came from is cleared: in a full text each is
\* moved onto itself and lost, where the comment says that "::" is ignored.
Shifted(g, colon) ==
  LET n == Len(g) - colon IN
    [i \in 1 .. 8 |-> IF i > 8 - n /\ ~(i > colon /\ i <= Len(g) /\ Len(g) = 8)
                         THEN g[i - 8 + Len(g)]
                      ELSE IF i <= colon THEN g[i] ELSE 0]

\* << >> if the text is refused.
inet_pton6(t) ==
  LET text == IF t # << >> /\ t[1] = Colon THEN Tail(t) ELSE t
      lone == t # << >> /\ t[1] = Colon /\ (Len(t) = 1 \/ t[2] # Colon)
      read == FoldLeft(Token, Start6, text)
      s    == IF read.ok /\ read.val \notin {Empty, Finished} THEN Store(read) ELSE read
  IN  IF lone \/ ~s.ok THEN << >>
      ELSE IF s.colon # -1 THEN Shifted(s.groups, s.colon)
      ELSE IF Len(s.groups) = 8 THEN s.groups ELSE << >>

-----------------------------------------------------------------------------
(* Properties of an address g and an IPv4 text t.                          *)

\* The text inet_ntop makes of an address is read back as that address.
ReadBack(g) == inet_pton6(inet_ntop6(g)) = g

\* A text that inet_pton takes means the same to the IPv4-only inet_pton, and
\* the text that one's inet_ntop makes is read back by both.
SameQuad(t) ==
  inet_pton4(t) # << >> =>
    /\ inet_pton_ipv4(t) = inet_pton4(t)
    /\ inet_pton4(inet_ntop_ipv4(inet_pton_ipv4(t))) = inet_pton4(t)
=============================================================================
