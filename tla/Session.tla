------------------------------ MODULE Session ------------------------------
(***************************************************************************)
(* The generator of session numbers (getSessin): a linear congruence on an *)
(* int that is seeded from rand() as long as it is 0.  The int wraps; it   *)
(* is represented by its value modulo Modulus, 2^32 in the code.           *)
(***************************************************************************)
EXTENDS Integers

CONSTANTS
  Width,   \* bits of the int, 32 in the code
  Seeds    \* what rand() may give, of 0 .. Modulus - 1

VARIABLES
  state,   \* the static variable of getSessin
  drawn    \* the sessions given out since it was last seeded

\* 2^n, up to the width of the int.
pow2[n \in 0 .. Width] == IF n = 0 THEN 1 ELSE 2 * pow2[n - 1]
Modulus == pow2[Width]

SessionInit == state = 0 /\ drawn = {}

\* Mutant of Drawn: the increment is even, too.
Drawn_EvenStep(s) == (s * 20240101 + 54320) % Modulus
Drawn(s) == (s * 20240101 + 54321) % Modulus

\* It may return 0, which marks a free slot, and is seeded again then.
getSessin ==
  \/ /\ state = 0
     /\ \E seed \in Seeds : state' = Drawn(seed)
     /\ drawn' = {state'}
  \/ /\ state # 0
     /\ state' = Drawn(state)
     /\ drawn' = drawn \cup {state'}

SessionSpec == SessionInit /\ [][getSessin]_<<state, drawn>>

\* Between two seedings no session is given out twice: a ticket of a slot that
\* was given up does not fit the next player of that slot (verifySession).
NoSessionTwice ==
  [][state # 0 => state' \notin drawn]_<<state, drawn>>
=============================================================================
