----------------------------- MODULE MCKeyboard -----------------------------
(***************************************************************************)
(* Keyboard for TLC: every line of at most two keys, and the empty line.   *)
(***************************************************************************)
EXTENDS Keyboard

MCKeys == Wasd \cup {"q", "e", "r"}

MCLines ==
  {<<"newline">>} \cup {<<k, "newline">> : k \in MCKeys}
    \cup {<<j, k, "newline">> : j, k \in MCKeys}
=============================================================================
