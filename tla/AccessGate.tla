------------------------------ MODULE AccessGate ------------------------------
(***************************************************************************)
(* Permission that can be withdrawn while it is being used.  Whoever is      *)
(* inside when the gate closes may finish; nobody enters a closed gate.      *)
(* Being disconnected, being deleted and being switched off are promises of  *)
(* this form.                                                                *)
(***************************************************************************)
CONSTANT Users

VARIABLES
  open,     \* whether the permission is given
  inside    \* the users that act on it

vars == <<open, inside>>

Init == open \in BOOLEAN /\ inside = {}

Enter(u) ==
  /\ open
  /\ inside' = inside \cup {u}
  /\ UNCHANGED open

\* The gate opens or closes, and users (all of them, in a crash) go.
Change(rest) ==
  /\ rest \subseteq inside
  /\ inside' = rest
  /\ open' \in BOOLEAN

Next == (\E u \in Users : Enter(u)) \/ (\E rest \in SUBSET inside : Change(rest))

Spec == Init /\ [][Next]_vars
=============================================================================
