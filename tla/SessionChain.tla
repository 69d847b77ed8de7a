---------------------------- MODULE SessionChain ----------------------------
(***************************************************************************)
(* What refresh-token rotation promises to the holder of a session, with   *)
(* no rows, hashes or tasks in sight.  A family is one login on one        *)
(* device.  At any time at most one token of it is usable; using it passes *)
(* the session on to a token never seen before; and a family that has been *)
(* ended has no usable token ever again.                                   *)
(***************************************************************************)
CONSTANTS Family, Token

VARIABLES
  usable,   \* usable[f]: the tokens of f that a refresh would accept
  issued,   \* every token that was ever usable
  opened,   \* the families that a login has opened
  ended     \* the families that a logout or a detected reuse has ended

vars == <<usable, issued, opened, ended>>

Init ==
  /\ usable = [f \in Family |-> {}]
  /\ issued = {}
  /\ opened = {}
  /\ ended = {}

Open(f, i) ==
  /\ f \notin opened
  /\ i \notin issued
  /\ usable' = [usable EXCEPT ![f] = {i}]
  /\ issued' = issued \cup {i}
  /\ opened' = opened \cup {f}
  /\ UNCHANGED ended

Advance(f, i, j) ==
  /\ usable[f] = {i}
  /\ j \notin issued
  /\ usable' = [usable EXCEPT ![f] = {j}]
  /\ issued' = issued \cup {j}
  /\ UNCHANGED <<opened, ended>>

End(F) ==
  /\ F \subseteq opened
  /\ usable' = [f \in Family |-> IF f \in F THEN {} ELSE usable[f]]
  /\ ended' = ended \cup F
  /\ UNCHANGED <<issued, opened>>

Next ==
  \/ \E f \in Family, i \in Token : Open(f, i)
  \/ \E f \in Family, i, j \in Token : Advance(f, i, j)
  \/ \E F \in SUBSET Family : End(F)

Spec == Init /\ [][Next]_vars
=============================================================================
