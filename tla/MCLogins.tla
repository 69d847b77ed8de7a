------------------------------- MODULE MCLogins -------------------------------
(* Model values and bounds for checking Logins. *)
EXTENDS Logins, TLC

Spellings == {"Dana@x", "dana@x", "eve@x"}

LowerCased == [e \in Spellings |-> IF e = "Dana@x" THEN "dana@x" ELSE e]

Validated == [e \in Spellings |-> e]

Symmetry == Permutations(User) \cup Permutations(Password) \cup
            Permutations(Task)
=============================================================================
