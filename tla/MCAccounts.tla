------------------------------ MODULE MCAccounts ------------------------------
(* Model values and bounds for checking Accounts. *)
EXTENDS Accounts, TLC

Spellings == {"dana@x"}

Unchanged == [e \in Spellings |-> e]

Symmetry == Permutations(Password) \cup Permutations(Task) \cup
            Permutations(Tenant) \cup Permutations(MembershipId)
=============================================================================
