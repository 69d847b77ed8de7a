---------------------------- MODULE MCEmailResends ----------------------------
(* Model values and bounds for checking EmailResends. *)
EXTENDS EmailResends, TLC

Spellings == {"dana@x"}

Unchanged == [e \in Spellings |-> e]

Instants == 0 .. 1

Symmetry == Permutations(Id) \cup Permutations(Hash) \cup
            Permutations(User) \cup Permutations(Task)
=============================================================================
