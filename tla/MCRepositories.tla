---------------------------- MODULE MCRepositories ----------------------------
(* Model values, address forms and bounds for checking Repositories. *)
EXTENDS Repositories, TLC

Instants == 0 .. 2

Spellings == {"Dana@x", "dana@x", "d <dana@x>", "eve@x", "not an address"}

LowerCased == [e \in Spellings |-> IF e = "Dana@x" THEN "dana@x" ELSE e]

Validated == [e \in Spellings |->
                CASE e = "d <dana@x>" -> "dana@x"
                  [] e = "not an address" -> None
                  [] OTHER -> e]

Symmetry == Permutations(Id) \cup Permutations(Hash) \cup
            Permutations(User) \cup Permutations(Tenant) \cup
            Permutations(Password)
=============================================================================
