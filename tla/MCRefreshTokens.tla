--------------------------- MODULE MCRefreshTokens ---------------------------
(* Model values and bounds for checking RefreshTokens. *)
EXTENDS RefreshTokens, TLC

Instants == 0 .. 1

Symmetry == Permutations(Id) \cup Permutations(Hash) \cup
            Permutations(Family) \cup Permutations(Tenant)
=============================================================================
