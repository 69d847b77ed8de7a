-------------------------- MODULE MCRefreshSessions --------------------------
(* Model values and bounds for checking RefreshSessions. *)
EXTENDS RefreshSessions, TLC

Instants == 0 .. 1

Symmetry == Permutations(Id) \cup Permutations(Hash) \cup
            Permutations(Family) \cup Permutations(Task)
=============================================================================
