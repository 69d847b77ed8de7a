------------------------------ MODULE Repository ------------------------------
(***************************************************************************)
(* What the in-memory repositories of the identity service share: a        *)
(* Python dict is a function on the set of its keys, and a method either   *)
(* returns or raises.                                                      *)
(***************************************************************************)
EXTENDS Integers

CONSTANT None     \* Python's None

(* The errors of repositories/exceptions.py, and what the constructor of a *)
(* model raises when a validator refuses its arguments; the guards of the  *)
(* two update() methods raise the built-in NotImplementedError.            *)
Error == {"DuplicateEntryError", "RecordNotFoundError",
          "ConcurrentUpdateError", "ValidationError", "NotImplementedError"}

(* A method that wrote n rows has returned; one that raised e. *)
Returned(n) == [error |-> None, count |-> n]
Raised(e) == [error |-> e, count |-> 0]

Reply == [error: Error \cup {None}, count: Nat]

(* d[k] = v on a dict. *)
Put(d, k, v) == [x \in DOMAIN d \cup {k} |-> IF x = k THEN v ELSE d[x]]
=============================================================================
