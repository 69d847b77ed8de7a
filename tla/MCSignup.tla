------------------------------- MODULE MCSignup -------------------------------
(* Model values and bounds for checking Signup. *)
EXTENDS Signup, TLC

Spellings == {"Dana@x", "dana@x", "eve@x", "pat@x",
              "not an address"}

LowerCased == [e \in Spellings |-> IF e = "Dana@x" THEN "dana@x" ELSE e]

Validated == [e \in Spellings |-> IF e = "not an address" THEN None ELSE e]
=============================================================================
