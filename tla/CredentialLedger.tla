--------------------------- MODULE CredentialLedger ---------------------------
(***************************************************************************)
(* What a one-time emailed credential promises, told by its token hash     *)
(* alone: a hash is issued once, is redeemed at most once, and a hash that *)
(* was redeemed or withdrawn is dead for ever.  The time of each end is    *)
(* kept, so that a second redemption would show.                           *)
(***************************************************************************)
CONSTANTS Hash, Time

VARIABLES
  live,        \* the hashes that can be redeemed
  redeemed,    \* pairs of a hash and the time it was redeemed
  withdrawn    \* pairs of a hash and the time it was withdrawn

vars == <<live, redeemed, withdrawn>>

Dead == {p[1] : p \in redeemed \cup withdrawn}

Init == live = {} /\ redeemed = {} /\ withdrawn = {}

Issue(h) ==
  /\ h \notin live \cup Dead
  /\ live' = live \cup {h}
  /\ UNCHANGED <<redeemed, withdrawn>>

Redeem(h, at) ==
  /\ h \in live
  /\ live' = live \ {h}
  /\ redeemed' = redeemed \cup {<<h, at>>}
  /\ UNCHANGED withdrawn

Withdraw(H, at) ==
  /\ H \subseteq live
  /\ live' = live \ H
  /\ withdrawn' = withdrawn \cup H \X {at}
  /\ UNCHANGED redeemed

Next ==
  \/ \E h \in Hash : Issue(h)
  \/ \E h \in Hash, at \in Time : Redeem(h, at)
  \/ \E H \in SUBSET Hash, at \in Time : Withdraw(H, at)

Spec == Init /\ [][Next]_vars
=============================================================================
