-------------------------- MODULE EmailVerifications --------------------------
(***************************************************************************)
(* The email-verification repository of the identity service: its two      *)
(* dicts in InMemoryIdentityStore, the writing methods of                  *)
(* InMemoryEmailVerificationRepository and the validator of                *)
(* EmailVerification.  One action is one method call, atomic on the event  *)
(* loop; the caller may pass any argument at any time.                     *)
(*                                                                         *)
(* The address is left out: create() only copies it (normalised) into the  *)
(* record, and no method reads it.  A malformed one shows as a             *)
(* ValidationError that create() may raise at any time.                    *)
(***************************************************************************)
EXTENDS Repository, FiniteSets

CONSTANTS
  Id,       \* verification UUIDs (uuid4: a new one is one not used before)
  Hash,     \* token hashes
  User,
  Time      \* instants: of the wall clock and of the callers' timestamps

ASSUME TimeAssumption == Time \subseteq Int
ASSUME NoneAssumption == None \notin Time

VARIABLES
  email_verifications_by_id,
  email_verification_id_by_token_hash,
  reply     \* what the last call returned or raised

store == <<email_verifications_by_id, email_verification_id_by_token_hash>>
vars == <<store, reply>>

Status == {"pending", "consumed", "revoked"}

Verification == [user_id: User, token_hash: Hash, status: Status,
                 created_at: Time, expires_at: Time,
                 consumed_at: Time \cup {None}, revoked_at: Time \cup {None}]

-----------------------------------------------------------------------------
(* Records and their validator *)

(* What the constructor EmailVerification(...) accepts. *)
ValidVerification(r) ==
  /\ r.expires_at > r.created_at
  /\ r.status = "pending" => r.consumed_at = None /\ r.revoked_at = None
  /\ r.status = "consumed" => r.consumed_at # None /\ r.revoked_at = None
  /\ r.status = "revoked" => r.revoked_at # None /\ r.consumed_at = None

NewVerification(u, h, created, exp) ==
  [user_id |-> u, token_hash |-> h, status |-> "pending",
   created_at |-> created, expires_at |-> exp,
   consumed_at |-> None, revoked_at |-> None]

Consumed(r, at) == [r EXCEPT !.status = "consumed", !.consumed_at = at]
Revoked(r, at) == [r EXCEPT !.status = "revoked", !.revoked_at = at]

-----------------------------------------------------------------------------
(* The methods *)

Create(i, u, h, created, exp) ==
  /\ h \notin DOMAIN email_verification_id_by_token_hash
  /\ i \in Id \ DOMAIN email_verifications_by_id
  /\ ValidVerification(NewVerification(u, h, created, exp))
  /\ email_verifications_by_id' =
       Put(email_verifications_by_id, i, NewVerification(u, h, created, exp))
  /\ email_verification_id_by_token_hash' =
       Put(email_verification_id_by_token_hash, h, i)
  /\ reply' = Returned(1)

(* The hash is looked at before the record is built; what refuses a new    *)
(* record is its address or an expires_at that is not after the clock.     *)
CreateRaises(h) ==
  /\ reply' = Raised(IF h \in DOMAIN email_verification_id_by_token_hash
                     THEN "DuplicateEntryError" ELSE "ValidationError")
  /\ UNCHANGED store

\* Mutant: only a consumed verification is refused.
MarkConsumedRevoked(i, at) ==
  /\ i \in DOMAIN email_verifications_by_id
  /\ email_verifications_by_id[i].status # "consumed"
  /\ email_verifications_by_id' =
       [email_verifications_by_id EXCEPT
          ![i] = [Consumed(@, at) EXCEPT !.revoked_at = None]]
  /\ reply' = Returned(1)
  /\ UNCHANGED email_verification_id_by_token_hash

MarkConsumed(i, at) ==
  /\ i \in DOMAIN email_verifications_by_id
  /\ email_verifications_by_id[i].status = "pending"
  /\ ValidVerification(Consumed(email_verifications_by_id[i], at))
  /\ email_verifications_by_id' =
       [email_verifications_by_id EXCEPT ![i] = Consumed(@, at)]
  /\ reply' = Returned(1)
  /\ UNCHANGED email_verification_id_by_token_hash

(* That the rebuilt record is never refused is RowsStayValid below.        *)
MarkConsumedRaises(i) ==
  /\ \/ /\ i \notin DOMAIN email_verifications_by_id
        /\ reply' = Raised("RecordNotFoundError")
     \/ /\ i \in DOMAIN email_verifications_by_id
        /\ email_verifications_by_id[i].status # "pending"
        /\ reply' = Raised("ConcurrentUpdateError")
  /\ UNCHANGED store

PendingOf(u) == {i \in DOMAIN email_verifications_by_id :
                   /\ email_verifications_by_id[i].user_id = u
                   /\ email_verifications_by_id[i].status = "pending"}

\* Mutant: the user is not compared.
RevokePendingForAnyone(u, at) ==
  LET scope == UNION {PendingOf(v) : v \in User}
  IN /\ email_verifications_by_id' =
          [i \in DOMAIN email_verifications_by_id |->
             IF i \in scope THEN Revoked(email_verifications_by_id[i], at)
                            ELSE email_verifications_by_id[i]]
     /\ reply' = Returned(Cardinality(scope))
     /\ UNCHANGED email_verification_id_by_token_hash

\* Mutant: the loop returns after the first row.
RevokePendingFirst(u, at) ==
  /\ \/ PendingOf(u) = {} /\ UNCHANGED email_verifications_by_id
     \/ \E i \in PendingOf(u) :
          email_verifications_by_id' =
            [email_verifications_by_id EXCEPT ![i] = Revoked(@, at)]
  /\ reply' = Returned(1)
  /\ UNCHANGED email_verification_id_by_token_hash

(* The loop of revoke_pending_for_user().  A row whose rebuilt record is   *)
(* refused would raise there and then; the rows before it stay revoked.    *)
RevokePendingForUser(u, at) ==
  LET scope == PendingOf(u)
      Rebuilds(i) ==
        ValidVerification(Revoked(email_verifications_by_id[i], at))
  IN \E done \in SUBSET scope :
       /\ \A i \in done : Rebuilds(i)
       /\ done # scope => \E i \in scope \ done : ~Rebuilds(i)
       /\ email_verifications_by_id' =
            [i \in DOMAIN email_verifications_by_id |->
               IF i \in done THEN Revoked(email_verifications_by_id[i], at)
                             ELSE email_verifications_by_id[i]]
       /\ reply' = IF done = scope THEN Returned(Cardinality(done))
                                   ELSE Raised("ValidationError")
       /\ UNCHANGED email_verification_id_by_token_hash

-----------------------------------------------------------------------------
Init ==
  /\ email_verifications_by_id = <<>>
  /\ email_verification_id_by_token_hash = <<>>
  /\ reply = Returned(0)

Next ==
  \/ \E i \in Id, u \in User, h \in Hash, created, exp \in Time :
       Create(i, u, h, created, exp)
  \/ \E h \in Hash : CreateRaises(h)
  \/ \E i \in Id, at \in Time : MarkConsumed(i, at)
  \/ \E i \in Id : MarkConsumedRaises(i)
  \/ \E u \in User, at \in Time : RevokePendingForUser(u, at)

Spec == Init /\ [][Next]_vars

-----------------------------------------------------------------------------
(* Properties *)

(* Both dicts hold what their annotations in store.py say. *)
TypeOK ==
  /\ DOMAIN email_verifications_by_id \subseteq Id
  /\ email_verifications_by_id \in
       [DOMAIN email_verifications_by_id -> Verification]
  /\ DOMAIN email_verification_id_by_token_hash \subseteq Hash
  /\ email_verification_id_by_token_hash \in
       [DOMAIN email_verification_id_by_token_hash -> Id]
  /\ reply \in Reply

(* The token index and the table hold the same pairs, both ways: "so they  *)
(* never drift out of sync with each other" (store.py).                    *)
TokenIndexAgrees ==
  /\ \A i \in DOMAIN email_verifications_by_id :
       LET h == email_verifications_by_id[i].token_hash IN
         /\ h \in DOMAIN email_verification_id_by_token_hash
         /\ email_verification_id_by_token_hash[h] = i
  /\ \A h \in DOMAIN email_verification_id_by_token_hash :
       LET i == email_verification_id_by_token_hash[h] IN
         /\ i \in DOMAIN email_verifications_by_id
         /\ email_verifications_by_id[i].token_hash = h

(* Every stored row satisfies the validator, and the validator lets every  *)
(* pending row be consumed or revoked: mark_consumed() never raises        *)
(* ValidationError, and revoke_pending_for_user() never stops half way.    *)
RowsStayValid ==
  \A i \in DOMAIN email_verifications_by_id, at \in Time :
    LET r == email_verifications_by_id[i] IN
      /\ ValidVerification(r)
      /\ r.status = "pending" => /\ ValidVerification(Consumed(r, at))
                                /\ ValidVerification(Revoked(r, at))

(* A resend for one user takes effect on that user's pending rows alone: a *)
(* step in which revoke_pending_for_user() returns revokes them all, leaves*)
(* consumed and already revoked rows and everybody else's rows as they     *)
(* were, and reports how many rows it revoked.                             *)
RevocationStep ==
  \A u \in User, at \in Time : RevokePendingForUser(u, at) =>
    LET changed == {i \in DOMAIN email_verifications_by_id :
                      email_verifications_by_id'[i]
                        # email_verifications_by_id[i]}
    IN /\ changed = PendingOf(u)
       /\ \A i \in changed : email_verifications_by_id'[i].status = "revoked"
       /\ reply' = Returned(Cardinality(changed))

RevocationIsExact == [][RevocationStep]_vars

HashesThatAre(status) ==
  {h \in DOMAIN email_verification_id_by_token_hash :
     email_verifications_by_id[email_verification_id_by_token_hash[h]].status
       = status}

(* The time at which the verification under hash h was consumed / revoked. *)
EndOf(h, field) ==
  email_verifications_by_id[email_verification_id_by_token_hash[h]][field]

Ledger == INSTANCE CredentialLedger WITH
            live <- HashesThatAre("pending"),
            redeemed <- {<<h, EndOf(h, "consumed_at")>> :
                           h \in HashesThatAre("consumed")},
            withdrawn <- {<<h, EndOf(h, "revoked_at")>> :
                            h \in HashesThatAre("revoked")}

(* Looked up by hash, as the verify endpoint does, a token is consumed at  *)
(* most once and never after a resend has revoked it.                      *)
ImplementsLedger == Ledger!Spec
=============================================================================
