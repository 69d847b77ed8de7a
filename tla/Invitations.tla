----------------------------- MODULE Invitations -----------------------------
(***************************************************************************)
(* The invitation repository of the identity service: its two dicts in     *)
(* InMemoryIdentityStore, the writing methods of                           *)
(* InMemoryInvitationRepository and the validators of Invitation.  One     *)
(* action is one method call, atomic on the event loop; the caller may     *)
(* pass any argument at any time.                                          *)
(*                                                                         *)
(* The address and the inviter are copied into the record and never read,  *)
(* and are left out; a malformed address shows as a ValidationError that   *)
(* create() may raise at any time.                                         *)
(***************************************************************************)
EXTENDS Repository

CONSTANTS
  Id,         \* invitation UUIDs (uuid4: a new one is one not used before)
  Hash,       \* token hashes
  Tenant,
  Role,
  Time        \* instants: of the wall clock and of the callers' timestamps

ASSUME TimeAssumption == Time \subseteq Int
ASSUME NoneAssumption == None \notin Time

VARIABLES
  invitations_by_id,
  invitation_id_by_token_hash,
  reply     \* what the last call returned or raised

store == <<invitations_by_id, invitation_id_by_token_hash>>
vars == <<store, reply>>

Status == {"pending", "accepted", "expired"}

Invitation == [tenant_id: Tenant, role: Role, token_hash: Hash,
               status: Status, created_at: Time, expires_at: Time,
               accepted_at: Time \cup {None}]

-----------------------------------------------------------------------------
(* Records and their validators *)

(* What the constructor Invitation(...) accepts. *)
ValidInvitation(r) ==
  /\ r.expires_at > r.created_at
  /\ r.status = "accepted" => r.accepted_at # None

NewInvitation(n, role, h, created, exp) ==
  [tenant_id |-> n, role |-> role, token_hash |-> h, status |-> "pending",
   created_at |-> created, expires_at |-> exp, accepted_at |-> None]

\* Mutant: the time of acceptance overwrites the expiry.
AcceptedMisdated(r, at) ==
  [r EXCEPT !.status = "accepted", !.accepted_at = at, !.expires_at = at]

Accepted(r, at) == [r EXCEPT !.status = "accepted", !.accepted_at = at]

-----------------------------------------------------------------------------
(* The methods *)

\* Mutant: the taken hash is not refused.
CreateTakesOver(i, n, role, h, created, exp) ==
  /\ i \in Id \ DOMAIN invitations_by_id
  /\ ValidInvitation(NewInvitation(n, role, h, created, exp))
  /\ invitations_by_id' =
       Put(invitations_by_id, i, NewInvitation(n, role, h, created, exp))
  /\ invitation_id_by_token_hash' = Put(invitation_id_by_token_hash, h, i)
  /\ reply' = Returned(1)

Create(i, n, role, h, created, exp) ==
  /\ h \notin DOMAIN invitation_id_by_token_hash
  /\ i \in Id \ DOMAIN invitations_by_id
  /\ ValidInvitation(NewInvitation(n, role, h, created, exp))
  /\ invitations_by_id' =
       Put(invitations_by_id, i, NewInvitation(n, role, h, created, exp))
  /\ invitation_id_by_token_hash' = Put(invitation_id_by_token_hash, h, i)
  /\ reply' = Returned(1)

(* The hash is looked at before the record is built; what refuses a new    *)
(* record is its address or an expires_at that is not after the clock.     *)
CreateRaises(h) ==
  /\ reply' = Raised(IF h \in DOMAIN invitation_id_by_token_hash
                     THEN "DuplicateEntryError" ELSE "ValidationError")
  /\ UNCHANGED store

\* Mutant: the status is not looked at.
MarkAcceptedAgain(i, at) ==
  /\ i \in DOMAIN invitations_by_id
  /\ invitations_by_id[i].expires_at > at
  /\ invitations_by_id' = [invitations_by_id EXCEPT ![i] = Accepted(@, at)]
  /\ reply' = Returned(1)
  /\ UNCHANGED invitation_id_by_token_hash

\* Mutant: the expiry is not looked at.
MarkAcceptedLate(i, at) ==
  /\ i \in DOMAIN invitations_by_id
  /\ invitations_by_id[i].status = "pending"
  /\ invitations_by_id' = [invitations_by_id EXCEPT ![i] = Accepted(@, at)]
  /\ reply' = Returned(1)
  /\ UNCHANGED invitation_id_by_token_hash

MarkAccepted(i, at) ==
  /\ i \in DOMAIN invitations_by_id
  /\ invitations_by_id[i].status = "pending"
  /\ invitations_by_id[i].expires_at > at
  /\ ValidInvitation(Accepted(invitations_by_id[i], at))
  /\ invitations_by_id' = [invitations_by_id EXCEPT ![i] = Accepted(@, at)]
  /\ reply' = Returned(1)
  /\ UNCHANGED invitation_id_by_token_hash

(* That the rebuilt record is never refused is RowsStayValid below. *)
MarkAcceptedRaises(i, at) ==
  /\ \/ /\ i \notin DOMAIN invitations_by_id
        /\ reply' = Raised("RecordNotFoundError")
     \/ /\ i \in DOMAIN invitations_by_id
        /\ \/ invitations_by_id[i].status # "pending"
           \/ invitations_by_id[i].expires_at <= at
        /\ reply' = Raised("ConcurrentUpdateError")
  /\ UNCHANGED store

-----------------------------------------------------------------------------
Init ==
  /\ invitations_by_id = <<>>
  /\ invitation_id_by_token_hash = <<>>
  /\ reply = Returned(0)

Next ==
  \/ \E i \in Id, n \in Tenant, role \in Role, h \in Hash,
        created, exp \in Time : Create(i, n, role, h, created, exp)
  \/ \E h \in Hash : CreateRaises(h)
  \/ \E i \in Id, at \in Time : MarkAccepted(i, at) \/ MarkAcceptedRaises(i, at)

Spec == Init /\ [][Next]_vars

-----------------------------------------------------------------------------
(* Properties *)

(* Both dicts hold what their annotations in store.py say. *)
TypeOK ==
  /\ DOMAIN invitations_by_id \subseteq Id
  /\ invitations_by_id \in [DOMAIN invitations_by_id -> Invitation]
  /\ DOMAIN invitation_id_by_token_hash \subseteq Hash
  /\ invitation_id_by_token_hash \in [DOMAIN invitation_id_by_token_hash -> Id]
  /\ reply \in Reply

(* The token index and the table hold the same pairs, both ways: "so they  *)
(* never drift out of sync with each other" (store.py).                    *)
TokenIndexAgrees ==
  /\ \A i \in DOMAIN invitations_by_id :
       LET h == invitations_by_id[i].token_hash IN
         /\ h \in DOMAIN invitation_id_by_token_hash
         /\ invitation_id_by_token_hash[h] = i
  /\ \A h \in DOMAIN invitation_id_by_token_hash :
       /\ invitation_id_by_token_hash[h] \in DOMAIN invitations_by_id
       /\ invitations_by_id[invitation_id_by_token_hash[h]].token_hash = h

(* Every stored row satisfies the validators, and they let every pending   *)
(* row be accepted: mark_accepted() never raises ValidationError.          *)
RowsStayValid ==
  \A i \in DOMAIN invitations_by_id, at \in Time :
    LET r == invitations_by_id[i] IN
      /\ ValidInvitation(r)
      /\ r.status = "pending" => ValidInvitation(Accepted(r, at))

(* An accepted invitation was accepted inside its validity, at the time    *)
(* its caller gave, and a pending or expired one carries no acceptance.    *)
AcceptedInTime ==
  \A i \in DOMAIN invitations_by_id :
    LET r == invitations_by_id[i] IN
      /\ (r.status = "accepted") <=> (r.accepted_at # None)
      /\ r.accepted_at # None => r.accepted_at < r.expires_at

HashesThatAre(status) ==
  {h \in DOMAIN invitation_id_by_token_hash :
     invitations_by_id[invitation_id_by_token_hash[h]].status = status}

Ledger == INSTANCE CredentialLedger WITH
            live <- HashesThatAre("pending"),
            redeemed <-
              {<<h, invitations_by_id[invitation_id_by_token_hash[h]]
                      .accepted_at>> : h \in HashesThatAre("accepted")},
            withdrawn <- {}

(* Looked up by hash, as the accept endpoint does, an invitation is        *)
(* accepted at most once: "this prevents two concurrent acceptance         *)
(* requests from both succeeding" (invitation_repository.py).              *)
ImplementsLedger == Ledger!Spec
=============================================================================
