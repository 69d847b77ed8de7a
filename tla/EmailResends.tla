----------------------------- MODULE EmailResends -----------------------------
(***************************************************************************)
(* Concurrent signups, resends, verifications and password changes:        *)
(* EmailVerifications and Users together.  The endpoints are still empty   *)
(* files; what they do is fixed by the Protocols' docstrings:              *)
(*   - signup creates a user and then its first verification; a resend     *)
(*     may come in between, for the user can already log in;               *)
(*   - a resend awaits revoke_pending_for_user() and then create();        *)
(*   - verify awaits get_by_token_hash(), goes on with a pending record,   *)
(*     marks its user verified, and then awaits mark_consumed(), "after    *)
(*     the corresponding User has been marked email_verified=True";        *)
(*   - marking a user verified, like rotating a password_hash, awaits      *)
(*     get_by_id() and then update() with "the full updated model".        *)
(* Between two awaited calls any other request may run, and the request    *)
(* itself may be cancelled.  The permissions_version that a verification   *)
(* counts is in Accounts.                                                  *)
(***************************************************************************)
EXTENDS EmailVerifications

CONSTANTS
  Spelling, Password, NormalForm, EmailStr,
  Task

ASSUME TaskAssumption == None \notin Id \cup User

VARIABLES
  pc,          \* what each task calls next
  picked,      \* the user it issues for or updates, or the verification
               \* it consumes
  user_copy,   \* its copy of the user
  users_by_id, user_id_by_email, signed_up,
  newest,      \* history: the last verification issued to each user
  overlapped   \* history: the users whose last revocation ran while another
               \* request was about to issue them a verification

U == INSTANCE Users WITH Id <- User

userVars == <<users_by_id, user_id_by_email, signed_up>>
locals == <<pc, picked, user_copy>>
history == <<newest, overlapped>>
resendVars == <<vars, locals, userVars, history>>

(* The tasks that are about to create() a verification for u. *)
Issuing(u) == {t \in Task : pc[t] = "create" /\ picked[t] = u}

Hold(t, label, x, user) ==
  /\ pc' = [pc EXCEPT ![t] = label]
  /\ picked' = [picked EXCEPT ![t] = x]
  /\ user_copy' = [user_copy EXCEPT ![t] = user]

Goto(t, label, x) == Hold(t, label, x, None)

Forget(t) == Goto(t, "idle", None)

-----------------------------------------------------------------------------
(* Signup creates user u and is about to issue. *)
SignupBegin(t, u, e, p) ==
  /\ pc[t] = "idle"
  /\ U!Create(u, e, p)
  /\ Goto(t, "create", u)
  /\ UNCHANGED <<store, history>>

ResendRevoke(t, u, at) ==
  /\ pc[t] = "idle"
  /\ u \in DOMAIN users_by_id
  /\ RevokePendingForUser(u, at)
  /\ Goto(t, "create", u)
  /\ overlapped' = IF Issuing(u) = {} THEN overlapped \ {u}
                                      ELSE overlapped \cup {u}
  /\ UNCHANGED <<userVars, newest>>

Issue(t, i, h, created, exp) ==
  /\ pc[t] = "create"
  /\ Create(i, picked[t], h, created, exp)
  /\ newest' = [newest EXCEPT ![picked[t]] = i]
  /\ Forget(t)
  /\ UNCHANGED <<userVars, overlapped>>

IssueFails(t, h) ==
  /\ pc[t] = "create"
  /\ CreateRaises(h)
  /\ Forget(t)
  /\ UNCHANGED <<userVars, history>>

VerifyLookup(t, h) ==
  /\ pc[t] = "idle"
  /\ h \in HashesThatAre("pending")
  /\ Goto(t, "verify", email_verification_id_by_token_hash[h])
  /\ UNCHANGED <<vars, userVars, history>>

(* The user of the verification that task t has picked. *)
OwnerFor(t) == email_verifications_by_id[picked[t]].user_id

VerifyReadUser(t) ==
  /\ pc[t] = "verify"
  /\ Hold(t, "mark", picked[t], users_by_id[OwnerFor(t)])
  /\ UNCHANGED <<vars, userVars, history>>

VerifyUser(t) ==
  /\ pc[t] = "mark"
  /\ U!Update(OwnerFor(t), [user_copy[t] EXCEPT !.email_verified = TRUE])
  /\ Goto(t, "consume", picked[t])
  /\ UNCHANGED <<store, history>>

VerifyConsume(t, at) ==
  /\ pc[t] = "consume"
  /\ MarkConsumed(picked[t], at)
  /\ Forget(t)
  /\ UNCHANGED <<userVars, history>>

VerifyRejected(t) ==
  /\ pc[t] = "consume"
  /\ MarkConsumedRaises(picked[t])
  /\ Forget(t)
  /\ UNCHANGED <<userVars, history>>

PasswordReadUser(t, u) ==
  /\ pc[t] = "idle"
  /\ u \in DOMAIN users_by_id
  /\ Hold(t, "password", u, users_by_id[u])
  /\ UNCHANGED <<vars, userVars, history>>

ChangePassword(t, p) ==
  /\ pc[t] = "password"
  /\ U!Update(picked[t], [user_copy[t] EXCEPT !.password_hash = p])
  /\ Forget(t)
  /\ UNCHANGED <<store, history>>

Abandon(t) ==
  /\ pc[t] # "idle"
  /\ Forget(t)
  /\ UNCHANGED <<vars, userVars, history>>

-----------------------------------------------------------------------------
ResendsInit ==
  /\ Init /\ U!Init
  /\ pc = [t \in Task |-> "idle"]
  /\ picked = [t \in Task |-> None]
  /\ user_copy = [t \in Task |-> None]
  /\ newest = [u \in User |-> None]
  /\ overlapped = {}

Step(t) ==
  \/ \E u \in User, e \in Spelling, p \in Password :
       SignupBegin(t, u, e, p)
  \/ \E u \in User, at \in Time : ResendRevoke(t, u, at)
  \/ \E i \in Id, h \in Hash, created, exp \in Time :
       Issue(t, i, h, created, exp)
  \/ \E h \in Hash : IssueFails(t, h) \/ VerifyLookup(t, h)
  \/ VerifyReadUser(t)
  \/ VerifyUser(t)
  \/ \E at \in Time : VerifyConsume(t, at)
  \/ VerifyRejected(t)
  \/ \E u \in User : PasswordReadUser(t, u)
  \/ \E p \in Password : ChangePassword(t, p)
  \/ Abandon(t)

ResendsNext == \E t \in Task : Step(t)

ResendsSpec == ResendsInit /\ [][ResendsNext]_resendVars

-----------------------------------------------------------------------------
(* Properties *)

(* However requests interleave, a user whose last resend did not overlap   *)
(* another issue has nothing pending but the newest verification; in       *)
(* particular a resend that runs alone makes up for earlier overlaps.      *)
LoneResendLeavesOnlyNewest ==
  \A u \in User \ overlapped : PendingOf(u) \subseteq {newest[u]}

(* And then only the newest one can be consumed, also by a request that    *)
(* looked an older one up before the resend and comes to consume it after. *)
ConsumptionStep ==
  \A i \in DOMAIN email_verifications_by_id :
    LET r == email_verifications_by_id[i] IN
      /\ r.status # "consumed"
      /\ email_verifications_by_id'[i].status = "consumed"
      => r.user_id \in overlapped \/ i = newest[r.user_id]

LoneResendEndsOlderTokens == [][ConsumptionStep]_resendVars

(* email_verification_repository.py: pending records are revoked "before   *)
(* issuing a fresh one on resend, so an old token can't be used after a    *)
(* newer one has been issued".                                             *)
OldTokensAreDead == \A u \in User : PendingOf(u) \subseteq {newest[u]}

(* The same sentence of the use that matters: no token but the newest      *)
(* marks a user verified, when no two issues overlap.                      *)
VerificationStep ==
  \A t \in Task : VerifyUser(t) =>
    \/ OwnerFor(t) \in overlapped
    \/ picked[t] = newest[OwnerFor(t)]

OldTokensVerifyNobody == [][VerificationStep]_resendVars
=============================================================================
