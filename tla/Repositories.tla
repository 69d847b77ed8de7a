----------------------------- MODULE Repositories ------------------------------
(***************************************************************************)
(* Four of the repositories over one store, each under arbitrary calls.    *)
(* No method reads or writes another repository's dicts, so a behaviour is *)
(* one of calls to a single repository, whichever; RefreshTokens has a     *)
(* model of its own, and what repositories do together is in the modules   *)
(* of the requests.                                                        *)
(***************************************************************************)
EXTENDS Memberships

CONSTANTS
  Spelling, Password, NormalForm, EmailStr,  \* of Users
  Hash, Time                                 \* of the two kinds of tokens

ASSUME InstantsAssumption == Time \subseteq Int /\ None \notin Time
ASSUME UuidAssumption == None \notin Id \cup User
ASSUME AddressAssumption ==
  /\ NormalForm \in [Spelling -> Spelling]
  /\ \A e \in Spelling : NormalForm[NormalForm[e]] = NormalForm[e]
  /\ EmailStr \in [Spelling -> Spelling \cup {None}]
  /\ None \notin Spelling

VARIABLES
  called,  \* the repository that this behaviour calls
  users_by_id, user_id_by_email, signed_up,
  invitations_by_id, invitation_id_by_token_hash,
  email_verifications_by_id, email_verification_id_by_token_hash

U == INSTANCE Users
I == INSTANCE Invitations
E == INSTANCE EmailVerifications

userVars == <<users_by_id, user_id_by_email, signed_up>>
invitationVars == <<invitations_by_id, invitation_id_by_token_hash>>
emailVars == <<email_verifications_by_id, email_verification_id_by_token_hash>>
storeVars == <<vars, called, userVars, invitationVars, emailVars>>

StoreInit ==
  /\ Init /\ U!Init /\ I!Init /\ E!Init
  /\ called \in {"users", "memberships", "invitations", "verifications"}

CallUsers ==
  /\ called = "users"
  /\ U!Next
  /\ UNCHANGED <<store, called, invitationVars, emailVars>>

CallMemberships ==
  /\ called = "memberships"
  /\ Next
  /\ UNCHANGED <<called, userVars, invitationVars, emailVars>>

CallInvitations ==
  /\ called = "invitations"
  /\ I!Next
  /\ UNCHANGED <<store, called, userVars, emailVars>>

CallVerifications ==
  /\ called = "verifications"
  /\ E!Next
  /\ UNCHANGED <<store, called, userVars, invitationVars>>

StoreNext ==
  \/ CallUsers
  \/ CallMemberships
  \/ CallInvitations
  \/ CallVerifications

StoreSpec == StoreInit /\ [][StoreNext]_storeVars

-----------------------------------------------------------------------------
(* Properties: those of the repositories' own modules, under their names   *)

(* Every dict of these repositories holds what its annotation in store.py  *)
(* says.                                                                   *)
StoreTypeOK == TypeOK /\ U!TypeOK /\ I!TypeOK /\ E!TypeOK

(* Users: every key leads to a user stored with that address, and every    *)
(* user has one key, whatever records update() is passed.                  *)
EmailIndexAgrees == U!EmailIndexAgrees

(* Users: every spelling of the address a user signed up with finds that   *)
(* user and no other.                                                      *)
SpellingsFindTheirUser == U!SpellingsFindTheirUser

(* Invitations and email verifications: table and token index hold the     *)
(* same pairs, both ways ("never drift out of sync", store.py).            *)
TokenIndexAgrees == I!TokenIndexAgrees /\ E!TokenIndexAgrees

(* Every stored row satisfies its validators, and so does every rebuild a  *)
(* method may attempt: none is refused half way through a sweep.           *)
RowsStayValid == I!RowsStayValid /\ E!RowsStayValid

(* Invitations: accepted inside their validity, and what is not accepted   *)
(* carries no acceptance.                                                  *)
AcceptedInTime == I!AcceptedInTime

(* Email verifications: revoke_pending_for_user() revokes exactly the      *)
(* pending rows of that user, and counts them.                             *)
RevocationIsExact == E!RevocationIsExact

(* Told by its hash, an invitation is accepted at most once.               *)
InvitationsImplementLedger == I!ImplementsLedger

(* Told by its hash, an email verification is consumed at most once and    *)
(* never after its revocation.                                             *)
VerificationsImplementLedger == E!ImplementsLedger
=============================================================================
