-------------------------------- MODULE Users --------------------------------
(***************************************************************************)
(* The user repository of the identity service: its two dicts in           *)
(* InMemoryIdentityStore and the methods of InMemoryUserRepository.  One   *)
(* action is one method call, atomic on the event loop; the caller may     *)
(* pass any argument at any time, and to update() any record.              *)
(*                                                                         *)
(* An address has three forms.  Clients submit spellings; normalise_email  *)
(* turns a spelling into a key; and the EmailStr field of User turns a key *)
(* into the address it stores, or refuses it.  EmailStr belongs to         *)
(* Pydantic and email-validator, which drop a display name ("Dana <d@x>"), *)
(* and put the local part in NFC: two keys may be stored as one address.   *)
(***************************************************************************)
EXTENDS Repository

CONSTANTS
  Id,          \* user UUIDs (uuid4: a new one is one not used before)
  Spelling,    \* addresses as clients submit them
  Password,    \* password hashes
  NormalForm,  \* the key of each spelling: strip().lower()
  EmailStr     \* what the EmailStr field makes of each string

ASSUME NormalFormAssumption ==
  /\ NormalForm \in [Spelling -> Spelling]
  /\ \A e \in Spelling : NormalForm[NormalForm[e]] = NormalForm[e]
ASSUME EmailStrAssumption ==
  /\ EmailStr \in [Spelling -> Spelling \cup {None}]
  /\ None \notin Spelling

VARIABLES
  users_by_id,
  user_id_by_email,
  reply,     \* what the last call returned or raised
  signed_up  \* history: the spelling each user was created with

store == <<users_by_id, user_id_by_email>>
vars == <<store, reply, signed_up>>

(* The addresses a User can hold. *)
Address == {EmailStr[e] : e \in Spelling} \ {None}

(* display_name and the two timestamps are copied and never read. *)
UserRecord == [email: Address, password_hash: Password, email_verified: BOOLEAN]

normalise_email(e) == NormalForm[e]

\* Mutant: the record is built without the validation of EmailStr.
NewUserUnvalidated(e, p) ==
  [email |-> normalise_email(e), password_hash |-> p, email_verified |-> FALSE]

NewUser(e, p) ==
  [email |-> EmailStr[normalise_email(e)], password_hash |-> p,
   email_verified |-> FALSE]

-----------------------------------------------------------------------------
(* create() *)

\* Mutant: the uniqueness check is on the spelling, not on its key.
CreateUnnormalised(i, e, p) ==
  /\ e \notin DOMAIN user_id_by_email
  /\ i \in Id \ DOMAIN users_by_id
  /\ EmailStr[normalise_email(e)] # None
  /\ users_by_id' = Put(users_by_id, i, NewUser(e, p))
  /\ user_id_by_email' = Put(user_id_by_email, normalise_email(e), i)
  /\ reply' = Returned(1)
  /\ signed_up' = Put(signed_up, i, e)

Create(i, e, p) ==
  /\ normalise_email(e) \notin DOMAIN user_id_by_email
  /\ i \in Id \ DOMAIN users_by_id
  /\ EmailStr[normalise_email(e)] # None
  /\ users_by_id' = Put(users_by_id, i, NewUser(e, p))
  /\ user_id_by_email' = Put(user_id_by_email, normalise_email(e), i)
  /\ reply' = Returned(1)
  /\ signed_up' = Put(signed_up, i, e)

CreateRaises(e) ==
  /\ \/ /\ normalise_email(e) \in DOMAIN user_id_by_email
        /\ reply' = Raised("DuplicateEntryError")
     \/ /\ normalise_email(e) \notin DOMAIN user_id_by_email
        /\ EmailStr[normalise_email(e)] = None
        /\ reply' = Raised("ValidationError")
  /\ UNCHANGED <<store, signed_up>>

-----------------------------------------------------------------------------
(* get_by_email() *)

(* The id of the user it returns, or None. *)
GetByEmail(e) ==
  IF normalise_email(e) \in DOMAIN user_id_by_email
  THEN user_id_by_email[normalise_email(e)]
  ELSE None

-----------------------------------------------------------------------------
(* update(): user is the caller's copy, under the id it carries *)

\* Mutant: the email guard is missing.
UpdateAnyEmail(i, user) ==
  /\ i \in DOMAIN users_by_id
  /\ users_by_id' = [users_by_id EXCEPT ![i] = user]
  /\ reply' = Returned(1)
  /\ UNCHANGED <<user_id_by_email, signed_up>>

Update(i, user) ==
  /\ i \in DOMAIN users_by_id
  /\ users_by_id[i].email = user.email
  /\ users_by_id' = [users_by_id EXCEPT ![i] = user]
  /\ reply' = Returned(1)
  /\ UNCHANGED <<user_id_by_email, signed_up>>

UpdateRaises(i, user) ==
  /\ \/ /\ i \notin DOMAIN users_by_id
        /\ reply' = Raised("RecordNotFoundError")
     \/ /\ i \in DOMAIN users_by_id
        /\ users_by_id[i].email # user.email
        /\ reply' = Raised("NotImplementedError")
  /\ UNCHANGED <<store, signed_up>>

-----------------------------------------------------------------------------
Init ==
  /\ users_by_id = <<>>
  /\ user_id_by_email = <<>>
  /\ reply = Returned(0)
  /\ signed_up = <<>>

Next ==
  \/ \E i \in Id, e \in Spelling, p \in Password : Create(i, e, p)
  \/ \E e \in Spelling : CreateRaises(e)
  \/ \E i \in Id, user \in UserRecord : Update(i, user) \/ UpdateRaises(i, user)

Spec == Init /\ [][Next]_vars

-----------------------------------------------------------------------------
(* Properties *)

(* Both dicts hold what their annotations in store.py say. *)
TypeOK ==
  /\ DOMAIN users_by_id \subseteq Id
  /\ users_by_id \in [DOMAIN users_by_id -> UserRecord]
  /\ DOMAIN user_id_by_email \subseteq Spelling
  /\ user_id_by_email \in [DOMAIN user_id_by_email -> Id]
  /\ reply \in Reply
  /\ signed_up \in [DOMAIN users_by_id -> Spelling]

(* Every key leads to a user that is stored with what EmailStr makes of    *)
(* that key, and every user has one key: no sequence of updates, whatever  *)
(* records callers pass, makes the record and the index disagree.  It is   *)
(* all that can be said: the stored address itself need not be unique, and *)
(* get_by_email(user.email) may find somebody else.                        *)
EmailIndexAgrees ==
  /\ \A k \in DOMAIN user_id_by_email :
       /\ user_id_by_email[k] \in DOMAIN users_by_id
       /\ users_by_id[user_id_by_email[k]].email = EmailStr[k]
  /\ \A i \in DOMAIN users_by_id :
       \E k \in DOMAIN user_id_by_email :
         \A l \in DOMAIN user_id_by_email : user_id_by_email[l] = i <=> l = k

(* Every spelling of the address a user signed up with finds that user and *)
(* no other, for ever: "to prevent Dana@Example.com and dana@example.com   *)
(* being treated as different users" (utils/email.py).                     *)
SpellingsFindTheirUser ==
  \A i \in DOMAIN users_by_id, e \in Spelling :
    normalise_email(e) = normalise_email(signed_up[i]) => GetByEmail(e) = i
=============================================================================
