-------------------------------- MODULE Logins --------------------------------
(***************************************************************************)
(* Concurrent logins and password changes: Users and security/hashing.py   *)
(* together.  The endpoints are empty files.  A login looks the address up *)
(* and verifies a password against the copy it was given; a change does    *)
(* the same, hashes the new password, and stores the whole record.  Argon2 *)
(* is slow by design: between any two of these steps other requests run.   *)
(***************************************************************************)
EXTENDS Repository

CONSTANTS
  User,      \* UUIDs
  Spelling, NormalForm, EmailStr,
  Password,  \* what people type
  Salt,      \* what Argon2 draws at random
  Task

ASSUME NormalFormAssumption == NormalForm \in [Spelling -> Spelling]

VARIABLES
  users_by_id, user_id_by_email, signed_up, reply,
  pc,       \* what each task does next
  picked,   \* the user it has looked up
  copy,     \* its copy of that user
  present,  \* history: the password each user has now
  known     \* history: those its user has had since each task looked it up

-----------------------------------------------------------------------------
(* security/hashing.py *)

(* "Self-describing": the digest of one password under one salt. *)
PasswordHash == [password: Password, salt: Salt]

hash_password(password, salt) == [password |-> password, salt |-> salt]

\* Mutant: the password is hashed again, under a salt of its own.
verify_by_rehash(password, password_hash) ==
  password_hash = hash_password(password, CHOOSE salt \in Salt : TRUE)

(* Every hash stored here came from hash_password(), so the other answer   *)
(* False, for a string that is no hash (InvalidHash), does not arise, nor  *)
(* do the errors of Argon2 that verify_password() lets propagate.          *)
verify_password(password, password_hash) == password_hash.password = password

-----------------------------------------------------------------------------
U == INSTANCE Users WITH Id <- User, Password <- PasswordHash

userVars == <<users_by_id, user_id_by_email, signed_up>>
locals == <<pc, picked, copy>>
history == <<present, known>>
loginVars == <<userVars, reply, locals, history>>

Goto(t, label, u, user) ==
  /\ pc' = [pc EXCEPT ![t] = label]
  /\ picked' = [picked EXCEPT ![t] = u]
  /\ copy' = [copy EXCEPT ![t] = user]

Forget(t) ==
  /\ Goto(t, "idle", None, None)
  /\ known' = [known EXCEPT ![t] = {}]

SignUp(u, e, p, salt) ==
  /\ U!Create(u, e, hash_password(p, salt))
  /\ present' = Put(present, u, p)
  /\ UNCHANGED <<locals, known>>

(* get_by_email() *)
LookUp(t, e) ==
  /\ pc[t] = "idle"
  /\ U!GetByEmail(e) # None
  /\ LET u == U!GetByEmail(e) IN
       /\ Goto(t, "verify", u, users_by_id[u])
       /\ known' = [known EXCEPT ![t] = {present[u]}]
  /\ UNCHANGED <<userVars, reply, present>>

Verifies(t, p) == pc[t] = "verify" /\ verify_password(p, copy[t].password_hash)

LoginGranted(t, p) ==
  /\ Verifies(t, p)
  /\ Forget(t)
  /\ UNCHANGED <<userVars, reply, present>>

(* A login or a change whose password does not verify. *)
Refused(t, p) ==
  /\ pc[t] = "verify"
  /\ ~verify_password(p, copy[t].password_hash)
  /\ Forget(t)
  /\ UNCHANGED <<userVars, reply, present>>

ChangeGranted(t, p, new, salt) ==
  /\ Verifies(t, p)
  /\ Goto(t, "store", picked[t],
          [copy[t] EXCEPT !.password_hash = hash_password(new, salt)])
  /\ UNCHANGED <<userVars, reply, history>>

ChangeStored(t) ==
  /\ pc[t] = "store"
  /\ U!Update(picked[t], copy[t])
  /\ present' = [present EXCEPT ![picked[t]] = copy[t].password_hash.password]
  /\ Goto(t, "idle", None, None)
  /\ known' = [s \in Task |->
                 IF s = t THEN {}
                 ELSE IF picked[s] = picked[t]
                 THEN known[s] \cup {copy[t].password_hash.password}
                 ELSE known[s]]

Abandon(t) ==
  /\ pc[t] # "idle"
  /\ Forget(t)
  /\ UNCHANGED <<userVars, reply, present>>

-----------------------------------------------------------------------------
LoginsInit ==
  /\ U!Init
  /\ pc = [t \in Task |-> "idle"]
  /\ picked = [t \in Task |-> None]
  /\ copy = [t \in Task |-> None]
  /\ present = <<>>
  /\ known = [t \in Task |-> {}]

LoginsNext ==
  \/ \E u \in User, e \in Spelling, p \in Password, salt \in Salt :
       SignUp(u, e, p, salt)
  \/ \E t \in Task :
       \/ \E e \in Spelling : LookUp(t, e)
       \/ \E p \in Password : LoginGranted(t, p) \/ Refused(t, p)
       \/ \E p, new \in Password, salt \in Salt : ChangeGranted(t, p, new, salt)
       \/ ChangeStored(t)
       \/ Abandon(t)

LoginsSpec == LoginsInit /\ [][LoginsNext]_loginVars

-----------------------------------------------------------------------------
(* Properties *)

DecisionStep ==
  \A t \in Task, p \in Password :
    /\ LoginGranted(t, p) => p \in known[t]
    /\ Refused(t, p) => known[t] # {p}

(* A login decides on a copy, and still it is right for some moment since  *)
(* it looked the user up: whoever is let in typed a password that was the  *)
(* user's then, by whatever spelling of the address and under whatever     *)
(* salt; and whoever is refused typed one that was not the only one.       *)
LoginsAreDecidedRight == [][DecisionStep]_loginVars
=============================================================================
