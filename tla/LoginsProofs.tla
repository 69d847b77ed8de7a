---------------------------- MODULE LoginsProofs ----------------------------
(***************************************************************************)
(* Theorems about Logins, for every value of its constants, and so for any *)
(* number of requests, users and passwords.  They rest on one invariant: a *)
(* copy holds a hash of a password that was its user's at some moment      *)
(* since the lookup.                                                       *)
(***************************************************************************)
EXTENDS Logins, TLAPS

PasswordsTyped ==
  /\ users_by_id \in [DOMAIN users_by_id -> U!UserRecord]
  /\ \A k \in DOMAIN user_id_by_email :
       user_id_by_email[k] \in DOMAIN users_by_id

(* History: the password that a user's hash was made of. *)
PresentIsStored ==
  /\ DOMAIN present = DOMAIN users_by_id
  /\ \A u \in DOMAIN users_by_id :
       present[u] = users_by_id[u].password_hash.password

(* A copy holds a hash of a password that was its user's at some moment    *)
(* since the lookup, or of the one that is about to be stored.             *)
LoginCopies ==
  /\ pc \in [Task -> {"idle", "verify", "store"}]
  /\ picked = [t \in Task |-> picked[t]]
  /\ copy = [t \in Task |-> copy[t]]
  /\ known = [t \in Task |-> known[t]]
  /\ \A t \in Task : pc[t] # "idle" => copy[t] \in U!UserRecord
  /\ \A t \in Task : pc[t] = "verify" =>
       copy[t].password_hash.password \in known[t]

LoginsInv ==
  /\ PasswordsTyped
  /\ PresentIsStored
  /\ LoginCopies

(* An action of one request as the others see it. *)
LEMMA LoginsGoto ==
  ASSUME LoginCopies, NEW t \in Task, NEW label \in {"idle", "verify", "store"},
         NEW u, NEW user, Goto(t, label, u, user)
  PROVE  /\ pc'[t] = label /\ picked'[t] = u /\ copy'[t] = user
         /\ \A s \in Task \ {t} :
              pc'[s] = pc[s] /\ picked'[s] = picked[s] /\ copy'[s] = copy[s]
         /\ pc' \in [Task -> {"idle", "verify", "store"}]
         /\ picked' = [s \in Task |-> picked'[s]]
         /\ copy' = [s \in Task |-> copy'[s]]
  BY DEF LoginCopies, Goto

(* The first login finds an empty store and no request under way. *)
LEMMA InitLoginsInv == LoginsInit => LoginsInv
<1> SUFFICES ASSUME LoginsInit PROVE LoginsInv
  OBVIOUS
<1>1. /\ users_by_id = <<>> /\ DOMAIN users_by_id = {}
      /\ DOMAIN user_id_by_email = {}
      /\ DOMAIN present = {}
      /\ pc = [t \in Task |-> "idle"]
      /\ picked = [t \in Task |-> None]
      /\ copy = [t \in Task |-> None]
      /\ known = [t \in Task |-> {}]
  BY DEF LoginsInit, U!Init
<1>2. PasswordsTyped /\ PresentIsStored
  BY <1>1 DEF PasswordsTyped, PresentIsStored
<1>3. LoginCopies
  BY <1>1 DEF LoginCopies
<1> QED
  BY <1>2, <1>3 DEF LoginsInv

(* A new user, with a hash of the password that was typed. *)
LEMMA SignUpKeepsLoginsInv ==
  ASSUME LoginsInv, NEW u \in User, NEW e \in Spelling, NEW p \in Password,
         NEW salt \in Salt, SignUp(u, e, p, salt)
  PROVE  LoginsInv'
<1> DEFINE user == U!NewUser(e, hash_password(p, salt))
<1>1. /\ u \notin DOMAIN users_by_id
      /\ EmailStr[NormalForm[e]] # None
      /\ users_by_id' = U!Put(users_by_id, u, user)
      /\ user_id_by_email' = U!Put(user_id_by_email, NormalForm[e], u)
      /\ present' = Put(present, u, p)
      /\ UNCHANGED <<pc, picked, copy, known>>
  BY DEF SignUp, U!Create, U!normalise_email, locals
<1>2. user \in U!UserRecord /\ user.password_hash.password = p
  <2>1. EmailStr[NormalForm[e]] \in U!Address
    BY <1>1, NormalFormAssumption DEF U!Address
  <2>2. /\ hash_password(p, salt) \in PasswordHash
        /\ hash_password(p, salt).password = p
    BY DEF hash_password, PasswordHash
  <2> QED
    BY <2>1, <2>2 DEF U!NewUser, U!UserRecord, U!normalise_email
<1> HIDE DEF user
<1>3. /\ DOMAIN users_by_id' = DOMAIN users_by_id \cup {u}
      /\ users_by_id'[u] = user
      /\ \A v \in DOMAIN users_by_id : users_by_id'[v] = users_by_id[v]
      /\ users_by_id' \in [DOMAIN users_by_id' -> U!UserRecord]
  BY <1>1, <1>2 DEF U!Put, LoginsInv, PasswordsTyped
<1>4. /\ DOMAIN present' = DOMAIN present \cup {u}
      /\ present'[u] = p
      /\ \A v \in DOMAIN users_by_id : present'[v] = present[v]
  BY <1>1 DEF Put, LoginsInv, PresentIsStored
<1>5. PasswordsTyped'
  BY <1>1, <1>3 DEF U!Put, LoginsInv, PasswordsTyped
<1>6. PresentIsStored'
  BY <1>2, <1>3, <1>4 DEF LoginsInv, PresentIsStored
<1>7. LoginCopies'
  BY <1>1 DEF LoginsInv, LoginCopies
<1> QED
  BY <1>5, <1>6, <1>7 DEF LoginsInv

(* A request takes a copy of the user an address finds. *)
LEMMA LookUpKeepsLoginsInv ==
  ASSUME LoginsInv, NEW t \in Task, NEW e, LookUp(t, e)
  PROVE  LoginsInv'
<1> DEFINE u == U!GetByEmail(e)
<1>1. /\ u # None
      /\ Goto(t, "verify", u, users_by_id[u])
      /\ known' = [known EXCEPT ![t] = {present[u]}]
      /\ UNCHANGED <<users_by_id, user_id_by_email, present>>
  BY DEF LookUp, userVars
<1>2. u \in DOMAIN users_by_id
  BY <1>1 DEF U!GetByEmail, LoginsInv, PasswordsTyped
<1> HIDE DEF u
<1>3. /\ users_by_id[u] \in U!UserRecord
      /\ users_by_id[u].password_hash.password \in {present[u]}
  BY <1>2 DEF LoginsInv, PasswordsTyped, PresentIsStored
<1>4. PasswordsTyped' /\ PresentIsStored'
  BY <1>1 DEF LoginsInv, PasswordsTyped, PresentIsStored
<1>5. /\ pc'[t] = "verify" /\ copy'[t] = users_by_id[u]
      /\ \A s \in Task \ {t} : pc'[s] = pc[s] /\ copy'[s] = copy[s]
      /\ pc' \in [Task -> {"idle", "verify", "store"}]
      /\ picked' = [s \in Task |-> picked'[s]]
      /\ copy' = [s \in Task |-> copy'[s]]
  BY <1>1, LoginsGoto DEF LoginsInv
<1>6. /\ known' = [s \in Task |-> known'[s]]
      /\ known'[t] = {present[u]}
      /\ \A s \in Task \ {t} : known'[s] = known[s]
  BY <1>1 DEF LoginsInv, LoginCopies
<1>7. LoginCopies'
  BY <1>3, <1>5, <1>6 DEF LoginsInv, LoginCopies
<1> QED
  BY <1>4, <1>7 DEF LoginsInv

(* A request that is answered or cancelled forgets its copy. *)
LEMMA ForgetKeepsLoginsInv ==
  ASSUME LoginsInv, NEW t \in Task, Forget(t),
         UNCHANGED <<users_by_id, user_id_by_email, present>>
  PROVE  LoginsInv'
<1>1. /\ Goto(t, "idle", None, None)
      /\ known' = [known EXCEPT ![t] = {}]
  BY DEF Forget
<1>2. /\ pc'[t] = "idle"
      /\ \A s \in Task \ {t} :
           pc'[s] = pc[s] /\ copy'[s] = copy[s] /\ picked'[s] = picked[s]
      /\ pc' \in [Task -> {"idle", "verify", "store"}]
      /\ picked' = [s \in Task |-> picked'[s]]
      /\ copy' = [s \in Task |-> copy'[s]]
  BY <1>1, LoginsGoto DEF LoginsInv
<1>3. /\ known' = [s \in Task |-> known'[s]]
      /\ \A s \in Task \ {t} : known'[s] = known[s]
  BY <1>1 DEF LoginsInv, LoginCopies
<1>4. LoginCopies'
  BY <1>2, <1>3 DEF LoginsInv, LoginCopies
<1> QED
  BY <1>4 DEF LoginsInv, PasswordsTyped, PresentIsStored

(* A change whose old password verified makes the record it will store. *)
LEMMA ChangeGrantedKeepsLoginsInv ==
  ASSUME LoginsInv, NEW t \in Task, NEW p \in Password, NEW new \in Password,
         NEW salt \in Salt, ChangeGranted(t, p, new, salt)
  PROVE  LoginsInv'
<1>1. PICK user : user = [copy[t] EXCEPT !.password_hash =
                            hash_password(new, salt)]
  OBVIOUS
<1>2. /\ pc[t] = "verify"
      /\ Goto(t, "store", picked[t], user)
      /\ UNCHANGED <<users_by_id, user_id_by_email, present, known>>
  BY <1>1 DEF ChangeGranted, Verifies, userVars, history
<1>3. user \in U!UserRecord
  <2>1. copy[t] \in U!UserRecord
    BY <1>2 DEF LoginsInv, LoginCopies
  <2>2. hash_password(new, salt) \in PasswordHash
    BY DEF hash_password, PasswordHash
  <2> QED
    BY <1>1, <2>1, <2>2 DEF U!UserRecord
<1>4. LoginCopies'
  BY <1>2, <1>3, LoginsGoto DEF LoginsInv, LoginCopies
<1> QED
  BY <1>2, <1>4 DEF LoginsInv, PasswordsTyped, PresentIsStored

(* The record is stored: whoever holds a copy of that user may now be      *)
(* asked for either password.                                              *)
LEMMA ChangeStoredKeepsLoginsInv ==
  ASSUME LoginsInv, NEW t \in Task, ChangeStored(t)
  PROVE  LoginsInv'
<1>1. /\ pc[t] = "store"
      /\ picked[t] \in DOMAIN users_by_id
      /\ users_by_id' = [users_by_id EXCEPT ![picked[t]] = copy[t]]
      /\ user_id_by_email' = user_id_by_email
      /\ present' =
           [present EXCEPT ![picked[t]] = copy[t].password_hash.password]
      /\ Goto(t, "idle", None, None)
      /\ known' = [s \in Task |->
                     IF s = t THEN {}
                     ELSE IF picked[s] = picked[t]
                     THEN known[s] \cup {copy[t].password_hash.password}
                     ELSE known[s]]
  BY DEF ChangeStored, U!Update
<1>2. copy[t] \in U!UserRecord
  BY <1>1 DEF LoginsInv, LoginCopies
<1>3. PasswordsTyped' /\ PresentIsStored'
  BY <1>1, <1>2 DEF LoginsInv, PasswordsTyped, PresentIsStored
<1>4. \A s \in Task \ {t} : known[s] \subseteq known'[s]
  BY <1>1
<1>5. LoginCopies'
  BY <1>1, <1>4, LoginsGoto DEF LoginsInv, LoginCopies
<1> QED
  BY <1>3, <1>5 DEF LoginsInv

(* Every step of every login or change keeps the login invariant. *)
LEMMA NextLoginsInv ==
  LoginsInv /\ [LoginsNext]_(loginVars) => LoginsInv'
<1> SUFFICES ASSUME LoginsInv, [LoginsNext]_(loginVars) PROVE LoginsInv'
  OBVIOUS
<1>1. ASSUME NEW u \in User, NEW e \in Spelling, NEW p \in Password,
             NEW salt \in Salt, SignUp(u, e, p, salt)
      PROVE  LoginsInv'
  BY <1>1, SignUpKeepsLoginsInv
<1>2. ASSUME NEW t \in Task, NEW e \in Spelling, LookUp(t, e)
      PROVE  LoginsInv'
  BY <1>2, LookUpKeepsLoginsInv
<1>3. ASSUME NEW t \in Task, NEW p \in Password,
             LoginGranted(t, p) \/ Refused(t, p)
      PROVE  LoginsInv'
  BY <1>3, ForgetKeepsLoginsInv DEF LoginGranted, Refused, userVars
<1>4. ASSUME NEW t \in Task, NEW p \in Password, NEW new \in Password,
             NEW salt \in Salt, ChangeGranted(t, p, new, salt)
      PROVE  LoginsInv'
  BY <1>4, ChangeGrantedKeepsLoginsInv
<1>5. ASSUME NEW t \in Task, ChangeStored(t) PROVE LoginsInv'
  BY <1>5, ChangeStoredKeepsLoginsInv
<1>6. ASSUME NEW t \in Task, Abandon(t) PROVE LoginsInv'
  BY <1>6, ForgetKeepsLoginsInv DEF Abandon, userVars
<1>7. CASE UNCHANGED loginVars
  BY <1>7 DEF loginVars, userVars, locals, history,
              LoginsInv, PasswordsTyped, PresentIsStored, LoginCopies
<1> QED
  BY <1>1, <1>2, <1>3, <1>4, <1>5, <1>6, <1>7 DEF LoginsNext

(* The login invariant holds for ever. *)
LEMMA LoginsInvariance == LoginsSpec => []LoginsInv
  BY InitLoginsInv, NextLoginsInv, PTL DEF LoginsSpec

(* What a decision on a copy says of the passwords known since. *)
LEMMA DecisionsAreRight == LoginsInv => DecisionStep
<1> SUFFICES ASSUME LoginsInv, NEW t \in Task, NEW p \in Password
             PROVE  /\ LoginGranted(t, p) => p \in known[t]
                    /\ Refused(t, p) => known[t] # {p}
  BY DEF DecisionStep
<1>1. ASSUME pc[t] = "verify"
      PROVE  /\ copy[t].password_hash \in PasswordHash
             /\ copy[t].password_hash.password \in known[t]
  BY <1>1 DEF LoginsInv, LoginCopies, U!UserRecord
<1> QED
  BY <1>1 DEF LoginGranted, Verifies, Refused, verify_password

-----------------------------------------------------------------------------
(* Theorems *)

(* A login decides by a password that was the user's at some moment since  *)
(* it looked the user up, whatever changes overtake it.                    *)
THEOREM LoginsAlwaysDecidedRight == LoginsSpec => LoginsAreDecidedRight
  BY DecisionsAreRight, LoginsInvariance, PTL
     DEF LoginsSpec, LoginsAreDecidedRight
=============================================================================
