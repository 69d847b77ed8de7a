------------------------------- MODULE Accounts -------------------------------
(***************************************************************************)
(* Requests that work on copies: Users, Memberships and the permission     *)
(* service together.  The endpoints are empty files; what they have to do  *)
(* is fixed by the Protocols.  A lookup returns a copy, update() stores a  *)
(* whole record built from it ("takes the full updated model"), and        *)
(* PermissionService decides on a user and a membership that its caller    *)
(* has "in hand", from two awaited lookups in either order.  Between any   *)
(* two calls other requests run, and a request may be cancelled.           *)
(***************************************************************************)
EXTENDS Repository, Sequences, FiniteSets, Permissions

CONSTANTS
  User, Tenant, MembershipId,  \* UUIDs
  Spelling, Password, NormalForm, EmailStr, MaxVersion,
  Task

ASSUME NormalFormAssumption == NormalForm \in [Spelling -> Spelling]
ASSUME MaxVersionAssumption == MaxVersion \in Nat

VARIABLES
  users_by_id, user_id_by_email, signed_up,
  memberships_by_id, membership_id_by_user_tenant, membership_ids_by_user,
  reply,
  pc,         \* which copies each task holds, and what it does with them
  about,      \* the user and the tenant it is about
  user_copy,  \* its copy of the user
  copies,     \* its copies of memberships, by id
  overtaken,  \* history: pairs of a task that may yet store its copy of a
              \* record and that record, changed since the copy was taken
  moments,    \* history: what was permitted from the first lookup of each
              \* task to its second
  between     \* history: what changed between those two

U == INSTANCE Users WITH Id <- User
M == INSTANCE Memberships WITH Id <- MembershipId

userVars == <<users_by_id, user_id_by_email, signed_up>>
memberVars == <<memberships_by_id, membership_id_by_user_tenant,
                membership_ids_by_user>>
locals == <<pc, about, user_copy, copies>>
history == <<overtaken, moments, between>>
accountVars == <<userVars, memberVars, reply, locals, history>>

Only(i, record) == [x \in {i} |-> record]

Goto(t, label, pair, user, members) ==
  /\ pc' = [pc EXCEPT ![t] = label]
  /\ about' = [about EXCEPT ![t] = pair]
  /\ user_copy' = [user_copy EXCEPT ![t] = user]
  /\ copies' = [copies EXCEPT ![t] = members]

Forget(t) == Goto(t, "idle", <<None, None>>, None, <<>>)

-----------------------------------------------------------------------------
(* Two requests made of one call each. *)
SignUp(u, e, p) ==
  /\ U!Create(u, e, p)
  /\ UNCHANGED <<memberVars, locals>>

Join(i, u, n, role) ==
  /\ u \in DOMAIN users_by_id
  /\ M!Create(i, u, n, role)
  /\ UNCHANGED <<userVars, locals>>

-----------------------------------------------------------------------------
(* The lookups of one user and of that user's membership in one tenant, in *)
(* either order: get_by_id() and get_by_user_and_tenant().                 *)
LookupUser(t, u, n) ==
  /\ u \in DOMAIN users_by_id
  /\ \/ /\ pc[t] = "idle"
        /\ Goto(t, "user", <<u, n>>, users_by_id[u], <<>>)
     \/ /\ pc[t] = "membership" /\ about[t] = <<u, n>>
        /\ Goto(t, "membership first", <<u, n>>, users_by_id[u], copies[t])
  /\ UNCHANGED <<userVars, memberVars, reply>>

LookupMembership(t, u, n) ==
  /\ M!GetByUserAndTenant(u, n) # None
  /\ LET i == M!GetByUserAndTenant(u, n)
         found == Only(i, memberships_by_id[i])
     IN \/ /\ pc[t] = "idle"
           /\ Goto(t, "membership", <<u, n>>, None, found)
        \/ /\ pc[t] = "user" /\ about[t] = <<u, n>>
           /\ Goto(t, "user first", <<u, n>>, user_copy[t], found)
  /\ UNCHANGED <<userVars, memberVars, reply>>

Both == {"user first", "membership first"}

HoldsUser == Both \cup {"user"}

(* The permissions that a task with both copies is told its user has. *)
Answer(t) ==
  {p \in Permission :
     \E i \in DOMAIN copies[t] :
       has_permission(about[t][1], user_copy[t], copies[t][i], p)}

(* PermissionService makes no call: the answer is that of the copies. *)
Ask(t) ==
  /\ pc[t] \in Both
  /\ Forget(t)
  /\ UNCHANGED <<userVars, memberVars, reply>>

-----------------------------------------------------------------------------
(* "email_verified flip, password_hash rotation" *)
ChangePassword(t, p) ==
  /\ pc[t] = "user"
  /\ p # user_copy[t].password_hash
  /\ U!Update(about[t][1], [user_copy[t] EXCEPT !.password_hash = p])
  /\ Forget(t)
  /\ UNCHANGED memberVars

(* Verification that lifts the soft gate goes on to count, in every        *)
(* membership of the user, that permissions have changed.                  *)
Verify(t) ==
  /\ pc[t] = "user"
  /\ U!Update(about[t][1], [user_copy[t] EXCEPT !.email_verified = TRUE])
  /\ IF user_copy[t].email_verified
     THEN Forget(t)
     ELSE Goto(t, "verified", about[t], None, <<>>)
  /\ UNCHANGED memberVars

(* get_memberships_for_user() *)
LookupMemberships(t) ==
  /\ pc[t] = "verified"
  /\ LET ids == M!IdsOfUser(about[t][1])
         found == {ids[k] : k \in DOMAIN ids}
     IN IF found = {}
        THEN Forget(t)
        ELSE Goto(t, "counting", about[t], None,
                  [i \in found |-> memberships_by_id[i]])
  /\ UNCHANGED <<userVars, memberVars, reply>>

Count(t, i) ==
  /\ pc[t] = "counting"
  /\ i \in DOMAIN copies[t]
  /\ copies[t][i].permissions_version < MaxVersion
  /\ M!Update(i, [copies[t][i] EXCEPT !.permissions_version = @ + 1])
  /\ LET left == DOMAIN copies[t] \ {i}
     IN IF left = {}
        THEN Forget(t)
        ELSE Goto(t, "counting", about[t], None, [j \in left |-> copies[t][j]])
  /\ UNCHANGED userVars

(* A change of role or status; "it increments" (models/membership.py). *)
ChangeMembership(t, i, role, status) ==
  /\ pc[t] = "membership"
  /\ i \in DOMAIN copies[t]
  /\ <<role, status>> # <<copies[t][i].role, copies[t][i].status>>
  /\ copies[t][i].permissions_version < MaxVersion
  /\ M!Update(i, [copies[t][i] EXCEPT !.role = role, !.status = status,
                                      !.permissions_version = @ + 1])
  /\ Forget(t)
  /\ UNCHANGED userVars

Abandon(t) ==
  /\ pc[t] # "idle"
  /\ Forget(t)
  /\ UNCHANGED <<userVars, memberVars, reply>>

-----------------------------------------------------------------------------
(* What the history variables remember of a step *)

(* The record of user u and that of its membership in n, if there are any. *)
UserOf(u) == {users_by_id[v] : v \in {u} \cap DOMAIN users_by_id}

MembershipOf(u, n) ==
  {memberships_by_id[i] : i \in {M!GetByUserAndTenant(u, n)} \ {None}}

(* What user u may do in tenant n now, by the decisions quoted in          *)
(* constants/permissions.py and models/membership.py: nothing unless the   *)
(* membership is active, and the gated part only when verified.            *)
Held(u, n) ==
  {p \in Permission :
     \E m \in MembershipOf(u, n) :
       /\ m.status = "active"
       /\ p \in ROLE_PERMISSIONS[m.role]
       /\ p \in SOFT_GATED_PERMISSIONS => users_by_id[u].email_verified}

(* The ids of the records of which task t holds copies. *)
Holdings(t) ==
  DOMAIN copies[t] \cup {u \in {about[t][1]} : pc[t] \in HoldsUser}

Overwritten ==
  {u \in DOMAIN users_by_id : users_by_id'[u] # users_by_id[u]} \cup
  {i \in DOMAIN memberships_by_id :
     memberships_by_id'[i] # memberships_by_id[i]}

Changes(u, n) ==
  {what \in {"user", "membership", "taken back"} :
     \/ what = "user" /\ UserOf(u)' # UserOf(u)
     \/ what = "membership" /\ MembershipOf(u, n)' # MembershipOf(u, n)
     \/ /\ what = "taken back"
        /\ u \in DOMAIN users_by_id
        /\ users_by_id[u].email_verified
        /\ ~users_by_id'[u].email_verified}

Waiting == {"user", "membership"}

Remember ==
  /\ overtaken' = {p \in Task \X (User \cup MembershipId) :
                     /\ pc'[p[1]] \notin Both /\ p[2] \in Holdings(p[1])'
                     /\ p[2] \in Holdings(p[1])
                     /\ p \in overtaken \/ p[2] \in Overwritten}
  /\ moments' = [t \in Task |->
       IF pc'[t] \in Waiting
       THEN moments[t] \cup {Held(about[t][1], about[t][2])'}
       ELSE IF pc'[t] \in Both THEN moments[t] ELSE {}]
  /\ between' = [t \in Task |->
       IF pc[t] \in Waiting /\ pc'[t] = pc[t]
       THEN between[t] \cup Changes(about[t][1], about[t][2])
       ELSE IF pc'[t] \in Both THEN between[t] ELSE {}]

-----------------------------------------------------------------------------
AccountsInit ==
  /\ U!Init /\ M!Init
  /\ pc = [t \in Task |-> "idle"]
  /\ about = [t \in Task |-> <<None, None>>]
  /\ user_copy = [t \in Task |-> None]
  /\ copies = [t \in Task |-> <<>>]
  /\ overtaken = {}
  /\ moments = [t \in Task |-> {}]
  /\ between = [t \in Task |-> {}]

Step ==
  \/ \E u \in User, e \in Spelling, p \in Password : SignUp(u, e, p)
  \/ \E i \in MembershipId, u \in User, n \in Tenant, role \in Role :
       Join(i, u, n, role)
  \/ \E t \in Task :
       \/ \E u \in User, n \in Tenant :
            LookupUser(t, u, n) \/ LookupMembership(t, u, n)
       \/ Ask(t)
       \/ \E p \in Password : ChangePassword(t, p)
       \/ Verify(t)
       \/ LookupMemberships(t)
       \/ \E i \in MembershipId : Count(t, i)
       \/ \E i \in MembershipId, role \in Role, status \in M!Status :
            ChangeMembership(t, i, role, status)
       \/ Abandon(t)

AccountsNext == Step /\ Remember

AccountsSpec == AccountsInit /\ [][AccountsNext]_accountVars

-----------------------------------------------------------------------------
(* Properties *)

Changed(r, s) == {field \in DOMAIN r : r[field] # s[field]}

(* A step that stores the record id is one of a task not overtaken. *)
Undisturbed(id) ==
  \A t \in Task : <<t, id>> \in overtaken => id \in Holdings(t)'

UpdateStep ==
  /\ \A u \in DOMAIN users_by_id :
       Undisturbed(u) =>
         Cardinality(Changed(users_by_id[u], users_by_id'[u])) <= 1
  /\ \A i \in DOMAIN memberships_by_id :
       LET r == memberships_by_id[i]
           s == memberships_by_id'[i]
       IN Undisturbed(i) /\ r # s =>
            s.permissions_version = r.permissions_version + 1

(* A request that no other update overtook changes one field of a user, or *)
(* counts its change of a membership by one: it takes back nothing that    *)
(* others have stored, verification, password or version.  Requests that   *)
(* were overtaken do: update() compares nothing with what it replaces.     *)
LoneUpdatesLoseNothing == [][UpdateStep]_accountVars

(* "What can this person do, right now, in this tenant", asked of two      *)
(* copies of different ages: whatever happens between the two lookups, the *)
(* answer is exactly what was held at some moment from the first to the    *)
(* second, unless both records changed in between; a suspension or a       *)
(* verification alone gives the answer from before or from after.          *)
AnswersWereHeld ==
  \A t \in Task :
    pc[t] \in Both /\ ~({"user", "membership"} \subseteq between[t]) =>
      Answer(t) \in moments[t]

(* And with the user looked up first, not even two changes make an answer  *)
(* grant anything beyond what was held at one moment: a membership is      *)
(* never taken together with a verification that came after it.  It rests  *)
(* on no lost update taking the verification back in between.              *)
UserFirstNeverGrantsMore ==
  \A t \in Task :
    pc[t] = "user first" /\ "taken back" \notin between[t] =>
      \E held \in moments[t] : Answer(t) \subseteq held
=============================================================================
