-------------------------------- MODULE Signup --------------------------------
(***************************************************************************)
(* Concurrent signups, "User -> Tenant -> TenantMembership" (store.py):    *)
(* three awaited calls on three repositories that have no transaction in   *)
(* common and no method that removes anything.  The endpoint is an empty   *)
(* file.  A refused user ends the request before a tenant is made.         *)
(***************************************************************************)
EXTENDS Users, Sequences, FiniteSets

CONSTANTS
  Tenant, MembershipId,    \* UUIDs, as is Id of the users
  Label, Role, MaxVersion,
  Task

VARIABLES
  tenants_by_id,
  memberships_by_id, membership_id_by_user_tenant, membership_ids_by_user,
  pc,      \* what each task creates next
  owner,   \* the user it has created
  opened,  \* the tenant it has created
  abandoned  \* history: the tenants of requests that were cancelled

T == INSTANCE Tenants WITH Id <- Tenant
M == INSTANCE Memberships WITH Id <- MembershipId, User <- Id

userVars == <<store, signed_up>>
memberVars == <<memberships_by_id, membership_id_by_user_tenant,
                membership_ids_by_user>>
locals == <<pc, owner, opened>>
signupVars == <<userVars, tenants_by_id, memberVars, reply, locals, abandoned>>

Goto(t, label, u, n) ==
  /\ pc' = [pc EXCEPT ![t] = label]
  /\ owner' = [owner EXCEPT ![t] = u]
  /\ opened' = [opened EXCEPT ![t] = n]

Forget(t) == Goto(t, "user", None, None)

-----------------------------------------------------------------------------
CreateUser(t, u, e, p) ==
  /\ pc[t] = "user"
  /\ Create(u, e, p)
  /\ Goto(t, "tenant", u, None)
  /\ UNCHANGED <<tenants_by_id, memberVars, abandoned>>

\* Mutant: the error of the first call is not looked at.
RefusedGoesOn(t, e) ==
  /\ pc[t] = "user"
  /\ CreateRaises(e)
  /\ Goto(t, "tenant", GetByEmail(e), None)
  /\ UNCHANGED <<tenants_by_id, memberVars, abandoned>>

UserRefused(t, e) ==
  /\ pc[t] = "user"
  /\ CreateRaises(e)
  /\ UNCHANGED <<tenants_by_id, memberVars, locals, abandoned>>

\* Mutant: the request ends with the tenant, its owner forgotten.
CreateTenantLast(t, n, label) ==
  /\ pc[t] = "tenant"
  /\ T!Create(n, label)
  /\ Forget(t)
  /\ UNCHANGED <<userVars, memberVars, abandoned>>

CreateTenant(t, n, label) ==
  /\ pc[t] = "tenant"
  /\ T!Create(n, label)
  /\ Goto(t, "membership", owner[t], n)
  /\ UNCHANGED <<userVars, memberVars, abandoned>>

CreateOwner(t, i) ==
  /\ pc[t] = "membership"
  /\ M!Create(i, owner[t], opened[t], "owner")
  /\ Forget(t)
  /\ UNCHANGED <<userVars, tenants_by_id, abandoned>>

(* A request may be cancelled between any two calls. *)
Abandon(t) ==
  /\ pc[t] # "user"
  /\ abandoned' = abandoned \cup ({opened[t]} \ {None})
  /\ Forget(t)
  /\ UNCHANGED <<userVars, tenants_by_id, memberVars, reply>>

-----------------------------------------------------------------------------
SignupInit ==
  /\ Init /\ T!Init /\ M!Init
  /\ pc = [t \in Task |-> "user"]
  /\ owner = [t \in Task |-> None]
  /\ opened = [t \in Task |-> None]
  /\ abandoned = {}

(* What the event loop does for a request once it has been started. *)
Resume(t) ==
  \/ \E n \in Tenant, label \in Label : CreateTenant(t, n, label)
  \/ \E i \in MembershipId : CreateOwner(t, i)

SignupNext ==
  \E t \in Task :
    \/ \E u \in Id, e \in Spelling, p \in Password : CreateUser(t, u, e, p)
    \/ \E e \in Spelling : UserRefused(t, e)
    \/ Resume(t)
    \/ Abandon(t)

SignupSpec == SignupInit /\ [][SignupNext]_signupVars

(* The event loop resumes every request whose call has returned. *)
FairSignupSpec == SignupSpec /\ \A t \in Task : WF_signupVars(Resume(t))

-----------------------------------------------------------------------------
(* Properties *)

OwnersOf(n) == {i \in DOMAIN memberships_by_id :
                  memberships_by_id[i].tenant_id = n}

(* A signup that is refused leaves nothing behind, and one that is         *)
(* cancelled at most a user and a tenant: every tenant was opened by a     *)
(* user of its own, also when several requests want one address.           *)
TenantsNeverOutnumberUsers ==
  Cardinality(DOMAIN tenants_by_id) <= Cardinality(DOMAIN users_by_id)

(* "All-or-nothing behaviour across tenant creation and the owner's first  *)
(* TenantMembership" (tenant_repository.py), as far as three calls can     *)
(* have it: unless its own request is cancelled, every tenant gets an      *)
(* owner, whatever the other requests do.                                  *)
EveryTenantGetsItsOwner ==
  \A n \in Tenant :
    n \in DOMAIN tenants_by_id ~> (OwnersOf(n) # {} \/ n \in abandoned)
=============================================================================
