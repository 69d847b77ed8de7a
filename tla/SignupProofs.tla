---------------------------- MODULE SignupProofs ----------------------------
(***************************************************************************)
(* A theorem about Signup, for every value of its constants, and so for    *)
(* any number of requests.  The invariant of the run counts what is stored;*)
(* to be inductive it also has to count the requests under way: a tenant   *)
(* that is still to be made is counted as if it were there.                *)
(***************************************************************************)
EXTENDS Signup, FiniteSetTheorems, TLAPS

OpenersTyped ==
  /\ pc \in [Task -> {"user", "tenant", "membership"}]
  /\ owner \in [Task -> Id \cup {None}]
  /\ opened \in [Task -> Tenant \cup {None}]

(* A request that is about to make a tenant has a user to spare for it. *)
Waiting == {t \in Task : pc[t] = "tenant"}

TenantsCounted ==
  /\ IsFiniteSet(DOMAIN users_by_id)
  /\ IsFiniteSet(DOMAIN tenants_by_id)
  /\ IsFiniteSet(Waiting)
  /\ Cardinality(DOMAIN tenants_by_id) + Cardinality(Waiting)
       <= Cardinality(DOMAIN users_by_id)

SignupInv ==
  /\ OpenersTyped
  /\ TenantsCounted

(* An action of one request as the others see it. *)
LEMMA SignupGoto ==
  ASSUME OpenersTyped, NEW t \in Task, NEW label, NEW u, NEW n,
         Goto(t, label, u, n)
  PROVE  /\ pc'[t] = label /\ owner'[t] = u /\ opened'[t] = n
         /\ \A s \in Task \ {t} :
              pc'[s] = pc[s] /\ owner'[s] = owner[s] /\ opened'[s] = opened[s]
         /\ label \in {"user", "tenant", "membership"}
              /\ u \in Id \cup {None} /\ n \in Tenant \cup {None}
              => OpenersTyped'
  BY DEF OpenersTyped, Goto

(* The first signup finds an empty store and no request under way. *)
LEMMA InitSignupInv == SignupInit => SignupInv
<1> SUFFICES ASSUME SignupInit PROVE SignupInv
  OBVIOUS
<1>1. /\ DOMAIN users_by_id = {}
      /\ DOMAIN tenants_by_id = {}
      /\ DOMAIN memberships_by_id = {}
      /\ pc = [t \in Task |-> "user"]
      /\ owner = [t \in Task |-> None]
      /\ opened = [t \in Task |-> None]
  BY DEF SignupInit, Init, T!Init, M!Init
<1>2. Waiting = {}
  BY <1>1 DEF Waiting
<1>3. TenantsCounted
  BY <1>1, <1>2, FS_EmptySet DEF TenantsCounted
<1> QED
  BY <1>1, <1>3 DEF SignupInv, OpenersTyped

(* A new user that a request goes on to make a tenant for. *)
LEMMA CreateUserKeepsSignupInv ==
  ASSUME SignupInv, NEW t \in Task, NEW u \in Id, NEW e, NEW p,
         CreateUser(t, u, e, p)
  PROVE  SignupInv'
<1>1. /\ pc[t] = "user"
      /\ u \notin DOMAIN users_by_id
      /\ DOMAIN users_by_id' = DOMAIN users_by_id \cup {u}
      /\ Goto(t, "tenant", u, None)
      /\ tenants_by_id' = tenants_by_id
  BY DEF CreateUser, Create, Put, memberVars
<1>2. /\ pc'[t] = "tenant" /\ owner'[t] = u /\ opened'[t] = None
      /\ \A s \in Task \ {t} :
           pc'[s] = pc[s] /\ owner'[s] = owner[s] /\ opened'[s] = opened[s]
      /\ OpenersTyped'
  BY <1>1, SignupGoto DEF SignupInv
<1>3. TenantsCounted'
  <2>1. Waiting' = Waiting \cup {t} /\ t \notin Waiting
    BY <1>1, <1>2 DEF Waiting
  <2>2. /\ IsFiniteSet(Waiting')
        /\ Cardinality(Waiting') = Cardinality(Waiting) + 1
    BY <2>1, FS_AddElement DEF SignupInv, TenantsCounted
  <2>3. /\ IsFiniteSet(DOMAIN users_by_id')
        /\ Cardinality(DOMAIN users_by_id') =
             Cardinality(DOMAIN users_by_id) + 1
    BY <1>1, FS_AddElement DEF SignupInv, TenantsCounted
  <2>4. /\ Cardinality(DOMAIN users_by_id) \in Nat
        /\ Cardinality(DOMAIN tenants_by_id) \in Nat
        /\ Cardinality(Waiting) \in Nat
    BY FS_CardinalityType DEF SignupInv, TenantsCounted
  <2> QED
    BY <1>1, <2>2, <2>3, <2>4 DEF SignupInv, TenantsCounted
<1> QED
  BY <1>2, <1>3 DEF SignupInv

(* A tenant of a request that has made its user. *)
LEMMA CreateTenantKeepsSignupInv ==
  ASSUME SignupInv, NEW t \in Task, NEW n \in Tenant, NEW label,
         CreateTenant(t, n, label)
  PROVE  SignupInv'
<1>1. /\ pc[t] = "tenant"
      /\ n \notin DOMAIN tenants_by_id
      /\ DOMAIN tenants_by_id' = DOMAIN tenants_by_id \cup {n}
      /\ Goto(t, "membership", owner[t], n)
      /\ users_by_id' = users_by_id
  BY DEF CreateTenant, T!Create, T!Put, memberVars, userVars, store
<1>2. /\ pc'[t] = "membership" /\ owner'[t] = owner[t] /\ opened'[t] = n
      /\ \A s \in Task \ {t} :
           pc'[s] = pc[s] /\ owner'[s] = owner[s] /\ opened'[s] = opened[s]
      /\ OpenersTyped'
  <2>1. owner[t] \in Id \cup {None}
    BY DEF SignupInv, OpenersTyped
  <2> QED
    BY <1>1, <2>1, SignupGoto DEF SignupInv
<1>3. TenantsCounted'
  <2>1. Waiting' = Waiting \ {t} /\ t \in Waiting
    BY <1>1, <1>2 DEF Waiting
  <2>2. /\ IsFiniteSet(Waiting')
        /\ Cardinality(Waiting') = Cardinality(Waiting) - 1
    BY <2>1, FS_RemoveElement DEF SignupInv, TenantsCounted
  <2>3. /\ IsFiniteSet(DOMAIN tenants_by_id')
        /\ Cardinality(DOMAIN tenants_by_id') =
             Cardinality(DOMAIN tenants_by_id) + 1
    BY <1>1, FS_AddElement DEF SignupInv, TenantsCounted
  <2>4. /\ Cardinality(DOMAIN users_by_id) \in Nat
        /\ Cardinality(DOMAIN tenants_by_id) \in Nat
        /\ Cardinality(Waiting) \in Nat
    BY FS_CardinalityType DEF SignupInv, TenantsCounted
  <2> QED
    BY <1>1, <2>2, <2>3, <2>4 DEF SignupInv, TenantsCounted
<1> QED
  BY <1>2, <1>3 DEF SignupInv

(* The owner's membership ends the request. *)
LEMMA CreateOwnerKeepsSignupInv ==
  ASSUME SignupInv, NEW t \in Task, NEW i, CreateOwner(t, i)
  PROVE  SignupInv'
<1>1. /\ pc[t] = "membership"
      /\ Goto(t, "user", None, None)
      /\ users_by_id' = users_by_id
      /\ tenants_by_id' = tenants_by_id
  BY DEF CreateOwner, Forget, userVars, store
<1>2. /\ pc'[t] = "user"
      /\ \A s \in Task \ {t} : pc'[s] = pc[s]
      /\ OpenersTyped'
  BY <1>1, SignupGoto DEF SignupInv
<1>3. TenantsCounted'
  <2>1. Waiting' = Waiting
    BY <1>1, <1>2 DEF Waiting
  <2> QED
    BY <1>1, <2>1 DEF SignupInv, TenantsCounted
<1> QED
  BY <1>2, <1>3 DEF SignupInv

(* A request that is cancelled leaves what it has made behind. *)
LEMMA AbandonKeepsSignupInv ==
  ASSUME SignupInv, NEW t \in Task, Abandon(t)
  PROVE  SignupInv'
<1>1. /\ Goto(t, "user", None, None)
      /\ users_by_id' = users_by_id
      /\ tenants_by_id' = tenants_by_id
  BY DEF Abandon, Forget, userVars, store, memberVars
<1>2. /\ pc'[t] = "user"
      /\ \A s \in Task \ {t} :
           pc'[s] = pc[s] /\ owner'[s] = owner[s] /\ opened'[s] = opened[s]
      /\ OpenersTyped'
  BY <1>1, SignupGoto DEF SignupInv
<1>3. TenantsCounted'
  <2>1. Waiting' \in SUBSET Waiting
    BY <1>2 DEF Waiting
  <2>2. /\ IsFiniteSet(Waiting')
        /\ Cardinality(Waiting') <= Cardinality(Waiting)
    BY <2>1, FS_Subset DEF SignupInv, TenantsCounted
  <2>3. /\ Cardinality(DOMAIN users_by_id) \in Nat
        /\ Cardinality(DOMAIN tenants_by_id) \in Nat
        /\ Cardinality(Waiting) \in Nat
        /\ Cardinality(Waiting') \in Nat
    BY <2>2, FS_CardinalityType DEF SignupInv, TenantsCounted
  <2> QED
    BY <1>1, <2>2, <2>3 DEF SignupInv, TenantsCounted
<1> QED
  BY <1>2, <1>3 DEF SignupInv

(* What a step leaves when it writes nothing but a reply. *)
LEMMA QuietKeepsSignupInv ==
  ASSUME SignupInv, UNCHANGED <<users_by_id, tenants_by_id, pc, owner, opened>>
  PROVE  SignupInv'
  BY DEF SignupInv, OpenersTyped, TenantsCounted, Waiting

(* Every step of every request keeps the signup invariant. *)
LEMMA NextSignupInv == SignupInv /\ [SignupNext]_(signupVars) => SignupInv'
<1> SUFFICES ASSUME SignupInv, [SignupNext]_(signupVars) PROVE SignupInv'
  OBVIOUS
<1>1. ASSUME NEW t \in Task, NEW u \in Id, NEW e \in Spelling,
             NEW p \in Password, CreateUser(t, u, e, p)
      PROVE  SignupInv'
  BY <1>1, CreateUserKeepsSignupInv
<1>2. ASSUME NEW t \in Task, NEW e \in Spelling, UserRefused(t, e)
      PROVE  SignupInv'
  BY <1>2, QuietKeepsSignupInv
     DEF UserRefused, CreateRaises, store, memberVars, locals
<1>3. ASSUME NEW t \in Task, Resume(t) PROVE SignupInv'
  BY <1>3, CreateTenantKeepsSignupInv, CreateOwnerKeepsSignupInv
     DEF Resume
<1>4. ASSUME NEW t \in Task, Abandon(t) PROVE SignupInv'
  BY <1>4, AbandonKeepsSignupInv
<1>5. CASE UNCHANGED signupVars
  BY <1>5, QuietKeepsSignupInv
     DEF signupVars, userVars, store, memberVars, locals
<1> QED
  BY <1>1, <1>2, <1>3, <1>4, <1>5 DEF SignupNext

(* The signup invariant holds for ever. *)
LEMMA SignupInvariance == SignupSpec => []SignupInv
  BY InitSignupInv, NextSignupInv, PTL DEF SignupSpec

-----------------------------------------------------------------------------
(* Theorem *)

(* No signup that is refused leaves a tenant behind. *)
THEOREM TenantsAlwaysHaveAUserEach ==
  SignupSpec => []TenantsNeverOutnumberUsers
<1>1. SignupInv => TenantsNeverOutnumberUsers
  <2>1. SignupInv => /\ Cardinality(Waiting) \in Nat
                     /\ Cardinality(DOMAIN users_by_id) \in Nat
                     /\ Cardinality(DOMAIN tenants_by_id) \in Nat
    BY FS_CardinalityType DEF SignupInv, TenantsCounted
  <2> QED
    BY <2>1 DEF SignupInv, TenantsCounted, TenantsNeverOutnumberUsers
<1> QED
  BY <1>1, SignupInvariance, PTL
=============================================================================
