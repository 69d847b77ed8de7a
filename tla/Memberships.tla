----------------------------- MODULE Memberships -----------------------------
(***************************************************************************)
(* The membership repository of the identity service: its three dicts in   *)
(* InMemoryIdentityStore and the methods of InMemoryMembershipRepository.  *)
(* One action is one method call, atomic on the event loop; the caller may *)
(* pass any argument at any time, and to update() any record.              *)
(***************************************************************************)
EXTENDS Repository, Sequences

CONSTANTS
  Id,          \* membership UUIDs (uuid4: a new one is one not used before)
  User,
  Tenant,
  Role,
  MaxVersion   \* bound on permissions_version, an unbounded int in the code

ASSUME MaxVersionAssumption == MaxVersion \in Nat

VARIABLES
  memberships_by_id,
  membership_id_by_user_tenant,
  membership_ids_by_user,
  reply     \* what the last call returned or raised

indexes == <<membership_id_by_user_tenant, membership_ids_by_user>>
store == <<memberships_by_id, indexes>>
vars == <<store, reply>>

Status == {"active", "suspended", "revoked"}

(* The two timestamps are copied and never read. *)
Membership == [user_id: User, tenant_id: Tenant, role: Role, status: Status,
               permissions_version: 0 .. MaxVersion]

NewMembership(u, n, role) ==
  [user_id |-> u, tenant_id |-> n, role |-> role, status |-> "active",
   permissions_version |-> 0]

-----------------------------------------------------------------------------
(* Lookups *)

(* get_by_user_and_tenant(): the id of the membership it returns, or None. *)
GetByUserAndTenant(u, n) ==
  IF <<u, n>> \in DOMAIN membership_id_by_user_tenant
  THEN membership_id_by_user_tenant[<<u, n>>]
  ELSE None

(* get_memberships_for_user(): the ids of what it returns, in order. *)
IdsOfUser(u) ==
  IF u \in DOMAIN membership_ids_by_user
  THEN membership_ids_by_user[u]
  ELSE <<>>

-----------------------------------------------------------------------------
(* create() *)

\* Mutant: the id enters the user's list before the uniqueness check.
CreateListedFirst(i, u, n, role) ==
  /\ i \in Id \ DOMAIN memberships_by_id
  /\ membership_ids_by_user' =
       Put(membership_ids_by_user, u, Append(IdsOfUser(u), i))
  /\ IF <<u, n>> \in DOMAIN membership_id_by_user_tenant
     THEN /\ reply' = Raised("DuplicateEntryError")
          /\ UNCHANGED <<memberships_by_id, membership_id_by_user_tenant>>
     ELSE /\ memberships_by_id' =
               Put(memberships_by_id, i, NewMembership(u, n, role))
          /\ membership_id_by_user_tenant' =
               Put(membership_id_by_user_tenant, <<u, n>>, i)
          /\ reply' = Returned(1)

\* Mutant: the newest membership comes first.
CreateListedInFront(i, u, n, role) ==
  /\ <<u, n>> \notin DOMAIN membership_id_by_user_tenant
  /\ i \in Id \ DOMAIN memberships_by_id
  /\ memberships_by_id' = Put(memberships_by_id, i, NewMembership(u, n, role))
  /\ membership_id_by_user_tenant' =
       Put(membership_id_by_user_tenant, <<u, n>>, i)
  /\ membership_ids_by_user' =
       Put(membership_ids_by_user, u, <<i>> \o IdsOfUser(u))
  /\ reply' = Returned(1)

Create(i, u, n, role) ==
  /\ <<u, n>> \notin DOMAIN membership_id_by_user_tenant
  /\ i \in Id \ DOMAIN memberships_by_id
  /\ memberships_by_id' = Put(memberships_by_id, i, NewMembership(u, n, role))
  /\ membership_id_by_user_tenant' =
       Put(membership_id_by_user_tenant, <<u, n>>, i)
  /\ membership_ids_by_user' =
       Put(membership_ids_by_user, u, Append(IdsOfUser(u), i))
  /\ reply' = Returned(1)

CreateRaises(u, n) ==
  /\ <<u, n>> \in DOMAIN membership_id_by_user_tenant
  /\ reply' = Raised("DuplicateEntryError")
  /\ UNCHANGED store

-----------------------------------------------------------------------------
(* update(): membership is the caller's copy, under the id it carries *)

\* Mutant: the version is not among the fields that are stored.
UpdateKeepsVersion(i, membership) ==
  /\ i \in DOMAIN memberships_by_id
  /\ memberships_by_id[i].user_id = membership.user_id
  /\ memberships_by_id[i].tenant_id = membership.tenant_id
  /\ memberships_by_id' =
       [memberships_by_id EXCEPT ![i] =
          [membership EXCEPT !.permissions_version =
             memberships_by_id[i].permissions_version]]
  /\ reply' = Returned(1)
  /\ UNCHANGED indexes

Update(i, membership) ==
  /\ i \in DOMAIN memberships_by_id
  /\ memberships_by_id[i].user_id = membership.user_id
  /\ memberships_by_id[i].tenant_id = membership.tenant_id
  /\ memberships_by_id' = [memberships_by_id EXCEPT ![i] = membership]
  /\ reply' = Returned(1)
  /\ UNCHANGED indexes

UpdateRaises(i, membership) ==
  /\ \/ /\ i \notin DOMAIN memberships_by_id
        /\ reply' = Raised("RecordNotFoundError")
     \/ /\ i \in DOMAIN memberships_by_id
        /\ \/ memberships_by_id[i].user_id # membership.user_id
           \/ memberships_by_id[i].tenant_id # membership.tenant_id
        /\ reply' = Raised("NotImplementedError")
  /\ UNCHANGED store

-----------------------------------------------------------------------------
Init ==
  /\ memberships_by_id = <<>>
  /\ membership_id_by_user_tenant = <<>>
  /\ membership_ids_by_user = <<>>
  /\ reply = Returned(0)

Next ==
  \/ \E i \in Id, u \in User, n \in Tenant, role \in Role :
       Create(i, u, n, role)
  \/ \E u \in User, n \in Tenant : CreateRaises(u, n)
  \/ \E i \in Id, membership \in Membership :
       Update(i, membership) \/ UpdateRaises(i, membership)

Spec == Init /\ [][Next]_vars

-----------------------------------------------------------------------------
(* Properties *)

(* The three dicts hold what their annotations in store.py say. *)
TypeOK ==
  /\ DOMAIN memberships_by_id \subseteq Id
  /\ memberships_by_id \in [DOMAIN memberships_by_id -> Membership]
  /\ DOMAIN membership_id_by_user_tenant \subseteq User \X Tenant
  /\ membership_id_by_user_tenant \in
       [DOMAIN membership_id_by_user_tenant -> Id]
  /\ DOMAIN membership_ids_by_user \subseteq User
  /\ membership_ids_by_user \in [DOMAIN membership_ids_by_user -> Seq(Id)]
  /\ reply \in Reply

(* The three dicts tell one story: the pair index finds exactly the        *)
(* memberships there are, one per user and tenant, and the list of a user  *)
(* holds each of that user's memberships once and no other.  "Silently     *)
(* rewriting indexes [...] quietly corrupts a store" (in_memory/           *)
(* membership_repository.py): no update does.                              *)
IndexesAgree ==
  /\ \A i \in DOMAIN memberships_by_id :
       LET m == memberships_by_id[i] IN
         GetByUserAndTenant(m.user_id, m.tenant_id) = i
  /\ \A key \in DOMAIN membership_id_by_user_tenant :
       LET i == membership_id_by_user_tenant[key] IN
         /\ i \in DOMAIN memberships_by_id
         /\ <<memberships_by_id[i].user_id, memberships_by_id[i].tenant_id>>
              = key
  /\ \A u \in User :
       LET ids == IdsOfUser(u) IN
         /\ {ids[k] : k \in DOMAIN ids} =
              {i \in DOMAIN memberships_by_id :
                 memberships_by_id[i].user_id = u}
         /\ \A k, l \in DOMAIN ids : ids[k] = ids[l] => k = l

(* A user's list only grows at its end: the order in which GET             *)
(* /v1/users/me lists the memberships never changes ("insertion order [...]*)
(* is a reasonable, deterministic default", store.py), and no membership   *)
(* is lost from it or from the pair index.                                 *)
Grows ==
  /\ \A u \in DOMAIN membership_ids_by_user :
       LET ids == membership_ids_by_user[u] IN
         /\ u \in DOMAIN membership_ids_by_user'
         /\ SubSeq(membership_ids_by_user'[u], 1, Len(ids)) = ids
  /\ \A key \in DOMAIN membership_id_by_user_tenant :
       /\ key \in DOMAIN membership_id_by_user_tenant'
       /\ membership_id_by_user_tenant'[key] = membership_id_by_user_tenant[key]

JoinOrderIsStable == [][Grows]_vars
=============================================================================
