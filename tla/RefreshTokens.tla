---------------------------- MODULE RefreshTokens ----------------------------
(***************************************************************************)
(* The refresh-token repository of the identity service: the three dicts   *)
(* of InMemoryIdentityStore that hold refresh tokens, the methods of       *)
(* InMemoryRefreshTokenRepository that write them, and the validators of   *)
(* RefreshTokenRecord that every write goes through.                       *)
(*                                                                         *)
(* One action is one method call.  A method awaits nothing while it holds  *)
(* the store's lock, so on the event loop its body is one atomic step; a   *)
(* call that raises leaves its reply behind and, the sweeps excepted,      *)
(* nothing else.  The caller is unrestricted: it may pass any argument at  *)
(* any time, so what is shown here holds for every service built on top.   *)
(***************************************************************************)
EXTENDS Repository, FiniteSets

CONSTANTS
  Id,       \* token UUIDs (uuid4: a new one is one not used before)
  Hash,     \* token hashes
  Family,   \* family UUIDs, chosen by the caller
  User,
  Tenant,
  Time      \* instants, for the clock and for the timestamps callers pass

ASSUME TimeAssumption == Time \subseteq Int
ASSUME NoneAssumption == None \notin Id \cup Time \cup Hash

VARIABLES
  refresh_tokens_by_id,
  refresh_token_id_by_hash,
  refresh_token_ids_by_family,
  reply     \* what the last call returned or raised

indexes == <<refresh_token_id_by_hash, refresh_token_ids_by_family>>
store == <<refresh_tokens_by_id, indexes>>
vars == <<store, reply>>

Status == {"active", "rotated", "revoked"}

Token == [user_id: User, tenant_id: Tenant, family_id: Family,
          token_hash: Hash, status: Status, issued_at: Time,
          expires_at: Time, rotated_at: Time \cup {None},
          revoked_at: Time \cup {None},
          replaced_by_token_id: Id \cup {None}]

-----------------------------------------------------------------------------
(* Records and their validators *)

\* Mutant: replaced_by_token_id allowed only while rotated.
ValidTokenStrict(r) ==
  /\ r.expires_at > r.issued_at
  /\ r.replaced_by_token_id # None => r.status = "rotated"
  /\ r.status = "rotated" => r.rotated_at # None
  /\ r.status = "revoked" => r.revoked_at # None

(* What the constructor RefreshTokenRecord(...) accepts. *)
ValidToken(r) ==
  /\ r.expires_at > r.issued_at
  /\ r.replaced_by_token_id # None => r.status # "active"
  /\ r.status = "rotated" => r.rotated_at # None
  /\ r.status = "revoked" => r.revoked_at # None

NewToken(u, t, f, h, iat, exp) ==
  [user_id |-> u, tenant_id |-> t, family_id |-> f, token_hash |-> h,
   status |-> "active", issued_at |-> iat, expires_at |-> exp,
   rotated_at |-> None, revoked_at |-> None, replaced_by_token_id |-> None]

\* Mutant: the hash stored where the successor's id belongs.
RotatedSwapped(r, successor, at) ==
  [r EXCEPT !.status = "rotated", !.rotated_at = at,
            !.replaced_by_token_id = r.token_hash]

(* The record mark_rotated() and the sweeps rebuild from the stored one. *)
Rotated(r, successor, at) ==
  [r EXCEPT !.status = "rotated", !.rotated_at = at,
            !.replaced_by_token_id = successor]

\* Mutant: revocation forgets the successor.
RevokedForgetful(r, at) ==
  [r EXCEPT !.status = "revoked", !.revoked_at = at,
            !.rotated_at = None, !.replaced_by_token_id = None]

Revoked(r, at) == [r EXCEPT !.status = "revoked", !.revoked_at = at]

-----------------------------------------------------------------------------
(* create() *)

\* Mutant: the family index is set on first use only.
CreateUnindexed(i, u, t, f, h, iat, exp) ==
  /\ h \notin DOMAIN refresh_token_id_by_hash
  /\ i \in Id \ DOMAIN refresh_tokens_by_id
  /\ ValidToken(NewToken(u, t, f, h, iat, exp))
  /\ refresh_tokens_by_id' =
       Put(refresh_tokens_by_id, i, NewToken(u, t, f, h, iat, exp))
  /\ refresh_token_id_by_hash' = Put(refresh_token_id_by_hash, h, i)
  /\ refresh_token_ids_by_family' =
       IF f \in DOMAIN refresh_token_ids_by_family
       THEN refresh_token_ids_by_family
       ELSE Put(refresh_token_ids_by_family, f, {i})
  /\ reply' = Returned(1)

(* refresh_token_ids_by_family.get(family_id, set()) *)
IdsOfFamily(f) ==
  IF f \in DOMAIN refresh_token_ids_by_family
  THEN refresh_token_ids_by_family[f]
  ELSE {}

Create(i, u, t, f, h, iat, exp) ==
  /\ h \notin DOMAIN refresh_token_id_by_hash
  /\ i \in Id \ DOMAIN refresh_tokens_by_id
  /\ ValidToken(NewToken(u, t, f, h, iat, exp))
  /\ refresh_tokens_by_id' =
       Put(refresh_tokens_by_id, i, NewToken(u, t, f, h, iat, exp))
  /\ refresh_token_id_by_hash' = Put(refresh_token_id_by_hash, h, i)
  /\ refresh_token_ids_by_family' =
       Put(refresh_token_ids_by_family, f, IdsOfFamily(f) \cup {i})
  /\ reply' = Returned(1)

(* A taken hash is refused first; of the validators, only the expiry       *)
(* ordering can refuse a new record.                                       *)
CreateRaises(h, iat, exp) ==
  /\ \/ /\ h \in DOMAIN refresh_token_id_by_hash
        /\ reply' = Raised("DuplicateEntryError")
     \/ /\ h \notin DOMAIN refresh_token_id_by_hash
        /\ exp <= iat
        /\ reply' = Raised("ValidationError")
  /\ UNCHANGED store

-----------------------------------------------------------------------------
(* mark_rotated() *)

\* Mutant: only a revoked token is refused.
MarkRotatedAgain(h, successor, at) ==
  /\ h \in DOMAIN refresh_token_id_by_hash
  /\ LET i == refresh_token_id_by_hash[h] IN
       /\ refresh_tokens_by_id[i].status # "revoked"
       /\ ValidToken(Rotated(refresh_tokens_by_id[i], successor, at))
       /\ refresh_tokens_by_id' =
            [refresh_tokens_by_id EXCEPT ![i] = Rotated(@, successor, at)]
  /\ reply' = Returned(1)
  /\ UNCHANGED indexes

\* Mutant: the status is not looked at.
MarkRotatedUnguarded(h, successor, at) ==
  /\ h \in DOMAIN refresh_token_id_by_hash
  /\ LET i == refresh_token_id_by_hash[h] IN
       refresh_tokens_by_id' =
         [refresh_tokens_by_id EXCEPT ![i] = Rotated(@, successor, at)]
  /\ reply' = Returned(1)
  /\ UNCHANGED indexes

MarkRotated(h, successor, at) ==
  /\ h \in DOMAIN refresh_token_id_by_hash
  /\ LET i == refresh_token_id_by_hash[h] IN
       /\ refresh_tokens_by_id[i].status = "active"
       /\ ValidToken(Rotated(refresh_tokens_by_id[i], successor, at))
       /\ refresh_tokens_by_id' =
            [refresh_tokens_by_id EXCEPT ![i] = Rotated(@, successor, at)]
  /\ reply' = Returned(1)
  /\ UNCHANGED indexes

(* That the rebuilt record is never refused is RebuildsAreValid below. *)
MarkRotatedRaises(h) ==
  /\ \/ /\ h \notin DOMAIN refresh_token_id_by_hash
        /\ reply' = Raised("RecordNotFoundError")
     \/ /\ h \in DOMAIN refresh_token_id_by_hash
        /\ refresh_tokens_by_id[refresh_token_id_by_hash[h]].status # "active"
        /\ reply' = Raised("ConcurrentUpdateError")
  /\ UNCHANGED store

-----------------------------------------------------------------------------
(* revoke_family() and revoke_all_active() *)

(* The loop over the rows in scope: skip the revoked, rebuild the others   *)
(* one by one in no fixed order.  A row whose rebuilt record is invalid    *)
(* raises there and then, and what was done before it stays done.          *)
Sweep(scope, at) ==
  LET live == {i \in scope : refresh_tokens_by_id[i].status # "revoked"}
      Rebuilds(i) == ValidToken(Revoked(refresh_tokens_by_id[i], at))
  IN \E done \in SUBSET live :
       /\ \A i \in done : Rebuilds(i)
       /\ done # live => \E i \in live \ done : ~Rebuilds(i)
       /\ refresh_tokens_by_id' =
            [i \in DOMAIN refresh_tokens_by_id |->
               IF i \in done THEN Revoked(refresh_tokens_by_id[i], at)
                             ELSE refresh_tokens_by_id[i]]
       /\ reply' = IF done = live THEN Returned(Cardinality(done))
                                  ELSE Raised("ValidationError")
       /\ UNCHANGED indexes

\* Mutant: only the active leaf is swept.
RevokeFamilyLeaf(f, at) ==
  Sweep({i \in IdsOfFamily(f) : refresh_tokens_by_id[i].status = "active"}, at)

RevokeFamily(f, at) == Sweep(IdsOfFamily(f), at)

\* Mutant: the tenant is not compared.
RevokeAllActiveAnyTenant(u, t, at) ==
  Sweep({i \in DOMAIN refresh_tokens_by_id :
           refresh_tokens_by_id[i].user_id = u}, at)

RevokeAllActive(u, t, at) ==
  Sweep({i \in DOMAIN refresh_tokens_by_id :
           /\ refresh_tokens_by_id[i].user_id = u
           /\ refresh_tokens_by_id[i].tenant_id = t}, at)

-----------------------------------------------------------------------------
Init ==
  /\ refresh_tokens_by_id = <<>>
  /\ refresh_token_id_by_hash = <<>>
  /\ refresh_token_ids_by_family = <<>>
  /\ reply = Returned(0)

Next ==
  \/ \E i \in Id, u \in User, t \in Tenant, f \in Family, h \in Hash,
        iat, exp \in Time : Create(i, u, t, f, h, iat, exp)
  \/ \E h \in Hash, iat, exp \in Time : CreateRaises(h, iat, exp)
  \/ \E h \in Hash, successor \in Id, at \in Time :
       MarkRotated(h, successor, at)
  \/ \E h \in Hash : MarkRotatedRaises(h)
  \/ \E f \in Family, at \in Time : RevokeFamily(f, at)
  \/ \E u \in User, t \in Tenant, at \in Time : RevokeAllActive(u, t, at)

Spec == Init /\ [][Next]_vars

-----------------------------------------------------------------------------
(* Properties *)

(* Every dict holds what its annotation in store.py says. *)
TypeOK ==
  /\ DOMAIN refresh_tokens_by_id \subseteq Id
  /\ refresh_tokens_by_id \in [DOMAIN refresh_tokens_by_id -> Token]
  /\ DOMAIN refresh_token_id_by_hash \subseteq Hash
  /\ refresh_token_id_by_hash \in [DOMAIN refresh_token_id_by_hash -> Id]
  /\ DOMAIN refresh_token_ids_by_family \subseteq Family
  /\ refresh_token_ids_by_family \in
       [DOMAIN refresh_token_ids_by_family -> SUBSET Id]
  /\ reply \in Reply

(* The hash index and the table hold the same pairs, both ways: a lookup   *)
(* by hash cannot miss a token, find another one or hit a missing row.     *)
HashIndexAgrees ==
  /\ \A i \in DOMAIN refresh_tokens_by_id :
       LET h == refresh_tokens_by_id[i].token_hash IN
         /\ h \in DOMAIN refresh_token_id_by_hash
         /\ refresh_token_id_by_hash[h] = i
  /\ \A h \in DOMAIN refresh_token_id_by_hash :
       /\ refresh_token_id_by_hash[h] \in DOMAIN refresh_tokens_by_id
       /\ refresh_tokens_by_id[refresh_token_id_by_hash[h]].token_hash = h

(* The family index lists exactly the rows of each family. *)
FamilyIndexAgrees ==
  \A f \in Family :
    IdsOfFamily(f) = {i \in DOMAIN refresh_tokens_by_id :
                        refresh_tokens_by_id[i].family_id = f}

(* "Each repository owns updating its own primary collection and secondary *)
(* indexes together [...] so they never drift out of sync" (store.py).     *)
IndexesAgree == HashIndexAgrees /\ FamilyIndexAgrees

(* What the status of a stored row says about its other fields; it is more *)
(* than the validators ask for (they let an active row carry revoked_at).  *)
LifecycleCoherent ==
  \A i \in DOMAIN refresh_tokens_by_id :
    LET r == refresh_tokens_by_id[i] IN
      /\ r.expires_at > r.issued_at
      /\ (r.status = "revoked") <=> (r.revoked_at # None)
      /\ r.status = "active" => r.rotated_at = None
      /\ r.status = "rotated" => r.rotated_at # None
      /\ (r.rotated_at # None) <=> (r.replaced_by_token_id # None)

(* Every rebuild a method may attempt on a stored row passes the           *)
(* validators: mark_rotated() on an active row never raises                *)
(* ValidationError, and no sweep stops half way.                           *)
RebuildsAreValid ==
  \A i \in DOMAIN refresh_tokens_by_id, at \in Time, successor \in Id :
    LET r == refresh_tokens_by_id[i] IN
      /\ r.status = "active" => ValidToken(Rotated(r, successor, at))
      /\ ValidToken(Revoked(r, at))

(* The past of row r that a call has turned into s is kept. *)
KeepsHistory(r, s) ==
  /\ \A c \in {"user_id", "tenant_id", "family_id", "token_hash",
              "issued_at", "expires_at"} : s[c] = r[c]
  /\ r.rotated_at # None =>
       /\ s.rotated_at = r.rotated_at
       /\ s.replaced_by_token_id = r.replaced_by_token_id
  /\ r.status = "rotated" => s.status # "active"
  /\ r.status = "revoked" => s = r

HistoryKept ==
  \A i \in DOMAIN refresh_tokens_by_id :
    /\ i \in DOMAIN refresh_tokens_by_id'
    /\ KeepsHistory(refresh_tokens_by_id[i], refresh_tokens_by_id'[i])

(* A token only moves forward, active -> rotated -> revoked, and what its  *)
(* life has recorded is never rewritten: who owns it, when it was rotated  *)
(* and by which token ("a permanent record", refresh_token.py), and when   *)
(* it was first revoked however often it is swept again.                   *)
HistoryIsPermanent == [][HistoryKept]_vars

(* The rows a sweep leaves revoked are exactly those the caller meant, by  *)
(* the rows' own fields and not by an index; nothing else is touched, and  *)
(* the count it returns is the number of rows that changed.                *)
RevokesExactly(S) ==
  LET changed == {i \in DOMAIN refresh_tokens_by_id :
                    refresh_tokens_by_id'[i] # refresh_tokens_by_id[i]}
  IN /\ \A i \in S : refresh_tokens_by_id'[i].status = "revoked"
     /\ changed \subseteq S
     /\ reply' = Returned(Cardinality(changed))

FamilySweep ==
  \A f \in Family, at \in Time : RevokeFamily(f, at) =>
    RevokesExactly({i \in DOMAIN refresh_tokens_by_id :
                      refresh_tokens_by_id[i].family_id = f})

LogoutAllSweep ==
  \A u \in User, t \in Tenant, at \in Time : RevokeAllActive(u, t, at) =>
    RevokesExactly({i \in DOMAIN refresh_tokens_by_id :
                      /\ refresh_tokens_by_id[i].user_id = u
                      /\ refresh_tokens_by_id[i].tenant_id = t})

(* revoke_family() revokes "every non-revoked row in one family, including *)
(* the active leaf and rotated ancestors", and no row outside it.          *)
FamilySweepIsExact == [][FamilySweep]_vars

(* revoke_all_active() covers all the families of the user in the tenant,  *)
(* and no row of another user or tenant.                                   *)
LogoutAllIsExact == [][LogoutAllSweep]_vars

(* refresh_token.py: "Expiry is checked against expires_at at lookup time  *)
(* rather than tracked as a stored transition".  If it were, no token      *)
(* would be rotated at or after its expiry.                                *)
NoRotationAfterExpiry ==
  \A i \in DOMAIN refresh_tokens_by_id :
    LET r == refresh_tokens_by_id[i] IN
      r.rotated_at # None => r.rotated_at < r.expires_at
=============================================================================
