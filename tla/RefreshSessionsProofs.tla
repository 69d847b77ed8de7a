------------------------ MODULE RefreshSessionsProofs ------------------------
(***************************************************************************)
(* Theorems about RefreshTokens and about RefreshSessions, for every value *)
(* of their constants, and so for any number of tasks and tokens.          *)
(*                                                                         *)
(* Those about the repository rest on one inductive invariant: the typing  *)
(* of the store, the agreement of the indexes with the table, the          *)
(* coherence of every row, and that the table is finite (a sweep counts    *)
(* rows).  Coherence is what makes every rebuild valid, and without that a *)
(* sweep could stop half way.                                              *)
(*                                                                         *)
(* Those about the sessions rest on it and on what the requests add:       *)
(*   - what a task knows of the row it looked up stays true while it       *)
(*     waits, its status excepted, and the row it has created for itself   *)
(*     is in the same family, held by no client, and active for as long as *)
(*     the row it is to replace;                                           *)
(*   - the rows of a family have one owner, so that a sweep by family and  *)
(*     a sweep by owner both cover whole families;                         *)
(*   - of the delivered tokens of a family exactly one has no successor,   *)
(*     and only that one can be active.                                    *)
(* The last is the reason why clients never hold two usable tokens: the    *)
(* rows left behind by refreshes that lost the race are active, but they   *)
(* are not delivered and nothing ever looks them up.                       *)
(***************************************************************************)
EXTENDS RefreshSessions, FiniteSetTheorems, TLAPS

-----------------------------------------------------------------------------
(* The repository: lemmas and theorems about RefreshTokens *)

IInv ==
  /\ TypeOK
  /\ IsFiniteSet(DOMAIN refresh_tokens_by_id)
  /\ IndexesAgree
  /\ LifecycleCoherent

-----------------------------------------------------------------------------
(* Operators *)

(* d[k] = v keeps the types of the keys and of the values of a dict.       *)
LEMMA PutType ==
  ASSUME NEW S, NEW V, NEW d, NEW k \in S, NEW v \in V,
         DOMAIN d \subseteq S, d \in [DOMAIN d -> V]
  PROVE  /\ DOMAIN Put(d, k, v) \subseteq S
         /\ Put(d, k, v) \in [DOMAIN Put(d, k, v) -> V]
  BY DEF Put

(* What LifecycleCoherent says of one row. *)
Coherent(r) ==
  /\ r.expires_at > r.issued_at
  /\ (r.status = "revoked") <=> (r.revoked_at # None)
  /\ r.status = "active" => r.rotated_at = None
  /\ r.status = "rotated" => r.rotated_at # None
  /\ (r.rotated_at # None) <=> (r.replaced_by_token_id # None)

(* Rotating a coherent active row gives a coherent row that the validators *)
(* of RefreshTokenRecord accept.                                           *)
LEMMA RotatedIsCoherent ==
  ASSUME NEW r \in Token, NEW heir \in Id, NEW at \in Time,
         Coherent(r), r.status = "active"
  PROVE  /\ Rotated(r, heir, at) \in Token
         /\ Coherent(Rotated(r, heir, at))
         /\ ValidToken(Rotated(r, heir, at))
  BY NoneAssumption DEF Rotated, Token, Coherent, Status, ValidToken

(* Revoking a coherent row gives a coherent row that the validators of     *)
(* RefreshTokenRecord accept, whether or not the row had been rotated.     *)
LEMMA RevokedIsCoherent ==
  ASSUME NEW r \in Token, NEW at \in Time, Coherent(r)
  PROVE  /\ Revoked(r, at) \in Token
         /\ Coherent(Revoked(r, at))
         /\ ValidToken(Revoked(r, at))
  BY NoneAssumption DEF Revoked, Token, Coherent, Status, ValidToken

(* A new row that the validators accept is coherent. *)
LEMMA NewTokenIsCoherent ==
  ASSUME NEW u \in User, NEW t \in Tenant, NEW f \in Family, NEW h \in Hash,
         NEW iat \in Time, NEW exp \in Time,
         ValidToken(NewToken(u, t, f, h, iat, exp))
  PROVE  /\ NewToken(u, t, f, h, iat, exp) \in Token
         /\ Coherent(NewToken(u, t, f, h, iat, exp))
  BY DEF NewToken, Token, Coherent, Status, ValidToken

(* Under the invariant every row of the table is a coherent Token. *)
LEMMA RowsAreCoherent ==
  ASSUME IInv
  PROVE  \A i \in DOMAIN refresh_tokens_by_id :
           /\ refresh_tokens_by_id[i] \in Token
           /\ Coherent(refresh_tokens_by_id[i])
  BY DEF IInv, TypeOK, LifecycleCoherent, Coherent

(* Coherence is what RebuildsAreValid needs. *)
LEMMA RebuildsFromIInv ==
  ASSUME IInv
  PROVE  RebuildsAreValid
<1> SUFFICES ASSUME NEW i \in DOMAIN refresh_tokens_by_id,
                    NEW at \in Time, NEW heir \in Id
             PROVE  /\ refresh_tokens_by_id[i].status = "active" =>
                         ValidToken(Rotated(refresh_tokens_by_id[i],
                                            heir, at))
                    /\ ValidToken(Revoked(refresh_tokens_by_id[i], at))
  BY DEF RebuildsAreValid
<1> QED
  BY RowsAreCoherent, RotatedIsCoherent, RevokedIsCoherent

-----------------------------------------------------------------------------
(* Sweeps *)

(* Under the invariant a sweep always completes: it revokes every row in   *)
(* its scope that was not revoked yet, touches no other, and returns how   *)
(* many it revoked.                                                        *)
LEMMA SweepCompletes ==
  ASSUME IInv, NEW scope \in SUBSET DOMAIN refresh_tokens_by_id,
         NEW at \in Time, Sweep(scope, at)
  PROVE  LET live == {i \in scope :
                        refresh_tokens_by_id[i].status # "revoked"}
         IN /\ refresh_tokens_by_id' =
                 [i \in DOMAIN refresh_tokens_by_id |->
                    IF i \in live THEN Revoked(refresh_tokens_by_id[i], at)
                                  ELSE refresh_tokens_by_id[i]]
            /\ reply' = Returned(Cardinality(live))
            /\ UNCHANGED indexes
<1> DEFINE live == {i \in scope : refresh_tokens_by_id[i].status # "revoked"}
<1>1. PICK done \in SUBSET live :
        /\ done # live => \E i \in live \ done :
                            ~ValidToken(Revoked(refresh_tokens_by_id[i], at))
        /\ refresh_tokens_by_id' =
             [i \in DOMAIN refresh_tokens_by_id |->
                IF i \in done THEN Revoked(refresh_tokens_by_id[i], at)
                              ELSE refresh_tokens_by_id[i]]
        /\ reply' = IF done = live THEN Returned(Cardinality(done))
                                   ELSE Raised("ValidationError")
        /\ UNCHANGED indexes
  BY DEF Sweep
<1>2. \A i \in live : ValidToken(Revoked(refresh_tokens_by_id[i], at))
  BY RowsAreCoherent, RevokedIsCoherent
<1>3. done = live
  BY <1>1, <1>2
<1> QED
  BY <1>1, <1>3

(* A completed sweep preserves the invariant. *)
LEMMA SweepPreservesIInv ==
  ASSUME IInv, NEW scope \in SUBSET DOMAIN refresh_tokens_by_id,
         NEW at \in Time, Sweep(scope, at)
  PROVE  IInv'
<1> DEFINE live == {i \in scope : refresh_tokens_by_id[i].status # "revoked"}
           rows == refresh_tokens_by_id
<1>1. /\ rows' = [i \in DOMAIN rows |->
                    IF i \in live THEN Revoked(rows[i], at) ELSE rows[i]]
      /\ reply' = Returned(Cardinality(live))
      /\ UNCHANGED indexes
  BY SweepCompletes
<1>2. DOMAIN rows' = DOMAIN rows
  BY <1>1
<1>3. \A i \in DOMAIN rows :
        /\ rows'[i] \in Token
        /\ Coherent(rows'[i])
        /\ rows'[i].token_hash = rows[i].token_hash
        /\ rows'[i].family_id = rows[i].family_id
  <2> SUFFICES ASSUME NEW i \in DOMAIN rows
               PROVE  /\ rows'[i] \in Token
                      /\ Coherent(rows'[i])
                      /\ rows'[i].token_hash = rows[i].token_hash
                      /\ rows'[i].family_id = rows[i].family_id
    OBVIOUS
  <2>1. rows[i] \in Token /\ Coherent(rows[i])
    BY RowsAreCoherent
  <2>2. CASE i \in live
    BY <1>1, <2>1, <2>2, RevokedIsCoherent DEF Revoked, Token
  <2>3. CASE i \notin live
    BY <1>1, <2>1, <2>3
  <2> QED
    BY <2>2, <2>3
<1>4. Cardinality(live) \in Nat
  BY FS_Subset, FS_CardinalityType DEF IInv
<1>5. TypeOK'
  <2>1. rows' \in [DOMAIN rows' -> Token]
    BY <1>1, <1>2, <1>3
  <2>2. reply' \in Reply
    BY <1>1, <1>4 DEF Returned, Reply
  <2> QED
    BY <1>1, <1>2, <2>1, <2>2 DEF IInv, TypeOK, indexes
<1>6. IsFiniteSet(DOMAIN rows')
  BY <1>2 DEF IInv
<1>7. HashIndexAgrees'
  BY <1>1, <1>2, <1>3 DEF IInv, IndexesAgree, HashIndexAgrees, indexes
<1>8. FamilyIndexAgrees'
  BY <1>1, <1>2, <1>3
     DEF IInv, IndexesAgree, FamilyIndexAgrees, IdsOfFamily, indexes
<1>9. LifecycleCoherent'
  BY <1>2, <1>3 DEF LifecycleCoherent, Coherent
<1> QED
  BY <1>5, <1>6, <1>7, <1>8, <1>9 DEF IInv, IndexesAgree

(* The scope of revoke_family() is a set of rows of the table, those whose *)
(* own field names the family.                                             *)
LEMMA IdsOfFamilyAreRows ==
  ASSUME IInv, NEW f \in Family
  PROVE  /\ IdsOfFamily(f) \subseteq DOMAIN refresh_tokens_by_id
         /\ IdsOfFamily(f) = {i \in DOMAIN refresh_tokens_by_id :
                                refresh_tokens_by_id[i].family_id = f}
  BY DEF IInv, IndexesAgree, FamilyIndexAgrees

-----------------------------------------------------------------------------
(* The invariant *)

(* create() preserves the invariant: the three dicts are written together, *)
(* and neither the id nor the hash was in use.                             *)
LEMMA CreatePreservesIInv ==
  ASSUME IInv,
         NEW i \in Id, NEW u \in User, NEW t \in Tenant, NEW f \in Family,
         NEW h \in Hash, NEW iat \in Time, NEW exp \in Time,
         Create(i, u, t, f, h, iat, exp)
  PROVE  IInv'
<1> DEFINE rows == refresh_tokens_by_id
           hashes == refresh_token_id_by_hash
           families == refresh_token_ids_by_family
           r == NewToken(u, t, f, h, iat, exp)
<1>1. /\ h \notin DOMAIN hashes
      /\ i \in Id \ DOMAIN rows
      /\ ValidToken(r)
      /\ rows' = Put(rows, i, r)
      /\ hashes' = Put(hashes, h, i)
      /\ families' = Put(families, f, IdsOfFamily(f) \cup {i})
      /\ reply' = Returned(1)
  BY DEF Create
<1>2. /\ r \in Token
      /\ Coherent(r)
      /\ r.token_hash = h
      /\ r.family_id = f
  BY <1>1, NewTokenIsCoherent DEF NewToken
<1>3. /\ DOMAIN rows' = DOMAIN rows \cup {i}
      /\ rows'[i] = r
      /\ \A x \in DOMAIN rows : x # i /\ rows'[x] = rows[x]
  BY <1>1 DEF Put
<1>4. /\ DOMAIN hashes' = DOMAIN hashes \cup {h}
      /\ hashes'[h] = i
      /\ \A x \in DOMAIN hashes : x # h /\ hashes'[x] = hashes[x]
  BY <1>1 DEF Put
<1>5. /\ DOMAIN families' = DOMAIN families \cup {f}
      /\ families'[f] = IdsOfFamily(f) \cup {i}
      /\ \A x \in DOMAIN families : x # f => families'[x] = families[x]
  BY <1>1 DEF Put
<1>6. TypeOK'
  <2>1. /\ DOMAIN rows' \subseteq Id
        /\ rows' \in [DOMAIN rows' -> Token]
    <3> HIDE DEF rows, r
    <3>1. /\ DOMAIN rows \subseteq Id
          /\ rows \in [DOMAIN rows -> Token]
      BY DEF rows, IInv, TypeOK
    <3>2. /\ DOMAIN Put(rows, i, r) \subseteq Id
          /\ Put(rows, i, r) \in [DOMAIN Put(rows, i, r) -> Token]
      BY <1>2, <3>1, PutType
    <3> QED
      BY <1>1, <3>2
  <2>2. /\ DOMAIN hashes' \subseteq Hash
        /\ hashes' \in [DOMAIN hashes' -> Id]
    BY <1>1, PutType DEF IInv, TypeOK
  <2>3. IdsOfFamily(f) \cup {i} \in SUBSET Id
    BY DEF IdsOfFamily, IInv, TypeOK
  <2>4. /\ DOMAIN families' \subseteq Family
        /\ families' \in [DOMAIN families' -> SUBSET Id]
    <3> HIDE DEF families
    <3>1. DOMAIN families \subseteq Family
          /\ families \in [DOMAIN families -> SUBSET Id]
      BY DEF families, IInv, TypeOK
    <3>2. families' = Put(families, f, IdsOfFamily(f) \cup {i})
      BY <1>1
    <3> DEFINE new == IdsOfFamily(f) \cup {i}
    <3> HIDE DEF new
    <3>3. new \in SUBSET Id
      BY <2>3 DEF new
    <3>4. /\ DOMAIN Put(families, f, new) \subseteq Family
          /\ Put(families, f, new) \in
               [DOMAIN Put(families, f, new) -> SUBSET Id]
      BY <3>1, <3>3, PutType
    <3> QED
      BY <3>2, <3>4 DEF new
  <2>5. reply' \in Reply
    BY <1>1 DEF Returned, Reply
  <2> QED
    BY <2>1, <2>2, <2>4, <2>5 DEF TypeOK
<1>7. IsFiniteSet(DOMAIN rows')
  BY <1>3, FS_AddElement DEF IInv
<1>8. HashIndexAgrees'
  <2>1. ASSUME NEW x \in DOMAIN rows'
        PROVE  /\ rows'[x].token_hash \in DOMAIN hashes'
               /\ hashes'[rows'[x].token_hash] = x
    BY <1>2, <1>3, <1>4, <2>1 DEF IInv, IndexesAgree, HashIndexAgrees
  <2>2. ASSUME NEW x \in DOMAIN hashes'
        PROVE  /\ hashes'[x] \in DOMAIN rows'
               /\ rows'[hashes'[x]].token_hash = x
    BY <1>2, <1>3, <1>4, <2>2 DEF IInv, IndexesAgree, HashIndexAgrees
  <2> QED
    BY <2>1, <2>2 DEF HashIndexAgrees
<1>9. FamilyIndexAgrees'
  <2> SUFFICES ASSUME NEW g \in Family
               PROVE  IdsOfFamily(g)' = {x \in DOMAIN rows' :
                                           rows'[x].family_id = g}
    BY DEF FamilyIndexAgrees
  <2>1. IdsOfFamily(g) = {x \in DOMAIN rows : rows[x].family_id = g}
    BY IdsOfFamilyAreRows
  <2>2. CASE g = f
    <3>1. IdsOfFamily(g)' = IdsOfFamily(g) \cup {i}
      BY <1>5, <2>2 DEF IdsOfFamily
    <3> QED
      BY <1>2, <1>3, <2>1, <2>2, <3>1
  <2>3. CASE g # f
    <3>1. IdsOfFamily(g)' = IdsOfFamily(g)
      BY <1>5, <2>3 DEF IdsOfFamily
    <3> QED
      BY <1>2, <1>3, <2>1, <2>3, <3>1
  <2> QED
    BY <2>2, <2>3
<1>10. LifecycleCoherent'
  <2> SUFFICES ASSUME NEW x \in DOMAIN rows'
               PROVE  Coherent(rows'[x])
    BY DEF LifecycleCoherent, Coherent
  <2> QED
    BY <1>2, <1>3, RowsAreCoherent
<1> QED
  BY <1>6, <1>7, <1>8, <1>9, <1>10 DEF IInv, IndexesAgree

(* mark_rotated() preserves the invariant: the row it rebuilds stays in    *)
(* its family and under its hash.                                          *)
LEMMA MarkRotatedPreservesIInv ==
  ASSUME IInv, NEW h \in Hash, NEW heir \in Id, NEW at \in Time,
         MarkRotated(h, heir, at)
  PROVE  IInv'
<1> DEFINE rows == refresh_tokens_by_id
           i == refresh_token_id_by_hash[h]
           r == Rotated(rows[i], heir, at)
<1>1. /\ h \in DOMAIN refresh_token_id_by_hash
      /\ rows[i].status = "active"
      /\ rows' = [rows EXCEPT ![i] = r]
      /\ reply' = Returned(1)
      /\ UNCHANGED indexes
  BY DEF MarkRotated
<1>2. i \in DOMAIN rows
  BY <1>1 DEF IInv, IndexesAgree, HashIndexAgrees
<1>3. /\ DOMAIN rows' = DOMAIN rows
      /\ rows'[i] = r
      /\ \A x \in DOMAIN rows : x # i => rows'[x] = rows[x]
  BY <1>1, <1>2
<1>4. /\ r \in Token
      /\ Coherent(r)
      /\ r.token_hash = rows[i].token_hash
      /\ r.family_id = rows[i].family_id
  <2>1. rows[i] \in Token /\ Coherent(rows[i])
    BY <1>2, RowsAreCoherent
  <2>2. r \in Token /\ Coherent(r)
    BY <1>1, <2>1, RotatedIsCoherent
  <2>3. /\ r.token_hash = rows[i].token_hash
        /\ r.family_id = rows[i].family_id
    BY <2>1 DEF Rotated, Token
  <2> QED
    BY <2>2, <2>3
<1>5. TypeOK'
  <2>1. rows' \in [DOMAIN rows' -> Token]
    BY <1>1, <1>3, <1>4, RowsAreCoherent
  <2>2. reply' \in Reply
    BY <1>1 DEF Returned, Reply
  <2> QED
    BY <1>1, <1>3, <2>1, <2>2 DEF IInv, TypeOK, indexes
<1>6. IsFiniteSet(DOMAIN rows')
  BY <1>3 DEF IInv
<1>7. HashIndexAgrees'
  BY <1>1, <1>2, <1>3, <1>4
     DEF IInv, IndexesAgree, HashIndexAgrees, indexes
<1>8. FamilyIndexAgrees'
  BY <1>1, <1>2, <1>3, <1>4
     DEF IInv, IndexesAgree, FamilyIndexAgrees, IdsOfFamily, indexes
<1>9. LifecycleCoherent'
  <2> SUFFICES ASSUME NEW x \in DOMAIN rows'
               PROVE  Coherent(rows'[x])
    BY DEF LifecycleCoherent, Coherent
  <2> QED
    BY <1>3, <1>4, RowsAreCoherent
<1> QED
  BY <1>5, <1>6, <1>7, <1>8, <1>9 DEF IInv, IndexesAgree

(* A call that raises an error and leaves the store alone, or no call at   *)
(* all, preserves the invariant.                                           *)
LEMMA StorePreservedIInv ==
  ASSUME IInv, UNCHANGED store,
         reply' \in Reply
  PROVE  IInv'
  BY DEF IInv, TypeOK, IndexesAgree, HashIndexAgrees, FamilyIndexAgrees,
         IdsOfFamily, LifecycleCoherent, store, indexes

(* The empty store of a new process satisfies the invariant. *)
LEMMA InitImpliesIInv == Init => IInv
<1> SUFFICES ASSUME Init PROVE IInv
  OBVIOUS
<1>1. DOMAIN refresh_tokens_by_id = {}
  BY DEF Init
<1>2. /\ DOMAIN refresh_token_id_by_hash = {}
      /\ DOMAIN refresh_token_ids_by_family = {}
  BY DEF Init
<1>3. TypeOK
  <2>1. /\ refresh_tokens_by_id \in [{} -> Token]
        /\ refresh_token_id_by_hash \in [{} -> Id]
        /\ refresh_token_ids_by_family \in [{} -> SUBSET Id]
    BY DEF Init
  <2>2. reply \in Reply
    BY DEF Init, Returned, Reply
  <2> QED
    BY <1>1, <1>2, <2>1, <2>2 DEF TypeOK
<1>4. IsFiniteSet(DOMAIN refresh_tokens_by_id)
  BY <1>1, FS_EmptySet
<1>5. IndexesAgree
  BY <1>1, <1>2
     DEF IndexesAgree, HashIndexAgrees, FamilyIndexAgrees, IdsOfFamily
<1>6. LifecycleCoherent
  BY <1>1 DEF LifecycleCoherent
<1> QED
  BY <1>3, <1>4, <1>5, <1>6 DEF IInv

(* Every method call preserves the invariant. *)
LEMMA NextPreservesIInv == IInv /\ [Next]_vars => IInv'
<1> SUFFICES ASSUME IInv, [Next]_vars PROVE IInv'
  OBVIOUS
<1>1. ASSUME NEW i \in Id, NEW u \in User, NEW t \in Tenant,
             NEW f \in Family, NEW h \in Hash,
             NEW iat \in Time, NEW exp \in Time,
             Create(i, u, t, f, h, iat, exp)
      PROVE  IInv'
  BY <1>1, CreatePreservesIInv
<1>2. ASSUME NEW h \in Hash, NEW iat \in Time, NEW exp \in Time,
             CreateRaises(h, iat, exp)
      PROVE  IInv'
  BY <1>2, StorePreservedIInv DEF CreateRaises, Raised, Error, Reply
<1>3. ASSUME NEW h \in Hash, NEW heir \in Id, NEW at \in Time,
             MarkRotated(h, heir, at)
      PROVE  IInv'
  BY <1>3, MarkRotatedPreservesIInv
<1>4. ASSUME NEW h \in Hash, MarkRotatedRaises(h)
      PROVE  IInv'
  BY <1>4, StorePreservedIInv DEF MarkRotatedRaises, Raised, Error, Reply
<1>5. ASSUME NEW f \in Family, NEW at \in Time, RevokeFamily(f, at)
      PROVE  IInv'
  BY <1>5, IdsOfFamilyAreRows, SweepPreservesIInv DEF RevokeFamily
<1>6. ASSUME NEW u \in User, NEW t \in Tenant, NEW at \in Time,
             RevokeAllActive(u, t, at)
      PROVE  IInv'
  <2>1. {i \in DOMAIN refresh_tokens_by_id :
           /\ refresh_tokens_by_id[i].user_id = u
           /\ refresh_tokens_by_id[i].tenant_id = t}
          \in SUBSET DOMAIN refresh_tokens_by_id
    OBVIOUS
  <2> QED
    BY <1>6, <2>1, SweepPreservesIInv DEF RevokeAllActive
<1>7. CASE UNCHANGED vars
  BY <1>7, StorePreservedIInv DEF vars, IInv, TypeOK
<1> QED
  BY <1>1, <1>2, <1>3, <1>4, <1>5, <1>6, <1>7 DEF Next

(* The invariant holds in every state the repository can reach. *)
LEMMA Invariance == Spec => []IInv
  BY InitImpliesIInv, NextPreservesIInv, PTL DEF Spec

-----------------------------------------------------------------------------
(* Theorems *)

(* Every dict always holds what its annotation in store.py says. *)
THEOREM TypeCorrect == Spec => []TypeOK
  BY Invariance, PTL DEF IInv

(* The hash index and the family index never drift from the table. *)
THEOREM IndexesAlwaysAgree == Spec => []IndexesAgree
  BY Invariance, PTL DEF IInv

(* The fields of a row always agree with its status. *)
THEOREM RowsAlwaysCoherent == Spec => []LifecycleCoherent
  BY Invariance, PTL DEF IInv

(* No validator ever refuses a row that mark_rotated() or a sweep rebuilds *)
(* from a stored one.                                                      *)
THEOREM RebuildsAlwaysValid == Spec => []RebuildsAreValid
<1>1. IInv => RebuildsAreValid
  BY RebuildsFromIInv
<1> QED
  BY <1>1, Invariance, PTL

(* A row that is rotated or revoked, as the methods do it, keeps its past. *)
LEMMA RebuildsKeepHistory ==
  ASSUME NEW r \in Token, Coherent(r), NEW at \in Time
  PROVE  /\ KeepsHistory(r, r)
         /\ r.status # "revoked" => KeepsHistory(r, Revoked(r, at))
         /\ r.status = "active" =>
              \A heir \in Id : KeepsHistory(r, Rotated(r, heir, at))
<1>1. KeepsHistory(r, r)
  <2>1. r.status = "rotated" => r.status # "active"
    OBVIOUS
  <2> QED
    BY <2>1 DEF KeepsHistory
<1>2. ASSUME r.status # "revoked" PROVE KeepsHistory(r, Revoked(r, at))
  BY <1>2 DEF KeepsHistory, Revoked, Token
<1>3. ASSUME r.status = "active", NEW heir \in Id
      PROVE  KeepsHistory(r, Rotated(r, heir, at))
  BY <1>3 DEF KeepsHistory, Rotated, Token, Coherent
<1> QED
  BY <1>1, <1>2, <1>3

(* A completed sweep keeps the past of every row. *)
LEMMA SweepKeepsHistory ==
  ASSUME IInv, NEW scope \in SUBSET DOMAIN refresh_tokens_by_id,
         NEW at \in Time, Sweep(scope, at)
  PROVE  \A i \in DOMAIN refresh_tokens_by_id :
           /\ i \in DOMAIN refresh_tokens_by_id'
           /\ KeepsHistory(refresh_tokens_by_id[i], refresh_tokens_by_id'[i])
<1> SUFFICES ASSUME NEW i \in DOMAIN refresh_tokens_by_id
             PROVE  /\ i \in DOMAIN refresh_tokens_by_id'
                    /\ KeepsHistory(refresh_tokens_by_id[i],
                                    refresh_tokens_by_id'[i])
  OBVIOUS
<1> DEFINE r == refresh_tokens_by_id[i]
           live == {x \in scope : refresh_tokens_by_id[x].status # "revoked"}
<1>1. refresh_tokens_by_id' =
        [x \in DOMAIN refresh_tokens_by_id |->
           IF x \in live THEN Revoked(refresh_tokens_by_id[x], at)
                         ELSE refresh_tokens_by_id[x]]
  BY SweepCompletes
<1>2. r \in Token /\ Coherent(r)
  BY RowsAreCoherent
<1>3. CASE i \in live
  <2>1. refresh_tokens_by_id'[i] = Revoked(r, at) /\ r.status # "revoked"
    BY <1>1, <1>3
  <2> QED
    BY <1>1, <1>2, <2>1, RebuildsKeepHistory
<1>4. CASE i \notin live
  <2>1. refresh_tokens_by_id'[i] = r
    BY <1>1, <1>4
  <2> QED
    BY <1>1, <1>2, <2>1, RebuildsKeepHistory
<1> QED
  BY <1>3, <1>4

(* No call rewrites what a row's life has recorded. *)
THEOREM HistoryAlwaysPermanent == Spec => HistoryIsPermanent
<1> DEFINE rows == refresh_tokens_by_id
<1>1. ASSUME IInv, [Next]_vars PROVE HistoryKept
  <2>1. \A i \in DOMAIN rows : rows[i] \in Token /\ Coherent(rows[i])
    BY <1>1, RowsAreCoherent
  <2>2. ASSUME UNCHANGED rows PROVE HistoryKept
    <3> SUFFICES ASSUME NEW i \in DOMAIN rows
                 PROVE  KeepsHistory(rows[i], rows[i])
      BY <2>2 DEF HistoryKept
    <3>1. rows[i].status = "rotated" => rows[i].status # "active"
      OBVIOUS
    <3> QED
      BY <3>1 DEF KeepsHistory
  <2>3. ASSUME NEW i \in Id, NEW u \in User, NEW t \in Tenant,
               NEW f \in Family, NEW h \in Hash,
               NEW iat \in Time, NEW exp \in Time,
               Create(i, u, t, f, h, iat, exp)
        PROVE  HistoryKept
    <3> SUFFICES ASSUME NEW x \in DOMAIN rows
                 PROVE  x \in DOMAIN rows' /\ KeepsHistory(rows[x], rows'[x])
      BY DEF HistoryKept
    <3>1. x \in DOMAIN rows' /\ rows'[x] = rows[x]
      BY <2>3 DEF Create, Put
    <3>2. rows[x].status = "rotated" => rows[x].status # "active"
      OBVIOUS
    <3> QED
      BY <3>1, <3>2 DEF KeepsHistory
  <2>4. ASSUME NEW h \in Hash, NEW heir \in Id, NEW at \in Time,
               MarkRotated(h, heir, at)
        PROVE  HistoryKept
    <3> DEFINE i == refresh_token_id_by_hash[h]
    <3>1. /\ i \in DOMAIN rows
          /\ rows[i].status = "active"
          /\ rows' = [rows EXCEPT ![i] = Rotated(rows[i], heir, at)]
      BY <1>1, <2>4 DEF MarkRotated, IInv, IndexesAgree, HashIndexAgrees
    <3> SUFFICES ASSUME NEW x \in DOMAIN rows
                 PROVE  x \in DOMAIN rows' /\ KeepsHistory(rows[x], rows'[x])
      BY DEF HistoryKept
    <3>2. CASE x = i
      <4>1. rows'[x] = Rotated(rows[x], heir, at)
        BY <3>1, <3>2
      <4> QED
        BY <2>1, <3>1, <3>2, <4>1, RebuildsKeepHistory
    <3>3. CASE x # i
      <4>1. rows'[x] = rows[x]
        BY <3>1, <3>3
      <4> QED
        BY <2>1, <2>4, <3>1, <4>1, RebuildsKeepHistory
    <3> QED
      BY <3>2, <3>3
  <2>5. ASSUME NEW f \in Family, NEW at \in Time, RevokeFamily(f, at)
        PROVE  HistoryKept
    BY <1>1, <2>5, IdsOfFamilyAreRows, SweepKeepsHistory
       DEF RevokeFamily, HistoryKept
  <2>6. ASSUME NEW u \in User, NEW t \in Tenant, NEW at \in Time,
               RevokeAllActive(u, t, at)
        PROVE  HistoryKept
    <3>1. {i \in DOMAIN refresh_tokens_by_id :
             /\ refresh_tokens_by_id[i].user_id = u
             /\ refresh_tokens_by_id[i].tenant_id = t}
            \in SUBSET DOMAIN refresh_tokens_by_id
      OBVIOUS
    <3> QED
      BY <1>1, <2>6, <3>1, SweepKeepsHistory
         DEF RevokeAllActive, HistoryKept
  <2> QED
    BY <1>1, <2>2, <2>3, <2>4, <2>5, <2>6
       DEF Next, CreateRaises, MarkRotatedRaises, store, vars
<1>2. Spec => [][HistoryKept]_vars
  BY <1>1, Invariance, PTL DEF Spec
<1> QED
  BY <1>2 DEF HistoryIsPermanent

(* Under the invariant, a sweep revokes exactly the rows in its scope. *)
LEMMA SweepRevokesExactly ==
  ASSUME IInv, NEW scope \in SUBSET DOMAIN refresh_tokens_by_id,
         NEW at \in Time, Sweep(scope, at)
  PROVE  RevokesExactly(scope)
<1> DEFINE rows == refresh_tokens_by_id
           live == {i \in scope : refresh_tokens_by_id[i].status # "revoked"}
           changed == {i \in DOMAIN rows : rows'[i] # rows[i]}
<1>1. /\ rows' = [i \in DOMAIN rows |->
                    IF i \in live THEN Revoked(rows[i], at) ELSE rows[i]]
      /\ reply' = Returned(Cardinality(live))
  BY SweepCompletes
<1>2. \A i \in live : rows'[i].status = "revoked"
  <2> SUFFICES ASSUME NEW i \in live PROVE rows'[i].status = "revoked"
    OBVIOUS
  <2>1. rows'[i] = Revoked(rows[i], at) /\ rows[i] \in Token
    BY <1>1, RowsAreCoherent
  <2> QED
    BY <2>1 DEF Revoked, Token
<1>3. \A i \in DOMAIN rows : i \notin live => rows'[i] = rows[i]
  BY <1>1
<1>4. changed = live
  BY <1>2, <1>3
<1>5. \A i \in scope : rows'[i].status = "revoked"
  BY <1>2, <1>3
<1> QED
  BY <1>1, <1>4, <1>5 DEF RevokesExactly

(* revoke_family() always revokes the whole family and nothing else. *)
THEOREM FamilySweepAlwaysExact == Spec => FamilySweepIsExact
<1>1. ASSUME IInv, NEW f \in Family, NEW at \in Time, RevokeFamily(f, at)
      PROVE  RevokesExactly({i \in DOMAIN refresh_tokens_by_id :
                               refresh_tokens_by_id[i].family_id = f})
  BY <1>1, IdsOfFamilyAreRows, SweepRevokesExactly DEF RevokeFamily
<1>2. IInv => FamilySweep
  BY <1>1 DEF FamilySweep
<1>3. Spec => [][FamilySweep]_vars
  BY <1>2, Invariance, PTL DEF Spec
<1> QED
  BY <1>3 DEF FamilySweepIsExact

(* revoke_all_active() always revokes all the rows of the user in the      *)
(* tenant, whatever their families, and nothing else.                      *)
THEOREM LogoutAllAlwaysExact == Spec => LogoutAllIsExact
<1>1. ASSUME IInv, NEW u \in User, NEW t \in Tenant, NEW at \in Time,
             RevokeAllActive(u, t, at)
      PROVE  RevokesExactly({i \in DOMAIN refresh_tokens_by_id :
                               /\ refresh_tokens_by_id[i].user_id = u
                               /\ refresh_tokens_by_id[i].tenant_id = t})
  <2> DEFINE scope == {i \in DOMAIN refresh_tokens_by_id :
                         /\ refresh_tokens_by_id[i].user_id = u
                         /\ refresh_tokens_by_id[i].tenant_id = t}
  <2>1. scope \in SUBSET DOMAIN refresh_tokens_by_id
    OBVIOUS
  <2>2. Sweep(scope, at)
    BY <1>1 DEF RevokeAllActive
  <2> HIDE DEF scope
  <2>3. RevokesExactly(scope)
    BY <1>1, <2>1, <2>2, SweepRevokesExactly
  <2> QED
    BY <2>3 DEF scope
<1>2. IInv => LogoutAllSweep
  BY <1>1 DEF LogoutAllSweep
<1>3. Spec => [][LogoutAllSweep]_vars
  BY <1>2, Invariance, PTL DEF Spec
<1> QED
  BY <1>3 DEF LogoutAllIsExact

-----------------------------------------------------------------------------
(* The row that task t has looked up. *)
Target(t) == refresh_token_id_by_hash[seen[t].token_hash]

(* What a busy task knows of its target is true: none of the fields it has *)
(* copied ever changes, and some client was given the target.              *)
LookedUp(t) ==
  /\ seen[t] \in Snapshots
  /\ seen[t].token_hash \in DOMAIN refresh_token_id_by_hash
  /\ Target(t) \in delivered
  /\ seen[t] = Snapshot(refresh_tokens_by_id[Target(t)])

(* The row that task t has created to succeed its target. *)
Prepared(t) ==
  LET j == successor[t] IN
    /\ j \in DOMAIN refresh_tokens_by_id \ delivered
    /\ refresh_tokens_by_id[j].family_id = seen[t].family_id
    /\ refresh_tokens_by_id[Target(t)].status = "active" =>
         refresh_tokens_by_id[j].status = "active"

TasksInv ==
  /\ \A t \in Task : pc[t] # "idle" => LookedUp(t)
  /\ \A t \in Task : pc[t] = "rotate" => Prepared(t)
  /\ \A t, v \in Task : /\ pc[t] = "rotate" /\ pc[v] = "rotate"
                        /\ successor[t] = successor[v]
                        => t = v

SuccessorOf(i) == refresh_tokens_by_id[i].replaced_by_token_id
FamilyOf(i) == refresh_tokens_by_id[i].family_id

(* A family has one owner, and some client was given a token of it. *)
OneOwner ==
  \A i, j \in DOMAIN refresh_tokens_by_id : FamilyOf(i) = FamilyOf(j) =>
    /\ refresh_tokens_by_id[i].user_id = refresh_tokens_by_id[j].user_id
    /\ refresh_tokens_by_id[i].tenant_id = refresh_tokens_by_id[j].tenant_id

Begun ==
  \A i \in DOMAIN refresh_tokens_by_id :
    \E j \in delivered : FamilyOf(j) = FamilyOf(i)

(* replaced_by_token_id leads from a delivered token to a delivered token  *)
(* of its family, and to each from one only.                               *)
Links ==
  /\ \A i \in DOMAIN refresh_tokens_by_id : SuccessorOf(i) # None =>
       /\ i \in delivered /\ SuccessorOf(i) \in delivered
       /\ FamilyOf(i) = FamilyOf(SuccessorOf(i))
  /\ \A i, j \in DOMAIN refresh_tokens_by_id :
       SuccessorOf(i) # None /\ SuccessorOf(i) = SuccessorOf(j) => i = j

(* A family has one delivered token without a successor, one that succeeds *)
(* none, and no cycle.                                                     *)
OneLeaf ==
  \A i, j \in delivered :
    /\ FamilyOf(i) = FamilyOf(j)
    /\ SuccessorOf(i) = None /\ SuccessorOf(j) = None
    => i = j

OneRoot ==
  \A i, j \in delivered :
    /\ FamilyOf(i) = FamilyOf(j)
    /\ \A k \in delivered : SuccessorOf(k) # i /\ SuccessorOf(k) # j
    => i = j

Acyclic ==
  \A S \in (SUBSET delivered) \ {{}} : \E i \in S : SuccessorOf(i) \notin S

ChainsInv ==
  /\ OneOwner /\ Begun
  /\ Links /\ OneLeaf /\ OneRoot /\ Acyclic

EndedInv ==
  /\ \A f \in ended : \E i \in delivered : FamilyOf(i) = f
  /\ EndedStaysEnded

SInv ==
  /\ IInv
  /\ SessionsTypeOK
  /\ TasksInv
  /\ ChainsInv
  /\ EndedInv

-----------------------------------------------------------------------------
(* What the calls do to the rows *)

(* The fields that every call leaves as they are. *)
SameFields(x) ==
  LET r == refresh_tokens_by_id[x]
      s == refresh_tokens_by_id'[x]
  IN /\ s.user_id = r.user_id /\ s.tenant_id = r.tenant_id
     /\ s.family_id = r.family_id /\ s.token_hash = r.token_hash

(* A row and an index entry, once there, stay. *)
StoreKeeps ==
  /\ \A x \in DOMAIN refresh_tokens_by_id :
       x \in DOMAIN refresh_tokens_by_id' /\ SameFields(x)
  /\ \A h \in DOMAIN refresh_token_id_by_hash :
       /\ h \in DOMAIN refresh_token_id_by_hash'
       /\ refresh_token_id_by_hash'[h] = refresh_token_id_by_hash[h]
  /\ delivered \subseteq delivered'

(* create() adds an active row without a successor. *)
AddsRow(i, u, n, f) ==
  /\ i \in Id \ DOMAIN refresh_tokens_by_id
  /\ DOMAIN refresh_tokens_by_id' = DOMAIN refresh_tokens_by_id \cup {i}
  /\ LET r == refresh_tokens_by_id'[i] IN
       /\ r.user_id = u /\ r.tenant_id = n /\ r.family_id = f
       /\ r.status = "active" /\ r.replaced_by_token_id = None
  /\ \A x \in DOMAIN refresh_tokens_by_id :
       x # i /\ refresh_tokens_by_id'[x] = refresh_tokens_by_id[x]
  /\ \A h \in DOMAIN refresh_token_id_by_hash :
       /\ h \in DOMAIN refresh_token_id_by_hash'
       /\ refresh_token_id_by_hash'[h] = refresh_token_id_by_hash[h]

(* A completed create() is such an addition. *)
LEMMA CreateAddsRow ==
  ASSUME NEW i \in Id, NEW u \in User, NEW n \in Tenant, NEW f \in Family,
         NEW h \in Hash, NEW iat \in Time, NEW exp \in Time,
         Create(i, u, n, f, h, iat, exp)
  PROVE  AddsRow(i, u, n, f)
<1> DEFINE r == NewToken(u, n, f, h, iat, exp)
<1>1. /\ h \notin DOMAIN refresh_token_id_by_hash
      /\ i \in Id \ DOMAIN refresh_tokens_by_id
      /\ refresh_tokens_by_id' = Put(refresh_tokens_by_id, i, r)
      /\ refresh_token_id_by_hash' = Put(refresh_token_id_by_hash, h, i)
  BY DEF Create
<1>2. /\ r.user_id = u /\ r.tenant_id = n /\ r.family_id = f
      /\ r.status = "active" /\ r.replaced_by_token_id = None
  BY DEF NewToken
<1> HIDE DEF r
<1> QED
  BY <1>1, <1>2 DEF AddsRow, Put

(* mark_rotated() gives an active row its successor. *)
ReplacesRow(i, j) ==
  /\ i \in DOMAIN refresh_tokens_by_id
  /\ refresh_tokens_by_id[i].status = "active"
  /\ SuccessorOf(i) = None
  /\ DOMAIN refresh_tokens_by_id' = DOMAIN refresh_tokens_by_id
  /\ SameFields(i)
  /\ refresh_tokens_by_id'[i].status = "rotated"
  /\ refresh_tokens_by_id'[i].replaced_by_token_id = j
  /\ \A x \in DOMAIN refresh_tokens_by_id \ {i} :
       refresh_tokens_by_id'[x] = refresh_tokens_by_id[x]
  /\ UNCHANGED refresh_token_id_by_hash

(* A completed mark_rotated() is such a replacement. *)
LEMMA MarkRotatedReplacesRow ==
  ASSUME IInv, NEW h \in Hash, NEW j \in Id, NEW at \in Time,
         MarkRotated(h, j, at)
  PROVE  ReplacesRow(refresh_token_id_by_hash[h], j)
<1> DEFINE rows == refresh_tokens_by_id
           i == refresh_token_id_by_hash[h]
<1>1. /\ i \in DOMAIN rows
      /\ rows[i].status = "active"
      /\ rows' = [rows EXCEPT ![i] = Rotated(rows[i], j, at)]
      /\ UNCHANGED refresh_token_id_by_hash
  BY DEF MarkRotated, IInv, IndexesAgree, HashIndexAgrees, indexes
<1>2. rows[i] \in Token /\ Coherent(rows[i])
  BY <1>1, RowsAreCoherent
<1>3. rows'[i] = Rotated(rows[i], j, at)
  BY <1>1
<1>4. /\ rows'[i].status = "rotated"
      /\ rows'[i].replaced_by_token_id = j
      /\ SameFields(i)
  BY <1>2, <1>3 DEF Rotated, Token, SameFields
<1>5. SuccessorOf(i) = None
  BY <1>1, <1>2 DEF SuccessorOf, Coherent
<1> HIDE DEF i
<1> QED
  BY <1>1, <1>4, <1>5 DEF ReplacesRow, i

(* A sweep, which always completes, changes no field but the status and    *)
(* the time of revocation.                                                 *)
RevokesRows(S) ==
  /\ DOMAIN refresh_tokens_by_id' = DOMAIN refresh_tokens_by_id
  /\ \A x \in DOMAIN refresh_tokens_by_id :
       /\ SameFields(x)
       /\ refresh_tokens_by_id'[x].replaced_by_token_id =
            refresh_tokens_by_id[x].replaced_by_token_id
  /\ \A x \in S : refresh_tokens_by_id'[x].status = "revoked"
  /\ \A x \in DOMAIN refresh_tokens_by_id \ S :
       refresh_tokens_by_id'[x] = refresh_tokens_by_id[x]
  /\ UNCHANGED refresh_token_id_by_hash
  /\ reply'.error = None

(* Under the invariant, both sweeps of the repository are of this kind. *)
LEMMA SweepRevokesRows ==
  ASSUME IInv, NEW scope \in SUBSET DOMAIN refresh_tokens_by_id,
         NEW at \in Time, Sweep(scope, at)
  PROVE  RevokesRows(scope)
<1> DEFINE rows == refresh_tokens_by_id
           live == {i \in scope : rows[i].status # "revoked"}
<1>1. /\ rows' = [i \in DOMAIN rows |->
                    IF i \in live THEN Revoked(rows[i], at) ELSE rows[i]]
      /\ reply' = Returned(Cardinality(live))
      /\ UNCHANGED indexes
  BY SweepCompletes
<1>2. ASSUME NEW x \in DOMAIN rows
      PROVE  /\ SameFields(x)
             /\ rows'[x].replaced_by_token_id = rows[x].replaced_by_token_id
             /\ x \in scope => rows'[x].status = "revoked"
             /\ x \notin scope => rows'[x] = rows[x]
  <2>1. rows[x] \in Token
    BY RowsAreCoherent
  <2>2. CASE x \in live
    <3>1. rows'[x] = Revoked(rows[x], at)
      BY <1>1, <2>2
    <3> QED
      BY <2>1, <2>2, <3>1 DEF Revoked, Token, SameFields
  <2>3. CASE x \notin live
    <3>1. rows'[x] = rows[x]
      BY <1>1, <2>3
    <3> QED
      BY <2>3, <3>1 DEF SameFields
  <2> QED
    BY <2>2, <2>3
<1>3. reply'.error = None
  BY <1>1 DEF Returned
<1> QED
  BY <1>1, <1>2, <1>3 DEF RevokesRows, indexes

-----------------------------------------------------------------------------
(* What a waiting task knows *)

(* A task that waits keeps knowing its target. *)
LEMMA LookedUpKept ==
  ASSUME NEW t \in Task, LookedUp(t), seen'[t] = seen[t],
         StoreKeeps, delivered \subseteq DOMAIN refresh_tokens_by_id
  PROVE  LookedUp(t)' /\ Target(t)' = Target(t)
<1>1. /\ Target(t)' = Target(t)
      /\ seen[t].token_hash \in DOMAIN refresh_token_id_by_hash'
  BY DEF LookedUp, Target, StoreKeeps
<1>2. /\ Target(t) \in delivered'
      /\ SameFields(Target(t))
  BY DEF LookedUp, StoreKeeps
<1>3. Snapshot(refresh_tokens_by_id'[Target(t)]) =
        Snapshot(refresh_tokens_by_id[Target(t)])
  BY <1>2 DEF SameFields, Snapshot
<1>4. LookedUp(t)' <=>
        /\ seen'[t] \in Snapshots
        /\ seen'[t].token_hash \in DOMAIN refresh_token_id_by_hash'
        /\ Target(t)' \in delivered'
        /\ seen'[t] = Snapshot(refresh_tokens_by_id'[Target(t)'])
  BY DEF LookedUp, Snapshots, Snapshot, Target
<1> QED
  BY <1>1, <1>2, <1>3, <1>4 DEF LookedUp

(* It keeps the row it has prepared, unless that is delivered or loses its *)
(* status before the target does.                                          *)
LEMMA PreparedKept ==
  ASSUME NEW t \in Task, LookedUp(t), Prepared(t),
         seen'[t] = seen[t], successor'[t] = successor[t],
         StoreKeeps, delivered \subseteq DOMAIN refresh_tokens_by_id,
         successor[t] \notin delivered',
         refresh_tokens_by_id'[Target(t)].status = "active" =>
           refresh_tokens_by_id'[successor[t]].status = "active"
  PROVE  Prepared(t)'
<1>1. Target(t)' = Target(t)
  BY LookedUpKept
<1>2. /\ successor[t] \in DOMAIN refresh_tokens_by_id'
      /\ SameFields(successor[t])
  BY DEF Prepared, StoreKeeps
<1> QED
  BY <1>1, <1>2 DEF Prepared, SameFields

(* The store keeps its rows in each of the three kinds of calls. *)
LEMMA CallsKeep ==
  ASSUME delivered \subseteq delivered'
  PROVE  /\ UNCHANGED store => StoreKeeps
         /\ \A i, u, n, f : AddsRow(i, u, n, f) => StoreKeeps
         /\ \A i, j : ReplacesRow(i, j) => StoreKeeps
         /\ \A S : RevokesRows(S) => StoreKeeps
<1>1. ASSUME UNCHANGED store PROVE StoreKeeps
  BY <1>1 DEF store, indexes, StoreKeeps, SameFields
<1>2. ASSUME NEW i, NEW u, NEW n, NEW f, AddsRow(i, u, n, f) PROVE StoreKeeps
  BY <1>2 DEF AddsRow, StoreKeeps, SameFields
<1>3. ASSUME NEW i, NEW j, ReplacesRow(i, j) PROVE StoreKeeps
  BY <1>3 DEF ReplacesRow, StoreKeeps, SameFields
<1>4. ASSUME NEW S, RevokesRows(S) PROVE StoreKeeps
  BY <1>4 DEF RevokesRows, StoreKeeps
<1> QED
  BY <1>1, <1>2, <1>3, <1>4

-----------------------------------------------------------------------------
(* The chains *)

(* Facts that every lemma on chains starts from. *)
Bounded ==
  /\ delivered \subseteq DOMAIN refresh_tokens_by_id
  /\ DOMAIN refresh_tokens_by_id \subseteq Id

(* A login starts the chain of a family that had no row. *)
LEMMA LoginKeepsChains ==
  ASSUME ChainsInv, Bounded,
         NEW i, NEW u, NEW n, NEW f, AddsRow(i, u, n, f),
         InFamily(f) = {}, delivered' = delivered \cup {i}
  PROVE  ChainsInv'
<1> DEFINE rows == refresh_tokens_by_id
<1>1. /\ i \in Id \ DOMAIN rows
      /\ DOMAIN rows' = DOMAIN rows \cup {i}
      /\ rows'[i].family_id = f
      /\ rows'[i].replaced_by_token_id = None
      /\ \A x \in DOMAIN rows : x # i /\ rows'[x] = rows[x]
  BY DEF AddsRow
<1>2. \A x \in DOMAIN rows : rows[x].family_id # f
  BY DEF InFamily
<1>3. delivered \subseteq DOMAIN rows
  BY DEF Bounded
<1>4. OneOwner'
  BY <1>1, <1>2 DEF ChainsInv, OneOwner, FamilyOf
<1>5. Begun'
  BY <1>1, <1>3 DEF ChainsInv, Begun, FamilyOf
<1>6. Links'
  BY <1>1, <1>3 DEF ChainsInv, Links, FamilyOf, SuccessorOf
<1>7. OneLeaf'
  BY <1>1, <1>2, <1>3 DEF ChainsInv, OneLeaf, FamilyOf, SuccessorOf
<1>8. OneRoot'
  BY <1>1, <1>2, <1>3 DEF ChainsInv, OneRoot, FamilyOf, SuccessorOf
<1>9. Acyclic'
  <2> SUFFICES ASSUME NEW S \in (SUBSET delivered') \ {{}}
               PROVE  \E x \in S : rows'[x].replaced_by_token_id \notin S
    BY DEF Acyclic, SuccessorOf
  <2>1. CASE i \in S
    <3>1. None \notin S
      BY <1>1, <1>3, NoneAssumption DEF Bounded
    <3> QED
      BY <1>1, <2>1, <3>1
  <2>2. CASE i \notin S
    BY <1>1, <1>3, <2>2 DEF ChainsInv, Acyclic, SuccessorOf
  <2> QED
    BY <2>1, <2>2
<1> QED
  BY <1>4, <1>5, <1>6, <1>7, <1>8, <1>9 DEF ChainsInv

(* The row a refresh creates is in no chain yet: it is not delivered. *)
LEMMA IssueKeepsChains ==
  ASSUME ChainsInv, Bounded,
         NEW i, NEW k \in delivered,
         AddsRow(i, refresh_tokens_by_id[k].user_id,
                    refresh_tokens_by_id[k].tenant_id, FamilyOf(k)),
         delivered' = delivered
  PROVE  ChainsInv'
<1> DEFINE rows == refresh_tokens_by_id
<1>1. /\ i \notin DOMAIN rows
      /\ DOMAIN rows' = DOMAIN rows \cup {i}
      /\ rows'[i].user_id = rows[k].user_id
      /\ rows'[i].tenant_id = rows[k].tenant_id
      /\ rows'[i].family_id = FamilyOf(k)
      /\ rows'[i].replaced_by_token_id = None
      /\ \A x \in DOMAIN rows : x # i /\ rows'[x] = rows[x]
  BY DEF AddsRow
<1>2. delivered \subseteq DOMAIN rows
  BY DEF Bounded
<1>3. OneOwner'
  BY <1>1, <1>2 DEF ChainsInv, OneOwner, FamilyOf
<1>4. Begun'
  BY <1>1, <1>2 DEF ChainsInv, Begun, FamilyOf
<1>5. Links'
  BY <1>1, <1>2 DEF ChainsInv, Links, FamilyOf, SuccessorOf
<1>6. OneLeaf' /\ OneRoot'
  BY <1>1, <1>2 DEF ChainsInv, OneLeaf, OneRoot, FamilyOf, SuccessorOf
<1>7. Acyclic'
  BY <1>1, <1>2 DEF ChainsInv, Acyclic, SuccessorOf
<1> QED
  BY <1>3, <1>4, <1>5, <1>6, <1>7 DEF ChainsInv

(* A rotation hangs a row that was in no chain on the one leaf of its      *)
(* family, and delivers it.                                                *)
LEMMA RotateKeepsChains ==
  ASSUME ChainsInv, Bounded,
         NEW i \in delivered, NEW j \in DOMAIN refresh_tokens_by_id \ delivered,
         ReplacesRow(i, j), FamilyOf(j) = FamilyOf(i),
         delivered' = delivered \cup {j}
  PROVE  ChainsInv'
<1> DEFINE rows == refresh_tokens_by_id
<1>1. /\ SuccessorOf(i) = None
      /\ DOMAIN rows' = DOMAIN rows
      /\ rows'[i].replaced_by_token_id = j
      /\ \A x \in DOMAIN rows \ {i} : rows'[x] = rows[x]
  BY DEF ReplacesRow
<1>2. \A x \in DOMAIN rows : /\ rows'[x].family_id = FamilyOf(x)
                             /\ rows'[x].user_id = rows[x].user_id
                             /\ rows'[x].tenant_id = rows[x].tenant_id
  BY <1>1 DEF ReplacesRow, SameFields, FamilyOf
<1>3. delivered \subseteq DOMAIN rows /\ i # j
  BY DEF Bounded
<1>4. \A x \in DOMAIN rows \ {i} :
        rows'[x].replaced_by_token_id = SuccessorOf(x)
  BY <1>1 DEF SuccessorOf
<1>5. /\ j # None
      /\ SuccessorOf(j) = None
      /\ \A x \in DOMAIN rows : SuccessorOf(x) # j
  BY NoneAssumption DEF ChainsInv, Links, Bounded
<1>6. OneOwner' /\ Begun'
  BY <1>1, <1>2, <1>3 DEF ChainsInv, OneOwner, Begun, FamilyOf
<1>7. Links'
  BY <1>1, <1>2, <1>3, <1>4, <1>5
     DEF ChainsInv, Links, FamilyOf, SuccessorOf
<1>8. OneLeaf'
  BY <1>1, <1>2, <1>3, <1>4, <1>5
     DEF ChainsInv, OneLeaf, FamilyOf, SuccessorOf
<1>9. OneRoot'
  <2> SUFFICES ASSUME NEW x \in delivered', NEW y \in delivered',
                      rows'[x].family_id = rows'[y].family_id,
                      \A k \in delivered' :
                        /\ rows'[k].replaced_by_token_id # x
                        /\ rows'[k].replaced_by_token_id # y
               PROVE  x = y
    BY DEF OneRoot, FamilyOf, SuccessorOf
  <2>1. x \in delivered /\ y \in delivered
    BY <1>1
  <2>2. \A k \in delivered : SuccessorOf(k) # x /\ SuccessorOf(k) # y
    BY <1>1, <1>3, <1>4, <2>1, NoneAssumption DEF Bounded
  <2> QED
    BY <1>2, <1>3, <2>1, <2>2 DEF ChainsInv, OneRoot
<1>10. Acyclic'
  <2> SUFFICES ASSUME NEW S \in (SUBSET delivered') \ {{}}
               PROVE  \E x \in S : rows'[x].replaced_by_token_id \notin S
    BY DEF Acyclic, SuccessorOf
  <2>1. CASE j \in S
    <3>1. None \notin S
      BY <1>3, NoneAssumption DEF Bounded
    <3> QED
      BY <1>3, <1>4, <1>5, <2>1, <3>1
  <2>2. CASE j \notin S
    <3>1. PICK x \in S : SuccessorOf(x) \notin S
      BY <2>2 DEF ChainsInv, Acyclic
    <3> QED
      BY <1>1, <1>3, <1>4, <2>2, <3>1
  <2> QED
    BY <2>1, <2>2
<1> QED
  BY <1>6, <1>7, <1>8, <1>9, <1>10 DEF ChainsInv

(* A sweep changes no link, and a step that leaves the store and the       *)
(* clients alone none either.                                              *)
LEMMA OthersKeepChains ==
  ASSUME ChainsInv, Bounded, UNCHANGED delivered,
         \/ \E S : RevokesRows(S)
         \/ UNCHANGED store
  PROVE  ChainsInv'
<1> DEFINE rows == refresh_tokens_by_id
<1>1. /\ DOMAIN rows' = DOMAIN rows
      /\ \A x \in DOMAIN rows :
           /\ rows'[x].family_id = FamilyOf(x)
           /\ rows'[x].replaced_by_token_id = SuccessorOf(x)
           /\ rows'[x].user_id = rows[x].user_id
           /\ rows'[x].tenant_id = rows[x].tenant_id
  BY DEF RevokesRows, SameFields, store, FamilyOf, SuccessorOf
<1>2. delivered \subseteq DOMAIN rows
  BY DEF Bounded
<1>3. OneOwner' /\ Begun' /\ Links'
  BY <1>1, <1>2
     DEF ChainsInv, OneOwner, Begun, Links, FamilyOf, SuccessorOf
<1>4. OneLeaf' /\ OneRoot'
  BY <1>1, <1>2 DEF ChainsInv, OneLeaf, OneRoot, FamilyOf, SuccessorOf
<1>5. Acyclic'
  BY <1>1, <1>2 DEF ChainsInv, Acyclic, SuccessorOf
<1> QED
  BY <1>3, <1>4, <1>5 DEF ChainsInv

-----------------------------------------------------------------------------
(* The ended families *)

(* A new row is either of a family nobody can have ended, or not delivered.*)
LEMMA AddKeepsEnded ==
  ASSUME EndedInv, Bounded,
         NEW i, NEW u, NEW n, NEW f, AddsRow(i, u, n, f), UNCHANGED ended,
         \/ InFamily(f) = {} /\ delivered' = delivered \cup {i}
         \/ UNCHANGED delivered
  PROVE  EndedInv'
<1> DEFINE rows == refresh_tokens_by_id
<1>1. /\ DOMAIN rows' = DOMAIN rows \cup {i}
      /\ rows'[i].family_id = f
      /\ \A x \in DOMAIN rows : x # i /\ rows'[x] = rows[x]
  BY DEF AddsRow
<1>2. delivered \subseteq DOMAIN rows
  BY DEF Bounded
<1>3. ASSUME NEW g \in ended
      PROVE  /\ \E x \in delivered' : rows'[x].family_id = g
             /\ Usable(g)' = {}
  <2>1. /\ \E x \in delivered : rows[x].family_id = g
        /\ Usable(g) = {}
    BY DEF EndedInv, EndedStaysEnded, FamilyOf
  <2>2. i \in delivered' => f # g
    BY <1>1, <1>2, <2>1 DEF InFamily
  <2> QED
    BY <1>1, <1>2, <2>1, <2>2 DEF Usable
<1> QED
  BY <1>3 DEF EndedInv, EndedStaysEnded, FamilyOf

(* A family with an active delivered token has not been ended, so that the *)
(* successor a rotation delivers revives none.                             *)
LEMMA RotateKeepsEnded ==
  ASSUME EndedInv, Bounded,
         NEW i \in delivered, NEW j \in DOMAIN refresh_tokens_by_id \ delivered,
         ReplacesRow(i, j), FamilyOf(j) = FamilyOf(i),
         delivered' = delivered \cup {j}, UNCHANGED ended
  PROVE  EndedInv'
<1> DEFINE rows == refresh_tokens_by_id
<1>1. /\ rows[i].status = "active"
      /\ rows'[i].status = "rotated"
      /\ rows'[i].family_id = rows[i].family_id
      /\ \A x \in DOMAIN rows \ {i} : rows'[x] = rows[x]
  BY DEF ReplacesRow, SameFields
<1>2. delivered \subseteq DOMAIN rows
  BY DEF Bounded
<1>3. ASSUME NEW g \in ended
      PROVE  /\ \E x \in delivered' : rows'[x].family_id = g
             /\ Usable(g)' = {}
  <2>1. /\ \E x \in delivered : rows[x].family_id = g
        /\ Usable(g) = {}
    BY DEF EndedInv, EndedStaysEnded, FamilyOf
  <2>2. FamilyOf(j) # g
    BY <1>1, <2>1 DEF Usable, FamilyOf
  <2> QED
    BY <1>1, <1>2, <2>1, <2>2 DEF Usable, FamilyOf
<1> QED
  BY <1>3 DEF EndedInv, EndedStaysEnded, FamilyOf

(* A sweep ends the families it covers. *)
LEMMA RevokeEnds ==
  ASSUME EndedInv, Bounded,
         NEW S, NEW E, RevokesRows(S), UNCHANGED delivered,
         ended' = ended \cup E,
         \A f \in E : InFamily(f) \subseteq S /\
                      \E i \in delivered : FamilyOf(i) = f
  PROVE  EndedInv'
<1> DEFINE rows == refresh_tokens_by_id
<1>1. \A x \in DOMAIN rows :
        /\ rows'[x].family_id = FamilyOf(x)
        /\ rows'[x].status = "active" => rows[x].status = "active" /\ x \notin S
  BY DEF RevokesRows, SameFields, FamilyOf
<1>2. delivered \subseteq DOMAIN rows
  BY DEF Bounded
<1>3. ASSUME NEW g \in ended'
      PROVE  /\ \E x \in delivered' : rows'[x].family_id = g
             /\ Usable(g)' = {}
  <2>1. \E x \in delivered : FamilyOf(x) = g
    BY DEF EndedInv
  <2>2. Usable(g) = {} \/ InFamily(g) \subseteq S
    BY DEF EndedInv, EndedStaysEnded
  <2> QED
    BY <1>1, <1>2, <2>1, <2>2 DEF Usable, InFamily, FamilyOf
<1> QED
  BY <1>3 DEF EndedInv, EndedStaysEnded, FamilyOf

-----------------------------------------------------------------------------
(* The waiting tasks *)

Others(t) ==
  \A v \in Task \ {t} : /\ pc'[v] = pc[v]
                        /\ seen'[v] = seen[v]
                        /\ successor'[v] = successor[v]

(* A step of one task takes no prepared row from another, by delivering it *)
(* or by revoking it before its target.                                    *)
LeavesPrepared(t) ==
  \A v \in Task \ {t} : pc[v] = "rotate" =>
    /\ successor[v] \notin delivered'
    /\ refresh_tokens_by_id'[Target(v)].status = "active" =>
         refresh_tokens_by_id'[successor[v]].status = "active"

(* Then only the task that takes the step has something to show. *)
LEMMA TasksKept ==
  ASSUME TasksInv, Bounded, NEW t \in Task, Others(t), StoreKeeps,
         LeavesPrepared(t),
         pc'[t] # "idle" => LookedUp(t)',
         pc'[t] = "rotate" =>
           /\ Prepared(t)'
           /\ \A v \in Task \ {t} :
                pc[v] = "rotate" => successor[v] # successor'[t]
  PROVE  TasksInv'
<1>1. ASSUME NEW v \in Task, pc'[v] # "idle" PROVE LookedUp(v)'
  <2>1. CASE v # t
    <3>1. LookedUp(v) /\ seen'[v] = seen[v]
      BY <1>1, <2>1 DEF Others, TasksInv
    <3> QED
      BY <3>1, LookedUpKept DEF Bounded
  <2> QED
    BY <1>1, <2>1
<1>2. ASSUME NEW v \in Task, pc'[v] = "rotate" PROVE Prepared(v)'
  <2>1. CASE v # t
    <3>1. /\ pc[v] = "rotate" /\ LookedUp(v) /\ Prepared(v)
          /\ seen'[v] = seen[v] /\ successor'[v] = successor[v]
      BY <1>2, <2>1 DEF Others, TasksInv
    <3>2. /\ successor[v] \notin delivered'
          /\ refresh_tokens_by_id'[Target(v)].status = "active" =>
               refresh_tokens_by_id'[successor[v]].status = "active"
      BY <2>1, <3>1 DEF LeavesPrepared
    <3> QED
      BY <3>1, <3>2, PreparedKept DEF Bounded
  <2> QED
    BY <1>2, <2>1
<1>3. ASSUME NEW v \in Task, NEW w \in Task,
             pc'[v] = "rotate", pc'[w] = "rotate",
             successor'[v] = successor'[w]
      PROVE  v = w
  BY <1>3 DEF Others, TasksInv
<1> QED
  BY <1>1, <1>2, <1>3 DEF TasksInv

(* A token that a client presents is looked up. *)
LEMMA PresentedIsLookedUp ==
  ASSUME IInv, Bounded, NEW t \in Task, NEW h \in Presentable,
         UNCHANGED <<store, delivered>>,
         seen'[t] = Snapshot(GetByTokenHash(h))
  PROVE  LookedUp(t)'
<1> DEFINE rows == refresh_tokens_by_id
<1>1. PICK i \in delivered : rows[i].token_hash = h
  BY DEF Presentable
<1>2. i \in DOMAIN rows /\ rows[i] \in Token
  BY RowsAreCoherent DEF Bounded
<1>3. h \in DOMAIN refresh_token_id_by_hash /\ refresh_token_id_by_hash[h] = i
  BY <1>1, <1>2 DEF IInv, IndexesAgree, HashIndexAgrees
<1>4. seen'[t] = Snapshot(rows[i])
  BY <1>3 DEF GetByTokenHash
<1>5. Snapshot(rows[i]) \in Snapshots /\ Snapshot(rows[i]).token_hash = h
  BY <1>1, <1>2 DEF Snapshot, Snapshots, Token
<1> QED
  BY <1>3, <1>4, <1>5 DEF LookedUp, Target, Snapshot, Snapshots, store, indexes

-----------------------------------------------------------------------------
(* The requests *)

(* What the lemmas above ask for is part of the invariant. *)
LEMMA BoundedFromSInv ==
  ASSUME SInv
  PROVE  Bounded
  BY DEF SInv, SessionsTypeOK, IInv, TypeOK, Bounded

(* A family that is swept takes no prepared row before its target, because *)
(* both are in it.                                                         *)
LEMMA SweepLeavesPrepared ==
  ASSUME SInv, NEW S, NEW t \in Task, RevokesRows(S), UNCHANGED delivered,
         \A x, y \in DOMAIN refresh_tokens_by_id :
           x \in S /\ FamilyOf(x) = FamilyOf(y) => y \in S
  PROVE  LeavesPrepared(t)
<1> SUFFICES ASSUME NEW v \in Task, pc[v] = "rotate"
             PROVE  /\ successor[v] \notin delivered'
                    /\ refresh_tokens_by_id'[Target(v)].status = "active" =>
                         refresh_tokens_by_id'[successor[v]].status = "active"
  BY DEF LeavesPrepared
<1>1. LookedUp(v) /\ Prepared(v)
  BY DEF SInv, TasksInv
<1>2. FamilyOf(Target(v)) = FamilyOf(successor[v])
  BY <1>1 DEF LookedUp, Prepared, Snapshot, FamilyOf
<1>3. Target(v) \in DOMAIN refresh_tokens_by_id
  BY <1>1, BoundedFromSInv DEF LookedUp, Bounded
<1> QED
  BY <1>1, <1>2, <1>3 DEF Prepared, RevokesRows

(* A step that calls nothing, or a call that raises. *)
LEMMA QuietKeepsSInv ==
  ASSUME SInv, NEW t \in Task, Others(t), UNCHANGED <<store, history>>,
         SessionsTypeOK', reply' \in Reply, pc'[t] # "rotate",
         pc'[t] # "idle" => LookedUp(t)'
  PROVE  SInv'
<1>1. Bounded
  BY BoundedFromSInv
<1>2. IInv'
  BY StorePreservedIInv DEF SInv
<1>3. StoreKeeps
  BY CallsKeep DEF history
<1>4. LeavesPrepared(t)
  BY DEF LeavesPrepared, SInv, TasksInv, Prepared, store, history
<1>5. TasksInv'
  BY <1>1, <1>3, <1>4, TasksKept DEF SInv
<1>6. ChainsInv'
  BY <1>1, OthersKeepChains DEF SInv, history
<1>7. EndedInv'
  BY DEF SInv, EndedInv, EndedStaysEnded, Usable, FamilyOf, store, history
<1> QED
  BY <1>2, <1>5, <1>6, <1>7 DEF SInv

(* A lookup, for a refresh or a logout. *)
LEMMA LookupsKeepSInv ==
  ASSUME SInv, NEW t \in Task, NEW h \in Hash,
         RefreshLookup(t, h) \/ LogoutLookup(t, h)
  PROVE  SInv'
<1>1. /\ h \in Presentable
      /\ seen' = [seen EXCEPT ![t] = Snapshot(GetByTokenHash(h))]
      /\ pc' = [pc EXCEPT ![t] = "issue"] \/ pc' = [pc EXCEPT ![t] = "end"]
      /\ UNCHANGED <<store, reply, successor, delivered, ended>>
  BY DEF RefreshLookup, LogoutLookup, vars, history
<1>2. /\ pc \in [Task -> {"idle", "issue", "rotate", "end"}]
      /\ seen \in [Task -> Snapshots \cup {None}]
  BY DEF SInv, SessionsTypeOK
<1>3. /\ Others(t)
      /\ pc'[t] \in {"issue", "end"}
      /\ seen'[t] = Snapshot(GetByTokenHash(h))
  BY <1>1, <1>2 DEF Others
<1>4. LookedUp(t)'
  BY <1>1, <1>3, BoundedFromSInv, PresentedIsLookedUp DEF SInv
<1>5. pc' \in [Task -> {"idle", "issue", "rotate", "end"}]
  BY <1>1, <1>2
<1>6. seen' \in [Task -> Snapshots \cup {None}]
  <2>1. Snapshot(GetByTokenHash(h)) \in Snapshots
    BY <1>3, <1>4 DEF LookedUp, Snapshots
  <2> QED
    BY <1>1, <1>2, <2>1
<1>7. SessionsTypeOK'
  BY <1>1, <1>5, <1>6 DEF SInv, SessionsTypeOK, store, Snapshots
<1>8. reply' \in Reply
  BY <1>1 DEF SInv, IInv, TypeOK
<1> QED
  BY <1>1, <1>3, <1>4, <1>7, <1>8, QuietKeepsSInv DEF history

(* A task that forgets its request, rejected or abandoned. *)
LEMMA ForgettingKeepsSInv ==
  ASSUME SInv, NEW t \in Task, RefreshRejected(t) \/ Abandon(t)
  PROVE  SInv'
<1>1. Forget(t) /\ UNCHANGED <<store, delivered, ended>>
  BY DEF RefreshRejected, Abandon, MarkRotatedRaises, vars, history
<1>2. reply' \in Reply
  BY DEF RefreshRejected, Abandon, MarkRotatedRaises, Raised, Error, Reply,
         vars, SInv, IInv, TypeOK
<1>3. /\ pc \in [Task -> {"idle", "issue", "rotate", "end"}]
      /\ seen \in [Task -> Snapshots \cup {None}]
      /\ successor \in [Task -> Id \cup {None}]
  BY DEF SInv, SessionsTypeOK
<1>4. Others(t) /\ pc'[t] = "idle"
  BY <1>1, <1>3 DEF Forget, Others
<1>5. SessionsTypeOK'
  <2>1. /\ pc' \in [Task -> {"idle", "issue", "rotate", "end"}]
        /\ seen' \in [Task -> Snapshots \cup {None}]
        /\ successor' \in [Task -> Id \cup {None}]
    BY <1>1, <1>3 DEF Forget
  <2> QED
    BY <1>1, <2>1 DEF SInv, SessionsTypeOK, Snapshots, store
<1> QED
  BY <1>1, <1>2, <1>4, <1>5, QuietKeepsSInv DEF history

(* A login: the family is new, so it has been neither shared nor ended. *)
LEMMA LoginKeepsSInv ==
  ASSUME SInv, NEW t \in Task, NEW i \in Id, NEW u \in User, NEW n \in Tenant,
         NEW f \in Family, NEW h \in Hash, NEW iat \in Time, NEW exp \in Time,
         Login(t, i, u, n, f, h, iat, exp)
  PROVE  SInv'
<1>1. /\ pc[t] = "idle"
      /\ InFamily(f) = {}
      /\ Create(i, u, n, f, h, iat, exp)
      /\ delivered' = delivered \cup {i}
      /\ UNCHANGED <<pc, seen, successor, ended>>
  BY DEF Login, locals
<1>2. Bounded
  BY BoundedFromSInv
<1>3. AddsRow(i, u, n, f)
  BY <1>1, CreateAddsRow
<1>4. IInv'
  BY <1>1, CreatePreservesIInv DEF SInv
<1>5. SessionsTypeOK'
  BY <1>1, <1>3 DEF AddsRow, SInv, SessionsTypeOK, Snapshots
<1>6. StoreKeeps
  BY <1>1, <1>3, CallsKeep
<1>7. Others(t)
  BY <1>1 DEF Others
<1>8. LeavesPrepared(t)
  BY <1>1, <1>2, <1>3
     DEF LeavesPrepared, SInv, TasksInv, Prepared, LookedUp, AddsRow, Bounded
<1>9. TasksInv'
  BY <1>1, <1>2, <1>6, <1>7, <1>8, TasksKept DEF SInv
<1>10. ChainsInv'
  BY <1>1, <1>2, <1>3, LoginKeepsChains DEF SInv
<1>11. EndedInv'
  BY <1>1, <1>2, <1>3, AddKeepsEnded DEF SInv
<1> QED
  BY <1>4, <1>5, <1>9, <1>10, <1>11 DEF SInv

(* The second call of a refresh: a row of the target's family and owner,   *)
(* active as long as the target, and held by no client.                    *)
LEMMA RefreshIssueKeepsSInv ==
  ASSUME SInv, NEW t \in Task, NEW i \in Id, NEW h \in Hash,
         NEW iat \in Time, NEW exp \in Time, RefreshIssue(t, i, h, iat, exp)
  PROVE  SInv'
<1> DEFINE rows == refresh_tokens_by_id
<1>1. /\ pc[t] = "issue"
      /\ Create(i, seen[t].user_id, seen[t].tenant_id, seen[t].family_id,
                h, iat, exp)
      /\ pc' = [pc EXCEPT ![t] = "rotate"]
      /\ successor' = [successor EXCEPT ![t] = i]
      /\ UNCHANGED <<seen, delivered, ended>>
  BY DEF RefreshIssue, history
<1>2. Bounded
  BY BoundedFromSInv
<1>3. LookedUp(t)
  BY <1>1 DEF SInv, TasksInv
<1>4. /\ seen[t].user_id \in User /\ seen[t].tenant_id \in Tenant
      /\ seen[t].family_id \in Family
  BY <1>3 DEF LookedUp, Snapshots
<1>5. /\ Target(t) \in delivered
      /\ seen[t].user_id = rows[Target(t)].user_id
      /\ seen[t].tenant_id = rows[Target(t)].tenant_id
      /\ seen[t].family_id = FamilyOf(Target(t))
  BY <1>3 DEF LookedUp, Snapshot, FamilyOf
<1>6. AddsRow(i, seen[t].user_id, seen[t].tenant_id, seen[t].family_id)
  BY <1>1, <1>4, CreateAddsRow
<1>7. IInv'
  BY <1>1, <1>4, CreatePreservesIInv DEF SInv
<1>8. /\ pc \in [Task -> {"idle", "issue", "rotate", "end"}]
      /\ successor \in [Task -> Id \cup {None}]
  BY DEF SInv, SessionsTypeOK
<1>9. SessionsTypeOK'
  <2>1. /\ pc' \in [Task -> {"idle", "issue", "rotate", "end"}]
        /\ successor' \in [Task -> Id \cup {None}]
    BY <1>1, <1>8
  <2> QED
    BY <1>1, <1>6, <2>1 DEF AddsRow, SInv, SessionsTypeOK, Snapshots
<1>10. StoreKeeps
  BY <1>1, <1>6, CallsKeep
<1>11. /\ Others(t)
       /\ pc'[t] = "rotate" /\ seen'[t] = seen[t] /\ successor'[t] = i
  BY <1>1, <1>8 DEF Others
<1>12. LeavesPrepared(t)
  BY <1>1, <1>2, <1>6
     DEF LeavesPrepared, SInv, TasksInv, Prepared, LookedUp, AddsRow, Bounded
<1>13. LookedUp(t)' /\ Target(t)' = Target(t)
  BY <1>2, <1>3, <1>10, <1>11, LookedUpKept DEF Bounded
<1>14. Prepared(t)'
  BY <1>1, <1>2, <1>6, <1>11 DEF Prepared, AddsRow, Bounded
<1>15. \A v \in Task \ {t} : pc[v] = "rotate" => successor[v] # i
  BY <1>6 DEF SInv, TasksInv, Prepared, AddsRow
<1>16. TasksInv'
  BY <1>2, <1>10, <1>11, <1>12, <1>13, <1>14, <1>15, TasksKept DEF SInv
<1>17. ChainsInv'
  BY <1>1, <1>2, <1>5, <1>6, IssueKeepsChains DEF SInv
<1>18. EndedInv'
  BY <1>1, <1>2, <1>6, AddKeepsEnded DEF SInv
<1> QED
  BY <1>7, <1>9, <1>16, <1>17, <1>18 DEF SInv

(* What the third call of a refresh does: the target, active until then,   *)
(* gets the row the task has prepared, and a client gets that.             *)
LEMMA RefreshRotateReplaces ==
  ASSUME SInv, NEW t \in Task, NEW at \in Time, RefreshRotate(t, at)
  PROVE  /\ Target(t) \in delivered
         /\ successor[t] \in DOMAIN refresh_tokens_by_id \ delivered
         /\ FamilyOf(successor[t]) = FamilyOf(Target(t))
         /\ refresh_tokens_by_id[successor[t]].status = "active"
         /\ ReplacesRow(Target(t), successor[t])
         /\ delivered' = delivered \cup {successor[t]}
         /\ UNCHANGED ended
         /\ IInv'
<1>1. /\ pc[t] = "rotate"
      /\ MarkRotated(seen[t].token_hash, successor[t], at)
      /\ delivered' = delivered \cup {successor[t]}
      /\ UNCHANGED ended
  BY DEF RefreshRotate
<1>2. LookedUp(t) /\ Prepared(t) /\ Bounded
  BY <1>1, BoundedFromSInv DEF SInv, TasksInv
<1>3. seen[t].token_hash \in Hash /\ successor[t] \in Id
  BY <1>2 DEF LookedUp, Prepared, Snapshots, Bounded
<1>4. ReplacesRow(Target(t), successor[t])
  BY <1>1, <1>3, MarkRotatedReplacesRow DEF SInv, Target
<1>5. IInv'
  BY <1>1, <1>3, MarkRotatedPreservesIInv DEF SInv
<1>6. FamilyOf(successor[t]) = FamilyOf(Target(t))
  BY <1>2 DEF LookedUp, Prepared, Snapshot, FamilyOf
<1>7. /\ Target(t) \in delivered
      /\ successor[t] \in DOMAIN refresh_tokens_by_id \ delivered
      /\ refresh_tokens_by_id[successor[t]].status = "active"
  BY <1>2, <1>4 DEF LookedUp, Prepared, ReplacesRow
<1> QED
  BY <1>1, <1>4, <1>5, <1>6, <1>7

(* Of the tasks that race for a target, the first takes nothing from the   *)
(* others but the target's status.                                         *)
LEMMA RefreshRotateKeepsSInv ==
  ASSUME SInv, NEW t \in Task, NEW at \in Time, RefreshRotate(t, at)
  PROVE  SInv'
<1> DEFINE rows == refresh_tokens_by_id
<1>1. /\ pc[t] = "rotate" /\ Forget(t)
  BY DEF RefreshRotate
<1>2. PICK i \in delivered, j \in DOMAIN rows \ delivered :
        /\ i = Target(t) /\ j = successor[t]
        /\ FamilyOf(j) = FamilyOf(i)
        /\ ReplacesRow(i, j)
        /\ delivered' = delivered \cup {j}
        /\ UNCHANGED ended
        /\ IInv'
  BY RefreshRotateReplaces
<1>3. Bounded
  BY BoundedFromSInv
<1>4. /\ pc \in [Task -> {"idle", "issue", "rotate", "end"}]
      /\ seen \in [Task -> Snapshots \cup {None}]
      /\ successor \in [Task -> Id \cup {None}]
  BY DEF SInv, SessionsTypeOK
<1>5. SessionsTypeOK'
  <2>1. /\ pc' \in [Task -> {"idle", "issue", "rotate", "end"}]
        /\ seen' \in [Task -> Snapshots \cup {None}]
        /\ successor' \in [Task -> Id \cup {None}]
    BY <1>1, <1>4 DEF Forget
  <2> QED
    BY <1>2, <1>3, <2>1
       DEF ReplacesRow, Bounded, SInv, SessionsTypeOK, Snapshots
<1>6. StoreKeeps
  BY <1>2, CallsKeep
<1>7. Others(t) /\ pc'[t] = "idle"
  BY <1>1, <1>4 DEF Forget, Others
<1>8. LeavesPrepared(t)
  <2> SUFFICES ASSUME NEW v \in Task \ {t}, pc[v] = "rotate"
               PROVE  /\ successor[v] \notin delivered'
                      /\ rows'[Target(v)].status = "active" =>
                           rows'[successor[v]].status = "active"
    BY DEF LeavesPrepared
  <2>1. LookedUp(v) /\ Prepared(v) /\ successor[v] # j
    BY <1>1, <1>2 DEF SInv, TasksInv
  <2> QED
    BY <1>2, <1>3, <2>1 DEF LookedUp, Prepared, ReplacesRow, Bounded
<1>9. TasksInv'
  BY <1>3, <1>6, <1>7, <1>8, TasksKept DEF SInv
<1>10. ChainsInv'
  BY <1>2, <1>3, RotateKeepsChains DEF SInv
<1>11. EndedInv'
  BY <1>2, <1>3, RotateKeepsEnded DEF SInv
<1> QED
  BY <1>2, <1>5, <1>9, <1>10, <1>11 DEF SInv

(* A sweep over whole families, each of which some client has a token of,  *)
(* ends them.                                                              *)
LEMMA RevocationKeepsSInv ==
  ASSUME SInv, NEW t \in Task, NEW S, NEW E \in SUBSET Family,
         RevokesRows(S), IInv', Others(t), SessionsTypeOK',
         pc'[t] = "idle", UNCHANGED delivered, ended' = ended \cup E,
         \A f \in E : InFamily(f) \subseteq S /\
                      \E i \in delivered : FamilyOf(i) = f,
         \A x, y \in DOMAIN refresh_tokens_by_id :
           x \in S /\ FamilyOf(x) = FamilyOf(y) => y \in S
  PROVE  SInv'
<1>1. Bounded
  BY BoundedFromSInv
<1>2. StoreKeeps
  BY CallsKeep
<1>3. LeavesPrepared(t)
  BY SweepLeavesPrepared
<1>4. TasksInv'
  BY <1>1, <1>2, <1>3, TasksKept DEF SInv
<1>5. ChainsInv'
  BY <1>1, OthersKeepChains DEF SInv
<1>6. EndedInv'
  BY <1>1, RevokeEnds DEF SInv
<1> QED
  BY <1>4, <1>5, <1>6 DEF SInv

(* A logout, or a detected reuse, sweeps and ends the target's family. *)
LEMMA EndFamilyEnds ==
  ASSUME SInv, NEW t \in Task, NEW at \in Time, EndFamily(t, at)
  PROVE  /\ seen[t].family_id \in Family
         /\ \E i \in delivered : FamilyOf(i) = seen[t].family_id
         /\ RevokesRows(InFamily(seen[t].family_id))
         /\ ended' = ended \cup {seen[t].family_id}
         /\ IInv'
<1>1. /\ pc[t] = "end"
      /\ RevokeFamily(seen[t].family_id, at)
      /\ ended' = IF reply'.error = None
                  THEN ended \cup {seen[t].family_id} ELSE ended
  BY DEF EndFamily
<1>2. LookedUp(t)
  BY <1>1 DEF SInv, TasksInv
<1>3. /\ seen[t].family_id \in Family
      /\ \E i \in delivered : FamilyOf(i) = seen[t].family_id
  BY <1>2 DEF LookedUp, Snapshots, Snapshot, FamilyOf
<1>4. /\ IdsOfFamily(seen[t].family_id) = InFamily(seen[t].family_id)
      /\ InFamily(seen[t].family_id) \in SUBSET DOMAIN refresh_tokens_by_id
  BY <1>3, IdsOfFamilyAreRows DEF SInv, InFamily
<1>5. Sweep(InFamily(seen[t].family_id), at)
  BY <1>1, <1>4 DEF RevokeFamily
<1>6. RevokesRows(InFamily(seen[t].family_id)) /\ IInv'
  BY <1>4, <1>5, SweepRevokesRows, SweepPreservesIInv DEF SInv
<1> QED
  BY <1>1, <1>3, <1>6 DEF RevokesRows

(* The sweep of one family keeps the invariant. *)
LEMMA EndFamilyKeepsSInv ==
  ASSUME SInv, NEW t \in Task, NEW at \in Time, EndFamily(t, at)
  PROVE  SInv'
<1>1. Forget(t) /\ UNCHANGED delivered
  BY DEF EndFamily
<1>2. PICK f \in Family :
        /\ \E i \in delivered : FamilyOf(i) = f
        /\ RevokesRows(InFamily(f))
        /\ ended' = ended \cup {f}
        /\ IInv'
  BY EndFamilyEnds
<1>3. /\ pc \in [Task -> {"idle", "issue", "rotate", "end"}]
      /\ seen \in [Task -> Snapshots \cup {None}]
      /\ successor \in [Task -> Id \cup {None}]
  BY DEF SInv, SessionsTypeOK
<1>4. Others(t) /\ pc'[t] = "idle"
  BY <1>1, <1>3 DEF Forget, Others
<1>5. SessionsTypeOK'
  <2>1. /\ pc' \in [Task -> {"idle", "issue", "rotate", "end"}]
        /\ seen' \in [Task -> Snapshots \cup {None}]
        /\ successor' \in [Task -> Id \cup {None}]
    BY <1>1, <1>3 DEF Forget
  <2> QED
    BY <1>1, <1>2, <2>1 DEF RevokesRows, SInv, SessionsTypeOK, Snapshots
<1>6. \A x, y \in DOMAIN refresh_tokens_by_id :
        x \in InFamily(f) /\ FamilyOf(x) = FamilyOf(y) => y \in InFamily(f)
  BY DEF InFamily, FamilyOf
<1>7. {f} \in SUBSET Family
  OBVIOUS
<1> QED
  BY <1>1, <1>2, <1>4, <1>5, <1>6, <1>7, RevocationKeepsSInv

(* Because a family has one owner, logging out everywhere sweeps and ends  *)
(* all families it touches.                                                *)
LEMMA LogoutAllEnds ==
  ASSUME SInv, NEW t \in Task, NEW u \in User, NEW n \in Tenant,
         NEW at \in Time, LogoutAll(t, u, n, at)
  PROVE  LET S == OwnedBy(u, n)
             E == {FamilyOf(i) : i \in S}
         IN /\ RevokesRows(S)
            /\ ended' = ended \cup E
            /\ E \subseteq Family
            /\ \A f \in E : InFamily(f) \subseteq S /\
                            \E i \in delivered : FamilyOf(i) = f
            /\ \A x, y \in DOMAIN refresh_tokens_by_id :
                 x \in S /\ FamilyOf(x) = FamilyOf(y) => y \in S
            /\ IInv'
<1> DEFINE S == OwnedBy(u, n)
           E == {FamilyOf(i) : i \in S}
<1>1. S \in SUBSET DOMAIN refresh_tokens_by_id
  BY DEF OwnedBy
<1>2. Sweep(S, at)
  BY DEF LogoutAll, RevokeAllActive, OwnedBy
<1>3. RevokesRows(S) /\ IInv'
  <2> HIDE DEF S
  <2> QED
    BY <1>1, <1>2, SweepRevokesRows, SweepPreservesIInv DEF SInv
<1>4. ended' = ended \cup E
  BY <1>3 DEF LogoutAll, RevokesRows, FamilyOf
<1>5. \A x, y \in DOMAIN refresh_tokens_by_id :
        x \in S /\ FamilyOf(x) = FamilyOf(y) => y \in S
  BY DEF OwnedBy, SInv, ChainsInv, OneOwner
<1>6. E \subseteq Family
  BY <1>1, RowsAreCoherent DEF FamilyOf, Token, SInv
<1>7. ASSUME NEW f \in E
      PROVE  InFamily(f) \subseteq S /\ \E i \in delivered : FamilyOf(i) = f
  BY <1>1, <1>5 DEF InFamily, FamilyOf, SInv, ChainsInv, Begun
<1> QED
  BY <1>3, <1>4, <1>5, <1>6, <1>7

(* The sweep over an owner's families keeps the invariant. *)
LEMMA LogoutAllKeepsSInv ==
  ASSUME SInv, NEW t \in Task, NEW u \in User, NEW n \in Tenant,
         NEW at \in Time, LogoutAll(t, u, n, at)
  PROVE  SInv'
<1>1. pc[t] = "idle" /\ UNCHANGED <<pc, seen, successor, delivered>>
  BY DEF LogoutAll, locals
<1>2. PICK S, E :
        /\ RevokesRows(S)
        /\ ended' = ended \cup E
        /\ E \subseteq Family
        /\ \A f \in E : InFamily(f) \subseteq S /\
                        \E i \in delivered : FamilyOf(i) = f
        /\ \A x, y \in DOMAIN refresh_tokens_by_id :
             x \in S /\ FamilyOf(x) = FamilyOf(y) => y \in S
        /\ IInv'
  BY LogoutAllEnds
<1>3. Others(t) /\ pc'[t] = "idle"
  BY <1>1 DEF Others
<1>4. SessionsTypeOK'
  BY <1>1, <1>2 DEF RevokesRows, SInv, SessionsTypeOK, Snapshots
<1> QED
  BY <1>1, <1>2, <1>3, <1>4, RevocationKeepsSInv

-----------------------------------------------------------------------------
(* The invariant *)

(* Before the first request there is nothing to break it. *)
LEMMA SessionsInitImpliesSInv == SessionsInit => SInv
<1> SUFFICES ASSUME SessionsInit PROVE SInv
  OBVIOUS
<1>1. IInv
  BY InitImpliesIInv DEF SessionsInit
<1>2. delivered = {} /\ ended = {} /\ DOMAIN refresh_tokens_by_id = {}
  BY DEF SessionsInit, Init
<1>3. \A t \in Task : pc[t] = "idle"
  BY DEF SessionsInit
<1>4. SessionsTypeOK
  BY DEF SessionsInit, SessionsTypeOK
<1>5. TasksInv
  BY <1>3 DEF TasksInv
<1>6. ChainsInv
  <2>1. OneOwner /\ Begun /\ Links /\ OneLeaf /\ OneRoot
    BY <1>2 DEF OneOwner, Begun, Links, OneLeaf, OneRoot
  <2>2. \A S \in SUBSET delivered : S = {}
    BY <1>2
  <2>3. Acyclic
    BY <2>2 DEF Acyclic
  <2> QED
    BY <2>1, <2>3 DEF ChainsInv
<1>7. EndedInv
  BY <1>2 DEF EndedInv, EndedStaysEnded
<1> QED
  BY <1>1, <1>4, <1>5, <1>6, <1>7 DEF SInv

(* Every call of every request preserves it. *)
LEMMA SessionsNextPreservesSInv ==
  SInv /\ [SessionsNext]_sessionVars => SInv'
<1> SUFFICES ASSUME SInv, [SessionsNext]_sessionVars PROVE SInv'
  OBVIOUS
<1>1. ASSUME NEW t \in Task, Step(t) PROVE SInv'
  <2>1. ASSUME NEW i \in Id, NEW u \in User, NEW n \in Tenant,
               NEW f \in Family, NEW h \in Hash,
               NEW iat \in Time, NEW exp \in Time,
               Login(t, i, u, n, f, h, iat, exp)
        PROVE  SInv'
    BY <2>1, LoginKeepsSInv
  <2>2. ASSUME NEW h \in Hash, RefreshLookup(t, h) \/ LogoutLookup(t, h)
        PROVE  SInv'
    BY <2>2, LookupsKeepSInv
  <2>3. ASSUME NEW i \in Id, NEW h \in Hash, NEW iat \in Time,
               NEW exp \in Time, RefreshIssue(t, i, h, iat, exp)
        PROVE  SInv'
    BY <2>3, RefreshIssueKeepsSInv
  <2>4. ASSUME NEW at \in Time, RefreshRotate(t, at)
        PROVE  SInv'
    BY <2>4, RefreshRotateKeepsSInv
  <2>5. ASSUME NEW at \in Time, EndFamily(t, at)
        PROVE  SInv'
    BY <2>5, EndFamilyKeepsSInv
  <2>6. ASSUME NEW u \in User, NEW n \in Tenant, NEW at \in Time,
               LogoutAll(t, u, n, at)
        PROVE  SInv'
    BY <2>6, LogoutAllKeepsSInv
  <2>7. CASE RefreshRejected(t) \/ Abandon(t)
    BY <2>7, ForgettingKeepsSInv
  <2> QED
    BY <1>1, <2>1, <2>2, <2>3, <2>4, <2>5, <2>6, <2>7 DEF Step
<1>2. CASE UNCHANGED sessionVars
  <2>1. UNCHANGED <<store, reply, pc, seen, successor, delivered, ended>>
    BY <1>2 DEF sessionVars, vars, locals, history
  <2>2. IInv'
    BY <2>1, StorePreservedIInv DEF SInv, IInv, TypeOK
  <2>3. SessionsTypeOK'
    BY <2>1 DEF SInv, SessionsTypeOK, Snapshots, store
  <2>4. TasksInv'
    BY <2>1
       DEF SInv, TasksInv, LookedUp, Prepared, Target, Snapshot, Snapshots,
           store, indexes
  <2>5. ChainsInv'
    BY <2>1, BoundedFromSInv, OthersKeepChains DEF SInv
  <2>6. EndedInv'
    BY <2>1 DEF SInv, EndedInv, EndedStaysEnded, Usable, FamilyOf, store
  <2> QED
    BY <2>2, <2>3, <2>4, <2>5, <2>6 DEF SInv
<1> QED
  BY <1>1, <1>2 DEF SessionsNext

(* So it holds however the requests of any number of tasks interleave. *)
LEMMA SessionsInvariance == SessionsSpec => []SInv
  BY SessionsInitImpliesSInv, SessionsNextPreservesSInv, PTL DEF SessionsSpec

(* Of a family's delivered tokens only the leaf can be active. *)
LEMMA AtMostOneUsableFromSInv ==
  ASSUME SInv
  PROVE  AtMostOneUsable
<1> SUFFICES ASSUME NEW f \in Family, NEW i \in Usable(f), NEW j \in Usable(f)
             PROVE  i = j
  BY DEF AtMostOneUsable
<1>1. \A x \in Usable(f) :
        /\ x \in delivered /\ FamilyOf(x) = f
        /\ x \in DOMAIN refresh_tokens_by_id
        /\ refresh_tokens_by_id[x].status = "active"
  BY BoundedFromSInv DEF Usable, FamilyOf, Bounded
<1>2. \A x \in Usable(f) : SuccessorOf(x) = None
  BY <1>1, RowsAreCoherent DEF SInv, Coherent, SuccessorOf
<1> QED
  BY <1>1, <1>2 DEF SInv, ChainsInv, OneLeaf

(* The named parts of the invariant are what ChainsWellFormed spells out. *)
LEMMA ChainsWellFormedFromSInv ==
  ASSUME SInv
  PROVE  ChainsWellFormed
<1> DEFINE rows == refresh_tokens_by_id
<1>1. delivered \subseteq DOMAIN rows
  BY BoundedFromSInv DEF Bounded
<1>2. ASSUME NEW i \in DOMAIN rows, NEW j, j = SuccessorOf(i), j # None
      PROVE  /\ {i, j} \subseteq delivered
             /\ rows[i].family_id = rows[j].family_id
             /\ rows[i].user_id = rows[j].user_id
             /\ rows[i].tenant_id = rows[j].tenant_id
             /\ \A k \in DOMAIN rows : Replaces(k, j) => k = i
  <2>1. {i, j} \subseteq delivered /\ FamilyOf(i) = FamilyOf(j)
    BY <1>2 DEF SInv, ChainsInv, Links
  <2>2. /\ rows[i].user_id = rows[j].user_id
        /\ rows[i].tenant_id = rows[j].tenant_id
    BY <1>1, <2>1 DEF SInv, ChainsInv, OneOwner
  <2>3. \A k \in DOMAIN rows : Replaces(k, j) => k = i
    BY <1>2 DEF SInv, ChainsInv, Links, Replaces, SuccessorOf
  <2> QED
    BY <2>1, <2>2, <2>3 DEF FamilyOf
<1>3. \A S \in (SUBSET delivered) \ {{}} :
        \E i \in S : rows[i].replaced_by_token_id \notin S
  BY DEF SInv, ChainsInv, Acyclic, SuccessorOf
<1>4. ASSUME NEW f \in Family, NEW i \in delivered \cap InFamily(f),
             NEW j \in delivered \cap InFamily(f),
             \A k \in delivered : ~Replaces(k, i) /\ ~Replaces(k, j)
      PROVE  i = j
  BY <1>4
     DEF SInv, ChainsInv, OneRoot, InFamily, FamilyOf, Replaces, SuccessorOf
<1> QED
  BY <1>2, <1>3, <1>4 DEF ChainsWellFormed, SuccessorOf

-----------------------------------------------------------------------------
(* Theorems *)

(* Every task's local state is what its next call needs, and only rows of  *)
(* the table are ever delivered.                                           *)
THEOREM SessionsTypeCorrect == SessionsSpec => []SessionsTypeOK
  BY SessionsInvariance, PTL DEF SInv

(* However many tasks refresh one token at once, clients never hold two    *)
(* usable tokens of a family.                                              *)
THEOREM NeverTwoUsable == SessionsSpec => []AtMostOneUsable
<1>1. SInv => AtMostOneUsable
  BY AtMostOneUsableFromSInv
<1> QED
  BY <1>1, SessionsInvariance, PTL

(* No refresh, under way or to come, revives a family that a logout or a   *)
(* detected reuse has ended.                                               *)
THEOREM EndedAlwaysStaysEnded == SessionsSpec => []EndedStaysEnded
<1>1. SInv => EndedStaysEnded
  BY DEF SInv, EndedInv
<1> QED
  BY <1>1, SessionsInvariance, PTL

(* replaced_by_token_id always draws one chain per family. *)
THEOREM ChainsAlwaysWellFormed == SessionsSpec => []ChainsWellFormed
<1>1. SInv => ChainsWellFormed
  BY ChainsWellFormedFromSInv
<1> QED
  BY <1>1, SessionsInvariance, PTL

-----------------------------------------------------------------------------
(* The refinement *)

(* The initial states are the initial states of SessionChain. *)
LEMMA InitRefinesChain == SessionsInit => Chain!Init
<1> SUFFICES ASSUME SessionsInit PROVE Chain!Init
  OBVIOUS
<1>1. delivered = {} /\ ended = {}
  BY DEF SessionsInit
<1>2. \A f \in Family : Usable(f) = {}
  BY <1>1 DEF Usable
<1> QED
  BY <1>1, <1>2 DEF Chain!Init

(* The families that have a delivered token. *)
Opened == {refresh_tokens_by_id[i].family_id : i \in delivered}

(* A login opens its family. *)
LEMMA LoginOpens ==
  ASSUME SInv, NEW i, NEW u, NEW n, NEW f \in Family, AddsRow(i, u, n, f),
         InFamily(f) = {}, delivered' = delivered \cup {i}, UNCHANGED ended
  PROVE  Chain!Next
<1> DEFINE rows == refresh_tokens_by_id
<1>1. /\ i \in Id \ DOMAIN rows
      /\ rows'[i].family_id = f
      /\ rows'[i].status = "active"
      /\ \A x \in DOMAIN rows : x # i /\ rows'[x] = rows[x]
  BY DEF AddsRow
<1>2. delivered \subseteq DOMAIN rows
  BY BoundedFromSInv DEF Bounded
<1>3. \A x \in delivered : rows[x].family_id # f
  BY <1>2 DEF InFamily
<1>4. \A g \in Family : Usable(g)' = IF g = f THEN {i} ELSE Usable(g)
  BY <1>1, <1>2, <1>3 DEF Usable
<1>5. Opened' = Opened \cup {f}
  BY <1>1, <1>2 DEF Opened
<1>6. f \notin Opened /\ i \notin delivered
  BY <1>1, <1>2, <1>3 DEF Opened
<1>7. Chain!Open(f, i)
  BY <1>4, <1>5, <1>6 DEF Chain!Open, Opened
<1> QED
  BY <1>1, <1>7 DEF Chain!Next

(* A rotation advances its family: the target was the only usable token,   *)
(* and its successor is the only one now.                                  *)
LEMMA RotateAdvances ==
  ASSUME SInv,
         NEW i \in delivered, NEW j \in DOMAIN refresh_tokens_by_id \ delivered,
         ReplacesRow(i, j), FamilyOf(j) = FamilyOf(i),
         refresh_tokens_by_id[j].status = "active",
         delivered' = delivered \cup {j}, UNCHANGED ended
  PROVE  Chain!Next
<1> DEFINE rows == refresh_tokens_by_id
<1>1. Bounded
  BY BoundedFromSInv
<1>2. /\ i # j /\ i \in DOMAIN rows /\ i \in Id /\ j \in Id
  BY <1>1 DEF Bounded
<1>3. /\ rows[i].status = "active"
      /\ rows'[i].status = "rotated"
      /\ rows'[i].family_id = rows[i].family_id
      /\ \A x \in DOMAIN rows \ {i} : rows'[x] = rows[x]
  BY DEF ReplacesRow, SameFields
<1>4. PICK f \in Family : rows[i].family_id = f /\ rows[j].family_id = f
  BY <1>2, RowsAreCoherent DEF SInv, Token, FamilyOf
<1>5. Usable(f) = {i}
  BY <1>3, <1>4, AtMostOneUsableFromSInv DEF AtMostOneUsable, Usable
<1>6. \A g \in Family : Usable(g)' = IF g = f THEN {j} ELSE Usable(g)
  <2>1. \A x \in delivered : x # i =>
          x \in DOMAIN rows /\ x # j /\ rows'[x] = rows[x]
    BY <1>1, <1>3 DEF Bounded
  <2>2. rows'[j] = rows[j]
    BY <1>2, <1>3
  <2>3. Usable(f)' = {j}
    BY <1>2, <1>3, <1>4, <1>5, <2>1, <2>2 DEF Usable
  <2>4. ASSUME NEW g \in Family, g # f PROVE Usable(g)' = Usable(g)
    BY <1>2, <1>3, <1>4, <2>1, <2>2, <2>4 DEF Usable
  <2> QED
    BY <2>3, <2>4
<1>7. Opened' = Opened
  BY <1>1, <1>2, <1>3, <1>4 DEF Opened, Bounded
<1>8. Chain!Advance(f, i, j)
  BY <1>5, <1>6, <1>7 DEF Chain!Advance, Opened
<1> QED
  BY <1>2, <1>8 DEF Chain!Next

(* A sweep ends the families it covers. *)
LEMMA SweepEnds ==
  ASSUME SInv, NEW S, NEW E \in SUBSET Family, RevokesRows(S),
         UNCHANGED delivered, ended' = ended \cup E,
         \A f \in E : InFamily(f) \subseteq S /\
                      \E i \in delivered : FamilyOf(i) = f,
         \A x \in S : FamilyOf(x) \in E
  PROVE  Chain!Next
<1> DEFINE rows == refresh_tokens_by_id
<1>1. delivered \subseteq DOMAIN rows
  BY BoundedFromSInv DEF Bounded
<1>2. \A x \in DOMAIN rows : /\ rows'[x].family_id = FamilyOf(x)
                             /\ x \in S => rows'[x].status = "revoked"
                             /\ x \notin S => rows'[x] = rows[x]
  BY DEF RevokesRows, SameFields, FamilyOf
<1>3. \A g \in Family : Usable(g)' = IF g \in E THEN {} ELSE Usable(g)
  BY <1>1, <1>2 DEF Usable, InFamily, FamilyOf
<1>4. Opened' = Opened
  BY <1>1, <1>2 DEF Opened, FamilyOf
<1>5. E \subseteq Opened
  BY DEF Opened, FamilyOf
<1>6. Chain!End(E)
  BY <1>3, <1>4, <1>5 DEF Chain!End, Opened
<1> QED
  BY <1>6 DEF Chain!Next

(* Whatever leaves the delivered rows alone is invisible to the clients. *)
LEMMA InvisibleToClients ==
  ASSUME UNCHANGED history,
         \A x \in delivered : refresh_tokens_by_id'[x] = refresh_tokens_by_id[x]
  PROVE  UNCHANGED Chain!vars
<1>1. \A g \in Family : Usable(g)' = Usable(g)
  BY DEF Usable, history
<1>2. Opened' = Opened
  BY DEF Opened, history
<1> QED
  BY <1>1, <1>2 DEF Chain!vars, Opened, history

(* Every step of the sessions is a step of SessionChain, or invisible. *)
LEMMA NextRefinesChain ==
  SInv /\ [SessionsNext]_sessionVars => [Chain!Next]_(Chain!vars)
<1> SUFFICES ASSUME SInv, [SessionsNext]_sessionVars
             PROVE  Chain!Next \/ UNCHANGED Chain!vars
  OBVIOUS
<1>1. ASSUME NEW t \in Task, Step(t)
      PROVE  Chain!Next \/ UNCHANGED Chain!vars
  <2>1. ASSUME NEW i \in Id, NEW u \in User, NEW n \in Tenant,
               NEW f \in Family, NEW h \in Hash,
               NEW iat \in Time, NEW exp \in Time,
               Login(t, i, u, n, f, h, iat, exp)
        PROVE  Chain!Next
    <3>1. /\ InFamily(f) = {}
          /\ Create(i, u, n, f, h, iat, exp)
          /\ delivered' = delivered \cup {i}
          /\ UNCHANGED ended
      BY <2>1 DEF Login
    <3>2. AddsRow(i, u, n, f)
      BY <3>1, CreateAddsRow
    <3> QED
      BY <3>1, <3>2, LoginOpens
  <2>2. ASSUME NEW h \in Hash, RefreshLookup(t, h) \/ LogoutLookup(t, h)
        PROVE  UNCHANGED Chain!vars
    BY <2>2, InvisibleToClients DEF RefreshLookup, LogoutLookup, vars, store
  <2>3. ASSUME NEW i \in Id, NEW h \in Hash, NEW iat \in Time,
               NEW exp \in Time, RefreshIssue(t, i, h, iat, exp)
        PROVE  UNCHANGED Chain!vars
    <3>1. /\ refresh_tokens_by_id' =
               Put(refresh_tokens_by_id, i,
                   NewToken(seen[t].user_id, seen[t].tenant_id,
                            seen[t].family_id, h, iat, exp))
          /\ i \notin DOMAIN refresh_tokens_by_id
          /\ UNCHANGED history
      BY <2>3 DEF RefreshIssue, Create
    <3>2. delivered \subseteq DOMAIN refresh_tokens_by_id
      BY BoundedFromSInv DEF Bounded
    <3>3. \A x \in delivered :
            refresh_tokens_by_id'[x] = refresh_tokens_by_id[x]
      BY <3>1, <3>2 DEF Put
    <3> QED
      BY <3>1, <3>3, InvisibleToClients
  <2>4. ASSUME NEW at \in Time, RefreshRotate(t, at)
        PROVE  Chain!Next
    BY <2>4, RefreshRotateReplaces, RotateAdvances
  <2>5. ASSUME NEW at \in Time, EndFamily(t, at)
        PROVE  Chain!Next
    <3>1. UNCHANGED delivered
      BY <2>5 DEF EndFamily
    <3>2. PICK f \in Family :
            /\ \E i \in delivered : FamilyOf(i) = f
            /\ RevokesRows(InFamily(f))
            /\ ended' = ended \cup {f}
      BY <2>5, EndFamilyEnds
    <3>3. {f} \in SUBSET Family /\ \A x \in InFamily(f) : FamilyOf(x) \in {f}
      BY DEF InFamily, FamilyOf
    <3> QED
      BY <3>1, <3>2, <3>3, SweepEnds
  <2>6. ASSUME NEW u \in User, NEW n \in Tenant, NEW at \in Time,
               LogoutAll(t, u, n, at)
        PROVE  Chain!Next
    <3>1. UNCHANGED delivered
      BY <2>6 DEF LogoutAll
    <3>2. PICK S, E :
            /\ E = {FamilyOf(i) : i \in S}
            /\ RevokesRows(S)
            /\ ended' = ended \cup E
            /\ E \subseteq Family
            /\ \A f \in E : InFamily(f) \subseteq S /\
                            \E i \in delivered : FamilyOf(i) = f
      BY <2>6, LogoutAllEnds
    <3>3. \A x \in S : FamilyOf(x) \in E
      BY <3>2
    <3>4. E \in SUBSET Family
      BY <3>2
    <3>5. /\ RevokesRows(S)
          /\ ended' = ended \cup E
          /\ \A f \in E : InFamily(f) \subseteq S /\
                          \E i \in delivered : FamilyOf(i) = f
      BY <3>2
    <3> QED
      BY <3>1, <3>3, <3>4, <3>5, SweepEnds
  <2>7. CASE RefreshRejected(t) \/ Abandon(t)
    BY <2>7, InvisibleToClients
       DEF RefreshRejected, Abandon, MarkRotatedRaises, vars, store
  <2> QED
    BY <1>1, <2>1, <2>2, <2>3, <2>4, <2>5, <2>6, <2>7 DEF Step
<1>2. CASE UNCHANGED sessionVars
  BY <1>2, InvisibleToClients DEF sessionVars, vars, store
<1> QED
  BY <1>1, <1>2 DEF SessionsNext

(* Seen by clients, the requests of any number of tasks, however they      *)
(* interleave and wherever they are cut off, are a run of SessionChain.    *)
THEOREM SessionsImplementChain == SessionsSpec => ImplementsSessionChain
<1>1. SessionsInit => Chain!Init
  BY InitRefinesChain
<1>2. SInv /\ [SessionsNext]_sessionVars => [Chain!Next]_(Chain!vars)
  BY NextRefinesChain
<1>3. SessionsSpec => Chain!Spec
  BY <1>1, <1>2, SessionsInvariance, PTL DEF SessionsSpec, Chain!Spec
<1> QED
  BY <1>3 DEF ImplementsSessionChain
=============================================================================
