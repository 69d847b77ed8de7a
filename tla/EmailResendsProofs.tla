-------------------------- MODULE EmailResendsProofs --------------------------
(***************************************************************************)
(* Theorems about EmailVerifications and about EmailResends, for every     *)
(* value of their constants, and so for any number of requests, users and  *)
(* tokens.                                                                 *)
(*                                                                         *)
(* Those about the repository rest on one inductive invariant: the typing  *)
(* of the store, the agreement of the token index with the table, the      *)
(* validity of every row, and that the table is finite (a revocation       *)
(* counts rows).  Validity is what makes every rebuild valid: without it   *)
(* the loop of revoke_pending_for_user() could stop half way.              *)
(*                                                                         *)
(* Those about the requests rest on it and on one argument: as long as a   *)
(* user's last revocation did not overlap an issue, at most one request is *)
(* about to issue to that user, and while one is, nothing is pending.      *)
(***************************************************************************)
EXTENDS EmailResends, FiniteSetTheorems, TLAPS

-----------------------------------------------------------------------------
(* The repository: lemmas and theorems about EmailVerifications *)

RowsValid ==
  \A i \in DOMAIN email_verifications_by_id :
    ValidVerification(email_verifications_by_id[i])

IInv ==
  /\ TypeOK
  /\ IsFiniteSet(DOMAIN email_verifications_by_id)
  /\ TokenIndexAgrees
  /\ RowsValid

-----------------------------------------------------------------------------
(* Operators *)

(* d[k] = v keeps the types of the keys and of the values of a dict.       *)
LEMMA PutType ==
  ASSUME NEW S, NEW V, NEW d, NEW k \in S, NEW v \in V,
         DOMAIN d \subseteq S, d \in [DOMAIN d -> V]
  PROVE  /\ DOMAIN Put(d, k, v) \subseteq S
         /\ Put(d, k, v) \in [DOMAIN Put(d, k, v) -> V]
  BY DEF Put

(* A new row that the validator accepts is a pending Verification. *)
LEMMA NewVerificationType ==
  ASSUME NEW u \in User, NEW h \in Hash, NEW created \in Time, NEW exp \in Time
  PROVE  /\ NewVerification(u, h, created, exp) \in Verification
         /\ NewVerification(u, h, created, exp).token_hash = h
         /\ NewVerification(u, h, created, exp).user_id = u
         /\ NewVerification(u, h, created, exp).status = "pending"
  BY DEF NewVerification, Verification, Status

(* Consuming a valid pending row gives a valid row that differs in its     *)
(* status and its time of consumption.                                     *)
LEMMA ConsumedIsValid ==
  ASSUME NEW r \in Verification, NEW at \in Time,
         ValidVerification(r), r.status = "pending"
  PROVE  LET s == Consumed(r, at)
         IN /\ s \in Verification
            /\ ValidVerification(s)
            /\ s.status = "consumed" /\ s.consumed_at = at
            /\ s.token_hash = r.token_hash /\ s.user_id = r.user_id
  BY NoneAssumption
     DEF Consumed, Verification, ValidVerification, Status

(* Revoking a valid pending row gives a valid row that differs in its      *)
(* status and its time of revocation.                                      *)
LEMMA RevokedIsValid ==
  ASSUME NEW r \in Verification, NEW at \in Time,
         ValidVerification(r), r.status = "pending"
  PROVE  LET s == Revoked(r, at)
         IN /\ s \in Verification
            /\ ValidVerification(s)
            /\ s.status = "revoked" /\ s.revoked_at = at
            /\ s.token_hash = r.token_hash /\ s.user_id = r.user_id
  BY NoneAssumption
     DEF Revoked, Verification, ValidVerification, Status

-----------------------------------------------------------------------------
(* The methods, under the invariant *)

(* What a create() that returns does: it adds one valid pending row under  *)
(* a new id, and its hash, which no row had, to the index.                 *)
AddsRow(i, u, h, r) ==
  LET rows == email_verifications_by_id
      hashes == email_verification_id_by_token_hash
  IN /\ r \in Verification /\ ValidVerification(r)
     /\ r.token_hash = h /\ r.user_id = u /\ r.status = "pending"
     /\ i \notin DOMAIN rows
     /\ DOMAIN rows' = DOMAIN rows \cup {i}
     /\ rows'[i] = r
     /\ \A x \in DOMAIN rows : rows'[x] = rows[x]
     /\ rows' = Put(rows, i, r)
     /\ h \notin DOMAIN hashes
     /\ DOMAIN hashes' = DOMAIN hashes \cup {h}
     /\ hashes'[h] = i
     /\ \A x \in DOMAIN hashes : hashes'[x] = hashes[x]
     /\ hashes' = Put(hashes, h, i)
     /\ reply' = Returned(1)

(* create() adds the row it is asked for. *)
LEMMA CreateAddsRow ==
  ASSUME NEW i \in Id, NEW u \in User, NEW h \in Hash,
         NEW created \in Time, NEW exp \in Time, Create(i, u, h, created, exp)
  PROVE  AddsRow(i, u, h, NewVerification(u, h, created, exp))
  BY NewVerificationType DEF Create, Put, AddsRow

(* What a method that rebuilds the rows of a set does to the table: to     *)
(* each of these pending rows it gives an end, at the time it was passed.  *)
EndsRows(S, status, field, at) ==
  LET rows == email_verifications_by_id
  IN /\ S \subseteq DOMAIN rows
     /\ DOMAIN rows' = DOMAIN rows
     /\ rows' \in [DOMAIN rows' -> Verification]
     /\ \A x \in S :
          /\ rows[x].status = "pending"
          /\ ValidVerification(rows'[x])
          /\ rows'[x].status = status /\ rows'[x][field] = at
          /\ rows'[x].token_hash = rows[x].token_hash
          /\ rows'[x].user_id = rows[x].user_id
     /\ \A x \in DOMAIN rows \ S : rows'[x] = rows[x]
     /\ UNCHANGED email_verification_id_by_token_hash
     /\ reply' = Returned(Cardinality(S))

(* mark_consumed() consumes one row. *)
LEMMA MarkConsumedEndsRow ==
  ASSUME IInv, NEW i \in Id, NEW at \in Time, MarkConsumed(i, at)
  PROVE  EndsRows({i}, "consumed", "consumed_at", at)
<1> DEFINE rows == email_verifications_by_id
<1>1. /\ i \in DOMAIN rows
      /\ rows[i].status = "pending"
      /\ rows' = [rows EXCEPT ![i] = Consumed(rows[i], at)]
      /\ UNCHANGED email_verification_id_by_token_hash
      /\ reply' = Returned(1)
  BY DEF MarkConsumed
<1>2. rows[i] \in Verification /\ ValidVerification(rows[i])
  BY <1>1 DEF IInv, TypeOK, RowsValid
<1>3. rows'[i] = Consumed(rows[i], at)
  BY <1>1
<1>4. /\ rows'[i] \in Verification
      /\ ValidVerification(rows'[i])
      /\ rows'[i].status = "consumed" /\ rows'[i].consumed_at = at
      /\ rows'[i].token_hash = rows[i].token_hash
      /\ rows'[i].user_id = rows[i].user_id
  BY <1>1, <1>2, <1>3, ConsumedIsValid
<1>5. rows' \in [DOMAIN rows' -> Verification]
  BY <1>1, <1>4 DEF IInv, TypeOK
<1>6. Cardinality({i}) = 1
  BY FS_Singleton
<1> QED
  BY <1>1, <1>4, <1>5, <1>6 DEF EndsRows

(* revoke_pending_for_user() never stops half way: it revokes every        *)
(* pending row of the user.                                                *)
LEMMA RevokePendingEndsRows ==
  ASSUME IInv, NEW u \in User, NEW at \in Time, RevokePendingForUser(u, at)
  PROVE  EndsRows(PendingOf(u), "revoked", "revoked_at", at)
<1> DEFINE rows == email_verifications_by_id
           scope == PendingOf(u)
<1>1. PICK done \in SUBSET scope :
        /\ done # scope =>
             \E i \in scope \ done : ~ValidVerification(Revoked(rows[i], at))
        /\ rows' = [i \in DOMAIN rows |->
                      IF i \in done THEN Revoked(rows[i], at) ELSE rows[i]]
        /\ reply' = IF done = scope THEN Returned(Cardinality(done))
                                    ELSE Raised("ValidationError")
        /\ UNCHANGED email_verification_id_by_token_hash
  BY DEF RevokePendingForUser
<1>2. \A i \in scope :
        /\ i \in DOMAIN rows
        /\ rows[i].status = "pending"
        /\ rows[i] \in Verification
        /\ ValidVerification(rows[i])
  BY DEF PendingOf, IInv, TypeOK, RowsValid
<1>3. \A i \in scope :
        /\ Revoked(rows[i], at) \in Verification
        /\ ValidVerification(Revoked(rows[i], at))
        /\ Revoked(rows[i], at).status = "revoked"
        /\ Revoked(rows[i], at).revoked_at = at
        /\ Revoked(rows[i], at).token_hash = rows[i].token_hash
        /\ Revoked(rows[i], at).user_id = rows[i].user_id
  BY <1>2, RevokedIsValid
<1>4. done = scope
  BY <1>1, <1>3
<1>5. \A i \in scope : rows'[i] = Revoked(rows[i], at)
  BY <1>1, <1>2, <1>4
<1>6. \A i \in DOMAIN rows \ scope : rows'[i] = rows[i]
  BY <1>1, <1>4
<1>7. rows' \in [DOMAIN rows' -> Verification]
  BY <1>1, <1>3, <1>4 DEF IInv, TypeOK
<1> QED
  BY <1>1, <1>2, <1>3, <1>4, <1>5, <1>6, <1>7 DEF EndsRows

-----------------------------------------------------------------------------
(* The invariant *)

(* create() preserves the invariant. *)
LEMMA CreatePreservesIInv ==
  ASSUME IInv,
         NEW i \in Id, NEW u \in User, NEW h \in Hash,
         NEW created \in Time, NEW exp \in Time, Create(i, u, h, created, exp)
  PROVE  IInv'
<1> DEFINE rows == email_verifications_by_id
           hashes == email_verification_id_by_token_hash
           r == NewVerification(u, h, created, exp)
<1>0. AddsRow(i, u, h, r)
  BY CreateAddsRow
<1> HIDE DEF r
<1>1. /\ r \in Verification /\ ValidVerification(r) /\ r.token_hash = h
      /\ i \notin DOMAIN rows
      /\ DOMAIN rows' = DOMAIN rows \cup {i}
      /\ rows'[i] = r
      /\ \A x \in DOMAIN rows : rows'[x] = rows[x]
      /\ rows' = Put(rows, i, r)
      /\ h \notin DOMAIN hashes
      /\ DOMAIN hashes' = DOMAIN hashes \cup {h}
      /\ hashes'[h] = i
      /\ \A x \in DOMAIN hashes : hashes'[x] = hashes[x]
      /\ hashes' = Put(hashes, h, i)
      /\ reply' = Returned(1)
  BY <1>0 DEF AddsRow
<1>2. TypeOK'
  <2>1. /\ DOMAIN rows' \subseteq Id
        /\ rows' \in [DOMAIN rows' -> Verification]
    <3> HIDE DEF rows
    <3>1. DOMAIN rows \subseteq Id /\ rows \in [DOMAIN rows -> Verification]
      BY DEF rows, IInv, TypeOK
    <3>2. /\ DOMAIN Put(rows, i, r) \subseteq Id
          /\ Put(rows, i, r) \in [DOMAIN Put(rows, i, r) -> Verification]
      BY <1>1, <3>1, PutType
    <3> QED
      BY <1>1, <3>2
  <2>2. /\ DOMAIN hashes' \subseteq Hash
        /\ hashes' \in [DOMAIN hashes' -> Id]
    BY <1>1, PutType DEF IInv, TypeOK
  <2>3. reply' \in Reply
    BY <1>1 DEF Returned, Reply
  <2> QED
    BY <2>1, <2>2, <2>3 DEF TypeOK
<1>3. IsFiniteSet(DOMAIN rows')
  BY <1>1, FS_AddElement DEF IInv
<1>4. TokenIndexAgrees'
  <2>1. ASSUME NEW x \in DOMAIN rows'
        PROVE  /\ rows'[x].token_hash \in DOMAIN hashes'
               /\ hashes'[rows'[x].token_hash] = x
    BY <1>1, <2>1 DEF IInv, TokenIndexAgrees
  <2>2. ASSUME NEW x \in DOMAIN hashes'
        PROVE  /\ hashes'[x] \in DOMAIN rows'
               /\ rows'[hashes'[x]].token_hash = x
    BY <1>1, <2>2 DEF IInv, TokenIndexAgrees
  <2> QED
    BY <2>1, <2>2 DEF TokenIndexAgrees
<1>5. RowsValid'
  BY <1>1 DEF IInv, RowsValid
<1> QED
  BY <1>2, <1>3, <1>4, <1>5 DEF IInv

(* Ending a finite set of pending rows preserves the invariant. *)
LEMMA EndsRowsPreservesIInv ==
  ASSUME IInv, NEW S, NEW status, NEW field, NEW at,
         EndsRows(S, status, field, at)
  PROVE  IInv'
<1> DEFINE rows == email_verifications_by_id
<1>1. /\ S \subseteq DOMAIN rows
      /\ DOMAIN rows' = DOMAIN rows
      /\ rows' \in [DOMAIN rows' -> Verification]
      /\ \A x \in S : /\ ValidVerification(rows'[x])
                      /\ rows'[x].token_hash = rows[x].token_hash
      /\ \A x \in DOMAIN rows \ S : rows'[x] = rows[x]
      /\ UNCHANGED email_verification_id_by_token_hash
      /\ reply' = Returned(Cardinality(S))
  BY DEF EndsRows
<1>2. Cardinality(S) \in Nat
  BY <1>1, FS_Subset, FS_CardinalityType DEF IInv
<1>3. TypeOK'
  <2>1. reply' \in Reply
    BY <1>1, <1>2 DEF Returned, Reply
  <2> QED
    BY <1>1, <2>1 DEF IInv, TypeOK
<1>4. IsFiniteSet(DOMAIN rows')
  BY <1>1 DEF IInv
<1>5. \A x \in DOMAIN rows : rows'[x].token_hash = rows[x].token_hash
  BY <1>1
<1>6. TokenIndexAgrees'
  BY <1>1, <1>5 DEF IInv, TokenIndexAgrees
<1>7. RowsValid'
  BY <1>1 DEF IInv, RowsValid
<1> QED
  BY <1>3, <1>4, <1>6, <1>7 DEF IInv

(* A call that raises, or no call at all, preserves the invariant. *)
LEMMA StorePreservesIInv ==
  ASSUME IInv, UNCHANGED store, reply' \in Reply
  PROVE  IInv'
  BY DEF IInv, TypeOK, TokenIndexAgrees, RowsValid, store

(* The empty store of a new process satisfies the invariant. *)
LEMMA InitImpliesIInv == Init => IInv
<1> SUFFICES ASSUME Init PROVE IInv
  OBVIOUS
<1>1. /\ DOMAIN email_verifications_by_id = {}
      /\ DOMAIN email_verification_id_by_token_hash = {}
      /\ email_verifications_by_id \in [{} -> Verification]
      /\ email_verification_id_by_token_hash \in [{} -> Id]
  BY DEF Init
<1>2. reply \in Reply
  BY DEF Init, Returned, Reply
<1>3. IsFiniteSet(DOMAIN email_verifications_by_id)
  BY <1>1, FS_EmptySet
<1> QED
  BY <1>1, <1>2, <1>3 DEF IInv, TypeOK, TokenIndexAgrees, RowsValid

(* Every method call preserves the invariant. *)
LEMMA NextPreservesIInv == IInv /\ [Next]_vars => IInv'
<1> SUFFICES ASSUME IInv, [Next]_vars PROVE IInv'
  OBVIOUS
<1>1. ASSUME NEW i \in Id, NEW u \in User, NEW h \in Hash,
             NEW created \in Time, NEW exp \in Time,
             Create(i, u, h, created, exp)
      PROVE  IInv'
  BY <1>1, CreatePreservesIInv
<1>2. ASSUME NEW h \in Hash, CreateRaises(h) PROVE IInv'
  BY <1>2, StorePreservesIInv DEF CreateRaises, Raised, Error, Reply
<1>3. ASSUME NEW i \in Id, NEW at \in Time, MarkConsumed(i, at) PROVE IInv'
  BY <1>3, MarkConsumedEndsRow, EndsRowsPreservesIInv
<1>4. ASSUME NEW i \in Id, MarkConsumedRaises(i) PROVE IInv'
  BY <1>4, StorePreservesIInv DEF MarkConsumedRaises, Raised, Error, Reply
<1>5. ASSUME NEW u \in User, NEW at \in Time, RevokePendingForUser(u, at)
      PROVE  IInv'
  BY <1>5, RevokePendingEndsRows, EndsRowsPreservesIInv
<1>6. CASE UNCHANGED vars
  BY <1>6, StorePreservesIInv DEF vars, IInv, TypeOK
<1> QED
  BY <1>1, <1>2, <1>3, <1>4, <1>5, <1>6 DEF Next

(* The invariant holds in every state the repository can reach. *)
LEMMA Invariance == Spec => []IInv
  BY InitImpliesIInv, NextPreservesIInv, PTL DEF Spec

(* Valid pending rows can be consumed and revoked. *)
LEMMA RowsStayValidFromIInv == IInv => RowsStayValid
<1> SUFFICES ASSUME IInv,
                    NEW i \in DOMAIN email_verifications_by_id,
                    NEW at \in Time
             PROVE  LET r == email_verifications_by_id[i] IN
                      /\ ValidVerification(r)
                      /\ r.status = "pending" =>
                           /\ ValidVerification(Consumed(r, at))
                           /\ ValidVerification(Revoked(r, at))
  BY DEF RowsStayValid
<1>1. /\ email_verifications_by_id[i] \in Verification
      /\ ValidVerification(email_verifications_by_id[i])
  BY DEF IInv, TypeOK, RowsValid
<1> QED
  BY <1>1, ConsumedIsValid, RevokedIsValid

(* A revocation that completes is exact. *)
LEMMA RevocationStepFromIInv == IInv => RevocationStep
<1>1. ASSUME IInv, NEW u \in User, NEW at \in Time, RevokePendingForUser(u, at)
      PROVE  LET changed == {i \in DOMAIN email_verifications_by_id :
                               email_verifications_by_id'[i]
                                 # email_verifications_by_id[i]}
             IN /\ changed = PendingOf(u)
                /\ \A i \in changed :
                     email_verifications_by_id'[i].status = "revoked"
                /\ reply' = Returned(Cardinality(changed))
  <2> DEFINE rows == email_verifications_by_id
             changed == {i \in DOMAIN rows : rows'[i] # rows[i]}
  <2>1. EndsRows(PendingOf(u), "revoked", "revoked_at", at)
    BY <1>1, RevokePendingEndsRows
  <2>2. changed = PendingOf(u)
    BY <2>1 DEF EndsRows
  <2>3. \A i \in PendingOf(u) : rows'[i].status = "revoked"
    BY <2>1 DEF EndsRows
  <2>4. reply' = Returned(Cardinality(PendingOf(u)))
    BY <2>1 DEF EndsRows
  <2> QED
    BY <2>2, <2>3, <2>4
<1> QED
  BY <1>1 DEF RevocationStep

-----------------------------------------------------------------------------
(* Theorems *)

(* Both dicts always hold what their annotations in store.py say. *)
THEOREM TypeCorrect == Spec => []TypeOK
  BY Invariance, PTL DEF IInv

(* The token index never drifts from the table. *)
THEOREM TokenIndexAlwaysAgrees == Spec => []TokenIndexAgrees
  BY Invariance, PTL DEF IInv

(* Every stored row satisfies the validator, and neither mark_consumed()   *)
(* nor revoke_pending_for_user() ever builds a record that it refuses.     *)
THEOREM RowsAlwaysValid == Spec => []RowsStayValid
  BY RowsStayValidFromIInv, Invariance, PTL

(* A resend's revocation leaves the user nothing pending, touches nobody   *)
(* else's row, and counts what it revoked.                                 *)
THEOREM RevocationAlwaysExact == Spec => RevocationIsExact
  BY RevocationStepFromIInv, Invariance, PTL DEF Spec, RevocationIsExact

-----------------------------------------------------------------------------
(* The refinement of CredentialLedger *)

RowUnder(h) ==
  email_verifications_by_id[email_verification_id_by_token_hash[h]]

(* A set of pairs of a hash with status, and the time of its end. *)
Ends(status, field) == {<<h, EndOf(h, field)>> : h \in HashesThatAre(status)}

(* The first halves of such pairs are hashes of the index. *)
LEMMA EndsAreOfIndex ==
  ASSUME NEW status, NEW field, NEW p \in Ends(status, field)
  PROVE  p[1] \in DOMAIN email_verification_id_by_token_hash
  BY DEF Ends, HashesThatAre

(* create() issues its hash in the ledger. *)
LEMMA CreateIssues ==
  ASSUME IInv,
         NEW i \in Id, NEW u \in User, NEW h \in Hash,
         NEW created \in Time, NEW exp \in Time, Create(i, u, h, created, exp)
  PROVE  Ledger!Issue(h)
<1> DEFINE rows == email_verifications_by_id
           hashes == email_verification_id_by_token_hash
<1>0. AddsRow(i, u, h, NewVerification(u, h, created, exp))
  BY CreateAddsRow
<1>1. /\ rows'[i].status = "pending"
      /\ i \notin DOMAIN rows
      /\ \A x \in DOMAIN rows : rows'[x] = rows[x]
      /\ h \notin DOMAIN hashes
      /\ DOMAIN hashes' = DOMAIN hashes \cup {h}
      /\ hashes'[h] = i
      /\ \A x \in DOMAIN hashes : hashes'[x] = hashes[x]
  BY <1>0 DEF AddsRow
<1>2. \A x \in DOMAIN hashes : RowUnder(x)' = RowUnder(x)
  BY <1>1 DEF RowUnder, IInv, TokenIndexAgrees
<1>3. RowUnder(h)'.status = "pending"
  BY <1>1 DEF RowUnder
<1>4. HashesThatAre("pending")' = HashesThatAre("pending") \cup {h}
  BY <1>1, <1>2, <1>3 DEF HashesThatAre, RowUnder
<1>5. ASSUME NEW status, status # "pending", NEW field
      PROVE  Ends(status, field)' = Ends(status, field)
  <2>1. HashesThatAre(status)' = HashesThatAre(status)
    BY <1>1, <1>2, <1>3, <1>5 DEF HashesThatAre, RowUnder
  <2> QED
    BY <1>2, <2>1 DEF Ends, EndOf, HashesThatAre, RowUnder
<1>6. /\ Ends("consumed", "consumed_at")' = Ends("consumed", "consumed_at")
      /\ Ends("revoked", "revoked_at")' = Ends("revoked", "revoked_at")
  BY <1>5
<1>7. h \notin HashesThatAre("pending") \cup
                 {p[1] : p \in Ends("consumed", "consumed_at")
                                 \cup Ends("revoked", "revoked_at")}
  BY <1>1, EndsAreOfIndex DEF HashesThatAre
<1> QED
  BY <1>4, <1>6, <1>7 DEF Ledger!Issue, Ledger!Dead, Ends

HashesOf(S) == {h \in DOMAIN email_verification_id_by_token_hash :
                  email_verification_id_by_token_hash[h] \in S}

(* What a step that gives the hashes of H an end does to the ledger: they  *)
(* were live, and of the ends only those with this status change.          *)
EndsHashes(H, status, field, at) ==
  /\ H \subseteq HashesThatAre("pending")
  /\ HashesThatAre("pending")' = HashesThatAre("pending") \ H
  /\ Ends(status, field)' = Ends(status, field) \cup H \X {at}
  /\ \A other, f : other # status /\ other # "pending" =>
       Ends(other, f)' = Ends(other, f)

(* What ending a set of rows means for their hashes. *)
LEMMA EndsRowsEndsHashes ==
  ASSUME IInv, NEW S, NEW status, status # "pending", NEW field, NEW at,
         EndsRows(S, status, field, at)
  PROVE  EndsHashes(HashesOf(S), status, field, at)
<1> DEFINE rows == email_verifications_by_id
           hashes == email_verification_id_by_token_hash
           H == HashesOf(S)
<1>1. /\ hashes' = hashes
      /\ \A x \in S : /\ rows[x].status = "pending"
                      /\ rows'[x].status = status /\ rows'[x][field] = at
      /\ \A x \in DOMAIN rows \ S : rows'[x] = rows[x]
  BY DEF EndsRows
<1>2. /\ H = {h \in DOMAIN hashes : hashes[h] \in S}
      /\ \A h \in DOMAIN hashes : hashes[h] \in DOMAIN rows
  BY DEF HashesOf, IInv, TokenIndexAgrees
<1> HIDE DEF H
<1>3. \A h \in DOMAIN hashes \ H : RowUnder(h)' = RowUnder(h)
  BY <1>1, <1>2 DEF RowUnder
<1>4. \A h \in H : /\ RowUnder(h).status = "pending"
                   /\ RowUnder(h)'.status = status
                   /\ RowUnder(h)'[field] = at
  BY <1>1, <1>2 DEF RowUnder
<1>5. H \subseteq HashesThatAre("pending")
  BY <1>2, <1>4 DEF HashesThatAre, RowUnder
<1>6. HashesThatAre("pending")' = HashesThatAre("pending") \ H
  BY <1>1, <1>2, <1>3, <1>4 DEF HashesThatAre, RowUnder
<1>7. Ends(status, field)' = Ends(status, field) \cup H \X {at}
  <2>1. HashesThatAre(status)' = HashesThatAre(status) \cup H
    BY <1>1, <1>2, <1>3, <1>4 DEF HashesThatAre, RowUnder
  <2>2. HashesThatAre(status) \cap H = {}
    BY <1>5 DEF HashesThatAre
  <2>3. \A h \in HashesThatAre(status) : EndOf(h, field)' = EndOf(h, field)
    BY <1>3, <2>2 DEF HashesThatAre, EndOf, RowUnder
  <2>4. \A h \in H : EndOf(h, field)' = at
    BY <1>4 DEF EndOf, RowUnder
  <2>5. Ends(status, field)' = {<<h, EndOf(h, field)'>> :
                                  h \in HashesThatAre(status) \cup H}
    BY <2>1 DEF Ends
  <2> QED
    BY <2>3, <2>4, <2>5 DEF Ends
<1>8. ASSUME NEW other, NEW f, other # status, other # "pending"
      PROVE  Ends(other, f)' = Ends(other, f)
  <2>1. HashesThatAre(other)' = HashesThatAre(other)
    BY <1>1, <1>2, <1>3, <1>4, <1>8 DEF HashesThatAre, RowUnder
  <2>2. \A h \in HashesThatAre(other) : EndOf(h, f)' = EndOf(h, f)
    BY <1>3, <1>4, <1>8 DEF HashesThatAre, EndOf, RowUnder
  <2> QED
    BY <2>1, <2>2 DEF Ends
<1> QED
  BY <1>5, <1>6, <1>7, <1>8 DEF EndsHashes, H

(* mark_consumed() redeems the hash of its row in the ledger. *)
LEMMA MarkConsumedRedeems ==
  ASSUME IInv, NEW i \in Id, NEW at \in Time, MarkConsumed(i, at)
  PROVE  \E h \in Hash : Ledger!Redeem(h, at)
<1> DEFINE hashes == email_verification_id_by_token_hash
<1>1. EndsRows({i}, "consumed", "consumed_at", at)
  BY MarkConsumedEndsRow
<1>2. PICK h \in DOMAIN hashes : hashes[h] = i
  BY <1>1 DEF EndsRows, IInv, TokenIndexAgrees
<1>3. HashesOf({i}) = {h}
  BY <1>2 DEF HashesOf, IInv, TokenIndexAgrees
<1>4. EndsHashes({h}, "consumed", "consumed_at", at)
  BY <1>1, <1>3, EndsRowsEndsHashes
<1>5. Ledger!Redeem(h, at)
  BY <1>4 DEF EndsHashes, Ledger!Redeem, Ends
<1>6. h \in Hash
  BY <1>2 DEF IInv, TypeOK
<1> QED
  BY <1>5, <1>6

(* revoke_pending_for_user() withdraws the hashes of the user's pending    *)
(* rows in the ledger, all at once.                                        *)
LEMMA RevokePendingWithdraws ==
  ASSUME IInv, NEW u \in User, NEW at \in Time, RevokePendingForUser(u, at)
  PROVE  \E H \in SUBSET Hash : Ledger!Withdraw(H, at)
<1> DEFINE H == HashesOf(PendingOf(u))
<1>1. EndsRows(PendingOf(u), "revoked", "revoked_at", at)
  BY RevokePendingEndsRows
<1>2. EndsHashes(H, "revoked", "revoked_at", at)
  BY <1>1, EndsRowsEndsHashes
<1>3. H \in SUBSET Hash
  BY DEF HashesOf, IInv, TypeOK
<1> HIDE DEF H
<1>4. Ledger!Withdraw(H, at)
  BY <1>2 DEF EndsHashes, Ledger!Withdraw, Ends
<1> QED
  BY <1>3, <1>4

(* The empty store is the empty ledger. *)
LEMMA InitRefinesLedger == Init => Ledger!Init
  BY DEF Init, Ledger!Init, HashesThatAre

(* A call that leaves the store alone leaves the ledger alone. *)
LEMMA QuietKeepsLedger == UNCHANGED store => UNCHANGED Ledger!vars
  BY DEF store, Ledger!vars, HashesThatAre, EndOf

(* Every method call is a step of the ledger, or leaves it alone. *)
LEMMA NextRefinesLedger == IInv /\ [Next]_vars => [Ledger!Next]_Ledger!vars
<1> SUFFICES ASSUME IInv, [Next]_vars PROVE [Ledger!Next]_Ledger!vars
  OBVIOUS
<1>1. ASSUME NEW i \in Id, NEW u \in User, NEW h \in Hash,
             NEW created \in Time, NEW exp \in Time,
             Create(i, u, h, created, exp)
      PROVE  Ledger!Next
  BY <1>1, CreateIssues DEF Ledger!Next
<1>2. ASSUME NEW i \in Id, NEW at \in Time, MarkConsumed(i, at)
      PROVE  Ledger!Next
  BY <1>2, MarkConsumedRedeems DEF Ledger!Next
<1>3. ASSUME NEW u \in User, NEW at \in Time, RevokePendingForUser(u, at)
      PROVE  Ledger!Next
  BY <1>3, RevokePendingWithdraws DEF Ledger!Next
<1>4. ASSUME UNCHANGED store PROVE UNCHANGED Ledger!vars
  BY <1>4, QuietKeepsLedger
<1> QED
  BY <1>1, <1>2, <1>3, <1>4 DEF Next, CreateRaises, MarkConsumedRaises, vars

(* Told by its hash, a verification is issued once, consumed at most once, *)
(* and never after its revocation: the repository implements the ledger.   *)
THEOREM RepositoryImplementsLedger == Spec => ImplementsLedger
  BY InitRefinesLedger, NextRefinesLedger, Invariance, PTL
     DEF Spec, ImplementsLedger, Ledger!Spec

-----------------------------------------------------------------------------
OwnerOf(i) == email_verifications_by_id[i].user_id

Label == {"idle", "create", "verify", "mark", "consume", "password"}

(* The local state of every task and the history variables. *)
ResendsTypeOK ==
  /\ pc \in [Task -> Label]
  /\ picked \in [Task -> Id \cup User \cup {None}]
  /\ newest \in [User -> Id \cup {None}]

(* Users are stored under their ids, every verification belongs to one of  *)
(* them, and so will every verification that is about to be issued.        *)
OwnersStored ==
  /\ DOMAIN users_by_id \subseteq User
  /\ \A i \in DOMAIN email_verifications_by_id :
       OwnerOf(i) \in DOMAIN users_by_id
  /\ \A t \in Task : pc[t] = "create" => picked[t] \in DOMAIN users_by_id

(* Unless the last revocation overlapped an issue, one request at most is  *)
(* about to issue to the user, who then has nothing pending.               *)
OneIssuer ==
  \A u \in User \ overlapped :
    /\ \A t, v \in Issuing(u) : t = v
    /\ Issuing(u) # {} => PendingOf(u) = {}

RInv ==
  /\ IInv
  /\ ResendsTypeOK
  /\ OwnersStored
  /\ OneIssuer
  /\ LoneResendLeavesOnlyNewest

-----------------------------------------------------------------------------
(* What the calls leave as it is *)

(* Users stay. *)
UsersStay == DOMAIN users_by_id \subseteq DOMAIN users_by_id'

(* Verifications stay, with their owner, and there are no others. *)
RowsStay ==
  /\ DOMAIN email_verifications_by_id' = DOMAIN email_verifications_by_id
  /\ \A i \in DOMAIN email_verifications_by_id : OwnerOf(i)' = OwnerOf(i)

(* Only one task moves. *)
Others(t) ==
  \A v \in Task \ {t} : pc'[v] = pc[v] /\ picked'[v] = picked[v]

(* Then the owners are stored that were. *)
LEMMA OwnersStillStored ==
  ASSUME OwnersStored, UsersStay, RowsStay, DOMAIN users_by_id' \subseteq User,
         NEW t \in Task, Others(t),
         pc'[t] = "create" => picked'[t] \in DOMAIN users_by_id'
  PROVE  OwnersStored'
<1>1. ASSUME NEW v \in Task, pc'[v] = "create"
      PROVE  picked'[v] \in DOMAIN users_by_id'
  <2>1. CASE v # t
    BY <1>1, <2>1 DEF Others, OwnersStored, UsersStay
  <2> QED
    BY <1>1, <2>1
<1>2. ASSUME NEW i \in DOMAIN email_verifications_by_id'
      PROVE  OwnerOf(i)' \in DOMAIN users_by_id'
  BY <1>2 DEF OwnersStored, UsersStay, RowsStay
<1> QED
  BY <1>1, <1>2 DEF OwnersStored, OwnerOf

(* With no more pending and no more about to be issued than before, what   *)
(* was said of the newest verification still holds.                        *)
LEMMA FewerKeepNewest ==
  ASSUME OneIssuer, LoneResendLeavesOnlyNewest, UNCHANGED history,
         \A u \in User : /\ PendingOf(u)' \subseteq PendingOf(u)
                         /\ Issuing(u)' \subseteq Issuing(u)
  PROVE  OneIssuer' /\ LoneResendLeavesOnlyNewest'
<1>1. ASSUME NEW u \in User \ overlapped'
      PROVE  /\ \A t, v \in Issuing(u)' : t = v
             /\ Issuing(u)' # {} => PendingOf(u)' = {}
             /\ PendingOf(u)' \subseteq {newest'[u]}
  <2>1. u \in User \ overlapped
    BY DEF history
  <2>2. /\ \A t, v \in Issuing(u) : t = v
        /\ Issuing(u) # {} => PendingOf(u) = {}
        /\ PendingOf(u) \subseteq {newest[u]}
    BY <2>1 DEF OneIssuer, LoneResendLeavesOnlyNewest
  <2>3. PendingOf(u)' \subseteq PendingOf(u) /\ Issuing(u)' \subseteq Issuing(u)
    BY <2>1
  <2>4. newest' = newest
    BY DEF history
  <2> HIDE DEF PendingOf, Issuing
  <2> QED
    BY <2>2, <2>3, <2>4
<1> QED
  BY <1>1 DEF OneIssuer, LoneResendLeavesOnlyNewest

(* The task that goes to another place than create() issues to nobody. *)
LEMMA FewerIssuers ==
  ASSUME NEW t \in Task, Others(t), pc'[t] # "create", NEW u
  PROVE  Issuing(u)' \subseteq Issuing(u)
  BY DEF Issuing, Others

(* What a move of one task does to its locals. *)
LEMMA HoldMoves ==
  ASSUME ResendsTypeOK, NEW t \in Task, NEW x \in Id \cup User \cup {None},
         NEW label \in Label, NEW user, Hold(t, label, x, user)
  PROVE  /\ Others(t)
         /\ pc'[t] = label /\ picked'[t] = x
         /\ pc' \in [Task -> Label]
         /\ picked' \in [Task -> Id \cup User \cup {None}]
<1>1. /\ pc \in [Task -> Label]
      /\ picked \in [Task -> Id \cup User \cup {None}]
  BY DEF ResendsTypeOK
<1>2. /\ pc' = [pc EXCEPT ![t] = label]
      /\ picked' = [picked EXCEPT ![t] = x]
  BY DEF Hold
<1> QED
  BY <1>1, <1>2 DEF Others

-----------------------------------------------------------------------------
(* The requests *)

(* Signup: the new user has no verification, and no request issues to it.  *)
LEMMA SignupBeginKeepsRInv ==
  ASSUME RInv, NEW t \in Task, NEW u \in User, NEW e, NEW p,
         SignupBegin(t, u, e, p)
  PROVE  RInv'
<1>1. /\ u \notin DOMAIN users_by_id
      /\ users_by_id' = U!Put(users_by_id, u, U!NewUser(e, p))
      /\ reply' = U!Returned(1)
      /\ Hold(t, "create", u, None)
      /\ UNCHANGED <<store, newest, overlapped>>
  BY DEF SignupBegin, Goto, U!Create, history
<1>2. /\ Others(t)
      /\ pc'[t] = "create" /\ picked'[t] = u
      /\ pc' \in [Task -> Label]
      /\ picked' \in [Task -> Id \cup User \cup {None}]
  <2>1. u \in Id \cup User \cup {None} /\ "create" \in Label
    BY DEF Label
  <2> QED
    BY <1>1, <2>1, HoldMoves DEF RInv
<1>3. DOMAIN users_by_id' = DOMAIN users_by_id \cup {u}
  BY <1>1 DEF U!Put
<1>4. UsersStay /\ RowsStay
  BY <1>1, <1>3 DEF UsersStay, RowsStay, OwnerOf, store
<1>5. IInv'
  <2>1. reply' \in Reply
    BY <1>1 DEF U!Returned, Reply
  <2> QED
    BY <1>1, <2>1, StorePreservesIInv DEF RInv
<1>6. ResendsTypeOK'
  BY <1>1, <1>2 DEF RInv, ResendsTypeOK
<1>7. OwnersStored'
  <2>1. DOMAIN users_by_id' \subseteq User
    BY <1>3 DEF RInv, OwnersStored
  <2> QED
    BY <1>2, <1>3, <1>4, <2>1, OwnersStillStored DEF RInv
<1>8. \A v \in User : PendingOf(v)' = PendingOf(v)
  BY <1>1 DEF PendingOf, store
<1>9. OneIssuer'
  <2> SUFFICES ASSUME NEW v \in User \ overlapped
               PROVE  /\ \A w, x \in Issuing(v)' : w = x
                      /\ Issuing(v)' # {} => PendingOf(v)' = {}
    BY <1>1 DEF OneIssuer
  <2>1. CASE v = u
    <3>1. Issuing(u) = {}
      BY <1>1 DEF Issuing, RInv, OwnersStored
    <3>2. Issuing(u)' \subseteq {t}
      BY <1>2, <3>1 DEF Issuing, Others
    <3>3. PendingOf(u) = {}
      BY <1>1 DEF PendingOf, RInv, OwnersStored, OwnerOf
    <3> QED
      BY <1>8, <2>1, <3>2, <3>3
  <2>2. CASE v # u
    <3>1. Issuing(v)' \subseteq Issuing(v)
      BY <1>2, <2>2 DEF Issuing, Others
    <3> QED
      BY <1>8, <3>1 DEF RInv, OneIssuer
  <2> QED
    BY <2>1, <2>2
<1>10. LoneResendLeavesOnlyNewest'
  BY <1>1, <1>8 DEF RInv, LoneResendLeavesOnlyNewest
<1> QED
  BY <1>5, <1>6, <1>7, <1>9, <1>10 DEF RInv

(* A resend's revocation leaves nothing pending; if no other request is    *)
(* about to issue to the user, this one is the only one.                   *)
LEMMA ResendRevokeKeepsRInv ==
  ASSUME RInv, NEW t \in Task, NEW u \in User, NEW at \in Time,
         ResendRevoke(t, u, at)
  PROVE  RInv'
<1> DEFINE rows == email_verifications_by_id
<1>1. /\ pc[t] = "idle"
      /\ u \in DOMAIN users_by_id
      /\ RevokePendingForUser(u, at)
      /\ Hold(t, "create", u, None)
      /\ overlapped' = IF Issuing(u) = {} THEN overlapped \ {u}
                                          ELSE overlapped \cup {u}
      /\ UNCHANGED <<users_by_id, newest>>
  BY DEF ResendRevoke, Goto, userVars
<1>2. /\ Others(t)
      /\ pc'[t] = "create" /\ picked'[t] = u
      /\ pc' \in [Task -> Label]
      /\ picked' \in [Task -> Id \cup User \cup {None}]
  <2>1. u \in Id \cup User \cup {None} /\ "create" \in Label
    BY DEF Label
  <2> QED
    BY <1>1, <2>1, HoldMoves DEF RInv
<1>3. EndsRows(PendingOf(u), "revoked", "revoked_at", at)
  BY <1>1, RevokePendingEndsRows DEF RInv
<1>4. IInv'
  BY <1>3, EndsRowsPreservesIInv DEF RInv
<1>5. /\ DOMAIN rows' = DOMAIN rows
      /\ \A i \in DOMAIN rows : rows'[i].user_id = rows[i].user_id
      /\ \A i \in PendingOf(u) : rows'[i].status = "revoked"
      /\ \A i \in DOMAIN rows \ PendingOf(u) : rows'[i] = rows[i]
  BY <1>3 DEF EndsRows
<1>6. UsersStay /\ RowsStay
  BY <1>1, <1>5 DEF UsersStay, RowsStay, OwnerOf
<1>7. ResendsTypeOK'
  BY <1>1, <1>2 DEF RInv, ResendsTypeOK
<1>8. OwnersStored'
  <2>1. DOMAIN users_by_id' \subseteq User
    BY <1>1 DEF RInv, OwnersStored
  <2> QED
    BY <1>1, <1>2, <1>6, <2>1, OwnersStillStored DEF RInv
<1>9. PendingOf(u)' = {}
  <2> SUFFICES ASSUME NEW i \in DOMAIN rows,
                      rows'[i].user_id = u, rows'[i].status = "pending"
               PROVE  FALSE
    BY <1>5 DEF PendingOf
  <2>1. i \in PendingOf(u)
    BY <1>5 DEF PendingOf
  <2> QED
    BY <1>5, <2>1
<1>10. \A v \in User : v # u => PendingOf(v)' \subseteq PendingOf(v)
  BY <1>5 DEF PendingOf
<1>11. \A v \in User : v # u => Issuing(v)' \subseteq Issuing(v)
  BY <1>2 DEF Issuing, Others
<1>12. Issuing(u)' \subseteq Issuing(u) \cup {t}
  BY <1>2 DEF Issuing, Others
<1>13. OneIssuer'
  <2> SUFFICES ASSUME NEW v \in User \ overlapped'
               PROVE  /\ \A w, x \in Issuing(v)' : w = x
                      /\ Issuing(v)' # {} => PendingOf(v)' = {}
    BY DEF OneIssuer
  <2>1. CASE v = u
    <3>1. Issuing(u) = {}
      BY <1>1, <2>1
    <3> QED
      BY <1>9, <1>12, <2>1, <3>1
  <2>2. CASE v # u
    <3>1. /\ \A w, x \in Issuing(v) : w = x
          /\ Issuing(v) # {} => PendingOf(v) = {}
      BY <1>1, <2>2 DEF RInv, OneIssuer
    <3> QED
      BY <1>10, <1>11, <2>2, <3>1
  <2> QED
    BY <2>1, <2>2
<1>14. LoneResendLeavesOnlyNewest'
  <2> SUFFICES ASSUME NEW v \in User \ overlapped'
               PROVE  PendingOf(v)' \subseteq {newest[v]}
    BY <1>1 DEF LoneResendLeavesOnlyNewest
  <2>1. CASE v = u
    BY <1>9, <2>1
  <2>2. CASE v # u
    <3>1. PendingOf(v) \subseteq {newest[v]}
      BY <1>1, <2>2 DEF RInv, LoneResendLeavesOnlyNewest
    <3> QED
      BY <1>10, <2>2, <3>1
  <2> QED
    BY <2>1, <2>2
<1> QED
  BY <1>4, <1>7, <1>8, <1>13, <1>14 DEF RInv

(* An issue to a user who has several requests about to issue is one that  *)
(* overlapped; otherwise nothing was pending and the new one is all.       *)
LEMMA IssueKeepsRInv ==
  ASSUME RInv, NEW t \in Task, NEW i \in Id, NEW h \in Hash,
         NEW created \in Time, NEW exp \in Time, Issue(t, i, h, created, exp)
  PROVE  RInv'
<1> DEFINE rows == email_verifications_by_id
<1>0. PICK u : u = picked[t]
  OBVIOUS
<1>1. /\ pc[t] = "create"
      /\ Create(i, u, h, created, exp)
      /\ newest' = [newest EXCEPT ![u] = i]
      /\ Hold(t, "idle", None, None)
      /\ UNCHANGED <<users_by_id, overlapped>>
  BY <1>0 DEF Issue, Forget, Goto, userVars
<1>2. u \in User /\ u \in DOMAIN users_by_id /\ t \in Issuing(u)
  BY <1>0, <1>1 DEF RInv, OwnersStored, Issuing
<1>3. /\ Others(t)
      /\ pc'[t] = "idle"
      /\ pc' \in [Task -> Label]
      /\ picked' \in [Task -> Id \cup User \cup {None}]
  <2>1. "idle" \in Label
    BY DEF Label
  <2> QED
    BY <1>1, <2>1, HoldMoves DEF RInv
<1>4. IInv'
  BY <1>1, <1>2, CreatePreservesIInv DEF RInv
<1>5. AddsRow(i, u, h, NewVerification(u, h, created, exp))
  BY <1>1, <1>2, CreateAddsRow
<1>6. /\ i \notin DOMAIN rows
      /\ DOMAIN rows' = DOMAIN rows \cup {i}
      /\ rows'[i].user_id = u /\ rows'[i].status = "pending"
      /\ \A x \in DOMAIN rows : rows'[x] = rows[x]
  BY <1>5 DEF AddsRow
<1>7. ResendsTypeOK'
  <2>1. newest' \in [User -> Id \cup {None}]
    BY <1>1 DEF RInv, ResendsTypeOK
  <2> QED
    BY <1>3, <2>1 DEF ResendsTypeOK
<1>8. OwnersStored'
  <2>1. \A v \in Task : pc'[v] = "create" => v # t
    BY <1>3
  <2> QED
    BY <1>1, <1>2, <1>3, <1>6, <2>1 DEF RInv, OwnersStored, OwnerOf, Others
<1>9. ASSUME NEW v \in User \ overlapped'
       PROVE  /\ \A w, x \in Issuing(v)' : w = x
              /\ Issuing(v)' # {} => PendingOf(v)' = {}
              /\ PendingOf(v)' \subseteq {newest'[v]}
  <2>1. /\ \A w, x \in Issuing(v) : w = x
        /\ Issuing(v) # {} => PendingOf(v) = {}
        /\ PendingOf(v) \subseteq {newest[v]}
    BY <1>1 DEF RInv, OneIssuer, LoneResendLeavesOnlyNewest
  <2>2. Issuing(v)' \subseteq Issuing(v) \ {t}
    BY <1>3 DEF Issuing, Others
  <2>3. CASE v = u
    <3>1. PendingOf(u) = {} /\ Issuing(u) = {t}
      BY <1>2, <2>1, <2>3
    <3>2. PendingOf(u)' \subseteq {i}
      BY <1>6, <3>1 DEF PendingOf
    <3>3. newest'[u] = i
      BY <1>1, <1>2 DEF RInv, ResendsTypeOK
    <3>4. Issuing(u)' = {}
      BY <2>2, <2>3, <3>1
    <3> QED
      BY <2>3, <3>2, <3>3, <3>4
  <2>4. CASE v # u
    <3>1. PendingOf(v)' \subseteq PendingOf(v)
      BY <1>6, <2>4 DEF PendingOf
    <3>2. newest'[v] = newest[v]
      BY <1>1, <2>4 DEF RInv, ResendsTypeOK
    <3> QED
      BY <2>1, <2>2, <3>1, <3>2
  <2> QED
    BY <2>3, <2>4
<1>10. OneIssuer' /\ LoneResendLeavesOnlyNewest'
  BY <1>9 DEF OneIssuer, LoneResendLeavesOnlyNewest
<1> QED
  BY <1>4, <1>7, <1>8, <1>10 DEF RInv

(* A request that looks something up, updates a user, is refused or is     *)
(* cancelled leaves the verifications alone and issues to nobody.          *)
LEMMA QuietKeepsRInv ==
  ASSUME RInv, NEW t \in Task, NEW label \in Label, label # "create",
         NEW x \in Id \cup User \cup {None}, NEW user,
         Hold(t, label, x, user), UNCHANGED <<store, history>>,
         DOMAIN users_by_id' = DOMAIN users_by_id, reply' \in Reply
  PROVE  RInv'
<1>1. /\ Others(t)
      /\ pc'[t] = label /\ picked'[t] = x
      /\ pc' \in [Task -> Label]
      /\ picked' \in [Task -> Id \cup User \cup {None}]
  BY HoldMoves DEF RInv
<1>2. UsersStay /\ RowsStay
  BY DEF UsersStay, RowsStay, OwnerOf, store
<1>3. IInv'
  BY StorePreservesIInv DEF RInv
<1>4. ResendsTypeOK'
  BY <1>1 DEF RInv, ResendsTypeOK, history
<1>5. OwnersStored'
  <2>1. DOMAIN users_by_id' \subseteq User
    BY DEF RInv, OwnersStored
  <2> QED
    BY <1>1, <1>2, <2>1, OwnersStillStored DEF RInv
<1>6. \A u \in User : /\ PendingOf(u)' \subseteq PendingOf(u)
                      /\ Issuing(u)' \subseteq Issuing(u)
  <2>1. \A u \in User : PendingOf(u)' = PendingOf(u)
    BY DEF PendingOf, store
  <2> QED
    BY <1>1, <2>1, FewerIssuers
<1>7. OneIssuer' /\ LoneResendLeavesOnlyNewest'
  BY <1>6, FewerKeepNewest DEF RInv
<1> QED
  BY <1>3, <1>4, <1>5, <1>7 DEF RInv

(* A lookup picks a row of the table, or a user. *)
LEMMA LookupKeepsRInv ==
  ASSUME RInv, NEW t \in Task,
         \/ \E h \in Hash : VerifyLookup(t, h)
         \/ VerifyReadUser(t)
         \/ \E u \in User : PasswordReadUser(t, u)
  PROVE  RInv'
<1>1. /\ UNCHANGED <<store, history>>
      /\ DOMAIN users_by_id' = DOMAIN users_by_id
      /\ reply' \in Reply
  BY DEF VerifyLookup, VerifyReadUser, PasswordReadUser, vars, userVars,
         RInv, IInv, TypeOK
<1>2. PICK label \in {"verify", "mark", "password"},
           x \in Id \cup User \cup {None} : \E user : Hold(t, label, x, user)
  <2>1. ASSUME NEW h \in Hash, VerifyLookup(t, h)
        PROVE  /\ email_verification_id_by_token_hash[h] \in Id
               /\ Hold(t, "verify", email_verification_id_by_token_hash[h],
                       None)
    BY <2>1 DEF VerifyLookup, HashesThatAre, Goto, RInv, IInv, TypeOK
  <2>2. picked[t] \in Id \cup User \cup {None}
    BY DEF RInv, ResendsTypeOK
  <2> QED
    BY <2>1, <2>2 DEF VerifyReadUser, PasswordReadUser
<1>3. label \in Label /\ label # "create"
  BY DEF Label
<1> QED
  BY <1>1, <1>2, <1>3, QuietKeepsRInv

(* An update of a user touches no verification. *)
LEMMA UserUpdateKeepsRInv ==
  ASSUME RInv, NEW t \in Task,
         VerifyUser(t) \/ \E p \in Password : ChangePassword(t, p)
  PROVE  RInv'
<1>1. PICK u, record : U!Update(u, record)
  BY DEF VerifyUser, ChangePassword
<1>2. /\ UNCHANGED <<store, history>>
      /\ DOMAIN users_by_id' = DOMAIN users_by_id
      /\ reply' \in Reply
  BY <1>1 DEF VerifyUser, ChangePassword, U!Update, U!Returned, Reply
<1>3. picked[t] \in Id \cup User \cup {None}
  BY DEF RInv, ResendsTypeOK
<1>4. PICK label \in {"idle", "consume"}, x \in Id \cup User \cup {None} :
        Hold(t, label, x, None)
  BY <1>3 DEF VerifyUser, ChangePassword, Forget, Goto
<1>5. label \in Label /\ label # "create"
  BY DEF Label
<1> QED
  BY <1>2, <1>4, <1>5, QuietKeepsRInv

(* A request that is refused or cancelled. *)
LEMMA GivingUpKeepsRInv ==
  ASSUME RInv, NEW t \in Task,
         \/ \E h \in Hash : IssueFails(t, h)
         \/ VerifyRejected(t) \/ Abandon(t)
  PROVE  RInv'
<1>1. Hold(t, "idle", None, None)
  BY DEF IssueFails, VerifyRejected, Abandon, Forget, Goto
<1>2. /\ UNCHANGED <<store, history>>
      /\ DOMAIN users_by_id' = DOMAIN users_by_id
  BY DEF IssueFails, VerifyRejected, Abandon, CreateRaises,
         MarkConsumedRaises, vars, userVars
<1>3. reply' \in Reply
  BY DEF IssueFails, VerifyRejected, Abandon, CreateRaises,
         MarkConsumedRaises, vars, Raised, Error, Reply, RInv, IInv, TypeOK
<1>4. "idle" \in Label
  BY DEF Label
<1> QED
  BY <1>1, <1>2, <1>3, <1>4, QuietKeepsRInv

(* verify consumes the row it has picked. *)
LEMMA VerifyConsumeKeepsRInv ==
  ASSUME RInv, NEW t \in Task, NEW at \in Time, VerifyConsume(t, at)
  PROVE  RInv'
<1> DEFINE rows == email_verifications_by_id
<1>0. PICK i : i = picked[t]
  OBVIOUS
<1>1. /\ MarkConsumed(i, at)
      /\ Hold(t, "idle", None, None)
      /\ UNCHANGED <<users_by_id, newest, overlapped>>
  BY <1>0 DEF VerifyConsume, Forget, Goto, userVars, history
<1>2. i \in Id
  BY <1>1 DEF MarkConsumed, RInv, IInv, TypeOK
<1>3. /\ Others(t)
      /\ pc'[t] = "idle"
      /\ pc' \in [Task -> Label]
      /\ picked' \in [Task -> Id \cup User \cup {None}]
  <2>1. "idle" \in Label
    BY DEF Label
  <2> QED
    BY <1>1, <2>1, HoldMoves DEF RInv
<1>4. EndsRows({i}, "consumed", "consumed_at", at)
  BY <1>1, <1>2, MarkConsumedEndsRow DEF RInv
<1>5. IInv'
  BY <1>4, EndsRowsPreservesIInv DEF RInv
<1>6. /\ DOMAIN rows' = DOMAIN rows
      /\ rows'[i].user_id = rows[i].user_id
      /\ rows'[i].status = "consumed"
      /\ \A x \in DOMAIN rows \ {i} : rows'[x] = rows[x]
  BY <1>4 DEF EndsRows
<1>7. UsersStay /\ RowsStay
  BY <1>1, <1>6 DEF UsersStay, RowsStay, OwnerOf
<1>8. ResendsTypeOK'
  BY <1>1, <1>3 DEF RInv, ResendsTypeOK
<1>9. OwnersStored'
  <2>1. DOMAIN users_by_id' \subseteq User
    BY <1>1 DEF RInv, OwnersStored
  <2> QED
    BY <1>3, <1>7, <2>1, OwnersStillStored DEF RInv
<1>10. \A u \in User : /\ PendingOf(u)' \subseteq PendingOf(u)
                       /\ Issuing(u)' \subseteq Issuing(u)
  <2>1. \A u \in User : PendingOf(u)' \subseteq PendingOf(u)
    BY <1>6 DEF PendingOf
  <2> QED
    BY <1>3, <2>1, FewerIssuers
<1>11. OneIssuer' /\ LoneResendLeavesOnlyNewest'
  BY <1>1, <1>10, FewerKeepNewest DEF RInv, history
<1> QED
  BY <1>5, <1>8, <1>9, <1>11 DEF RInv

-----------------------------------------------------------------------------
(* The invariant *)

(* Before the first request there is nothing to break it. *)
LEMMA ResendsInitImpliesRInv == ResendsInit => RInv
<1> SUFFICES ASSUME ResendsInit PROVE RInv
  OBVIOUS
<1>1. IInv
  BY InitImpliesIInv DEF ResendsInit
<1>2. DOMAIN email_verifications_by_id = {} /\ DOMAIN users_by_id = {}
  BY DEF ResendsInit, Init, U!Init
<1>3. \A t \in Task : pc[t] = "idle"
  BY DEF ResendsInit
<1>4. ResendsTypeOK
  BY DEF ResendsInit, ResendsTypeOK, Label
<1>5. \A u : Issuing(u) = {} /\ PendingOf(u) = {}
  BY <1>2, <1>3 DEF Issuing, PendingOf
<1>6. OwnersStored
  BY <1>2, <1>3 DEF OwnersStored
<1>7. OneIssuer /\ LoneResendLeavesOnlyNewest
  BY <1>5 DEF OneIssuer, LoneResendLeavesOnlyNewest
<1> QED
  BY <1>1, <1>4, <1>6, <1>7 DEF RInv

(* A step that changes nothing preserves it. *)
LEMMA StutteringKeepsRInv ==
  ASSUME RInv, UNCHANGED resendVars
  PROVE  RInv'
<1>1. UNCHANGED <<store, reply, pc, picked, users_by_id, newest, overlapped>>
  BY DEF resendVars, vars, locals, userVars, history
<1>2. IInv'
  BY <1>1, StorePreservesIInv DEF RInv, IInv, TypeOK
<1>3. ResendsTypeOK' /\ OwnersStored'
  BY <1>1 DEF RInv, ResendsTypeOK, OwnersStored, OwnerOf, store
<1>4. OneIssuer' /\ LoneResendLeavesOnlyNewest'
  BY <1>1, FewerKeepNewest DEF RInv, history, PendingOf, Issuing, store
<1> QED
  BY <1>2, <1>3, <1>4 DEF RInv

(* Every call of every request preserves it. *)
LEMMA ResendsNextPreservesRInv == RInv /\ [ResendsNext]_resendVars => RInv'
<1> SUFFICES ASSUME RInv, [ResendsNext]_resendVars PROVE RInv'
  OBVIOUS
<1>1. ASSUME NEW t \in Task, Step(t) PROVE RInv'
  <2>1. ASSUME NEW u \in User, NEW e \in Spelling, NEW p \in Password,
               SignupBegin(t, u, e, p)
        PROVE  RInv'
    BY <2>1, SignupBeginKeepsRInv
  <2>2. ASSUME NEW u \in User, NEW at \in Time, ResendRevoke(t, u, at)
        PROVE  RInv'
    BY <2>2, ResendRevokeKeepsRInv
  <2>3. ASSUME NEW i \in Id, NEW h \in Hash, NEW created \in Time,
               NEW exp \in Time, Issue(t, i, h, created, exp)
        PROVE  RInv'
    BY <2>3, IssueKeepsRInv
  <2>4. ASSUME NEW at \in Time, VerifyConsume(t, at)
        PROVE  RInv'
    BY <2>4, VerifyConsumeKeepsRInv
  <2> QED
    BY <1>1, <2>1, <2>2, <2>3, <2>4, LookupKeepsRInv, UserUpdateKeepsRInv,
       GivingUpKeepsRInv DEF Step
<1>2. CASE UNCHANGED resendVars
  BY <1>2, StutteringKeepsRInv
<1> QED
  BY <1>1, <1>2 DEF ResendsNext

(* So it holds however the requests interleave. *)
LEMMA ResendsInvariance == ResendsSpec => []RInv
  BY ResendsInitImpliesRInv, ResendsNextPreservesRInv, PTL DEF ResendsSpec

-----------------------------------------------------------------------------
(* Theorems *)

(* A user whose last resend overlapped no other issue has nothing pending  *)
(* but the newest verification, whatever happened before.                  *)
THEOREM LoneResendAlwaysLeavesOnlyNewest ==
  ResendsSpec => []LoneResendLeavesOnlyNewest
  BY ResendsInvariance, PTL DEF RInv

(* mark_consumed() is the only call that consumes, and it takes a pending  *)
(* row: the newest, unless the user's last revocation overlapped.          *)
LEMMA StepsConsumeTheNewest ==
  RInv /\ [ResendsNext]_resendVars => ConsumptionStep
<1> DEFINE rows == email_verifications_by_id
<1> SUFFICES ASSUME RInv, [ResendsNext]_resendVars,
                    NEW i \in DOMAIN rows,
                    rows[i].status # "consumed",
                    rows'[i].status = "consumed"
             PROVE  \/ rows[i].user_id \in overlapped
                    \/ i = newest[rows[i].user_id]
  BY DEF ConsumptionStep
<1>1. IInv
  BY DEF RInv
<1>2. PICK t \in Task : Step(t)
  BY DEF ResendsNext, resendVars, vars, store
<1>3. rows[i].status = "pending"
  <2>1. ASSUME NEW at \in Time, VerifyConsume(t, at)
        PROVE  rows[i].status = "pending"
    BY <2>1 DEF VerifyConsume, MarkConsumed
  <2>2. ASSUME NEW u \in User, NEW at \in Time, ResendRevoke(t, u, at)
        PROVE  FALSE
    <3>1. EndsRows(PendingOf(u), "revoked", "revoked_at", at)
      BY <1>1, <2>2, RevokePendingEndsRows DEF ResendRevoke
    <3> QED
      BY <3>1 DEF EndsRows
  <2>3. ASSUME NEW j \in Id, NEW h \in Hash, NEW created \in Time,
               NEW exp \in Time, Issue(t, j, h, created, exp)
        PROVE  FALSE
    BY <2>3 DEF Issue, Create, Put
  <2>4. ASSUME UNCHANGED store PROVE FALSE
    BY <2>4 DEF store
  <2> QED
    BY <1>2, <2>1, <2>2, <2>3, <2>4
       DEF Step, SignupBegin, IssueFails, CreateRaises, VerifyLookup,
           VerifyReadUser, VerifyUser, VerifyRejected, MarkConsumedRaises,
           PasswordReadUser, ChangePassword, Abandon, vars
<1>4. i \in PendingOf(rows[i].user_id)
  BY <1>3 DEF PendingOf
<1>5. rows[i].user_id \in User
  BY DEF RInv, OwnersStored, OwnerOf
<1> QED
  BY <1>4, <1>5 DEF RInv, LoneResendLeavesOnlyNewest

(* Only the newest verification of such a user is ever consumed, also by a *)
(* request that had looked an older one up before the resend.              *)
THEOREM LoneResendAlwaysEndsOlderTokens ==
  ResendsSpec => LoneResendEndsOlderTokens
<1>1. RInv /\ [ResendsNext]_resendVars => ConsumptionStep
  BY StepsConsumeTheNewest
<1>2. ResendsSpec => [][ConsumptionStep]_resendVars
  BY <1>1, ResendsInvariance, PTL DEF ResendsSpec
<1> QED
  BY <1>2 DEF LoneResendEndsOlderTokens
=============================================================================
