--------------------------- MODULE AcceptanceProofs ---------------------------
(***************************************************************************)
(* Theorems about Invitations and about Acceptance, for every value of     *)
(* their constants.                                                        *)
(*                                                                         *)
(* Those about the repository rest on one inductive invariant: the typing  *)
(* of the store, the agreement of the token index with the table, and the  *)
(* coherence of every row.  The agreement is what turns a change of one    *)
(* row into a change of one hash, which is how the repository implements   *)
(* CredentialLedger.                                                       *)
(*                                                                         *)
(* The invariants of Acceptance speak of what was accepted and of who      *)
(* joined; to be inductive they also have to speak of the requests under   *)
(* way, which are between the two calls.                                   *)
(***************************************************************************)
EXTENDS Acceptance, TLAPS

-----------------------------------------------------------------------------
(* The repository: lemmas and theorems about Invitations *)

(* What the code keeps true of each stored row; it is more than the        *)
(* validators of Invitation ask for.                                       *)
Coherent(r) ==
  /\ r.expires_at > r.created_at
  /\ (r.status = "accepted") <=> (r.accepted_at # None)
  /\ r.accepted_at # None => r.accepted_at < r.expires_at

RowsCoherent ==
  \A i \in DOMAIN invitations_by_id : Coherent(invitations_by_id[i])

IInv ==
  /\ TypeOK
  /\ TokenIndexAgrees
  /\ RowsCoherent

-----------------------------------------------------------------------------
(* Operators *)

(* d[k] = v keeps the types of the keys and of the values of a dict.       *)
LEMMA PutType ==
  ASSUME NEW S, NEW V, NEW d, NEW k \in S, NEW v \in V,
         DOMAIN d \subseteq S, d \in [DOMAIN d -> V]
  PROVE  /\ DOMAIN Put(d, k, v) \subseteq S
         /\ Put(d, k, v) \in [DOMAIN Put(d, k, v) -> V]
  BY DEF Put

(* A new row that the validators accept is coherent. *)
LEMMA NewInvitationIsCoherent ==
  ASSUME NEW n \in Tenant, NEW role \in Role, NEW h \in Hash,
         NEW created \in Time, NEW exp \in Time,
         ValidInvitation(NewInvitation(n, role, h, created, exp))
  PROVE  /\ NewInvitation(n, role, h, created, exp) \in Invitation
         /\ Coherent(NewInvitation(n, role, h, created, exp))
  BY NoneAssumption
     DEF NewInvitation, Invitation, Coherent, Status, ValidInvitation

(* Accepting a coherent pending row before its expiry gives a coherent row *)
(* that differs in its status and its time of acceptance.                  *)
LEMMA AcceptedIsCoherent ==
  ASSUME NEW r \in Invitation, NEW at \in Time,
         Coherent(r), r.status = "pending", r.expires_at > at
  PROVE  /\ Accepted(r, at) \in Invitation
         /\ Coherent(Accepted(r, at))
         /\ Accepted(r, at).status = "accepted"
         /\ Accepted(r, at).accepted_at = at
         /\ Accepted(r, at).token_hash = r.token_hash
  BY NoneAssumption, TimeAssumption
     DEF Accepted, Invitation, Coherent, Status

-----------------------------------------------------------------------------
(* The methods, under the invariant *)

(* What a create() that returns does: it adds one coherent pending row     *)
(* under a new id, and its hash, which no row had, to the index.           *)
AddsRow(i, h, r) ==
  LET rows == invitations_by_id
      hashes == invitation_id_by_token_hash
  IN /\ r \in Invitation /\ Coherent(r)
     /\ r.token_hash = h /\ r.status = "pending"
     /\ i \notin DOMAIN rows
     /\ DOMAIN rows' = DOMAIN rows \cup {i}
     /\ rows'[i] = r
     /\ \A x \in DOMAIN rows : rows'[x] = rows[x]
     /\ rows' = Put(rows, i, r)
     /\ h \notin DOMAIN hashes
     /\ DOMAIN hashes' = DOMAIN hashes \cup {h}
     /\ hashes'[h] = i
     /\ \A x \in DOMAIN hashes : hashes'[x] = hashes[x]
     /\ hashes' = Put(hashes, h, i)
     /\ reply' = Returned(1)

(* create() adds the row it is asked for. *)
LEMMA CreateAddsRow ==
  ASSUME NEW i \in Id, NEW n \in Tenant, NEW role \in Role, NEW h \in Hash,
         NEW created \in Time, NEW exp \in Time,
         Create(i, n, role, h, created, exp)
  PROVE  AddsRow(i, h, NewInvitation(n, role, h, created, exp))
<1> DEFINE r == NewInvitation(n, role, h, created, exp)
<1>1. /\ r \in Invitation /\ Coherent(r)
      /\ r.token_hash = h /\ r.status = "pending"
  BY NewInvitationIsCoherent DEF Create, NewInvitation
<1> QED
  BY <1>1 DEF Create, Put, AddsRow

(* A mark_accepted() that returns rebuilds one pending row, whose hash     *)
(* stays the same.                                                         *)
LEMMA MarkAcceptedChangesRow ==
  ASSUME IInv, NEW i \in Id, NEW at \in Time, MarkAccepted(i, at)
  PROVE  LET rows == invitations_by_id
         IN /\ i \in DOMAIN rows
            /\ rows[i].status = "pending"
            /\ DOMAIN rows' = DOMAIN rows
            /\ rows'[i] \in Invitation /\ Coherent(rows'[i])
            /\ rows'[i].status = "accepted"
            /\ rows'[i].accepted_at = at
            /\ rows'[i].token_hash = rows[i].token_hash
            /\ \A x \in DOMAIN rows : x # i => rows'[x] = rows[x]
            /\ rows' = [rows EXCEPT ![i] = rows'[i]]
            /\ UNCHANGED invitation_id_by_token_hash
            /\ reply' = Returned(1)
<1> DEFINE rows == invitations_by_id
<1>1. /\ i \in DOMAIN rows
      /\ rows[i].status = "pending"
      /\ rows[i].expires_at > at
      /\ rows' = [rows EXCEPT ![i] = Accepted(rows[i], at)]
      /\ UNCHANGED invitation_id_by_token_hash
      /\ reply' = Returned(1)
  BY DEF MarkAccepted
<1>2. rows[i] \in Invitation /\ Coherent(rows[i])
  BY <1>1 DEF IInv, TypeOK, RowsCoherent
<1>3. rows'[i] = Accepted(rows[i], at)
  BY <1>1
<1> QED
  BY <1>1, <1>2, <1>3, AcceptedIsCoherent

-----------------------------------------------------------------------------
(* The invariant *)

(* create() preserves the invariant. *)
LEMMA CreatePreservesIInv ==
  ASSUME IInv,
         NEW i \in Id, NEW n \in Tenant, NEW role \in Role, NEW h \in Hash,
         NEW created \in Time, NEW exp \in Time,
         Create(i, n, role, h, created, exp)
  PROVE  IInv'
<1> DEFINE rows == invitations_by_id
           hashes == invitation_id_by_token_hash
           r == NewInvitation(n, role, h, created, exp)
<1>0. AddsRow(i, h, r)
  BY CreateAddsRow
<1> HIDE DEF r
<1>1. /\ r \in Invitation /\ Coherent(r) /\ r.token_hash = h
      /\ i \notin DOMAIN rows
      /\ DOMAIN rows' = DOMAIN rows \cup {i}
      /\ rows'[i] = r
      /\ \A x \in DOMAIN rows : rows'[x] = rows[x]
      /\ rows' = Put(rows, i, r)
      /\ h \notin DOMAIN hashes
      /\ DOMAIN hashes' = DOMAIN hashes \cup {h}
      /\ hashes'[h] = i
      /\ \A x \in DOMAIN hashes : hashes'[x] = hashes[x]
      /\ hashes' = Put(hashes, h, i)
      /\ reply' = Returned(1)
  BY <1>0 DEF AddsRow
<1>2. TypeOK'
  <2>1. /\ DOMAIN rows' \subseteq Id
        /\ rows' \in [DOMAIN rows' -> Invitation]
    <3> HIDE DEF rows, r
    <3>1. DOMAIN rows \subseteq Id /\ rows \in [DOMAIN rows -> Invitation]
      BY DEF rows, IInv, TypeOK
    <3>2. /\ DOMAIN Put(rows, i, r) \subseteq Id
          /\ Put(rows, i, r) \in [DOMAIN Put(rows, i, r) -> Invitation]
      BY <1>1, <3>1, PutType
    <3> QED
      BY <1>1, <3>2
  <2>2. /\ DOMAIN hashes' \subseteq Hash
        /\ hashes' \in [DOMAIN hashes' -> Id]
    BY <1>1, PutType DEF IInv, TypeOK
  <2>3. reply' \in Reply
    BY <1>1 DEF Returned, Reply
  <2> QED
    BY <2>1, <2>2, <2>3 DEF TypeOK
<1>3. TokenIndexAgrees'
  <2>1. ASSUME NEW x \in DOMAIN rows'
        PROVE  /\ rows'[x].token_hash \in DOMAIN hashes'
               /\ hashes'[rows'[x].token_hash] = x
    BY <1>1, <2>1 DEF IInv, TokenIndexAgrees
  <2>2. ASSUME NEW x \in DOMAIN hashes'
        PROVE  /\ hashes'[x] \in DOMAIN rows'
               /\ rows'[hashes'[x]].token_hash = x
    BY <1>1, <2>2 DEF IInv, TokenIndexAgrees
  <2> QED
    BY <2>1, <2>2 DEF TokenIndexAgrees
<1>4. RowsCoherent'
  BY <1>1 DEF IInv, RowsCoherent
<1> QED
  BY <1>2, <1>3, <1>4 DEF IInv

(* mark_accepted() preserves the invariant. *)
LEMMA MarkAcceptedPreservesIInv ==
  ASSUME IInv, NEW i \in Id, NEW at \in Time, MarkAccepted(i, at)
  PROVE  IInv'
<1> DEFINE rows == invitations_by_id
<1>1. /\ i \in DOMAIN rows
      /\ DOMAIN rows' = DOMAIN rows
      /\ rows'[i] \in Invitation /\ Coherent(rows'[i])
      /\ rows'[i].token_hash = rows[i].token_hash
      /\ \A x \in DOMAIN rows : x # i => rows'[x] = rows[x]
      /\ rows' = [rows EXCEPT ![i] = rows'[i]]
      /\ UNCHANGED invitation_id_by_token_hash
      /\ reply' = Returned(1)
  BY MarkAcceptedChangesRow
<1>2. TypeOK'
  <2>1. rows' \in [DOMAIN rows' -> Invitation]
    BY <1>1 DEF IInv, TypeOK
  <2>2. reply' \in Reply
    BY <1>1 DEF Returned, Reply
  <2> QED
    BY <1>1, <2>1, <2>2 DEF IInv, TypeOK
<1>3. TokenIndexAgrees'
  BY <1>1 DEF IInv, TokenIndexAgrees
<1>4. RowsCoherent'
  BY <1>1 DEF IInv, RowsCoherent
<1> QED
  BY <1>2, <1>3, <1>4 DEF IInv

(* A call that raises, or no call at all, preserves the invariant. *)
LEMMA StorePreservesIInv ==
  ASSUME IInv, UNCHANGED store, reply' \in Reply
  PROVE  IInv'
  BY DEF IInv, TypeOK, TokenIndexAgrees, RowsCoherent, store

(* The empty store of a new process satisfies the invariant. *)
LEMMA InitImpliesIInv == Init => IInv
<1> SUFFICES ASSUME Init PROVE IInv
  OBVIOUS
<1>1. /\ DOMAIN invitations_by_id = {}
      /\ DOMAIN invitation_id_by_token_hash = {}
      /\ invitations_by_id \in [{} -> Invitation]
      /\ invitation_id_by_token_hash \in [{} -> Id]
  BY DEF Init
<1>2. reply \in Reply
  BY DEF Init, Returned, Reply
<1> QED
  BY <1>1, <1>2 DEF IInv, TypeOK, TokenIndexAgrees, RowsCoherent

(* Every method call preserves the invariant. *)
LEMMA NextPreservesIInv == IInv /\ [Next]_vars => IInv'
<1> SUFFICES ASSUME IInv, [Next]_vars PROVE IInv'
  OBVIOUS
<1>1. ASSUME NEW i \in Id, NEW n \in Tenant, NEW role \in Role,
             NEW h \in Hash, NEW created \in Time, NEW exp \in Time,
             Create(i, n, role, h, created, exp)
      PROVE  IInv'
  BY <1>1, CreatePreservesIInv
<1>2. ASSUME NEW h \in Hash, CreateRaises(h) PROVE IInv'
  BY <1>2, StorePreservesIInv DEF CreateRaises, Raised, Error, Reply
<1>3. ASSUME NEW i \in Id, NEW at \in Time, MarkAccepted(i, at) PROVE IInv'
  BY <1>3, MarkAcceptedPreservesIInv
<1>4. ASSUME NEW i \in Id, NEW at \in Time, MarkAcceptedRaises(i, at)
      PROVE  IInv'
  BY <1>4, StorePreservesIInv DEF MarkAcceptedRaises, Raised, Error, Reply
<1>5. CASE UNCHANGED vars
  BY <1>5, StorePreservesIInv DEF vars, IInv, TypeOK
<1> QED
  BY <1>1, <1>2, <1>3, <1>4, <1>5 DEF Next

(* The invariant holds in every state the repository can reach. *)
LEMMA Invariance == Spec => []IInv
  BY InitImpliesIInv, NextPreservesIInv, PTL DEF Spec

(* Coherent rows are valid, and pending ones can be accepted. *)
LEMMA RowsStayValidFromIInv == IInv => RowsStayValid
  BY NoneAssumption
     DEF IInv, TypeOK, Invitation, RowsCoherent, Coherent, RowsStayValid,
         ValidInvitation, Accepted

(* Coherent rows were accepted in time, if at all. *)
LEMMA AcceptedInTimeFromIInv == IInv => AcceptedInTime
  BY DEF IInv, RowsCoherent, Coherent, AcceptedInTime

-----------------------------------------------------------------------------
(* Theorems *)

(* Both dicts always hold what their annotations in store.py say. *)
THEOREM TypeCorrect == Spec => []TypeOK
  BY Invariance, PTL DEF IInv

(* The token index never drifts from the table. *)
THEOREM TokenIndexAlwaysAgrees == Spec => []TokenIndexAgrees
  BY Invariance, PTL DEF IInv

(* Every stored row satisfies the validators, and mark_accepted() never    *)
(* builds a record that they refuse.                                       *)
THEOREM RowsAlwaysValid == Spec => []RowsStayValid
  BY RowsStayValidFromIInv, Invariance, PTL

(* An invitation is only ever accepted before its expiry. *)
THEOREM AlwaysAcceptedInTime == Spec => []AcceptedInTime
  BY AcceptedInTimeFromIInv, Invariance, PTL

-----------------------------------------------------------------------------
(* The refinement of CredentialLedger *)

RowUnder(h) == invitations_by_id[invitation_id_by_token_hash[h]]

Live == HashesThatAre("pending")
Redeemed == {<<h, RowUnder(h).accepted_at>> : h \in HashesThatAre("accepted")}

(* Every hash of the index is live, or the first half of a redeemed pair,  *)
(* and no other hash is either.                                            *)
LEMMA LedgerKnowsOnlyTheIndex ==
  ASSUME IInv
  PROVE  /\ Live \subseteq DOMAIN invitation_id_by_token_hash
         /\ {p[1] : p \in Redeemed} \subseteq
              DOMAIN invitation_id_by_token_hash
<1> SUFFICES ASSUME NEW p \in Redeemed
             PROVE  p[1] \in DOMAIN invitation_id_by_token_hash
  BY DEF Live, HashesThatAre
<1>1. PICK h \in HashesThatAre("accepted") : p = <<h, RowUnder(h).accepted_at>>
  BY DEF Redeemed
<1> QED
  BY <1>1 DEF HashesThatAre

(* create() issues its hash in the ledger. *)
LEMMA CreateIssues ==
  ASSUME IInv,
         NEW i \in Id, NEW n \in Tenant, NEW role \in Role, NEW h \in Hash,
         NEW created \in Time, NEW exp \in Time,
         Create(i, n, role, h, created, exp)
  PROVE  Ledger!Issue(h)
<1> DEFINE rows == invitations_by_id
           hashes == invitation_id_by_token_hash
<1>0. AddsRow(i, h, NewInvitation(n, role, h, created, exp))
  BY CreateAddsRow
<1>1. /\ rows'[i].status = "pending"
      /\ i \notin DOMAIN rows
      /\ \A x \in DOMAIN rows : rows'[x] = rows[x]
      /\ h \notin DOMAIN hashes
      /\ DOMAIN hashes' = DOMAIN hashes \cup {h}
      /\ hashes'[h] = i
      /\ \A x \in DOMAIN hashes : hashes'[x] = hashes[x]
  BY <1>0 DEF AddsRow
<1>2. \A x \in DOMAIN hashes : RowUnder(x)' = RowUnder(x)
  BY <1>1 DEF RowUnder, IInv, TokenIndexAgrees
<1>3. RowUnder(h)'.status = "pending"
  BY <1>1 DEF RowUnder
<1>4. Live' = Live \cup {h}
  BY <1>1, <1>2, <1>3 DEF Live, HashesThatAre, RowUnder
<1>5. HashesThatAre("accepted")' = HashesThatAre("accepted")
  BY <1>1, <1>2, <1>3 DEF HashesThatAre, RowUnder
<1>6. Redeemed' = Redeemed
  BY <1>2, <1>5 DEF Redeemed, HashesThatAre
<1>7. h \notin Live \cup {p[1] : p \in Redeemed}
  BY <1>1, LedgerKnowsOnlyTheIndex
<1> QED
  BY <1>4, <1>6, <1>7
     DEF Ledger!Issue, Ledger!Dead, Live, Redeemed, RowUnder

(* mark_accepted() redeems the hash of its row in the ledger. *)
LEMMA MarkAcceptedRedeems ==
  ASSUME IInv, NEW i \in Id, NEW at \in Time, MarkAccepted(i, at)
  PROVE  \E h \in Hash : Ledger!Redeem(h, at)
<1> DEFINE rows == invitations_by_id
           hashes == invitation_id_by_token_hash
<1>1. /\ i \in DOMAIN rows
      /\ rows[i].status = "pending"
      /\ rows'[i].status = "accepted"
      /\ rows'[i].accepted_at = at
      /\ \A x \in DOMAIN rows : x # i => rows'[x] = rows[x]
      /\ hashes' = hashes
  BY MarkAcceptedChangesRow
<1>2. PICK h \in DOMAIN hashes : hashes[h] = i
  BY <1>1 DEF IInv, TokenIndexAgrees
<1>3. \A x \in DOMAIN hashes : x # h => RowUnder(x)' = RowUnder(x)
  BY <1>1, <1>2 DEF RowUnder, IInv, TokenIndexAgrees
<1>4. /\ RowUnder(h).status = "pending"
      /\ RowUnder(h)'.status = "accepted"
      /\ RowUnder(h)'.accepted_at = at
  BY <1>1, <1>2 DEF RowUnder
<1>5. h \in Live /\ Live' = Live \ {h}
  BY <1>1, <1>2, <1>3, <1>4 DEF Live, HashesThatAre, RowUnder
<1>6. HashesThatAre("accepted")' = HashesThatAre("accepted") \cup {h}
  BY <1>1, <1>2, <1>3, <1>4 DEF HashesThatAre, RowUnder
<1>7. h \notin HashesThatAre("accepted")
  BY <1>4 DEF HashesThatAre, RowUnder
<1>8. \A x \in HashesThatAre("accepted") : RowUnder(x)' = RowUnder(x)
  BY <1>3, <1>7 DEF HashesThatAre
<1>9. Redeemed' = Redeemed \cup {<<h, at>>}
  <2>1. Redeemed' = {<<x, RowUnder(x)'.accepted_at>> :
                       x \in HashesThatAre("accepted") \cup {h}}
    BY <1>6 DEF Redeemed
  <2> QED
    BY <1>4, <1>8, <2>1 DEF Redeemed
<1>10. Ledger!Redeem(h, at)
  BY <1>5, <1>9 DEF Ledger!Redeem, Live, Redeemed, RowUnder
<1>11. h \in Hash
  BY <1>2 DEF IInv, TypeOK
<1> QED
  BY <1>10, <1>11

(* The empty store is the empty ledger. *)
LEMMA InitRefinesLedger == Init => Ledger!Init
  BY DEF Init, Ledger!Init, HashesThatAre

(* A call that leaves the store alone leaves the ledger alone. *)
LEMMA QuietKeepsLedger == UNCHANGED store => UNCHANGED Ledger!vars
  BY DEF store, Ledger!vars, HashesThatAre

(* Every method call is a step of the ledger, or leaves it alone. *)
LEMMA NextRefinesLedger == IInv /\ [Next]_vars => [Ledger!Next]_Ledger!vars
<1> SUFFICES ASSUME IInv, [Next]_vars PROVE [Ledger!Next]_Ledger!vars
  OBVIOUS
<1>1. ASSUME NEW i \in Id, NEW n \in Tenant, NEW role \in Role,
             NEW h \in Hash, NEW created \in Time, NEW exp \in Time,
             Create(i, n, role, h, created, exp)
      PROVE  Ledger!Next
  BY <1>1, CreateIssues DEF Ledger!Next
<1>2. ASSUME NEW i \in Id, NEW at \in Time, MarkAccepted(i, at)
      PROVE  Ledger!Next
  BY <1>2, MarkAcceptedRedeems DEF Ledger!Next
<1>3. ASSUME UNCHANGED store PROVE UNCHANGED Ledger!vars
  BY <1>3, QuietKeepsLedger
<1> QED
  BY <1>1, <1>2, <1>3 DEF Next, CreateRaises, MarkAcceptedRaises, vars

(* Told by its hash, an invitation is issued once and accepted at most     *)
(* once, whatever calls are made: the repository implements the ledger.    *)
THEOREM RepositoryImplementsLedger == Spec => ImplementsLedger
  BY InitRefinesLedger, NextRefinesLedger, Invariance, PTL
     DEF Spec, ImplementsLedger, Ledger!Spec

-----------------------------------------------------------------------------
(* The user is a member of the tenant of the invitation, in its role.      *)
JoinedOn(u, i) ==
  LET key == <<u, invitations_by_id[i].tenant_id>>
      m == membership_id_by_user_tenant[key]
  IN /\ key \in DOMAIN membership_id_by_user_tenant
     /\ m \in DOMAIN memberships_by_id
     /\ memberships_by_id[m].role = invitations_by_id[i].role

SameTenant(i, j) ==
  invitations_by_id[i].tenant_id = invitations_by_id[j].tenant_id

TasksTypeOK ==
  /\ now \in Time
  /\ pc \in [Task -> {"idle", "accept", "join"}]
  /\ picked \in [Task -> Id \cup {None}]
  /\ joining \in [Task -> User \cup {None}]
  /\ started \in [Task -> Time \cup {None}]

(* A request under way has looked an invitation up, which stays stored.    *)
TasksKnow ==
  \A t \in Task : pc[t] # "idle" =>
    /\ picked[t] \in DOMAIN invitations_by_id
    /\ started[t] \in Time

(* So no invitation is accepted for two users one after the other.         *)
AdmittedMeansAccepted ==
  \A i \in DOMAIN admitted :
    /\ i \in DOMAIN invitations_by_id
    /\ invitations_by_id[i].status = "accepted"

(* Accepting first, a request that is about to join was admitted.          *)
JoinersWereAdmitted ==
  acceptFirst => \A t \in Task : pc[t] = "join" =>
    /\ picked[t] \in DOMAIN admitted
    /\ admitted[picked[t]] = joining[t]

(* Joining first, a request that is about to accept has joined, and is the *)
(* only one that did, of those under way and of those that have accepted.  *)
AcceptersJoined ==
  ~acceptFirst => \A t \in Task : pc[t] = "accept" =>
    /\ JoinedOn(joining[t], picked[t])
    /\ \A j \in DOMAIN admitted :
         admitted[j] = joining[t] => ~SameTenant(j, picked[t])
    /\ \A v \in Task \ {t} :
         pc[v] = "accept" /\ joining[v] = joining[t] =>
           ~SameTenant(picked[v], picked[t])

AdmittedJoined ==
  ~acceptFirst => \A i \in DOMAIN admitted :
    /\ JoinedOn(admitted[i], i)
    /\ \A j \in DOMAIN admitted \ {i} :
         admitted[j] = admitted[i] => ~SameTenant(j, i)

AInv ==
  /\ IInv
  /\ TasksTypeOK
  /\ TasksKnow
  /\ AdmittedMeansAccepted
  /\ JoinersWereAdmitted
  /\ EveryMemberWasAdmitted
  /\ AcceptersJoined
  /\ AdmittedJoined

-----------------------------------------------------------------------------
(* What the calls leave as it is *)

(* Invitations stay, for the same tenant and role, and accepted if they    *)
(* were.                                                                   *)
RowsStay ==
  \A i \in DOMAIN invitations_by_id :
    /\ i \in DOMAIN invitations_by_id'
    /\ invitations_by_id'[i].tenant_id = invitations_by_id[i].tenant_id
    /\ invitations_by_id'[i].role = invitations_by_id[i].role
    /\ invitations_by_id[i].status = "accepted" =>
         invitations_by_id'[i].status = "accepted"

(* Memberships stay as they are, and so do the entries of the pair index.  *)
MembersStay ==
  /\ \A m \in DOMAIN memberships_by_id :
       /\ m \in DOMAIN memberships_by_id'
       /\ memberships_by_id'[m] = memberships_by_id[m]
  /\ \A key \in DOMAIN membership_id_by_user_tenant :
       /\ key \in DOMAIN membership_id_by_user_tenant'
       /\ membership_id_by_user_tenant'[key] = membership_id_by_user_tenant[key]

(* Whoever was accepted stays so, for the same user.                       *)
AdmittedStay ==
  \A i \in DOMAIN admitted :
    /\ i \in DOMAIN admitted'
    /\ admitted'[i] = admitted[i]

(* The request does not move.                                              *)
Rests(v) == pc'[v] = pc[v] /\ picked'[v] = picked[v] /\ joining'[v] = joining[v]

(* The request is over, or before the first of its two calls.              *)
NothingDone(v) ==
  /\ pc'[v] = "join" => ~acceptFirst
  /\ pc'[v] = "accept" => acceptFirst

Others(t) ==
  \A v \in Task \ {t} : Rests(v) /\ started'[v] = started[v]

(* No call of an acceptance takes a member's role or tenant away.          *)
LEMMA JoinedOnStays ==
  ASSUME RowsStay, MembersStay,
         NEW u, NEW i \in DOMAIN invitations_by_id, JoinedOn(u, i)
  PROVE  JoinedOn(u, i)'
<1>1. PICK key : key = <<u, invitations_by_id[i].tenant_id>>
  OBVIOUS
<1>2. /\ key \in DOMAIN membership_id_by_user_tenant
      /\ membership_id_by_user_tenant[key] \in DOMAIN memberships_by_id
      /\ memberships_by_id[membership_id_by_user_tenant[key]].role =
           invitations_by_id[i].role
  BY <1>1 DEF JoinedOn
<1>3. PICK m : m = membership_id_by_user_tenant[key]
  OBVIOUS
<1>4. /\ key \in DOMAIN membership_id_by_user_tenant'
      /\ membership_id_by_user_tenant'[key] = m
      /\ m \in DOMAIN memberships_by_id'
      /\ memberships_by_id'[m].role = memberships_by_id[m].role
  BY <1>2, <1>3 DEF MembersStay
<1>5. /\ invitations_by_id'[i].tenant_id = invitations_by_id[i].tenant_id
      /\ invitations_by_id'[i].role = invitations_by_id[i].role
  BY DEF RowsStay
<1> QED
  BY <1>1, <1>2, <1>3, <1>4, <1>5 DEF JoinedOn

(* Two invitations stay with the same tenant, or with two.                 *)
LEMMA SameTenantStays ==
  ASSUME RowsStay,
         NEW i \in DOMAIN invitations_by_id, NEW j \in DOMAIN invitations_by_id
  PROVE  SameTenant(i, j)' <=> SameTenant(i, j)
  BY DEF RowsStay, SameTenant

(* As long as nobody joins, every member was admitted.                     *)
LEMMA MembersStillAdmitted ==
  ASSUME EveryMemberWasAdmitted, AdmittedMeansAccepted, RowsStay, AdmittedStay,
         UNCHANGED <<acceptFirst, memberships_by_id>>
  PROVE  EveryMemberWasAdmitted'
<1> SUFFICES ASSUME acceptFirst, NEW m \in DOMAIN memberships_by_id
             PROVE  \E i \in DOMAIN admitted' :
               /\ admitted'[i] = memberships_by_id[m].user_id
               /\ invitations_by_id'[i].tenant_id =
                    memberships_by_id[m].tenant_id
               /\ invitations_by_id'[i].role = memberships_by_id[m].role
  BY DEF EveryMemberWasAdmitted
<1>1. PICK i \in DOMAIN admitted :
        /\ admitted[i] = memberships_by_id[m].user_id
        /\ invitations_by_id[i].tenant_id = memberships_by_id[m].tenant_id
        /\ invitations_by_id[i].role = memberships_by_id[m].role
  BY DEF EveryMemberWasAdmitted
<1>2. i \in DOMAIN invitations_by_id
  BY DEF AdmittedMeansAccepted
<1> QED
  BY <1>1, <1>2 DEF RowsStay, AdmittedStay

(* The requests that rest know what they knew.                             *)
LEMMA TasksKnowStill ==
  ASSUME TasksKnow, RowsStay, NEW t \in Task, Others(t),
         pc'[t] # "idle" => /\ picked'[t] \in DOMAIN invitations_by_id'
                            /\ started'[t] \in Time
  PROVE  TasksKnow'
  BY DEF TasksKnow, RowsStay, Others, Rests

(* A step that accepts nobody, and after which every request rests or is   *)
(* before its first call, keeps what AInv says of who was accepted.        *)
LEMMA CalmStepKeepsAdmissions ==
  ASSUME TasksKnow, AdmittedMeansAccepted, JoinersWereAdmitted,
         AcceptersJoined, AdmittedJoined,
         RowsStay, MembersStay, UNCHANGED <<acceptFirst, admitted>>,
         \A v \in Task : Rests(v) \/ NothingDone(v)
  PROVE  /\ AdmittedMeansAccepted'
         /\ JoinersWereAdmitted'
         /\ AcceptersJoined'
         /\ AdmittedJoined'
<1>1. AdmittedMeansAccepted'
  BY DEF AdmittedMeansAccepted, RowsStay
<1>2. JoinersWereAdmitted'
  BY DEF JoinersWereAdmitted, Rests, NothingDone
<1>3. AcceptersJoined'
  <2> SUFFICES ASSUME ~acceptFirst, NEW t \in Task, pc'[t] = "accept"
               PROVE  /\ JoinedOn(joining[t], picked[t])'
                      /\ \A j \in DOMAIN admitted :
                           admitted[j] = joining'[t] =>
                             ~SameTenant(j, picked[t])'
                      /\ \A v \in Task \ {t} :
                           pc'[v] = "accept" /\ joining'[v] = joining'[t] =>
                             ~SameTenant(picked[v], picked[t])'
    BY DEF AcceptersJoined, JoinedOn, SameTenant
  <2>1. PICK u, i : u = joining[t] /\ i = picked[t]
    OBVIOUS
  <2>2. pc[t] = "accept" /\ picked'[t] = i /\ joining'[t] = u
    BY <2>1 DEF Rests, NothingDone
  <2>3. i \in DOMAIN invitations_by_id /\ JoinedOn(u, i)
    BY <2>1, <2>2 DEF TasksKnow, AcceptersJoined
  <2>4. JoinedOn(u, i)'
    BY <2>3, JoinedOnStays
  <2>5. ASSUME NEW j \in DOMAIN admitted, admitted[j] = u
        PROVE  ~SameTenant(j, i)'
    <3>1. j \in DOMAIN invitations_by_id /\ ~SameTenant(j, i)
      BY <2>1, <2>2, <2>5 DEF AdmittedMeansAccepted, AcceptersJoined
    <3> QED
      BY <2>3, <3>1, SameTenantStays
  <2>6. ASSUME NEW v \in Task \ {t}, pc'[v] = "accept", joining'[v] = u
        PROVE  ~SameTenant(picked[v], i)'
    <3>1. PICK j : j = picked[v]
      OBVIOUS
    <3>2. pc[v] = "accept" /\ picked'[v] = j /\ joining[v] = u
      BY <2>6, <3>1 DEF Rests, NothingDone
    <3>3. j \in DOMAIN invitations_by_id /\ ~SameTenant(j, i)
      BY <2>1, <2>2, <3>1, <3>2 DEF TasksKnow, AcceptersJoined
    <3>4. ~SameTenant(j, i)'
      BY <2>3, <3>3, SameTenantStays
    <3> QED
      BY <3>2, <3>4 DEF SameTenant
  <2> QED
    BY <2>2, <2>4, <2>5, <2>6 DEF JoinedOn, SameTenant
<1>4. AdmittedJoined'
  <2> SUFFICES ASSUME ~acceptFirst, NEW i \in DOMAIN admitted
               PROVE  /\ JoinedOn(admitted[i], i)'
                      /\ \A j \in DOMAIN admitted \ {i} :
                           admitted[j] = admitted[i] => ~SameTenant(j, i)'
    BY DEF AdmittedJoined, JoinedOn, SameTenant
  <2>1. PICK u : u = admitted[i]
    OBVIOUS
  <2>2. i \in DOMAIN invitations_by_id /\ JoinedOn(u, i)
    BY <2>1 DEF AdmittedMeansAccepted, AdmittedJoined
  <2>3. JoinedOn(u, i)'
    BY <2>2, JoinedOnStays
  <2>4. ASSUME NEW j \in DOMAIN admitted \ {i}, admitted[j] = u
        PROVE  ~SameTenant(j, i)'
    <3>1. j \in DOMAIN invitations_by_id /\ ~SameTenant(j, i)
      BY <2>1, <2>4 DEF AdmittedMeansAccepted, AdmittedJoined
    <3> QED
      BY <2>2, <3>1, SameTenantStays
  <2> QED
    BY <2>1, <2>3, <2>4 DEF JoinedOn
<1> QED
  BY <1>1, <1>2, <1>3, <1>4

-----------------------------------------------------------------------------
(* The requests *)

(* What a move of one request does to its locals.                          *)
LEMMA GotoMoves ==
  ASSUME TasksTypeOK, now' \in Time, NEW t \in Task,
         NEW label \in {"idle", "accept", "join"},
         NEW i \in Id \cup {None}, NEW u \in User \cup {None},
         NEW at \in Time \cup {None},
         Goto(t, label, i, u, at)
  PROVE  /\ Others(t)
         /\ pc'[t] = label /\ picked'[t] = i
         /\ joining'[t] = u /\ started'[t] = at
         /\ TasksTypeOK'
<1>1. /\ pc \in [Task -> {"idle", "accept", "join"}]
      /\ picked \in [Task -> Id \cup {None}]
      /\ joining \in [Task -> User \cup {None}]
      /\ started \in [Task -> Time \cup {None}]
  BY DEF TasksTypeOK
<1>2. /\ pc' = [pc EXCEPT ![t] = label]
      /\ picked' = [picked EXCEPT ![t] = i]
      /\ joining' = [joining EXCEPT ![t] = u]
      /\ started' = [started EXCEPT ![t] = at]
  BY DEF Goto
<1>3. /\ Others(t)
      /\ pc'[t] = label /\ picked'[t] = i
      /\ joining'[t] = u /\ started'[t] = at
  BY <1>1, <1>2 DEF Others, Rests
<1>4. TasksTypeOK'
  BY <1>1, <1>2 DEF TasksTypeOK
<1> QED
  BY <1>3, <1>4

(* A request that is over knows nothing.                                   *)
LEMMA ForgetMoves ==
  ASSUME TasksTypeOK, now' \in Time, NEW t \in Task, Forget(t)
  PROVE  Others(t) /\ pc'[t] = "idle" /\ TasksTypeOK'
<1>1. PICK label, i, u, at :
        /\ label = "idle" /\ i = None /\ u = None /\ at = None
        /\ Goto(t, label, i, u, at)
  BY DEF Forget
<1> QED
  BY <1>1, GotoMoves

(* A request that goes on knows what it knew.                              *)
LEMMA GoOnMoves ==
  ASSUME TasksTypeOK, now' \in Time, NEW t \in Task,
         NEW label \in {"accept", "join"}, GoOn(t, label)
  PROVE  /\ Others(t)
         /\ pc'[t] = label /\ picked'[t] = picked[t]
         /\ joining'[t] = joining[t] /\ started'[t] = started[t]
         /\ TasksTypeOK'
<1>1. /\ picked[t] \in Id \cup {None}
      /\ joining[t] \in User \cup {None}
      /\ started[t] \in Time \cup {None}
  BY DEF TasksTypeOK
<1>2. PICK i, u, at : i = picked[t] /\ u = joining[t] /\ at = started[t]
  OBVIOUS
<1>3. Goto(t, label, i, u, at)
  BY <1>2 DEF GoOn
<1> QED
  BY <1>1, <1>2, <1>3, GotoMoves

(* A step that writes no invitation and no membership and accepts nobody,  *)
(* and after which a request that moved is before its first call, keeps    *)
(* the invariant.                                                          *)
LEMMA CalmStepKeepsAInv ==
  ASSUME AInv, UNCHANGED <<store, memberVars, acceptFirst, admitted>>,
         reply' \in Reply, TasksTypeOK',
         NEW t \in Task, Others(t), NothingDone(t),
         pc'[t] # "idle" => /\ picked'[t] \in DOMAIN invitations_by_id
                            /\ started'[t] \in Time
  PROVE  AInv'
<1>1. RowsStay /\ MembersStay /\ AdmittedStay
  BY DEF RowsStay, MembersStay, AdmittedStay, store, memberVars
<1>2. IInv'
  BY StorePreservesIInv DEF AInv
<1>3. TasksKnow'
  BY <1>1, TasksKnowStill DEF AInv, store
<1>4. EveryMemberWasAdmitted'
  BY <1>1, MembersStillAdmitted DEF AInv, memberVars
<1>5. \A v \in Task : Rests(v) \/ NothingDone(v)
  BY DEF Others
<1>6. /\ AdmittedMeansAccepted' /\ JoinersWereAdmitted'
      /\ AcceptersJoined' /\ AdmittedJoined'
  BY <1>1, <1>5, CalmStepKeepsAdmissions DEF AInv
<1> QED
  BY <1>2, <1>3, <1>4, <1>6 DEF AInv

(* The clock and the creation of an invitation touch no request and no     *)
(* membership.                                                             *)
LEMMA WorldKeepsAInv ==
  ASSUME AInv, RowsStay, IInv', now' \in Time,
         UNCHANGED <<memberVars, acceptFirst, locals, history>>
  PROVE  AInv'
<1>1. MembersStay /\ AdmittedStay
  BY DEF MembersStay, AdmittedStay, memberVars, history
<1>2. TasksTypeOK' /\ TasksKnow'
  BY DEF AInv, TasksTypeOK, TasksKnow, RowsStay, locals
<1>3. EveryMemberWasAdmitted'
  BY <1>1, MembersStillAdmitted DEF AInv, memberVars
<1>4. \A v \in Task : Rests(v)
  BY DEF Rests, locals
<1>5. /\ AdmittedMeansAccepted' /\ JoinersWereAdmitted'
      /\ AcceptersJoined' /\ AdmittedJoined'
  BY <1>1, <1>4, CalmStepKeepsAdmissions DEF AInv, history
<1> QED
  BY <1>2, <1>3, <1>5 DEF AInv

(* The clock.                                                              *)
LEMMA TickKeepsAInv ==
  ASSUME AInv, Tick
  PROVE  AInv'
<1>1. /\ UNCHANGED <<store, memberVars, acceptFirst, locals, history>>
      /\ now' \in Time /\ reply' = reply
  BY DEF Tick, vars
<1>2. RowsStay
  BY <1>1 DEF RowsStay, store
<1>3. IInv'
  BY <1>1, StorePreservesIInv DEF AInv, IInv, TypeOK
<1> QED
  BY <1>1, <1>2, <1>3, WorldKeepsAInv

(* A new invitation.                                                       *)
LEMMA InviteKeepsAInv ==
  ASSUME AInv, NEW i \in Id, NEW n \in Tenant, NEW role \in Role,
         NEW h \in Hash, NEW exp \in Time, Invite(i, n, role, h, exp)
  PROVE  AInv'
<1>1. PICK created \in Time : Create(i, n, role, h, created, exp)
  BY DEF Invite, AInv, TasksTypeOK
<1>2. IInv'
  BY <1>1, CreatePreservesIInv DEF AInv
<1>3. PICK r : AddsRow(i, h, r)
  BY <1>1, CreateAddsRow
<1>4. RowsStay
  BY <1>3 DEF RowsStay, AddsRow
<1>5. /\ UNCHANGED <<memberVars, acceptFirst, locals, history>>
      /\ now' \in Time
  BY DEF Invite, Fixed, AInv, TasksTypeOK
<1> QED
  BY <1>2, <1>4, <1>5, WorldKeepsAInv

(* The lookup of a token: what it finds is stored.                         *)
LEMMA AcceptLookupKeepsAInv ==
  ASSUME AInv, NEW t \in Task, NEW u \in User, NEW h,
         AcceptLookup(t, u, h)
  PROVE  AInv'
<1>1. PICK label, i, at :
        /\ label = IF acceptFirst THEN "accept" ELSE "join"
        /\ i = invitation_id_by_token_hash[h] /\ at = now
        /\ Goto(t, label, i, u, at)
  BY DEF AcceptLookup
<1>2. i \in DOMAIN invitations_by_id /\ i \in Id
  BY <1>1 DEF AcceptLookup, HashesThatAre, AInv, IInv, TypeOK, TokenIndexAgrees
<1>3. /\ UNCHANGED <<store, memberVars, acceptFirst, admitted>>
      /\ now' = now /\ reply' = reply
  BY DEF AcceptLookup, vars, history, Fixed
<1>4. now \in Time /\ reply \in Reply
  BY DEF AInv, TasksTypeOK, IInv, TypeOK
<1>5. /\ Others(t) /\ TasksTypeOK'
      /\ pc'[t] = label /\ picked'[t] = i /\ started'[t] = at
  BY <1>1, <1>2, <1>3, <1>4, GotoMoves DEF AInv
<1>6. NothingDone(t)
  BY <1>1, <1>5 DEF NothingDone
<1> QED
  BY <1>1, <1>2, <1>3, <1>4, <1>5, <1>6, CalmStepKeepsAInv

(* A request that ends without a change.                                   *)
LEMMA EndKeepsAInv ==
  ASSUME AInv, NEW t \in Task,
         Forget(t), reply' \in Reply,
         UNCHANGED <<store, memberVars, admitted, acceptFirst, now>>
  PROVE  AInv'
<1>1. Others(t) /\ pc'[t] = "idle" /\ TasksTypeOK'
  BY ForgetMoves DEF AInv, TasksTypeOK
<1>2. NothingDone(t)
  BY <1>1 DEF NothingDone
<1> QED
  BY <1>1, <1>2, CalmStepKeepsAInv

(* Either of the two calls refused, or the request cancelled.              *)
LEMMA RefusedKeepsAInv ==
  ASSUME AInv, NEW t \in Task,
         AcceptRefused(t) \/ JoinRefused(t) \/ Abandon(t)
  PROVE  AInv'
<1>1. reply' \in Reply
  <2>1. reply \in Reply
    BY DEF AInv, IInv, TypeOK
  <2> QED
    BY <2>1
       DEF AcceptRefused, MarkAcceptedRaises, JoinRefused, M!CreateRaises,
           Abandon, Raised, M!Raised, Error, Reply, vars
<1>2. /\ Forget(t)
      /\ UNCHANGED <<store, memberVars, admitted, acceptFirst, now>>
  BY DEF AcceptRefused, MarkAcceptedRaises, JoinRefused, M!CreateRaises,
         Abandon, M!store, M!indexes, memberVars, vars, history, Fixed
<1> QED
  BY <1>1, <1>2, EndKeepsAInv

(* What mark_accepted() does to the invitation of a request: it was        *)
(* pending, so nobody was admitted on it, and no other one changes.        *)
LEMMA MarkAcceptedForRequest ==
  ASSUME AInv, NEW t \in Task, pc[t] = "accept",
         MarkAccepted(picked[t], started[t])
  PROVE  /\ IInv' /\ RowsStay
         /\ picked[t] \in DOMAIN invitations_by_id
         /\ picked[t] \notin DOMAIN admitted
         /\ invitations_by_id'[picked[t]].status = "accepted"
<1>1. PICK i, at : i = picked[t] /\ at = started[t]
  OBVIOUS
<1>2. i \in DOMAIN invitations_by_id /\ i \in Id /\ at \in Time
  BY <1>1 DEF AInv, TasksKnow, IInv, TypeOK
<1>3. MarkAccepted(i, at)
  BY <1>1
<1>4. IInv
  BY DEF AInv
<1>5. IInv'
  BY <1>2, <1>3, <1>4, MarkAcceptedPreservesIInv
<1>6. /\ DOMAIN invitations_by_id' = DOMAIN invitations_by_id
      /\ invitations_by_id[i].status = "pending"
      /\ invitations_by_id'[i].status = "accepted"
      /\ \A x \in DOMAIN invitations_by_id :
           x # i => invitations_by_id'[x] = invitations_by_id[x]
  BY <1>2, <1>3, <1>4, MarkAcceptedChangesRow
<1>7. invitations_by_id[i] \in Invitation
  BY <1>2, <1>4 DEF IInv, TypeOK
<1>8. invitations_by_id'[i] = Accepted(invitations_by_id[i], at)
  BY <1>2, <1>3 DEF MarkAccepted
<1>9. /\ invitations_by_id'[i].tenant_id = invitations_by_id[i].tenant_id
      /\ invitations_by_id'[i].role = invitations_by_id[i].role
  BY <1>7, <1>8 DEF Accepted, Invitation
<1>10. RowsStay
  BY <1>6, <1>9 DEF RowsStay
<1>11. i \notin DOMAIN admitted
  BY <1>6 DEF AInv, AdmittedMeansAccepted
<1> QED
  BY <1>1, <1>2, <1>5, <1>6, <1>10, <1>11

(* What an acceptance keeps of the rest: it admits one user, and its       *)
(* request goes on to join, or is over if it joined before.                *)
LEMMA AcceptMoves ==
  ASSUME AInv, NEW t \in Task, Accept(t)
  PROVE  /\ pc[t] = "accept" /\ MarkAccepted(picked[t], started[t])
         /\ admitted' = Put(admitted, picked[t], joining[t])
         /\ UNCHANGED <<memberVars, acceptFirst, now>>
         /\ Others(t) /\ TasksTypeOK'
         /\ acceptFirst => /\ pc'[t] = "join"
                           /\ picked'[t] = picked[t]
                           /\ joining'[t] = joining[t]
                           /\ started'[t] = started[t]
         /\ ~acceptFirst => pc'[t] = "idle"
<1>1. /\ pc[t] = "accept" /\ MarkAccepted(picked[t], started[t])
      /\ admitted' = Put(admitted, picked[t], joining[t])
      /\ UNCHANGED <<memberVars, acceptFirst, now>>
      /\ acceptFirst => GoOn(t, "join")
      /\ ~acceptFirst => Forget(t)
  BY DEF Accept, Fixed
<1>2. TasksTypeOK /\ now' \in Time
  BY <1>1 DEF AInv, TasksTypeOK
<1>3. CASE acceptFirst
  BY <1>1, <1>2, <1>3, GoOnMoves
<1>4. CASE ~acceptFirst
  BY <1>1, <1>2, <1>4, ForgetMoves
<1> QED
  BY <1>1, <1>3, <1>4

(* mark_accepted(), by a request.                                          *)
LEMMA AcceptKeepsAInv ==
  ASSUME AInv, NEW t \in Task, Accept(t)
  PROVE  AInv'
<1>1. PICK i, u : i = picked[t] /\ u = joining[t]
  OBVIOUS
<1>2. /\ pc[t] = "accept" /\ MarkAccepted(picked[t], started[t])
      /\ admitted' = Put(admitted, i, u)
      /\ UNCHANGED <<memberVars, acceptFirst, now>>
      /\ Others(t) /\ TasksTypeOK'
      /\ acceptFirst => /\ pc'[t] = "join"
                        /\ picked'[t] = i
                        /\ joining'[t] = u
                        /\ started'[t] = started[t]
      /\ ~acceptFirst => pc'[t] = "idle"
  BY <1>1, AcceptMoves
<1>3. /\ IInv' /\ RowsStay
      /\ i \in DOMAIN invitations_by_id
      /\ i \notin DOMAIN admitted
      /\ invitations_by_id'[i].status = "accepted"
  BY <1>1, <1>2, MarkAcceptedForRequest
<1>4. /\ DOMAIN admitted' = DOMAIN admitted \cup {i}
      /\ admitted'[i] = u
      /\ \A j \in DOMAIN admitted : admitted'[j] = admitted[j]
  BY <1>2, <1>3 DEF Put
<1>5. MembersStay /\ AdmittedStay
  BY <1>2, <1>4 DEF MembersStay, AdmittedStay, memberVars
<1>6. TasksKnow'
  <2>1. started[t] \in Time
    BY <1>2 DEF AInv, TasksKnow
  <2>2. i \in DOMAIN invitations_by_id'
    BY <1>3 DEF RowsStay
  <2> QED
    BY <1>2, <1>3, <2>1, <2>2, TasksKnowStill DEF AInv
<1>7. AdmittedMeansAccepted'
  BY <1>3, <1>4 DEF AInv, AdmittedMeansAccepted, RowsStay
<1>8. JoinersWereAdmitted'
  <2> SUFFICES ASSUME acceptFirst, NEW v \in Task, pc'[v] = "join"
               PROVE  /\ picked'[v] \in DOMAIN admitted'
                      /\ admitted'[picked'[v]] = joining'[v]
    BY <1>2 DEF JoinersWereAdmitted
  <2>1. CASE v = t
    BY <1>2, <1>4, <2>1
  <2>2. CASE v # t
    <3>1. Rests(v)
      BY <1>2, <2>2 DEF Others
    <3>2. picked[v] \in DOMAIN admitted /\ admitted[picked[v]] = joining[v]
      BY <3>1 DEF Rests, AInv, JoinersWereAdmitted
    <3> QED
      BY <1>4, <3>1, <3>2 DEF Rests
  <2> QED
    BY <2>1, <2>2
<1>9. EveryMemberWasAdmitted'
  BY <1>2, <1>3, <1>5, MembersStillAdmitted DEF AInv, memberVars
<1>10. AcceptersJoined'
  <2> SUFFICES ASSUME ~acceptFirst, NEW w \in Task, pc'[w] = "accept"
               PROVE  /\ JoinedOn(joining[w], picked[w])'
                      /\ \A j \in DOMAIN admitted' :
                           admitted'[j] = joining'[w] =>
                             ~SameTenant(j, picked[w])'
                      /\ \A v \in Task \ {w} :
                           pc'[v] = "accept" /\ joining'[v] = joining'[w] =>
                             ~SameTenant(picked[v], picked[w])'
    BY <1>2 DEF AcceptersJoined, JoinedOn, SameTenant
  <2>1. PICK x, k : x = joining[w] /\ k = picked[w]
    OBVIOUS
  <2>2. w # t /\ pc[w] = "accept" /\ picked'[w] = k /\ joining'[w] = x
    BY <1>2, <2>1 DEF Others, Rests
  <2>3. k \in DOMAIN invitations_by_id /\ JoinedOn(x, k)
    BY <2>1, <2>2 DEF AInv, TasksKnow, AcceptersJoined
  <2>4. JoinedOn(x, k)'
    BY <1>3, <1>5, <2>3, JoinedOnStays
  <2>5. ASSUME NEW j \in DOMAIN admitted', admitted'[j] = x
        PROVE  ~SameTenant(j, k)'
    <3>1. j \in DOMAIN invitations_by_id /\ ~SameTenant(j, k)
      <4>1. CASE j = i
        BY <1>1, <1>2, <1>3, <1>4, <2>1, <2>2, <2>5, <4>1
           DEF AInv, AcceptersJoined
      <4>2. CASE j \in DOMAIN admitted
        BY <1>4, <2>1, <2>2, <2>5, <4>2
           DEF AInv, AdmittedMeansAccepted, AcceptersJoined
      <4> QED
        BY <1>4, <4>1, <4>2
    <3> QED
      BY <1>3, <2>3, <3>1, SameTenantStays
  <2>6. ASSUME NEW v \in Task \ {w}, pc'[v] = "accept", joining'[v] = x
        PROVE  ~SameTenant(picked[v], k)'
    <3>1. PICK j : j = picked[v]
      OBVIOUS
    <3>2. pc[v] = "accept" /\ picked'[v] = j /\ joining[v] = x
      BY <1>2, <2>6, <3>1 DEF Others, Rests
    <3>3. j \in DOMAIN invitations_by_id /\ ~SameTenant(j, k)
      BY <2>1, <2>2, <3>1, <3>2 DEF AInv, TasksKnow, AcceptersJoined
    <3>4. ~SameTenant(j, k)'
      BY <1>3, <2>3, <3>3, SameTenantStays
    <3> QED
      BY <3>2, <3>4 DEF SameTenant
  <2> QED
    BY <2>2, <2>4, <2>5, <2>6 DEF JoinedOn, SameTenant
<1>11. AdmittedJoined'
  <2> SUFFICES ASSUME ~acceptFirst, NEW k \in DOMAIN admitted'
               PROVE  /\ JoinedOn(admitted[k], k)'
                      /\ \A j \in DOMAIN admitted' \ {k} :
                           admitted'[j] = admitted'[k] => ~SameTenant(j, k)'
    BY <1>2 DEF AdmittedJoined, JoinedOn, SameTenant
  <2>1. PICK x : x = admitted'[k]
    OBVIOUS
  <2>2. k \in DOMAIN invitations_by_id /\ JoinedOn(x, k)
    <3>1. CASE k = i
      BY <1>1, <1>2, <1>3, <1>4, <2>1, <3>1 DEF AInv, AcceptersJoined
    <3>2. CASE k \in DOMAIN admitted
      BY <1>4, <2>1, <3>2 DEF AInv, AdmittedMeansAccepted, AdmittedJoined
    <3> QED
      BY <1>4, <3>1, <3>2
  <2>3. JoinedOn(x, k)'
    BY <1>3, <1>5, <2>2, JoinedOnStays
  <2>4. ASSUME NEW j \in DOMAIN admitted' \ {k}, admitted'[j] = x
        PROVE  ~SameTenant(j, k)'
    <3>1. j \in DOMAIN invitations_by_id
      BY <1>3, <1>4 DEF AInv, AdmittedMeansAccepted
    <3>2. ~SameTenant(j, k)
      <4>1. ASSUME NEW l \in DOMAIN admitted, admitted[l] = u
            PROVE  ~SameTenant(l, i) /\ ~SameTenant(i, l)
        BY <1>1, <1>2, <4>1 DEF AInv, AcceptersJoined, SameTenant
      <4>2. CASE k = i
        BY <1>4, <2>1, <2>4, <4>1, <4>2
      <4>3. CASE j = i
        BY <1>4, <2>1, <2>4, <4>1, <4>3
      <4>4. CASE k # i /\ j # i
        BY <1>4, <2>1, <2>4, <4>4 DEF AInv, AdmittedJoined
      <4> QED
        BY <4>2, <4>3, <4>4
    <3> QED
      BY <1>3, <2>2, <3>1, <3>2, SameTenantStays
  <2> QED
    BY <2>1, <2>3, <2>4 DEF JoinedOn
<1> QED
  BY <1>2, <1>3, <1>6, <1>7, <1>8, <1>9, <1>10, <1>11 DEF AInv

(* What the create() of a membership does: it adds one row under a new id, *)
(* for a user and a tenant that the pair index did not have.               *)
AddsMember(m, key, i) ==
  /\ key \notin DOMAIN membership_id_by_user_tenant
  /\ m \notin DOMAIN memberships_by_id
  /\ DOMAIN memberships_by_id' = DOMAIN memberships_by_id \cup {m}
  /\ memberships_by_id'[m].user_id = key[1]
  /\ memberships_by_id'[m].tenant_id = invitations_by_id[i].tenant_id
  /\ memberships_by_id'[m].role = invitations_by_id[i].role
  /\ \A x \in DOMAIN memberships_by_id :
       memberships_by_id'[x] = memberships_by_id[x]
  /\ DOMAIN membership_id_by_user_tenant' =
       DOMAIN membership_id_by_user_tenant \cup {key}
  /\ membership_id_by_user_tenant'[key] = m
  /\ \A x \in DOMAIN membership_id_by_user_tenant :
       membership_id_by_user_tenant'[x] = membership_id_by_user_tenant[x]

(* create() adds the member that the invitation asks for.                  *)
LEMMA JoinAddsMember ==
  ASSUME NEW t \in Task, NEW m \in MembershipId, Join(t, m)
  PROVE  /\ AddsMember(m, <<joining[t], Invited(t).tenant_id>>, picked[t])
         /\ reply' = Returned(1)
<1>1. PICK key, row : /\ key = <<joining[t], Invited(t).tenant_id>>
                      /\ row = M!NewMembership(joining[t], Invited(t).tenant_id,
                                               Invited(t).role)
  OBVIOUS
<1>2. /\ key \notin DOMAIN membership_id_by_user_tenant
      /\ m \notin DOMAIN memberships_by_id
      /\ memberships_by_id' = M!Put(memberships_by_id, m, row)
      /\ membership_id_by_user_tenant' =
           M!Put(membership_id_by_user_tenant, key, m)
      /\ reply' = Returned(1)
  BY <1>1 DEF Join, M!Create, M!Returned, Returned
<1>3. /\ row.user_id = key[1]
      /\ row.tenant_id = invitations_by_id[picked[t]].tenant_id
      /\ row.role = invitations_by_id[picked[t]].role
  BY <1>1 DEF M!NewMembership, Invited
<1>4. AddsMember(m, key, picked[t])
  BY <1>2, <1>3 DEF M!Put, AddsMember
<1> QED
  BY <1>1, <1>2, <1>4

(* What joining keeps of the rest: its request goes on to accept, or is    *)
(* over if it accepted before.                                             *)
LEMMA JoinMoves ==
  ASSUME AInv, NEW t \in Task, NEW m \in MembershipId, Join(t, m)
  PROVE  /\ pc[t] = "join"
         /\ UNCHANGED <<store, admitted, acceptFirst, now>>
         /\ Others(t) /\ TasksTypeOK'
         /\ ~acceptFirst => /\ pc'[t] = "accept"
                            /\ picked'[t] = picked[t]
                            /\ joining'[t] = joining[t]
                            /\ started'[t] = started[t]
         /\ acceptFirst => pc'[t] = "idle"
<1>1. /\ pc[t] = "join"
      /\ UNCHANGED <<store, admitted, acceptFirst, now>>
      /\ ~acceptFirst => GoOn(t, "accept")
      /\ acceptFirst => Forget(t)
  BY DEF Join, Fixed, history
<1>2. TasksTypeOK /\ now' \in Time
  BY <1>1 DEF AInv, TasksTypeOK
<1>3. CASE ~acceptFirst
  BY <1>1, <1>2, <1>3, GoOnMoves
<1>4. CASE acceptFirst
  BY <1>1, <1>2, <1>4, ForgetMoves
<1> QED
  BY <1>1, <1>3, <1>4

(* Accepting first, the user who joins was admitted on that invitation.    *)
LEMMA JoinedMembersWereAdmitted ==
  ASSUME AInv, NEW t \in Task, NEW m \in MembershipId, Join(t, m)
  PROVE  EveryMemberWasAdmitted'
<1>1. PICK i, u, key : /\ i = picked[t] /\ u = joining[t]
                       /\ key = <<u, invitations_by_id[i].tenant_id>>
  OBVIOUS
<1>2. AddsMember(m, key, i)
  BY <1>1, JoinAddsMember DEF Invited
<1>3. pc[t] = "join" /\ UNCHANGED <<store, admitted, acceptFirst>>
  BY JoinMoves
<1> SUFFICES ASSUME acceptFirst, NEW x \in DOMAIN memberships_by_id'
             PROVE  \E j \in DOMAIN admitted :
               /\ admitted[j] = memberships_by_id'[x].user_id
               /\ invitations_by_id[j].tenant_id =
                    memberships_by_id'[x].tenant_id
               /\ invitations_by_id[j].role = memberships_by_id'[x].role
  BY <1>3 DEF EveryMemberWasAdmitted, store
<1>4. CASE x = m
  <2>1. i \in DOMAIN admitted /\ admitted[i] = u
    BY <1>1, <1>3 DEF AInv, JoinersWereAdmitted
  <2>2. /\ memberships_by_id'[x].user_id = u
        /\ memberships_by_id'[x].tenant_id = invitations_by_id[i].tenant_id
        /\ memberships_by_id'[x].role = invitations_by_id[i].role
    BY <1>1, <1>2, <1>4 DEF AddsMember
  <2> QED
    BY <2>1, <2>2
<1>5. CASE x \in DOMAIN memberships_by_id
  <2>1. memberships_by_id'[x] = memberships_by_id[x]
    BY <1>2, <1>5 DEF AddsMember
  <2> QED
    BY <1>5, <2>1 DEF AInv, EveryMemberWasAdmitted
<1> QED
  BY <1>2, <1>4, <1>5 DEF AddsMember

(* Joining first, nobody who accepted, or is about to, had joined the same *)
(* tenant as the same user: create() would have refused.                   *)
LEMMA JoinersAreNew ==
  ASSUME AInv, NEW t \in Task, NEW m \in MembershipId, Join(t, m), ~acceptFirst
  PROVE  /\ \A j \in DOMAIN admitted :
              admitted[j] = joining[t] => ~SameTenant(j, picked[t])
         /\ \A v \in Task \ {t} :
              pc[v] = "accept" /\ joining[v] = joining[t] =>
                /\ ~SameTenant(picked[v], picked[t])
                /\ ~SameTenant(picked[t], picked[v])
<1>1. AddsMember(m, <<joining[t], Invited(t).tenant_id>>, picked[t])
  BY JoinAddsMember
<1>2. <<joining[t], Invited(t).tenant_id>> \notin
        DOMAIN membership_id_by_user_tenant
  BY <1>1 DEF AddsMember
<1>3. ASSUME NEW j, JoinedOn(joining[t], j)
      PROVE  ~SameTenant(j, picked[t]) /\ ~SameTenant(picked[t], j)
  BY <1>2, <1>3 DEF JoinedOn, SameTenant, Invited
<1>4. \A j \in DOMAIN admitted : JoinedOn(admitted[j], j)
  BY DEF AInv, AdmittedJoined
<1>5. \A v \in Task : pc[v] = "accept" => JoinedOn(joining[v], picked[v])
  BY DEF AInv, AcceptersJoined
<1> QED
  BY <1>3, <1>4, <1>5

(* The create() of a membership, by a request.                             *)
LEMMA JoinKeepsAInv ==
  ASSUME AInv, NEW t \in Task, NEW m \in MembershipId, Join(t, m)
  PROVE  AInv'
<1>1. PICK i, u, key : /\ i = picked[t] /\ u = joining[t]
                       /\ key = <<u, invitations_by_id[i].tenant_id>>
  OBVIOUS
<1>2. AddsMember(m, key, i) /\ reply' = Returned(1)
  BY <1>1, JoinAddsMember DEF Invited
<1>3. /\ pc[t] = "join"
      /\ UNCHANGED <<store, admitted, acceptFirst, now>>
      /\ Others(t) /\ TasksTypeOK'
      /\ ~acceptFirst => /\ pc'[t] = "accept"
                         /\ picked'[t] = i
                         /\ joining'[t] = u
                         /\ started'[t] = started[t]
      /\ acceptFirst => pc'[t] = "idle"
  BY <1>1, JoinMoves
<1>4. i \in DOMAIN invitations_by_id /\ started[t] \in Time
  BY <1>1, <1>3 DEF AInv, TasksKnow
<1>5. RowsStay /\ MembersStay
  BY <1>2, <1>3 DEF RowsStay, MembersStay, AddsMember, store
<1>6. IInv'
  <2>1. reply' \in Reply
    BY <1>2 DEF Returned, Reply
  <2> QED
    BY <1>3, <2>1, StorePreservesIInv DEF AInv
<1>7. TasksKnow'
  <2>1. pc'[t] # "idle" => /\ picked'[t] \in DOMAIN invitations_by_id'
                           /\ started'[t] \in Time
    BY <1>3, <1>4 DEF store
  <2> QED
    BY <1>3, <1>5, <2>1, TasksKnowStill DEF AInv
<1>8. EveryMemberWasAdmitted'
  BY JoinedMembersWereAdmitted
<1>9. CASE acceptFirst
  <2>1. NothingDone(t)
    BY <1>3, <1>9 DEF NothingDone
  <2>2. \A v \in Task : Rests(v) \/ NothingDone(v)
    BY <1>3, <2>1 DEF Others
  <2>3. /\ AdmittedMeansAccepted' /\ JoinersWereAdmitted'
        /\ AcceptersJoined' /\ AdmittedJoined'
    BY <1>3, <1>5, <2>2, CalmStepKeepsAdmissions DEF AInv
  <2> QED
    BY <1>3, <1>6, <1>7, <1>8, <2>3 DEF AInv
<1>10. CASE ~acceptFirst
  <2>1. /\ \A j \in DOMAIN admitted : admitted[j] = u => ~SameTenant(j, i)
        /\ \A v \in Task \ {t} :
             pc[v] = "accept" /\ joining[v] = u =>
               ~SameTenant(picked[v], i) /\ ~SameTenant(i, picked[v])
    BY <1>1, <1>10, JoinersAreNew
  <2>2. JoinedOn(u, i)'
    BY <1>1, <1>2, <1>3 DEF JoinedOn, AddsMember, store
  <2>3. AdmittedMeansAccepted' /\ JoinersWereAdmitted' /\ AdmittedJoined'
    <3>1. AdmittedMeansAccepted' /\ JoinersWereAdmitted'
      BY <1>3, <1>10 DEF AInv, AdmittedMeansAccepted, JoinersWereAdmitted, store
    <3>2. ASSUME NEW j \in DOMAIN admitted, NEW x, x = admitted[j]
          PROVE  JoinedOn(x, j)'
      <4>1. j \in DOMAIN invitations_by_id /\ JoinedOn(x, j)
        BY <1>10, <3>2 DEF AInv, AdmittedMeansAccepted, AdmittedJoined
      <4> QED
        BY <1>5, <4>1, JoinedOnStays
    <3>3. ASSUME NEW j \in DOMAIN admitted PROVE JoinedOn(admitted[j], j)'
      <4>1. PICK x : x = admitted[j]
        OBVIOUS
      <4> QED
        BY <1>3, <3>2, <4>1 DEF JoinedOn
    <3>4. AdmittedJoined'
      BY <1>3, <1>10, <3>3 DEF AInv, AdmittedJoined, SameTenant, store
    <3> QED
      BY <3>1, <3>4
  <2>4. AcceptersJoined'
    <3> SUFFICES ASSUME NEW w \in Task, pc'[w] = "accept"
                 PROVE  /\ JoinedOn(joining[w], picked[w])'
                        /\ \A j \in DOMAIN admitted :
                             admitted[j] = joining'[w] =>
                               ~SameTenant(j, picked'[w])
                        /\ \A v \in Task \ {w} :
                             pc'[v] = "accept" /\ joining'[v] = joining'[w] =>
                               ~SameTenant(picked'[v], picked'[w])
      BY <1>3 DEF AcceptersJoined, SameTenant, store
    <3>1. CASE w = t
      <4>1. JoinedOn(joining[w], picked[w])'
        BY <1>3, <1>10, <2>2, <3>1 DEF JoinedOn
      <4> QED
        BY <1>3, <1>10, <2>1, <3>1, <4>1 DEF Others, Rests
    <3>2. CASE w # t
      <4>1. PICK x, k : x = joining[w] /\ k = picked[w]
        OBVIOUS
      <4>2. pc[w] = "accept" /\ picked'[w] = k /\ joining'[w] = x
        BY <1>3, <3>2, <4>1 DEF Others, Rests
      <4>3. k \in DOMAIN invitations_by_id /\ JoinedOn(x, k)
        BY <1>10, <3>2, <4>1, <4>2 DEF AInv, TasksKnow, AcceptersJoined
      <4>4. JoinedOn(x, k)'
        BY <1>5, <4>3, JoinedOnStays
      <4>5. JoinedOn(joining[w], picked[w])'
        BY <4>2, <4>4 DEF JoinedOn
      <4>6. \A j \in DOMAIN admitted : admitted[j] = x => ~SameTenant(j, k)
        BY <1>10, <4>1, <4>2 DEF AInv, AcceptersJoined
      <4>7. ASSUME NEW v \in Task \ {w}, pc'[v] = "accept", joining'[v] = x
            PROVE  ~SameTenant(picked'[v], k)
        <5>1. CASE v = t
          BY <1>3, <1>10, <2>1, <3>2, <4>1, <4>2, <4>7, <5>1
        <5>2. CASE v # t
          <6>1. pc[v] = "accept" /\ picked'[v] = picked[v] /\ joining[v] = x
            BY <1>3, <4>7, <5>2 DEF Others, Rests
          <6> QED
            BY <1>10, <4>1, <4>2, <6>1 DEF AInv, AcceptersJoined
        <5> QED
          BY <5>1, <5>2
      <4> QED
        BY <4>2, <4>5, <4>6, <4>7
    <3> QED
      BY <3>1, <3>2
  <2> QED
    BY <1>3, <1>6, <1>7, <1>8, <2>3, <2>4 DEF AInv
<1> QED
  BY <1>9, <1>10

-----------------------------------------------------------------------------
(* The invariant *)

(* A new process has no request under way, and nobody was admitted.        *)
LEMMA InitImpliesAInv == AcceptanceInit => AInv
<1> SUFFICES ASSUME AcceptanceInit PROVE AInv
  OBVIOUS
<1>1. IInv
  BY InitImpliesIInv DEF AcceptanceInit
<1>2. TasksTypeOK /\ TasksKnow
  BY DEF AcceptanceInit, TasksTypeOK, TasksKnow
<1>3. DOMAIN admitted = {} /\ DOMAIN memberships_by_id = {}
  BY DEF AcceptanceInit, M!Init
<1>4. \A t \in Task : pc[t] = "idle"
  BY DEF AcceptanceInit
<1>5. /\ AdmittedMeansAccepted /\ JoinersWereAdmitted
      /\ EveryMemberWasAdmitted /\ AcceptersJoined /\ AdmittedJoined
  BY <1>3, <1>4
     DEF AdmittedMeansAccepted, JoinersWereAdmitted, EveryMemberWasAdmitted,
         AcceptersJoined, AdmittedJoined
<1> QED
  BY <1>1, <1>2, <1>5 DEF AInv

(* Nothing changes. *)
LEMMA StutteringKeepsAInv ==
  ASSUME AInv, UNCHANGED acceptVars
  PROVE  AInv'
<1>1. /\ UNCHANGED <<store, memberVars, acceptFirst, locals, history>>
      /\ now' = now /\ reply' = reply
  BY DEF acceptVars, vars
<1>2. RowsStay /\ now' \in Time
  BY <1>1 DEF RowsStay, store, AInv, TasksTypeOK
<1>3. IInv'
  BY <1>1, StorePreservesIInv DEF AInv, IInv, TypeOK
<1> QED
  BY <1>1, <1>2, <1>3, WorldKeepsAInv

(* Every step preserves the invariant. *)
LEMMA NextKeepsAInv == AInv /\ [AcceptanceNext]_acceptVars => AInv'
<1> SUFFICES ASSUME AInv, [AcceptanceNext]_acceptVars PROVE AInv'
  OBVIOUS
<1>1. ASSUME Tick PROVE AInv'
  BY <1>1, TickKeepsAInv
<1>2. ASSUME NEW i \in Id, NEW n \in Tenant, NEW role \in Role,
             NEW h \in Hash, NEW exp \in Time, Invite(i, n, role, h, exp)
      PROVE  AInv'
  BY <1>2, InviteKeepsAInv
<1>3. ASSUME NEW t \in Task, NEW u \in User, NEW h \in Hash,
             AcceptLookup(t, u, h)
      PROVE  AInv'
  BY <1>3, AcceptLookupKeepsAInv
<1>4. ASSUME NEW t \in Task, Resume(t) PROVE AInv'
  <2>1. CASE Accept(t)
    BY <2>1, AcceptKeepsAInv
  <2>2. CASE AcceptRefused(t)
    BY <2>2, RefusedKeepsAInv
  <2>3. ASSUME NEW m \in MembershipId, Join(t, m) PROVE AInv'
    BY <2>3, JoinKeepsAInv
  <2>4. CASE JoinRefused(t)
    BY <2>4, RefusedKeepsAInv
  <2> QED
    BY <1>4, <2>1, <2>2, <2>3, <2>4 DEF Resume
<1>5. ASSUME NEW t \in Task, Abandon(t) PROVE AInv'
  BY <1>5, RefusedKeepsAInv
<1>6. CASE UNCHANGED acceptVars
  BY <1>6, StutteringKeepsAInv
<1> QED
  BY <1>1, <1>2, <1>3, <1>4, <1>5, <1>6 DEF AcceptanceNext

(* The invariant holds in every state that requests can reach. *)
LEMMA AcceptanceInvariance == AcceptanceSpec => []AInv
  BY InitImpliesAInv, NextKeepsAInv, PTL DEF AcceptanceSpec

(* Whoever joined on an invitation is found by user and tenant.            *)
LEMMA NothingInVainFromAInv == AInv => NothingAcceptedInVain
<1> SUFFICES ASSUME AInv, ~acceptFirst, NEW i \in DOMAIN admitted
             PROVE  /\ MemberAs(admitted[i], invitations_by_id[i].tenant_id,
                                invitations_by_id[i].role)
                    /\ \A j \in DOMAIN admitted \ {i} :
                         admitted[j] = admitted[i] => ~SameTenant(j, i)
  BY DEF NothingAcceptedInVain, SameTenant
<1>1. JoinedOn(admitted[i], i)
  BY DEF AInv, AdmittedJoined
<1>2. MemberAs(admitted[i], invitations_by_id[i].tenant_id,
               invitations_by_id[i].role)
  BY <1>1 DEF JoinedOn, MemberAs, M!GetByUserAndTenant
<1> QED
  BY <1>2 DEF AInv, AdmittedJoined

-----------------------------------------------------------------------------
(* Theorems *)

(* Accepting first: however many requests overlap or are cancelled, every  *)
(* member joined on an invitation that was accepted for that user, to its  *)
(* tenant and in its role.                                                 *)
THEOREM MembersAlwaysAdmitted == AcceptanceSpec => []EveryMemberWasAdmitted
  BY AcceptanceInvariance, PTL DEF AInv

(* Joining first: no invitation is ever used up for a user who is not a    *)
(* member on it, and no two for one membership.                            *)
THEOREM NothingEverAcceptedInVain == AcceptanceSpec => []NothingAcceptedInVain
  BY NothingInVainFromAInv, AcceptanceInvariance, PTL
=============================================================================
