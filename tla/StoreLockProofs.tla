---------------------------- MODULE StoreLockProofs ----------------------------
(***************************************************************************)
(* Theorems about StoreLock, for every value of its constants, and so for  *)
(* any number of calls on a table of any size: as everybody who respects   *)
(* the lock sees it, the store moves by whole methods of RefreshTokens,    *)
(* and a lookup that takes no lock never meets a missing row.  The         *)
(* invariant says what the call inside the lock has done so far to the     *)
(* store it found; of that store the invariant of the repository           *)
(* (RefreshSessionsProofs) holds, seen through the refinement mapping.     *)
(***************************************************************************)
EXTENDS StoreLock, FiniteSetTheorems, SequenceTheorems, TLAPS

(* The lemmas about one call to the repository, on the store as those who  *)
(* respect the lock see it.  What only the sessions of that module mention *)
(* is left empty: nothing about them is cited here.                        *)
RP == INSTANCE RefreshSessionsProofs WITH
        refresh_tokens_by_id <- Seen[1],
        refresh_token_id_by_hash <- Seen[2][1],
        refresh_token_ids_by_family <- Seen[2][2],
        pc <- None, seen <- None, successor <- None,
        delivered <- None, ended <- None

(* Where a call is when it has written, or computed what it will write.    *)
Midway ==
  {"create_hash", "create_family", "rotate_store", "sweep", "sweep_all"}

LockTypeOK ==
  /\ holder \in Task \cup {None}
  /\ queue \in Seq(Task)
  /\ pc \in [Task -> Method \cup Midway \cup {"idle", "read_row"}]
  /\ local = [t \in Task |-> local[t]]

(* One task is inside the lock at most, and none is both inside and        *)
(* waiting, or waiting twice.                                              *)
Exclusion ==
  /\ holder # None => pc[holder] \in Method \cup Midway
  /\ \A t \in Task : pc[t] \in Midway => t = holder
  /\ \A k \in DOMAIN queue : queue[k] # holder /\ pc[queue[k]] \in Method
  /\ \A k, l \in DOMAIN queue : queue[k] = queue[l] => k = l

(* create() has added a row to the table it found, and then perhaps the    *)
(* row's hash to the index.                                                *)
Creating(t) ==
  LET i == local[t] IN
  \E u \in User, n \in Tenant, f \in Family, h \in Hash, iat, exp \in Time :
    /\ ValidToken(NewToken(u, n, f, h, iat, exp))
    /\ i \in Id \ DOMAIN before[1]
    /\ h \notin DOMAIN before[2][1]
    /\ refresh_tokens_by_id =
         Put(before[1], i, NewToken(u, n, f, h, iat, exp))
    /\ refresh_token_id_by_hash =
         IF pc[t] = "create_hash" THEN before[2][1]
                                  ELSE Put(before[2][1], h, i)
    /\ refresh_token_ids_by_family = before[2][2]

(* mark_rotated() has rebuilt the row that it found active.                *)
Rotating(t) ==
  \E h \in Hash, successor \in Id, at \in Time :
    LET i == refresh_token_id_by_hash[h] IN
      /\ before = store
      /\ h \in DOMAIN refresh_token_id_by_hash
      /\ refresh_tokens_by_id[i].status = "active"
      /\ local[t] = <<i, Rotated(refresh_tokens_by_id[i], successor, at)>>

(* The rows among these that a sweep has to revoke.                        *)
LiveBefore(S) == {i \in S : before[1][i].status # "revoked"}

(* revoke_family() has revoked the rows that it has seen, and counted them.*)
Sweeping(t) ==
  \E f \in Family, at \in Time : \E seen \in SUBSET IdsOfFamily(f) :
    /\ local[t] = [family |-> f, at |-> at, seen |-> seen,
                   count |-> Cardinality(LiveBefore(seen))]
    /\ refresh_tokens_by_id =
         [i \in DOMAIN before[1] |->
            IF i \in LiveBefore(seen) THEN Revoked(before[1][i], at)
                                      ELSE before[1][i]]
    /\ before[2] = indexes

(* The rows a sweep over all sessions of a user in a tenant is meant for.  *)
OwnedBefore(u, n) ==
  {i \in DOMAIN before[1] : before[1][i].user_id = u
                            /\ before[1][i].tenant_id = n}

(* revoke_all_active() has revoked some of its rows; the copied records of *)
(* the others are left.                                                    *)
SweepingAll(t) ==
  \E u \in User, n \in Tenant, at \in Time :
    \E done \in SUBSET LiveBefore(OwnedBefore(u, n)) :
      /\ local[t] = [rows |-> Restrict(before[1],
                                  LiveBefore(OwnedBefore(u, n)) \ done),
                     at |-> at, count |-> Cardinality(done)]
      /\ refresh_tokens_by_id =
           [i \in DOMAIN before[1] |->
              IF i \in done THEN Revoked(before[1][i], at)
                            ELSE before[1][i]]
      /\ before[2] = indexes

(* What the task inside the lock has done to the store it found.           *)
HolderProgress ==
  holder # None =>
    /\ pc[holder] \in Method => before = store
    /\ pc[holder] \in {"create_hash", "create_family"} => Creating(holder)
    /\ pc[holder] = "rotate_store" => Rotating(holder)
    /\ pc[holder] = "sweep" => Sweeping(holder)
    /\ pc[holder] = "sweep_all" => SweepingAll(holder)

(* Midway or not, what the hash index finds is in the table.               *)
HashesFindRows ==
  \A h \in DOMAIN refresh_token_id_by_hash :
    refresh_token_id_by_hash[h] \in DOMAIN refresh_tokens_by_id

LInv ==
  /\ RP!IInv
  /\ LockTypeOK
  /\ Exclusion
  /\ HolderProgress
  /\ HashesFindRows
  /\ LookupsFindTheirRow

-----------------------------------------------------------------------------
(* Operators *)

(* What is left of a queue when a waiter has gone.                         *)
LEMMA RemoveAtRemoves ==
  ASSUME NEW S, NEW s \in Seq(S), NEW k \in DOMAIN s
  PROVE  /\ RemoveAt(s, k) \in Seq(S)
         /\ Len(RemoveAt(s, k)) = Len(s) - 1
         /\ \A l \in DOMAIN RemoveAt(s, k) :
              RemoveAt(s, k)[l] = IF l < k THEN s[l] ELSE s[l + 1]
<1> DEFINE a == SubSeq(s, 1, k - 1)
           b == SubSeq(s, k + 1, Len(s))
<1>1. k \in 1 .. Len(s) /\ Len(s) \in Nat
  OBVIOUS
<1>2. /\ a \in Seq(S) /\ Len(a) = k - 1
      /\ \A l \in 1 .. k - 1 : a[l] = s[l]
  BY <1>1
<1>3. /\ b \in Seq(S) /\ Len(b) = Len(s) - k
      /\ \A l \in 1 .. Len(s) - k : b[l] = s[k + l]
  BY <1>1
<1> HIDE DEF a, b
<1>4. /\ a \o b \in Seq(S)
      /\ Len(a \o b) = Len(s) - 1
      /\ \A l \in 1 .. Len(s) - 1 :
           (a \o b)[l] = IF l < k THEN a[l] ELSE b[l - k + 1]
  BY <1>1, <1>2, <1>3
<1>5. \A l \in 1 .. Len(s) - 1 : (a \o b)[l] = IF l < k THEN s[l] ELSE s[l + 1]
  BY <1>1, <1>2, <1>3, <1>4
<1>6. RemoveAt(s, k) = a \o b
  BY DEF RemoveAt, a, b
<1>7. DOMAIN (a \o b) = 1 .. Len(s) - 1
  BY <1>4
<1> QED
  BY <1>4, <1>5, <1>6, <1>7

(* What is left of it are waiters of before, each in one place, and not    *)
(* the one that has gone if it waited once.                                *)
LEMMA RemoveAtKeepsOthers ==
  ASSUME NEW S, NEW s \in Seq(S), NEW k \in DOMAIN s,
         \A i, j \in DOMAIN s : s[i] = s[j] => i = j
  PROVE  LET rest == RemoveAt(s, k)
         IN /\ rest \in Seq(S)
            /\ \A l \in DOMAIN rest :
                 \E m \in DOMAIN s : rest[l] = s[m] /\ rest[l] # s[k]
            /\ \A i, j \in DOMAIN rest : rest[i] = rest[j] => i = j
<1> DEFINE rest == RemoveAt(s, k)
           From(l) == IF l < k THEN l ELSE l + 1
<1>1. /\ rest \in Seq(S) /\ Len(rest) = Len(s) - 1
      /\ \A l \in DOMAIN rest : rest[l] = IF l < k THEN s[l] ELSE s[l + 1]
  BY RemoveAtRemoves
<1> HIDE DEF rest
<1>2. DOMAIN rest = 1 .. Len(s) - 1 /\ DOMAIN s = 1 .. Len(s) /\ Len(s) \in Nat
  BY <1>1
<1>3. \A l \in DOMAIN rest : /\ From(l) \in DOMAIN s /\ From(l) # k
                             /\ rest[l] = s[From(l)]
  BY <1>1, <1>2
<1>4. \A i, j \in DOMAIN rest : From(i) = From(j) => i = j
  BY <1>2
<1> HIDE DEF From
<1>5. \A l \in DOMAIN rest :
        \E m \in DOMAIN s : rest[l] = s[m] /\ rest[l] # s[k]
  BY <1>3
<1>6. \A i, j \in DOMAIN rest : rest[i] = rest[j] => i = j
  BY <1>3, <1>4
<1> QED
  BY <1>1, <1>5, <1>6 DEF rest

(* What a step of one task does to its two locals.                         *)
LEMMA GotoMoves ==
  ASSUME LockTypeOK, NEW t \in Task, NEW x,
         NEW label \in Method \cup Midway \cup {"idle", "read_row"},
         Goto(t, label, x)
  PROVE  /\ pc'[t] = label /\ local'[t] = x
         /\ \A v \in Task \ {t} : pc'[v] = pc[v] /\ local'[v] = local[v]
         /\ pc' \in [Task -> Method \cup Midway \cup {"idle", "read_row"}]
         /\ local' = [v \in Task |-> local'[v]]
<1> DEFINE labels == Method \cup Midway \cup {"idle", "read_row"}
<1> HIDE DEF labels
<1>1. /\ pc \in [Task -> labels] /\ label \in labels
      /\ local = [v \in Task |-> local[v]]
      /\ pc' = [pc EXCEPT ![t] = label]
      /\ local' = [local EXCEPT ![t] = x]
  BY DEF LockTypeOK, Goto, labels
<1>2. pc' \in [Task -> labels]
  BY <1>1
<1>3. DOMAIN local = Task
  BY <1>1
<1>4. local' = [v \in Task |-> IF v = t THEN x ELSE local[v]]
  BY <1>1, <1>3
<1>5. local' = [v \in Task |-> local'[v]]
  BY <1>4
<1> QED
  BY <1>1, <1>2, <1>4, <1>5 DEF labels

-----------------------------------------------------------------------------
(* The refinement mapping *)

(* Inside the lock a call works on; everybody else sees the store as it    *)
(* was when the call entered.                                              *)
LEMMA SeenIs ==
  /\ holder = None => /\ Seen = store
                      /\ Seen[1] = refresh_tokens_by_id
                      /\ Seen[2][1] = refresh_token_id_by_hash
                      /\ Seen[2][2] = refresh_token_ids_by_family
  /\ holder # None => Seen = before
  BY DEF Seen, store, indexes

(* The same after a step.                                                  *)
LEMMA SeenIsNext ==
  /\ holder' = None => /\ Seen' = store'
                       /\ Seen'[1] = refresh_tokens_by_id'
                       /\ Seen'[2][1] = refresh_token_id_by_hash'
                       /\ Seen'[2][2] = refresh_token_ids_by_family'
  /\ holder' # None => Seen' = before'
  BY DEF Seen, store, indexes

(* The instances of RefreshTokens in StoreLock and in its proofs agree.    *)
LEMMA SameMethods ==
  /\ Methods!Next => RP!Next
  /\ Methods!Init => RP!Init
<1>1. ASSUME NEW i \in Id, NEW u \in User, NEW n \in Tenant, NEW f \in Family,
             NEW h \in Hash, NEW iat \in Time, NEW exp \in Time,
             Methods!Create(i, u, n, f, h, iat, exp)
      PROVE  RP!Create(i, u, n, f, h, iat, exp)
  BY <1>1
     DEF Methods!Create, RP!Create, Methods!Put, RP!Put,
         Methods!NewToken, RP!NewToken, Methods!ValidToken, RP!ValidToken,
         Methods!IdsOfFamily, RP!IdsOfFamily, Methods!Returned, RP!Returned
<1>2. ASSUME NEW h \in Hash, NEW iat \in Time, NEW exp \in Time,
             Methods!CreateRaises(h, iat, exp)
      PROVE  RP!CreateRaises(h, iat, exp)
  BY <1>2
     DEF Methods!CreateRaises, RP!CreateRaises, Methods!Raised, RP!Raised,
         Methods!store, RP!store, Methods!indexes, RP!indexes
<1>3. ASSUME NEW h \in Hash, NEW successor \in Id, NEW at \in Time,
             Methods!MarkRotated(h, successor, at)
      PROVE  RP!MarkRotated(h, successor, at)
  BY <1>3
     DEF Methods!MarkRotated, RP!MarkRotated, Methods!Rotated, RP!Rotated,
         Methods!ValidToken, RP!ValidToken, Methods!Returned, RP!Returned,
         Methods!indexes, RP!indexes
<1>4. ASSUME NEW h \in Hash, Methods!MarkRotatedRaises(h)
      PROVE  RP!MarkRotatedRaises(h)
  BY <1>4
     DEF Methods!MarkRotatedRaises, RP!MarkRotatedRaises,
         Methods!Raised, RP!Raised,
         Methods!store, RP!store, Methods!indexes, RP!indexes
<1>5. ASSUME NEW scope, NEW at, Methods!Sweep(scope, at)
      PROVE  RP!Sweep(scope, at)
  <2>1. /\ \A r : Methods!Revoked(r, at) = RP!Revoked(r, at)
        /\ \A r : Methods!ValidToken(r) <=> RP!ValidToken(r)
        /\ \A S : Methods!Cardinality(S) = RP!Cardinality(S)
        /\ \A x : Methods!Returned(x) = RP!Returned(x)
        /\ \A e : Methods!Raised(e) = RP!Raised(e)
    BY DEF Methods!Revoked, RP!Revoked, Methods!ValidToken, RP!ValidToken,
           Methods!Cardinality, RP!Cardinality,
           Methods!Returned, RP!Returned, Methods!Raised, RP!Raised
  <2> DEFINE rows == Seen[1]
             live == {i \in scope : rows[i].status # "revoked"}
  <2>2. PICK done \in SUBSET live :
          /\ \A i \in done : Methods!ValidToken(Methods!Revoked(rows[i], at))
          /\ done # live =>
               \E i \in live \ done :
                 ~Methods!ValidToken(Methods!Revoked(rows[i], at))
          /\ rows' = [i \in DOMAIN rows |->
                       IF i \in done THEN Methods!Revoked(rows[i], at)
                                     ELSE rows[i]]
          /\ reply' = IF done = live
                      THEN Methods!Returned(Methods!Cardinality(done))
                      ELSE Methods!Raised("ValidationError")
          /\ UNCHANGED Methods!indexes
    BY <1>5 DEF Methods!Sweep
  <2>3. /\ \A i \in done : RP!ValidToken(RP!Revoked(rows[i], at))
        /\ done # live =>
             \E i \in live \ done : ~RP!ValidToken(RP!Revoked(rows[i], at))
    BY <2>1, <2>2
  <2>4. rows' = [i \in DOMAIN rows |->
                   IF i \in done THEN RP!Revoked(rows[i], at) ELSE rows[i]]
    BY <2>1, <2>2
  <2>5. /\ reply' = IF done = live THEN RP!Returned(RP!Cardinality(done))
                                   ELSE RP!Raised("ValidationError")
        /\ UNCHANGED RP!indexes
    BY <2>1, <2>2 DEF Methods!indexes, RP!indexes
  <2> QED
    BY <2>3, <2>4, <2>5 DEF RP!Sweep
<1>6. ASSUME NEW f, NEW at, Methods!RevokeFamily(f, at)
      PROVE  RP!RevokeFamily(f, at)
  <2>1. Methods!IdsOfFamily(f) = RP!IdsOfFamily(f)
    BY DEF Methods!IdsOfFamily, RP!IdsOfFamily
  <2> QED
    BY <1>5, <1>6, <2>1 DEF Methods!RevokeFamily, RP!RevokeFamily
<1>7. ASSUME NEW u, NEW n, NEW at, Methods!RevokeAllActive(u, n, at)
      PROVE  RP!RevokeAllActive(u, n, at)
  BY <1>5, <1>7 DEF Methods!RevokeAllActive, RP!RevokeAllActive
<1>8. Methods!Init => RP!Init
  BY DEF Methods!Init, RP!Init, Methods!Returned, RP!Returned
<1> QED
  BY <1>1, <1>2, <1>3, <1>4, <1>6, <1>7, <1>8 DEF Methods!Next, RP!Next

(* A method of RefreshTokens keeps the invariant of the store it is seen   *)
(* to change.                                                              *)
LEMMA MethodKeepsSeenInv ==
  ASSUME RP!IInv, Methods!Next
  PROVE  RP!IInv'
  BY SameMethods, RP!NextPreservesIInv, TimeAssumption, NoneAssumption

(* A step that nobody sees keeps it as well.                               *)
LEMMA UnseenKeepsSeenInv ==
  ASSUME RP!IInv, Seen' = Seen, reply' = reply
  PROVE  RP!IInv' /\ UNCHANGED Methods!vars
<1>1. UNCHANGED RP!vars
  BY DEF RP!vars, RP!store, RP!indexes
<1>2. RP!IInv'
  BY <1>1, RP!NextPreservesIInv, TimeAssumption, NoneAssumption
<1>3. UNCHANGED Methods!vars
  BY DEF Methods!vars, Methods!store, Methods!indexes
<1> QED
  BY <1>2, <1>3

-----------------------------------------------------------------------------
(* What steps keep *)

(* A step that does not concern the task inside the lock leaves it where   *)
(* it was.                                                                 *)
LEMMA ProgressStays ==
  ASSUME HolderProgress, UNCHANGED <<store, holder, before>>,
         holder # None => /\ pc'[holder] = pc[holder]
                          /\ local'[holder] = local[holder]
  PROVE  HolderProgress'
<1> SUFFICES ASSUME holder # None
             PROVE  /\ pc'[holder] \in Method => before' = store'
                    /\ pc'[holder] \in {"create_hash", "create_family"} =>
                         Creating(holder)'
                    /\ pc'[holder] = "rotate_store" => Rotating(holder)'
                    /\ pc'[holder] = "sweep" => Sweeping(holder)'
                    /\ pc'[holder] = "sweep_all" => SweepingAll(holder)'
  <2>1. holder' = holder
    OBVIOUS
  <2> QED
    BY <2>1 DEF HolderProgress, Creating, Rotating, Sweeping, SweepingAll
<1>1. PICK t : t = holder
  OBVIOUS
<1>2. /\ holder' = t /\ before' = before
      /\ refresh_tokens_by_id' = refresh_tokens_by_id
      /\ refresh_token_id_by_hash' = refresh_token_id_by_hash
      /\ refresh_token_ids_by_family' = refresh_token_ids_by_family
      /\ pc'[t] = pc[t] /\ local'[t] = local[t]
  BY <1>1 DEF store, indexes
<1>3. pc[t] \in {"create_hash", "create_family"} => Creating(holder)'
  <2>1. Creating(t) => Creating(holder)'
    BY <1>2 DEF Creating
  <2> QED
    BY <1>1, <2>1 DEF HolderProgress
<1>4. pc[t] = "rotate_store" => Rotating(holder)'
  <2>1. Rotating(t) => Rotating(holder)'
    BY <1>2 DEF Rotating, store, indexes
  <2> QED
    BY <1>1, <2>1 DEF HolderProgress
<1>5. pc[t] = "sweep" => Sweeping(holder)'
  <2>1. \A S : LiveBefore(S)' = LiveBefore(S)
    BY <1>2 DEF LiveBefore
  <2>2. \A f : IdsOfFamily(f)' = IdsOfFamily(f)
    BY <1>2 DEF IdsOfFamily
  <2>3. indexes' = indexes
    BY DEF store
  <2>4. Sweeping(t) => Sweeping(holder)'
    BY <1>2, <2>1, <2>2, <2>3 DEF Sweeping
  <2> QED
    BY <1>1, <2>4 DEF HolderProgress
<1>6. pc[t] = "sweep_all" => SweepingAll(holder)'
  <2>1. \A u \in User, n \in Tenant :
          LiveBefore(OwnedBefore(u, n))' = LiveBefore(OwnedBefore(u, n))
    BY <1>2 DEF LiveBefore, OwnedBefore
  <2>2. indexes' = indexes
    BY DEF store
  <2>3. SweepingAll(t) => SweepingAll(holder)'
    BY <1>2, <2>1, <2>2 DEF SweepingAll, Restrict
  <2> QED
    BY <1>1, <2>3 DEF HolderProgress
<1> QED
  BY <1>1, <1>2, <1>3, <1>4, <1>5, <1>6 DEF HolderProgress

(* A task that has just been let in has done nothing yet.                  *)
LEMMA NewHolderHasDoneNothing ==
  ASSUME UNCHANGED store, before' = store, pc'[holder'] \in Method
  PROVE  HolderProgress'
  BY DEF HolderProgress, Method

(* The lookups that do not move still find their row in a table that has   *)
(* lost none.                                                              *)
LEMMA LookupsStillFind ==
  ASSUME LookupsFindTheirRow, NEW t \in Task,
         \A v \in Task \ {t} : pc'[v] = pc[v] /\ local'[v] = local[v],
         DOMAIN refresh_tokens_by_id \subseteq DOMAIN refresh_tokens_by_id',
         pc'[t] = "read_row" => local'[t] \in DOMAIN refresh_tokens_by_id'
  PROVE  LookupsFindTheirRow'
  BY DEF LookupsFindTheirRow

(* A step that leaves the store alone keeps the hash index complete.       *)
LEMMA HashesStillFind ==
  ASSUME HashesFindRows, UNCHANGED store
  PROVE  HashesFindRows'
  BY DEF HashesFindRows, store, indexes

-----------------------------------------------------------------------------
(* The lock and the lookups: steps that change nothing anybody sees *)

(* Seen by everybody, a step is a method of RefreshTokens or nothing.      *)
SeenStep == [Methods!Next]_Methods!vars

(* "async with lock". *)
LEMMA EnterKeepsLInv ==
  ASSUME LInv, NEW t \in Task, NEW method \in Method, Enter(t, method)
  PROVE  LInv' /\ SeenStep
<1>1. /\ pc[t] = "idle" /\ Goto(t, method, None)
      /\ UNCHANGED <<store, reply>>
  BY DEF Enter, vars
<1>2. LockTypeOK /\ Exclusion
  BY DEF LInv
<1>3. /\ pc'[t] = method
      /\ \A v \in Task \ {t} : pc'[v] = pc[v] /\ local'[v] = local[v]
      /\ pc' \in [Task -> Method \cup Midway \cup {"idle", "read_row"}]
      /\ local' = [v \in Task |-> local'[v]]
  BY <1>1, <1>2, GotoMoves
<1>4. /\ method \notin Midway
      /\ method # "read_row"
      /\ "idle" \notin Method \cup Midway
  BY DEF Method, Midway
<1>5. LookupsFindTheirRow' /\ HashesFindRows'
  BY <1>1, <1>3, <1>4, LookupsStillFind, HashesStillFind DEF LInv, store
<1>6. CASE holder = None /\ queue = <<>>
  <2>1. holder' = t /\ before' = store /\ queue' = <<>>
    BY <1>6 DEF Enter
  <2>2. LockTypeOK' /\ Exclusion'
    BY <1>2, <1>3, <1>4, <1>6, <2>1, TaskAssumption DEF LockTypeOK, Exclusion
  <2>3. HolderProgress'
    BY <1>1, <1>3, <2>1, NewHolderHasDoneNothing
  <2>4. Seen' = Seen
    BY <1>6, <2>1, SeenIs, SeenIsNext, TaskAssumption
  <2> QED
    BY <1>1, <1>5, <2>2, <2>3, <2>4, UnseenKeepsSeenInv DEF LInv, SeenStep
<1>7. CASE ~(holder = None /\ queue = <<>>)
  <2>1. UNCHANGED <<holder, before>> /\ queue' = Append(queue, t)
    BY <1>7 DEF Enter
  <2>2. holder # t
    BY <1>1, <1>2, <1>4, TaskAssumption DEF Exclusion
  <2>3. holder # None => holder \in Task \ {t}
    BY <1>2, <2>2 DEF LockTypeOK
  <2>4. /\ queue' \in Seq(Task)
        /\ DOMAIN queue' = DOMAIN queue \cup {Len(queue) + 1}
        /\ queue'[Len(queue) + 1] = t
        /\ \A k \in DOMAIN queue : queue'[k] = queue[k]
    BY <1>2, <2>1 DEF LockTypeOK
  <2>5. \A k \in DOMAIN queue : queue[k] \in Task \ {t}
    BY <1>1, <1>2, <1>4 DEF LockTypeOK, Exclusion
  <2>6. LockTypeOK'
    BY <1>2, <1>3, <2>1, <2>4 DEF LockTypeOK
  <2>7. Exclusion'
    <3>1. holder' # None => pc'[holder'] \in Method \cup Midway
      BY <1>2, <1>3, <2>1, <2>3 DEF Exclusion
    <3>2. \A v \in Task : pc'[v] \in Midway => v = holder'
      BY <1>2, <1>3, <1>4, <2>1 DEF Exclusion
    <3>3. \A k \in DOMAIN queue' :
            queue'[k] # holder' /\ pc'[queue'[k]] \in Method
      BY <1>2, <1>3, <2>1, <2>2, <2>4, <2>5 DEF Exclusion
    <3>4. \A k, l \in DOMAIN queue' : queue'[k] = queue'[l] => k = l
      BY <1>2, <2>4, <2>5 DEF Exclusion
    <3> QED
      BY <3>1, <3>2, <3>3, <3>4 DEF Exclusion
  <2>8. HolderProgress'
    BY <1>1, <1>3, <2>1, <2>3, ProgressStays DEF LInv
  <2>9. Seen' = Seen
    BY <1>1, <2>1, SeenIs, SeenIsNext
  <2> QED
    BY <1>1, <1>5, <2>6, <2>7, <2>8, <2>9, UnseenKeepsSeenInv DEF LInv, SeenStep
<1> QED
  BY <1>6, <1>7

(* The next in the queue gets the lock. *)
LEMMA WakeKeepsLInv ==
  ASSUME LInv, NEW t \in Task, Wake(t)
  PROVE  LInv' /\ SeenStep
<1>1. /\ holder = None /\ queue # <<>> /\ Head(queue) = t
      /\ holder' = t /\ before' = store /\ queue' = Tail(queue)
      /\ UNCHANGED <<store, reply, pc, local>>
  BY DEF Wake, vars
<1>2. LockTypeOK /\ Exclusion
  BY DEF LInv
<1>3. /\ queue' \in Seq(Task)
      /\ Len(queue') = Len(queue) - 1
      /\ \A k \in DOMAIN queue' : queue'[k] = queue[k + 1]
      /\ 1 \in DOMAIN queue /\ queue[1] = t
      /\ \A k \in DOMAIN queue' : k \in Nat \ {0} /\ k + 1 \in DOMAIN queue
  BY <1>1, <1>2 DEF LockTypeOK
<1>4. pc[t] \in Method
  BY <1>2, <1>3 DEF Exclusion
<1>5. LockTypeOK'
  BY <1>1, <1>2, <1>3 DEF LockTypeOK
<1>6. Exclusion'
  <2>1. \A v \in Task : pc[v] \notin Midway
    BY <1>1, <1>2, TaskAssumption DEF Exclusion
  <2>2. \A k \in DOMAIN queue' : queue'[k] # t /\ pc[queue'[k]] \in Method
    BY <1>2, <1>3 DEF Exclusion
  <2>3. \A k, l \in DOMAIN queue' : queue'[k] = queue'[l] => k = l
    <3> SUFFICES ASSUME NEW k \in DOMAIN queue', NEW l \in DOMAIN queue',
                        queue'[k] = queue'[l]
                 PROVE  k = l
      OBVIOUS
    <3>1. k + 1 = l + 1
      BY <1>2, <1>3 DEF Exclusion
    <3> QED
      BY <1>3, <3>1
  <2> QED
    BY <1>1, <1>4, <2>1, <2>2, <2>3 DEF Exclusion
<1>7. HolderProgress'
  BY <1>1, <1>4, NewHolderHasDoneNothing
<1>8. LookupsFindTheirRow' /\ HashesFindRows'
  BY <1>1, HashesStillFind DEF LInv, LookupsFindTheirRow, store
<1>9. Seen' = Seen
  BY <1>1, SeenIs, SeenIsNext, TaskAssumption
<1> QED
  BY <1>1, <1>5, <1>6, <1>7, <1>8, <1>9, UnseenKeepsSeenInv DEF LInv, SeenStep

(* A waiter is cancelled: it was outside, and waited in one place.         *)
LEMMA CancelWaitingKeepsLInv ==
  ASSUME LInv, NEW t \in Task, CancelWaiting(t)
  PROVE  LInv' /\ SeenStep
<1>1. PICK k \in DOMAIN queue : queue[k] = t /\ queue' = RemoveAt(queue, k)
  BY DEF CancelWaiting
<1>2. Goto(t, "idle", None) /\ UNCHANGED <<store, reply, holder, before>>
  BY DEF CancelWaiting, vars
<1>3. LockTypeOK /\ Exclusion
  BY DEF LInv
<1>4. /\ pc'[t] = "idle"
      /\ \A v \in Task \ {t} : pc'[v] = pc[v] /\ local'[v] = local[v]
      /\ pc' \in [Task -> Method \cup Midway \cup {"idle", "read_row"}]
      /\ local' = [v \in Task |-> local'[v]]
  BY <1>2, <1>3, GotoMoves
<1>5. t # holder /\ (holder # None => holder \in Task \ {t})
  BY <1>1, <1>3 DEF LockTypeOK, Exclusion
<1>6. /\ queue' \in Seq(Task)
      /\ \A l \in DOMAIN queue' :
           \E m \in DOMAIN queue : queue'[l] = queue[m] /\ queue'[l] # t
      /\ \A i, j \in DOMAIN queue' : queue'[i] = queue'[j] => i = j
  BY <1>1, <1>3, RemoveAtKeepsOthers DEF LockTypeOK, Exclusion
<1>7. LockTypeOK'
  BY <1>2, <1>3, <1>4, <1>6 DEF LockTypeOK
<1>8. Exclusion'
  <2>1. holder' # None => pc'[holder'] \in Method \cup Midway
    BY <1>2, <1>3, <1>4, <1>5 DEF Exclusion
  <2>2. \A v \in Task : pc'[v] \in Midway => v = holder'
    BY <1>2, <1>3, <1>4 DEF Exclusion, Midway
  <2>3. ASSUME NEW l \in DOMAIN queue'
        PROVE  queue'[l] # holder' /\ pc'[queue'[l]] \in Method
    <3>1. PICK m \in DOMAIN queue : queue'[l] = queue[m] /\ queue'[l] # t
      BY <1>6
    <3>2. queue[m] \in Task \ {t}
      BY <1>3, <3>1 DEF LockTypeOK
    <3> QED
      BY <1>2, <1>3, <1>4, <3>1, <3>2 DEF Exclusion
  <2> QED
    BY <1>6, <2>1, <2>2, <2>3 DEF Exclusion
<1>9. HolderProgress'
  BY <1>2, <1>4, <1>5, ProgressStays DEF LInv
<1>10. LookupsFindTheirRow' /\ HashesFindRows'
  BY <1>2, <1>4, LookupsStillFind, HashesStillFind DEF LInv, store
<1>11. Seen' = Seen
  BY <1>2, SeenIs, SeenIsNext
<1> QED
  BY <1>2, <1>7, <1>8, <1>9, <1>10, <1>11, UnseenKeepsSeenInv DEF LInv, SeenStep

(* The two halves of a lookup: what it finds in the index is in the table. *)
LEMMA LookupKeepsLInv ==
  ASSUME LInv, NEW t \in Task, NEW h, ReadIndex(t, h) \/ ReadRow(t)
  PROVE  LInv' /\ SeenStep
<1>1. PICK label, x :
        /\ pc[t] \in {"idle", "read_row"}
        /\ label \in {"idle", "read_row"}
        /\ label = "read_row" => x \in DOMAIN refresh_tokens_by_id
        /\ Goto(t, label, x)
        /\ UNCHANGED <<store, reply, holder, queue, before>>
  BY DEF ReadIndex, ReadRow, Stay, LInv, HashesFindRows
<1>2. LockTypeOK /\ Exclusion
  BY DEF LInv
<1>3. /\ pc'[t] = label /\ local'[t] = x
      /\ \A v \in Task \ {t} : pc'[v] = pc[v] /\ local'[v] = local[v]
      /\ pc' \in [Task -> Method \cup Midway \cup {"idle", "read_row"}]
      /\ local' = [v \in Task |-> local'[v]]
  BY <1>1, <1>2, GotoMoves
<1>4. {"idle", "read_row"} \cap (Method \cup Midway) = {}
  BY DEF Method, Midway
<1>5. t # holder /\ (holder # None => holder \in Task \ {t})
  BY <1>1, <1>2, <1>4, TaskAssumption DEF LockTypeOK, Exclusion
<1>6. \A k \in DOMAIN queue : queue[k] \in Task \ {t}
  BY <1>1, <1>2, <1>4 DEF LockTypeOK, Exclusion
<1>7. LockTypeOK'
  BY <1>1, <1>2, <1>3 DEF LockTypeOK
<1>8. Exclusion'
  <2>1. holder' # None => pc'[holder'] \in Method \cup Midway
    BY <1>1, <1>2, <1>3, <1>5 DEF Exclusion
  <2>2. \A v \in Task : pc'[v] \in Midway => v = holder'
    BY <1>1, <1>2, <1>3, <1>4 DEF Exclusion
  <2>3. \A k \in DOMAIN queue : queue[k] # holder /\ pc'[queue[k]] \in Method
    BY <1>2, <1>3, <1>6 DEF Exclusion
  <2>4. \A k, l \in DOMAIN queue : queue[k] = queue[l] => k = l
    BY <1>2 DEF Exclusion
  <2>5. queue' = queue /\ holder' = holder
    BY <1>1
  <2> QED
    BY <2>1, <2>2, <2>3, <2>4, <2>5 DEF Exclusion
<1>9. HolderProgress'
  BY <1>1, <1>3, <1>5, ProgressStays DEF LInv
<1>10. LookupsFindTheirRow' /\ HashesFindRows'
  BY <1>1, <1>3, LookupsStillFind, HashesStillFind DEF LInv, store
<1>11. Seen' = Seen
  BY <1>1, SeenIs, SeenIsNext
<1> QED
  BY <1>1, <1>7, <1>8, <1>9, <1>10, <1>11, UnseenKeepsSeenInv DEF LInv, SeenStep

-----------------------------------------------------------------------------
(* Inside the lock *)

(* A statement inside a method that is not its last shows nobody anything. *)
LEMMA InsideKeepsLInv ==
  ASSUME LInv, NEW t \in Task, holder = t, Stay,
         NEW label \in Midway, NEW x, Goto(t, label, x),
         DOMAIN refresh_tokens_by_id \subseteq DOMAIN refresh_tokens_by_id',
         HashesFindRows',
         label \in {"create_hash", "create_family"} => Creating(t)',
         label = "rotate_store" => Rotating(t)',
         label = "sweep" => Sweeping(t)',
         label = "sweep_all" => SweepingAll(t)'
  PROVE  LInv' /\ SeenStep
<1>1. LockTypeOK /\ Exclusion /\ t # None
  BY TaskAssumption DEF LInv
<1>2. /\ holder' = t /\ queue' = queue /\ before' = before /\ reply' = reply
  BY DEF Stay
<1>3. /\ pc'[t] = label /\ local'[t] = x
      /\ \A v \in Task \ {t} : pc'[v] = pc[v] /\ local'[v] = local[v]
      /\ pc' \in [Task -> Method \cup Midway \cup {"idle", "read_row"}]
      /\ local' = [v \in Task |-> local'[v]]
  BY <1>1, GotoMoves
<1>4. label \notin Method /\ label # "read_row"
  BY DEF Method, Midway
<1>5. LockTypeOK'
  BY <1>1, <1>2, <1>3 DEF LockTypeOK
<1>6. Exclusion'
  <2>1. \A k \in DOMAIN queue : queue[k] \in Task \ {t}
    BY <1>1 DEF LockTypeOK, Exclusion
  <2> QED
    BY <1>1, <1>2, <1>3, <2>1 DEF Exclusion
<1>7. HolderProgress'
  <2>1. label \in {"create_hash", "create_family"} => Creating(holder)'
    BY <1>2 DEF Creating
  <2>2. label = "rotate_store" => Rotating(holder)'
    BY <1>2 DEF Rotating
  <2>3. label = "sweep" => Sweeping(holder)'
    BY <1>2 DEF Sweeping
  <2>4. label = "sweep_all" => SweepingAll(holder)'
    BY <1>2 DEF SweepingAll
  <2> QED
    BY <1>2, <1>3, <1>4, <2>1, <2>2, <2>3, <2>4 DEF HolderProgress
<1>8. LookupsFindTheirRow'
  BY <1>3, <1>4, LookupsStillFind DEF LInv
<1>9. Seen' = Seen
  BY <1>1, <1>2, SeenIs, SeenIsNext
<1> QED
  BY <1>2, <1>5, <1>6, <1>7, <1>8, <1>9, UnseenKeepsSeenInv DEF LInv, SeenStep

(* The last statement of a method shows everybody the whole of it. *)
LEMMA LeaveKeepsLInv ==
  ASSUME LInv, NEW t \in Task, holder = t, NEW answer, Leave(t, answer),
         Methods!Next,
         DOMAIN refresh_tokens_by_id \subseteq DOMAIN refresh_tokens_by_id',
         HashesFindRows'
  PROVE  LInv' /\ SeenStep
<1>1. LockTypeOK /\ Exclusion /\ t # None
  BY TaskAssumption DEF LInv
<1>2. /\ holder' = None /\ queue' = queue /\ Goto(t, "idle", None)
  BY DEF Leave
<1>3. /\ pc'[t] = "idle"
      /\ \A v \in Task \ {t} : pc'[v] = pc[v] /\ local'[v] = local[v]
      /\ pc' \in [Task -> Method \cup Midway \cup {"idle", "read_row"}]
      /\ local' = [v \in Task |-> local'[v]]
  BY <1>1, <1>2, GotoMoves
<1>4. LockTypeOK'
  BY <1>1, <1>2, <1>3 DEF LockTypeOK
<1>5. Exclusion'
  <2>1. \A k \in DOMAIN queue : queue[k] \in Task \ {t}
    BY <1>1 DEF LockTypeOK, Exclusion
  <2>2. \A v \in Task : pc'[v] \notin Midway
    BY <1>1, <1>3 DEF Exclusion, Midway
  <2> QED
    BY <1>1, <1>2, <1>3, <2>1, <2>2, TaskAssumption DEF Exclusion
<1>6. HolderProgress'
  BY <1>2 DEF HolderProgress
<1>7. LookupsFindTheirRow'
  BY <1>3, LookupsStillFind DEF LInv
<1>8. RP!IInv'
  BY MethodKeepsSeenInv DEF LInv
<1> QED
  BY <1>4, <1>5, <1>6, <1>7, <1>8 DEF LInv, SeenStep

(* What the table that the holder found looks like. *)
LEMMA RowsBefore ==
  ASSUME LInv, holder # None
  PROVE  /\ DOMAIN before[1] \subseteq Id
         /\ before[1] = [i \in DOMAIN before[1] |-> before[1][i]]
         /\ IsFiniteSet(DOMAIN before[1])
         /\ \A h \in DOMAIN before[2][1] : before[2][1][h] \in DOMAIN before[1]
         /\ \A f \in Family : f \in DOMAIN before[2][2] =>
              before[2][2][f] \subseteq DOMAIN before[1]
         /\ \A i \in DOMAIN before[1], at \in Time :
              ValidToken(Revoked(before[1][i], at))
         /\ \A i \in DOMAIN before[1], at \in Time, successor \in Id :
              before[1][i].status = "active" =>
                ValidToken(Rotated(before[1][i], successor, at))
<1>1. Seen = before
  BY SeenIs
<1>2. RP!IInv
  BY DEF LInv
<1>3. /\ DOMAIN before[1] \subseteq Id
      /\ before[1] \in [DOMAIN before[1] -> RP!Token]
      /\ IsFiniteSet(DOMAIN before[1])
  BY <1>1, <1>2
     DEF RP!IInv, RP!TypeOK, RP!IsFiniteSet, IsFiniteSet
<1>4. /\ \A h \in DOMAIN before[2][1] : before[2][1][h] \in DOMAIN before[1]
      /\ \A f \in Family : f \in DOMAIN before[2][2] =>
           before[2][2][f] \subseteq DOMAIN before[1]
  BY <1>1, <1>2
     DEF RP!IInv, RP!IndexesAgree, RP!HashIndexAgrees, RP!FamilyIndexAgrees,
         RP!IdsOfFamily
<1>5. RP!RebuildsAreValid
  BY <1>2, RP!RebuildsFromIInv, TimeAssumption, NoneAssumption
<1>6. \A i \in DOMAIN before[1], at \in Time, successor \in Id :
        /\ before[1][i].status = "active" =>
             ValidToken(Rotated(before[1][i], successor, at))
        /\ ValidToken(Revoked(before[1][i], at))
  BY <1>1, <1>5
     DEF RP!RebuildsAreValid, RP!ValidToken, ValidToken, RP!Rotated, Rotated,
         RP!Revoked, Revoked
<1>7. \A i \in DOMAIN before[1], at \in Time :
        ValidToken(Revoked(before[1][i], at))
  BY <1>3, <1>6
<1> QED
  BY <1>3, <1>4, <1>6, <1>7

-----------------------------------------------------------------------------
(* create() *)

(* A refused create() has written nothing. *)
LEMMA CreateRefusedKeepsLInv ==
  ASSUME LInv, NEW t \in Task, At(t, "create"), NEW h \in Hash,
         NEW iat \in Time, NEW exp \in Time, CreateRefused(t, h, iat, exp)
  PROVE  LInv' /\ SeenStep
<1>1. holder = t /\ pc[t] = "create" /\ t # None /\ UNCHANGED store
  BY TaskAssumption DEF CreateRefused, At
<1>2. PICK answer : Leave(t, answer)
  BY DEF CreateRefused
<1>3. before = store
  BY <1>1 DEF LInv, HolderProgress, Method
<1>4. /\ Seen = store /\ Seen' = store
      /\ Seen[2][1] = refresh_token_id_by_hash
  BY <1>1, <1>2, <1>3, SeenIs, SeenIsNext DEF Leave, store, indexes
<1>5. Methods!CreateRaises(h, iat, exp)
  BY <1>4
     DEF CreateRefused, Leave, Methods!CreateRaises, Methods!Raised, Raised,
         Methods!store, Methods!indexes
<1>6. Methods!Next
  BY <1>5 DEF Methods!Next
<1>7. /\ HashesFindRows'
      /\ DOMAIN refresh_tokens_by_id' = DOMAIN refresh_tokens_by_id
  BY <1>1, HashesStillFind DEF LInv, store
<1> QED
  BY <1>1, <1>2, <1>6, <1>7, LeaveKeepsLInv

(* The row is written first. *)
LEMMA CreateRowKeepsLInv ==
  ASSUME LInv, NEW t \in Task, At(t, "create"), NEW i \in Id, NEW u \in User,
         NEW n \in Tenant, NEW f \in Family, NEW h \in Hash, NEW iat \in Time,
         NEW exp \in Time,
         CreateRow(t, i, u, n, f, h, iat, exp)
  PROVE  LInv' /\ SeenStep
<1>1. PICK r : r = NewToken(u, n, f, h, iat, exp)
  OBVIOUS
<1>2. /\ holder = t /\ pc[t] = "create" /\ t # None
      /\ h \notin DOMAIN refresh_token_id_by_hash
      /\ i \in Id \ DOMAIN refresh_tokens_by_id
      /\ ValidToken(r)
      /\ refresh_tokens_by_id' = Put(refresh_tokens_by_id, i, r)
      /\ Goto(t, "create_hash", i)
      /\ indexes' = indexes /\ Stay
  BY <1>1, TaskAssumption DEF CreateRow, At
<1>3. /\ before = store
      /\ before[1] = refresh_tokens_by_id
      /\ before[2][1] = refresh_token_id_by_hash
      /\ before[2][2] = refresh_token_ids_by_family
  BY <1>2 DEF LInv, HolderProgress, Method, store, indexes
<1>4. pc'[t] = "create_hash" /\ local'[t] = i
  BY <1>2, GotoMoves DEF LInv, Midway
<1>5. before' = before
  BY <1>2 DEF Stay
<1>6. Creating(t)'
  BY <1>1, <1>2, <1>3, <1>4, <1>5 DEF Creating, indexes
<1>7. DOMAIN refresh_tokens_by_id' = DOMAIN refresh_tokens_by_id \cup {i}
  BY <1>2 DEF Put
<1>8. HashesFindRows'
  BY <1>2, <1>7 DEF LInv, HashesFindRows, indexes
<1> QED
  BY <1>2, <1>6, <1>7, <1>8, InsideKeepsLInv DEF Midway

(* The hash comes second: the row it leads to is there. *)
LEMMA CreateHashKeepsLInv ==
  ASSUME LInv, NEW t \in Task, CreateHash(t)
  PROVE  LInv' /\ SeenStep
<1>1. PICK i : i = local[t]
  OBVIOUS
<1>2. /\ holder = t /\ pc[t] = "create_hash" /\ t # None
      /\ refresh_token_id_by_hash' =
           Put(refresh_token_id_by_hash, refresh_tokens_by_id[i].token_hash, i)
      /\ Goto(t, "create_family", i)
      /\ refresh_tokens_by_id' = refresh_tokens_by_id
      /\ refresh_token_ids_by_family' = refresh_token_ids_by_family
      /\ Stay
  BY <1>1, TaskAssumption DEF CreateHash, At
<1>3. PICK u \in User, n \in Tenant, f \in Family, h \in Hash,
           iat \in Time, exp \in Time :
        /\ ValidToken(NewToken(u, n, f, h, iat, exp))
        /\ i \in Id \ DOMAIN before[1]
        /\ h \notin DOMAIN before[2][1]
        /\ refresh_tokens_by_id =
             Put(before[1], i, NewToken(u, n, f, h, iat, exp))
        /\ refresh_token_id_by_hash = before[2][1]
        /\ refresh_token_ids_by_family = before[2][2]
  BY <1>1, <1>2 DEF LInv, HolderProgress, Creating
<1>4. i \in DOMAIN refresh_tokens_by_id
  BY <1>3 DEF Put
<1>5. refresh_tokens_by_id[i].token_hash = h
  BY <1>3 DEF Put, NewToken
<1>6. refresh_token_id_by_hash' = Put(before[2][1], h, i)
  BY <1>2, <1>3, <1>5
<1>7. pc'[t] = "create_family" /\ local'[t] = i
  BY <1>2, GotoMoves DEF LInv, Midway
<1>8. before' = before
  BY <1>2 DEF Stay
<1>9. Creating(t)'
  <2>1. pc'[t] # "create_hash"
    BY <1>7
  <2> QED
    BY <1>2, <1>3, <1>6, <1>7, <1>8, <2>1 DEF Creating
<1>10. HashesFindRows'
  BY <1>2, <1>4 DEF LInv, HashesFindRows, Put
<1> QED
  BY <1>2, <1>9, <1>10, InsideKeepsLInv DEF Midway

(* The family comes last, and then everybody sees the whole create().      *)
LEMMA CreateFamilyKeepsLInv ==
  ASSUME LInv, NEW t \in Task, CreateFamily(t)
  PROVE  LInv' /\ SeenStep
<1>1. PICK i : i = local[t]
  OBVIOUS
<1>2. /\ holder = t /\ pc[t] = "create_family" /\ t # None
      /\ Leave(t, Returned(1))
      /\ refresh_tokens_by_id' = refresh_tokens_by_id
      /\ refresh_token_id_by_hash' = refresh_token_id_by_hash
  BY TaskAssumption DEF CreateFamily, At
<1>3. PICK u \in User, n \in Tenant, f \in Family, h \in Hash,
           iat \in Time, exp \in Time :
        /\ ValidToken(NewToken(u, n, f, h, iat, exp))
        /\ i \in Id \ DOMAIN before[1]
        /\ h \notin DOMAIN before[2][1]
        /\ refresh_tokens_by_id =
             Put(before[1], i, NewToken(u, n, f, h, iat, exp))
        /\ refresh_token_id_by_hash = Put(before[2][1], h, i)
        /\ refresh_token_ids_by_family = before[2][2]
  BY <1>1, <1>2 DEF LInv, HolderProgress, Creating
<1>4. refresh_tokens_by_id[i].family_id = f
  BY <1>3 DEF Put, NewToken
<1>5. refresh_token_ids_by_family' =
        Put(refresh_token_ids_by_family, f, IdsOfFamily(f) \cup {i})
  BY <1>1, <1>4 DEF CreateFamily
<1>6. /\ Seen = before
      /\ Seen'[1] = refresh_tokens_by_id
      /\ Seen'[2][1] = refresh_token_id_by_hash
      /\ Seen'[2][2] = refresh_token_ids_by_family'
  BY <1>2, SeenIs, SeenIsNext DEF Leave
<1>7. /\ ValidToken(NewToken(u, n, f, h, iat, exp))
          <=> Methods!ValidToken(Methods!NewToken(u, n, f, h, iat, exp))
      /\ NewToken(u, n, f, h, iat, exp) = Methods!NewToken(u, n, f, h, iat, exp)
  BY DEF ValidToken, NewToken, Methods!ValidToken, Methods!NewToken
<1>8. /\ \A d, k, v : Methods!Put(d, k, v) = Put(d, k, v)
      /\ Methods!IdsOfFamily(f) = IdsOfFamily(f)
      /\ Methods!Returned(1) = Returned(1)
  BY <1>3, <1>6
     DEF Methods!Put, Put, Methods!IdsOfFamily, IdsOfFamily,
         Methods!Returned, Returned
<1>9. reply' = Returned(1)
  BY <1>2 DEF Leave
<1>10. Methods!Create(i, u, n, f, h, iat, exp)
  BY <1>3, <1>5, <1>6, <1>7, <1>8, <1>9 DEF Methods!Create
<1>11. Methods!Next
  BY <1>3, <1>10 DEF Methods!Next
<1>12. HashesFindRows'
  BY <1>2 DEF LInv, HashesFindRows
<1> QED
  BY <1>2, <1>11, <1>12, LeaveKeepsLInv

-----------------------------------------------------------------------------
(* mark_rotated() *)

(* A refused mark_rotated() has written nothing. *)
LEMMA RotateRefusedKeepsLInv ==
  ASSUME LInv, NEW t \in Task, At(t, "mark_rotated"), NEW h \in Hash,
         RotateRefused(t, h)
  PROVE  LInv' /\ SeenStep
<1>1. holder = t /\ pc[t] = "mark_rotated" /\ t # None /\ UNCHANGED store
  BY TaskAssumption DEF RotateRefused, At
<1>2. PICK answer : Leave(t, answer)
  BY DEF RotateRefused
<1>3. before = store
  BY <1>1 DEF LInv, HolderProgress, Method
<1>4. /\ Seen = store /\ Seen' = store
      /\ Seen[1] = refresh_tokens_by_id
      /\ Seen[2][1] = refresh_token_id_by_hash
  BY <1>1, <1>2, <1>3, SeenIs, SeenIsNext DEF Leave, store, indexes
<1>5. Methods!MarkRotatedRaises(h)
  BY <1>4
     DEF RotateRefused, Leave, Methods!MarkRotatedRaises,
         Methods!Raised, Raised, Methods!store, Methods!indexes
<1>6. Methods!Next
  BY <1>5 DEF Methods!Next
<1>7. /\ HashesFindRows'
      /\ DOMAIN refresh_tokens_by_id' = DOMAIN refresh_tokens_by_id
  BY <1>1, HashesStillFind DEF LInv, store
<1> QED
  BY <1>1, <1>2, <1>6, <1>7, LeaveKeepsLInv

(* The row is read and rebuilt; nothing is written yet. *)
LEMMA RotateReadKeepsLInv ==
  ASSUME LInv, NEW t \in Task, At(t, "mark_rotated"), NEW h \in Hash,
         NEW successor \in Id, NEW at \in Time, RotateRead(t, h, successor, at)
  PROVE  LInv' /\ SeenStep
<1>1. PICK i, r : /\ i = refresh_token_id_by_hash[h]
                  /\ r = Rotated(refresh_tokens_by_id[i], successor, at)
  OBVIOUS
<1>2. /\ holder = t /\ pc[t] = "mark_rotated" /\ t # None
      /\ h \in DOMAIN refresh_token_id_by_hash
      /\ refresh_tokens_by_id[i].status = "active"
      /\ UNCHANGED store
  BY <1>1, TaskAssumption DEF RotateRead, At
<1>3. before = store
  BY <1>2 DEF LInv, HolderProgress, Method
<1>4. ValidToken(r)
  <2>1. i \in DOMAIN refresh_tokens_by_id
    BY <1>1, <1>2 DEF LInv, HashesFindRows
  <2>2. before[1] = refresh_tokens_by_id
    BY <1>3 DEF store
  <2> QED
    BY <1>1, <1>2, <2>1, <2>2, RowsBefore
<1>5. Goto(t, "rotate_store", <<i, r>>) /\ Stay
  BY <1>1, <1>4 DEF RotateRead
<1>6. local'[t] = <<i, r>>
  BY <1>5, GotoMoves DEF LInv, Midway
<1>7. Rotating(t)'
  BY <1>1, <1>2, <1>3, <1>5, <1>6 DEF Rotating, Stay, store, indexes
<1>8. /\ HashesFindRows'
      /\ DOMAIN refresh_tokens_by_id' = DOMAIN refresh_tokens_by_id
  BY <1>2, HashesStillFind DEF LInv, store
<1> QED
  BY <1>2, <1>5, <1>7, <1>8, InsideKeepsLInv DEF Midway

(* The row that is stored is the one that was read: nobody came between.   *)
LEMMA RotateStoreKeepsLInv ==
  ASSUME LInv, NEW t \in Task, RotateStore(t)
  PROVE  LInv' /\ SeenStep
<1>1. /\ holder = t /\ pc[t] = "rotate_store" /\ t # None
      /\ refresh_tokens_by_id' =
           [refresh_tokens_by_id EXCEPT ![local[t][1]] = local[t][2]]
      /\ Leave(t, Returned(1))
      /\ indexes' = indexes
  BY TaskAssumption DEF RotateStore, At
<1>2. PICK h \in Hash, successor \in Id, at \in Time :
        LET i == refresh_token_id_by_hash[h] IN
          /\ before = store
          /\ h \in DOMAIN refresh_token_id_by_hash
          /\ refresh_tokens_by_id[i].status = "active"
          /\ local[t] =
               <<i, Rotated(refresh_tokens_by_id[i], successor, at)>>
  BY <1>1 DEF LInv, HolderProgress, Rotating
<1>3. PICK i, r, s : /\ i = refresh_token_id_by_hash[h]
                     /\ r = refresh_tokens_by_id[i]
                     /\ s = Rotated(r, successor, at)
  OBVIOUS
<1>4. /\ before[1] = refresh_tokens_by_id
      /\ before[2][1] = refresh_token_id_by_hash
      /\ before[2][2] = refresh_token_ids_by_family
      /\ h \in DOMAIN refresh_token_id_by_hash
      /\ r.status = "active"
      /\ local[t] = <<i, s>>
  BY <1>2, <1>3 DEF store, indexes
<1>5. refresh_tokens_by_id' = [refresh_tokens_by_id EXCEPT ![i] = s]
  BY <1>1, <1>4
<1>6. i \in DOMAIN refresh_tokens_by_id
  BY <1>3, <1>4 DEF LInv, HashesFindRows
<1>7. ValidToken(s)
  BY <1>1, <1>3, <1>4, <1>6, RowsBefore
<1>8. /\ Seen[1] = refresh_tokens_by_id
      /\ Seen[2][1] = refresh_token_id_by_hash
      /\ Seen[2] = Seen'[2]
      /\ Seen'[1] = refresh_tokens_by_id'
  BY <1>1, <1>2, <1>4, SeenIs, SeenIsNext DEF Leave, store, indexes
<1>9. /\ Methods!Rotated(r, successor, at) = s
      /\ Methods!ValidToken(s)
      /\ Methods!Returned(1) = Returned(1)
  BY <1>3, <1>7
     DEF Methods!Rotated, Rotated, Methods!ValidToken, ValidToken,
         Methods!Returned, Returned
<1>10. Methods!MarkRotated(h, successor, at)
  BY <1>1, <1>3, <1>4, <1>5, <1>8, <1>9
     DEF Methods!MarkRotated, Methods!indexes, Leave
<1>11. Methods!Next
  BY <1>10 DEF Methods!Next
<1>12. DOMAIN refresh_tokens_by_id' = DOMAIN refresh_tokens_by_id
  BY <1>5
<1>13. HashesFindRows'
  BY <1>1, <1>12 DEF LInv, HashesFindRows, indexes
<1> QED
  BY <1>1, <1>11, <1>12, <1>13, LeaveKeepsLInv

-----------------------------------------------------------------------------
(* revoke_family() *)

(* The rows of the table a sweep has reached. *)
Swept(seen, at) ==
  [i \in DOMAIN before[1] |->
     IF i \in LiveBefore(seen) THEN Revoked(before[1][i], at)
                               ELSE before[1][i]]

(* The loop begins with nothing seen. *)
LEMMA SweepBeginKeepsLInv ==
  ASSUME LInv, NEW t \in Task, NEW f \in Family, NEW at \in Time,
         SweepBegin(t, f, at)
  PROVE  LInv' /\ SeenStep
<1>1. PICK x : x = [family |-> f, at |-> at, seen |-> {}, count |-> 0]
  OBVIOUS
<1>2. /\ holder = t /\ pc[t] = "revoke_family" /\ t # None
      /\ Goto(t, "sweep", x)
      /\ UNCHANGED store /\ Stay
  BY <1>1, TaskAssumption DEF SweepBegin, At
<1>3. before = store
  BY <1>2 DEF LInv, HolderProgress, Method
<1>4. local'[t] = x
  BY <1>2, GotoMoves DEF LInv, Midway
<1>5. LiveBefore({}) = {} /\ Cardinality({}) = 0
  BY FS_EmptySet DEF LiveBefore
<1>6. refresh_tokens_by_id = Swept({}, at)
  <2>1. before[1] = refresh_tokens_by_id
    BY <1>3 DEF store
  <2>2. before[1] = [i \in DOMAIN before[1] |-> before[1][i]]
    BY <1>2, RowsBefore
  <2> QED
    BY <1>5, <2>1, <2>2 DEF Swept
<1>7. before[2] = indexes
  BY <1>3 DEF store
<1>8. Sweeping(t)'
  <2>1. /\ before' = before /\ indexes' = indexes
        /\ refresh_tokens_by_id' = refresh_tokens_by_id
        /\ \A S : LiveBefore(S)' = LiveBefore(S)
    BY <1>2 DEF Stay, store, LiveBefore
  <2>2. x = [family |-> f, at |-> at, seen |-> {},
             count |-> Cardinality(LiveBefore({}))]
    BY <1>1, <1>5
  <2>3. {} \in SUBSET IdsOfFamily(f)'
    OBVIOUS
  <2> QED
    BY <1>4, <1>6, <1>7, <2>1, <2>2, <2>3 DEF Sweeping, Swept
<1>9. /\ HashesFindRows'
      /\ DOMAIN refresh_tokens_by_id' = DOMAIN refresh_tokens_by_id
  BY <1>2, HashesStillFind DEF LInv, store
<1> QED
  BY <1>2, <1>8, <1>9, InsideKeepsLInv DEF Midway

(* What a round of the loop finds: the row it takes is still as it was     *)
(* when the method began.                                                  *)
Takes(t, i, f, at, seen) ==
  /\ local[t] = [family |-> f, at |-> at, seen |-> seen,
                 count |-> Cardinality(LiveBefore(seen))]
  /\ refresh_tokens_by_id = Swept(seen, at)
  /\ before[2] = indexes
  /\ i \in IdsOfFamily(f) \ seen
  /\ i \in DOMAIN refresh_tokens_by_id
  /\ refresh_tokens_by_id[i] = before[1][i]
  /\ IsFiniteSet(LiveBefore(seen))

(* It finds that, of some family. *)
LEMMA SweepTakesRow ==
  ASSUME LInv, NEW t \in Task, At(t, "sweep"), NEW i, i \in Unseen(t)
  PROVE  \E f \in Family, at \in Time : \E seen \in SUBSET IdsOfFamily(f) :
           Takes(t, i, f, at, seen)
<1>1. holder = t /\ pc[t] = "sweep" /\ holder # None
  BY TaskAssumption DEF At
<1>2. PICK f \in Family, at \in Time : \E seen \in SUBSET IdsOfFamily(f) :
        /\ local[t] = [family |-> f, at |-> at, seen |-> seen,
                       count |-> Cardinality(LiveBefore(seen))]
        /\ refresh_tokens_by_id = Swept(seen, at)
        /\ before[2] = indexes
  BY <1>1 DEF LInv, HolderProgress, Sweeping, Swept
<1>3. PICK seen \in SUBSET IdsOfFamily(f) :
        /\ local[t] = [family |-> f, at |-> at, seen |-> seen,
                       count |-> Cardinality(LiveBefore(seen))]
        /\ refresh_tokens_by_id = Swept(seen, at)
        /\ before[2] = indexes
  BY <1>2
<1>4. IdsOfFamily(f) \subseteq DOMAIN before[1]
  BY <1>1, <1>3, RowsBefore DEF IdsOfFamily, indexes
<1>5. i \in IdsOfFamily(f) \ seen
  BY <1>3 DEF Unseen
<1>6. /\ i \in DOMAIN refresh_tokens_by_id
      /\ refresh_tokens_by_id[i] = before[1][i]
  BY <1>3, <1>4, <1>5 DEF Swept, LiveBefore
<1>7. IsFiniteSet(LiveBefore(seen))
  <2>1. LiveBefore(seen) \subseteq DOMAIN before[1]
    BY <1>4 DEF LiveBefore
  <2> QED
    BY <1>1, <2>1, RowsBefore, FS_Subset
<1> QED
  BY <1>3, <1>5, <1>6, <1>7 DEF Takes

(* One round later the loop has seen one more row, and counted it if it    *)
(* had to be revoked.                                                      *)
LEMMA RoundKeepsLInv ==
  ASSUME LInv, NEW t \in Task, holder = t, Stay, indexes' = indexes,
         NEW f \in Family, NEW at \in Time, NEW seen \in SUBSET IdsOfFamily(f),
         Goto(t, "sweep", [family |-> f, at |-> at, seen |-> seen,
                           count |-> Cardinality(LiveBefore(seen))]),
         refresh_tokens_by_id' = Swept(seen, at),
         DOMAIN refresh_tokens_by_id = DOMAIN before[1],
         before[2] = indexes
  PROVE  LInv' /\ SeenStep
<1>1. PICK x : x = [family |-> f, at |-> at, seen |-> seen,
                    count |-> Cardinality(LiveBefore(seen))]
  OBVIOUS
<1>2. Goto(t, "sweep", x)
  BY <1>1
<1>3. local'[t] = x
  BY <1>2, GotoMoves DEF LInv, Midway
<1>4. /\ before' = before
      /\ \A S : LiveBefore(S)' = LiveBefore(S)
      /\ IdsOfFamily(f)' = IdsOfFamily(f)
  BY DEF Stay, LiveBefore, IdsOfFamily, indexes
<1>5. Sweeping(t)'
  BY <1>1, <1>3, <1>4 DEF Sweeping, Swept
<1>6. DOMAIN refresh_tokens_by_id' = DOMAIN refresh_tokens_by_id
  BY DEF Swept
<1>7. HashesFindRows'
  BY <1>6 DEF LInv, HashesFindRows, indexes
<1> QED
  BY <1>2, <1>5, <1>6, <1>7, InsideKeepsLInv DEF Midway

(* A round that skips a revoked row. *)
LEMMA SweepSkipKeepsLInv ==
  ASSUME LInv, NEW t \in Task, NEW i, SweepSkip(t, i)
  PROVE  LInv' /\ SeenStep
<1>1. /\ At(t, "sweep") /\ holder = t /\ i \in Unseen(t)
      /\ refresh_tokens_by_id[i].status = "revoked"
      /\ Goto(t, "sweep", [local[t] EXCEPT !.seen = @ \cup {i}])
      /\ UNCHANGED store /\ Stay
  BY DEF SweepSkip, At
<1>2. PICK f \in Family, at \in Time : \E seen \in SUBSET IdsOfFamily(f) :
        Takes(t, i, f, at, seen)
  BY <1>1, SweepTakesRow
<1>3. PICK seen \in SUBSET IdsOfFamily(f) : Takes(t, i, f, at, seen)
  BY <1>2
<1>4. PICK more, c :
        /\ more \in SUBSET IdsOfFamily(f)
        /\ more = seen \cup {i} /\ c = Cardinality(LiveBefore(seen))
  BY <1>3 DEF Takes
<1>5. LiveBefore(more) = LiveBefore(seen)
  BY <1>1, <1>3, <1>4 DEF LiveBefore, Takes
<1>6. local[t] = [family |-> f, at |-> at, seen |-> seen, count |-> c]
  BY <1>3, <1>4 DEF Takes
<1>7. [local[t] EXCEPT !.seen = @ \cup {i}] =
        [family |-> f, at |-> at, seen |-> more, count |-> c]
  BY <1>4, <1>6
<1>8. Goto(t, "sweep", [family |-> f, at |-> at, seen |-> more,
                        count |-> Cardinality(LiveBefore(more))])
  BY <1>1, <1>4, <1>5, <1>7
<1>9. /\ refresh_tokens_by_id' = Swept(more, at)
      /\ DOMAIN refresh_tokens_by_id = DOMAIN before[1]
      /\ before[2] = indexes /\ indexes' = indexes
  BY <1>1, <1>3, <1>5 DEF Swept, Takes, store
<1> QED
  BY <1>1, <1>4, <1>8, <1>9, RoundKeepsLInv

(* A round that revokes a row. *)
LEMMA SweepRowKeepsLInv ==
  ASSUME LInv, NEW t \in Task, NEW i, SweepRow(t, i)
  PROVE  LInv' /\ SeenStep
<1>1. /\ At(t, "sweep") /\ holder = t /\ i \in Unseen(t)
      /\ refresh_tokens_by_id[i].status # "revoked"
      /\ Rewrite(t, i, Revoked(refresh_tokens_by_id[i], local[t].at), "sweep",
                 [local[t] EXCEPT !.seen = @ \cup {i}, !.count = @ + 1])
  BY DEF SweepRow, At
<1>2. PICK f \in Family, at \in Time : \E seen \in SUBSET IdsOfFamily(f) :
        Takes(t, i, f, at, seen)
  BY <1>1, SweepTakesRow
<1>3. PICK seen \in SUBSET IdsOfFamily(f) : Takes(t, i, f, at, seen)
  BY <1>2
<1>4. PICK more, c :
        /\ more \in SUBSET IdsOfFamily(f)
        /\ more = seen \cup {i} /\ c = Cardinality(LiveBefore(seen))
  BY <1>3 DEF Takes
<1>5. LiveBefore(more) = LiveBefore(seen) \cup {i} /\ i \notin LiveBefore(seen)
  BY <1>1, <1>3, <1>4 DEF LiveBefore, Takes
<1>6. Cardinality(LiveBefore(more)) = c + 1
  BY <1>3, <1>4, <1>5, FS_AddElement DEF Takes
<1>7. local[t] = [family |-> f, at |-> at, seen |-> seen, count |-> c]
  BY <1>3, <1>4 DEF Takes
<1>8. [local[t] EXCEPT !.seen = @ \cup {i}, !.count = @ + 1] =
        [family |-> f, at |-> at, seen |-> more, count |-> c + 1]
  <2>1. PICK d : d = c + 1
    OBVIOUS
  <2>2. local[t].count + 1 = d
    BY <1>7, <2>1
  <2>3. PICK q : q = [local[t] EXCEPT !.seen = @ \cup {i}]
    OBVIOUS
  <2>4. q = [family |-> f, at |-> at, seen |-> more, count |-> c]
    BY <1>4, <1>7, <2>3
  <2>5. [local[t] EXCEPT !.seen = @ \cup {i}, !.count = @ + 1] =
          [q EXCEPT !.count = d]
    BY <2>2, <2>3, Zenon
  <2>6. [q EXCEPT !.count = d] =
          [family |-> f, at |-> at, seen |-> more, count |-> d]
    BY <2>4
  <2> QED
    BY <2>1, <2>5, <2>6
<1>9. DOMAIN refresh_tokens_by_id = DOMAIN before[1] /\ before[2] = indexes
  BY <1>3 DEF Swept, Takes
<1>10. PICK r : r = Revoked(before[1][i], at)
  OBVIOUS
<1>11. r = Revoked(refresh_tokens_by_id[i], local[t].at)
  BY <1>3, <1>7, <1>10 DEF Takes
<1>12. holder # None
  BY <1>1, TaskAssumption
<1>13. ValidToken(r)
  BY <1>3, <1>9, <1>10, <1>12, RowsBefore DEF Takes
<1>14. /\ refresh_tokens_by_id' = [refresh_tokens_by_id EXCEPT ![i] = r]
       /\ Goto(t, "sweep", [local[t] EXCEPT !.seen = @ \cup {i},
                                            !.count = @ + 1])
       /\ indexes' = indexes /\ Stay
  BY <1>1, <1>11, <1>13 DEF Rewrite
<1>15. Goto(t, "sweep", [family |-> f, at |-> at, seen |-> more,
                         count |-> Cardinality(LiveBefore(more))])
  BY <1>6, <1>8, <1>14
<1>16. refresh_tokens_by_id' = Swept(more, at)
  BY <1>3, <1>5, <1>10, <1>14 DEF Swept, Takes
<1> QED
  BY <1>1, <1>4, <1>9, <1>14, <1>15, <1>16, RoundKeepsLInv

(* The end of a sweep that has revoked the rows of S that had to be, and   *)
(* returns their number, is seen as a whole sweep over S.                  *)
LEMMA SweepIsSeen ==
  ASSUME LInv, NEW t \in Task, holder = t,
         NEW S \in SUBSET DOMAIN before[1], NEW at \in Time,
         Leave(t, Returned(Cardinality(LiveBefore(S)))), UNCHANGED store,
         refresh_tokens_by_id = Swept(S, at), before[2] = indexes
  PROVE  /\ Methods!Sweep(S, at)
         /\ Seen = before
         /\ HashesFindRows'
         /\ DOMAIN refresh_tokens_by_id' = DOMAIN refresh_tokens_by_id
<1>1. holder # None
  BY TaskAssumption
<1>2. PICK live : live = LiveBefore(S)
  OBVIOUS
<1>3. /\ Seen = before
      /\ Seen'[1] = Swept(S, at)
      /\ Seen'[2] = Seen[2]
  BY <1>1, SeenIs, SeenIsNext DEF Leave, store, indexes
<1>4. /\ \A i \in live : Methods!ValidToken(Methods!Revoked(before[1][i], at))
      /\ \A i \in DOMAIN before[1] :
           Methods!Revoked(before[1][i], at) = Revoked(before[1][i], at)
  BY <1>1, <1>2, RowsBefore
     DEF LiveBefore, Methods!ValidToken, ValidToken, Methods!Revoked, Revoked
<1>5. reply' = Methods!Returned(Methods!Cardinality(live))
  <2>1. \A R : Methods!Cardinality(R) = Cardinality(R)
    BY DEF Methods!Cardinality, Cardinality
  <2> QED
    BY <1>2, <2>1 DEF Leave, Methods!Returned, Returned
<1>6. Seen'[1] = [i \in DOMAIN before[1] |->
                    IF i \in live THEN Methods!Revoked(before[1][i], at)
                                  ELSE before[1][i]]
  BY <1>2, <1>3, <1>4 DEF Swept
<1>7. live = {i \in S : before[1][i].status # "revoked"}
  BY <1>2 DEF LiveBefore
<1>8. Methods!Sweep(S, at)
  <2> DEFINE Done(done) ==
               /\ \A i \in done :
                    Methods!ValidToken(Methods!Revoked(before[1][i], at))
               /\ done # live => \E i \in live \ done :
                    ~Methods!ValidToken(Methods!Revoked(before[1][i], at))
               /\ Seen'[1] = [i \in DOMAIN before[1] |->
                     IF i \in done THEN Methods!Revoked(before[1][i], at)
                                   ELSE before[1][i]]
               /\ reply' = IF done = live
                           THEN Methods!Returned(Methods!Cardinality(done))
                           ELSE Methods!Raised("ValidationError")
               /\ UNCHANGED Methods!indexes
  <2>1. UNCHANGED Methods!indexes
    BY <1>3 DEF Methods!indexes
  <2>2. Done(live)
    BY <1>4, <1>5, <1>6, <2>1
  <2>3. \E done \in SUBSET live : Done(done)
    BY <2>2
  <2> QED
    BY <1>3, <1>7, <2>3 DEF Methods!Sweep
<1>9. /\ HashesFindRows'
      /\ DOMAIN refresh_tokens_by_id' = DOMAIN refresh_tokens_by_id
  BY HashesStillFind DEF LInv, store
<1> QED
  BY <1>3, <1>8, <1>9

(* The loop ends when every row of the family has been seen: then          *)
(* everybody sees the whole sweep, and its count.                          *)
LEMMA SweepEndKeepsLInv ==
  ASSUME LInv, NEW t \in Task, SweepEnd(t)
  PROVE  LInv' /\ SeenStep
<1>1. /\ holder = t /\ pc[t] = "sweep" /\ t # None
      /\ Unseen(t) = {}
      /\ Leave(t, Returned(local[t].count))
      /\ UNCHANGED store
  BY TaskAssumption DEF SweepEnd, At
<1>2. PICK f \in Family, at \in Time : \E seen \in SUBSET IdsOfFamily(f) :
        /\ local[t] = [family |-> f, at |-> at, seen |-> seen,
                       count |-> Cardinality(LiveBefore(seen))]
        /\ refresh_tokens_by_id = Swept(seen, at)
        /\ before[2] = indexes
  BY <1>1 DEF LInv, HolderProgress, Sweeping, Swept
<1>3. PICK seen \in SUBSET IdsOfFamily(f) :
        /\ local[t] = [family |-> f, at |-> at, seen |-> seen,
                       count |-> Cardinality(LiveBefore(seen))]
        /\ refresh_tokens_by_id = Swept(seen, at)
        /\ before[2] = indexes
  BY <1>2
<1>4. seen = IdsOfFamily(f)
  <2>1. local[t].family = f /\ local[t].seen = seen
    BY <1>3
  <2>2. IdsOfFamily(f) \ seen = {}
    BY <1>1, <2>1 DEF Unseen
  <2> QED
    BY <2>2
<1>5. seen \in SUBSET DOMAIN before[1]
  BY <1>1, <1>3, <1>4, RowsBefore DEF IdsOfFamily, indexes
<1>6. Leave(t, Returned(Cardinality(LiveBefore(seen))))
  BY <1>1, <1>3
<1>7. /\ Methods!Sweep(seen, at)
      /\ Seen = before
      /\ HashesFindRows'
      /\ DOMAIN refresh_tokens_by_id' = DOMAIN refresh_tokens_by_id
  BY <1>1, <1>3, <1>5, <1>6, SweepIsSeen
<1>8. Methods!IdsOfFamily(f) = seen
  BY <1>3, <1>4, <1>7 DEF Methods!IdsOfFamily, IdsOfFamily, indexes
<1>9. Methods!Next
  BY <1>7, <1>8 DEF Methods!Next, Methods!RevokeFamily
<1> QED
  BY <1>1, <1>6, <1>7, <1>9, LeaveKeepsLInv

-----------------------------------------------------------------------------
(* revoke_all_active() *)

(* The loop begins with all its rows left. *)
LEMMA SweepAllBeginKeepsLInv ==
  ASSUME LInv, NEW t \in Task, NEW u \in User, NEW n \in Tenant,
         NEW at \in Time, SweepAllBegin(t, u, n, at)
  PROVE  LInv' /\ SeenStep
<1>1. PICK scope, x :
        /\ scope = {i \in DOMAIN refresh_tokens_by_id :
                     /\ refresh_tokens_by_id[i].user_id = u
                     /\ refresh_tokens_by_id[i].tenant_id = n
                     /\ refresh_tokens_by_id[i].status # "revoked"}
        /\ x = [rows |-> Restrict(refresh_tokens_by_id, scope),
                at |-> at, count |-> 0]
  OBVIOUS
<1>2. /\ holder = t /\ pc[t] = "revoke_all_active" /\ t # None
      /\ Goto(t, "sweep_all", x)
      /\ UNCHANGED store /\ Stay
  BY <1>1, TaskAssumption DEF SweepAllBegin, At
<1>3. before = store
  BY <1>2 DEF LInv, HolderProgress, Method
<1>4. local'[t] = x
  BY <1>2, GotoMoves DEF LInv, Midway
<1>5. before[1] = refresh_tokens_by_id /\ before[2] = indexes
  BY <1>3 DEF store
<1>6. PICK owned : owned = LiveBefore(OwnedBefore(u, n))
  OBVIOUS
<1>7. owned = scope
  BY <1>1, <1>5, <1>6 DEF LiveBefore, OwnedBefore
<1>8. x = [rows |-> Restrict(before[1], owned \ {}),
           at |-> at, count |-> Cardinality({})]
  <2>1. owned \ {} = owned /\ Cardinality({}) = 0
    BY FS_EmptySet
  <2> QED
    BY <1>1, <1>5, <1>7, <2>1
<1>9. refresh_tokens_by_id =
        [i \in DOMAIN before[1] |-> IF i \in {} THEN Revoked(before[1][i], at)
                                               ELSE before[1][i]]
  BY <1>2, <1>5, RowsBefore
<1>10. SweepingAll(t)'
  <2>1. /\ before' = before /\ indexes' = indexes
        /\ refresh_tokens_by_id' = refresh_tokens_by_id
        /\ LiveBefore(OwnedBefore(u, n))' = owned
    BY <1>2, <1>6 DEF Stay, store, LiveBefore, OwnedBefore
  <2>2. {} \in SUBSET owned
    OBVIOUS
  <2> QED
    BY <1>4, <1>5, <1>8, <1>9, <2>1, <2>2 DEF SweepingAll, Restrict
<1>11. /\ HashesFindRows'
       /\ DOMAIN refresh_tokens_by_id' = DOMAIN refresh_tokens_by_id
  BY <1>2, HashesStillFind DEF LInv, store
<1> QED
  BY <1>2, <1>10, <1>11, InsideKeepsLInv DEF Midway

(* A round revokes one of the rows that are left, from its copied record,  *)
(* which is still what the table holds.                                    *)
LEMMA SweepAllRowKeepsLInv ==
  ASSUME LInv, NEW t \in Task, NEW i, SweepAllRow(t, i)
  PROVE  LInv' /\ SeenStep
<1>1. /\ holder = t /\ pc[t] = "sweep_all" /\ holder # None
      /\ i \in DOMAIN local[t].rows
      /\ Rewrite(t, i, Revoked(local[t].rows[i], local[t].at), "sweep_all",
                 [local[t] EXCEPT !.rows = Restrict(@, DOMAIN @ \ {i}),
                                  !.count = @ + 1])
  BY TaskAssumption DEF SweepAllRow, At
<1>2. PICK u \in User, n \in Tenant, at \in Time :
        \E done \in SUBSET LiveBefore(OwnedBefore(u, n)) :
          /\ local[t] = [rows |-> Restrict(before[1],
                                      LiveBefore(OwnedBefore(u, n)) \ done),
                         at |-> at, count |-> Cardinality(done)]
          /\ refresh_tokens_by_id =
               [j \in DOMAIN before[1] |->
                  IF j \in done THEN Revoked(before[1][j], at)
                                ELSE before[1][j]]
          /\ before[2] = indexes
  BY <1>1 DEF LInv, HolderProgress, SweepingAll
<1>3. PICK owned : owned = LiveBefore(OwnedBefore(u, n))
  OBVIOUS
<1>4. PICK done \in SUBSET owned :
        /\ local[t] = [rows |-> Restrict(before[1], owned \ done),
                       at |-> at, count |-> Cardinality(done)]
        /\ refresh_tokens_by_id =
             [j \in DOMAIN before[1] |->
                IF j \in done THEN Revoked(before[1][j], at)
                              ELSE before[1][j]]
        /\ before[2] = indexes
  BY <1>2, <1>3
<1>5. owned \subseteq DOMAIN before[1]
  BY <1>3 DEF LiveBefore, OwnedBefore
<1>6. PICK rows, c : /\ rows = Restrict(before[1], owned \ done)
                     /\ c = Cardinality(done)
  OBVIOUS
<1>7. /\ DOMAIN rows = owned \ done
      /\ \A j \in owned \ done : rows[j] = before[1][j]
  BY <1>6 DEF Restrict
<1>8. local[t] = [rows |-> rows, at |-> at, count |-> c]
  BY <1>4, <1>6
<1>9. /\ i \in owned \ done /\ i \in DOMAIN before[1]
      /\ local[t].rows[i] = before[1][i] /\ local[t].at = at
  <2>1. local[t].rows = rows /\ local[t].at = at
    BY <1>8
  <2> QED
    BY <1>1, <1>5, <1>7, <2>1
<1>10. PICK r : r = Revoked(before[1][i], at)
  OBVIOUS
<1>11. ValidToken(r)
  BY <1>1, <1>9, <1>10, RowsBefore
<1>12. PICK more, fewer :
         /\ more = done \cup {i}
         /\ fewer = Restrict(before[1], owned \ more)
  OBVIOUS
<1>13. Cardinality(more) = c + 1
  <2>1. IsFiniteSet(done)
    BY <1>1, <1>5, RowsBefore, FS_Subset
  <2> QED
    BY <1>6, <1>9, <1>12, <2>1, FS_AddElement
<1>14. fewer = Restrict(rows, DOMAIN rows \ {i})
  <2>1. DOMAIN rows \ {i} = owned \ more
    BY <1>7, <1>12
  <2>2. \A j \in owned \ more : rows[j] = before[1][j]
    BY <1>7, <1>12
  <2> QED
    BY <1>12, <2>1, <2>2 DEF Restrict
<1>15. [local[t] EXCEPT !.rows = Restrict(@, DOMAIN @ \ {i}),
                        !.count = @ + 1] =
         [rows |-> fewer, at |-> at, count |-> Cardinality(more)]
  <2>1. PICK d, q : d = c + 1 /\ q = [local[t] EXCEPT !.rows = fewer]
    OBVIOUS
  <2>2. local[t].count + 1 = d /\ local[t].rows = rows
    BY <1>8, <2>1
  <2>3. q = [rows |-> fewer, at |-> at, count |-> c]
    BY <1>8, <2>1
  <2>4. [local[t] EXCEPT !.rows = Restrict(@, DOMAIN @ \ {i}),
                         !.count = @ + 1] = [q EXCEPT !.count = d]
    BY <1>14, <2>1, <2>2, Zenon
  <2>5. [q EXCEPT !.count = d] = [rows |-> fewer, at |-> at, count |-> d]
    BY <2>3
  <2>6. d = Cardinality(more)
    BY <1>13, <2>1
  <2> QED
    BY <2>4, <2>5, <2>6
<1>16. /\ refresh_tokens_by_id' = [refresh_tokens_by_id EXCEPT ![i] = r]
       /\ Goto(t, "sweep_all",
               [rows |-> fewer, at |-> at, count |-> Cardinality(more)])
       /\ indexes' = indexes /\ Stay
  <2>1. Revoked(local[t].rows[i], local[t].at) = r
    BY <1>9, <1>10
  <2> QED
    BY <1>1, <1>11, <1>15, <2>1 DEF Rewrite
<1>17. refresh_tokens_by_id' =
         [j \in DOMAIN before[1] |-> IF j \in more THEN Revoked(before[1][j], at)
                                                  ELSE before[1][j]]
  BY <1>4, <1>9, <1>10, <1>12, <1>16
<1>18. SweepingAll(t)'
  <2>1. PICK x : x = [rows |-> fewer, at |-> at, count |-> Cardinality(more)]
    OBVIOUS
  <2>2. local'[t] = x
    BY <1>16, <2>1, GotoMoves DEF LInv, Midway
  <2>3. before' = before /\ LiveBefore(OwnedBefore(u, n))' = owned
    BY <1>3, <1>16 DEF Stay, LiveBefore, OwnedBefore
  <2>4. more \in SUBSET owned
    BY <1>9, <1>12
  <2> QED
    BY <1>4, <1>12, <1>16, <1>17, <2>1, <2>2, <2>3, <2>4
    DEF SweepingAll, Restrict
<1>19. DOMAIN refresh_tokens_by_id' = DOMAIN refresh_tokens_by_id
  BY <1>16
<1>20. HashesFindRows'
  BY <1>16, <1>19 DEF LInv, HashesFindRows, indexes
<1> QED
  BY <1>1, <1>16, <1>18, <1>19, <1>20, InsideKeepsLInv DEF Midway

(* The loop ends when no row is left.                                      *)
LEMMA SweepAllEndKeepsLInv ==
  ASSUME LInv, NEW t \in Task, SweepAllEnd(t)
  PROVE  LInv' /\ SeenStep
<1>1. /\ holder = t /\ pc[t] = "sweep_all" /\ holder # None
      /\ DOMAIN local[t].rows = {}
      /\ Leave(t, Returned(local[t].count))
      /\ UNCHANGED store
  BY TaskAssumption DEF SweepAllEnd, At
<1>2. PICK u \in User, n \in Tenant, at \in Time :
        \E done \in SUBSET LiveBefore(OwnedBefore(u, n)) :
          /\ local[t] = [rows |-> Restrict(before[1],
                                      LiveBefore(OwnedBefore(u, n)) \ done),
                         at |-> at, count |-> Cardinality(done)]
          /\ refresh_tokens_by_id =
               [j \in DOMAIN before[1] |->
                  IF j \in done THEN Revoked(before[1][j], at)
                                ELSE before[1][j]]
          /\ before[2] = indexes
  BY <1>1 DEF LInv, HolderProgress, SweepingAll
<1>3. PICK S : S = OwnedBefore(u, n)
  OBVIOUS
<1>4. PICK done \in SUBSET LiveBefore(S) :
        /\ local[t] = [rows |-> Restrict(before[1], LiveBefore(S) \ done),
                       at |-> at, count |-> Cardinality(done)]
        /\ refresh_tokens_by_id =
             [j \in DOMAIN before[1] |->
                IF j \in done THEN Revoked(before[1][j], at)
                              ELSE before[1][j]]
        /\ before[2] = indexes
  BY <1>2, <1>3
<1>5. done = LiveBefore(S)
  <2>1. local[t].rows = Restrict(before[1], LiveBefore(S) \ done)
    BY <1>4
  <2>2. LiveBefore(S) \ done = {}
    BY <1>1, <2>1 DEF Restrict
  <2> QED
    BY <2>2
<1>6. S \in SUBSET DOMAIN before[1]
  BY <1>3 DEF OwnedBefore
<1>7. Leave(t, Returned(Cardinality(LiveBefore(S))))
  BY <1>1, <1>4, <1>5
<1>8. refresh_tokens_by_id = Swept(S, at)
  BY <1>4, <1>5 DEF Swept
<1>9. /\ Methods!Sweep(S, at)
      /\ Seen = before
      /\ HashesFindRows'
      /\ DOMAIN refresh_tokens_by_id' = DOMAIN refresh_tokens_by_id
  BY <1>1, <1>4, <1>6, <1>7, <1>8, SweepIsSeen
<1>10. S = {i \in DOMAIN Seen[1] : /\ Seen[1][i].user_id = u
                                   /\ Seen[1][i].tenant_id = n}
  BY <1>3, <1>9 DEF OwnedBefore
<1>11. Methods!Next
  BY <1>9, <1>10 DEF Methods!Next, Methods!RevokeAllActive
<1> QED
  BY <1>1, <1>7, <1>9, <1>11, LeaveKeepsLInv

-----------------------------------------------------------------------------
(* The invariant, and what everybody sees *)

(* Nobody is inside a new lock, or waits for it. *)
LEMMA InitImpliesLInv == LockInit => LInv /\ Methods!Init
<1> SUFFICES ASSUME LockInit PROVE LInv /\ Methods!Init
  OBVIOUS
<1>1. /\ Init /\ holder = None /\ queue = <<>>
      /\ pc = [t \in Task |-> "idle"]
      /\ local = [t \in Task |-> None]
  BY DEF LockInit
<1>2. Methods!Init
  BY <1>1, SeenIs DEF Init, Methods!Init, Returned, Methods!Returned
<1>3. RP!IInv
  BY <1>2, SameMethods, RP!InitImpliesIInv, TimeAssumption, NoneAssumption
<1>4. LockTypeOK
  BY <1>1 DEF LockTypeOK
<1>5. Exclusion
  BY <1>1 DEF Exclusion, Midway
<1>6. HolderProgress
  BY <1>1 DEF HolderProgress
<1>7. HashesFindRows /\ LookupsFindTheirRow
  BY <1>1 DEF Init, HashesFindRows, LookupsFindTheirRow
<1> QED
  BY <1>2, <1>3, <1>4, <1>5, <1>6, <1>7 DEF LInv

(* Whatever a call does once it has begun keeps the invariant, and is seen *)
(* as a whole method or not at all.                                        *)
LEMMA ResumeKeepsLInv ==
  ASSUME LInv, NEW t \in Task, Resume(t)
  PROVE  LInv' /\ SeenStep
<1>1. CASE Wake(t)
  BY <1>1, WakeKeepsLInv
<1>2. CASE CreateBegin(t)
  <2>1. At(t, "create")
    BY <1>2 DEF CreateBegin
  <2>2. ASSUME NEW h \in Hash, NEW iat \in Time, NEW exp \in Time,
               CreateRefused(t, h, iat, exp)
        PROVE  LInv' /\ SeenStep
    BY <2>1, <2>2, CreateRefusedKeepsLInv
  <2>3. ASSUME NEW i \in Id, NEW u \in User, NEW n \in Tenant,
               NEW f \in Family, NEW h \in Hash, NEW iat \in Time,
               NEW exp \in Time, CreateRow(t, i, u, n, f, h, iat, exp)
        PROVE  LInv' /\ SeenStep
    BY <2>1, <2>3, CreateRowKeepsLInv
  <2> QED
    BY <1>2, <2>2, <2>3 DEF CreateBegin
<1>3. CASE CreateHash(t)
  BY <1>3, CreateHashKeepsLInv
<1>4. CASE CreateFamily(t)
  BY <1>4, CreateFamilyKeepsLInv
<1>5. CASE MarkRotatedBegin(t)
  <2>1. At(t, "mark_rotated")
    BY <1>5 DEF MarkRotatedBegin
  <2>2. ASSUME NEW h \in Hash, RotateRefused(t, h) PROVE LInv' /\ SeenStep
    BY <2>1, <2>2, RotateRefusedKeepsLInv
  <2>3. ASSUME NEW h \in Hash, NEW successor \in Id, NEW at \in Time,
               RotateRead(t, h, successor, at)
        PROVE  LInv' /\ SeenStep
    BY <2>1, <2>3, RotateReadKeepsLInv
  <2> QED
    BY <1>5, <2>2, <2>3 DEF MarkRotatedBegin
<1>6. CASE RotateStore(t)
  BY <1>6, RotateStoreKeepsLInv
<1>7. ASSUME NEW f \in Family, NEW at \in Time, SweepBegin(t, f, at)
      PROVE  LInv' /\ SeenStep
  BY <1>7, SweepBeginKeepsLInv
<1>8. ASSUME NEW u \in User, NEW n \in Tenant, NEW at \in Time,
             SweepAllBegin(t, u, n, at)
      PROVE  LInv' /\ SeenStep
  BY <1>8, SweepAllBeginKeepsLInv
<1>9. ASSUME NEW i \in Id, SweepSkip(t, i) PROVE LInv' /\ SeenStep
  BY <1>9, SweepSkipKeepsLInv
<1>10. ASSUME NEW i \in Id, SweepRow(t, i) PROVE LInv' /\ SeenStep
  BY <1>10, SweepRowKeepsLInv
<1>11. ASSUME NEW i \in Id, SweepAllRow(t, i) PROVE LInv' /\ SeenStep
  BY <1>11, SweepAllRowKeepsLInv
<1>12. CASE SweepEnd(t)
  BY <1>12, SweepEndKeepsLInv
<1>13. CASE SweepAllEnd(t)
  BY <1>13, SweepAllEndKeepsLInv
<1>14. CASE ReadRow(t)
  BY <1>14, LookupKeepsLInv
<1> QED
  BY <1>1, <1>2, <1>3, <1>4, <1>5, <1>6, <1>7, <1>8, <1>9, <1>10, <1>11,
     <1>12, <1>13, <1>14 DEF Resume

(* Nothing changes. *)
LEMMA StutteringKeepsLInv ==
  ASSUME LInv, UNCHANGED lockVars
  PROVE  LInv' /\ SeenStep
<1>1. UNCHANGED <<store, reply, holder, queue, before, pc, local>>
  BY DEF lockVars, vars
<1>2. LockTypeOK' /\ Exclusion'
  BY <1>1 DEF LInv, LockTypeOK, Exclusion
<1>3. HolderProgress'
  BY <1>1, ProgressStays DEF LInv
<1>4. LookupsFindTheirRow' /\ HashesFindRows'
  BY <1>1, HashesStillFind DEF LInv, LookupsFindTheirRow, store
<1>5. Seen' = Seen
  BY <1>1, SeenIs, SeenIsNext
<1> QED
  BY <1>1, <1>2, <1>3, <1>4, <1>5, UnseenKeepsSeenInv DEF LInv, SeenStep

(* Every step keeps the invariant, and is seen as a method or not at all.  *)
LEMMA NextKeepsLInv ==
  LInv /\ [LockNext]_lockVars => LInv' /\ [Methods!Next]_Methods!vars
<1> SUFFICES ASSUME LInv, [LockNext]_lockVars PROVE LInv' /\ SeenStep
  BY DEF SeenStep
<1>1. ASSUME NEW t \in Task, NEW method \in Method, Enter(t, method)
      PROVE  LInv' /\ SeenStep
  BY <1>1, EnterKeepsLInv
<1>2. ASSUME NEW t \in Task, NEW h \in Hash, ReadIndex(t, h)
      PROVE  LInv' /\ SeenStep
  BY <1>2, LookupKeepsLInv
<1>3. ASSUME NEW t \in Task, Resume(t) PROVE LInv' /\ SeenStep
  BY <1>3, ResumeKeepsLInv
<1>4. ASSUME NEW t \in Task, CancelWaiting(t) PROVE LInv' /\ SeenStep
  BY <1>4, CancelWaitingKeepsLInv
<1>5. CASE UNCHANGED lockVars
  BY <1>5, StutteringKeepsLInv
<1> QED
  BY <1>1, <1>2, <1>3, <1>4, <1>5 DEF LockNext, Call

(* The invariant holds in every state that calls can reach. *)
LEMMA LockInvariance == LockSpec => []LInv
  BY InitImpliesLInv, NextKeepsLInv, PTL DEF LockSpec

-----------------------------------------------------------------------------
(* Theorems *)

(* The id that a lookup found in the hash index, without the lock, always  *)
(* leads to a row, whatever methods are half way through their writes.     *)
THEOREM LookupsAlwaysFindTheirRow == LockSpec => []LookupsFindTheirRow
  BY LockInvariance, PTL DEF LInv

(* With the lock, a method that awaits between its statements is still one *)
(* step of RefreshTokens: StoreLock implements it, under Seen.             *)
THEOREM LockMakesMethodsAtomic == LockSpec => ImplementsMethods
<1>1. LockSpec => Methods!Init
  BY InitImpliesLInv DEF LockSpec
<1>2. LockSpec => [][Methods!Next]_Methods!vars
  BY LockInvariance, NextKeepsLInv, PTL DEF LockSpec
<1> QED
  BY <1>1, <1>2 DEF ImplementsMethods, Methods!Spec
=============================================================================
