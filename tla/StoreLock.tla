------------------------------ MODULE StoreLock -------------------------------
(***************************************************************************)
(* The lock of InMemoryIdentityStore at work, statement by statement, for  *)
(* all methods of the refresh-token repository: those that write hold the  *)
(* lock, the lookup reads two dicts without it.  At this commit no method awaits anything while it holds   *)
(* the lock, and its body is one step; store.py adds the lock so that      *)
(* atomicity is not "an accident of the current implementation having no   *)
(* await points".  Here every statement may be such a point.  Readers take *)
(* no lock.  A waiting call may be cancelled; a call inside the lock has   *)
(* nothing to be cancelled at.                                             *)
(*                                                                         *)
(* The arguments of a call are chosen by the statement that uses them.     *)
(***************************************************************************)
EXTENDS RefreshTokens, SequencesExt

CONSTANT Task

ASSUME TaskAssumption == None \notin Task

VARIABLES
  holder,  \* the task inside the lock, or None
  queue,   \* asyncio.Lock: the waiting tasks, first come first served
  before,  \* history: the three dicts when the holder entered, or None
  pc,      \* the statement each task is at
  local    \* what a method remembers from one statement to the next

lockVars == <<vars, holder, queue, before, pc, local>>

Goto(t, label, x) ==
  /\ pc' = [pc EXCEPT ![t] = label]
  /\ local' = [local EXCEPT ![t] = x]

Method == {"create", "mark_rotated", "revoke_family", "revoke_all_active"}

-----------------------------------------------------------------------------
(* The lock *)

\* Mutant: the lock is taken whoever holds it.
EnterAnyway(t, method) ==
  /\ pc[t] = "idle"
  /\ Goto(t, method, None)
  /\ holder' = t
  /\ before' = store
  /\ UNCHANGED <<vars, queue>>

(* "async with lock": a free lock is taken at once unless somebody waits. *)
Enter(t, method) ==
  /\ pc[t] = "idle"
  /\ Goto(t, method, None)
  /\ IF holder = None /\ queue = <<>>
     THEN holder' = t /\ before' = store /\ UNCHANGED queue
     ELSE queue' = Append(queue, t) /\ UNCHANGED <<holder, before>>
  /\ UNCHANGED vars

Wake(t) ==
  /\ holder = None
  /\ queue # <<>> /\ Head(queue) = t
  /\ holder' = t
  /\ before' = store
  /\ queue' = Tail(queue)
  /\ UNCHANGED <<vars, pc, local>>

\* Mutant: a cancelled waiter keeps its place in the queue.
CancelKeepsPlace(t) ==
  /\ Contains(queue, t)
  /\ Goto(t, "idle", None)
  /\ UNCHANGED <<vars, holder, queue, before>>

CancelWaiting(t) ==
  /\ \E k \in DOMAIN queue : queue[k] = t /\ queue' = RemoveAt(queue, k)
  /\ Goto(t, "idle", None)
  /\ UNCHANGED <<vars, holder, before>>

(* The end of a method: it returns or raises, and gives the lock up. *)
Leave(t, answer) ==
  /\ reply' = answer
  /\ holder' = None
  /\ before' = None
  /\ Goto(t, "idle", None)
  /\ UNCHANGED queue

At(t, label) == holder = t /\ pc[t] = label

Stay == UNCHANGED <<reply, holder, queue, before>>

-----------------------------------------------------------------------------
(* create() *)

CreateRefused(t, h, iat, exp) ==
  /\ \/ /\ h \in DOMAIN refresh_token_id_by_hash
        /\ Leave(t, Raised("DuplicateEntryError"))
     \/ /\ h \notin DOMAIN refresh_token_id_by_hash
        /\ exp <= iat
        /\ Leave(t, Raised("ValidationError"))
  /\ UNCHANGED store

CreateRow(t, i, u, n, f, h, iat, exp) ==
  /\ h \notin DOMAIN refresh_token_id_by_hash
  /\ i \in Id \ DOMAIN refresh_tokens_by_id
  /\ ValidToken(NewToken(u, n, f, h, iat, exp))
  /\ refresh_tokens_by_id' =
       Put(refresh_tokens_by_id, i, NewToken(u, n, f, h, iat, exp))
  /\ Goto(t, "create_hash", i)
  /\ UNCHANGED indexes
  /\ Stay

CreateBegin(t) ==
  /\ At(t, "create")
  /\ \E h \in Hash, iat, exp \in Time :
       \/ CreateRefused(t, h, iat, exp)
       \/ \E i \in Id, u \in User, n \in Tenant, f \in Family :
            CreateRow(t, i, u, n, f, h, iat, exp)

CreateHash(t) ==
  /\ At(t, "create_hash")
  /\ refresh_token_id_by_hash' =
       Put(refresh_token_id_by_hash,
           refresh_tokens_by_id[local[t]].token_hash, local[t])
  /\ Goto(t, "create_family", local[t])
  /\ UNCHANGED <<refresh_tokens_by_id, refresh_token_ids_by_family>>
  /\ Stay

CreateFamily(t) ==
  /\ At(t, "create_family")
  /\ LET f == refresh_tokens_by_id[local[t]].family_id IN
       refresh_token_ids_by_family' =
         Put(refresh_token_ids_by_family, f, IdsOfFamily(f) \cup {local[t]})
  /\ Leave(t, Returned(1))
  /\ UNCHANGED <<refresh_tokens_by_id, refresh_token_id_by_hash>>

-----------------------------------------------------------------------------
(* mark_rotated() *)

RotateRefused(t, h) ==
  /\ \/ /\ h \notin DOMAIN refresh_token_id_by_hash
        /\ Leave(t, Raised("RecordNotFoundError"))
     \/ /\ h \in DOMAIN refresh_token_id_by_hash
        /\ refresh_tokens_by_id[refresh_token_id_by_hash[h]].status # "active"
        /\ Leave(t, Raised("ConcurrentUpdateError"))
  /\ UNCHANGED store

(* The row is read and rebuilt; the constructor may raise. *)
RotateRead(t, h, successor, at) ==
  /\ h \in DOMAIN refresh_token_id_by_hash
  /\ LET i == refresh_token_id_by_hash[h]
         r == Rotated(refresh_tokens_by_id[i], successor, at)
     IN /\ refresh_tokens_by_id[i].status = "active"
        /\ IF ValidToken(r)
           THEN Goto(t, "rotate_store", <<i, r>>) /\ Stay
           ELSE Leave(t, Raised("ValidationError"))
  /\ UNCHANGED store

MarkRotatedBegin(t) ==
  /\ At(t, "mark_rotated")
  /\ \E h \in Hash :
       \/ RotateRefused(t, h)
       \/ \E successor \in Id, at \in Time : RotateRead(t, h, successor, at)

RotateStore(t) ==
  /\ At(t, "rotate_store")
  /\ refresh_tokens_by_id' =
       [refresh_tokens_by_id EXCEPT ![local[t][1]] = local[t][2]]
  /\ Leave(t, Returned(1))
  /\ UNCHANGED indexes

-----------------------------------------------------------------------------
(* revoke_family(): one row of the live set per round, in any order *)

(* A round of a sweep stores the rebuilt row r, and goes on with x.        *)
(* Should the constructor refuse r, the method ends there: the rows it has *)
(* already revoked stay revoked.                                           *)
Rewrite(t, i, r, label, x) ==
  /\ IF ValidToken(r)
     THEN /\ refresh_tokens_by_id' = [refresh_tokens_by_id EXCEPT ![i] = r]
          /\ Goto(t, label, x)
          /\ Stay
     ELSE /\ Leave(t, Raised("ValidationError"))
          /\ UNCHANGED refresh_tokens_by_id
  /\ UNCHANGED indexes

SweepBegin(t, f, at) ==
  /\ At(t, "revoke_family")
  /\ Goto(t, "sweep", [family |-> f, at |-> at, seen |-> {}, count |-> 0])
  /\ UNCHANGED store
  /\ Stay

Unseen(t) == IdsOfFamily(local[t].family) \ local[t].seen

SweepSkip(t, i) ==
  /\ At(t, "sweep")
  /\ i \in Unseen(t)
  /\ refresh_tokens_by_id[i].status = "revoked"
  /\ Goto(t, "sweep", [local[t] EXCEPT !.seen = @ \cup {i}])
  /\ UNCHANGED store
  /\ Stay

\* Mutant: the row is taken out of the table.
SweepDeletes(t, i) ==
  /\ At(t, "sweep")
  /\ i \in Unseen(t)
  /\ refresh_tokens_by_id[i].status # "revoked"
  /\ refresh_tokens_by_id' =
       [j \in DOMAIN refresh_tokens_by_id \ {i} |-> refresh_tokens_by_id[j]]
  /\ Goto(t, "sweep", [local[t] EXCEPT !.seen = @ \cup {i},
                                       !.count = @ + 1])
  /\ UNCHANGED indexes
  /\ Stay

SweepRow(t, i) ==
  /\ At(t, "sweep")
  /\ i \in Unseen(t)
  /\ refresh_tokens_by_id[i].status # "revoked"
  /\ Rewrite(t, i, Revoked(refresh_tokens_by_id[i], local[t].at), "sweep",
             [local[t] EXCEPT !.seen = @ \cup {i}, !.count = @ + 1])

SweepEnd(t) ==
  /\ At(t, "sweep")
  /\ Unseen(t) = {}
  /\ Leave(t, Returned(local[t].count))
  /\ UNCHANGED store

-----------------------------------------------------------------------------
(* revoke_all_active(): a loop over the records as they were at its start  *)

(* list(...) copies the items of the table, so the condition of the loop,  *)
(* which reads the copied records only, can pick them all at once.         *)
SweepAllBegin(t, u, n, at) ==
  /\ At(t, "revoke_all_active")
  /\ LET scope == {i \in DOMAIN refresh_tokens_by_id :
                     /\ refresh_tokens_by_id[i].user_id = u
                     /\ refresh_tokens_by_id[i].tenant_id = n
                     /\ refresh_tokens_by_id[i].status # "revoked"}
     IN Goto(t, "sweep_all", [rows |-> Restrict(refresh_tokens_by_id, scope),
                              at |-> at, count |-> 0])
  /\ UNCHANGED store
  /\ Stay

SweepAllRow(t, i) ==
  /\ At(t, "sweep_all")
  /\ i \in DOMAIN local[t].rows
  /\ Rewrite(t, i, Revoked(local[t].rows[i], local[t].at), "sweep_all",
             [local[t] EXCEPT !.rows = Restrict(@, DOMAIN @ \ {i}),
                              !.count = @ + 1])

SweepAllEnd(t) ==
  /\ At(t, "sweep_all")
  /\ DOMAIN local[t].rows = {}
  /\ Leave(t, Returned(local[t].count))
  /\ UNCHANGED store

-----------------------------------------------------------------------------
(* get_by_token_hash(): the index, then the table, without the lock *)

ReadIndex(t, h) ==
  /\ pc[t] = "idle"
  /\ h \in DOMAIN refresh_token_id_by_hash
  /\ Goto(t, "read_row", refresh_token_id_by_hash[h])
  /\ UNCHANGED store
  /\ Stay

ReadRow(t) ==
  /\ pc[t] = "read_row"
  /\ local[t] \in DOMAIN refresh_tokens_by_id
  /\ Goto(t, "idle", None)
  /\ UNCHANGED store
  /\ Stay

-----------------------------------------------------------------------------
LockInit ==
  /\ Init
  /\ holder = None
  /\ queue = <<>>
  /\ before = None
  /\ pc = [t \in Task |-> "idle"]
  /\ local = [t \in Task |-> None]

Call(t) ==
  \/ \E method \in Method : Enter(t, method)
  \/ \E h \in Hash : ReadIndex(t, h)

(* What the event loop does for a call that has begun. *)
Resume(t) ==
  \/ Wake(t)
  \/ CreateBegin(t)
  \/ CreateHash(t)
  \/ CreateFamily(t)
  \/ MarkRotatedBegin(t)
  \/ RotateStore(t)
  \/ \E f \in Family, at \in Time : SweepBegin(t, f, at)
  \/ \E u \in User, n \in Tenant, at \in Time : SweepAllBegin(t, u, n, at)
  \/ \E i \in Id : SweepSkip(t, i) \/ SweepRow(t, i) \/ SweepAllRow(t, i)
  \/ SweepEnd(t)
  \/ SweepAllEnd(t)
  \/ ReadRow(t)

LockNext == \E t \in Task : Call(t) \/ Resume(t) \/ CancelWaiting(t)

LockSpec == LockInit /\ [][LockNext]_lockVars

(* The event loop runs every task that is ready, one that is woken too. *)
FairLockSpec == LockSpec /\ \A t \in Task : WF_lockVars(Resume(t))

-----------------------------------------------------------------------------
(* Properties *)

(* The store as everybody who respects the lock sees it. *)
Seen == IF holder = None THEN store ELSE before

Methods == INSTANCE RefreshTokens WITH
             refresh_tokens_by_id <- Seen[1],
             refresh_token_id_by_hash <- Seen[2][1],
             refresh_token_ids_by_family <- Seen[2][2]

(* "This makes that guarantee real" (store.py): if every statement were an *)
(* await point, each method would still be one step of RefreshTokens, the  *)
(* loop of revoke_family() over a live set and that of revoke_all_active() *)
(* over copied records included.                                           *)
ImplementsMethods == Methods!Spec

(* A lookup takes no lock and may fall between two writes of a method; the *)
(* id it found in the index never leads to a missing row (a KeyError).     *)
LookupsFindTheirRow ==
  \A t \in Task :
    pc[t] = "read_row" => local[t] \in DOMAIN refresh_tokens_by_id

(* No call waits for ever, however calls are cancelled and new ones come:  *)
(* every method gives the lock up and the next in the queue gets it.       *)
EveryCallEnds == \A t \in Task : pc[t] # "idle" ~> pc[t] = "idle"
=============================================================================
