--------------------------- MODULE RefreshSessions ---------------------------
(***************************************************************************)
(* Concurrent requests over the refresh-token repository.  The services    *)
(* that will serve them (services/refresh_token_service.py, api/v1/auth.py)*)
(* are still empty files, so the callers are modelled from the repository  *)
(* they have to go through:                                                *)
(*   - a token's id is made inside create(), so its row must exist before  *)
(*     mark_rotated() can name it as the successor: a refresh is a lookup, *)
(*     a create() and a mark_rotated(), in that order;                     *)
(*   - get_by_token_hash() returns a copy, on whose status the caller      *)
(*     decides: active may rotate, rotated is a reuse and ends the family, *)
(*     revoked is refused;                                                 *)
(*   - ConcurrentUpdateError means the transition is rejected.             *)
(* Each call is awaited, so other tasks run between any two of them, and a *)
(* task may be cancelled there.  A raw token reaches a client only once    *)
(* the request that made it has succeeded: the row is then delivered, and  *)
(* only delivered tokens are ever presented.                               *)
(***************************************************************************)
EXTENDS RefreshTokens

CONSTANT Task

VARIABLES
  pc,          \* what each task calls next
  seen,        \* its copy of the row it looked up
  successor,   \* the id of the row its refresh has created
  delivered,   \* history: the rows whose raw token a client was given
  ended        \* history: the families a revocation has returned for

locals == <<pc, seen, successor>>
history == <<delivered, ended>>
sessionVars == <<vars, locals, history>>

\* Mutant: the tenant is taken from the wrong field.
SnapshotMixed(r) == [user_id |-> r.user_id, tenant_id |-> r.user_id,
                     family_id |-> r.family_id, token_hash |-> r.token_hash]

(* The fields of the copy that a task goes on to use. *)
Snapshot(r) == [user_id |-> r.user_id, tenant_id |-> r.tenant_id,
                family_id |-> r.family_id, token_hash |-> r.token_hash]

Snapshots == [user_id: User, tenant_id: Tenant,
              family_id: Family, token_hash: Hash]

InFamily(f) == {i \in DOMAIN refresh_tokens_by_id :
                  refresh_tokens_by_id[i].family_id = f}

OwnedBy(u, t) == {i \in DOMAIN refresh_tokens_by_id :
                    /\ refresh_tokens_by_id[i].user_id = u
                    /\ refresh_tokens_by_id[i].tenant_id = t}

(* get_by_token_hash() for a token some client holds; None otherwise.      *)
GetByTokenHash(h) ==
  IF h \in DOMAIN refresh_token_id_by_hash
  THEN refresh_tokens_by_id[refresh_token_id_by_hash[h]]
  ELSE None

Presentable == {refresh_tokens_by_id[i].token_hash : i \in delivered}

Forget(t) ==
  /\ pc' = [pc EXCEPT ![t] = "idle"]
  /\ seen' = [seen EXCEPT ![t] = None]
  /\ successor' = [successor EXCEPT ![t] = None]

-----------------------------------------------------------------------------
(* Login opens a family under a new family_id. *)
Login(t, i, u, n, f, h, iat, exp) ==
  /\ pc[t] = "idle"
  /\ InFamily(f) = {}
  /\ Create(i, u, n, f, h, iat, exp)
  /\ delivered' = delivered \cup {i}
  /\ UNCHANGED <<locals, ended>>

(* Refresh, first call: the lookup, and the decision on the copy's status. *)
RefreshLookup(t, h) ==
  /\ pc[t] = "idle"
  /\ h \in Presentable
  /\ LET r == GetByTokenHash(h) IN
       /\ \/ r.status = "active" /\ pc' = [pc EXCEPT ![t] = "issue"]
          \/ r.status = "rotated" /\ pc' = [pc EXCEPT ![t] = "end"]
       /\ seen' = [seen EXCEPT ![t] = Snapshot(r)]
  /\ UNCHANGED <<vars, successor, history>>

(* Second call: the new row, in the family of the copy. *)
RefreshIssue(t, i, h, iat, exp) ==
  /\ pc[t] = "issue"
  /\ Create(i, seen[t].user_id, seen[t].tenant_id, seen[t].family_id,
            h, iat, exp)
  /\ pc' = [pc EXCEPT ![t] = "rotate"]
  /\ successor' = [successor EXCEPT ![t] = i]
  /\ UNCHANGED <<seen, history>>

(* Third call: only now is the new token handed out. *)
RefreshRotate(t, at) ==
  /\ pc[t] = "rotate"
  /\ MarkRotated(seen[t].token_hash, successor[t], at)
  /\ delivered' = delivered \cup {successor[t]}
  /\ Forget(t)
  /\ UNCHANGED ended

(* Somebody else was faster: the row made by RefreshIssue stays behind. *)
RefreshRejected(t) ==
  /\ pc[t] = "rotate"
  /\ MarkRotatedRaises(seen[t].token_hash)
  /\ Forget(t)
  /\ UNCHANGED history

LogoutLookup(t, h) ==
  /\ pc[t] = "idle"
  /\ h \in Presentable
  /\ pc' = [pc EXCEPT ![t] = "end"]
  /\ seen' = [seen EXCEPT ![t] = Snapshot(GetByTokenHash(h))]
  /\ UNCHANGED <<vars, successor, history>>

(* Logout, or a reuse that was detected. *)
EndFamily(t, at) ==
  /\ pc[t] = "end"
  /\ RevokeFamily(seen[t].family_id, at)
  /\ ended' = IF reply'.error = None
              THEN ended \cup {seen[t].family_id} ELSE ended
  /\ Forget(t)
  /\ UNCHANGED delivered

LogoutAll(t, u, n, at) ==
  /\ pc[t] = "idle"
  /\ RevokeAllActive(u, n, at)
  /\ ended' = IF reply'.error = None
              THEN ended \cup {refresh_tokens_by_id[i].family_id :
                                 i \in OwnedBy(u, n)}
              ELSE ended
  /\ UNCHANGED <<locals, delivered>>

(* The task is cancelled, or fails, between two calls. *)
Abandon(t) ==
  /\ pc[t] # "idle"
  /\ Forget(t)
  /\ UNCHANGED <<vars, history>>

-----------------------------------------------------------------------------
SessionsInit ==
  /\ Init
  /\ pc = [t \in Task |-> "idle"]
  /\ seen = [t \in Task |-> None]
  /\ successor = [t \in Task |-> None]
  /\ delivered = {}
  /\ ended = {}

Step(t) ==
  \/ \E i \in Id, u \in User, n \in Tenant, f \in Family, h \in Hash,
        iat, exp \in Time : Login(t, i, u, n, f, h, iat, exp)
  \/ \E h \in Hash : RefreshLookup(t, h) \/ LogoutLookup(t, h)
  \/ \E i \in Id, h \in Hash, iat, exp \in Time :
       RefreshIssue(t, i, h, iat, exp)
  \/ \E at \in Time : RefreshRotate(t, at) \/ EndFamily(t, at)
  \/ RefreshRejected(t)
  \/ \E u \in User, n \in Tenant, at \in Time : LogoutAll(t, u, n, at)
  \/ Abandon(t)

SessionsNext == \E t \in Task : Step(t)

SessionsSpec == SessionsInit /\ [][SessionsNext]_sessionVars

-----------------------------------------------------------------------------
(* Properties *)

(* The tokens of a family that a client holds and a refresh would accept. *)
Usable(f) == {i \in delivered :
                /\ refresh_tokens_by_id[i].family_id = f
                /\ refresh_tokens_by_id[i].status = "active"}

(* The local state of every task and the history variables. *)
SessionsTypeOK ==
  /\ pc \in [Task -> {"idle", "issue", "rotate", "end"}]
  /\ seen \in [Task -> Snapshots \cup {None}]
  /\ successor \in [Task -> Id \cup {None}]
  /\ delivered \subseteq DOMAIN refresh_tokens_by_id
  /\ ended \subseteq Family

(* However the refreshes of one token interleave, clients never hold two   *)
(* usable tokens of a family: "concurrent attempts to rotate the same      *)
(* token must not both succeed".                                           *)
AtMostOneUsable ==
  \A f \in Family : \A i, j \in Usable(f) : i = j

(* Once a revocation of the family has returned, no client holds a usable  *)
(* token of it, not even from a refresh that was already under way.        *)
EndedStaysEnded == \A f \in ended : Usable(f) = {}

Replaces(i, j) == refresh_tokens_by_id[i].replaced_by_token_id = j

(* replaced_by_token_id draws one chain per family: from a delivered token *)
(* to a delivered token of the same owner and family, no token succeeding  *)
(* two, no cycle, and a single first token, however much was revoked.      *)
ChainsWellFormed ==
  /\ \A i \in DOMAIN refresh_tokens_by_id :
       LET r == refresh_tokens_by_id[i]
           j == r.replaced_by_token_id
       IN j # None =>
            /\ {i, j} \subseteq delivered
            /\ r.family_id = refresh_tokens_by_id[j].family_id
            /\ r.user_id = refresh_tokens_by_id[j].user_id
            /\ r.tenant_id = refresh_tokens_by_id[j].tenant_id
            /\ \A k \in DOMAIN refresh_tokens_by_id : Replaces(k, j) => k = i
  /\ \A S \in (SUBSET delivered) \ {{}} :
       \E i \in S : refresh_tokens_by_id[i].replaced_by_token_id \notin S
  /\ \A f \in Family : \A i, j \in delivered \cap InFamily(f) :
       (\A k \in delivered : ~Replaces(k, i) /\ ~Replaces(k, j)) => i = j

(* The sessions implement SessionChain. *)
Chain == INSTANCE SessionChain WITH
           Token <- Id,
           usable <- [f \in Family |-> Usable(f)],
           issued <- delivered,
           opened <- {refresh_tokens_by_id[i].family_id : i \in delivered},
           ended <- ended

(* Seen by clients, every run of the requests is a run of SessionChain.    *)
ImplementsSessionChain == Chain!Spec
=============================================================================
