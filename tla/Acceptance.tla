------------------------------ MODULE Acceptance ------------------------------
(***************************************************************************)
(* Concurrent acceptances of invitations: Invitations and Memberships      *)
(* together, and a clock.  The endpoints are empty files.  An acceptance   *)
(* reads the clock and looks the token up, and then makes two awaited      *)
(* calls, mark_accepted() and the create() of a membership; the Protocol   *)
(* "deliberately does not fix an ordering between them", so a behaviour    *)
(* has either order.  Nothing removes a membership or reopens an           *)
(* invitation.                                                             *)
(***************************************************************************)
EXTENDS Invitations, Sequences

CONSTANTS
  User, MembershipId,    \* UUIDs, as are Id and Tenant
  MaxVersion,
  Task

VARIABLES
  memberships_by_id, membership_id_by_user_tenant, membership_ids_by_user,
  acceptFirst,  \* whether mark_accepted() comes before create()
  now,
  pc,        \* what each task calls next
  picked,    \* the invitation it accepts
  joining,   \* the user it accepts for
  started,   \* the time it has read
  admitted,  \* history: the user each invitation was accepted for
  abandoned  \* history: those whose request was cancelled before it joined

M == INSTANCE Memberships WITH Id <- MembershipId

memberVars == <<memberships_by_id, membership_id_by_user_tenant,
                membership_ids_by_user>>
locals == <<pc, picked, joining, started>>
history == <<admitted, abandoned>>
acceptVars == <<vars, memberVars, acceptFirst, now, locals, history>>

(* What no request changes. *)
Fixed == UNCHANGED <<acceptFirst, now>>

Goto(t, label, i, u, at) ==
  /\ pc' = [pc EXCEPT ![t] = label]
  /\ picked' = [picked EXCEPT ![t] = i]
  /\ joining' = [joining EXCEPT ![t] = u]
  /\ started' = [started EXCEPT ![t] = at]

Forget(t) == Goto(t, "idle", None, None, None)

GoOn(t, label) == Goto(t, label, picked[t], joining[t], started[t])

Invited(t) == invitations_by_id[picked[t]]

-----------------------------------------------------------------------------
Tick ==
  /\ now + 1 \in Time
  /\ now' = now + 1
  /\ UNCHANGED <<vars, memberVars, acceptFirst, locals, history>>

Invite(i, n, role, h, exp) ==
  /\ Create(i, n, role, h, now, exp)
  /\ UNCHANGED <<memberVars, locals, history>>
  /\ Fixed

AcceptLookup(t, u, h) ==
  /\ pc[t] = "idle"
  /\ h \in HashesThatAre("pending")
  /\ Goto(t, IF acceptFirst THEN "accept" ELSE "join",
          invitation_id_by_token_hash[h], u, now)
  /\ UNCHANGED <<vars, memberVars, history>>
  /\ Fixed

\* Mutant: the acceptance is all the request does.
AcceptOnly(t) ==
  /\ pc[t] = "accept"
  /\ MarkAccepted(picked[t], started[t])
  /\ admitted' = Put(admitted, picked[t], joining[t])
  /\ Forget(t)
  /\ UNCHANGED <<memberVars, abandoned>>
  /\ Fixed

(* After the second of the two calls the request is over. *)
Accept(t) ==
  /\ pc[t] = "accept"
  /\ MarkAccepted(picked[t], started[t])
  /\ admitted' = Put(admitted, picked[t], joining[t])
  /\ IF acceptFirst THEN GoOn(t, "join") ELSE Forget(t)
  /\ UNCHANGED <<memberVars, abandoned>>
  /\ Fixed

AcceptRefused(t) ==
  /\ pc[t] = "accept"
  /\ MarkAcceptedRaises(picked[t], started[t])
  /\ Forget(t)
  /\ UNCHANGED <<memberVars, history>>
  /\ Fixed

Join(t, m) ==
  /\ pc[t] = "join"
  /\ M!Create(m, joining[t], Invited(t).tenant_id, Invited(t).role)
  /\ IF acceptFirst THEN Forget(t) ELSE GoOn(t, "accept")
  /\ UNCHANGED <<store, history>>
  /\ Fixed

\* Mutant: the error is not looked at, and the invitation is used up.
JoinRefusedGoesOn(t) ==
  /\ pc[t] = "join"
  /\ M!CreateRaises(joining[t], Invited(t).tenant_id)
  /\ GoOn(t, "accept")
  /\ UNCHANGED <<store, history>>
  /\ Fixed

JoinRefused(t) ==
  /\ pc[t] = "join"
  /\ M!CreateRaises(joining[t], Invited(t).tenant_id)
  /\ Forget(t)
  /\ UNCHANGED <<store, history>>
  /\ Fixed

(* A request may be cancelled between any two calls. *)
Abandon(t) ==
  /\ pc[t] # "idle"
  /\ abandoned' = abandoned \cup {i \in {picked[t]} : pc[t] = "join"}
  /\ Forget(t)
  /\ UNCHANGED <<vars, memberVars, admitted>>
  /\ Fixed

-----------------------------------------------------------------------------
AcceptanceInit ==
  /\ Init /\ M!Init
  /\ acceptFirst \in BOOLEAN
  /\ now \in {at \in Time : \A other \in Time : at <= other}
  /\ pc = [t \in Task |-> "idle"]
  /\ picked = [t \in Task |-> None]
  /\ joining = [t \in Task |-> None]
  /\ started = [t \in Task |-> None]
  /\ admitted = <<>>
  /\ abandoned = {}

(* What the event loop does for a request that has looked its token up. *)
Resume(t) ==
  \/ Accept(t)
  \/ AcceptRefused(t)
  \/ \E m \in MembershipId : Join(t, m)
  \/ JoinRefused(t)

AcceptanceNext ==
  \/ Tick
  \/ \E i \in Id, n \in Tenant, role \in Role, h \in Hash,
        exp \in Time : Invite(i, n, role, h, exp)
  \/ \E t \in Task :
       \/ \E u \in User, h \in Hash : AcceptLookup(t, u, h)
       \/ Resume(t)
       \/ Abandon(t)

AcceptanceSpec == AcceptanceInit /\ [][AcceptanceNext]_acceptVars

(* The event loop resumes every request whose call has returned. *)
FairAcceptanceSpec ==
  AcceptanceSpec /\ \A t \in Task : WF_acceptVars(Resume(t))

-----------------------------------------------------------------------------
(* Properties *)

MemberAs(u, n, role) ==
  \E m \in DOMAIN memberships_by_id :
    /\ M!GetByUserAndTenant(u, n) = m
    /\ memberships_by_id[m].role = role

(* Accepting first: whatever requests overlap or are cancelled, a member   *)
(* joined on an invitation of its own, to that tenant and in that role.    *)
EveryMemberWasAdmitted ==
  acceptFirst => \A m \in DOMAIN memberships_by_id :
    \E i \in DOMAIN admitted :
      /\ admitted[i] = memberships_by_id[m].user_id
      /\ invitations_by_id[i].tenant_id = memberships_by_id[m].tenant_id
      /\ invitations_by_id[i].role = memberships_by_id[m].role

(* Accepting first: "all-or-nothing behaviour across those two state       *)
(* changes" (invitation_repository.py), as far as two calls can have it:   *)
(* unless the request is cancelled, whoever an invitation was accepted for *)
(* becomes a member of that tenant, whatever other requests do.            *)
AdmittedBecomeMembers ==
  \A i \in Id, u \in User :
    (acceptFirst /\ i \in DOMAIN admitted /\ admitted[i] = u) ~>
      (\/ i \in abandoned
       \/ /\ i \in DOMAIN invitations_by_id
          /\ M!GetByUserAndTenant(u, invitations_by_id[i].tenant_id) # None)

(* Joining first: no invitation is used up in vain, cancelled or not.  The *)
(* user it was accepted for is a member in the invited role, and by that   *)
(* invitation only: one who is a member already keeps the token unused.    *)
NothingAcceptedInVain ==
  ~acceptFirst => \A i \in DOMAIN admitted :
    LET n == invitations_by_id[i].tenant_id IN
      /\ MemberAs(admitted[i], n, invitations_by_id[i].role)
      /\ \A j \in DOMAIN admitted \ {i} :
           admitted[j] = admitted[i] => invitations_by_id[j].tenant_id # n
=============================================================================
