----------------------------- MODULE Permissions -----------------------------
(***************************************************************************)
(* The fixed role mapping of constants/permissions.py and the policy of    *)
(* PermissionService: pure operators on the two records that a caller      *)
(* holds.  A membership carries its user's id; the user's own id is the    *)
(* key its record is stored under, and comes as an argument.               *)
(***************************************************************************)

Role == {"owner", "dispatcher", "technician"}

Permission == {"billing:manage", "schedule:read", "members:invite"}

ROLE_PERMISSIONS ==
  [owner |-> {"billing:manage", "schedule:read", "members:invite"},
   dispatcher |-> {"schedule:read", "members:invite"},
   technician |-> {"schedule:read"}]

permissions_for_role(role) == ROLE_PERMISSIONS[role]

SOFT_GATED_PERMISSIONS == {"billing:manage", "members:invite"}

(* The pair for which effective_permissions() raises ValueError. *)
Mismatched(user_id, membership) == membership.user_id # user_id

\* Mutant: the soft gate is decided before the status is looked at.
GateFirst(user, membership) ==
  LET base == permissions_for_role(membership.role) IN
    IF ~user.email_verified THEN base \ SOFT_GATED_PERMISSIONS
    ELSE IF membership.status # "active" THEN {}
    ELSE base

\* Mutant: a suspended membership is refused, a revoked one is not.
SuspendedOnly(user, membership) ==
  LET base == permissions_for_role(membership.role) IN
    IF membership.status = "suspended" THEN {}
    ELSE IF ~user.email_verified THEN base \ SOFT_GATED_PERMISSIONS
    ELSE base

(* What effective_permissions() returns for any other pair. *)
effective_permissions(user, membership) ==
  LET base == permissions_for_role(membership.role) IN
    IF membership.status # "active" THEN {}
    ELSE IF ~user.email_verified THEN base \ SOFT_GATED_PERMISSIONS
    ELSE base

(* The calls of has_permission() that return True. *)
has_permission(user_id, user, membership, permission) ==
  /\ ~Mismatched(user_id, membership)
  /\ permission \in effective_permissions(user, membership)
=============================================================================
