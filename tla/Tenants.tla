------------------------------- MODULE Tenants -------------------------------
(***************************************************************************)
(* The tenant repository of the identity service: one dict, and create()   *)
(* of InMemoryTenantRepository.  No label is refused, no tenant is ever    *)
(* changed or removed; get_by_id() reads tenants_by_id.                    *)
(***************************************************************************)
EXTENDS Repository

CONSTANTS
  Id,      \* tenant UUIDs (uuid4: a new one is one not used before)
  Label    \* tenant labels, which need not be unique

VARIABLES tenants_by_id, reply

TenantRecord == [tenant_label: Label]

Init == tenants_by_id = <<>> /\ reply = Returned(0)

Create(i, label) ==
  /\ i \in Id \ DOMAIN tenants_by_id
  /\ tenants_by_id' = Put(tenants_by_id, i, [tenant_label |-> label])
  /\ reply' = Returned(1)
=============================================================================
