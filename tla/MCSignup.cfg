\* Two requests at a time that may be cancelled, two of the addresses being one
\* in two spellings, under the fairness of the event loop.
CONSTANTS
  Id = {u1, u2, u3}
  Tenant = {n1, n2, n3}
  MembershipId = {m1, m2, m3}
  Password = {p1}
  Label = {l1}
  Role = {"owner"}
  MaxVersion = 0
  Task = {a, b}
  None = None
  Spelling <- Spellings
  NormalForm <- LowerCased
  EmailStr <- Validated
SPECIFICATION FairSignupSpec
INVARIANTS
  TenantsNeverOutnumberUsers
PROPERTIES
  EveryTenantGetsItsOwner
