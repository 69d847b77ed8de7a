\* Two requests at a time that may be cancelled, in either order of their two
\* calls, over two invitations, under the fairness of the event loop.
CONSTANTS
  User = {u1, u2}
  Tenant = {n1, n2}
  Id = {i1, i2}
  MembershipId = {m1, m2}
  Hash = {h1, h2}
  Role = {tech}
  MaxVersion = 0
  Task = {a, b}
  None = None
  Time <- Instants
\* A system without pending invitations may stop.
CHECK_DEADLOCK FALSE
SPECIFICATION FairAcceptanceSpec
INVARIANTS
  EveryMemberWasAdmitted
  NothingAcceptedInVain
PROPERTIES
  AdmittedBecomeMembers
