\* Two calls at a time over two rows of one family, under the fairness of the
\* event loop.
CONSTANTS
  Id = {i1, i2}
  Hash = {h1, h2}
  Family = {f1}
  User = {u1}
  Tenant = {n1}
  Task = {a, b}
  None = None
  Time <- Instants
SPECIFICATION FairLockSpec
INVARIANTS
  LookupsFindTheirRow
PROPERTIES
  ImplementsMethods
  EveryCallEnds
