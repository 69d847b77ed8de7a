CONSTANTS
  Id = {i1, i2, i3, i4}
  Hash = {h1, h2, h3, h4}
  Family = {f1, f2}
  User = {u1}
  Tenant = {t1}
  Task = {a, b}
  None = None
  Time <- Instants
SYMMETRY Symmetry
SPECIFICATION SessionsSpec
INVARIANTS
  SessionsTypeOK
  AtMostOneUsable
  EndedStaysEnded
  ChainsWellFormed
PROPERTIES
  ImplementsSessionChain
