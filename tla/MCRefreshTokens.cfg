\* Two rows at most, of every owner and family.
CONSTANTS
  Id = {i1, i2, i3}
  Hash = {h1, h2}
  Family = {f1, f2}
  User = {u1, u2}
  Tenant = {t1, t2}
  None = None
  Time <- Instants
SYMMETRY Symmetry
SPECIFICATION Spec
INVARIANTS
  TypeOK
  IndexesAgree
  LifecycleCoherent
  RebuildsAreValid
PROPERTIES
  HistoryIsPermanent
  FamilySweepIsExact
  LogoutAllIsExact
