\* refresh_token.py says expiry is checked at lookup time.
CONSTANTS
  Id = {i1, i2}
  Hash = {h1}
  Family = {f1}
  User = {u1}
  Tenant = {t1}
  None = None
  Time <- Instants
SPECIFICATION Spec
INVARIANTS
  NoRotationAfterExpiry
