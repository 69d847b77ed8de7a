\* email_verification_repository.py says an old token cannot be used after a
\* newer one has been issued; here none marks its user verified.
CONSTANTS
  Id = {i1, i2}
  Hash = {h1, h2}
  User = {u1}
  Task = {a, b}
  Password = {p1}
  Spelling <- Spellings
  NormalForm <- Unchanged
  EmailStr <- Unchanged
  None = None
  Time <- Instants
SPECIFICATION ResendsSpec
PROPERTIES
  OldTokensVerifyNobody
