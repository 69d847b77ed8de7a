\* Three rows at most in each repository, and two of what they belong to; one
\* address in two spellings, a second key that is stored as the first, another
\* address, and one that EmailStr refuses.
CONSTANTS
  Id = {i1, i2, i3}
  Hash = {h1, h2, h3}
  User = {u1, u2}
  Tenant = {t1, t2}
  Role = {owner}
  Password = {p1, p2}
  MaxVersion = 1
  None = None
  Time <- Instants
  Spelling <- Spellings
  NormalForm <- LowerCased
  EmailStr <- Validated
SYMMETRY Symmetry
SPECIFICATION StoreSpec
INVARIANTS
  StoreTypeOK
  IndexesAgree
  EmailIndexAgrees
  SpellingsFindTheirUser
  TokenIndexAgrees
  RowsStayValid
  AcceptedInTime
PROPERTIES
  JoinOrderIsStable
  RevocationIsExact
  InvitationsImplementLedger
  VerificationsImplementLedger
