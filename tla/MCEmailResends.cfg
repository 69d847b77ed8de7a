\* Three issues to one user by three requests: two of them can overlap, and the
\* third run alone.
CONSTANTS
  Id = {i1, i2, i3}
  Hash = {h1, h2, h3}
  User = {u1}
  Task = {a, b, c}
  Password = {p1}
  Spelling <- Spellings
  NormalForm <- Unchanged
  EmailStr <- Unchanged
  None = None
  Time <- Instants
SYMMETRY Symmetry
SPECIFICATION ResendsSpec
INVARIANTS
  LoneResendLeavesOnlyNewest
PROPERTIES
  LoneResendEndsOlderTokens
