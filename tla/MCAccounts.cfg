\* One user, a member of up to two tenants, and two requests at a time that race
\* to change the records or to read a user and a membership, in either order.
CONSTANTS
  User = {u1}
  Tenant = {t1, t2}
  MembershipId = {m1, m2}
  Password = {p1, p2}
  MaxVersion = 1
  Task = {a, b}
  None = None
  Spelling <- Spellings
  NormalForm <- Unchanged
  EmailStr <- Unchanged
SYMMETRY Symmetry
SPECIFICATION AccountsSpec
INVARIANTS
  AnswersWereHeld
  UserFirstNeverGrantsMore
PROPERTIES
  LoneUpdatesLoseNothing
