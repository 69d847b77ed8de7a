\* Two users, one of them with two spellings, and three requests.
CONSTANTS
  User = {u1, u2}
  Password = {p1, p2}
  Salt = {s1, s2}
  Task = {a, b, c}
  None = None
  Spelling <- Spellings
  NormalForm <- LowerCased
  EmailStr <- Validated
SYMMETRY Symmetry
SPECIFICATION LoginsSpec
PROPERTIES
  LoginsAreDecidedRight
