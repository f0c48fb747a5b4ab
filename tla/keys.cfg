CONSTANTS
  Profiles = {p1}
  Clients = {a, b}
  Sessions = {s1, s2}
  p1 = p1
  a = a
  b = b
  ProfileOf <- OneProfile
  Nil = Nil
  HashFile = h
  MaxAdminKeys = 2
  MaxCrashes = 2
  DefaultLimit = 2
  MaxLimit = 3
  Absent = Absent
  Malformed = Malformed
SPECIFICATION KeysSpec
SYMMETRY Symmetry
INVARIANTS RevokedIsOut OpenIsReachable OneKnownAdminKey
CHECK_DEADLOCK FALSE
