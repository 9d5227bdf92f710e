CONSTANTS
  u1 = u1
  u2 = u2
  u3 = u3
  s1 = s1
  Users = {u1, u2, u3}
  Shows = {}
  ProfileWriters = {u1}
  Wipers = {u1}
  NoProfile = NoProfile
SYMMETRY OtherUsers
SPECIFICATION Spec
CHECK_DEADLOCK FALSE
INVARIANTS
  BystandersAgree
  ErasureNeverBlocked
PROPERTIES
  FollowerLostOnlyToStaleWrite
