CONSTANTS
  u1 = u1
  u2 = u2
  u3 = u3
  s1 = s1
  Users = {u1, u2}
  Shows = {s1}
  ProfileWriters = {u1}
  Wipers = {u2}
  NoProfile = NoProfile
SPECIFICATION Spec
CHECK_DEADLOCK FALSE
INVARIANTS
  NoTraceOfErased
