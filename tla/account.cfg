CONSTANTS
  u1 = u1
  u2 = u2
  r1 = r1
  r2 = r2
  Users = {u1, u2}
  Refreshes = {r1}
  None = None
  MaxSignIns = 2
  MaxRestarts = 1
SYMMETRY Renaming
SPECIFICATION Spec
CHECK_DEADLOCK FALSE
INVARIANTS
  TypeOK
  FavoritesAreOwn
  CallsInOwnName
  ReachesOnlyCurrent
  CurrentIsReachable
