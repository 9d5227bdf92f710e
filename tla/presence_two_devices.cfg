CONSTANTS
  u1 = u1
  d1 = d1
  d2 = d2
  e1 = e1
  e2 = e2
  Users = {u1}
  Devices = {d1, d2}
  Episodes = {e1, e2}
  UserOf <- OneUser
  None = None
  MaxChanges = 3
  MaxDrops = 1
SPECIFICATION FairSpec
CHECK_DEADLOCK FALSE
INVARIANTS
  TypeOK
  ListeningAnsweredFor
  WatchingFollowsLastListened
  ListedOnce
  EveryConnectionEnds
PROPERTIES
  AwayIsForgotten
