CONSTANTS
  e1 = e1
  e2 = e2
  o1 = o1
  o2 = o2
  Episodes = {e1, e2}
  None = None
  MaxPosition = 2
  MaxLag = 1
  Skip = 1
  CommentTimes = {1, 2}
  Ops = {o1, o2}
  Budgets <- SmallBudgets
SYMMETRY Renaming
SPECIFICATION Spec
CHECK_DEADLOCK FALSE
INVARIANTS
  TypeOK
  NoSpoilers
  ListFollowsSlider
  CommentsAreTimedByTheirEpisode
  RestsWhereDeviceIs
  BusyMeansRunning
  CallsTakeTurns
