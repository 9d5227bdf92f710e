CONSTANTS
  f1 = f1
  f2 = f2
  g1 = g1
  ShowCalls = {f1, f2}
  EpisodeCalls = {g1}
  MaxEpisodes = 4
  PageSize = 2
  NoCall = NoCall
SPECIFICATION FairSpec
CHECK_DEADLOCK FALSE
INVARIANTS
  TypeOK
  MarkerAnswered
PROPERTIES
  KnownArrive
