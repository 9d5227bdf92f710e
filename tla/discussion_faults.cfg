CONSTANTS
  c1 = c1
  c2 = c2
  c3 = c3
  c4 = c4
  u1 = u1
  u2 = u2
  e1 = e1
  Comments = {c1, c2, c3}
  Users = {u1, u2}
  Episodes = {e1}
  AuthorOf <- Alternate
  EpisodeOf <- OneEpisode
  MaxAttempts = 2
  Editors = {}
  Wipers = {u2}
  Redelivered = {c1}
  LateFetches = {e1}
SPECIFICATION Spec
CHECK_DEADLOCK FALSE
INVARIANTS
  EveryPostCounted
  CascadeNeverStalls
