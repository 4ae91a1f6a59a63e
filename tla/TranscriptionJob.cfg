SPECIFICATION FairSpec
CONSTANTS
  m1 = m1
  k1 = k1
  k2 = k2
  r1 = r1
  r2 = r2
  NoMedia = NoMedia
  NoKey = NoKey
  Media = {m1}
  Shared = {m1}
  Key = {k1, k2}
  Request = {r1, r2}
  NJobs = 2
  NIntents = 1
  MaxCrashes = 1
INVARIANTS JobsOwned ShownTranscribing IntentsFollow
PROPERTIES EndedStays EveryJobEnds
CHECK_DEADLOCK FALSE
