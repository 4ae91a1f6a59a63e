SPECIFICATION BulkFairSpec
CONSTANTS
  r1 = r1
  r2 = r2
  x1 = x1
  x2 = x2
  t1 = t1
  t2 = t2
  NoRun = NoRun
  NoMember = NoMember
  Run = {r1}
  Member = {x1, x2}
  Request = {t1, t2}
  Operations = {"download", "force_delete", "publish"}
  MaxCrashes = 2
INVARIANTS ReportTrue
PROPERTIES QueuedEnds
CHECK_DEADLOCK FALSE
