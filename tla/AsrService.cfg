SPECIFICATION FairSpec
CONSTANTS
  j1 = j1
  j2 = j2
  NoJob = NoJob
  Jobs = {j1, j2}
  Parts = 2
  Chunks = 2
  Speech <- MCSpeech
  QueueLimit = 1
  FailureLimit = 1
  MaxCrashes = 1
  Faults = {"torn_write", "engine_gone", "engine_failure", "undecodable", "gate"}
INVARIANTS NoLostJob CheckpointExact ResultFaithful FailClosed
PROPERTIES KeepsContract TakenOnEnds
CHECK_DEADLOCK FALSE
