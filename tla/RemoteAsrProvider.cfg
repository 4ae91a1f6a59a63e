SPECIFICATION FairSpec
CONSTANTS
  j1 = j1
  j2 = j2
  Jobs = {j1, j2}
  Speech <- MCSpeech
PROPERTY EveryCallAnswered
CHECK_DEADLOCK FALSE
