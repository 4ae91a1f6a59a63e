SPECIFICATION FairSpec
CONSTANTS
  m1 = m1
  m2 = m2
  m3 = m3
  NoMedia = NoMedia
  Media = {m1, m2}
  Shared = {m1, m2}
  NVersions = 3
  Paths = {"edit", "metadata", "share", "retry", "archive", "profile"}
PROPERTIES PublicationSettles
CHECK_DEADLOCK FALSE
