SPECIFICATION Spec
CONSTANTS
  m1 = m1
  m2 = m2
  m3 = m3
  NoMedia = NoMedia
  Media = {m1, m2, m3}
  Shared = {}
  NVersions = 3
  Paths = {"metadata", "replace", "archive"}
INVARIANTS HeadSound PublicationTracked LinearHistory ReplacementFrozen
PROPERTIES KeepsShelf
CHECK_DEADLOCK FALSE
