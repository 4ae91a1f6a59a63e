SPECIFICATION MirrorSpec
CONSTANTS
  a = a
  b = b
  c = c
  Names = {a, b, c}
  PathsInOrder <- OneBranch
  Roots = 1
  Codes = {2}
  Orders = {2}
  MaxRows = 4
  PlainRows = 3
  MaxOdd = 1
  MaxForms = 1
  MaxHeld = 1
INVARIANTS FormsCurrent LevelsAgree NothingStranded SiblingsDistinct MirrorsFollow
PROPERTIES OrderKept
CHECK_DEADLOCK FALSE
CONSTRAINT FewOdd
