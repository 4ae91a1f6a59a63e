SPECIFICATION Spec
CONSTANTS
  i1 = i1
  i2 = i2
  c1 = c1
  c2 = c2
  n1 = n1
  p1 = p1
  p2 = p2
  NoItem = NoItem
  Item = {i1, i2}
  Category = {c1, c2}
  Protected = {c2}
  Name = {n1}
  Attachment = {i2}
  Publisher = {p1}
  NJobs = 2
  NVersions = 2
INVARIANTS ServedSound PublicationsDriven PurgedForgotten
PROPERTIES HeadKept
CHECK_DEADLOCK FALSE
CONSTRAINT FewVersions
