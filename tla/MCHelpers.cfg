SPECIFICATION Spec
CONSTANTS
  t1 = t1
  t2 = t2
  t3 = t3
  Tags = {t1, t2, t3}
  c1 = c1
  c2 = c2
  Commands = {c1, c2}
  Ports = {p1, p2}
  NoTag = NoTag
  Direct = Direct
  NoPort = NoPort
  Slots = 1
  Batch = 2
  Scenarios <- SideBySide
CHECK_DEADLOCK FALSE
INVARIANT TypeOK
INVARIANT HelpersEnd
INVARIANT OwnOutbound
INVARIANT WholeResults
INVARIANT ReportWhole
INVARIANT QueriesBounded
PROPERTY CommandsEnd
