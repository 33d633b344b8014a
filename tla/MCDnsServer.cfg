SPECIFICATION Spec
CONSTANTS
  N1 = N1
  N2 = N2
  N3 = N3
  C1 = C1
  C2 = C2
  T1 = T1
  A1 = A1
  q1 = q1
  q2 = q2
  Names = {N1, N2, N3}
  Addrs = {A1}
  Reserved = {}
  Clients = {C1, C2}
  Tags = {T1}
  NoTag = NoTag
  NoName = NoName
  Queries = {q1, q2}
  Requests <- AllRequests
  Silent = Silent
  Scenarios <- AllScenarios
CHECK_DEADLOCK FALSE
INVARIANT TypeOK
INVARIANT NamesStayPrivate
INVARIANT SubnetsStayLocal
INVARIANT StopIsNoError
INVARIANT NoneStranded
PROPERTY ServesPolicy
PROPERTY QuestionsEnd
PROPERTY StopsWhenTold
