\* A subscription update, a provider update and a command that loads the lists.
SPECIFICATION Spec
CONSTANTS
  A1 = A1
  A2 = A2
  B = B
  KeyA = KeyA
  KeyB = KeyB
  HashA = HashA
  HashA2 = HashA2
  HashB = HashB
  Links = {A1, A2, B}
  Keys = {KeyA, KeyB}
  Key <- KeyOf
  Bases = {HashA, HashA2, HashB}
  Base <- HashOf
  OwnTag <- TakenTag
  OwnKey = OwnKey
  Offers <- Downloads
  Lists = {L1}
  NoRule = NoRule
  Torn = Torn
  Missing = Missing
  MaxSuffix = 2
  WritesFail = TRUE
  SubJobs = {S1}
  ProvJobs = {P1}
  Loaders = {R1}
INVARIANT TypeOK
INVARIANT RuleKeepsNode
PROPERTY OfferedNodeKept
\* The configuration may be lost for good; nothing runs then.
CHECK_DEADLOCK FALSE
