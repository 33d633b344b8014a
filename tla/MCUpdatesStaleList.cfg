\* A provider update while another command loads the list.
SPECIFICATION Spec
CONSTANTS
  A1 = A1
  A2 = A2
  B = B
  KeyA = KeyA
  KeyB = KeyB
  HashA = HashA
  HashA2 = HashA2
  HashB = HashB
  Links = {A1, A2, B}
  Keys = {KeyA, KeyB}
  Key <- KeyOf
  Bases = {HashA, HashA2, HashB}
  Base <- HashOf
  OwnTag <- TakenTag
  OwnKey = OwnKey
  Offers <- Downloads
  Lists = {L1}
  NoRule = NoRule
  Torn = Torn
  Missing = Missing
  MaxSuffix = 2
  WritesFail = FALSE
  SubJobs = {}
  ProvJobs = {P1}
  Loaders = {R1}
INVARIANT ProviderCacheWhole
\* The configuration may be lost for good; nothing runs then.
CHECK_DEADLOCK FALSE
