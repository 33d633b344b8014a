SPECIFICATION Spec
CONSTANTS
  L1 = L1
  L2 = L2
  M1 = M1
  None = None
  Dead = Dead
  Listens = {L1}
  Marks = {M1}
  Configs <- BrokenConfigs
  CommandsFail = FALSE
  Linger = FALSE
  MaxEdits = 1
  MaxFaults = 0
INVARIANT BackedExposure
