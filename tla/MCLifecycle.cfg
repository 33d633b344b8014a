SPECIFICATION Spec
CONSTANTS
  L1 = L1
  L2 = L2
  M1 = M1
  None = None
  Dead = Dead
  Listens = {L1, L2}
  Marks = {M1}
  Configs <- AnyConfigs
  CommandsFail = TRUE
  Linger = TRUE
  MaxEdits = 1
  MaxFaults = 1
INVARIANT TypeOK
INVARIANT CaptureNeedsRoute
INVARIANT StopLeavesNothing
PROPERTY ProbedExposure
