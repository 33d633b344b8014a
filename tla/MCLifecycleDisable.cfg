SPECIFICATION Spec
CONSTANTS
  L1 = L1
  L2 = L2
  M1 = M1
  None = None
  Dead = Dead
  Listens = {L1}
  Marks = {M1}
  Configs <- OnOff
  CommandsFail = TRUE
  Linger = TRUE
  MaxEdits = 2
  MaxFaults = 0
PROPERTY DisableTakesEffect
