SPECIFICATION Spec
CONSTANTS
  W = 3
  Power <- PowersOfTwo
  Blank = Blank
  Bad = Bad
  Files <- AllFiles
CHECK_DEADLOCK FALSE
INVARIANT TypeOK
INVARIANT SameAddresses
INVARIANT ProperBlocks
INVARIANT Minimal
PROPERTY Terminates
