SPECIFICATION Spec
CONSTANTS
  MaxWrites = 5
  MaxCrashes = 3
  MaxRot = 1
PROPERTY ImplementsRegister
CHECK_DEADLOCK FALSE
