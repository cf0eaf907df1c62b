CONSTANTS
  x = x
  y = y
  psu = psu
  all = all
  none = none
  Motors <- MCMotors
  Ready <- MCReady
  Supply = psu
  Everything = all
  None = none
  StableSampleCount = 3
  MaxCommands = 4
  MaxSteps = 2
SPECIFICATION Spec
INVARIANTS
  MoveIsDriven
