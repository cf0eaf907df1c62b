CONSTANTS
  MaxSteps = 1
  SpeedRoom = 1
  MaxPosition = 2
  PositionRoom = 1
  FirstSpeed = 1
  FirstPosition = 1
  MotorCount = 1
  Digits = {0, 5}
  None = None
  Fleets = {{"avr"}, {"esp"}}
  Servo = 0
  MaxEvents = 2
  MaxQueued = 2
SPECIFICATION Spec
INVARIANTS
  TypeOK
  SelectedWidgetExists
  PsuBoxAgreesAtRest
  ServoBoxAgreesAtRest
PROPERTIES
  PsuBoxSettles
CHECK_DEADLOCK FALSE
