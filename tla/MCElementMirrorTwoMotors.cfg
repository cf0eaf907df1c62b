CONSTANTS
  MaxSteps = 1
  SpeedRoom = 1
  MaxPosition = 2
  PositionRoom = 1
  FirstSpeed = 1
  FirstPosition = 1
  MotorCount = 2
  Digits = {0, 5}
  None = None
  Fleets = {{"avr"}}
  Servo = 0
  MaxEvents = 1
  MaxQueued = 3
SPECIFICATION Spec
PROPERTIES
  AnswerUpdatesItsBox
CHECK_DEADLOCK FALSE
