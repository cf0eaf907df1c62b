CONSTANTS
  MaxMilliStepsPerSecond = 7
  Acceleration = 2
  Cruise = 1
  Deceleration = 3
  StepUnit = 4
  ClockModulus = 14
  DirectionInverted = FALSE
  MaxMove = 2
  MaxPosition = 2
SPECIFICATION Spec
INVARIANTS
  TypeOK
  PositionFollowsProfile
  ShaftIsAtPosition
  SpeedIsTheSlope
PROPERTIES
  CallReturns
