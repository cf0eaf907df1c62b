CONSTANTS
  SampleInterval = 2
  StableSampleCount = 3
  ClockModulus = 5
  MaxTime = 14
SPECIFICATION Spec
INVARIANTS
  StableInputIsReported
PROPERTIES
  ImplementsDebouncedInput
  FlipNeedsStableTime
