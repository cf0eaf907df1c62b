CONSTANTS
  Calls <- MCCalls
  Unit = 1048576
  Quanta = {1, 2, 4, 8, 16, 32, 64, 128}
  Significands = 131072
SPECIFICATION Spec
INVARIANTS
  LineIsNearest
  FillIsEvenOdd
PROPERTIES
  CallEnds
