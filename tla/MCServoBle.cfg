CONSTANTS
  MaxPosition = 5
  Stride = 2
  IdModulus = 16
  CommandBufferSize = 4
  Packets <- MCPackets
  MaxEvents = 2
  MaxLinks = 2
  MaxWrites = 2
SPECIFICATION Spec
INVARIANTS
  TypeOK
  ToldPositionHolds
  DutyIsOfPosition
  BootMessageOpensConnection
  UnreachableOnlyAfterFailure
  CompleteWritesAreExecuted
PROPERTIES
  HostTaskReturns
  SweepReachesBothEnds
