CONSTANTS
  ByteBits = 1
  UpperShift = 2
  MemTop = 15
  Suites <- MCSuites
SPECIFICATION Spec
INVARIANTS
  IsaTypes
  CoresAgree
  TwoStageAgrees
  ImmediatesDecoded
  ReservationsNested
  DivisionIsEuclidean
  DividerHasEnoughCycles
CHECK_DEADLOCK FALSE
