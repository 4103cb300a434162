SPECIFICATION Spec
CONSTANTS
  Types = {"BMC", "BIOS", "CPLD"}
  QueryLimit = 6
  Tolerance = 4
  CpldTolerance = 2
  ZeroLimit = 3
  Slowest = 1
  Lateness = {0, 1}
INVARIANTS
  TypeOK
  SuccessMeansFinished
  SuccessIsActivated
  GivenUpLate
PROPERTIES
  KeepsVerdict
  EventuallyDone
