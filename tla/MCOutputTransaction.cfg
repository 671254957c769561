SPECIFICATION Spec
CONSTANTS
  a = a
  b = b
  u = u
  None = None
  Generated = {a, b}
  Bytes = {a, b, u}
  EmptyBytes = u
  IoFaults = TRUE
INVARIANTS
  TypeOK
  OwnershipHolds
  CrashAloneNeverConflicts
  SuccessLeavesNothingBehind
PROPERTIES
  NoUserDataLoss
  ProtectsOutput
  Converges
