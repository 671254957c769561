CONSTANTS
  Proc = {p1, p2}
  Count = 2
  Generated = {"a", "b"}
  Foreign = {"u"}
  None = None
  Plans <- MCPlans
SPECIFICATION Spec
INVARIANTS
  TypeOK
  OwnershipSurvives
  SuccessIsWhole
  OwnFilesStay
  WritesStartClean
PROPERTIES
  ProtectsOutputs
  Settles
