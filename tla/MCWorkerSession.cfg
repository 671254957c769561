SPECIFICATION FairSpec
CONSTANTS
  Elements <- MCElements
  Graphs <- MCGraphs
  Artifacts <- MCArtifacts
  Listing <- MCListing
  MaxCalls = 5
CHECK_DEADLOCK FALSE
INVARIANTS
  TypeOK
  InStep
  NeverDisagree
  SuccessIsUnbroken
PROPERTIES
  NeverBlamesTheWorker
  Bounded
