SPECIFICATION FairSpec
CONSTANTS
  Elements <- MCElements
  Graphs <- MCGraphs
  Artifacts <- MCArtifacts
  Listing <- MCListing
  MaxCalls = 1
CHECK_DEADLOCK FALSE
PROPERTY EndsWithinBudget
