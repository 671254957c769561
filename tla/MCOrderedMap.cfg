CONSTANTS
  Cores <- MCCores
  Minimum <- MCMinimum
  Lengths <- MCLengths
SPECIFICATION FairMapSpec
CHECK_DEADLOCK FALSE
INVARIANTS
  MapTypeOK
  AnswersAsOneThread
PROPERTY Returns
