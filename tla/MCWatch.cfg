SPECIFICATION FairSpec
CONSTANTS
  d1 = d1
  d2 = d2
  o1 = o1
  o2 = o2
  Designs <- MCDesigns
  Outputs <- MCOutputs
  Wanted <- MCWanted
  Main = main_file
  Pipeline = pipeline_file
  Cache = cache_file
  Absent = absent
  Foreign = foreign
CHECK_DEADLOCK FALSE
INVARIANTS
  TypeOK
  RestIsCurrent
PROPERTY ComesToRest
