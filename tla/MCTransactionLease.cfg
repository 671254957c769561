SPECIFICATION FairSpec
CONSTANTS
  Owner = owner
  Nobody = nobody
  r1 = r1
  r2 = r2
  Recoverers = {r1, r2}
INVARIANTS
  TypeOK
  OwnerUndisturbed
  NothingUnforeseen
PROPERTIES
  ReplacesAtomically
  Reclaimed
