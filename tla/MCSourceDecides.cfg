CONSTANTS
  p1 = p1
  p2 = p2
  c1 = c1
  c2 = c2
  a = a
  b = b
  w = w
  None = None
  Junk = Junk
  Procs = {p1, p2}
  Checkouts = {c1, c2}
  Homes <- MCHomes
  Versions = {a, b, w}
  Keyed = {a, b}
  Sharing = {p1, p2}
  MaxFaults = 1
SPECIFICATION MCFairSpec
INVARIANT SourcesDecide
