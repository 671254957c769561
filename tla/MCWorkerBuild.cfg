CONSTANTS
    p1 = p1
    p2 = p2
    c1 = c1
    c2 = c2
    a = a
    b = b
    l1 = l1
    None = None
    Junk = Junk
    Procs = {p1, p2}
    Checkouts = {c1, c2}
    Homes <- MCHomes
    Inputs <- MCInputs
    Fitting <- MCFitting
    Shareable <- MCShareable
    MaxFaults = 2
SPECIFICATION MCFairSpec
INVARIANTS
    TypeOK
    UndisturbedIsTrue
    NeverJunk
PROPERTY
    Settles
