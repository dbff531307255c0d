\* Two loader runs that may overlap; each source file may be rebuilt once.
CONSTANTS
    e1 = e1
    e2 = e2
    k1 = k1
    k2 = k2
    KeysOf <- MCKeysOf
    Runs <- TwoRuns
    MaxBuilds = 1
SPECIFICATION EtlSpec
SYMMETRY Symmetry
INVARIANTS
    CleanReload
    OneRowPerKey
CHECK_DEADLOCK FALSE
