\* One loader run that may fail half-way, over tables already loaded.
CONSTANTS
    e1 = e1
    e2 = e2
    k1 = k1
    k2 = k2
    KeysOf <- MCKeysOf
    Runs <- OneRun
    MaxBuilds = 0
SPECIFICATION EtlSpec
INVARIANT FailureKeepsGeneration
CHECK_DEADLOCK FALSE
