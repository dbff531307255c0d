\* A client that keeps answers while the token stays.
CONSTANTS
    None = None
    NaN = NaN
    r1 = r1
    r2 = r2
    r3 = r3
    e1 = e1
    e2 = e2
    address = address
    padded = padded
    word = word
    near = near
    nearby = nearby
    town = town
    village = village
    island = island
    Runs <- OneRun
    KeysOf <- PollingKeysOf
    MaxBuilds = 0
    PhoneTexts <- MCPhoneTexts
    CanadianNpas <- MCCanadianNpas
    IpTexts <- MCIpTexts
    Stripped <- MCStripped
    AddressOf <- MCAddressOf
    Degrees <- MCDegrees
    Rounded <- MCRounded
    RadiusDefault = 25
    RadiusCeiling = 30
    Km = 10
    Requests <- TwoRequests
    Bodies <- PollingBodies
    BatchCap = 1
    CityLimit = 2
    PoolSize = 1
    Distance <- MCDistance
    Fallback = island
    TTL = 1
    MaxLatency = 0
    MaxTime = 2
    MaxRestarts = 0
    DbFaults = FALSE
    RedisFaults = FALSE
    Upgrades = FALSE
SPECIFICATION PollingSpec
SYMMETRY Symmetry2
INVARIANTS
    KeptIsCurrent
CHECK_DEADLOCK FALSE
