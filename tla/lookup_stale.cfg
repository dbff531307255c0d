\* Two requests while the loader runs and entries expire after two ticks.
CONSTANTS
    None = None
    NaN = NaN
    r1 = r1
    r2 = r2
    r3 = r3
    e1 = e1
    address = address
    padded = padded
    word = word
    near = near
    nearby = nearby
    town = town
    village = village
    island = island
    Runs <- OneRun
    KeysOf <- StaleKeysOf
    MaxBuilds = 0
    PhoneTexts <- MCPhoneTexts
    CanadianNpas <- MCCanadianNpas
    IpTexts <- MCIpTexts
    Stripped <- MCStripped
    AddressOf <- MCAddressOf
    Degrees <- MCDegrees
    Rounded <- MCRounded
    RadiusDefault = 25
    RadiusCeiling = 30
    Km = 10
    Requests <- TwoRequests
    Bodies <- StaleBodies
    BatchCap = 1
    CityLimit = 2
    PoolSize = 1
    Distance <- MCDistance
    Fallback = island
    TTL = 2
    MaxLatency = 1
    MaxTime = 5
    MaxRestarts = 1
    DbFaults = FALSE
    RedisFaults = FALSE
    Upgrades = TRUE
SPECIFICATION Spec
SYMMETRY Symmetry2
INVARIANTS
    StaleBounded
    UpgradeOutlived
    OneRowPerQuestion
CHECK_DEADLOCK FALSE
