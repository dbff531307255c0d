\* Two radii of the same whole kilometre.
CONSTANTS
    None = None
    NaN = NaN
    r1 = r1
    r2 = r2
    r3 = r3
    e1 = e1
    address = address
    padded = padded
    word = word
    near = near
    nearby = nearby
    town = town
    village = village
    island = island
    Runs <- NoRuns
    KeysOf <- MCKeysOf
    MaxBuilds = 0
    PhoneTexts <- MCPhoneTexts
    CanadianNpas <- MCCanadianNpas
    IpTexts <- MCIpTexts
    Stripped <- MCStripped
    AddressOf <- MCAddressOf
    Degrees <- MCDegrees
    Rounded <- MCRounded
    RadiusDefault = 25
    RadiusCeiling = 30
    Km = 10
    Requests <- TwoRequests
    Bodies <- SharedSlotBodies
    BatchCap = 2
    CityLimit = 2
    PoolSize = 1
    Distance <- MCDistance
    Fallback = island
    TTL = 1
    MaxLatency = 0
    MaxTime = 0
    MaxRestarts = 0
    DbFaults = FALSE
    RedisFaults = FALSE
    Upgrades = FALSE
SPECIFICATION Spec
INVARIANTS
    RadiusHonoured
CHECK_DEADLOCK FALSE
