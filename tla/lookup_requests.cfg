\* Three requests on one connection; Redis and Postgres may fail, the service may restart.
CONSTANTS
    None = None
    NaN = NaN
    r1 = r1
    r2 = r2
    r3 = r3
    e1 = e1
    address = address
    padded = padded
    word = word
    near = near
    nearby = nearby
    town = town
    village = village
    island = island
    Runs <- NoRuns
    KeysOf <- MCKeysOf
    MaxBuilds = 0
    PhoneTexts <- MCPhoneTexts
    CanadianNpas <- MCCanadianNpas
    IpTexts <- MCIpTexts
    Stripped <- MCStripped
    AddressOf <- MCAddressOf
    Degrees <- MCDegrees
    Rounded <- MCRounded
    RadiusDefault = 25
    RadiusCeiling = 30
    Km = 10
    Requests <- ThreeRequests
    Bodies <- EveryBody
    BatchCap = 2
    CityLimit = 1
    PoolSize = 1
    Distance <- MCDistance
    Fallback = island
    TTL = 1
    MaxLatency = 0
    MaxTime = 0
    MaxRestarts = 1
    DbFaults = TRUE
    RedisFaults = TRUE
    Upgrades = TRUE
SPECIFICATION Spec
SYMMETRY Symmetry
INVARIANTS
    TypeOK
    HitsAndMissesBalance
    ModesBalance
    ErrorsBalance
    AnswerFitsQuestion
    NearestListed
    EchoSharesSlot
    RadiusNearlyHonoured
CHECK_DEADLOCK FALSE
