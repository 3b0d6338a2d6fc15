SPECIFICATION Spec
CONSTANTS
    None = None
    letterX = letterX
    letterG = letterG
    hashSign = hashSign
    colonSign = colonSign
    tenantA = tenantA
    tenantB = tenantB
    userA = userA
    userB = userB
    blank = blank
    Character = {letterX, letterG, hashSign, colonSign}
    Hash = hashSign
    Colon = colonSign
    Provider <- MCProvider
    Tenants = {tenantA, tenantB}
    Users = {userA, userB}
    Blank = blank
    Segment = {"page"}
    Connections <- MCConnections
    Sessions <- MCSessions
    Directories <- MCDirectories
    References <- MCReferences
    Urls <- MCUrls
    MaxTime = 1
CHECK_DEADLOCK FALSE
INVARIANTS
    KeysDistinct
    RepositoriesAgree
    SetupReportsRefusal
    ReferenceChecksNest
    ReferencesRefusedAlike
    TargetsCarryResult
    TrailingSlashesIgnored
