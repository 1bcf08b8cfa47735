SPECIFICATION ClientSpec
CONSTANTS
    War = War
    Clr = Clr
    Ann = Ann
    Srv = Srv
    S1 = S1
    P1 = P1
    NoClass = NoClass
    NoName = NoName
    NoAddress = NoAddress
    NoServer = NoServer
    NoRow = NoRow
    ClassBits <- MCClassBits
    PlayableClasses <- MCPlayableClasses
    CastingClasses <- MCCastingClasses
    Names <- MCNames
    NativeClass <- MCNativeClass
    Spawns <- MCSpawns
    Profiles <- MCProfiles
    SessionMasks <- MCSessionMasks
    Servers <- MCServers
    SmallSort = 2
    MaxRows = 2
    MaxAttempts = 2
    Cooldown = 1
PROPERTIES
    RetryStaysArmed
