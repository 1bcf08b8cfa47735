SPECIFICATION LiveSpec
CONSTANTS
    War = War
    Clr = Clr
    BitX = BitX
    Ann = Ann
    Bob = Bob
    Srv = Srv
    Old = Old
    NoClass = NoClass
    NoServer = NoServer
    NoRow = NoRow
    NoName = NoName
    ClassBits <- MCClassBits
    PlayableClasses <- MCPlayableClasses
    CastingClasses <- MCCastingClasses
    Names <- MCNames
    Servers <- MCServers
    NativeClass <- MCNativeClass
    PacketMasks <- MCPacketMasks
    SmallSort = 3
    MaxRows = 3
    MaxAttempts = 2
    Cooldown = 2
INVARIANTS
    TypeOK
    RetryRecordsSound
    PendingUsesLatestMask
    AttemptsSpaced
PROPERTIES
    PersistedIsFound
    RetrySettles
