SPECIFICATION Spec
CONSTANTS
    War = War
    Clr = Clr
    Ann = Ann
    Bob = Bob
    Srv = Srv
    Old = Old
    C1 = C1
    C2 = C2
    NoClass = NoClass
    NoServer = NoServer
    NoRow = NoRow
    NoClient = NoClient
    ClassBits <- MCClassBits
    PlayableClasses <- MCPlayableClasses
    CastingClasses <- MCCastingClasses
    Names <- MCNames
    Servers <- MCServers
    Clients <- MCClients
    Stored <- MCStored
    SmallSort = 3
    MaxRows = 3
    ReadFaults = TRUE
INVARIANTS
    TypeOK
PROPERTIES
    UndisturbedStoreIsAtomic
