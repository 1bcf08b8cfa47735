SPECIFICATION MCSpec
CONSTANTS
    War = War
    Rng = Rng
    Clr = Clr
    Ann = Ann
    Srv = Srv
    S1 = S1
    P1 = P1
    P2 = P2
    NoClass = NoClass
    NoName = NoName
    NoAddress = NoAddress
    NoServer = NoServer
    NoRow = NoRow
    ClassBits <- MCClassBits
    PlayableClasses <- MCPlayableClasses
    CastingClasses <- MCCastingClasses
    Names <- MCNames
    NativeClass <- MCNativeClass
    Spawns <- MCSpawns
    Profiles <- MCProfiles
    SessionMasks <- MCSessionMasks
    Servers <- MCServers
    SmallSort = 2
    MaxRows = 2
    MaxAttempts = 2
    Cooldown = 1
    OwnRecords <- MCOwnRecords
    ClassOrder <- MCClassOrder
    HeroicIntClasses <- MCHeroicIntClasses
    HeroicWisClasses <- MCHeroicWisClasses
    NativeMaxMana <- MCNativeMaxMana
    NativeSkill <- MCNativeSkill
    HeroicBonus <- MCHeroicBonus
    StoredMana <- MCStoredMana
    Environments <- MCEnvironments
INVARIANTS
    LocalTypeOK
    StoredManaKept
    CurrentWithinMax
    AbilityOfAssignedClass
    SessionRestoresOriginal
    WindowShowsTrainer
    UpdatesStaySound
PROPERTY
    ClassesUntouched
