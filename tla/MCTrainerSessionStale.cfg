SPECIFICATION Spec
CONSTANTS
    War = War
    Clr = Clr
    Ann = Ann
    Bob = Bob
    S1 = S1
    S2 = S2
    P1 = P1
    NoClass = NoClass
    NoName = NoName
    NoAddress = NoAddress
    ClassBits <- MCClassBits
    PlayableClasses <- MCPlayableClasses
    CastingClasses <- MCCastingClasses
    Names <- MCNames
    NativeClass <- MCNativeClass
    Spawns <- MCSpawns
    Profiles <- MCProfiles
    SessionMasks <- MCSessionMasks
INVARIANTS
    OverrideOnlyInSession
