SPECIFICATION Spec
CONSTANTS
    War = War
    Clr = Clr
    BitX = BitX
    ann = ann
    Ann = Ann
    bob = bob
    EmptyName = EmptyName
    Srv = Srv
    NoServer = NoServer
    NoIdentity = NoIdentity
    NoClass = NoClass
    NoSpell = NoSpell
    Kick = Kick
    Taunt = Taunt
    Swim = Swim
    WideValue = WideValue
    Absent = Absent
    ClassBits <- MCClassBits
    PlayableClasses <- MCPlayableClasses
    CastingClasses <- MCCastingClasses
    LowSkills <- MCLowSkills
    HighSkills <- MCHighSkills
    AdvertisedSkills <- MCAdvertisedSkills
    Names <- MCNames
    NormalName <- MCNormalName
    Servers <- MCServers
    StatsPayloads <- MCStatsPayloads
    RemotePayloads <- MCRemotePayloads
    WhoResponses <- MCWhoResponses
    Spells = {1}
    CastTimes = {0, 1}
    BeginWindow = 1
    CastGrace = 1
INVARIANTS
    TypeOK
    StatsAreLastPayload
PROPERTIES
    LabelsMatchRows
    TimedCastClaimsOwnSend
