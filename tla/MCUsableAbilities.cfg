SPECIFICATION MCSpec
CONSTANTS
    War = War
    Clr = Clr
    Mnk = Mnk
    BitX = BitX
    B1 = B1
    B2 = B2
    Disc = Disc
    Comb = Comb
    Prof = Prof
    NoClass = NoClass
    NoBuffer = NoBuffer
    NoPlayer = NoPlayer
    NoItem = NoItem
    Unmapped = Unmapped
    Unavailable = 255
    Unusable = 255
    Capacity = 2
    MaxDepth = 4
    Disciplines = Disc
    Categories = {Disc, Comb, Prof}
    CombatCategories = {Disc, Comb}
    GateClasses = {War}
    ClassBits <- MCClassBits
    PlayableClasses <- MCPlayableClasses
    CastingClasses <- MCCastingClasses
    ClassOrder <- MCClassOrder
    ReceivedMasks <- MCReceivedMasks
    Spell <- MCSpell
    Buffers <- MCBuffers
    Contents <- MCContents
    Lengths <- MCLengths
    Players <- MCPlayers
    SpellMasks <- MCSpellMasks
    Installs <- MCInstalls
    LevelTables <- MCLevelTables
    Item <- MCItem
    DualWieldLevel <- MCDualWieldLevel
    Sights <- MCSights
INVARIANTS
    TypeOK
    SynthesisKeepsBest
    ResyncKeepsClientCopy
    ShowNotForgotten
    ShowNotNested
    OverrideIsForOwnClassReject
    LevelForOverriddenSpell
    CacheShowsHands
    RevokedOnlyForConflict
    GrantedOnlyWithoutConflict
