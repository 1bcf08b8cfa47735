SPECIFICATION Spec
CONSTANTS
    P1 = P1
    P2 = P2
    P3 = P3
    P4 = P4
    Ann = Ann
    Bob = Bob
    NoId = NoId
    NoOwner = NoOwner
    NotSeen = NotSeen
    NoSpawn = NoSpawn
    SpawnIds <- MCSpawnIds
    Owners <- MCOwners
    Names <- MCNames
    Texts <- MCTexts
    DisplayName <- MCDisplayName
SYMMETRY Symmetry
INVARIANTS
    TypeOK
    RowsShowOtherPets
PROPERTIES
    RowOrderStable
    ClickTargetsOtherPet
