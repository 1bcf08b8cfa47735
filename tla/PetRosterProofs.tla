---------------------------- MODULE PetRosterProofs ----------------------------
(***************************************************************************)
(* Theorems about PetRoster, for every set of spawn ids, owners and names. *)
(***************************************************************************)
EXTENDS PetRoster, WellFoundedInduction, TLAPS

\* First-seen numbers tell the entries apart and are all used up to nextOrder.
OrdersDistinct ==
    /\ \A id \in SpawnIds : Seen(id) => entries[id].order < nextOrder
    /\ \A a, b \in SpawnIds :
          Seen(a) /\ Seen(b) /\ entries[a].order = entries[b].order => a = b

\* In a zone the active entries are the zone's pets.
RosterIsWorld ==
    IF inZone
    THEN \A id \in SpawnIds :
            /\ Live(id) <=> IsPet(id)
            /\ Live(id) => /\ entries[id].owner = world[id].owner
                           /\ entries[id].name = world[id].name
    ELSE world = [id \in SpawnIds |-> NoSpawn]

PetInv == TypeOK /\ OrdersDistinct /\ RosterIsWorld

------------------------------------------------------------------------------

\* Before the first packet nothing is seen and there is no zone.
LEMMA InitPetInv == Init => PetInv
<1> SUFFICES ASSUME Init PROVE PetInv
  OBVIOUS
<1>1. TypeOK
  <2>1. entries \in [SpawnIds -> Entry \cup {NotSeen}]
    BY Zenon DEF Init
  <2>2. world \in [SpawnIds -> Spawn \cup {NoSpawn}]
    BY Zenon DEF Init
  <2>3. nextOrder \in Nat \ {0}
    BY DEF Init
  <2>4. /\ focus \in SpawnIds \cup {NoId}
        /\ inZone \in BOOLEAN
        /\ target \in SpawnIds \cup {NoId}
    BY Zenon DEF Init
  <2> QED
    BY <2>1, <2>2, <2>3, <2>4 DEF TypeOK
<1>2. \A id \in SpawnIds : ~Seen(id)
  BY DEF Init, Seen
<1>3. OrdersDistinct
  BY <1>2 DEF OrdersDistinct
<1>4. RosterIsWorld
  BY DEF Init, RosterIsWorld
<1> QED
  BY <1>1, <1>3, <1>4 DEF PetInv

\* An observed spawn of a zone leaves a well-formed roster with distinct
\* numbers, and changes no entry but its own.
LEMMA ObserveSpawnStep ==
    ASSUME TypeOK, OrdersDistinct, NEW id \in SpawnIds, NEW spawn \in Spawn,
           ObserveSpawnPayload(id, spawn)
    PROVE  /\ entries' \in [SpawnIds -> Entry \cup {NotSeen}]
           /\ nextOrder' \in Nat \ {0}
           /\ OrdersDistinct'
           /\ \A other \in SpawnIds \ {id} : entries'[other] = entries[other]
           /\ spawn.owner = NoOwner => entries'[id] = entries[id]
           /\ spawn.owner # NoOwner =>
                 /\ entries'[id] # NotSeen
                 /\ entries'[id].active
                 /\ entries'[id].owner = spawn.owner
                 /\ entries'[id].name = spawn.name
<1>1. CASE spawn.owner = NoOwner
  BY <1>1 DEF ObserveSpawnPayload, TypeOK, OrdersDistinct, Seen
<1>2. CASE spawn.owner # NoOwner
  <2> DEFINE order == IF Seen(id) THEN entries[id].order ELSE nextOrder
             entry == [owner |-> spawn.owner, name |-> spawn.name,
                       active |-> TRUE, order |-> order]
  <2>1. order \in Nat \ {0}
    BY DEF TypeOK, Entry, Seen
  <2>2. entry \in Entry
    BY <1>2, <2>1 DEF Entry, Spawn
  <2>3. entries' = [entries EXCEPT ![id] = entry]
    BY <1>2 DEF ObserveSpawnPayload
  <2>4. nextOrder' = IF Seen(id) THEN nextOrder ELSE nextOrder + 1
    BY <1>2 DEF ObserveSpawnPayload
  <2>5. entry # NotSeen
    BY <2>2, PetRosterAssumption
  <2>6. entries'[id] = entry /\ \A other \in SpawnIds \ {id} : entries'[other] = entries[other]
    BY <2>3 DEF TypeOK
  <2> HIDE DEF entry
  <2>7. entry.order = order /\ entry.owner = spawn.owner /\ entry.name = spawn.name /\ entry.active
    BY DEF entry
  <2> HIDE DEF order
  <2>8. \A other \in SpawnIds : Seen(other)' => entries'[other].order < nextOrder'
    <3> SUFFICES ASSUME NEW other \in SpawnIds, Seen(other)'
                 PROVE  entries'[other].order < nextOrder'
      OBVIOUS
    <3>1. CASE other = id
      <4>1. order < nextOrder'
        BY <2>4 DEF order, OrdersDistinct, TypeOK, Seen
      <4> QED
        BY <3>1, <4>1, <2>6, <2>7
    <3>2. CASE other # id
      <4>1. Seen(other) /\ entries'[other].order = entries[other].order
        BY <3>2, <2>6 DEF Seen
      <4>2. entries[other].order < nextOrder /\ entries[other].order \in Nat
        BY <4>1 DEF OrdersDistinct, TypeOK, Entry, Seen
      <4> QED
        BY <4>1, <4>2, <2>4 DEF TypeOK
    <3> QED
      BY <3>1, <3>2
  <2>9. \A other \in SpawnIds \ {id} : Seen(other) => entries[other].order # order
    BY DEF order, OrdersDistinct, TypeOK, Entry, Seen
  <2>10. \A a, b \in SpawnIds :
            Seen(a)' /\ Seen(b)' /\ entries'[a].order = entries'[b].order => a = b
    BY <2>6, <2>7, <2>9 DEF OrdersDistinct, Seen
  <2>11. OrdersDistinct'
    BY <2>8, <2>10 DEF OrdersDistinct
  <2>12. entries' \in [SpawnIds -> Entry \cup {NotSeen}]
    BY <2>2, <2>3 DEF TypeOK
  <2>13. nextOrder' \in Nat \ {0}
    BY <2>4 DEF TypeOK
  <2> QED
    BY <1>2, <2>5, <2>6, <2>7, <2>11, <2>12, <2>13
<1> QED
  BY <1>1, <1>2

\* A despawn only ever makes one entry inactive.
LEMMA ObserveDeleteStep ==
    ASSUME TypeOK, OrdersDistinct, NEW id \in SpawnIds,
           ObserveDeleteSpawnPayload(id)
    PROVE  /\ entries' \in [SpawnIds -> Entry \cup {NotSeen}]
           /\ nextOrder' = nextOrder
           /\ OrdersDistinct'
           /\ ~Live(id)'
           /\ \A other \in SpawnIds \ {id} : entries'[other] = entries[other]
           /\ \A other \in SpawnIds :
                 Seen(other) => Seen(other)' /\ entries'[other].order = entries[other].order
<1>1. CASE ~Seen(id)
  BY <1>1 DEF ObserveDeleteSpawnPayload, TypeOK, OrdersDistinct, Seen, Live
<1>2. CASE Seen(id)
  <2> DEFINE entry == [entries[id] EXCEPT !.active = FALSE]
  <2>1. entries[id] \in Entry
    BY <1>2 DEF TypeOK, Seen
  <2>2. entry \in Entry /\ entry.order = entries[id].order /\ ~entry.active
    BY <2>1 DEF Entry
  <2>3. entries' = [entries EXCEPT ![id] = entry] /\ nextOrder' = nextOrder
    BY <1>2 DEF ObserveDeleteSpawnPayload
  <2>4. entry # NotSeen
    BY <2>2, PetRosterAssumption
  <2> HIDE DEF entry
  <2>5. entries'[id] = entry /\ \A other \in SpawnIds \ {id} : entries'[other] = entries[other]
    BY <2>3 DEF TypeOK
  <2>6. \A other \in SpawnIds :
           /\ Seen(other)' <=> Seen(other)
           /\ Seen(other) => entries'[other].order = entries[other].order
    BY <1>2, <2>2, <2>4, <2>5 DEF Seen
  <2>7. OrdersDistinct'
    BY <2>3, <2>6 DEF OrdersDistinct
  <2>8. entries' \in [SpawnIds -> Entry \cup {NotSeen}]
    BY <2>2, <2>3 DEF TypeOK
  <2> QED
    BY <2>2, <2>3, <2>5, <2>6, <2>7, <2>8 DEF Live
<1> QED
  BY <1>1, <1>2

\* Every step keeps the invariant.
LEMMA NextPetInv == PetInv /\ [Next]_vars => PetInv'
<1> SUFFICES ASSUME PetInv, [Next]_vars PROVE PetInv'
  OBVIOUS
<1> USE DEF PetInv
<1>1. ASSUME NEW id \in SpawnIds, NEW spawn \in Spawn, ReceiveSpawn(id, spawn)
      PROVE  PetInv'
  <2> USE <1>1 DEF ReceiveSpawn
  <2>1. ObserveSpawnPayload(id, spawn)
    OBVIOUS
  <2>2. TypeOK'
    BY <2>1, ObserveSpawnStep DEF TypeOK
  <2>3. OrdersDistinct'
    BY <2>1, ObserveSpawnStep
  <2>4. world'[id] = spawn /\ \A other \in SpawnIds \ {id} : world'[other] = world[other]
    BY DEF TypeOK
  <2>5. spawn # NoSpawn
    BY PetRosterAssumption
  <2>6. Live(id)' <=> IsPet(id)'
    <3>1. CASE spawn.owner = NoOwner
      <4>1. ~IsPet(id)
        BY <3>1 DEF IsPet
      <4>2. ~Live(id)
        BY <4>1 DEF RosterIsWorld
      <4> QED
        BY <2>1, <2>4, <3>1, <4>2, ObserveSpawnStep DEF Live, Seen, IsPet
    <3>2. CASE spawn.owner # NoOwner
      BY <2>1, <2>4, <2>5, <3>2, ObserveSpawnStep DEF Live, Seen, IsPet
    <3> QED
      BY <3>1, <3>2
  <2>7. Live(id)' => /\ entries'[id].owner = world'[id].owner
                     /\ entries'[id].name = world'[id].name
    BY <2>1, <2>4, <2>6, ObserveSpawnStep DEF IsPet
  <2>8. \A other \in SpawnIds \ {id} :
           /\ Live(other)' <=> IsPet(other)'
           /\ Live(other)' => /\ entries'[other].owner = world'[other].owner
                              /\ entries'[other].name = world'[other].name
    BY <2>1, <2>4, ObserveSpawnStep DEF RosterIsWorld, Live, Seen, IsPet
  <2>9. RosterIsWorld'
    BY <2>6, <2>7, <2>8 DEF RosterIsWorld
  <2> QED
    BY <2>2, <2>3, <2>9
<1>2. ASSUME NEW id \in SpawnIds, ReceiveDeleteSpawn(id)
      PROVE  PetInv'
  <2> USE <1>2 DEF ReceiveDeleteSpawn
  <2>1. ObserveDeleteSpawnPayload(id)
    OBVIOUS
  <2>2. TypeOK'
    BY <2>1, ObserveDeleteStep DEF TypeOK
  <2>3. OrdersDistinct'
    BY <2>1, ObserveDeleteStep
  <2>4. world'[id] = NoSpawn /\ \A other \in SpawnIds \ {id} : world'[other] = world[other]
    BY DEF TypeOK
  <2>5. ~Live(id)' /\ ~IsPet(id)'
    BY <2>1, <2>4, ObserveDeleteStep DEF IsPet
  <2>6. \A other \in SpawnIds \ {id} :
           /\ Live(other)' <=> IsPet(other)'
           /\ Live(other)' => /\ entries'[other].owner = world'[other].owner
                              /\ entries'[other].name = world'[other].name
    BY <2>1, <2>4, ObserveDeleteStep DEF RosterIsWorld, Live, Seen, IsPet
  <2>7. RosterIsWorld'
    BY <2>5, <2>6 DEF RosterIsWorld
  <2> QED
    BY <2>2, <2>3, <2>7
<1>3. ASSUME NEW id \in SpawnIds \cup {NoId}, ReceiveAuthStats(id)
      PROVE  PetInv'
  BY <1>3 DEF ReceiveAuthStats, TypeOK, OrdersDistinct, RosterIsWorld, Live, Seen, IsPet
<1>4. CASE LeaveZone
  BY <1>4 DEF LeaveZone, TypeOK, OrdersDistinct, RosterIsWorld, Seen
<1>5. CASE ReceiveEnterWorld
  <2> USE <1>5 DEF ReceiveEnterWorld, Clear
  <2>1. TypeOK'
    BY DEF TypeOK
  <2>2. \A id \in SpawnIds : ~Seen(id)'
    BY DEF Seen
  <2>3. OrdersDistinct'
    BY <2>2 DEF OrdersDistinct
  <2>4. RosterIsWorld'
    BY <2>2 DEF RosterIsWorld, Live, IsPet
  <2> QED
    BY <2>1, <2>3, <2>4
<1>6. ASSUME NEW slot \in Slots, TryTargetMultiPetAuxiliarySlot(slot)
      PROVE  PetInv'
  <2>1. Row(slot) \subseteq SpawnIds
    BY DEF Row, First, Candidates
  <2> QED
    BY <1>6, <2>1 DEF TryTargetMultiPetAuxiliarySlot, TypeOK, OrdersDistinct,
                      RosterIsWorld, Live, Seen, IsPet
<1>7. CASE UNCHANGED vars
  BY <1>7 DEF vars, TypeOK, OrdersDistinct, RosterIsWorld, Live, Seen, IsPet
<1> QED
  BY <1>1, <1>2, <1>3, <1>4, <1>5, <1>6, <1>7 DEF Next

\* The roster and the zone agree in every reachable state, and no two entries
\* share a first-seen number (ObserveSpawnPayload, ObserveDeleteSpawnPayload).
THEOREM PetInvariant == Spec => []PetInv
<1>1. Init => PetInv
  BY InitPetInv
<1>2. PetInv /\ [Next]_vars => PetInv'
  BY NextPetInv
<1> QED
  BY <1>1, <1>2, PTL DEF Spec

------------------------------------------------------------------------------
(* The rows *)

\* Of any seen entries there is a first one.
LEMMA FirstExists ==
    ASSUME TypeOK, NEW S \in SUBSET SpawnIds, S # {}, \A id \in S : Seen(id)
    PROVE  First(S) # {}
<1> DEFINE orders == {entries[id].order : id \in S}
           less   == OpToRel(<, Nat)
<1>1. orders \subseteq Nat /\ orders # {}
  BY DEF TypeOK, Entry, Seen
<1>2. IsWellFoundedOn(less, Nat)
  BY NatLessThanWellFounded
<1>3. \A m, n \in Nat : m < n => <<m, n>> \in less
  BY DEF OpToRel
<1> HIDE DEF less, orders
<1>4. PICK least \in orders : \A n \in orders : ~(<<n, least>> \in less)
  BY <1>1, <1>2, WFMin
<1>5. PICK first \in S : entries[first].order = least
  BY DEF orders
<1>6. \A id \in S : ~Before(id, first)
  <2> SUFFICES ASSUME NEW id \in S, Before(id, first) PROVE FALSE
    OBVIOUS
  <2>1. entries[id].order \in orders /\ entries[id].order < least
    BY <1>5 DEF orders, Before
  <2> QED
    BY <1>1, <1>3, <1>4, <2>1
<1> QED
  BY <1>6 DEF First

\* And at most one, since no two entries share a number.
LEMMA FirstUnique ==
    ASSUME TypeOK, OrdersDistinct, NEW S \in SUBSET SpawnIds,
           \A id \in S : Seen(id), NEW a \in First(S), NEW b \in First(S)
    PROVE  a = b
<1>1. a \in S /\ b \in S /\ ~Before(a, b) /\ ~Before(b, a)
  BY DEF First
<1>2. entries[a].order \in Nat /\ entries[b].order \in Nat
  BY <1>1 DEF TypeOK, Entry, Seen
<1> QED
  BY <1>1, <1>2 DEF Before, OrdersDistinct

\* The candidates of the snapshot are the siblings the zone really has.
LEMMA CandidatesAreOtherPets ==
    ASSUME PetInv, inZone
    PROVE  /\ Candidates = OtherPets
           /\ \A id \in Candidates : Seen(id) /\ entries[id].name = world[id].name
<1> USE DEF PetInv
<1>1. \A id \in SpawnIds :
         /\ Live(id) <=> IsPet(id)
         /\ Live(id) => /\ entries[id].owner = world[id].owner
                        /\ entries[id].name = world[id].name
  BY DEF RosterIsWorld
<1>2. focus # NoId => focus \in SpawnIds
  BY DEF TypeOK
<1>3. \A id \in SpawnIds : id \in Candidates <=> id \in OtherPets
  BY <1>1, <1>2 DEF Candidates, OtherPets
<1>4. Candidates \subseteq SpawnIds /\ OtherPets \subseteq SpawnIds
  BY DEF Candidates, OtherPets
<1>5. \A id \in Candidates : Live(id)
  BY DEF Candidates
<1> QED
  BY <1>1, <1>3, <1>4, <1>5 DEF Live

LEMMA PetInvRows == PetInv => RowsShowOtherPets
<1> SUFFICES ASSUME PetInv, inZone
             PROVE  /\ \A slot \in Slots : \A id \in Row(slot) :
                          id \in OtherPets /\ RowText(id) = DisplayName[world[id].name]
                    /\ \A slot \in Slots : \A a, b \in Row(slot) : a = b
                    /\ Row(1) \cap Row(2) = {}
                    /\ Row(1) = {} => OtherPets = {}
                    /\ Row(2) = {} => OtherPets \subseteq Row(1)
  BY DEF RowsShowOtherPets
<1> DEFINE rest == Candidates \ First(Candidates)
<1>1. TypeOK /\ OrdersDistinct
  BY DEF PetInv
<1>2. /\ Candidates = OtherPets
      /\ \A id \in Candidates : Seen(id) /\ entries[id].name = world[id].name
  BY CandidatesAreOtherPets
<1>3. Candidates \in SUBSET SpawnIds /\ rest \in SUBSET SpawnIds /\ rest \subseteq Candidates
  BY DEF Candidates
<1>4. Row(1) = First(Candidates) /\ Row(2) = First(rest)
  BY DEF Row
<1> HIDE DEF rest
<1>5. Row(1) \subseteq Candidates /\ Row(2) \subseteq rest
  BY <1>4 DEF First
<1>6. \A slot \in Slots : \A id \in Row(slot) :
         id \in OtherPets /\ RowText(id) = DisplayName[world[id].name]
  BY <1>2, <1>3, <1>5 DEF Slots, RowText
<1>7. \A slot \in Slots : \A a, b \in Row(slot) : a = b
  <2>1. \A a, b \in Row(1) : a = b
    BY <1>1, <1>2, <1>3, <1>4, FirstUnique
  <2>2. \A a, b \in Row(2) : a = b
    BY <1>1, <1>2, <1>3, <1>4, FirstUnique
  <2> QED
    BY <2>1, <2>2 DEF Slots
<1>8. Row(1) \cap Row(2) = {}
  BY <1>4, <1>5 DEF rest
<1>9. Row(1) = {} => OtherPets = {}
  BY <1>1, <1>2, <1>3, <1>4, FirstExists
<1>10. Row(2) = {} => OtherPets \subseteq Row(1)
  <2>1. Row(2) = {} => rest = {}
    BY <1>1, <1>2, <1>3, <1>4, FirstExists
  <2> QED
    BY <1>2, <1>4, <2>1 DEF rest
<1> QED
  BY <1>6, <1>7, <1>8, <1>9, <1>10

\* Every part of the roster keeps its range.
THEOREM PetTypeCorrect == Spec => []TypeOK
BY PetInvariant, PTL DEF PetInv

\* In every zone the rows show the focused pet's siblings and their names.
THEOREM RowsCorrect == Spec => []RowsShowOtherPets
<1>1. PetInv => RowsShowOtherPets
  BY PetInvRows
<1> QED
  BY <1>1, PetInvariant, PTL

\* No two pets change places before the roster is cleared.
THEOREM RowOrderKept == Spec => RowOrderStable
<1> DEFINE Kept == \A a, b \in SpawnIds :
                      Seen(a) /\ Seen(b) /\ Before(a, b) /\ ~ReceiveEnterWorld =>
                          (Seen(a) /\ Seen(b) /\ Before(a, b))'
<1>1. PetInv /\ [Next]_vars => [Kept]_vars
  <2> SUFFICES ASSUME PetInv, Next, ~ReceiveEnterWorld,
                      NEW a \in SpawnIds, NEW b \in SpawnIds,
                      Seen(a), Seen(b), Before(a, b)
               PROVE  (Seen(a) /\ Seen(b) /\ Before(a, b))'
    OBVIOUS
  <2> SUFFICES ASSUME NEW id \in SpawnIds, Seen(id)
               PROVE  Seen(id)' /\ entries'[id].order = entries[id].order
    BY DEF Before
  <2> USE DEF PetInv
  <2>1. ASSUME NEW other \in SpawnIds, NEW spawn \in Spawn, ReceiveSpawn(other, spawn)
        PROVE  Seen(id)' /\ entries'[id].order = entries[id].order
    <3>1. ObserveSpawnPayload(other, spawn)
      BY <2>1 DEF ReceiveSpawn
    <3>2. CASE other = id /\ spawn.owner # NoOwner
      <4>1. entries'[id] # NotSeen
        BY <3>1, <3>2, ObserveSpawnStep
      <4>2. entries'[id].order = entries[id].order
        BY <3>1, <3>2 DEF ObserveSpawnPayload, TypeOK
      <4> QED
        BY <4>1, <4>2 DEF Seen
    <3>3. CASE other # id \/ spawn.owner = NoOwner
      <4>1. entries'[id] = entries[id]
        BY <3>1, <3>3, ObserveSpawnStep
      <4> QED
        BY <4>1 DEF Seen
    <3> QED
      BY <3>2, <3>3
  <2>2. ASSUME NEW other \in SpawnIds, ReceiveDeleteSpawn(other)
        PROVE  Seen(id)' /\ entries'[id].order = entries[id].order
    BY <2>2, ObserveDeleteStep DEF ReceiveDeleteSpawn
  <2>3. ASSUME NEW other \in SpawnIds \cup {NoId}, ReceiveAuthStats(other)
        PROVE  Seen(id)' /\ entries'[id].order = entries[id].order
    BY <2>3 DEF ReceiveAuthStats, Seen
  <2>4. CASE LeaveZone
    BY <2>4 DEF LeaveZone, Seen
  <2>5. ASSUME NEW slot \in Slots, TryTargetMultiPetAuxiliarySlot(slot)
        PROVE  Seen(id)' /\ entries'[id].order = entries[id].order
    BY <2>5 DEF TryTargetMultiPetAuxiliarySlot, Seen
  <2> QED
    BY <2>1, <2>2, <2>3, <2>4, <2>5 DEF Next
<1> QED
  BY <1>1, PetInvariant, PTL DEF Spec, RowOrderStable

\* A click never targets anything but a living sibling of the focused pet.
THEOREM ClickTargetsSibling == Spec => ClickTargetsOtherPet
<1>1. PetInv /\ [Next]_vars =>
         [target' \notin {target, NoId} => inZone /\ target' \in OtherPets]_vars
  <2> SUFFICES ASSUME PetInv, Next, target' \notin {target, NoId}
               PROVE  inZone /\ target' \in OtherPets
    OBVIOUS
  <2>1. PICK slot \in Slots : TryTargetMultiPetAuxiliarySlot(slot)
    BY DEF Next, ReceiveSpawn, ReceiveDeleteSpawn, ReceiveAuthStats, LeaveZone,
           ReceiveEnterWorld
  <2>2. target' \in Row(slot) /\ world[target'] # NoSpawn
    BY <2>1 DEF TryTargetMultiPetAuxiliarySlot
  <2>3. target' \in SpawnIds
    BY <2>2 DEF Row, First, Candidates
  <2>4. inZone
    BY <2>2, <2>3 DEF PetInv, RosterIsWorld
  <2>5. target' \in Candidates
    BY <2>2 DEF Row, First
  <2> QED
    BY <2>4, <2>5, CandidatesAreOtherPets
<1> QED
  BY <1>1, PetInvariant, PTL DEF Spec, ClickTargetsOtherPet
=============================================================================
