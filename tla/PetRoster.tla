------------------------------- MODULE PetRoster -------------------------------
(***************************************************************************)
(* The rows for a player's other pets in the client's pet window.          *)
(*                                                                         *)
(* The server tells the client which pet is focused (OP_ServerAuthStats);  *)
(* which others there are the DLL learns on its own, from the spawn and    *)
(* despawn packets it sees go by (multipet_spawn_observer.cpp), and a      *)
(* click on a row targets the spawn the row stands for.  Spawn ids are     *)
(* used again: by another spawn after a despawn, by anything in the next   *)
(* zone.                                                                   *)
(***************************************************************************)
EXTENDS Naturals

CONSTANTS
    SpawnIds,     \* the ids the server gives to spawns
    NoId,         \* the id 0
    Owners,       \* spawns that own pets
    NoOwner,      \* the owner id of a spawn that is no pet
    Names,        \* raw spawn names
    Texts,        \* displayed names
    DisplayName,  \* BuildDisplayName: drops a trailing "000"
    NotSeen,      \* no entry of the roster
    NoSpawn       \* no spawn of the zone

Spawn == [name : Names, owner : Owners \cup {NoOwner}]
Entry == [owner : Owners, name : Names, active : BOOLEAN, order : Nat \ {0}]

ASSUME PetRosterAssumption ==
    /\ NoId \notin SpawnIds
    /\ NoOwner \notin Owners
    /\ DisplayName \in [Names -> Texts]
    /\ NotSeen \notin Entry
    /\ NoSpawn \notin Spawn

VARIABLES
    entries,    \* g_entries, by spawn id
    nextOrder,  \* g_next_first_seen_order
    focus,      \* g_focused_pet_id; NoId also stands for "none received"
    world,      \* the spawns of the zone, as the client knows them
    inZone,     \* the client receives the spawns of a zone
    target      \* the client's target

vars == <<entries, nextOrder, focus, world, inZone, target>>

TypeOK ==
    /\ entries \in [SpawnIds -> Entry \cup {NotSeen}]
    /\ nextOrder \in Nat \ {0}
    /\ focus \in SpawnIds \cup {NoId}
    /\ world \in [SpawnIds -> Spawn \cup {NoSpawn}]
    /\ inZone \in BOOLEAN
    /\ target \in SpawnIds \cup {NoId}

------------------------------------------------------------------------------
(* What the window shows *)

Seen(id) == entries[id] # NotSeen
Live(id) == Seen(id) /\ entries[id].active

\* Mutant: despawned pets stay candidates.
CandidatesEverSeen ==
    {id \in SpawnIds \ {focus} :
        /\ focus # NoId
        /\ Live(focus)
        /\ Seen(id)
        /\ entries[id].owner = entries[focus].owner}

\* The focused pet's siblings.
Candidates ==
    {id \in SpawnIds \ {focus} :
        /\ focus # NoId
        /\ Live(focus)
        /\ Live(id)
        /\ entries[id].owner = entries[focus].owner}

\* The order of the candidates, and the first of some of them.
Before(a, b) == entries[a].order < entries[b].order
First(S)     == {a \in S : \A b \in S : ~Before(b, a)}

\* The spawn of each row, if any: the first two candidates.
Slots == {1, 2}
Row(slot) ==
    IF slot = 1 THEN First(Candidates)
                ELSE First(Candidates \ First(Candidates))

RowText(id) == DisplayName[entries[id].name]

------------------------------------------------------------------------------
(* The packets *)

\* Mutant: a spawn without an owner is recorded too.
ObserveAnySpawn(id, spawn) ==
    /\ entries' = [entries EXCEPT ![id] =
            [owner |-> spawn.owner, name |-> spawn.name, active |-> TRUE,
             order |-> IF Seen(id) THEN entries[id].order ELSE nextOrder]]
    /\ nextOrder' = IF Seen(id) THEN nextOrder ELSE nextOrder + 1

\* Mutant: a pet that comes back is put last.
ObserveSpawnAsNew(id, spawn) ==
    IF spawn.owner = NoOwner
    THEN UNCHANGED <<entries, nextOrder>>
    ELSE /\ entries' = [entries EXCEPT ![id] =
                [owner |-> spawn.owner, name |-> spawn.name, active |-> TRUE,
                 order |-> nextOrder]]
         /\ nextOrder' = nextOrder + 1

ObserveSpawnPayload(id, spawn) ==
    IF spawn.owner = NoOwner
    THEN UNCHANGED <<entries, nextOrder>>
    ELSE /\ entries' = [entries EXCEPT ![id] =
                [owner |-> spawn.owner, name |-> spawn.name, active |-> TRUE,
                 order |-> IF Seen(id) THEN entries[id].order ELSE nextOrder]]
         /\ nextOrder' = IF Seen(id) THEN nextOrder ELSE nextOrder + 1

ObserveDeleteSpawnPayload(id) ==
    /\ entries' = IF Seen(id) THEN [entries EXCEPT ![id].active = FALSE] ELSE entries
    /\ UNCHANGED nextOrder

\* OP_ZoneEntry and OP_NewSpawn: a new spawn, or one of the zone sent again.
ReceiveSpawn(id, spawn) ==
    /\ inZone
    /\ world[id] \in {NoSpawn, spawn}
    /\ world' = [world EXCEPT ![id] = spawn]
    /\ ObserveSpawnPayload(id, spawn)
    /\ UNCHANGED <<focus, inZone, target>>

\* OP_DeleteSpawn.
ReceiveDeleteSpawn(id) ==
    /\ inZone
    /\ world' = [world EXCEPT ![id] = NoSpawn]
    /\ target' = IF target = id THEN NoId ELSE target
    /\ ObserveDeleteSpawnPayload(id)
    /\ UNCHANGED <<focus, inZone>>

\* A well-formed OP_ServerAuthStats: without the stat it clears the focus.
ReceiveAuthStats(id) ==
    /\ focus' = id
    /\ UNCHANGED <<entries, nextOrder, world, inZone, target>>

\* The client leaves its zone: its spawns are gone, and no packet says so.
LeaveZone ==
    /\ inZone
    /\ inZone' = FALSE
    /\ world' = [id \in SpawnIds |-> NoSpawn]
    /\ target' = NoId
    /\ UNCHANGED <<entries, nextOrder, focus>>

\* Mutant: the roster survives OP_EnterWorld.
ClearNothing ==
    UNCHANGED <<entries, nextOrder>>

Clear ==
    /\ entries' = [id \in SpawnIds |-> NotSeen]
    /\ nextOrder' = 1

\* OP_EnterWorld: the world server sends it before the next zone is entered.
ReceiveEnterWorld ==
    /\ ~inZone
    /\ inZone' = TRUE
    /\ Clear
    /\ UNCHANGED <<focus, world, target>>

\* A click on a row, resolved by the roster of this moment and looked up in the
\* client's own spawn list.
TryTargetMultiPetAuxiliarySlot(slot) ==
    \E id \in Row(slot) :
        /\ world[id] # NoSpawn
        /\ target' = id
        /\ UNCHANGED <<entries, nextOrder, focus, world, inZone>>

Init ==
    /\ entries = [id \in SpawnIds |-> NotSeen]
    /\ nextOrder = 1
    /\ focus = NoId
    /\ world = [id \in SpawnIds |-> NoSpawn]
    /\ inZone = FALSE
    /\ target = NoId

Next ==
    \/ \E id \in SpawnIds, spawn \in Spawn : ReceiveSpawn(id, spawn)
    \/ \E id \in SpawnIds : ReceiveDeleteSpawn(id)
    \/ \E id \in SpawnIds \cup {NoId} : ReceiveAuthStats(id)
    \/ LeaveZone
    \/ ReceiveEnterWorld
    \/ \E slot \in Slots : TryTargetMultiPetAuxiliarySlot(slot)

Spec == Init /\ [][Next]_vars

------------------------------------------------------------------------------
(* Properties *)

\* The pets of the zone with the focused pet's owner, the focused one left out.
IsPet(id) == world[id] # NoSpawn /\ world[id].owner # NoOwner

OtherPets ==
    {id \in SpawnIds \ {focus} :
        /\ focus # NoId
        /\ IsPet(focus)
        /\ IsPet(id)
        /\ world[id].owner = world[focus].owner}

\* In a zone the rows are two of the focused pet's living siblings, under
\* their own names, or as many as there are: whatever spawned, died, came back
\* under an id used before, or was left behind in another zone (GetSnapshot
\* over what ObserveSpawnPayload, ObserveDeleteSpawnPayload and Clear recorded).
RowsShowOtherPets ==
    inZone =>
        /\ \A slot \in Slots : \A id \in Row(slot) :
              id \in OtherPets /\ RowText(id) = DisplayName[world[id].name]
        /\ \A slot \in Slots : \A a, b \in Row(slot) : a = b
        /\ Row(1) \cap Row(2) = {}
        /\ Row(1) = {} => OtherPets = {}
        /\ Row(2) = {} => OtherPets \subseteq Row(1)

\* Two pets never change places until the next OP_EnterWorld, not even when
\* one of them dies and comes back ("stable order" in the repository's test).
RowOrderStable ==
    [][\A a, b \in SpawnIds :
          Seen(a) /\ Seen(b) /\ Before(a, b) /\ ~ReceiveEnterWorld =>
              (Seen(a) /\ Seen(b) /\ Before(a, b))']_vars

\* A click targets a living sibling of the focused pet and nothing else: no
\* stranger that was given a dead pet's id.
ClickTargetsOtherPet ==
    [][target' \notin {target, NoId} => inZone /\ target' \in OtherPets]_vars
=============================================================================
