------------------------------ MODULE AuthStats ------------------------------
(***************************************************************************)
(* The payload of OP_ServerAuthStats (server_auth_stats_observer.cpp): a   *)
(* count and that many entries of a key and a 64-bit value.  A payload is  *)
(* its entries and whether its length agrees with its count.  A value is   *)
(* what its key holds (a class mask, a set of skills, a pet's health, a    *)
(* spawn id); WideValue stands for a value above 2^32 - 1 under a key that *)
(* holds 32 bits.                                                          *)
(***************************************************************************)
EXTENDS ClassIdentity, Naturals, Sequences

CONSTANTS
    WideValue,          \* a value that does not fit 32 bits
    Absent,             \* a stat the server has not given
    LowSkills,          \* the skills of the low mask, ids 0 .. 63
    HighSkills,         \* the skills of the high mask, ids 64 .. 127
    AdvertisedSkills    \* kAdvertisedActivatedSkills

StatKeys == {"classes", "skillsLow", "skillsHigh", "pet0", "pet1", "focus"}

\* The keys whose value is kept in 32 bits.
NarrowKeys == {"classes", "focus"}

\* What an entry may hold under its key.
IsStatEntry(entry) ==
    /\ entry.value # Absent
    /\ entry.value = WideValue => entry.key \notin StatKeys \ NarrowKeys
    /\ entry.key = "classes" => entry.value \in Masks \cup {WideValue}
    /\ entry.key = "skillsLow" => entry.value \in SUBSET LowSkills
    /\ entry.key = "skillsHigh" => entry.value \in SUBSET HighSkills

NoStats == [key \in StatKeys |-> Absent]

EmptyResult(payload) ==
    [valid          |-> FALSE,
     count          |-> Len(payload.entries),
     recognized     |-> 0,
     unknown        |-> 0,
     invalidClasses |-> FALSE,
     stats          |-> NoStats]

\* One turn of the loop over the entries.  A focused pet id that does not fit
\* counts both as recognized and as unknown; a mask that does not fit leaves
\* the one an earlier entry gave.
ParseEntry(result, entry) ==
    IF entry.key \notin StatKeys
    THEN [result EXCEPT !.unknown = @ + 1]
    ELSE LET counted == [result EXCEPT !.recognized = @ + 1] IN
         IF entry.value # WideValue   THEN [counted EXCEPT !.stats[entry.key] = entry.value]
         ELSE IF entry.key = "classes" THEN [counted EXCEPT !.invalidClasses = TRUE]
         ELSE [counted EXCEPT !.unknown = @ + 1]

ParsePayload(payload) ==
    LET parsed[n \in 0 .. Len(payload.entries)] ==
            IF n = 0 THEN EmptyResult(payload)
            ELSE ParseEntry(parsed[n - 1], payload.entries[n])
    IN IF payload.exactLength
       THEN [parsed[Len(payload.entries)] EXCEPT !.valid = TRUE]
       ELSE EmptyResult(payload)

\* Keeps the stats the packet lacks, as for the class mask.
StoredMerged(stats, result) ==
    [key \in StatKeys |->
        IF result.valid /\ result.stats[key] # Absent
        THEN result.stats[key]
        ELSE stats[key]]

\* The class mask is stored when the packet has one; every other stat is
\* overwritten by what the packet has, also by its absence.
Stored(stats, result) ==
    IF ~result.valid
    THEN stats
    ELSE [result.stats EXCEPT
            !["classes"] = IF @ = Absent THEN stats["classes"] ELSE @]

\* A packet whose opcode the client reports as 0 is taken for
\* OP_ServerAuthStats when its shape leaves no doubt.
FallbackMaxCount == 5

IsStrictServerAuthStatsFallbackCandidate(result) ==
    /\ result.valid
    /\ result.count \in 1 .. FallbackMaxCount
    /\ result.stats["classes"] # Absent
    /\ ~result.invalidClasses
    /\ result.unknown = 0
    /\ result.recognized = result.count

\* Both masks must be there, whichever of them holds the skill.
HasAuthoritativeActivatedSkill(stats, skill) ==
    /\ stats["skillsLow"] # Absent
    /\ stats["skillsHigh"] # Absent
    /\ skill \in AdvertisedSkills
    /\ \/ skill \in LowSkills /\ skill \in stats["skillsLow"]
       \/ skill \in HighSkills /\ skill \in stats["skillsHigh"]
==============================================================================
