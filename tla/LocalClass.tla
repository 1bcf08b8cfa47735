------------------------------ MODULE LocalClass ------------------------------
(***************************************************************************)
(* Answers the client computes for one class, computed for every assigned  *)
(* one (src/src/hook_manager.cpp): a hook overwrites the local class in up *)
(* to three of the client's objects, calls the client's own function, and  *)
(* writes the classes back, once per class, and keeps the best answer.     *)
(*                                                                         *)
(* The client computes them on its one game thread, so a hooked call is    *)
(* one step; what it does to memory on the way is the operators' work.     *)
(* Memory is the class and the stored mana at each address.  The char-data *)
(* class record has them at the profile's offsets, and may be the profile. *)
(***************************************************************************)
EXTENDS TrainerSession, ClassOrder, Integers

CONSTANTS
    OwnRecords,         \* addresses of a class record that is not the profile
    HeroicIntClasses,   \* IsHeroicIntManaClassId
    HeroicWisClasses,   \* IsHeroicWisManaClassId
    NativeMaxMana,      \* what the client's Max_Mana computes for a class
    NativeSkill,        \* what a skill or ability function computes for a class
    HeroicBonus,        \* the local char data's heroic bonus fields
    StoredMana,         \* the mana values the server or the client stores
    Environments        \* the conditions a hooked call can meet

\* An environment of a call: the object the client's function works on, its
\* cap argument, the classes for which the function faults (faults), for which
\* Cur_Mana faults once it has stored (torn), and the unwritable objects.
ASSUME LocalClassAssumption ==
    /\ OwnRecords \subseteq Profiles
    /\ HeroicIntClasses \cup HeroicWisClasses \subseteq CastingClasses
    /\ NativeMaxMana \in [PlayableClasses -> Nat]
    /\ NativeSkill \in [PlayableClasses -> Nat]
    /\ HeroicBonus \in [int : Int, wis : Int]
    /\ StoredMana \subseteq Int
    /\ Environments \subseteq
           [site : {"profile", "record"}, cap : BOOLEAN, faults : SUBSET PlayableClasses,
            torn : SUBSET PlayableClasses, failing : SUBSET (Spawns \cup Profiles)]

VARIABLES
    record,     \* the local char data's class record, or NoAddress
    mana,       \* the stored current mana at each address
    hooked      \* the detour on the client's Max_Mana is installed

localVars == <<sessionVars, record, mana, hooked>>

Memory == [class |-> class, mana |-> mana]

LocalTypeOK ==
    /\ TypeOK
    /\ record \in Profiles \cup {NoAddress}
    /\ mana \in [Profiles -> Int]
    /\ hooked \in BOOLEAN

------------------------------------------------------------------------------
(* The temporary override *)

LocalObjects == {spawn, profile, record} \ {NoAddress}

\* The classes TryApplyTemporaryLocalClassOverride saves, all of them before
\* its first write.
SavedClasses(memory) ==
    [a \in {b \in LocalObjects : IsPlayableClassId(memory.class[b])} |-> memory.class[a]]

\* Mutant: each object is saved when its turn comes, so a record that is the
\* profile is saved under the override.
OverrideSavedInTurn(memory, id, env) ==
    LET saved == SavedClasses(memory)
        over  == {a \in DOMAIN saved \ env.failing : IsPlayableClassId(id)}
    IN  [active |-> over # {},
         saved  |-> [a \in DOMAIN saved |->
                        IF a = record /\ a = profile /\ a \in over THEN id ELSE saved[a]],
         memory |-> [memory EXCEPT !.class =
                        [a \in Addresses |-> IF a \in over THEN id ELSE @[a]]]]

\* The memory under an override: active when one write at least succeeds.
TryApplyTemporaryLocalClassOverride(memory, id, env) ==
    LET saved == SavedClasses(memory)
        over  == {a \in DOMAIN saved \ env.failing : IsPlayableClassId(id)}
    IN  [active |-> over # {},
         saved  |-> saved,
         memory |-> [memory EXCEPT !.class =
                        [a \in Addresses |-> IF a \in over THEN id ELSE @[a]]]]

RestoreTemporaryLocalClassOverride(memory, saved, env) ==
    [memory EXCEPT !.class =
        [a \in Addresses |-> IF a \in DOMAIN saved \ env.failing THEN saved[a] ELSE @[a]]]

WrittenBack(call, saved, env) ==
    [call EXCEPT !.memory = RestoreTemporaryLocalClassOverride(@, saved, env)]

\* The outcome of a call under an override of class id, and the memory after
\* the classes are written back, which a fault of the call does not prevent.
Probe(memory, id, env, Native(_)) ==
    LET override == TryApplyTemporaryLocalClassOverride(memory, id, env) IN
    IF ~override.active
    THEN [memory |-> memory, ok |-> FALSE, value |-> 0]
    ELSE WrittenBack(Native(override.memory), override.saved, env)

Better(best, id, probe) ==
    IF probe.ok /\ probe.value > best.value
    THEN [memory |-> probe.memory, value |-> probe.value, class |-> id]
    ELSE [best EXCEPT !.memory = probe.memory]

Tried(best, id, env, Native(_)) == Better(best, id, Probe(best.memory, id, env, Native))

\* The best answer over the playable classes that are in ids, or the given one.
EvaluateBest(memory, ids, env, value, Native(_)) ==
    LET best[i \in 0 .. Len(ClassOrder)] ==
            IF i = 0 THEN [memory |-> memory, value |-> value, class |-> NoClass]
            ELSE IF ClassOrder[i] \notin ids THEN best[i - 1]
            ELSE Tried(best[i - 1], ClassOrder[i], env, Native)
    IN  best[Len(ClassOrder)]

Outcome(call) == [memory |-> call.memory, value |-> call.value]

------------------------------------------------------------------------------
(* The client's functions.  They compute with the class of one object.        *)

Site(env) == IF env.site = "record" THEN record ELSE profile

\* A client without a class record of its own works on the profile.
Met == {env \in Environments : env.site = "record" => record \notin {NoAddress, profile}}

\* Max_Mana, GetManaRegen, GetAdjustedSkill and the like: no side effect.
NativeFor(memory, env, table) ==
    LET id == memory.class[Site(env)] IN
    [memory |-> memory, ok |-> id \notin env.faults,
     value  |-> IF id \in env.faults THEN 0 ELSE table[id]]

NativeMax(memory, env) == NativeFor(memory, env, NativeMaxMana)

------------------------------------------------------------------------------
(* Mana *)

AssignedClasses == {id \in PlayableClasses : HasAuthoritativeClass(auth # {}, auth, id)}

AssignedCasters == {id \in AssignedClasses : IsCastingClassId(id)}

\* TryBuildLocalAuthoritativeCastingContext for the local player.
Eligible(memory) ==
    /\ HasAnyAuthoritativeCastingClass(auth # {}, auth)
    /\ profile # NoAddress
    /\ ~IsCastingClassId(memory.class[profile])
    /\ HasAuthoritativeClass(auth # {}, auth, memory.class[profile])

Positive(n) == IF n > 0 THEN n ELSE 0

\* TryReadLocalHeroicManaBonuses: the fields hold the double of the stats.
Heroic(bonus) == Positive(bonus) \div 2

\* TryBuildHeroicManaAdjustment: a heroic stat counts when an assigned class
\* uses it and the one whose answer was best does not; ten times for the maximum,
\* one part in 25 for the regeneration.
HeroicManaAdjustment(id, times, parts) ==
    LET counts(family, bonus) ==
            IF auth \cap family # {} /\ id \notin family
            THEN (times * Heroic(bonus)) \div parts ELSE 0
    IN  IF ~IsPlayableClassId(id) THEN 0
        ELSE counts(HeroicIntClasses, HeroicBonus.int)
             + counts(HeroicWisClasses, HeroicBonus.wis)

WithHeroics(best, times, parts) ==
    [best EXCEPT !.value = @ + HeroicManaAdjustment(best.class, times, parts)]

EvaluateBestAuthoritativeMaxMana(memory, env, value) ==
    WithHeroics(EvaluateBest(memory, AssignedCasters, env, value,
                             LAMBDA m : NativeMax(m, env)),
                10, 1)

EvaluateBestAuthoritativeManaRegen(memory, env, value) ==
    WithHeroics(EvaluateBest(memory, AssignedCasters, env, value,
                             LAMBDA m : NativeFor(m, env, NativeSkill)),
                1, 25)

\* The hooks answer 0 when the client's own function faults.
Hooked(native, Evaluate(_, _)) ==
    IF ~native.ok THEN [memory |-> native.memory, value |-> 0]
    ELSE IF Eligible(native.memory) THEN Outcome(Evaluate(native.memory, native.value))
    ELSE Outcome(native)

CharacterZoneClientMaxMana(memory, env) ==
    Hooked(NativeMax(memory, env),
           LAMBDA m, value : EvaluateBestAuthoritativeMaxMana(m, env, value))

CharacterZoneClientGetManaRegen(memory, env) ==
    Hooked(NativeFor(memory, env, NativeSkill),
           LAMBDA m, value : EvaluateBestAuthoritativeManaRegen(m, env, value))

\* Cur_Mana is no getter: asked to cap, it stores the mana it caps to the
\* Max_Mana it calls, which is the hook's when that is installed.  The hook
\* swallows a fault of the function it calls.
CurManaUnder(max, memory, env) ==
    LET id     == memory.class[Site(env)]
        stored == memory.mana[Site(env)]
        caps   == env.cap /\ stored > max.value
        value  == IF caps THEN max.value ELSE stored
    IN  IF \/ ~hooked /\ id \in env.faults
           \/ caps /\ Site(env) \in env.failing
        THEN [memory |-> memory, ok |-> FALSE, value |-> 0]
        ELSE [memory |-> [max.memory EXCEPT !.mana[Site(env)] = value],
              ok     |-> id \notin env.torn,
              value  |-> value]

NativeCurMana(memory, env) ==
    CurManaUnder(IF hooked THEN CharacterZoneClientMaxMana(memory, env)
                           ELSE Outcome(NativeMax(memory, env)), memory, env)

\* The snapshot of the stored mana: the local objects that have it.
ManaObjects(memory) ==
    {a \in {profile, record} \ {NoAddress} : IsPlayableClassId(memory.class[a])}

WithStoredMana(memory, value, env) ==
    [memory EXCEPT !.mana =
        [a \in Profiles |-> IF a \in ManaObjects(memory) \ env.failing THEN value[a] ELSE @[a]]]

\* Mutant: the bare call.
CurManaUnpreserved(memory, env) == NativeCurMana(memory, env)

PutBack(call, memory, env) ==
    IF call.ok THEN [call EXCEPT !.memory = WithStoredMana(@, memory.mana, env)] ELSE call

\* TryInvokeCharacterZoneClientCurManaPreservingStorage: the stored mana is put
\* back after the call, but not when the call faults.
CurManaPreservingStorage(memory, env) == PutBack(NativeCurMana(memory, env), memory, env)

\* The stored mana a capped call may report.
Capped(stored, env, max) ==
    IF env.cap /\ max > 0 /\ stored > max THEN max ELSE Positive(stored)

BestCurMana(memory, env, value) ==
    EvaluateBest(memory, AssignedCasters, env, value,
                 LAMBDA m : CurManaPreservingStorage(m, env))

StoredIfBetter(best, stored, memory) ==
    [memory |-> memory, value |-> IF stored > best.value THEN stored ELSE best.value]

\* Mutant: the stored mana is reported whatever the maximum.
WithinAnyMax(best, max, env) ==
    StoredIfBetter(best, Positive(max.memory.mana[profile]), max.memory)

\* The profile's stored mana counts too, within the best maximum.
WithinMax(best, max, env) ==
    StoredIfBetter(best, Capped(max.memory.mana[profile], env, max.value), max.memory)

WithBestMax(best, env) ==
    WithinMax(best, EvaluateBestAuthoritativeMaxMana(best.memory, env, 0), env)

EvaluateBestAuthoritativeCurMana(memory, env, value) ==
    WithBestMax(BestCurMana(memory, env, value), env)

\* An empty mana is refilled: the maximum is stored and reported.
Refilled(current, max, env) ==
    IF max.value > 0 /\ ManaObjects(max.memory) \ env.failing # {}
    THEN [memory |-> WithStoredMana(max.memory, [a \in Profiles |-> max.value], env),
          value  |-> max.value]
    ELSE [memory |-> max.memory, value |-> current.value]

Seeded(current, native, env) ==
    IF current.value <= 0 /\ native.value <= 0
    THEN Refilled(current, EvaluateBestAuthoritativeMaxMana(current.memory, env, 0), env)
    ELSE current

CurManaFrom(native, env) ==
    IF ~native.ok THEN [memory |-> native.memory, value |-> 0]
    ELSE IF ~Eligible(native.memory) THEN Outcome(native)
    ELSE Seeded(EvaluateBestAuthoritativeCurMana(native.memory, env, native.value), native, env)

\* InvokeCharacterZoneClientCurManaOverride.
CharacterZoneClientCurMana(memory, env) == CurManaFrom(NativeCurMana(memory, env), env)

PercentOf(value, max) ==
    LET current == IF value > max.value THEN max.value ELSE Positive(value) IN
    IF max.value <= 0 THEN [memory |-> max.memory, ok |-> FALSE, percent |-> 0]
    ELSE [memory  |-> max.memory, ok |-> TRUE,
          percent |-> (current * 100 + max.value \div 2) \div max.value]

BestPercent(best, native, env) ==
    PercentOf(best.value, EvaluateBestAuthoritativeMaxMana(best.memory, env, native))

NativePercent(current, max, env) ==
    IF ~max.ok THEN [memory |-> max.memory, ok |-> FALSE, percent |-> 0]
    ELSE IF Eligible(max.memory)
    THEN BestPercent(EvaluateBestAuthoritativeCurMana(max.memory, env, current),
                     max.value, env)
    ELSE PercentOf(current, max)

PercentAfter(native, env) ==
    IF native.ok THEN NativePercent(native.value, NativeMax(native.memory, env), env)
    ELSE [memory |-> native.memory, ok |-> FALSE, percent |-> 0]

\* TryEvaluateLocalPlayerManaPercent: the client's own functions, then the
\* best of every class; it fails when one of the two faults or there is no
\* maximum.
LocalPlayerManaPercent(memory, env) ==
    LET capped == [env EXCEPT !.cap = TRUE] IN
    PercentAfter(NativeCurMana(memory, capped), capped)

PercentOr(percent, value) ==
    [memory |-> percent.memory, value |-> IF percent.ok THEN percent.percent ELSE value]

\* PlayerManaEqTypeResolverHook: the gauge reads the percentage, the mana label
\* the best of the resolver's own answers.
PlayerManaEqTypeResolver(memory, env, gauge) ==
    LET native == NativeFor(memory, env, NativeSkill) IN
    IF ~native.ok THEN [memory |-> native.memory, value |-> 0]
    ELSE IF gauge THEN PercentOr(LocalPlayerManaPercent(native.memory, env), native.value)
    ELSE IF Eligible(native.memory)
    THEN Outcome(EvaluateBest(native.memory, AssignedCasters, env, native.value,
                              LAMBDA m : NativeFor(m, env, NativeSkill)))
    ELSE Outcome(native)

\* GetLabelFromEQHook of the custom mana label.
ManaLabel(memory, env) == PercentOr(LocalPlayerManaPercent(memory, env), 0)

------------------------------------------------------------------------------
(* Skills and combat abilities *)

MaskAssigns == auth # {} /\ IsPlayableClassMask(auth)

\* GetAdjustedSkill's hook and the Skills window's value: only when the client
\* itself has none.
AdjustedSkill(memory, env) ==
    LET native == NativeFor(memory, env, NativeSkill)
        best   == EvaluateBest(native.memory, AssignedClasses, env, native.value,
                               LAMBDA m : NativeFor(m, env, NativeSkill))
    IN  IF ~native.ok \/ native.value > 0 \/ ~MaskAssigns
        THEN [memory |-> native.memory, value |-> native.value]
        ELSE [memory |-> best.memory, value |-> best.value]

\* InvokeSkillsWindowRowHelperHook: the best row, whatever the client's own.
SkillsWindowRow(memory, env) ==
    LET native == NativeFor(memory, env, NativeSkill)
        best   == EvaluateBest(native.memory, AssignedClasses, env, native.value,
                               LAMBDA m : NativeFor(m, env, NativeSkill))
    IN  IF ~native.ok \/ ~MaskAssigns
        THEN [memory |-> native.memory, value |-> native.value]
        ELSE [memory |-> best.memory, value |-> best.value]

Displayed(memory) == IF spawn = NoAddress THEN NoClass ELSE memory.class[spawn]

\* The first class in order with an ability answers.
FirstAbility(memory, ids, env, value) ==
    LET first[i \in 0 .. Len(ids)] ==
            IF i = 0 THEN [memory |-> memory, value |-> 0, class |-> NoClass]
            ELSE IF first[i - 1].class # NoClass THEN first[i - 1]
            ELSE Tried(first[i - 1], ids[i], env, LAMBDA m : NativeFor(m, env, NativeSkill))
        last == first[Len(ids)]
    IN  IF last.class = NoClass THEN [last EXCEPT !.value = value] ELSE last

\* EvaluateBestAuthoritativeCombatAbility, from InvokeCombatAbilityLookupHook.
CombatAbility(memory, env) ==
    LET native == NativeFor(memory, env, NativeSkill)
        first  == FirstAbility(native.memory,
                               BuildAuthoritativeCombatAbilityClassOrder(
                                   auth, Displayed(native.memory)),
                               env, native.value)
    IN  IF ~native.ok \/ native.value > 0 \/ ~MaskAssigns
        THEN [memory |-> native.memory, value |-> native.value]
        ELSE [memory |-> first.memory, value |-> first.value]

------------------------------------------------------------------------------
(* Actions *)

\* What each hooked call can leave in memory.
Calls(env) ==
    {CharacterZoneClientCurMana(Memory, env), CharacterZoneClientMaxMana(Memory, env),
     CharacterZoneClientGetManaRegen(Memory, env),
     PlayerManaEqTypeResolver(Memory, env, TRUE), PlayerManaEqTypeResolver(Memory, env, FALSE),
     ManaLabel(Memory, env), AdjustedSkill(Memory, env), SkillsWindowRow(Memory, env),
     CombatAbility(Memory, env)}

InWorld == spawn # NoAddress /\ profile # NoAddress

Answer(call) ==
    /\ InWorld
    /\ class' = call.memory.class
    /\ mana' = call.memory.mana
    /\ UNCHANGED <<auth, objects, session, pending, trainer, record, hooked>>

HookedCall == \E env \in Met : InWorld /\ \E call \in Calls(env) : Answer(call)

\* The mana the server or the client itself stores in every copy.
StoreMana(value) ==
    /\ profile # NoAddress
    /\ mana' = [a \in Profiles |-> IF a \in {profile, record} THEN value ELSE mana[a]]
    /\ UNCHANGED <<sessionVars, record, hooked>>

LoadProfileWithMana(a, value) ==
    /\ LoadProfile(a)
    /\ mana' = [mana EXCEPT ![a] = value]
    /\ UNCHANGED <<record, hooked>>

\* The class record is the profile, or an object of its own.
LoadRecord(a) ==
    /\ profile # NoAddress
    /\ record = NoAddress
    /\ record' = a
    /\ mana' = [mana EXCEPT ![a] = mana[profile]]
    /\ IF a = profile
       THEN UNCHANGED sessionVars
       ELSE Load(a) /\ UNCHANGED <<spawn, profile>>
    /\ UNCHANGED hooked

LocalObjectsChange ==
    \/ \E a \in Profiles \ OwnRecords, value \in StoredMana : LoadProfileWithMana(a, value)
    \/ \E a \in OwnRecords \cup {profile} : LoadRecord(a)
    \/ /\ \E name \in Names \cup {NoName} : LeaveZone(name)
       /\ record' = NoAddress
       /\ mana' = [a \in Profiles |-> 0]
       /\ UNCHANGED hooked
    \/ \E name \in Names : EnterWorld(name) /\ UNCHANGED <<record, mana, hooked>>
    \/ \E a \in Spawns : LoadSpawn(a) /\ UNCHANGED <<record, mana, hooked>>

LocalInit ==
    /\ Init
    /\ record = NoAddress
    /\ mana = [a \in Profiles |-> 0]
    /\ hooked \in BOOLEAN

LocalNext ==
    \/ HookedCall
    \/ \E value \in StoredMana : StoreMana(value)
    \/ LocalObjectsChange
    \/ /\ \/ Sends
          \/ Clicks
          \/ \E mask \in SessionMasks : ReceiveMask(mask)
       /\ UNCHANGED <<record, mana, hooked>>

LocalSpec == LocalInit /\ [][LocalNext]_localVars

------------------------------------------------------------------------------
(* Properties *)

\* Only a session or the client itself changes a class.  Whatever a hooked call
\* meets (a fault under the override, an object that cannot be written, a class
\* record that is the profile), its overrides never outlive it.
ClassesUntouched ==
    [][UNCHANGED <<session, spawn, profile, record>> => UNCHANGED class]_localVars

\* No fault and every page writable.
Clean(env) == env.faults = {} /\ env.torn = {} /\ env.failing = {}

\* Reading mana is no way to change it: with the Max_Mana hook installed, a
\* call changes the profile's stored mana only to the maximum it would report,
\* either because the stored mana exceeds it or because it is empty
\* (docs/multiclass-negative-results.md:50, "Preserve and restore local
\* current-mana storage").
StoredManaKept ==
    (InWorld /\ hooked) =>
        \A env \in Met : Clean(env) =>
            \A call \in Calls(env) :
                LET stored == call.memory.mana[profile] IN
                stored # mana[profile] =>
                    /\ stored = CharacterZoneClientMaxMana(Memory, env).value
                    /\ stored < mana[profile] \/ mana[profile] <= 0

\* The current mana asked with the cap is never above the maximum the client
\* is told.
CurrentWithinMax ==
    (InWorld /\ hooked) =>
        \A env \in Met : (Clean(env) /\ env.cap) =>
            CharacterZoneClientCurMana(Memory, env).value
                <= CharacterZoneClientMaxMana(Memory, env).value

\* An ability the client itself does not have comes from an assigned class,
\* even while a train window displays another one, and is found when one has it.
AbilityOfAssignedClass ==
    InWorld =>
        \A env \in Met : (Clean(env) /\ MaskAssigns) =>
            LET native == NativeFor(Memory, env, NativeSkill).value
                value  == CombatAbility(Memory, env).value
            IN  native <= 0 =>
                    /\ value > 0 => \E id \in auth : NativeSkill[id] = value
                    /\ (\E id \in auth : NativeSkill[id] > 0) => value > 0
===============================================================================
