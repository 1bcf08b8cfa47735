---------------------------- MODULE SpellUsability ----------------------------
(***************************************************************************)
(* Which spells the client lets a character of several classes scribe      *)
(* (src/src/hook_manager.cpp, spell_level_selection.cpp).                  *)
(*                                                                         *)
(* The client's class gate resolves the character's class, reads the mask  *)
(* of the spell's classes, rejects when the class is not in it, and else   *)
(* goes on to rules of race, deity and level.  The DLL has detours on the  *)
(* gate and on the functions it calls; they tell each other what they saw  *)
(* through one global snapshot.  The gate's detour turns a rejection into  *)
(* an acceptance when the snapshot says it was the class that failed, and  *)
(* an assigned class is in the spell's mask.                               *)
(*                                                                         *)
(* One thread, but the functions nest: a rule may enter the gate again     *)
(* before its own detour has recorded it, and a path of the spellbook,     *)
(* which gives the calls within it a correlation id, may start inside.     *)
(***************************************************************************)
EXTENDS AssignedMask, Naturals, FiniteSetsExt

CONSTANTS
    SpellMasks,     \* the masks the client's mask getter returns
    Installs,       \* the combinations of hooks an installation can leave
    MaxDepth,       \* bound: nested calls
    LevelTables,    \* a spell's required level for each class
    Unusable        \* the level 255

ASSUME SpellAssumption ==
    /\ SpellMasks \subseteq Masks
    /\ Installs \subseteq SUBSET {"usability", "resolver", "getter", "rule"}
    /\ MaxDepth \in Nat
    /\ Unusable \in Nat
    /\ LevelTables \subseteq [PlayableClasses -> 0..Unusable]

VARIABLES
    installed,      \* g_multiclass_spell_usability_enabled ("usability"), and the
                    \* detours behind the gate's own
    frames,         \* the calls in progress, the innermost one last
    snapshot,       \* g_start_spell_scribe_precheck_class_mask_snapshot
    correlation     \* g_spellbook_ui_active_correlation_id: 0, or a path's

gateVars == <<installed, frames, snapshot, correlation>>

NoSnapshot == [active |-> FALSE, correlation |-> 0, resolved |-> FALSE, class |-> NoClass,
               masked |-> FALSE, mask |-> {}, late |-> FALSE]

AnyClass == PlayableClasses \cup {NoClass}

\* A call of the client's gate: the class it resolves (its record readable or not)
\* and the mask it reads.
Gate == [kind : {"gate"}, known : BOOLEAN, at : {"entered", "resolved", "masked", "done"},
         class : AnyClass, readable : BOOLEAN, mask : Masks, result : BOOLEAN]

Path == [kind : {"path"}, assigns : BOOLEAN]

\* A rule in progress, until its detour records it.
Rule == [kind : {"rule"}]

GateTypeOK ==
    /\ installed \in Installs
    /\ frames \in Seq(Gate \cup Path \cup Rule)
    /\ snapshot \in [active : BOOLEAN, correlation : {0, 1}, resolved : BOOLEAN,
                     class : AnyClass, masked : BOOLEAN, mask : Masks, late : BOOLEAN]
    /\ correlation \in {0, 1}

------------------------------------------------------------------------------
(* The snapshot                                                               *)

\* A detour that is in place, under the gate that reset the snapshot.
Records(detour) ==
    /\ detour \in installed
    /\ snapshot.active
    /\ snapshot.correlation = correlation

\* Mutant: the snapshot of the gate that returned stays active.
Uncleared(old) == old

\* ClearStartSpellScribePrecheckClassMaskSnapshot.
Cleared(old) == NoSnapshot

\* CaptureStartSpellScribePrecheckClassResolverFromGateContext does what the
\* resolver would have done, from the gate's own context, and may not succeed.
Captured(class, readable) ==
    IF ~snapshot.active \/ snapshot.resolved \/ ~readable THEN snapshot
    ELSE [snapshot EXCEPT !.resolved = TRUE, !.class = class]

\* The condition of the override in StartSpellScribePrecheckGateHook.
Overrides(known, result, seen) ==
    /\ "usability" \in installed
    /\ ~result
    /\ known
    /\ ~seen.late
    /\ IsPlayableClassId(seen.class)
    /\ seen.masked
    /\ seen.class \notin seen.mask
    /\ auth \cap seen.mask # {}

------------------------------------------------------------------------------
(* The calls                                                                  *)

Top == frames[Len(frames)]

Inside(kind) == frames # <<>> /\ Top.kind = kind

WithTop(gate) == [frames EXCEPT ![Len(frames)] = gate]

\* Where the client's code may make the next call.
CanCall == frames = <<>> \/ Inside("path") \/ Inside("rule")

\* SpellbookDispatcherHook and StartSpellScribePathHook.
EnterPath ==
    /\ CanCall
    /\ Len(frames) < MaxDepth
    /\ frames' = Append(frames, [kind |-> "path", assigns |-> correlation = 0])
    /\ correlation' = 1
    /\ UNCHANGED <<installed, snapshot>>

LeavePath ==
    /\ Inside("path")
    /\ frames' = Front(frames)
    /\ correlation' = IF Top.assigns THEN 0 ELSE correlation
    /\ UNCHANGED <<installed, snapshot>>

\* StartSpellScribePrecheckGateHook until its call of the original.
EnterGate(known, class, readable) ==
    /\ CanCall
    /\ Len(frames) < MaxDepth
    /\ frames' = Append(frames, [kind |-> "gate", known |-> known, at |-> "entered",
                                 class |-> class, readable |-> readable, mask |-> {},
                                 result |-> FALSE])
    /\ snapshot' = [NoSnapshot EXCEPT !.active = TRUE, !.correlation = correlation]
    /\ UNCHANGED <<installed, correlation>>

FastAccept ==
    /\ Inside("gate") /\ Top.at = "entered"
    /\ frames' = WithTop([Top EXCEPT !.at = "done", !.result = TRUE])
    /\ UNCHANGED <<installed, snapshot, correlation>>

\* StartSpellScribePrecheckClassResolverHook around the client's resolver; a
\* resolver without a record, or an unreadable one, leaves NoClass.
ResolveClass ==
    /\ Inside("gate") /\ Top.at = "entered"
    /\ frames' = WithTop([Top EXCEPT !.at = "resolved"])
    /\ snapshot' = IF Records("resolver")
                   THEN [snapshot EXCEPT !.resolved = TRUE,
                                         !.class = IF Top.readable THEN Top.class ELSE NoClass]
                   ELSE snapshot
    /\ UNCHANGED <<installed, correlation>>

\* StartSpellScribePrecheckAssignedMaskGetterHook.
GetAssignedMask(mask) ==
    /\ Inside("gate") /\ Top.at = "resolved"
    /\ frames' = WithTop([Top EXCEPT !.at = IF Top.class \in mask THEN "masked" ELSE "done",
                                     !.mask = mask])
    /\ snapshot' = IF Records("getter") THEN [snapshot EXCEPT !.masked = TRUE, !.mask = mask]
                   ELSE snapshot
    /\ UNCHANGED <<installed, correlation>>

\* One of the four rules begins, and may make calls of its own.
CallRule ==
    /\ Inside("gate") /\ Top.at = "masked"
    /\ Len(frames) < MaxDepth
    /\ frames' = Append(frames, [kind |-> "rule"])
    /\ UNCHANGED <<installed, snapshot, correlation>>

\* StartSpellScribePrecheckRule...Hook after its call of the original.
RuleReturns(accepts) ==
    /\ Inside("rule")
    /\ LET gate == frames[Len(frames) - 1] IN
       frames' = Append(SubSeq(frames, 1, Len(frames) - 2),
                        IF accepts THEN gate ELSE [gate EXCEPT !.at = "done"])
    /\ snapshot' = IF Records("rule") THEN [snapshot EXCEPT !.late = TRUE] ELSE snapshot
    /\ UNCHANGED <<installed, correlation>>

\* The client's gate accepts when no rule rejects.
Accept ==
    /\ Inside("gate") /\ Top.at = "masked"
    /\ frames' = WithTop([Top EXCEPT !.at = "done", !.result = TRUE])
    /\ UNCHANGED <<installed, snapshot, correlation>>

\* What StartSpellScribePrecheckGateHook answers once the original is done.
Overridden == Overrides(Top.known, Top.result, Captured(Top.class, Top.readable))

\* The end of the hook; the client goes on with the answer.
LeaveGate ==
    /\ Inside("gate") /\ Top.at = "done"
    /\ frames' = Front(frames)
    /\ snapshot' = Cleared(snapshot)
    /\ UNCHANGED <<installed, correlation>>

GateInit ==
    /\ installed \in Installs
    /\ frames = <<>>
    /\ snapshot = NoSnapshot
    /\ correlation = 0

\* A packet is not dispatched within a call.
MaskChanges(mask) ==
    /\ frames = <<>>
    /\ auth' = mask
    /\ UNCHANGED gateVars

GateCalls ==
    \/ EnterPath
    \/ LeavePath
    \/ \E known, readable \in BOOLEAN, class \in AnyClass : EnterGate(known, class, readable)
    \/ FastAccept
    \/ ResolveClass
    \/ \E mask \in SpellMasks : GetAssignedMask(mask)
    \/ CallRule
    \/ \E accepts \in BOOLEAN : RuleReturns(accepts)
    \/ Accept
    \/ LeaveGate

GateNext ==
    \/ GateCalls /\ UNCHANGED auth
    \/ \E mask \in ReceivedMasks : MaskChanges(mask)

GateSpec == auth = {} /\ GateInit /\ [][GateNext]_<<auth, gateVars>>

------------------------------------------------------------------------------
(* The required level                                                         *)

IsValidRequiredLevel(level) == level \notin {0, Unusable}

\* Mutant: the first assigned class with a level decides.
SelectFirstValidRequiredLevel(mask, levels, original) ==
    LET try(level, class) == IF level = Unusable /\ class \in mask /\ IsValidRequiredLevel(levels[class])
                             THEN levels[class] ELSE level
        first == FoldLeft(try, Unusable, ClassOrder)
    IN  IF mask = {} \/ ~IsPlayableClassMask(mask) \/ first = Unusable THEN original ELSE first

\* GetSpellLevelNeededHook: the lowest level of the assigned classes that have
\* one, or the client's own answer.
SelectLowestValidRequiredLevel(mask, levels, original) ==
    LET valid == {levels[class] : class \in {c \in PlayableClasses :
                                     HasClass(mask, c) /\ IsValidRequiredLevel(levels[c])}}
    IN  IF mask = {} \/ ~IsPlayableClassMask(mask) \/ valid = {} THEN original ELSE Min(valid)

------------------------------------------------------------------------------
(* Properties *)

\* A gate is overridden exactly when it itself rejected a playable class that is
\* not in the mask it read, and an assigned class is: whatever gates and paths
\* nest in it or around it, and whichever detours are missing besides the mask
\* getter's (hook_manager.cpp:23839, "only clears the proven early native-class reject. Later
\* rule helpers, native-mask hits, and missing authoritative intersections still
\* fall through unchanged").
OverrideIsForOwnClassReject ==
    (Inside("gate") /\ Top.at = "done") =>
        (Overridden <=>
            /\ ~Top.result
            /\ {"usability", "getter"} \subseteq installed
            /\ Top.known
            /\ Top.readable /\ IsPlayableClassId(Top.class)
            /\ Top.class \notin Top.mask
            /\ auth \cap Top.mask # {})

\* A spell the gate is made to accept has a required level: when its mask is that
\* of the classes with a level, the level an assigned class needs, and no assigned
\* class gets it earlier.  The two hooks agree on who can use a spell.
LevelForOverriddenSpell ==
    (Inside("gate") /\ Top.at = "done" /\ Overridden /\ IsPlayableClassMask(auth)) =>
        \A levels \in {l \in LevelTables : {c \in PlayableClasses : IsValidRequiredLevel(l[c])}
                                              = Top.mask \cap PlayableClasses} :
            LET level == SelectLowestValidRequiredLevel(auth, levels, levels[Top.class])
                owners == {c \in auth : HasClass(Top.mask, c)}
            IN  /\ level \in {levels[c] : c \in owners}
                /\ \A c \in owners : level <= levels[c]
===============================================================================
