--------------------------- MODULE CombatAbilities ---------------------------
(***************************************************************************)
(* The local player's combat abilities (src/src/hook_manager.cpp,          *)
(* multiclass_combat_ability.cpp).  The client copies them from a buffer   *)
(* of its own into the profile's array; a hook remembers the buffer.  When *)
(* a mask arrives, the array is written again from there, or, when nothing *)
(* is there, with abilities selected for the assigned classes; the next    *)
(* time the client rebuilds the ability window's list, the window is shown.*)
(*                                                                         *)
(* Everything runs on the client's game thread.  Only the client's Show is *)
(* no single step: it rebuilds the list again before it returns.           *)
(***************************************************************************)
EXTENDS AssignedMask, Integers, FiniteSetsExt

CONSTANTS
    Spell,          \* the spells of the client's spell manager, by id
    Categories,     \* the spell categories
    CombatCategories,   \* the categories of IsCombatAbilitySpellCategory
    Disciplines,    \* kSpellCategoryDisciplines
    Unavailable,    \* kSpellLevelUnavailable
    GateClasses,    \* CombatAbilityWindowAboutToShowGateAllowsClassId
    Capacity,       \* kMaxCombatAbilityIndex
    Buffers,        \* addresses the client copies abilities from
    Contents,       \* what a buffer can hold
    Lengths,        \* the entries a copy can have
    NoBuffer,       \* g_last_local_combat_ability_source is 0
    Unmapped,       \* the content of a buffer the client has freed
    Players,        \* the states of the local player the hooks read
    NoPlayer        \* no readable profile

SpellIds == 1..Len(Spell)
Arrays   == [1..Capacity -> Nat]

\* skill: the is-skill flag; costs: an endurance cost or a reuse timer.
\* learned: the profile's learned disciplines, 0 in the holes.
ASSUME CombatAssumption ==
    /\ Disciplines \in CombatCategories /\ CombatCategories \subseteq Categories
    /\ Capacity \in Nat \ {0}
    /\ Spell \in Seq([skill : BOOLEAN, category : Categories, costs : BOOLEAN,
                      deity : Nat, group : Int, subgroup : Int, rank : Int,
                      level : [PlayableClasses -> Nat]])
    /\ GateClasses \subseteq PlayableClasses
    /\ Contents \subseteq Arrays
    /\ Lengths \subseteq 0..Capacity
    /\ Unmapped \notin Contents
    /\ NoBuffer \notin Buffers
    /\ Players \subseteq [level : Nat, deity : Nat, displayed : PlayableClasses,
                          learned : Seq(Int)]
    /\ NoPlayer \notin Players

VARIABLES
    player,         \* the local player's profile and displayed class
    array,          \* the profile's combat abilities
    buffer,         \* the content at each address
    source,         \* g_last_local_combat_ability_source and its length
    showPending,    \* g_combat_ability_window_force_show_pending
    window,         \* the client's ability window
    showing,        \* TryInvokeWindowShow calls that have not returned
    copied,         \* the last copy into this profile's array (history)
    owed            \* a resync's window show is outstanding (history)

combatVars == <<player, array, buffer, source, showPending, window, showing, copied, owed>>

NoSource == [buffer |-> NoBuffer, length |-> 0]
NoCopy   == <<>>
Empty    == [i \in 1..Capacity |-> 0]

CombatTypeOK ==
    /\ auth \in Masks
    /\ player \in Players \cup {NoPlayer}
    /\ array \in Arrays
    /\ buffer \in [Buffers -> Contents \cup {Unmapped}]
    /\ source \in [buffer : Buffers, length : 0..Capacity] \cup {NoSource}
    /\ showPending \in BOOLEAN
    /\ window \in {"none", "hidden", "visible"}
    /\ showing \in Nat
    /\ copied \in [content : Seq(Nat), buffer : Buffers, intact : BOOLEAN] \cup {NoCopy}
    /\ owed \in BOOLEAN

------------------------------------------------------------------------------
(* The abilities of the assigned classes                                      *)

\* A spell the spell manager cannot give, or whose record cannot be read, is
\* one it does not have.
Eligible(id, class, who) ==
    LET spell == Spell[id] IN
    /\ spell.skill
    /\ spell.category \in CombatCategories \/ spell.costs
    /\ spell.deity \in {0, who.deity}
    /\ spell.level[class] # Unavailable
    /\ spell.level[class] <= who.level

CandidateBetter(a, b) ==
    LET one == Spell[a]
        two == Spell[b]
    IN  \/ one.rank > two.rank
        \/ /\ one.rank = two.rank
           /\ one.category # two.category
           /\ one.category = Disciplines
        \/ /\ one.rank = two.rank
           /\ one.category = two.category
           /\ a > b

SameGroup(a, b) ==
    /\ Spell[a].group > 0
    /\ Spell[a].group = Spell[b].group
    /\ Spell[a].subgroup = Spell[b].subgroup

\* Mutant: a full list takes no better candidate either.
WithCandidateUnlessFull(candidates, id) ==
    LET rivals == {i \in DOMAIN candidates : SameGroup(id, candidates[i])} IN
    IF Len(candidates) >= Capacity THEN candidates
    ELSE IF rivals # {}
    THEN [i \in DOMAIN candidates |->
             IF i \in rivals /\ CandidateBetter(id, candidates[i]) THEN id ELSE candidates[i]]
    ELSE IF Contains(candidates, id) THEN candidates
    ELSE Append(candidates, id)

\* An eligible spell joins the candidates, or replaces the one of its group
\* when it is better.
WithCandidate(candidates, id) ==
    LET rivals == {i \in DOMAIN candidates : SameGroup(id, candidates[i])} IN
    IF rivals # {}
    THEN [i \in DOMAIN candidates |->
             IF i \in rivals /\ CandidateBetter(id, candidates[i]) THEN id ELSE candidates[i]]
    ELSE IF Contains(candidates, id) \/ Len(candidates) >= Capacity THEN candidates
    ELSE Append(candidates, id)

\* The spells of one class, in the order of their ids.
WithClass(candidates, class, who) ==
    LET with[id \in 0..Len(Spell)] ==
            IF id = 0 THEN candidates
            ELSE IF Eligible(id, class, who) THEN WithCandidate(with[id - 1], id)
            ELSE with[id - 1]
    IN  with[Len(Spell)]

\* Class by class.
SelectCandidates(mask, who) ==
    LET order == BuildAuthoritativeCombatAbilityClassOrder(mask, who.displayed)
        selected[i \in 0..Len(order)] ==
            IF i = 0 THEN <<>> ELSE WithClass(selected[i - 1], order[i], who)
    IN  selected[Len(order)]

\* Mutant: the holes of the learned disciplines count.
WithHole(ids, id) ==
    IF Contains(ids, id) \/ Len(ids) >= Capacity THEN ids ELSE Append(ids, id)

WithLearned(ids, id) ==
    IF id <= 0 \/ Contains(ids, id) \/ Len(ids) >= Capacity THEN ids ELSE Append(ids, id)

BuildCombatAbilityArrayFromLearnedDisciplines(learned) ==
    LET ids[i \in 0..Len(learned)] ==
            IF i = 0 THEN <<>> ELSE WithLearned(ids[i - 1], learned[i])
    IN  ids[Len(learned)]

\* The learned disciplines, if there are any; else what the spell manager (if it
\* is there) has for the assigned classes.
SynthesizeCombatAbilityArrayFromSpellbook(mask, who, manager) ==
    LET learned == BuildCombatAbilityArrayFromLearnedDisciplines(who.learned) IN
    IF mask = {} \/ ~IsPlayableClassMask(mask) THEN <<>>
    ELSE IF learned # <<>> THEN learned
    ELSE IF manager THEN SelectCandidates(mask, who)
    ELSE <<>>

------------------------------------------------------------------------------
(* The array                                                                  *)

\* A copy of some leading entries leaves the entries behind them.
Overlay(entries) ==
    [i \in 1..Capacity |-> IF i <= Len(entries) THEN entries[i] ELSE array[i]]

HasAbility(entries) == \E i \in DOMAIN entries : entries[i] > 0

\* Mutant: a copy into any object is remembered.
CopyArrayAnywhere(b, length, local) ==
    /\ buffer[b] # Unmapped
    /\ local => player # NoPlayer
    /\ LET entries == SubSeq(buffer[b], 1, length) IN
         /\ array' = IF local THEN Overlay(entries) ELSE array
         /\ copied' = IF local THEN [content |-> entries, buffer |-> b, intact |-> TRUE] ELSE copied
         /\ source' = [buffer |-> b, length |-> length]
    /\ UNCHANGED <<player, buffer, showPending, window, showing, owed>>

\* InvokeCombatAbilityProducerArrayCopyHook: the client copies the leading
\* entries of a buffer, into the local player's array or another object's.
CopyArray(b, length, local) ==
    /\ buffer[b] # Unmapped
    /\ local => player # NoPlayer
    /\ LET entries == SubSeq(buffer[b], 1, length) IN
         /\ array' = IF local THEN Overlay(entries) ELSE array
         /\ copied' = IF local THEN [content |-> entries, buffer |-> b, intact |-> TRUE] ELSE copied
         /\ source' = IF local THEN [buffer |-> b, length |-> length] ELSE source
    /\ UNCHANGED <<player, buffer, showPending, window, showing, owed>>

Replayed ==
    IF source.length = 0 \/ buffer[source.buffer] = Unmapped THEN <<>>
    ELSE SubSeq(buffer[source.buffer], 1, source.length)

\* TryResyncLocalCombatAbilityArrayFromLastSource.
Resync(mask, manager) ==
    LET entries == IF HasAbility(Replayed) THEN Replayed
                   ELSE SynthesizeCombatAbilityArrayFromSpellbook(mask, player, manager)
        success == player # NoPlayer /\ entries # <<>>
    IN  /\ array' = IF success THEN Overlay(entries) ELSE array
        /\ showPending' = (success \/ showPending)
        /\ owed' = (success \/ owed)
        /\ UNCHANGED <<player, buffer, source, window, showing, copied>>

\* NotifyServerAuthStatsUpdated, for the combat abilities.
ReceiveMask(mask, manager) ==
    /\ auth' = mask
    /\ IF mask = {} THEN UNCHANGED combatVars ELSE Resync(mask, manager)

\* The attempt of TryRetryPendingCombatAbilityResync, whose budget and timing
\* AuthUpdate models.
RetryResync ==
    /\ auth # {}
    /\ player # NoPlayer
    /\ Resync(auth, TRUE)
    /\ UNCHANGED auth

------------------------------------------------------------------------------
(* The window                                                                 *)

\* Mutant: the pending show is dropped when there is no window yet.
ForceVisibleForgets(found, readable) ==
    IF ~found \/ ~showPending THEN UNCHANGED <<showPending, showing>>
    ELSE /\ showPending' = FALSE
         /\ showing' = IF readable /\ window = "hidden" THEN showing + 1 ELSE showing

\* Mutant: the pending show is taken back only once Show has returned.
ForceVisibleUntaken(found, readable) ==
    IF ~found \/ ~showPending \/ window = "none" \/ ~readable
    THEN UNCHANGED <<showPending, showing>>
    ELSE /\ showPending' = (window # "visible")
         /\ showing' = IF window = "visible" THEN showing ELSE showing + 1

\* TryForceCombatAbilityWindowVisible takes the pending show, and puts it back
\* when there is no window or its state cannot be read.
TryForceCombatAbilityWindowVisible(found, readable) ==
    IF ~found \/ ~showPending \/ window = "none" \/ ~readable
    THEN UNCHANGED <<showPending, showing>>
    ELSE /\ showPending' = FALSE
         /\ showing' = IF window = "visible" THEN showing ELSE showing + 1

\* InvokeCombatAbilityLookupHook from the rebuild of the list; found: the lookup
\* gave an ability.
RebuildAbilityList(found, readable) ==
    /\ TryForceCombatAbilityWindowVisible(found, readable)
    /\ owed' = (owed /\ ~(showPending /\ ~showPending' /\ window = "visible"))
    /\ UNCHANGED <<player, array, buffer, source, window, copied>>

\* The client's Show returns, or faults and leaves the window as it is.
ShowReturns(ok) ==
    /\ showing > 0
    /\ showing' = showing - 1
    /\ window' = IF ok THEN "visible" ELSE window
    /\ owed' = FALSE
    /\ UNCHANGED <<player, array, buffer, source, showPending, copied>>

\* CombatAbilityWndAboutToShowGateCallsiteHook: the client's gate allows the
\* window for the displayed class, or an assigned class has one.
AboutToShowGate ==
    \/ player # NoPlayer /\ player.displayed \in GateClasses
    \/ \E class \in GateClasses : HasAuthoritativeClass(auth # {}, auth, class)

ClientShows ==
    /\ window = "hidden"
    /\ AboutToShowGate
    /\ window' = "visible"
    /\ owed' = FALSE
    /\ UNCHANGED <<player, array, buffer, source, showPending, showing, copied>>

\* The window is created hidden, hidden by the player, destroyed with the UI.
WindowChanges(state) ==
    /\ <<window, state>> \in {<<"none", "hidden">>, <<"visible", "hidden">>,
                              <<"hidden", "none">>, <<"visible", "none">>}
    /\ window' = state
    /\ UNCHANGED <<player, array, buffer, source, showPending, showing, copied, owed>>

------------------------------------------------------------------------------
(* The client around the hooks                                                *)

\* The client fills, reuses or frees a buffer.
BufferChanges(b, content) ==
    /\ content # buffer[b]
    /\ buffer' = [buffer EXCEPT ![b] = content]
    /\ copied' = IF copied # NoCopy /\ copied.buffer = b
                 THEN [copied EXCEPT !.intact = FALSE] ELSE copied
    /\ UNCHANGED <<player, array, source, showPending, window, showing, owed>>

\* The profile is loaded, with an empty array, or dropped; in between the player
\* gains a level, learns or visits a trainer.
PlayerChanges(who) ==
    /\ who # player
    /\ player' = who
    /\ IF NoPlayer \in {player, who}
       THEN array' = Empty /\ copied' = NoCopy
       ELSE UNCHANGED <<array, copied>>
    /\ UNCHANGED <<buffer, source, showPending, window, showing, owed>>

CombatInit ==
    /\ player = NoPlayer
    /\ array = Empty
    /\ buffer = [b \in Buffers |-> Unmapped]
    /\ source = NoSource
    /\ showPending = FALSE
    /\ window = "none"
    /\ showing = 0
    /\ copied = NoCopy
    /\ owed = FALSE

ClientSteps ==
    \/ \E b \in Buffers, content \in Contents \cup {Unmapped} : BufferChanges(b, content)
    \/ \E who \in Players \cup {NoPlayer} : PlayerChanges(who)
    \/ \E state \in {"none", "hidden"} : WindowChanges(state)
    \/ ClientShows
    \/ \E b \in Buffers, length \in Lengths, local \in BOOLEAN : CopyArray(b, length, local)

\* Inside Show nothing but a rebuild happens.
CombatCalls ==
    \/ showing = 0 /\ RetryResync
    \/ showing = 0 /\ ClientSteps /\ UNCHANGED auth
    \/ /\ \/ \E found, readable \in BOOLEAN : RebuildAbilityList(found, readable)
          \/ \E ok \in BOOLEAN : ShowReturns(ok)
       /\ UNCHANGED auth

CombatNext ==
    \/ CombatCalls
    \/ /\ showing = 0
       /\ \E mask \in ReceivedMasks, manager \in BOOLEAN : ReceiveMask(mask, manager)

CombatSpec == auth = {} /\ CombatInit /\ [][CombatNext]_<<auth, combatVars>>

------------------------------------------------------------------------------
(* Properties *)

EligibleFor(mask, who) ==
    {id \in SpellIds : \E class \in mask : Eligible(id, class, who)}

\* What a synthesis selects: distinct eligible spells of the assigned classes,
\* and no eligible spell of a selected one's group is better, whatever the order
\* of the classes and even when the list is full; a list that is not full has
\* every group and every spell without one.
SynthesisKeepsBest ==
    (player # NoPlayer /\ auth # {} /\ IsPlayableClassMask(auth)) =>
        LET ids == SelectCandidates(auth, player) IN
        /\ IsInjective(ids)
        /\ ToSet(ids) \subseteq EligibleFor(auth, player)
        /\ \A id \in EligibleFor(auth, player) :
             /\ \A chosen \in ToSet(ids) :
                    SameGroup(id, chosen) => ~CandidateBetter(id, chosen)
             /\ Len(ids) < Capacity =>
                    Contains(ids, id) \/ \E chosen \in ToSet(ids) : SameGroup(id, chosen)

\* As long as the buffer of the client's last copy into this profile holds what
\* it held then, no resync changes what the client copied: copies into other
\* objects, other masks and synthesis leave it alone.
ResyncKeepsClientCopy ==
    (copied # NoCopy /\ copied.intact /\ HasAbility(copied.content)) =>
        SubSeq(array, 1, Len(copied.content)) = copied.content

\* The show a resync asked for is not forgotten: until the window has been
\* visible or its Show has returned, it is pending or under way, and never under
\* way twice although the client's Show rebuilds the list.
ShowNotForgotten == owed => showPending \/ showing > 0

ShowNotNested == showing <= 1
==============================================================================
