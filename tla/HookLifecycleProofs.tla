-------------------------- MODULE HookLifecycleProofs --------------------------
(***************************************************************************)
(* What HookLifecycle keeps for every client the DLL may be loaded into:   *)
(* nothing is patched without its evidence, a patched place calls through, *)
(* and a removal that runs to its end leaves nothing behind.  The          *)
(* inductive invariant remembers which groups the chain of removals has    *)
(* already passed.                                                         *)
(***************************************************************************)
EXTENDS HookLifecycle, SequenceTheorems, TLAPS

\* The seams each removal of the chain tries.
SeamsOf ==
    [pet |-> Pet, receive |-> {"receive"}, aaXp |-> AAXp, who |-> Who,
     list |-> {"list"}, progression |-> Progression, label |-> {"label"},
     show |-> {"show"}, wrappers |-> Wrappers, derived |-> Derived,
     aboutToShow |-> AboutToShow, level |-> {"level"} \cup Mana, skill |-> Skills,
     canEquip |-> Items, moveItem |-> {"moveItem"}, classUsable |-> {"classUsable"},
     trainer |-> {"trainer"}, gate |-> {"gate"}, maskGetter |-> {"maskGetter"},
     rule4462c0 |-> {"rule4462c0"}, rule446190 |-> {"rule446190"},
     rule446200 |-> {"rule446200"}, rule446380 |-> {"rule446380"}, send |-> {"send"}]

Positions == 1 .. 24

\* The item seams whose removal may fail unnoticed.
Leftover == (Items \ {"canEquip"}) \cap client.stuck

\* What may stay of the groups before the k-th.
GoneBefore(k) == \A i \in Positions : i < k => installed \cap SeamsOf[Chain[i]] \subseteq Leftover

------------------------------------------------------------------------------
(* The inductive invariant *)

\* Where the DLL is, and what that says about the two flags.
Flags ==
    /\ stage \in {"start", "running", "observer", "down"} \cup Groups
    /\ stage = "start" =>
         installed = {} /\ original = {} /\ hasSkill = "null" /\ ~initialized /\ ~started
    /\ stage = "running" => (started = initialized) /\ (~initialized => installed = {})
    /\ stage \in Groups => initialized
    /\ {session, initialized, started} \subseteq BOOLEAN
    /\ hasSkill \in {"null", "entry", "trampoline"}
    /\ observer \in {"unavailable", "on", "disabled", "hookFailure", "shutdown"}

\* The groups the chain has passed are out.
Passed ==
    /\ \A k \in Positions : stage = Chain[k] => GoneBefore(k)
    /\ stage \in {"observer", "down"} /\ ~initialized => installed \subseteq Leftover

\* A session lives on the trainer's gate.
SessionOnGate == session => "trainer" \in installed

\* The features hang on the seams that enable them until those are removed.
Attached ==
    /\ stage = "running" =>
         /\ "trainer" \in installed => "receive" \in installed
         /\ installed \cap Mana # {} => "level" \in installed
         /\ installed \cap Items \subseteq client.stuck \/ "canEquip" \in original
    /\ stage \in {"running"} \cup {Chain[k] : k \in 1 .. 13} =>
         (installed \cap Skills # {} => "hasSkill" \in installed)

\* The receive hook feeds the observer as long as it may be patched.
Fed ==
    "receive" \in installed /\ client.stuck = {} =>
        observer = "on" /\ stage \in {"running", "pet", "receive"}

Kept ==
    /\ installed \subseteq Seams
    /\ original \subseteq Seams
    /\ installed \ original \subseteq client.stuck \cup {"label"}
    /\ installed \cap {"receive", "level", "send", "trainer", "hasSkill"} \subseteq original

HookInv ==
    /\ Flags
    /\ Kept
    /\ Passed
    /\ SessionOnGate
    /\ Attached
    /\ Fed
    /\ HasSkillPointerLive
    /\ FailClosed

------------------------------------------------------------------------------
(* The chain *)

\* A group's place in the chain.
Place ==
    [pet |-> 1, receive |-> 2, aaXp |-> 3, who |-> 4, list |-> 5, progression |-> 6,
     label |-> 7, show |-> 8, wrappers |-> 9, derived |-> 10, aboutToShow |-> 11,
     level |-> 12, skill |-> 13, canEquip |-> 14, moveItem |-> 15, classUsable |-> 16,
     trainer |-> 17, gate |-> 18, maskGetter |-> 19, rule4462c0 |-> 20,
     rule446190 |-> 21, rule446200 |-> 22, rule446380 |-> 23, send |-> 24]

LEMMA ChainPlaces ==
    /\ Len(Chain) = 24 /\ DOMAIN Chain = Positions
    /\ \A k \in Positions : Place[Chain[k]] = k
<1>1. Len(Chain) = 24 /\ DOMAIN Chain = Positions
  BY DEF Chain, Positions
<1>2. ASSUME NEW k \in Positions PROVE Place[Chain[k]] = k
  BY DEF Chain, Positions, Place
<1> QED
  BY <1>1, <1>2

LEMMA ChainApart ==
    ASSUME NEW i \in Positions, NEW j \in Positions, Chain[i] = Chain[j]
    PROVE  i = j
BY ChainPlaces

\* No group bears the name of another stage.
LEMMA StagesApart ==
    ASSUME NEW k \in Positions
    PROVE  Chain[k] \notin {"start", "running", "observer", "down"} /\ Chain[k] \in Groups
<1>1. Chain[k] \notin {"start", "running", "observer", "down"}
  BY DEF Chain, Positions
<1> QED
  BY <1>1, ChainPlaces DEF Groups

\* After a group comes the next one, or the end.
LEMMA ProceedNext ==
    ASSUME NEW k \in Positions, NEW ok, Proceed(Chain[k], ok)
    PROVE  stage' = IF ~ok \/ k = 24 THEN "observer" ELSE Chain[k + 1]
<1>1. PICK at : at = CHOOSE i \in DOMAIN Chain : Chain[i] = Chain[k]
  OBVIOUS
<1>2. at = k
  BY <1>1, ChainPlaces
<1> QED
  BY <1>1, <1>2, ChainPlaces DEF Proceed

\* Every seam belongs to a group.
LEMMA SeamInGroup ==
    ASSUME NEW seam \in Seams
    PROVE  \E k \in Positions : seam \in SeamsOf[Chain[k]]
<1>1. ASSUME NEW g \in Groups, seam \in SeamsOf[g]
      PROVE  \E k \in Positions : seam \in SeamsOf[Chain[k]]
  BY <1>1, ChainPlaces DEF Groups
<1>2. {"pet", "receive", "aaXp", "who", "list", "progression", "label", "show",
        "wrappers", "derived", "aboutToShow", "level", "skill", "canEquip", "moveItem",
        "classUsable", "trainer", "gate", "maskGetter", "rule4462c0", "rule446190",
        "rule446200", "rule446380", "send"} \subseteq Groups
  BY ChainPlaces DEF Groups, Chain, Positions
<1>3. \/ seam \in Pet \/ seam \in AAXp \/ seam \in {"level"} \cup Mana \/ seam \in Skills
      \/ seam \in Items \/ seam \in Who \/ seam \in Progression \/ seam \in Wrappers
      \/ seam \in Derived \/ seam \in AboutToShow
      \/ seam \in {"receive"} \/ seam \in {"list"} \/ seam \in {"label"}
      \/ seam \in {"show"} \/ seam \in {"moveItem"} \/ seam \in {"classUsable"}
      \/ seam \in {"trainer"} \/ seam \in {"send"} \/ seam \in Prechecks
  BY DEF Seams, Display
<1>4. seam \in Prechecks => \E g \in Groups : seam \in SeamsOf[g]
  BY <1>2 DEF Prechecks, SeamsOf
<1>5. \E g \in Groups : seam \in SeamsOf[g]
  BY <1>2, <1>3, <1>4 DEF SeamsOf
<1> QED
  BY <1>1, <1>5

------------------------------------------------------------------------------
(* The installers *)

\* An installer touches these seams only.
Within(done, seams) == done.kept \subseteq seams /\ done.undone \subseteq seams

Touched(done) == done.kept \cup done.undone

LEMMA TurnWithin ==
    ASSUME NEW able, NEW groups, NEW seams, \A i \in DOMAIN groups : groups[i] \subseteq seams
    PROVE  /\ Within(InTurn(able, groups), seams)
           /\ \/ InTurn(able, groups).kept = {}
              \/ /\ \A i \in DOMAIN groups : groups[i] \subseteq InTurn(able, groups).kept
                 /\ InTurn(able, groups).undone = {}
           /\ Touched(InTurn(able, groups)) \subseteq able
<1>1. PICK stops : stops = {i \in DOMAIN groups : ~(groups[i] \subseteq able)}
  OBVIOUS
<1>2. PICK reached : reached = {i \in DOMAIN groups : \A j \in stops : i <= j}
  OBVIOUS
<1>3. PICK patched : patched = able \cap UNION {groups[i] : i \in reached}
  OBVIOUS
<1>4. InTurn(able, groups) = IF stops = {} THEN [kept |-> patched, undone |-> {}]
                             ELSE [kept |-> {}, undone |-> patched]
  BY <1>1, <1>2, <1>3 DEF InTurn
<1>5. patched \subseteq seams /\ patched \subseteq able
  BY <1>2, <1>3
<1>6. stops = {} => \A i \in DOMAIN groups : groups[i] \subseteq patched
  BY <1>1, <1>2, <1>3
<1> QED
  BY <1>4, <1>5, <1>6 DEF Within, Touched

LEMMA AllWithin ==
    ASSUME NEW outcomes, NEW seams, \A done \in outcomes : Within(done, seams)
    PROVE  Within(AndAll(outcomes), seams)
BY DEF Within, AndAll

LEMMA EachTouches ==
    ASSUME NEW able, NEW seams
    PROVE  /\ Each(able, seams).kept = able \cap seams /\ Each(able, seams).undone = {}
           /\ Within(Each(able, seams), seams) /\ Touched(Each(able, seams)) \subseteq able
BY DEF Each, Within, Touched

LEMMA NothingTouched == Nothing.kept = {} /\ Nothing.undone = {}
BY DEF Nothing

\* Where both sets of seams were installed, the touched ones are theirs.
LEMMA AllTouch ==
    ASSUME NEW outcomes
    PROVE  /\ \A seam : seam \in AndAll(outcomes).kept <=> \E done \in outcomes : seam \in done.kept
           /\ \A seam : seam \in AndAll(outcomes).undone
                          <=> \E done \in outcomes : seam \in done.undone
BY DEF AndAll

LEMMA ReceiveInstalled ==
    ASSUME NEW able, NEW manifest
    PROVE  LET done == InstallReceiveDispatchHook(able, manifest) IN
           /\ Within(done, {"receive"} \cap able) /\ done.undone = {}
           /\ Touched(done) # {} => "packetHooks" \in manifest.allowed
           /\ "packetHooks" \in manifest.allowed => done.kept = {"receive"} \cap able
BY DEF InstallReceiveDispatchHook, Each, Nothing, Within, Touched

LEMMA AAXpInstalled ==
    ASSUME NEW able
    PROVE  Within(InstallAAXpLowLevelUiPatch(able), AAXp)
<1>1. PICK groups : groups = <<{"aaXpA"}, {"aaXpB"}>>
  OBVIOUS
<1>2. \A i \in DOMAIN groups : groups[i] \subseteq AAXp
  BY <1>1 DEF AAXp
<1> QED
  BY <1>1, <1>2, TurnWithin DEF InstallAAXpLowLevelUiPatch

LEMMA LevelInstalled ==
    ASSUME NEW able, NEW manifest
    PROVE  LET done == InstallGetSpellLevelNeededHook(able, manifest) IN
           /\ Within(done, {"level"} \cup Mana) /\ done.undone = {}
           /\ Touched(done) # {} => "level" \in done.kept
                                    /\ "spellUsability" \in manifest.allowed
<1>1. PICK mana : mana = InstallLocalManaHooks(able)
  OBVIOUS
<1>2. mana.kept \subseteq Mana /\ mana.undone = {}
  <2>1. PICK outcomes : outcomes = {InstallManaVisibility(able), InstallManaLabels(able),
                                    InstallCurMana(able), InstallMaxManaAndRegen(able)}
    OBVIOUS
  <2>2. \A done \in outcomes : done.kept \subseteq Mana /\ done.undone = {}
    BY <2>1 DEF InstallManaVisibility, InstallManaLabels, InstallCurMana,
                InstallMaxManaAndRegen, Each, Mana, CurManaSites
  <2> QED
    BY <1>1, <2>1, <2>2 DEF InstallLocalManaHooks, AndAll
<1> QED
  BY <1>1, <1>2 DEF InstallGetSpellLevelNeededHook, And, Each, Nothing, Within, Touched

LEMMA PrechecksInstalled ==
    ASSUME NEW able, NEW manifest
    PROVE  LET done == InstallStartSpellScribePrecheckTraces(able, manifest) IN
           Within(done, Prechecks \cap manifest.validated) /\ done.undone = {}
BY DEF InstallStartSpellScribePrecheckTraces, Each, Nothing, Within

LEMMA ScrollsInstalled ==
    ASSUME NEW able, NEW manifest
    PROVE  LET done == InstallScrollScribeTraceHooks(able, manifest) IN
           /\ Within(done, {"classUsable"}) /\ done.undone = {}
           /\ Touched(done) # {} => "itemUsability" \in manifest.allowed
BY DEF InstallScrollScribeTraceHooks, Each, Nothing, Within, Touched

LEMMA TrainerInstalled ==
    ASSUME NEW able, NEW manifest
    PROVE  LET done == InstallGuildTrainerHook(able, manifest) IN
           /\ Within(done, {"trainer"}) /\ done.undone = {}
           /\ Touched(done) # {} => "receive" \in InstallReceiveDispatchHook(able, manifest).kept
BY ReceiveInstalled DEF InstallGuildTrainerHook, Each, Nothing, Within, Touched

LEMMA CanEquipInstalled ==
    ASSUME NEW able, NEW manifest
    PROVE  LET done == InstallCanEquipHook(able, manifest) IN
           /\ Within(done, Items)
           /\ done.kept # {} => "canEquip" \in done.kept
           /\ Touched(done) # {} => "itemUsability" \in manifest.allowed
                                    /\ "canEquip" \in manifest.validated
<1>1. PICK before : before = InTurn(able, BeforeHasSkill)
  OBVIOUS
<1>2. PICK needed : needed = BeforeHasSkill
                    \o <<able \cap {"slot21"}, {"lButtonCore"}, {"lateGate"}>>
  OBVIOUS
<1>3. PICK done : done = CASE before.kept = {} -> before
                           [] ~Shows(client, {Entry("hasSkill")}) ->
                                [kept |-> {}, undone |-> before.kept]
                           [] OTHER -> InTurn(able, needed)
  OBVIOUS
<1>4. /\ BeforeHasSkill \in Seq(SUBSET Items)
      /\ BeforeHasSkill[1] = {"canEquip"} /\ Len(BeforeHasSkill) >= 1
  <2>1. /\ <<{"canEquip"}>> \in Seq(SUBSET Items)
        /\ InstallMerchantUsabilityCallsites \in Seq(SUBSET Items)
        /\ InstallAugmentPlacementValidatorCallsite \in Seq(SUBSET Items)
    BY DEF Items, InstallMerchantUsabilityCallsites, InstallAugmentPlacementValidatorCallsite
  <2>2. PICK first : first = <<{"canEquip"}>> \o InstallMerchantUsabilityCallsites
    OBVIOUS
  <2>3. /\ first \in Seq(SUBSET Items) /\ first[1] = {"canEquip"} /\ Len(first) >= 1
    BY <2>1, <2>2, ConcatProperties, LenProperties
  <2> QED
    BY <2>1, <2>2, <2>3, ConcatProperties, LenProperties DEF BeforeHasSkill
<1>5. needed \in Seq(SUBSET Items) /\ needed[1] = {"canEquip"} /\ Len(needed) >= 1
  <2>1. <<able \cap {"slot21"}, {"lButtonCore"}, {"lateGate"}>> \in Seq(SUBSET Items)
    BY DEF Items
  <2> QED
    BY <1>2, <1>4, <2>1, ConcatProperties, LenProperties
<1>6. Within(before, Items)
  <2>1. \A i \in DOMAIN BeforeHasSkill : BeforeHasSkill[i] \subseteq Items
    BY <1>4
  <2> QED
    BY <1>1, <2>1, TurnWithin
<1>7. /\ Within(InTurn(able, needed), Items)
      /\ InTurn(able, needed).kept # {} => "canEquip" \in InTurn(able, needed).kept
  <2>1. \A i \in DOMAIN needed : needed[i] \subseteq Items
    BY <1>5
  <2>2. 1 \in DOMAIN needed /\ needed[1] = {"canEquip"}
    BY <1>5, LenProperties
  <2> QED
    BY <2>1, <2>2, TurnWithin
<1>8. Within(done, Items) /\ (done.kept # {} => "canEquip" \in done.kept)
  BY <1>3, <1>6, <1>7 DEF Within
<1>9. PICK outcomes : outcomes = {done, InstallInventorySummaries(able),
                                  InstallDetailedItemUsabilityTraceCallsites(able)}
  OBVIOUS
<1>10. \A o \in outcomes : Within(o, Items)
  BY <1>8, <1>9 DEF InstallInventorySummaries, InstallDetailedItemUsabilityTraceCallsites,
                    Each, Within, Items
<1>11. InstallCanEquipHook(able, manifest) =
         IF ~("itemUsability" \in manifest.allowed /\ "canEquip" \in manifest.validated)
         THEN Nothing ELSE IF done.kept = {} THEN done ELSE AndAll(outcomes)
  BY <1>1, <1>2, <1>3, <1>9 DEF InstallCanEquipHook
<1>12. done.kept # {} => "canEquip" \in AndAll(outcomes).kept
  BY <1>8, <1>9, AllTouch
<1> QED
  BY <1>8, <1>10, <1>11, <1>12, AllWithin, NothingTouched DEF Within, Touched

LEMMA SkillsInstalled ==
    ASSUME NEW able, NEW manifest
    PROVE  LET done == InstallActivatedSkillVisibilityHook(able, manifest) IN
           /\ Within(done, Skills) /\ "hasSkill" \notin done.undone
           /\ Touched(done) # {} => "hasSkill" \in done.kept
<1>1. Within(InstallActivatedSkillUse(able), Skills \ {"hasSkill"})
  <2>1. PICK groups : groups = <<{"adjustedSkill"}, {"useSkill"}>>
    OBVIOUS
  <2>2. \A i \in DOMAIN groups : groups[i] \subseteq Skills \ {"hasSkill"}
    BY <2>1 DEF Skills
  <2> QED
    BY <2>1, <2>2, TurnWithin DEF InstallActivatedSkillUse
<1>2. Within(InstallSkillCallsites(able), Skills \ {"hasSkill"})
  BY DEF InstallSkillCallsites, Each, Within, Skills
<1>3. ASSUME NEW seams, seams \subseteq Skills \ {"hasSkill"}
      PROVE  Within(Together(able, seams), Skills \ {"hasSkill"})
  <2>1. \A i \in DOMAIN <<seams>> : <<seams>>[i] \subseteq Skills \ {"hasSkill"}
    BY <1>3
  <2> QED
    BY <2>1, TurnWithin DEF Together
<1>4. /\ Rows \subseteq Skills \ {"hasSkill"} /\ CombatWindow \subseteq Skills \ {"hasSkill"}
      /\ Producers \subseteq Skills \ {"hasSkill"} /\ PostShow \subseteq Skills \ {"hasSkill"}
  BY DEF Skills, Rows, CombatWindow, Producers, PostShow
<1>5. /\ Within(InstallSkillsWindowRows(able), Skills \ {"hasSkill"})
      /\ Within(InstallCombatAbilityWindow(able), Skills \ {"hasSkill"})
      /\ Within(InstallCombatAbilityProducers(able), Skills \ {"hasSkill"})
  BY <1>3, <1>4 DEF InstallSkillsWindowRows, InstallCombatAbilityWindow,
                    InstallCombatAbilityProducers, And, Within
<1>6. PICK outcomes :
         outcomes = {Each(able, {"hasSkill"}), InstallActivatedSkillUse(able),
                     InstallSkillCallsites(able), InstallSkillsWindowRows(able),
                     InstallCombatAbilityWindow(able), InstallCombatAbilityProducers(able)}
  OBVIOUS
<1>7. "hasSkill" \in Skills
  BY DEF Skills
<1>8. ASSUME "hasSkill" \in able
      PROVE  /\ Within(AndAll(outcomes), Skills) /\ "hasSkill" \notin AndAll(outcomes).undone
             /\ "hasSkill" \in AndAll(outcomes).kept
  <2>1. Each(able, {"hasSkill"}) = [kept |-> {"hasSkill"}, undone |-> {}]
    BY <1>8 DEF Each
  <2>2. \A o \in outcomes : Within(o, Skills) /\ "hasSkill" \notin o.undone
    BY <1>1, <1>2, <1>5, <1>6, <1>7, <2>1 DEF Within
  <2>3. "hasSkill" \in AndAll(outcomes).kept
    BY <1>6, <2>1, AllTouch
  <2> QED
    BY <2>2, <2>3, AllWithin, AllTouch
<1> QED
  BY <1>6, <1>8, NothingTouched DEF InstallActivatedSkillVisibilityHook, Within, Touched

LEMMA SendInstalled ==
    ASSUME NEW able, NEW manifest
    PROVE  LET done == InstallMemorizeSendTrace(able, manifest) IN
           /\ Within(done, {"send"}) /\ done.undone = {}
           /\ Touched(done) # {} => "send" \in manifest.validated
BY DEF InstallMemorizeSendTrace, Each, Nothing, Within, Touched

LEMMA MoveItemInstalled ==
    ASSUME NEW able, NEW manifest
    PROVE  LET done == InstallInvSlotMgrMoveItemTrace(able, manifest) IN
           /\ Within(done, {"moveItem"}) /\ done.undone = {}
           /\ Touched(done) # {} => "itemUsability" \in manifest.allowed
                                    /\ "moveItem" \in manifest.validated
BY DEF InstallInvSlotMgrMoveItemTrace, Each, Nothing, Within, Touched

LEMMA DisplayInstalled ==
    ASSUME NEW able, NEW manifest
    PROVE  LET done == InstallDisplay(able, manifest) IN
           /\ Within(done, Display)
           /\ "charSelect" \in Touched(done) => "charSelect" \in manifest.validated
           /\ Touched(done) # {} => "uiDisplay" \in manifest.allowed
<1>1. PICK named : named = InTurn(able, <<{"whoClassName"}, {"classLookup"}>>)
  OBVIOUS
<1>2. Within(named, Who)
  <2>1. PICK groups : groups = <<{"whoClassName"}, {"classLookup"}>>
    OBVIOUS
  <2>2. \A i \in DOMAIN groups : groups[i] \subseteq Who
    BY <2>1 DEF Who
  <2> QED
    BY <1>1, <2>1, <2>2, TurnWithin
<1>3. Within(InstallWhoClassNameDisplayHook(able), Who)
  <2>1. PICK desc : desc =
          {"classDesc"} \cup InstallGuildManagerRosterClassLookupCallsite(able)
            \cup (IF "threeLetter" \in able
                  THEN {"threeLetter"} \cup (able \cap {"deityDesc", "windowText"})
                  ELSE {})
    OBVIOUS
  <2>2. desc \subseteq Who
    BY <2>1 DEF InstallGuildManagerRosterClassLookupCallsite, Who
  <2>3. InstallWhoClassNameDisplayHook(able) =
          IF named.kept # {} /\ "classDesc" \in able THEN And(named, Each(able, desc))
          ELSE named
    BY <1>1, <2>1 DEF InstallWhoClassNameDisplayHook
  <2> QED
    BY <1>2, <2>2, <2>3 DEF And, Each, Within
<1>4. PICK outcomes :
         outcomes = {InstallWhoClassNameDisplayHook(able),
                     InstallSpellUiShowTrace(able),
                     InstallSpellUiShowWrapperTrace(able),
                     InstallSpellUiDerivedWindowTrace(able),
                     InstallSpellUiAboutToShowGateTrace(able),
                     InstallCharacterListUpdateListHook(able),
                     InstallProgressionSelectionClassDisplayHook(able, manifest),
                     InstallInventoryClassTitleDisplayHook(able)}
  OBVIOUS
<1>5. \A o \in outcomes : Within(o, IF "charSelect" \in manifest.validated THEN Display
                                    ELSE Display \ {"charSelect"})
  <2>1. Within(InstallSpellUiShowTrace(able), {"show"})
    BY DEF InstallSpellUiShowTrace, Each, Within
  <2>2. Within(InstallSpellUiShowWrapperTrace(able), Wrappers)
    BY DEF InstallSpellUiShowWrapperTrace, Each, Within
  <2>3. Within(InstallSpellUiDerivedWindowTrace(able), Derived)
    BY DEF InstallSpellUiDerivedWindowTrace, Each, Within
  <2>4. Within(InstallSpellUiAboutToShowGateTrace(able), AboutToShow)
    BY DEF InstallSpellUiAboutToShowGateTrace, Each, Within
  <2>5. Within(InstallCharacterListUpdateListHook(able), {"list"})
    BY DEF InstallCharacterListUpdateListHook, Each, Within
  <2>6. Within(InstallInventoryClassTitleDisplayHook(able), {"label"})
    BY DEF InstallInventoryClassTitleDisplayHook, Each, Within
  <2>7. Within(InstallProgressionSelectionClassDisplayHook(able, manifest),
               IF "charSelect" \in manifest.validated THEN Progression ELSE {})
    BY DEF InstallProgressionSelectionClassDisplayHook, Each, Within, Nothing
  <2>8. "charSelect" \notin Who \cup {"show"} \cup Wrappers \cup Derived \cup AboutToShow
                              \cup {"list", "label"}
    BY DEF Who, Wrappers, Derived, AboutToShow
  <2> QED
    BY <1>3, <1>4, <2>1, <2>2, <2>3, <2>4, <2>5, <2>6, <2>7, <2>8 DEF Within, Display
<1>6. InstallDisplay(able, manifest) =
        IF "uiDisplay" \in manifest.allowed THEN AndAll(outcomes) ELSE Nothing
  BY <1>4 DEF InstallDisplay
<1>7. Within(AndAll(outcomes), IF "charSelect" \in manifest.validated THEN Display
                               ELSE Display \ {"charSelect"})
  BY <1>5, AllWithin
<1> QED
  BY <1>6, <1>7, NothingTouched DEF Within, Touched

LEMMA PetInstalled ==
    ASSUME NEW able, NEW petWindow
    PROVE  Within(InstallPetInfoWindowTraceForMultiPet(able, petWindow), Pet)
<1>1. Sidl \subseteq Pet
  BY DEF Pet
<1> QED
  BY <1>1 DEF InstallPetInfoWindowTraceForMultiPet, Each, Nothing, Within

\* The features have no seam in common.
LEMMA FeaturesApart ==
    /\ Items \cap ({"receive", "level", "classUsable", "trainer", "send", "moveItem"} \cup AAXp
                   \cup Mana \cup Prechecks \cup Skills \cup Display \cup Pet) = {}
    /\ Skills \cap ({"receive", "level", "classUsable", "trainer", "send", "moveItem"} \cup AAXp
                   \cup Mana \cup Prechecks \cup Display \cup Pet) = {}
    /\ Display \cap ({"receive", "level", "classUsable", "trainer", "send", "moveItem"} \cup AAXp
                   \cup Mana \cup Prechecks \cup Pet) = {}
    /\ Pet \cap ({"receive", "level", "classUsable", "trainer", "send", "moveItem"} \cup AAXp
                   \cup Mana \cup Prechecks) = {}
    /\ Mana \cap ({"receive", "level", "classUsable", "trainer", "send", "moveItem"} \cup AAXp
                   \cup Prechecks) = {}
    /\ Prechecks \cap ({"receive", "level", "classUsable", "trainer", "send", "moveItem"}
                   \cup AAXp) = {}
    /\ AAXp \cap {"receive", "level", "classUsable", "trainer", "send", "moveItem"} = {}
<1> DEFINE Single == {"receive", "level", "classUsable", "trainer", "send", "moveItem"}
<1>1. Items \cap (Single \cup AAXp \cup Mana \cup Prechecks \cup Skills \cup Display \cup Pet) = {}
  BY DEF Items, Summaries, ItemTraces, AAXp, Mana, CurManaSites, Prechecks, Skills, Rows,
         CombatWindow, Producers, PostShow, Display, Who, Wrappers, Derived, AboutToShow,
         Progression, Pet, Children, Sidl
<1>2. Skills \cap (Single \cup AAXp \cup Mana \cup Prechecks \cup Display \cup Pet) = {}
  BY DEF AAXp, Mana, CurManaSites, Prechecks, Skills, Rows,
         CombatWindow, Producers, PostShow, Display, Who, Wrappers, Derived, AboutToShow,
         Progression, Pet, Children, Sidl
<1>3. Display \cap (Single \cup AAXp \cup Mana \cup Prechecks \cup Pet) = {}
  BY DEF AAXp, Mana, CurManaSites, Prechecks, Display, Who, Wrappers, Derived, AboutToShow,
         Progression, Pet, Children, Sidl
<1>4. Pet \cap (Single \cup AAXp \cup Mana \cup Prechecks) = {}
  BY DEF AAXp, Mana, CurManaSites, Prechecks, Pet, Children, Sidl
<1>5. Mana \cap (Single \cup AAXp \cup Prechecks) = {}
  BY DEF AAXp, Mana, CurManaSites, Prechecks
<1>6. Prechecks \cap (Single \cup AAXp) = {} /\ AAXp \cap Single = {}
  BY DEF AAXp, Prechecks
<1> QED
  BY <1>1, <1>2, <1>3, <1>4, <1>5, <1>6

\* What an Initialize touches: only seams, only what the manifest allows, and no
\* feature without the seam that enables it.
LEMMA AllInstalled ==
    ASSUME NEW able, NEW manifest, NEW petWindow
    PROVE  LET done == Installed(able, manifest, petWindow) IN
           /\ Within(done, Seams)
           /\ done.undone \cap {"receive", "level", "send", "trainer", "hasSkill"} = {}
           /\ "receive" \in Touched(done) =>
                "packetHooks" \in manifest.allowed /\ "receive" \in able
           /\ "trainer" \in Touched(done) => "receive" \in done.kept
           /\ Touched(done) \cap ({"level"} \cup Mana) # {} =>
                "level" \in done.kept /\ "spellUsability" \in manifest.allowed
           /\ Touched(done) \cap Skills # {} => "hasSkill" \in done.kept
           /\ done.kept \cap Items # {} => "canEquip" \in done.kept
           /\ Touched(done) \cap (Items \cup {"moveItem", "classUsable"}) # {} =>
                "itemUsability" \in manifest.allowed
           /\ Touched(done) \cap Display # {} => "uiDisplay" \in manifest.allowed
           /\ Touched(done) \cap (Prechecks \cup {"canEquip", "moveItem", "send", "charSelect"})
                \subseteq manifest.validated
<1>1. PICK outcome : outcome =
        [receive |-> InstallReceiveDispatchHook(able, manifest),
         aaXp |-> InstallAAXpLowLevelUiPatch(able),
         level |-> InstallGetSpellLevelNeededHook(able, manifest),
         prechecks |-> InstallStartSpellScribePrecheckTraces(able, manifest),
         scrolls |-> InstallScrollScribeTraceHooks(able, manifest),
         trainer |-> InstallGuildTrainerHook(able, manifest),
         items |-> InstallCanEquipHook(able, manifest),
         skills |-> InstallActivatedSkillVisibilityHook(able, manifest),
         send |-> InstallMemorizeSendTrace(able, manifest),
         moveItem |-> InstallInvSlotMgrMoveItemTrace(able, manifest),
         display |-> InstallDisplay(able, manifest),
         pet |-> InstallPetInfoWindowTraceForMultiPet(able, petWindow)]
  OBVIOUS
<1>2. PICK done : done = Installed(able, manifest, petWindow)
  OBVIOUS
<1>3. done = AndAll({outcome.receive, outcome.aaXp, outcome.level, outcome.prechecks,
                     outcome.scrolls, outcome.trainer, outcome.items, outcome.skills,
                     outcome.send, outcome.moveItem, outcome.display, outcome.pet})
  BY <1>1, <1>2 DEF Installed
<1>4. /\ Within(outcome.receive, {"receive"} \cap able) /\ outcome.receive.undone = {}
      /\ Touched(outcome.receive) # {} => "packetHooks" \in manifest.allowed
      /\ Within(outcome.aaXp, AAXp)
      /\ Within(outcome.level, {"level"} \cup Mana) /\ outcome.level.undone = {}
      /\ Touched(outcome.level) # {} =>
           "level" \in outcome.level.kept /\ "spellUsability" \in manifest.allowed
      /\ Within(outcome.prechecks, Prechecks \cap manifest.validated)
      /\ outcome.prechecks.undone = {}
      /\ Within(outcome.scrolls, {"classUsable"}) /\ outcome.scrolls.undone = {}
      /\ Touched(outcome.scrolls) # {} => "itemUsability" \in manifest.allowed
      /\ Within(outcome.trainer, {"trainer"}) /\ outcome.trainer.undone = {}
      /\ Touched(outcome.trainer) # {} => "receive" \in outcome.receive.kept
  BY <1>1, ReceiveInstalled, AAXpInstalled, LevelInstalled, PrechecksInstalled,
     ScrollsInstalled, TrainerInstalled
<1>5. /\ Within(outcome.items, Items)
      /\ outcome.items.kept # {} => "canEquip" \in outcome.items.kept
      /\ Touched(outcome.items) # {} =>
           "itemUsability" \in manifest.allowed /\ "canEquip" \in manifest.validated
      /\ Within(outcome.skills, Skills) /\ "hasSkill" \notin outcome.skills.undone
      /\ Touched(outcome.skills) # {} => "hasSkill" \in outcome.skills.kept
      /\ Within(outcome.send, {"send"}) /\ outcome.send.undone = {}
      /\ Touched(outcome.send) # {} => "send" \in manifest.validated
      /\ Within(outcome.moveItem, {"moveItem"}) /\ outcome.moveItem.undone = {}
      /\ Touched(outcome.moveItem) # {} =>
           "itemUsability" \in manifest.allowed /\ "moveItem" \in manifest.validated
      /\ Within(outcome.display, Display)
      /\ "charSelect" \in Touched(outcome.display) => "charSelect" \in manifest.validated
      /\ Touched(outcome.display) # {} => "uiDisplay" \in manifest.allowed
      /\ Within(outcome.pet, Pet)
  BY <1>1, CanEquipInstalled, SkillsInstalled, SendInstalled, MoveItemInstalled,
     DisplayInstalled, PetInstalled
<1>6. \A seam \in Touched(done) :
         \/ seam \in Touched(outcome.receive) \/ seam \in Touched(outcome.aaXp)
         \/ seam \in Touched(outcome.level) \/ seam \in Touched(outcome.prechecks)
         \/ seam \in Touched(outcome.scrolls) \/ seam \in Touched(outcome.trainer)
         \/ seam \in Touched(outcome.items) \/ seam \in Touched(outcome.skills)
         \/ seam \in Touched(outcome.send) \/ seam \in Touched(outcome.moveItem)
         \/ seam \in Touched(outcome.display) \/ seam \in Touched(outcome.pet)
  BY <1>3 DEF Touched, AndAll
<1>7. \A seam \in done.undone :
         \/ seam \in outcome.aaXp.undone \/ seam \in outcome.items.undone
         \/ seam \in outcome.skills.undone \/ seam \in outcome.display.undone
         \/ seam \in outcome.pet.undone
  BY <1>3, <1>4, <1>5 DEF AndAll
<1>8. /\ outcome.receive.kept \subseteq done.kept /\ outcome.level.kept \subseteq done.kept
      /\ outcome.items.kept \subseteq done.kept /\ outcome.skills.kept \subseteq done.kept
  BY <1>3 DEF AndAll
<1>9. /\ Touched(outcome.receive) \subseteq {"receive"} \cap able
      /\ Touched(outcome.aaXp) \subseteq AAXp
      /\ Touched(outcome.level) \subseteq {"level"} \cup Mana
      /\ Touched(outcome.prechecks) \subseteq Prechecks \cap manifest.validated
      /\ Touched(outcome.scrolls) \subseteq {"classUsable"}
      /\ Touched(outcome.trainer) \subseteq {"trainer"}
      /\ Touched(outcome.items) \subseteq Items
      /\ Touched(outcome.skills) \subseteq Skills
      /\ Touched(outcome.send) \subseteq {"send"}
      /\ Touched(outcome.moveItem) \subseteq {"moveItem"}
      /\ Touched(outcome.display) \subseteq Display
      /\ Touched(outcome.pet) \subseteq Pet
  BY <1>4, <1>5 DEF Within, Touched
<1>10. "hasSkill" \in Skills /\ "canEquip" \in Items /\ "charSelect" \in Display
  BY DEF Skills, Items, Display, Progression
<1>11. Within(done, Seams)
  BY <1>6, <1>9 DEF Within, Touched, Seams
<1>12. done.undone \cap {"receive", "level", "send", "trainer", "hasSkill"} = {}
  <2>1. /\ outcome.aaXp.undone \subseteq AAXp /\ outcome.items.undone \subseteq Items
        /\ outcome.skills.undone \subseteq Skills \ {"hasSkill"}
        /\ outcome.display.undone \subseteq Display /\ outcome.pet.undone \subseteq Pet
    BY <1>4, <1>5 DEF Within
  <2> QED
    BY <1>7, <1>10, <2>1, FeaturesApart
<1>13. "receive" \in Touched(done) => "receive" \in Touched(outcome.receive)
  BY <1>6, <1>9, FeaturesApart
<1>14. "trainer" \in Touched(done) => "trainer" \in Touched(outcome.trainer)
  BY <1>6, <1>9, FeaturesApart
<1>15. Touched(done) \cap ({"level"} \cup Mana) \subseteq Touched(outcome.level)
  BY <1>6, <1>9, FeaturesApart
<1>16. Touched(done) \cap Skills \subseteq Touched(outcome.skills)
  BY <1>6, <1>9, FeaturesApart
<1>17. Touched(done) \cap Items \subseteq Touched(outcome.items)
  BY <1>6, <1>9, FeaturesApart
<1>18. done.kept \cap Items \subseteq outcome.items.kept
  <2>1. \A seam \in done.kept :
           \/ seam \in outcome.items.kept
           \/ seam \in Touched(outcome.receive) \/ seam \in Touched(outcome.aaXp)
           \/ seam \in Touched(outcome.level) \/ seam \in Touched(outcome.prechecks)
           \/ seam \in Touched(outcome.scrolls) \/ seam \in Touched(outcome.trainer)
           \/ seam \in Touched(outcome.skills)
           \/ seam \in Touched(outcome.send) \/ seam \in Touched(outcome.moveItem)
           \/ seam \in Touched(outcome.display) \/ seam \in Touched(outcome.pet)
    BY <1>3 DEF Touched, AndAll
  <2> QED
    BY <1>9, <2>1, FeaturesApart
<1>19. /\ "moveItem" \in Touched(done) => "moveItem" \in Touched(outcome.moveItem)
       /\ "classUsable" \in Touched(done) => "classUsable" \in Touched(outcome.scrolls)
       /\ "send" \in Touched(done) => "send" \in Touched(outcome.send)
  BY <1>6, <1>9, FeaturesApart
<1>20. Touched(done) \cap Display \subseteq Touched(outcome.display)
  BY <1>6, <1>9, FeaturesApart
<1>21. Touched(done) \cap Prechecks \subseteq Touched(outcome.prechecks)
  BY <1>6, <1>9, FeaturesApart
<1>22. Touched(done) \cap (Items \cup {"moveItem", "classUsable"}) # {} =>
         "itemUsability" \in manifest.allowed
  BY <1>4, <1>5, <1>17, <1>19
<1>23. Touched(done) \cap (Prechecks \cup {"canEquip", "moveItem", "send", "charSelect"})
         \subseteq manifest.validated
  BY <1>5, <1>9, <1>10, <1>17, <1>19, <1>20, <1>21
<1>24. /\ "receive" \in Touched(done) => "packetHooks" \in manifest.allowed /\ "receive" \in able
       /\ "trainer" \in Touched(done) => "receive" \in done.kept
  BY <1>4, <1>8, <1>9, <1>13, <1>14
<1>25. /\ Touched(done) \cap ({"level"} \cup Mana) # {} =>
              "level" \in done.kept /\ "spellUsability" \in manifest.allowed
       /\ Touched(done) \cap Skills # {} => "hasSkill" \in done.kept
       /\ done.kept \cap Items # {} => "canEquip" \in done.kept
       /\ Touched(done) \cap Display # {} => "uiDisplay" \in manifest.allowed
  BY <1>4, <1>5, <1>8, <1>15, <1>16, <1>18, <1>20
<1> QED
  BY <1>2, <1>11, <1>12, <1>22, <1>23, <1>24, <1>25

------------------------------------------------------------------------------
(* The manifest *)

\* What the permissions and validated targets of a published manifest stand for.
ManifestShows(manifest, c) ==
    /\ "hooks" \in manifest.allowed => Evaluate(c)
    /\ "packetHooks" \in manifest.allowed => ValidateCandidate(c)
    /\ "spellUsability" \in manifest.allowed => DiscoverGetSpellLevelNeeded(c)
    /\ "itemUsability" \in manifest.allowed =>
         DiscoverIsClassUsablePredicate(c) /\ DiscoverCanEquip(c)
    /\ "uiDisplay" \in manifest.allowed =>
         \A f \in {"whoClassName", "classDesc", "threeLetter"} :
            DiscoverPinnedEntryBytesTarget(c, f)
    /\ \A f \in manifest.validated \cap
               (Prechecks \cup {"canEquip", "moveItem", "send", "charSelect"}) :
          Shows(c, {Found(f), Executable(f), Entry(f)})
    /\ manifest.validated \cap (Prechecks \cup {"send"}) # {} => c.sha

\* What the discovery of the spells' targets recognised.
LEMMA SpellTargets ==
    ASSUME NEW c, NEW allowed
    PROVE  LET found == RunSpellUsabilityDiscovery(c, allowed) IN
           /\ "level" \in found => DiscoverGetSpellLevelNeeded(c)
           /\ "classUsable" \in found => DiscoverIsClassUsablePredicate(c)
           /\ "canEquip" \in found => DiscoverCanEquip(c)
           /\ "moveItem" \in found => DiscoverRuntimeExportTarget(c)
           /\ "send" \in found => DiscoverMemorizeSendPacketWrapper(c)
           /\ "gate" \in found => DiscoverStartSpellScribePrecheckGate(c)
           /\ \A f \in Prechecks \ {"gate"} :
                f \in found => DiscoverStartSpellScribeNestedPrecheckTarget(c, f)
           /\ "charSelect" \notin found
<1>1. PICK result : result = [
            rButtonUp   |-> DiscoverHandleRButtonUp(c),
            level       |-> DiscoverGetSpellLevelNeeded(c),
            classUsable |-> DiscoverIsClassUsablePredicate(c),
            canEquip    |-> DiscoverCanEquip(c),
            moveItem    |-> DiscoverRuntimeExportTarget(c),
            spellbook   |-> DiscoverSpellbookDispatcher(c),
            scribe      |-> DiscoverStartSpellScribePath(c),
            modeGetter  |-> DiscoverStartSpellScribePrecheckModeGetter(c),
            gate        |-> DiscoverStartSpellScribePrecheckGate(c),
            lookup      |-> DiscoverStartSpellScribePrecheckLookup(c),
            memming     |-> DiscoverCanStartMemming(c),
            sendPath    |-> DiscoverSpellbookMemorizeSendPath(c),
            memorize    |-> DiscoverStartSpellMemorizationPath(c),
            send        |-> DiscoverMemorizeSendPacketWrapper(c)]
  OBVIOUS
<1>2. PICK found : found = RunSpellUsabilityDiscovery(c, allowed)
  OBVIOUS
<1>3. \A f \in found : \/ f \in DOMAIN result /\ result[f]
                       \/ f \in Nested /\ DiscoverStartSpellScribeNestedPrecheckTarget(c, f)
  BY <1>1, <1>2 DEF RunSpellUsabilityDiscovery
<1>4. DOMAIN result = {"rButtonUp", "level", "classUsable", "canEquip", "moveItem", "spellbook",
                       "scribe", "modeGetter", "gate", "lookup", "memming", "sendPath",
                       "memorize", "send"}
  BY <1>1
<1>5. Nested \cap DOMAIN result = {} /\ "charSelect" \notin Nested \cup DOMAIN result
      /\ Prechecks \cap DOMAIN result = {"gate"}
  BY <1>4 DEF Nested, Prechecks
<1>6. /\ "level" \in found => result["level"]
      /\ "classUsable" \in found => result["classUsable"]
      /\ "canEquip" \in found => result["canEquip"]
      /\ "moveItem" \in found => result["moveItem"]
      /\ "send" \in found => result["send"]
      /\ "gate" \in found => result["gate"]
  BY <1>3, <1>4, <1>5
<1> QED
  BY <1>1, <1>2, <1>3, <1>5, <1>6

\* A permission stands for the evidence its discovery asked for.
LEMMA PublishedShows ==
    ASSUME NEW c, NEW proxied,
           NEW manifest,
           manifest = PublishCapabilitiesWithDiscovery(
               IF proxied THEN BuildCapabilityManifest(c)
               ELSE BuildDisabledCapabilityManifest, c)
    PROVE  ManifestShows(manifest, c)
<1>1. PICK A : /\ (IF proxied THEN BuildCapabilityManifest(c) ELSE BuildDisabledCapabilityManifest)
                     = [allowed |-> A, validated |-> {}]
               /\ A \subseteq {"hooks", "spellDiscovery", "classDiscovery", "skillVisibility"}
               /\ "hooks" \in A => Evaluate(c)
  <2>1. PICK A : A = IF proxied /\ Evaluate(c)
                     THEN {"hooks", "spellDiscovery", "classDiscovery", "skillVisibility"}
                     ELSE {}
    OBVIOUS
  <2>2. (IF proxied THEN BuildCapabilityManifest(c) ELSE BuildDisabledCapabilityManifest)
          = [allowed |-> A, validated |-> {}]
    BY <2>1 DEF BuildCapabilityManifest, BuildDisabledCapabilityManifest
  <2>3. /\ A \subseteq {"hooks", "spellDiscovery", "classDiscovery", "skillVisibility"}
        /\ "hooks" \in A => Evaluate(c)
    BY <2>1
  <2> QED
    BY <2>2, <2>3, Zenon
<1>2. PICK received : received = RunReceiveDispatchDiscovery(c, "hooks" \in A)
  OBVIOUS
<1>3. PICK R : /\ ApplyReceiveDispatchDiscovery([allowed |-> A, validated |-> {}], received)
                     = [allowed |-> R, validated |-> {}]
               /\ R \subseteq A \cup {"packetHooks"}
               /\ "packetHooks" \in R => received
  BY <1>1 DEF ApplyReceiveDispatchDiscovery, Allow
<1>4. PICK spells : spells = RunSpellUsabilityDiscovery(c, "spellDiscovery" \in A)
  OBVIOUS
<1>5. PICK S : /\ ApplySpellUsabilityDiscovery([allowed |-> R, validated |-> {}], spells)
                     = [allowed |-> S, validated |-> spells]
               /\ S \subseteq R \cup {"spellUsability", "itemUsability"}
               /\ "spellUsability" \in S => "level" \in spells
               /\ "itemUsability" \in S => {"classUsable", "canEquip"} \subseteq spells
  <2>1. [[allowed |-> R, validated |-> {}] EXCEPT !.validated = @ \cup spells]
          = [allowed |-> R, validated |-> spells]
    OBVIOUS
  <2>2. PICK T : T = R \cup (IF "level" \in spells THEN {"spellUsability"} ELSE {})
    OBVIOUS
  <2>3. Allow([allowed |-> R, validated |-> spells], "spellUsability", "level" \in spells)
          = [allowed |-> T, validated |-> spells]
    BY <2>2 DEF Allow
  <2>4. PICK S : S = T \cup (IF {"classUsable", "canEquip"} \subseteq spells
                             THEN {"itemUsability"} ELSE {})
    OBVIOUS
  <2>5. Allow([allowed |-> T, validated |-> spells], "itemUsability",
              {"classUsable", "canEquip"} \subseteq spells)
          = [allowed |-> S, validated |-> spells]
    BY <2>4 DEF Allow
  <2>6. /\ "spellUsability" \in S => "level" \in spells
        /\ "itemUsability" \in S => {"classUsable", "canEquip"} \subseteq spells
    BY <1>1, <1>3, <2>2, <2>4
  <2>7. S \subseteq R \cup {"spellUsability", "itemUsability"}
    BY <2>2, <2>4
  <2>8. ApplySpellUsabilityDiscovery([allowed |-> R, validated |-> {}], spells)
          = [allowed |-> S, validated |-> spells]
    BY <2>1, <2>3, <2>5 DEF ApplySpellUsabilityDiscovery
  <2> QED
    BY <2>6, <2>7, <2>8
<1>6. PICK classes : classes = RunClassDisplayDiscovery(c, "classDiscovery" \in A)
  OBVIOUS
<1>7. /\ manifest.validated = spells \cup classes
      /\ manifest.allowed = S \cup (IF {"whoClassName", "classDesc", "threeLetter"} \subseteq classes
                                    THEN {"uiDisplay"} ELSE {})
  <2>1. manifest = ApplyClassDisplayDiscovery([allowed |-> S, validated |-> spells], classes)
    BY <1>1, <1>2, <1>3, <1>4, <1>5, <1>6 DEF PublishCapabilitiesWithDiscovery
  <2>2. [[allowed |-> S, validated |-> spells] EXCEPT !.validated = @ \cup classes]
          = [allowed |-> S, validated |-> spells \cup classes]
    OBVIOUS
  <2>3. PICK granted \in BOOLEAN :
          granted <=> {"whoClassName", "classDesc", "threeLetter"} \subseteq classes
    OBVIOUS
  <2>4. manifest = IF granted
                   THEN [[allowed |-> S, validated |-> spells \cup classes]
                            EXCEPT !.allowed = @ \cup {"uiDisplay"}]
                   ELSE [allowed |-> S, validated |-> spells \cup classes]
    BY <2>1, <2>2, <2>3 DEF ApplyClassDisplayDiscovery, Allow
  <2> QED
    BY <2>3, <2>4
<1>8. \A f \in classes : /\ f \in {"whoClassName", "classDesc", "threeLetter", "charSelect"}
                         /\ DiscoverPinnedEntryBytesTarget(c, f)
  BY <1>6 DEF RunClassDisplayDiscovery
<1>9. /\ "hooks" \in manifest.allowed => Evaluate(c)
      /\ "packetHooks" \in manifest.allowed => ValidateCandidate(c)
      /\ "spellUsability" \in manifest.allowed => "level" \in spells
      /\ "itemUsability" \in manifest.allowed => {"classUsable", "canEquip"} \subseteq spells
  BY <1>1, <1>2, <1>3, <1>5, <1>7 DEF RunReceiveDispatchDiscovery
<1>10. "uiDisplay" \in manifest.allowed =>
          {"whoClassName", "classDesc", "threeLetter"} \subseteq classes
  BY <1>1, <1>3, <1>5, <1>7
<1>11. ASSUME NEW f \in manifest.validated,
              f \in Prechecks \cup {"canEquip", "moveItem", "send", "charSelect"}
       PROVE  /\ Shows(c, {Found(f), Executable(f), Entry(f)})
              /\ f \in Prechecks \cup {"send"} => c.sha
  <2>1. CASE f \in spells
    <3>1. \/ f = "canEquip" /\ DiscoverCanEquip(c)
          \/ f = "moveItem" /\ DiscoverRuntimeExportTarget(c)
          \/ f = "send" /\ DiscoverMemorizeSendPacketWrapper(c)
          \/ f = "gate" /\ DiscoverStartSpellScribePrecheckGate(c)
          \/ DiscoverStartSpellScribeNestedPrecheckTarget(c, f)
      BY <1>4, <1>11, <2>1, SpellTargets
    <3>2. "canEquip" \notin Prechecks /\ "moveItem" \notin Prechecks
      BY DEF Prechecks
    <3> QED
      BY <3>1, <3>2 DEF DiscoverCanEquip, DiscoverPinnedCleanroomTarget,
         DiscoverRuntimeExportTarget, DiscoverMemorizeSendPacketWrapper,
         DiscoverStartSpellScribePrecheckGate, DiscoverStartSpellScribeNestedPrecheckTarget,
         DiscoverFingerprinted, EvaluateDecision, EvaluateCleanroomFingerprint, Shows
  <2>2. CASE f \notin spells
    <3>1. f = "charSelect" /\ DiscoverPinnedEntryBytesTarget(c, f)
      <4>1. {"whoClassName", "classDesc", "threeLetter"}
              \cap (Prechecks \cup {"canEquip", "moveItem", "send", "charSelect"}) = {}
        BY DEF Prechecks
      <4> QED
        BY <1>7, <1>8, <1>11, <2>2, <4>1
    <3>2. f \notin Prechecks
      BY <3>1 DEF Prechecks
    <3> QED
      BY <3>1, <3>2 DEF DiscoverPinnedEntryBytesTarget
  <2> QED
    BY <2>1, <2>2
<1> QED
  BY <1>4, <1>8, <1>9, <1>10, <1>11, SpellTargets DEF ManifestShows

------------------------------------------------------------------------------
(* The load *)

\* What an installation leaves patched has its evidence.
LEMMA InstallsRecognised ==
    ASSUME NEW manifest, NEW petWindow, ManifestShows(manifest, client),
           "hooks" \in manifest.allowed,
           NEW patched,
           patched \subseteq Touched(Installed(Seams \ client.unable, manifest, petWindow))
    PROVE  /\ client.name /\ "both" \in {client.version, client.scan}
           /\ \A f \in patched \cap Recognised :
                Shows(client, {Found(f), Executable(f), Entry(f)})
           /\ patched \cap (Items \cup Prechecks \cup {"classUsable", "moveItem", "send"}) # {}
                => client.sha
           /\ patched \cap Items # {} =>
                Shows(client, {Entry("canEquip"), Entry("classUsable")})
           /\ "receive" \in patched =>
                Shows(client, {Call("feederA", "dispatcher"), Call("feederB", "dispatcher")})
<1>1. PICK done : done = Installed(Seams \ client.unable, manifest, petWindow)
  OBVIOUS
<1>2. /\ "receive" \in Touched(done) => "packetHooks" \in manifest.allowed
      /\ "level" \in Touched(done) => "spellUsability" \in manifest.allowed
      /\ Touched(done) \cap (Items \cup {"moveItem", "classUsable"}) # {} =>
           "itemUsability" \in manifest.allowed
      /\ Touched(done) \cap Display # {} => "uiDisplay" \in manifest.allowed
      /\ Touched(done) \cap (Prechecks \cup {"canEquip", "moveItem", "send", "charSelect"})
           \subseteq manifest.validated
  BY <1>1, AllInstalled
<1>3. patched \subseteq Touched(done)
  BY <1>1
<1>4. client.name /\ "both" \in {client.version, client.scan}
  BY DEF ManifestShows, Evaluate, FindKnownRof2Markers
<1>5. "canEquip" \in Items /\ {"whoClassName", "classDesc", "threeLetter"} \subseteq Display
  BY DEF Items, Display, Who
<1>6. "itemUsability" \in manifest.allowed =>
        /\ client.sha
        /\ Shows(client, {Found("classUsable"), Executable("classUsable"), Entry("classUsable")})
        /\ Shows(client, {Found("canEquip"), Executable("canEquip"), Entry("canEquip")})
  BY DEF ManifestShows, DiscoverIsClassUsablePredicate, DiscoverCanEquip,
         DiscoverPinnedCleanroomTarget, EvaluateCleanroomFingerprint
<1>7. ASSUME NEW f \in patched, f \in Recognised
      PROVE  Shows(client, {Found(f), Executable(f), Entry(f)})
  <2>1. CASE f = "level"
    BY <1>2, <1>3, <1>7, <2>1
       DEF ManifestShows, DiscoverGetSpellLevelNeeded, EvaluateDecision, Shows
  <2>2. CASE f \in {"classUsable", "canEquip"}
    BY <1>2, <1>3, <1>5, <1>6, <1>7, <2>2
  <2>3. CASE f \in {"whoClassName", "classDesc", "threeLetter"}
    BY <1>2, <1>3, <1>5, <1>7, <2>3 DEF ManifestShows, DiscoverPinnedEntryBytesTarget
  <2>4. CASE f \in Prechecks \cup {"moveItem", "send", "charSelect"}
    BY <1>2, <1>3, <1>7, <2>4 DEF ManifestShows
  <2> QED
    BY <1>7, <2>1, <2>2, <2>3, <2>4 DEF Recognised
<1>8. patched \cap (Items \cup Prechecks \cup {"classUsable", "moveItem", "send"}) # {}
        => client.sha
  <2>1. ASSUME NEW f \in patched, f \in Prechecks \cup {"send"} PROVE client.sha
    BY <1>2, <1>3, <2>1 DEF ManifestShows
  <2> QED
    BY <1>2, <1>3, <1>6, <2>1
<1>9. patched \cap Items # {} => Shows(client, {Entry("canEquip"), Entry("classUsable")})
  BY <1>2, <1>3, <1>6 DEF Shows
<1>10. "receive" \in patched =>
         Shows(client, {Call("feederA", "dispatcher"), Call("feederB", "dispatcher")})
  BY <1>2, <1>3 DEF ManifestShows, ValidateCandidate, ValidateDirectCall, Shows
<1> QED
  BY <1>4, <1>7, <1>8, <1>9, <1>10

LEMMA InitializeStep ==
    ASSUME HookInv, InitializeOnce
    PROVE  HookInv'
<1>1. /\ stage = "start" /\ stage' = "running" /\ UNCHANGED <<client, session>>
      /\ installed = {} /\ original = {} /\ hasSkill = "null" /\ ~initialized /\ ~started
      /\ session = FALSE
  BY DEF InitializeOnce, HookInv, Flags, SessionOnGate
<1>2. PICK proxied, petWindow, manifest :
        /\ {proxied, petWindow} \subseteq BOOLEAN
        /\ manifest = PublishCapabilitiesWithDiscovery(
                 IF proxied THEN BuildCapabilityManifest(client)
                 ELSE BuildDisabledCapabilityManifest, client)
        /\ IF "hooks" \in manifest.allowed
           THEN Initialize(manifest, petWindow)
           ELSE /\ observer' = IF proxied THEN "disabled" ELSE "unavailable"
                /\ UNCHANGED <<installed, original, hasSkill, initialized, started>>
  BY DEF InitializeOnce
<1>3. ManifestShows(manifest, client)
  BY <1>2, PublishedShows
<1>4. /\ \A k \in Positions : Chain[k] # "running"
      /\ "running" \notin {"start", "observer", "down"} \cup Groups
  BY StagesApart, ChainPlaces DEF Groups
<1>5. CASE UNCHANGED <<installed, original, hasSkill, initialized, started>>
           /\ observer' \in {"disabled", "unavailable", "hookFailure"}
  BY <1>1, <1>4, <1>5 DEF HookInv, Flags, Kept, Passed, SessionOnGate, Attached, Fed,
     HasSkillPointerLive, FailClosed
<1>6. ASSUME NEW done, done = Installed(Seams \ client.unable, manifest, petWindow),
             "hooks" \in manifest.allowed,
             observer' = IF "packetHooks" \in manifest.allowed THEN "on" ELSE "disabled",
             installed' = done.kept \cup (done.undone \cap client.stuck),
             original' = done.kept, hasSkill' = HasSkillAfter(done),
             initialized' = TRUE, started' = TRUE
      PROVE  HookInv'
  <2>1. /\ Within(done, Seams)
        /\ done.undone \cap {"receive", "level", "send", "trainer", "hasSkill"} = {}
        /\ "receive" \in Touched(done) => "packetHooks" \in manifest.allowed
        /\ "trainer" \in Touched(done) => "receive" \in done.kept
        /\ Touched(done) \cap Mana # {} => "level" \in done.kept
        /\ Touched(done) \cap Skills # {} => "hasSkill" \in done.kept
        /\ done.kept \cap Items # {} => "canEquip" \in done.kept
    BY <1>6, AllInstalled
  <2>2. installed' \subseteq Touched(done) /\ done.kept \subseteq installed'
    BY <1>6 DEF Touched
  <2>3. Flags'
    BY <1>1, <1>4, <1>6 DEF Flags, HasSkillAfter
  <2>4. Kept'
    BY <1>1, <1>6, <2>1 DEF Kept, Within
  <2>5. Passed' /\ SessionOnGate'
    BY <1>1, <1>4 DEF Passed, SessionOnGate
  <2>6. Attached'
    BY <1>1, <1>6, <2>1, <2>2 DEF Attached
  <2>7. Fed'
    BY <1>1, <1>6, <2>1, <2>2 DEF Fed
  <2>8. HasSkillPointerLive'
    BY <1>6, <2>1 DEF HasSkillPointerLive, HasSkillAfter
  <2>9. FailClosed'
    <3>1. PICK patched : patched = installed'
      OBVIOUS
    <3>2. patched \subseteq Touched(Installed(Seams \ client.unable, manifest, petWindow))
      BY <1>6, <2>2, <3>1
    <3>3. /\ client.name /\ "both" \in {client.version, client.scan}
          /\ \A f \in patched \cap Recognised :
               Shows(client, {Found(f), Executable(f), Entry(f)})
          /\ patched \cap (Items \cup Prechecks \cup {"classUsable", "moveItem", "send"}) # {}
               => client.sha
          /\ patched \cap Items # {} =>
               Shows(client, {Entry("canEquip"), Entry("classUsable")})
          /\ "receive" \in patched =>
               Shows(client, {Call("feederA", "dispatcher"), Call("feederB", "dispatcher")})
      BY <1>3, <1>6, <3>2, InstallsRecognised
    <3> QED
      BY <1>1, <3>1, <3>3 DEF FailClosed
  <2> QED
    BY <2>3, <2>4, <2>5, <2>6, <2>7, <2>8, <2>9 DEF HookInv
<1> QED
  BY <1>2, <1>5, <1>6 DEF Initialize

------------------------------------------------------------------------------
(* The removals *)

Special == {"receive", "level", "send", "trainer", "hasSkill"}

\* The removal of the k-th group, whatever it does to its own pointers.
LEMMA RemovalStep ==
    ASSUME HookInv, NEW k \in Positions, stage = Chain[k],
           NEW tried, TakeOut(tried),
           NEW ok, Proceed(Chain[k], ok), ok => installed' \cap SeamsOf[Chain[k]] \subseteq Leftover,
           k = 1 /\ client.stuck = {} => ok,
           k = 2 => "receive" \in tried,
           k < 13 => "hasSkill" \notin tried,
           original' \subseteq original, original \ original' \subseteq tried \cup {"label"},
           (original \ original') \cap installed' \cap Special = {},
           initialized' = (initialized /\ (k # 24 \/ ~ok)),
           session' \in BOOLEAN, session' => session, SessionOnGate',
           hasSkill' \in {"null", "entry", "trampoline"}, HasSkillPointerLive',
           UNCHANGED <<client, started, observer>>
    PROVE  HookInv'
<1>1. stage' = IF ~ok \/ k = 24 THEN "observer" ELSE Chain[k + 1]
  BY ProceedNext
<1>2. initialized = TRUE
  BY StagesApart DEF HookInv, Flags
<1>3. /\ installed' = installed \ (tried \ client.stuck)
      /\ installed' \subseteq installed /\ client' = client /\ Leftover' = Leftover
  BY DEF TakeOut, Leftover
<1>4. ASSUME stage' = "observer"
      PROVE  Flags' /\ Passed' /\ Attached' /\ Fed'
  <2>1. \A j \in Positions : Chain[j] # "observer"
    BY StagesApart
  <2>2. "observer" \notin {"start", "running"} \cup Groups
    BY StagesApart, ChainPlaces DEF Groups
  <2>3. Flags'
    BY <1>2, <1>4, <2>2 DEF HookInv, Flags
  <2>4. Passed'
    <3>1. ASSUME ~initialized' PROVE installed' \subseteq Leftover
      <4>1. k = 24 /\ ok
        BY <1>2, <3>1
      <4>2. ASSUME NEW seam \in installed' PROVE seam \in Leftover
        <5>1. seam \in Seams
          BY <1>3, <4>2 DEF HookInv, Kept
        <5>2. PICK i \in Positions : seam \in SeamsOf[Chain[i]]
          BY <5>1, SeamInGroup
        <5>3. i < 24 => installed \cap SeamsOf[Chain[i]] \subseteq Leftover
          BY <4>1 DEF HookInv, Passed, GoneBefore
        <5>4. i = 24 \/ i < 24
          BY DEF Positions
        <5> QED
          BY <1>3, <4>1, <4>2, <5>2, <5>3, <5>4
      <4> QED
        BY <4>2
    <3> QED
      BY <1>3, <1>4, <2>1, <3>1 DEF Passed
  <2>5. Attached'
    BY <1>4, <2>1, <2>2 DEF Attached, Positions
  <2>6. "receive" \in installed' => client.stuck # {}
    <3>1. k \notin {1, 2} => ~("receive" \in installed /\ client.stuck = {})
      BY <1>2, StagesApart, ChainApart DEF HookInv, Fed, Chain, Positions
    <3>2. k = 2 /\ client.stuck = {} => "receive" \notin installed'
      BY <1>3
    <3> QED
      BY <1>1, <1>3, <1>4, <3>1, <3>2, StagesApart DEF Positions
  <2>7. Fed'
    BY <1>3, <2>6 DEF Fed
  <2> QED
    BY <2>3, <2>4, <2>5, <2>7
<1>5. ASSUME stage' # "observer"
      PROVE  Flags' /\ Passed' /\ Attached' /\ Fed'
  <2>1. ok /\ k # 24 /\ stage' = Chain[k + 1] /\ k + 1 \in Positions
    BY <1>1, <1>5 DEF Positions
  <2>2. stage' \in Groups /\ stage' \notin {"start", "running", "observer", "down"}
    BY <2>1, StagesApart
  <2>3. \A j \in Positions : stage' = Chain[j] => j = k + 1
    BY <2>1, ChainApart
  <2>4. Flags'
    BY <1>2, <2>1, <2>2 DEF HookInv, Flags
  <2>5. Passed'
    <3>1. ASSUME NEW i \in Positions, i < k + 1
          PROVE  installed' \cap SeamsOf[Chain[i]] \subseteq Leftover
      <4>1. CASE i = k
        BY <2>1, <4>1
      <4>2. CASE i # k
        <5>1. i < k
          BY <3>1, <4>2 DEF Positions
        <5> QED
          BY <1>3, <5>1 DEF HookInv, Passed, GoneBefore
      <4> QED
        BY <4>1, <4>2
    <3> QED
      BY <1>3, <2>2, <2>3, <3>1 DEF Passed, GoneBefore
  <2>6. Attached'
    <3>1. ASSUME stage' \in {Chain[j] : j \in 1 .. 13}, installed' \cap Skills # {}
          PROVE  "hasSkill" \in installed'
      <4>1. k < 13
        BY <2>3, <3>1 DEF Positions
      <4>2. stage \in {Chain[j] : j \in 1 .. 13}
        BY <4>1 DEF Positions
      <4>3. "hasSkill" \in installed
        BY <1>3, <3>1, <4>2 DEF HookInv, Attached
      <4> QED
        BY <1>3, <4>1, <4>3
    <3> QED
      BY <2>2, <3>1 DEF Attached
  <2>7. Fed'
    <3>1. ASSUME "receive" \in installed', client.stuck = {}
          PROVE  observer = "on" /\ stage' = "receive"
      <4>1. "receive" \in installed
        BY <1>3, <3>1
      <4>2. k # 2
        BY <1>3, <3>1
      <4>3. k = 1 /\ observer = "on"
        <5>1. stage \in {"running", "pet", "receive"} /\ observer = "on"
          BY <3>1, <4>1 DEF HookInv, Fed
        <5>2. Chain[1] = "pet" /\ Chain[2] = "receive" /\ {1, 2} \subseteq Positions
          BY DEF Chain, Positions
        <5> QED
          BY <4>2, <5>1, <5>2, StagesApart, ChainApart
      <4>4. Chain[1 + 1] = "receive"
        BY DEF Chain
      <4> QED
        BY <2>1, <4>3, <4>4
    <3> QED
      BY <1>3, <3>1 DEF Fed
  <2> QED
    BY <2>4, <2>5, <2>6, <2>7
<1>6. Flags' /\ Passed' /\ Attached' /\ Fed'
  BY <1>4, <1>5
<1>7. Kept'
  BY <1>3 DEF HookInv, Kept, Special
<1>8. FailClosed'
  BY <1>3 DEF HookInv, FailClosed
<1> QED
  BY <1>6, <1>7, <1>8 DEF HookInv

\* What is cleared when a feature is out had nothing patched any more.
LEMMA GroupOut ==
    ASSUME NEW seams, NEW features, UNION features \subseteq seams,
           TakeOut(seams), ClearEach(features), UNCHANGED client
    PROVE  /\ original' \subseteq original /\ original \ original' \subseteq seams
           /\ (original \ original') \cap installed' = {}
           /\ Out(seams) => installed' \cap seams = {}
           /\ client.stuck = {} => Out(seams)
<1>1. installed' = installed \ (seams \ client.stuck)
  BY DEF TakeOut
<1>2. original' = original \ UNION {f \in features : installed \cap f \cap client.stuck = {}}
  BY DEF ClearEach, Out
<1>3. (original \ original') \cap installed' = {}
  <2> SUFFICES ASSUME NEW seam, seam \in original, seam \notin original', seam \in installed'
               PROVE  FALSE
    OBVIOUS
  <2>1. PICK f \in features : seam \in f /\ installed \cap f \cap client.stuck = {}
    BY <1>2
  <2>2. seam \in seams
    BY <2>1
  <2> QED
    BY <1>1, <2>1, <2>2
<1> QED
  BY <1>1, <1>2, <1>3 DEF Out

\* A group that is tried as a whole and on which neither a session nor the
\* HasSkill pointer hangs.
LEMMA PlainRemoval ==
    ASSUME HookInv, NEW k \in Positions, k # 24,
           NEW features, UNION features \subseteq SeamsOf[Chain[k]],
           RemoveAll(Chain[k], SeamsOf[Chain[k]], features), UNCHANGED Rest,
           {"trainer", "hasSkill"} \cap SeamsOf[Chain[k]] = {}
    PROVE  HookInv'
<1>1. PICK seams : seams = SeamsOf[Chain[k]]
  OBVIOUS
<1>2. PICK ok : ok = Out(seams)
  OBVIOUS
<1>3. /\ stage = Chain[k] /\ TakeOut(seams) /\ ClearEach(features)
      /\ Proceed(Chain[k], ok)
      /\ UNCHANGED <<client, hasSkill, session, initialized, started, observer>>
  BY <1>1, <1>2 DEF RemoveAll, Rest
<1>4. /\ original' \subseteq original /\ original \ original' \subseteq seams
      /\ (original \ original') \cap installed' = {}
      /\ ok => installed' \cap seams = {}
      /\ client.stuck = {} => ok
  BY <1>1, <1>2, <1>3, GroupOut
<1>5. k = 2 => "receive" \in seams
  BY <1>1 DEF Chain, SeamsOf
<1>6. /\ "trainer" \in installed' <=> "trainer" \in installed
      /\ "hasSkill" \in installed' <=> "hasSkill" \in installed
  BY <1>1, <1>3 DEF TakeOut
<1>7. SessionOnGate' /\ HasSkillPointerLive'
  BY <1>3, <1>6 DEF HookInv, SessionOnGate, HasSkillPointerLive
<1>8. /\ session \in BOOLEAN /\ hasSkill \in {"null", "entry", "trampoline"}
      /\ initialized \in BOOLEAN
  BY DEF HookInv, Flags
<1>9. /\ ok => installed' \cap SeamsOf[Chain[k]] \subseteq Leftover
      /\ original \ original' \subseteq seams \cup {"label"}
      /\ (original \ original') \cap installed' \cap Special = {}
      /\ k < 13 => "hasSkill" \notin seams
      /\ initialized' = (initialized /\ (k # 24 \/ ~ok))
      /\ session' \in BOOLEAN /\ (session' => session)
      /\ hasSkill' \in {"null", "entry", "trampoline"}
      /\ UNCHANGED <<client, started, observer>>
      /\ k = 1 /\ client.stuck = {} => ok
  BY <1>1, <1>3, <1>4, <1>8
<1> QED
  BY <1>3, <1>4, <1>5, <1>7, <1>9, RemovalStep

LEMMA PetStep ==
    ASSUME HookInv, RemovePetInfoWindowTraceForMultiPet
    PROVE  HookInv'
<1>1. PICK fails : fails = {i \in DOMAIN PetOrder : ~Out({PetOrder[i]})}
  OBVIOUS
<1>2. PICK reached :
        reached = {PetOrder[i] : i \in {i \in DOMAIN PetOrder : \A j \in fails : i < j}}
  OBVIOUS
<1>3. PICK ok : ok = (fails = {})
  OBVIOUS
<1>4. /\ stage = "pet" /\ TakeOut(reached) /\ Proceed("pet", ok)
      /\ original' \subseteq original /\ original \ original' \subseteq reached
      /\ UNCHANGED <<client, hasSkill, session, initialized, started, observer>>
  BY <1>1, <1>2, <1>3 DEF RemovePetInfoWindowTraceForMultiPet, Rest
<1>5. /\ DOMAIN PetOrder = 1 .. 9
      /\ Pet = {PetOrder[i] : i \in DOMAIN PetOrder}
  BY DEF PetOrder, Pet, Children, Sidl
<1>6. reached \subseteq Pet
  BY <1>2, <1>5
<1>7. Pet \cap {"trainer", "hasSkill", "receive", "level", "send"} = {}
  BY DEF Pet, Children, Sidl
<1>8. ok => installed' \cap Pet = {}
  <2> SUFFICES ASSUME ok, NEW i \in DOMAIN PetOrder, PetOrder[i] \in installed'
               PROVE  FALSE
    BY <1>5
  <2>1. Out({PetOrder[i]}) /\ PetOrder[i] \in reached
    BY <1>1, <1>2, <1>3
  <2> QED
    BY <1>4, <2>1 DEF TakeOut, Out
<1>9. client.stuck = {} => ok
  BY <1>1, <1>3 DEF Out
<1>10. Chain[1] = "pet" /\ SeamsOf["pet"] = Pet /\ 1 \in Positions
  BY DEF Chain, SeamsOf, Positions
<1>11. /\ "trainer" \in installed' <=> "trainer" \in installed
       /\ "hasSkill" \in installed' <=> "hasSkill" \in installed
  BY <1>4, <1>6, <1>7 DEF TakeOut
<1>12. SessionOnGate' /\ HasSkillPointerLive'
  BY <1>4, <1>11 DEF HookInv, SessionOnGate, HasSkillPointerLive
<1>13. /\ session \in BOOLEAN /\ hasSkill \in {"null", "entry", "trampoline"}
       /\ initialized \in BOOLEAN
  BY DEF HookInv, Flags
<1>14. /\ (original \ original') \cap installed' \cap Special = {}
       /\ "hasSkill" \notin reached
       /\ ok => installed' \cap SeamsOf[Chain[1]] \subseteq Leftover
  BY <1>4, <1>6, <1>7, <1>8, <1>10 DEF Special
<1> QED
  BY <1>4, <1>9, <1>10, <1>12, <1>13, <1>14, RemovalStep

\* A group all of whose pointers are cleared, among them none that is special.
LEMMA ClearedRemoval ==
    ASSUME HookInv, NEW k \in Positions, k \notin {1, 2, 24}, stage = Chain[k],
           NEW seams, seams = SeamsOf[Chain[k]], TakeOut(seams),
           original' = original \ (seams \cup {"label"}) \/ original' = original \ seams,
           Proceed(Chain[k], Out(seams)), UNCHANGED Rest,
           Special \cap (seams \cup {"label"}) = {}
    PROVE  HookInv'
<1>1. PICK ok : ok = Out(seams)
  OBVIOUS
<1>2. UNCHANGED <<client, hasSkill, session, initialized, started, observer>>
  BY DEF Rest
<1>3. /\ "trainer" \in installed' <=> "trainer" \in installed
      /\ "hasSkill" \in installed' <=> "hasSkill" \in installed
      /\ "hasSkill" \notin seams
  BY DEF TakeOut, Special
<1>4. SessionOnGate' /\ HasSkillPointerLive'
  BY <1>2, <1>3 DEF HookInv, SessionOnGate, HasSkillPointerLive
<1>5. /\ session \in BOOLEAN /\ hasSkill \in {"null", "entry", "trampoline"}
      /\ initialized \in BOOLEAN
  BY DEF HookInv, Flags
<1>6. ok => installed' \cap SeamsOf[Chain[k]] \subseteq Leftover
  BY <1>1 DEF TakeOut, Out
<1>7. /\ original' \subseteq original /\ original \ original' \subseteq seams \cup {"label"}
      /\ (original \ original') \cap installed' \cap Special = {}
      /\ initialized' = (initialized /\ (k # 24 \/ ~ok))
      /\ session' \in BOOLEAN /\ (session' => session)
      /\ hasSkill' \in {"null", "entry", "trampoline"}
      /\ UNCHANGED <<client, started, observer>>
  BY <1>2, <1>5
<1> QED
  BY <1>1, <1>3, <1>4, <1>6, <1>7, RemovalStep

LEMMA WhoStep ==
    ASSUME HookInv, RemoveWhoClassNameDisplayHook
    PROVE  HookInv'
<1>1. Chain[4] = "who" /\ SeamsOf["who"] = Who /\ 4 \in Positions
  BY DEF Chain, SeamsOf, Positions
<1>2. Special \cap (Who \cup {"label"}) = {}
  BY DEF Special, Who
<1> QED
  BY <1>1, <1>2, ClearedRemoval DEF RemoveWhoClassNameDisplayHook

LEMMA ProgressionStep ==
    ASSUME HookInv, RemoveProgressionSelectionClassDisplayHook
    PROVE  HookInv'
<1>1. Chain[6] = "progression" /\ SeamsOf["progression"] = Progression /\ 6 \in Positions
  BY DEF Chain, SeamsOf, Positions
<1>2. Special \cap (Progression \cup {"label"}) = {}
  BY DEF Special, Progression
<1> QED
  BY <1>1, <1>2, ClearedRemoval DEF RemoveProgressionSelectionClassDisplayHook

\* The chain goes on only when no skill seam was patched.
LEMMA SkillStep ==
    ASSUME HookInv, RemoveActivatedSkillVisibilityHook
    PROVE  HookInv'
<1>1. PICK features :
        features = Own({"hasSkill", "adjustedSkill", "useSkill", "backstab", "hideSneak",
                        "skillValue"})
                     \cup {Rows, CombatWindow, Producers, PostShow}
  OBVIOUS
<1>2. PICK ok : ok = ("hasSkill" \notin installed)
  OBVIOUS
<1>3. /\ stage = "skill" /\ TakeOut(Skills) /\ ClearEach(features) /\ Proceed("skill", ok)
      /\ hasSkill' = IF ~Out({"hasSkill"}) THEN hasSkill
                     ELSE IF "canEquip" \notin original THEN "null"
                     ELSE IF "hasSkill" \in installed THEN "entry" ELSE hasSkill
      /\ UNCHANGED <<client, session, initialized, started, observer>>
  BY <1>1, <1>2 DEF RemoveActivatedSkillVisibilityHook
<1>4. UNION features \subseteq Skills /\ "hasSkill" \in Skills /\ "trainer" \notin Skills
  <2>1. \A f \in features : f \subseteq Skills
    BY <1>1 DEF Own, Skills
  <2> QED
    BY <2>1 DEF Skills, Rows, CombatWindow, Producers, PostShow
<1>5. /\ original' \subseteq original /\ original \ original' \subseteq Skills
      /\ (original \ original') \cap installed' = {}
  BY <1>3, <1>4, GroupOut
<1>6. /\ Chain[13] = "skill" /\ SeamsOf["skill"] = Skills /\ 13 \in Positions
  BY DEF Chain, SeamsOf, Positions
<1>7. ok => installed' \cap Skills = {}
  <2>1. stage \in {Chain[j] : j \in 1 .. 13}
    BY <1>3, <1>6
  <2>2. ok => installed \cap Skills = {}
    BY <1>2, <2>1 DEF HookInv, Attached
  <2> QED
    BY <1>3, <2>2 DEF TakeOut
<1>8. "trainer" \in installed' <=> "trainer" \in installed
  BY <1>3, <1>4 DEF TakeOut
<1>9. SessionOnGate'
  BY <1>3, <1>8 DEF HookInv, SessionOnGate
<1>10. HasSkillPointerLive'
  <2>1. ~Out({"hasSkill"}) => "hasSkill" \in installed /\ "hasSkill" \in installed'
    BY <1>3, <1>4 DEF Out, TakeOut
  <2>2. Out({"hasSkill"}) => "hasSkill" \notin installed'
    BY <1>3, <1>4 DEF Out, TakeOut
  <2> QED
    BY <1>3, <2>1, <2>2 DEF HookInv, HasSkillPointerLive
<1>11. /\ session \in BOOLEAN /\ hasSkill \in {"null", "entry", "trampoline"}
       /\ initialized \in BOOLEAN
  BY DEF HookInv, Flags
<1>12. /\ ok => installed' \cap SeamsOf[Chain[13]] \subseteq Leftover
       /\ original \ original' \subseteq Skills \cup {"label"}
       /\ (original \ original') \cap installed' \cap Special = {}
       /\ hasSkill' \in {"null", "entry", "trampoline"}
       /\ initialized' = initialized
  BY <1>3, <1>5, <1>6, <1>7, <1>11
<1> QED
  BY <1>3, <1>5, <1>6, <1>9, <1>10, <1>11, <1>12, RemovalStep

LEMMA CanEquipStep ==
    ASSUME HookInv, RemoveCanEquipHook
    PROVE  HookInv'
<1>1. PICK ok : ok = Out({"canEquip"})
  OBVIOUS
<1>2. /\ stage = "canEquip" /\ TakeOut(Items) /\ Proceed("canEquip", ok)
      /\ original' \subseteq original /\ original \ original' \subseteq Items
      /\ hasSkill' = "null"
      /\ UNCHANGED <<client, session, initialized, started, observer>>
  <2>1. "canEquip" \in Items
    BY DEF Items
  <2> QED
    BY <1>1, <2>1 DEF RemoveCanEquipHook
<1>3. Chain[14] = "canEquip" /\ SeamsOf["canEquip"] = Items /\ 14 \in Positions
  BY DEF Chain, SeamsOf, Positions
<1>4. Items \cap Special = {}
  BY DEF Items, Summaries, ItemTraces, Special
<1>5. ok => installed' \cap Items \subseteq Leftover
  BY <1>1, <1>2 DEF TakeOut, Out, Leftover
<1>6. "trainer" \in installed' <=> "trainer" \in installed
  BY <1>2, <1>4 DEF TakeOut, Special
<1>7. SessionOnGate' /\ HasSkillPointerLive'
  BY <1>2, <1>6 DEF HookInv, SessionOnGate, HasSkillPointerLive
<1>8. session \in BOOLEAN /\ initialized \in BOOLEAN
  BY DEF HookInv, Flags
<1>9. /\ ok => installed' \cap SeamsOf[Chain[14]] \subseteq Leftover
      /\ original \ original' \subseteq Items \cup {"label"}
      /\ (original \ original') \cap installed' \cap Special = {}
      /\ hasSkill' \in {"null", "entry", "trampoline"}
      /\ initialized' = initialized
  BY <1>2, <1>3, <1>4, <1>5
<1>10. /\ stage = Chain[14] /\ Proceed(Chain[14], ok)
      /\ initialized' = (initialized /\ (14 # 24 \/ ~ok))
      /\ 14 # 1 /\ 14 # 2 /\ ~(14 < 13)
  BY <1>2, <1>3, <1>8, <1>9
<1> QED
  BY <1>2, <1>3, <1>7, <1>8, <1>9, <1>10, RemovalStep

\* The session ends with the gate it lives on.
LEMMA TrainerStep ==
    ASSUME HookInv, RemoveGuildTrainerHook
    PROVE  HookInv'
<1>1. PICK ok : ok = Out({"trainer"})
  OBVIOUS
<1>2. /\ stage = "trainer" /\ TakeOut({"trainer"}) /\ ClearEach({{"trainer"}})
      /\ Proceed("trainer", ok)
      /\ session' = (session /\ ~ok)
      /\ UNCHANGED <<client, hasSkill, initialized, started, observer>>
  BY <1>1 DEF RemoveGuildTrainerHook, RemoveAll
<1>3. /\ original' \subseteq original /\ original \ original' \subseteq {"trainer"}
      /\ (original \ original') \cap installed' = {}
      /\ ok => installed' \cap {"trainer"} = {}
  BY <1>1, <1>2, GroupOut
<1>4. Chain[17] = "trainer" /\ SeamsOf["trainer"] = {"trainer"} /\ 17 \in Positions
  BY DEF Chain, SeamsOf, Positions
<1>5. SessionOnGate'
  <2>1. ~ok => "trainer" \in installed'
    BY <1>1, <1>2 DEF Out, TakeOut
  <2> QED
    BY <1>2, <2>1 DEF SessionOnGate
<1>6. HasSkillPointerLive'
  BY <1>2 DEF HookInv, HasSkillPointerLive, TakeOut
<1>7. /\ session \in BOOLEAN /\ hasSkill \in {"null", "entry", "trampoline"}
      /\ initialized \in BOOLEAN
  BY DEF HookInv, Flags
<1>8. /\ ok => installed' \cap SeamsOf[Chain[17]] \subseteq Leftover
      /\ original \ original' \subseteq {"trainer"} \cup {"label"}
      /\ (original \ original') \cap installed' \cap Special = {}
      /\ session' \in BOOLEAN /\ (session' => session)
      /\ hasSkill' \in {"null", "entry", "trampoline"}
      /\ initialized' = initialized
  BY <1>2, <1>3, <1>4, <1>7
<1>9. /\ stage = Chain[17] /\ Proceed(Chain[17], ok)
      /\ initialized' = (initialized /\ (17 # 24 \/ ~ok))
      /\ 17 # 1 /\ 17 # 2 /\ ~(17 < 13)
  BY <1>2, <1>4, <1>7, <1>8
<1> QED
  BY <1>2, <1>3, <1>4, <1>5, <1>6, <1>7, <1>8, <1>9, RemovalStep

\* The end of the chain.
LEMMA SendStep ==
    ASSUME HookInv, RemoveMemorizeSendTrace
    PROVE  HookInv'
<1>1. PICK ok : ok = Out({"send"})
  OBVIOUS
<1>2. /\ stage = "send" /\ TakeOut({"send"}) /\ ClearEach({{"send"}})
      /\ Proceed("send", ok)
      /\ initialized' = ~ok
      /\ UNCHANGED <<client, hasSkill, session, started, observer>>
  BY <1>1 DEF RemoveMemorizeSendTrace, RemoveAll
<1>3. /\ original' \subseteq original /\ original \ original' \subseteq {"send"}
      /\ (original \ original') \cap installed' = {}
      /\ ok => installed' \cap {"send"} = {}
  BY <1>1, <1>2, GroupOut
<1>4. Chain[24] = "send" /\ SeamsOf["send"] = {"send"} /\ 24 \in Positions
  BY DEF Chain, SeamsOf, Positions
<1>5. SessionOnGate' /\ HasSkillPointerLive'
  BY <1>2 DEF HookInv, SessionOnGate, HasSkillPointerLive, TakeOut
<1>6. /\ session \in BOOLEAN /\ hasSkill \in {"null", "entry", "trampoline"}
      /\ initialized = TRUE
  BY <1>2, <1>4, StagesApart DEF HookInv, Flags
<1>7. /\ ok => installed' \cap SeamsOf[Chain[24]] \subseteq Leftover
      /\ original \ original' \subseteq {"send"} \cup {"label"}
      /\ (original \ original') \cap installed' \cap Special = {}
      /\ session' \in BOOLEAN /\ (session' => session)
      /\ hasSkill' \in {"null", "entry", "trampoline"}
      /\ initialized' = (initialized /\ ~ok)
  BY <1>2, <1>3, <1>4, <1>6
<1> QED
  BY <1>2, <1>3, <1>4, <1>5, <1>6, <1>7, RemovalStep

\* One detour that stands for itself.
LEMMA OneStep ==
    ASSUME HookInv, NEW k \in Positions, k # 24, NEW seam, seam \notin {"trainer", "hasSkill"},
           SeamsOf[Chain[k]] = {seam}, RemoveOne(Chain[k], seam)
    PROVE  HookInv'
<1>1. PICK features : features = {{seam}}
  OBVIOUS
<1>2. UNION features \subseteq SeamsOf[Chain[k]]
  BY <1>1
<1>3. RemoveAll(Chain[k], SeamsOf[Chain[k]], features) /\ UNCHANGED Rest
  BY <1>1 DEF RemoveOne
<1> QED
  BY <1>2, <1>3, PlainRemoval

LEMMA RemovalKeeps ==
    ASSUME HookInv, Removal
    PROVE  HookInv'
<1>1. ASSUME RemoveReceiveDispatchHook PROVE HookInv'
  <2>1. Chain[2] = "receive" /\ SeamsOf["receive"] = {"receive"} /\ 2 \in Positions
    BY DEF Chain, SeamsOf, Positions
  <2> QED
    BY <1>1, <2>1, OneStep DEF RemoveReceiveDispatchHook
<1>2. ASSUME RemoveAAXpLowLevelUiPatch PROVE HookInv'
  <2>1. /\ Chain[3] = "aaXp" /\ SeamsOf["aaXp"] = AAXp /\ 3 \in Positions
        /\ UNION Own(AAXp) \subseteq AAXp /\ {"trainer", "hasSkill"} \cap AAXp = {}
    BY DEF Chain, SeamsOf, Positions, Own, AAXp
  <2>2. PICK features : features = Own(AAXp)
    OBVIOUS
  <2>3. RemoveAll(Chain[3], SeamsOf[Chain[3]], features) /\ UNCHANGED Rest
    BY <1>2, <2>1, <2>2 DEF RemoveAAXpLowLevelUiPatch
  <2> QED
    BY <2>1, <2>2, <2>3, PlainRemoval
<1>3. ASSUME RemoveCharacterListUpdateListHook PROVE HookInv'
  <2>1. Chain[5] = "list" /\ SeamsOf["list"] = {"list"} /\ 5 \in Positions
    BY DEF Chain, SeamsOf, Positions
  <2> QED
    BY <1>3, <2>1, OneStep DEF RemoveCharacterListUpdateListHook
<1>4. ASSUME RemoveInventoryClassTitleDisplayHook PROVE HookInv'
  <2>1. Chain[7] = "label" /\ SeamsOf["label"] = {"label"} /\ 7 \in Positions
    BY DEF Chain, SeamsOf, Positions
  <2> QED
    BY <1>4, <2>1, OneStep DEF RemoveInventoryClassTitleDisplayHook
<1>5. ASSUME RemoveSpellUiShowTrace PROVE HookInv'
  <2>1. Chain[8] = "show" /\ SeamsOf["show"] = {"show"} /\ 8 \in Positions
    BY DEF Chain, SeamsOf, Positions
  <2> QED
    BY <1>5, <2>1, OneStep DEF RemoveSpellUiShowTrace
<1>6. ASSUME RemoveSpellUiShowWrapperTrace PROVE HookInv'
  <2>1. /\ Chain[9] = "wrappers" /\ SeamsOf["wrappers"] = Wrappers /\ 9 \in Positions
        /\ UNION Own(Wrappers) \subseteq Wrappers /\ {"trainer", "hasSkill"} \cap Wrappers = {}
    BY DEF Chain, SeamsOf, Positions, Own, Wrappers
  <2> QED
    BY <1>6, <2>1, PlainRemoval DEF RemoveSpellUiShowWrapperTrace
<1>7. ASSUME RemoveSpellUiDerivedWindowTrace PROVE HookInv'
  <2>1. /\ Chain[10] = "derived" /\ SeamsOf["derived"] = Derived /\ 10 \in Positions
        /\ UNION Own(Derived) \subseteq Derived /\ {"trainer", "hasSkill"} \cap Derived = {}
    BY DEF Chain, SeamsOf, Positions, Own, Derived
  <2> QED
    BY <1>7, <2>1, PlainRemoval DEF RemoveSpellUiDerivedWindowTrace
<1>8. ASSUME RemoveSpellUiAboutToShowGateTrace PROVE HookInv'
  <2>1. /\ Chain[11] = "aboutToShow" /\ SeamsOf["aboutToShow"] = AboutToShow
        /\ 11 \in Positions /\ UNION {AboutToShow} \subseteq AboutToShow
        /\ {"trainer", "hasSkill"} \cap AboutToShow = {}
    BY DEF Chain, SeamsOf, Positions, AboutToShow
  <2> QED
    BY <1>8, <2>1, PlainRemoval DEF RemoveSpellUiAboutToShowGateTrace
<1>9. ASSUME RemoveGetSpellLevelNeededTrace PROVE HookInv'
  <2>1. PICK features : features = ManaFeatures \cup {Mana, {"level"}}
    OBVIOUS
  <2>2. UNION features \subseteq {"level"} \cup Mana
    BY <2>1 DEF ManaFeatures, Own, Mana
  <2>3. /\ Chain[12] = "level" /\ SeamsOf["level"] = {"level"} \cup Mana /\ 12 \in Positions
        /\ {"trainer", "hasSkill"} \cap ({"level"} \cup Mana) = {}
    BY DEF Chain, SeamsOf, Positions, Mana, CurManaSites
  <2>4. RemoveAll(Chain[12], SeamsOf[Chain[12]], features) /\ UNCHANGED Rest
    BY <1>9, <2>1, <2>3 DEF RemoveGetSpellLevelNeededTrace
  <2>5. /\ {"trainer", "hasSkill"} \cap SeamsOf[Chain[12]] = {}
        /\ UNION features \subseteq SeamsOf[Chain[12]] /\ 12 \in Positions /\ 12 # 24
    BY <2>2, <2>3
  <2> QED
    BY <2>4, <2>5, PlainRemoval
<1>10. ASSUME RemoveInvSlotMgrMoveItemTrace PROVE HookInv'
  <2>1. Chain[15] = "moveItem" /\ SeamsOf["moveItem"] = {"moveItem"} /\ 15 \in Positions
    BY DEF Chain, SeamsOf, Positions
  <2> QED
    BY <1>10, <2>1, OneStep DEF RemoveInvSlotMgrMoveItemTrace
<1>11. ASSUME RemoveScrollScribeTraceHooks PROVE HookInv'
  <2>1. Chain[16] = "classUsable" /\ SeamsOf["classUsable"] = {"classUsable"} /\ 16 \in Positions
    BY DEF Chain, SeamsOf, Positions
  <2> QED
    BY <1>11, <2>1, OneStep DEF RemoveScrollScribeTraceHooks
<1>12. ASSUME NEW seam \in Prechecks, RemoveStartSpellScribePrecheckTrace(seam)
       PROVE  HookInv'
  <2>1. PICK k \in 18 .. 23 : Chain[k] = seam /\ SeamsOf[seam] = {seam}
    <3>1. /\ Chain[18] = "gate" /\ Chain[19] = "maskGetter" /\ Chain[20] = "rule4462c0"
          /\ Chain[21] = "rule446190" /\ Chain[22] = "rule446200" /\ Chain[23] = "rule446380"
      BY DEF Chain
    <3> QED
      BY <1>12, <3>1 DEF Prechecks, SeamsOf
  <2>2. seam \notin {"trainer", "hasSkill"}
    BY <1>12 DEF Prechecks
  <2> QED
    BY <1>12, <2>1, <2>2, OneStep DEF RemoveStartSpellScribePrecheckTrace, Positions
<1> QED
  BY <1>1, <1>2, <1>3, <1>4, <1>5, <1>6, <1>7, <1>8, <1>9, <1>10, <1>11, <1>12,
     PetStep, WhoStep, ProgressionStep, SkillStep, CanEquipStep, TrainerStep, SendStep
     DEF Removal

------------------------------------------------------------------------------
(* The invariant *)

LEMMA InitHookInv == Init => HookInv
<1> SUFFICES ASSUME Init PROVE HookInv
  OBVIOUS
<1>1. \A k \in Positions : Chain[k] # "start"
  BY StagesApart
<1>2. Flags /\ Kept /\ Fed
  <2>1. "start" \notin Groups
    BY <1>1, ChainPlaces DEF Groups
  <2> QED
    BY <2>1 DEF Init, Flags, Kept, Fed
<1>3. Passed /\ Attached
  <2>1. stage = "start" /\ installed = {}
    BY DEF Init
  <2> QED
    BY <1>1, <2>1 DEF Passed, Attached, Positions
<1>4. SessionOnGate /\ HasSkillPointerLive /\ FailClosed
  BY DEF Init, SessionOnGate, HasSkillPointerLive, FailClosed
<1> QED
  BY <1>2, <1>3, <1>4 DEF HookInv

LEMMA NextHookInv == HookInv /\ [Next]_vars => HookInv'
<1> SUFFICES ASSUME HookInv, [Next]_vars PROVE HookInv'
  OBVIOUS
<1>1. ASSUME TrainerSession PROVE HookInv'
  <2>1. session' \in BOOLEAN
    BY <1>1 DEF TrainerSession, HookInv, Flags
  <2> QED
    BY <1>1, <2>1 DEF TrainerSession, HookInv, Flags, Kept, Passed, GoneBefore, Leftover,
       SessionOnGate, Attached, Fed, HasSkillPointerLive, FailClosed
<1>2. ASSUME Shutdown PROVE HookInv'
  <2>1. /\ stage = "running" /\ stage' = IF initialized THEN "pet" ELSE "observer"
        /\ UNCHANGED <<client, installed, original, hasSkill, session, initialized,
                       started, observer>>
    BY <1>2 DEF Shutdown, Chain, HookInv, Flags
  <2>2. Chain[1] = "pet" /\ 1 \in Positions /\ "pet" \in Groups
    BY ChainPlaces DEF Chain, Positions, Groups
  <2>3. \A k \in Positions : Chain[k] \notin {"start", "running", "observer", "down"}
    BY StagesApart
  <2>4. "observer" \notin Groups
    BY <2>3, ChainPlaces DEF Groups
  <2>5. ~initialized => installed = {}
    BY <2>1 DEF HookInv, Flags
  <2>6. \A k \in Positions : Chain[k] = "pet" => k = 1
    BY <2>2, ChainApart
  <2>7. Flags'
    BY <2>1, <2>2, <2>4 DEF HookInv, Flags
  <2>8. Passed'
    BY <2>1, <2>3, <2>5, <2>6 DEF Passed, GoneBefore, Positions
  <2>9. Attached' /\ Fed'
    BY <2>1, <2>5 DEF HookInv, Attached, Fed
  <2> QED
    BY <2>1, <2>7, <2>8, <2>9 DEF HookInv, Kept, SessionOnGate, HasSkillPointerLive, FailClosed
<1>3. ASSUME ShutdownObserver PROVE HookInv'
  <2>1. /\ stage = "observer" /\ stage' = "down" /\ started' = FALSE
        /\ observer' = "shutdown"
        /\ UNCHANGED <<client, installed, original, hasSkill, session, initialized>>
    BY <1>3 DEF ShutdownObserver
  <2>2. \A k \in Positions : Chain[k] \notin {"start", "running", "observer", "down"}
    BY StagesApart
  <2>3. "down" \notin Groups
    BY <2>2, ChainPlaces DEF Groups
  <2>4. Flags'
    BY <2>1, <2>3 DEF HookInv, Flags
  <2>5. Passed' /\ Attached'
    BY <2>1, <2>2 DEF HookInv, Passed, Attached, Leftover, Positions
  <2>6. Fed'
    BY <2>1 DEF HookInv, Fed
  <2> QED
    BY <2>1, <2>4, <2>5, <2>6 DEF HookInv, Kept, SessionOnGate, HasSkillPointerLive, FailClosed
<1>4. CASE UNCHANGED vars
  BY <1>4 DEF vars, HookInv, Flags, Kept, Passed, GoneBefore, Leftover,
       SessionOnGate, Attached, Fed, HasSkillPointerLive, FailClosed
<1> QED
  BY <1>1, <1>2, <1>3, <1>4, InitializeStep, RemovalKeeps DEF Next

\* How far load and unload have come says what is still patched, attached and fed, for
\* every client image (hooks::Initialize, hooks::Shutdown).
THEOREM HookInvariant == Spec => []HookInv
<1>1. Init => HookInv
  BY InitHookInv
<1>2. HookInv /\ [Next]_vars => HookInv'
  BY NextHookInv
<1> QED
  BY <1>1, <1>2, PTL DEF Spec

\* The state stays in its range, and while the client runs no seam is patched
\* without the ones it belongs to.
THEOREM HookTypeCorrect == Spec => []TypeOK
<1>1. HookInv => TypeOK
  BY DEF HookInv, Flags, Kept, Attached, TypeOK
<1> QED
  BY <1>1, HookInvariant, PTL

\* A shutdown that was not deferred leaves no patch, but the item seams whose
\* result its remover ignores, and no class overridden.
THEOREM ShutdownIsClean == Spec => []CompleteShutdownIsClean
<1>1. HookInv => CompleteShutdownIsClean
  <2>1. "trainer" \notin Items
    BY DEF Items, Summaries, ItemTraces
  <2> QED
    BY <2>1 DEF HookInv, Flags, Passed, SessionOnGate, Leftover, CompleteShutdownIsClean
<1> QED
  BY <1>1, HookInvariant, PTL

\* Whatever is patched calls through to the client's own code.
THEOREM HooksCallThrough == Spec => []CallsThrough
<1>1. HookInv => CallsThrough
  BY DEF HookInv, Kept, Fed, CallsThrough
<1> QED
  BY <1>1, HookInvariant, PTL

\* The HasSkill the item checks call is neither freed nor the DLL's own hook.
THEOREM HasSkillStaysLive == Spec => []HasSkillPointerLive
<1>1. HookInv => HasSkillPointerLive
  BY DEF HookInv
<1> QED
  BY <1>1, HookInvariant, PTL

\* Nothing is ever patched in a client without the evidence for it.
THEOREM InstallationFailsClosed == Spec => []FailClosed
<1>1. HookInv => FailClosed
  BY DEF HookInv
<1> QED
  BY <1>1, HookInvariant, PTL
=============================================================================
