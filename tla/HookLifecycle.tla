---------------------------- MODULE HookLifecycle -----------------------------
(***************************************************************************)
(* Installing and removing the hooks (src/src/hook_manager.cpp), and the   *)
(* proxy that does both (src/src/dinput_proxy.cpp): once when the client   *)
(* first calls the DLL, and in a chain of removals when it unloads the     *)
(* DLL.  A seam is a place of the client's code that is patched to jump    *)
(* into the DLL; where more than three places are treated alike two stand  *)
(* for all of them.  Hooks no manifest ever allows are left out.           *)
(***************************************************************************)
EXTENDS Capabilities, Sequences

CONSTANTS
    Clients     \* the clients the DLL may be loaded into: see ClientImage, and
                \*   unable   the seams that cannot be patched: their own bytes
                \*            differ, or their page cannot be made writable
                \*   stuck    the seams that cannot be restored once patched

VARIABLES
    client,     \* the client
    stage,      \* where the DLL is in its life
    installed,  \* the seams that are patched
    original,   \* the seams whose g_original_... pointer is set
    hasSkill,   \* g_character_zone_client_has_skill
    session,    \* a guild trainer session overrides the local class
    initialized,\* g_initialized of the hook manager
    started,    \* g_hooks_started of the proxy
    observer    \* the packet observer's g_state

vars == <<client, stage, installed, original, hasSkill, session, initialized,
          started, observer>>

AAXp == {"aaXpA", "aaXpB"}
CurManaSites == {"curManaSiteA", "curManaSiteB"}
Mana == {"visibilityA", "visibilityB", "eqType", "gauge", "curMana", "maxMana",
         "manaRegen"} \cup CurManaSites
Prechecks == {"gate", "maskGetter", "rule4462c0", "rule446190", "rule446200",
              "rule446380"}
Merchant == <<"merchantA", "merchantB">>
Augment == <<"augmentA", "augmentB">>
Summaries == {"summaryA", "summaryB"}
ItemTraces == {"itemTraceA", "itemTraceB"}
Items == {"canEquip", "merchantA", "merchantB", "augmentA", "augmentB", "slot21",
          "lButtonCore", "lateGate"} \cup Summaries \cup ItemTraces
Rows == {"rowA", "rowB"}
CombatWindow == {"combatA", "combatB"}
Producers == {"producerA", "producerB"}
PostShow == {"postShowA", "postShowB"}
Skills == {"hasSkill", "adjustedSkill", "useSkill", "backstab", "hideSneak",
           "skillValue"} \cup Rows \cup CombatWindow \cup Producers \cup PostShow
Who == {"whoClassName", "classLookup", "classDesc", "guildRoster", "threeLetter",
        "deityDesc", "windowText"}
Wrappers == {"showTrue", "showFalse"}
Derived == {"derivedA", "derivedB"}
AboutToShow == {"aboutToShowA", "aboutToShowB"}
Progression == {"charSelect", "progression", "lateNameA", "lateNameB"}
Display == Who \cup {"show"} \cup Wrappers \cup Derived \cup AboutToShow
             \cup {"list"} \cup Progression \cup {"label"}
Children == {"childA", "childB"}
Sidl == {"sidlChildren", "sidlChild", "sidlTemplate"}
Pet == {"petNotify", "petCtor", "petChildren", "petPost"} \cup Children \cup Sidl

Seams == {"receive", "level", "classUsable", "trainer", "moveItem", "send"}
           \cup AAXp \cup Mana \cup Prechecks \cup Items \cup Skills
           \cup Display \cup Pet

\* The order of hooks::Shutdown.
Chain == <<"pet", "receive", "aaXp", "who", "list", "progression", "label", "show",
           "wrappers", "derived", "aboutToShow", "level", "skill", "canEquip",
           "moveItem", "classUsable", "trainer", "gate", "maskGetter", "rule4462c0",
           "rule446190", "rule446200", "rule446380", "send">>

Groups == {Chain[i] : i \in DOMAIN Chain}

------------------------------------------------------------------------------
(* Installation *)

\* What an installer does: the seams it leaves patched, and those it patched and
\* took out again.  able: the seams of the client that can be patched.
Nothing == [kept |-> {}, undone |-> {}]

Each(able, seams) == [kept |-> able \cap seams, undone |-> {}]

\* Group after group; one that is not complete undoes them all.
InTurn(able, groups) ==
    LET stops == {i \in DOMAIN groups : ~(groups[i] \subseteq able)}
        reached == {i \in DOMAIN groups : \A j \in stops : i <= j}
        patched == able \cap UNION {groups[i] : i \in reached}
    IN IF stops = {} THEN [kept |-> patched, undone |-> {}]
                     ELSE [kept |-> {}, undone |-> patched]

\* All are tried, and undone unless all could be patched.
Together(able, seams) == InTurn(able, <<seams>>)

And(done, more) ==
    [kept |-> done.kept \cup more.kept, undone |-> done.undone \cup more.undone]

AndAll(outcomes) ==
    [kept |-> UNION {done.kept : done \in outcomes},
     undone |-> UNION {done.undone : done \in outcomes}]

InstallReceiveDispatchHook(able, manifest) ==
    IF "packetHooks" \in manifest.allowed THEN Each(able, {"receive"}) ELSE Nothing

\* The only seams that need no permission of their own.
InstallAAXpLowLevelUiPatch(able) == InTurn(able, <<{"aaXpA"}, {"aaXpB"}>>)

InstallManaVisibility(able) == Each(able, {"visibilityA", "visibilityB"})

InstallManaLabels(able) == Each(able, {"eqType", "gauge"})

\* The callsites are patched only when the function itself cannot be.
InstallCurMana(able) == Each(able, IF "curMana" \in able THEN {"curMana"} ELSE CurManaSites)

InstallMaxManaAndRegen(able) == Each(able, {"maxMana", "manaRegen"})

InstallLocalManaHooks(able) ==
    AndAll({InstallManaVisibility(able), InstallManaLabels(able),
            InstallCurMana(able), InstallMaxManaAndRegen(able)})

InstallGetSpellLevelNeededHook(able, manifest) ==
    IF "spellUsability" \in manifest.allowed /\ "level" \in able
    THEN And(Each(able, {"level"}), InstallLocalManaHooks(able))
    ELSE Nothing

\* Each for itself, also when the level hook is missing.
InstallStartSpellScribePrecheckTraces(able, manifest) ==
    IF "spellUsability" \in manifest.allowed
    THEN Each(able, Prechecks \cap manifest.validated)
    ELSE Nothing

InstallScrollScribeTraceHooks(able, manifest) ==
    IF "itemUsability" \in manifest.allowed THEN Each(able, {"classUsable"}) ELSE Nothing

\* Only tried once the receive hook is active.
InstallGuildTrainerHook(able, manifest) ==
    IF InstallReceiveDispatchHook(able, manifest).kept # {}
    THEN Each(able, {"trainer"})
    ELSE Nothing

InstallMerchantUsabilityCallsites == <<{"merchantA"}, {"merchantB"}>>

InstallAugmentPlacementValidatorCallsite == <<{"augmentA"}, {"augmentB"}>>

\* The places CanEquip is patched at before the item checks resolve HasSkill.
BeforeHasSkill ==
    <<{"canEquip"}>> \o InstallMerchantUsabilityCallsites
                     \o InstallAugmentPlacementValidatorCallsite

InstallInventorySummaries(able) == Each(able, Summaries)

InstallDetailedItemUsabilityTraceCallsites(able) == Each(able, ItemTraces)

\* Mutant: the item seams stay when a later one could not be patched.
InstallCanEquipHookPartly(able, manifest) ==
    IF "itemUsability" \in manifest.allowed /\ "canEquip" \in manifest.validated
    THEN Each(able, Items)
    ELSE Nothing

\* HasSkill must hold the expected bytes; slot 21 is optional, the core of the
\* left click and the late gate are not, the summaries and the traces are.
InstallCanEquipHook(able, manifest) ==
    LET before == InTurn(able, BeforeHasSkill)
        needed == BeforeHasSkill
                    \o <<able \cap {"slot21"}, {"lButtonCore"}, {"lateGate"}>>
        done == CASE before.kept = {} -> before
                  [] ~Shows(client, {Entry("hasSkill")}) ->
                       [kept |-> {}, undone |-> before.kept]
                  [] OTHER -> InTurn(able, needed)
    IN IF ~("itemUsability" \in manifest.allowed /\ "canEquip" \in manifest.validated)
       THEN Nothing
       ELSE IF done.kept = {} THEN done
       ELSE AndAll({done, InstallInventorySummaries(able),
                    InstallDetailedItemUsabilityTraceCallsites(able)})

\* The skill seams beside HasSkill: each feature for itself, the places of one
\* feature together.
InstallActivatedSkillUse(able) == InTurn(able, <<{"adjustedSkill"}, {"useSkill"}>>)

InstallSkillCallsites(able) == Each(able, {"backstab", "hideSneak", "skillValue"})

InstallSkillsWindowRows(able) == Together(able, Rows)

InstallCombatAbilityWindow(able) == Together(able, CombatWindow)

InstallCombatAbilityProducers(able) ==
    And(Together(able, Producers), Together(able, PostShow))

InstallActivatedSkillVisibilityHook(able, manifest) ==
    IF /\ "skillVisibility" \in manifest.allowed
       /\ Shows(client, {Entry("hasSkill")})
       /\ "hasSkill" \in able
    THEN AndAll({Each(able, {"hasSkill"}), InstallActivatedSkillUse(able),
                 InstallSkillCallsites(able), InstallSkillsWindowRows(able),
                 InstallCombatAbilityWindow(able), InstallCombatAbilityProducers(able)})
    ELSE Nothing

InstallInvSlotMgrMoveItemTrace(able, manifest) ==
    IF "itemUsability" \in manifest.allowed /\ "moveItem" \in manifest.validated
    THEN Each(able, {"moveItem"})
    ELSE Nothing

InstallMemorizeSendTrace(able, manifest) ==
    IF /\ manifest.allowed \cap {"itemUsability", "skillVisibility"} # {}
       /\ "send" \in manifest.validated
    THEN Each(able, {"send"})
    ELSE Nothing

InstallGuildManagerRosterClassLookupCallsite(able) == able \cap {"guildRoster"}

\* Without the name of the clicked player and its lookup nothing; then as far as
\* the detours can be installed.
InstallWhoClassNameDisplayHook(able) ==
    LET named == InTurn(able, <<{"whoClassName"}, {"classLookup"}>>)
        code == {"threeLetter"} \cup (able \cap {"deityDesc", "windowText"})
        desc == {"classDesc"} \cup InstallGuildManagerRosterClassLookupCallsite(able)
                  \cup (IF "threeLetter" \in able THEN code ELSE {})
    IN IF named.kept # {} /\ "classDesc" \in able
       THEN And(named, Each(able, desc))
       ELSE named

InstallSpellUiShowTrace(able) == Each(able, {"show"})

InstallSpellUiShowWrapperTrace(able) == Each(able, Wrappers)

InstallSpellUiDerivedWindowTrace(able) == Each(able, Derived)

InstallSpellUiAboutToShowGateTrace(able) == Each(able, AboutToShow)

InstallCharacterListUpdateListHook(able) == Each(able, {"list"})

InstallProgressionSelectionClassDisplayHook(able, manifest) ==
    IF "charSelect" \in manifest.validated THEN Each(able, Progression) ELSE Nothing

InstallInventoryClassTitleDisplayHook(able) == Each(able, {"label"})

InstallDisplay(able, manifest) ==
    IF "uiDisplay" \in manifest.allowed
    THEN AndAll({InstallWhoClassNameDisplayHook(able),
                 InstallSpellUiShowTrace(able),
                 InstallSpellUiShowWrapperTrace(able),
                 InstallSpellUiDerivedWindowTrace(able),
                 InstallSpellUiAboutToShowGateTrace(able),
                 InstallCharacterListUpdateListHook(able),
                 InstallProgressionSelectionClassDisplayHook(able, manifest),
                 InstallInventoryClassTitleDisplayHook(able)})
    ELSE Nothing

\* The SIDL detours are optional; the places inside the window need its
\* notification hooked, and are then each optional.
InstallPetInfoWindowTraceForMultiPet(able, petWindow) ==
    IF petWindow
    THEN Each(able, Sidl \cup (IF "petNotify" \in able THEN Pet ELSE {}))
    ELSE Nothing

Installed(able, manifest, petWindow) ==
    AndAll({InstallReceiveDispatchHook(able, manifest),
            InstallAAXpLowLevelUiPatch(able),
            InstallGetSpellLevelNeededHook(able, manifest),
            InstallStartSpellScribePrecheckTraces(able, manifest),
            InstallScrollScribeTraceHooks(able, manifest),
            InstallGuildTrainerHook(able, manifest),
            InstallCanEquipHook(able, manifest),
            InstallActivatedSkillVisibilityHook(able, manifest),
            InstallMemorizeSendTrace(able, manifest),
            InstallInvSlotMgrMoveItemTrace(able, manifest),
            InstallDisplay(able, manifest),
            InstallPetInfoWindowTraceForMultiPet(able, petWindow)})

\* CanEquip's installer points HasSkill's pointer at the client's entry and
\* leaves it there when it undoes its patches.
HasSkillResolved(done) ==
    UNION {BeforeHasSkill[i] : i \in DOMAIN BeforeHasSkill}
        \subseteq done.kept \cup done.undone
    /\ Shows(client, {Entry("hasSkill")})

\* Mutant: the visibility hook leaves the pointer CanEquip resolved.
HasSkillUnhooked(done) ==
    IF HasSkillResolved(done) \/ "hasSkill" \in done.kept THEN "entry" ELSE "null"

\* The HasSkill function item checks call: the client's entry, or past the
\* visibility hook on its entry through the trampoline.
HasSkillAfter(done) ==
    IF "hasSkill" \in done.kept THEN "trampoline"
    ELSE IF HasSkillResolved(done) THEN "entry"
    ELSE "null"

\* hooks::Initialize.  Without a receive hook that is allowed, nothing else is
\* tried and the packet observer is turned off.  A seam that cannot be restored
\* stays patched when an installer undoes it.
Initialize(manifest, petWindow) ==
    LET able == Seams \ client.unable
        packetHooks == "packetHooks" \in manifest.allowed
        done == Installed(able, manifest, petWindow)
    IN IF packetHooks /\ "receive" \notin able
       THEN /\ observer' = "hookFailure"
            /\ UNCHANGED <<installed, original, hasSkill, initialized, started>>
       ELSE /\ observer' = IF packetHooks THEN "on" ELSE "disabled"
            /\ installed' = done.kept \cup (done.undone \cap client.stuck)
            /\ original' = done.kept
            /\ hasSkill' = HasSkillAfter(done)
            /\ initialized' = TRUE
            /\ started' = TRUE

\* InitializeOnce, which runs once; proxied: the real dinput8.dll resolves.
InitializeOnce ==
    /\ stage = "start"
    /\ stage' = "running"
    /\ \E proxied, petWindow \in BOOLEAN :
         LET manifest == PublishCapabilitiesWithDiscovery(
                 IF proxied THEN BuildCapabilityManifest(client)
                 ELSE BuildDisabledCapabilityManifest, client)
         IN IF "hooks" \in manifest.allowed
            THEN Initialize(manifest, petWindow)
            ELSE /\ observer' = IF proxied THEN "disabled" ELSE "unavailable"
                 /\ UNCHANGED <<installed, original, hasSkill, initialized, started>>
    /\ UNCHANGED <<client, session>>

------------------------------------------------------------------------------
(* Removal *)

\* RemoveInlineDetour, RemoveCallsitePatch, RemoveBytePatch of these seams: those
\* that cannot be restored stay.
TakeOut(seams) == installed' = installed \ (seams \ client.stuck)

Out(seams) == installed \cap seams \cap client.stuck = {}

\* The pointers of these features, each cleared when all of its places are out.
ClearEach(features) ==
    original' = original \ UNION {f \in features : Out(f)}

Own(seams) == {{s} : s \in seams}

\* The next step of Shutdown after group g returned ok; without ok Shutdown is
\* deferred: it returns to the proxy.
Proceed(g, ok) ==
    LET i == CHOOSE i \in DOMAIN Chain : Chain[i] = g IN
    stage' = IF ~ok \/ i = Len(Chain) THEN "observer" ELSE Chain[i + 1]

\* A group whose places are all tried, and must all come out.
RemoveAll(g, seams, features) ==
    /\ stage = g
    /\ TakeOut(seams)
    /\ ClearEach(features)
    /\ Proceed(g, Out(seams))

Rest == <<client, hasSkill, session, initialized, started, observer>>

\* One detour.
RemoveOne(g, seam) == RemoveAll(g, {seam}, {{seam}}) /\ UNCHANGED Rest

\* The order of the pet window's removals, which end at the first that fails.
PetOrder == <<"childB", "childA", "petCtor", "petPost", "petChildren", "petNotify",
              "sidlChildren", "sidlChild", "sidlTemplate">>

RemovePetInfoWindowTraceForMultiPet ==
    LET fails == {i \in DOMAIN PetOrder : ~Out({PetOrder[i]})}
        reached == {PetOrder[i] : i \in {i \in DOMAIN PetOrder : \A j \in fails : i < j}}
    IN /\ stage = "pet"
       /\ TakeOut(reached)
       /\ original' = original \ (reached \ IF Children \subseteq reached THEN {}
                                            ELSE Children)
       /\ Proceed("pet", fails = {})
       /\ UNCHANGED Rest

\* Mutant: the pointer is cleared before the detour is removed.
RemoveReceiveDispatchHookEarly ==
    /\ stage = "receive"
    /\ TakeOut({"receive"})
    /\ original' = original \ {"receive"}
    /\ Proceed("receive", Out({"receive"}))
    /\ UNCHANGED Rest

RemoveReceiveDispatchHook == RemoveOne("receive", "receive")

RemoveAAXpLowLevelUiPatch == RemoveAll("aaXp", AAXp, Own(AAXp)) /\ UNCHANGED Rest

\* Clears every pointer, also of GetLabelFromEQ, which "label" removes.
RemoveWhoClassNameDisplayHook ==
    /\ stage = "who"
    /\ TakeOut(Who)
    /\ original' = original \ (Who \cup {"label"})
    /\ Proceed("who", Out(Who))
    /\ UNCHANGED Rest

RemoveCharacterListUpdateListHook == RemoveOne("list", "list")

\* Clears every pointer.
RemoveProgressionSelectionClassDisplayHook ==
    /\ stage = "progression"
    /\ TakeOut(Progression)
    /\ original' = original \ Progression
    /\ Proceed("progression", Out(Progression))
    /\ UNCHANGED Rest

RemoveInventoryClassTitleDisplayHook == RemoveOne("label", "label")

RemoveSpellUiShowTrace == RemoveOne("show", "show")

RemoveSpellUiShowWrapperTrace ==
    RemoveAll("wrappers", Wrappers, Own(Wrappers)) /\ UNCHANGED Rest

RemoveSpellUiDerivedWindowTrace ==
    RemoveAll("derived", Derived, Own(Derived)) /\ UNCHANGED Rest

RemoveSpellUiAboutToShowGateTrace ==
    RemoveAll("aboutToShow", AboutToShow, {AboutToShow}) /\ UNCHANGED Rest

\* The rest of the mana seams share pointers, which are cleared last.
ManaFeatures == Own({"eqType", "gauge", "maxMana", "manaRegen"})

\* Mutant: the result of the mana seams is lost.
RemoveGetSpellLevelNeededForgets ==
    /\ stage = "level"
    /\ TakeOut({"level"} \cup Mana)
    /\ ClearEach(ManaFeatures \cup {Mana, {"level"}})
    /\ Proceed("level", Out({"level"}))
    /\ UNCHANGED Rest

RemoveGetSpellLevelNeededTrace ==
    RemoveAll("level", {"level"} \cup Mana, ManaFeatures \cup {Mana, {"level"}})
    /\ UNCHANGED Rest

\* Succeeds only when HasSkill was not hooked: after a removal of its detour the
\* function falls through to its "return false".
RemoveActivatedSkillVisibilityHook ==
    /\ stage = "skill"
    /\ TakeOut(Skills)
    /\ ClearEach(Own({"hasSkill", "adjustedSkill", "useSkill", "backstab", "hideSneak",
                      "skillValue"})
                 \cup {Rows, CombatWindow, Producers, PostShow})
    /\ Proceed("skill", "hasSkill" \notin installed)
    /\ hasSkill' = IF ~Out({"hasSkill"}) THEN hasSkill
                   ELSE IF "canEquip" \notin original THEN "null"
                   ELSE IF "hasSkill" \in installed THEN "entry" ELSE hasSkill
    /\ UNCHANGED <<client, session, initialized, started, observer>>

\* The other item seams' results are ignored and their pointers cleared.
RemoveCanEquipHook ==
    /\ stage = "canEquip"
    /\ TakeOut(Items)
    /\ original' = original \ ((Items \ {"canEquip"})
                               \cup (IF Out({"canEquip"}) THEN {"canEquip"} ELSE {}))
    /\ Proceed("canEquip", Out({"canEquip"}))
    /\ hasSkill' = "null"
    /\ UNCHANGED <<client, session, initialized, started, observer>>

RemoveInvSlotMgrMoveItemTrace == RemoveOne("moveItem", "moveItem")

RemoveScrollScribeTraceHooks == RemoveOne("classUsable", "classUsable")

\* Removing the gate restores the trainer session's originals.
RemoveGuildTrainerHook ==
    /\ RemoveAll("trainer", {"trainer"}, {{"trainer"}})
    /\ session' = (session /\ ~Out({"trainer"}))
    /\ UNCHANGED <<client, hasSkill, initialized, started, observer>>

RemoveStartSpellScribePrecheckTrace(seam) == RemoveOne(seam, seam)

\* The end of the chain: Shutdown has not been deferred.
RemoveMemorizeSendTrace ==
    /\ RemoveAll("send", {"send"}, {{"send"}})
    /\ initialized' = ~Out({"send"})
    /\ UNCHANGED <<client, hasSkill, session, started, observer>>

------------------------------------------------------------------------------
(* The proxy *)

\* DLL_PROCESS_DETACH of an unload: proxy::Shutdown, which calls hooks::Shutdown
\* once if the hooks were started.
Shutdown ==
    /\ stage = "running"
    /\ stage' = IF started /\ initialized THEN Chain[1] ELSE "observer"
    /\ UNCHANGED <<client, installed, original, hasSkill, session, initialized,
                   started, observer>>

\* The rest of proxy::Shutdown, whatever hooks::Shutdown did.
ShutdownObserver ==
    /\ stage = "observer"
    /\ stage' = "down"
    /\ started' = FALSE
    /\ observer' = "shutdown"
    /\ UNCHANGED <<client, installed, original, hasSkill, session, initialized>>

\* The send wrapper sees a train window open or close for a trainer that the
\* gate let through.
TrainerSession ==
    /\ stage = "running"
    /\ {"trainer", "send"} \subseteq installed
    /\ session' = ~session
    /\ UNCHANGED <<client, stage, installed, original, hasSkill, initialized,
                   started, observer>>

------------------------------------------------------------------------------
Init ==
    /\ client \in Clients
    /\ stage = "start"
    /\ installed = {}
    /\ original = {}
    /\ hasSkill = "null"
    /\ session = FALSE
    /\ initialized = FALSE
    /\ started = FALSE
    /\ observer = "unavailable"

Removal ==
    \/ RemovePetInfoWindowTraceForMultiPet
    \/ RemoveReceiveDispatchHook
    \/ RemoveAAXpLowLevelUiPatch
    \/ RemoveWhoClassNameDisplayHook
    \/ RemoveCharacterListUpdateListHook
    \/ RemoveProgressionSelectionClassDisplayHook
    \/ RemoveInventoryClassTitleDisplayHook
    \/ RemoveSpellUiShowTrace
    \/ RemoveSpellUiShowWrapperTrace
    \/ RemoveSpellUiDerivedWindowTrace
    \/ RemoveSpellUiAboutToShowGateTrace
    \/ RemoveGetSpellLevelNeededTrace
    \/ RemoveActivatedSkillVisibilityHook
    \/ RemoveCanEquipHook
    \/ RemoveInvSlotMgrMoveItemTrace
    \/ RemoveScrollScribeTraceHooks
    \/ RemoveGuildTrainerHook
    \/ \E seam \in Prechecks : RemoveStartSpellScribePrecheckTrace(seam)
    \/ RemoveMemorizeSendTrace

Next ==
    \/ InitializeOnce
    \/ TrainerSession
    \/ Shutdown
    \/ Removal
    \/ ShutdownObserver

Spec == Init /\ [][Next]_vars

------------------------------------------------------------------------------
(* Properties *)

\* Every part of the state stays in its range, and while the client runs no
\* seam is patched without the ones it belongs to: the guild trainer gate needs
\* the receive hook, and a feature's extra seams are taken out, or never tried,
\* when the seam that enables the feature cannot be patched.  Seams an installer
\* could not restore are excepted.
TypeOK ==
    /\ stage \in {"start", "running", "observer", "down"} \cup Groups
    /\ installed \subseteq Seams
    /\ original \subseteq Seams
    /\ hasSkill \in {"null", "entry", "trampoline"}
    /\ observer \in {"unavailable", "on", "disabled", "hookFailure", "shutdown"}
    /\ {session, initialized, started} \subseteq BOOLEAN
    /\ stage = "running" =>
         /\ "trainer" \in installed => "receive" \in installed
         /\ installed \cap Mana # {} => "level" \in installed
         /\ installed \cap Skills # {} => "hasSkill" \in installed
         /\ installed \cap Items \subseteq client.stuck \/ "canEquip" \in original

\* A hooks::Shutdown that ran to its end, so that g_initialized is false, leaves
\* no patch in the client that jumps into the DLL, and no class overridden.
\* Only the item seams whose result RemoveCanEquipHook ignores may stay.
CompleteShutdownIsClean ==
    stage \in {"observer", "down"} /\ ~initialized =>
        /\ installed \subseteq (Items \ {"canEquip"}) \cap client.stuck
        /\ ~session

\* "The hook always calls through to the original dispatcher" (README.md:66):
\* while a seam is patched the pointer its hook calls through is set, and so is
\* the packet observer the receive hook feeds.  The label is excepted, whose
\* pointer the removal before its own clears; so are seams that could not be
\* restored, but not those whose removers wait for the patch to be out.
CallsThrough ==
    /\ installed \ original \subseteq client.stuck \cup {"label"}
    /\ installed \cap {"receive", "level", "send", "trainer", "hasSkill"} \subseteq original
    /\ "receive" \in installed => observer = "on" \/ client.stuck # {}

\* The HasSkill the item checks call past the hook is never a trampoline that
\* was freed, and never the hooked entry, which would come back to the DLL.
HasSkillPointerLive ==
    /\ hasSkill = "trampoline" => "hasSkill" \in installed
    /\ hasSkill = "entry" => "hasSkill" \notin installed

\* The seams discovery recognises before they are patched.
Recognised == {"level", "classUsable", "canEquip", "moveItem", "send", "whoClassName",
               "classDesc", "threeLetter", "charSelect"} \cup Prechecks

\* "Hook capability is fail-closed and computed in the runtime capability
\* manifest before any hook install point" (README.md:48): no client is patched
\* without its name and both version markers, no recognised function without
\* its evidence, none of the spell book's or the items' without the SHA-256, and
\* the receive dispatcher only where the calls to it were found.
FailClosed ==
    /\ installed # {} => client.name /\ "both" \in {client.version, client.scan}
    /\ \A f \in installed \cap Recognised :
         Shows(client, {Found(f), Executable(f), Entry(f)})
    /\ installed \cap (Items \cup Prechecks \cup {"classUsable", "moveItem", "send"}) # {}
         => client.sha
    /\ installed \cap Items # {} => Shows(client, {Entry("canEquip"), Entry("classUsable")})
    /\ "receive" \in installed =>
         Shows(client, {Call("feederA", "dispatcher"), Call("feederB", "dispatcher")})

\* README.md:61: the train window class override "restores the original values
\* on OP_GMEndTraining or hook shutdown".  Violated without any failure: the
\* removal of an installed HasSkill hook returns false, and the chain never
\* reaches RemoveGuildTrainerHook, which restores.
ShutdownRestoresSession == stage = "down" /\ client.stuck = {} => ~session
==============================================================================
