------------------------------ MODULE ClientImage ------------------------------
(***************************************************************************)
(* What the DLL finds out about the client before it patches anything:     *)
(* the fingerprint of the program (src/src/fingerprint.cpp), and the       *)
(* functions recognised in its memory (receive_dispatch_discovery.cpp,     *)
(* spell_usability_discovery.cpp, class_display_discovery.cpp).  A client  *)
(* is described by how it differs from the one the DLL was written for:    *)
(*   name     the process has the expected name                            *)
(*   version  the version strings hold "both" markers, "other" ones, or    *)
(*            cannot be read ("none")                                      *)
(*   scan     the same of a scan of the file's bytes                       *)
(*   sha      the file has the checked-in SHA-256                          *)
(*   pe       the headers of the loaded image can be read                  *)
(*   off      the evidence that is missing from the image in memory        *)
(***************************************************************************)
EXTENDS Naturals

\* Evidence: the place of function f lies in the image, is executable and holds
\* the expected bytes; the call f makes goes to g.
Found(f) == <<f, "found">>
Executable(f) == <<f, "executable">>
Entry(f) == <<f, "entry">>
Call(f, g) == <<f, g>>

Shows(client, evidence) == evidence \cap client.off = {}

------------------------------------------------------------------------------
(* fingerprint.cpp *)

ReadVersionStrings(client) == client.version # "none"

ScanFileForKnownRof2Markers(client) == client.scan # "none"

FindKnownRof2Markers(client) == client.scan = "both"

\* Mutant: the version strings only have to be readable.
EvaluateReadable(client) ==
    /\ client.name
    /\ \/ ReadVersionStrings(client)
       \/ ScanFileForKnownRof2Markers(client) /\ FindKnownRof2Markers(client)

\* fingerprint::Evaluate: hooks_allowed, which is also matched.
Evaluate(client) ==
    /\ client.name
    /\ \/ ReadVersionStrings(client) /\ client.version = "both"
       \/ ScanFileForKnownRof2Markers(client) /\ FindKnownRof2Markers(client)

------------------------------------------------------------------------------
(* receive_dispatch_discovery.cpp *)

\* The parts of an executable range that may be recognised in it.
AnalyzeLocalCodeEvidence(client, at) ==
    {part \in {"compares", "branches", "call", "stack"} : Shows(client, {<<at, part>>})}

HasDispatchLikeLocalShape(client, at) ==
    /\ Shows(client, {Executable(at)})
    /\ {"compares", "branches"} \subseteq AnalyzeLocalCodeEvidence(client, at)

\* The unknown-message string itself is advisory.
EvaluateUnknownMessagePathEvidence(client) ==
    /\ Shows(client, {Executable("unknownPath")})
    /\ AnalyzeLocalCodeEvidence(client, "unknownPath")
         = {"compares", "branches", "call", "stack"}

ValidateDirectCall(client, feeder) == Shows(client, {Call(feeder, "dispatcher")})

HasRet10Epilogue(client) == Shows(client, {<<"epilogue", "ret10">>})

ValidateCandidate(client) ==
    /\ client.pe
    /\ Shows(client, {Found("dispatcher")})
    /\ HasDispatchLikeLocalShape(client, "dispatcher")
    /\ HasDispatchLikeLocalShape(client, "compareTree")
    /\ EvaluateUnknownMessagePathEvidence(client)
    /\ ValidateDirectCall(client, "feederA")
    /\ ValidateDirectCall(client, "feederB")
    /\ HasRet10Epilogue(client)

RunReceiveDispatchDiscovery(client, allowed) == allowed /\ ValidateCandidate(client)

------------------------------------------------------------------------------
(* spell_usability_discovery.cpp *)

\* EvaluateDecision, for the evidence sources Run passes to it.
EvaluateDecision(client, f, shape) ==
    Shows(client, {Found(f), Executable(f), Entry(f)} \cup shape)

\* Most targets are pinned by the SHA-256 of the file and by their bytes, those
\* of the spell book also by the calls between them.
EvaluateCleanroomFingerprint(client) == client.sha

DiscoverPinnedCleanroomTarget(client, f) ==
    /\ EvaluateCleanroomFingerprint(client)
    /\ Shows(client, {Found(f), Executable(f), Entry(f)})

DiscoverFingerprinted(client, f, calls) ==
    EvaluateCleanroomFingerprint(client) /\ EvaluateDecision(client, f, calls)

DiscoverHandleRButtonUp(client) == DiscoverPinnedCleanroomTarget(client, "rButtonUp")

DiscoverIsClassUsablePredicate(client) ==
    DiscoverPinnedCleanroomTarget(client, "classUsable")

DiscoverCanEquip(client) == DiscoverPinnedCleanroomTarget(client, "canEquip")

\* These two without the SHA-256.
DiscoverGetSpellLevelNeeded(client) == EvaluateDecision(client, "level", {})

DiscoverCanStartMemming(client) ==
    EvaluateDecision(client, "memming", {Call("memming", "level")})

DiscoverSpellbookDispatcher(client) ==
    DiscoverFingerprinted(client, "spellbook",
        {Call("spellbook", "scribe"), Call("spellbook", "memming")})

DiscoverStartSpellScribePath(client) ==
    DiscoverFingerprinted(client, "scribe",
        {Call("spellbook", "scribe"), Call("scribe", "level")})

DiscoverStartSpellScribePrecheckModeGetter(client) ==
    DiscoverFingerprinted(client, "modeGetter", {Call("scribe", "modeGetter")})

DiscoverStartSpellScribePrecheckGate(client) ==
    DiscoverFingerprinted(client, "gate", {Call("scribe", "gate")})

DiscoverStartSpellScribePrecheckLookup(client) ==
    DiscoverFingerprinted(client, "lookup", {Call("scribe", "lookup")})

\* Called from the gate.
Nested == {"fastAccept", "classResolver", "maskGetter", "rule4462c0", "rule446190",
           "rule446200", "rule446380"}

DiscoverStartSpellScribeNestedPrecheckTarget(client, f) ==
    DiscoverFingerprinted(client, f, {Call("gate", f)})

DiscoverStartSpellMemorizationPath(client) ==
    DiscoverFingerprinted(client, "memorize", {Call("spellbook", "memorize")})

DiscoverSpellbookMemorizeSendPath(client) ==
    DiscoverFingerprinted(client, "sendPath", {Call("sendPath", "send")})

DiscoverMemorizeSendPacketWrapper(client) ==
    DiscoverFingerprinted(client, "send", {Call("scribeLike", "send")})

\* MoveItem is an export of the client: its bytes need only look like a prologue.
DiscoverRuntimeExportTarget(client) ==
    Shows(client, {Found("moveItem"), Executable("moveItem"), Entry("moveItem")})

\* The targets validated by spell_usability_discovery::Run.
RunSpellUsabilityDiscovery(client, allowed) ==
    LET result == [
            rButtonUp   |-> DiscoverHandleRButtonUp(client),
            level       |-> DiscoverGetSpellLevelNeeded(client),
            classUsable |-> DiscoverIsClassUsablePredicate(client),
            canEquip    |-> DiscoverCanEquip(client),
            moveItem    |-> DiscoverRuntimeExportTarget(client),
            spellbook   |-> DiscoverSpellbookDispatcher(client),
            scribe      |-> DiscoverStartSpellScribePath(client),
            modeGetter  |-> DiscoverStartSpellScribePrecheckModeGetter(client),
            gate        |-> DiscoverStartSpellScribePrecheckGate(client),
            lookup      |-> DiscoverStartSpellScribePrecheckLookup(client),
            memming     |-> DiscoverCanStartMemming(client),
            sendPath    |-> DiscoverSpellbookMemorizeSendPath(client),
            memorize    |-> DiscoverStartSpellMemorizationPath(client),
            send        |-> DiscoverMemorizeSendPacketWrapper(client)]
    IN IF allowed /\ client.pe
       THEN {f \in DOMAIN result : result[f]}
            \cup {f \in Nested : DiscoverStartSpellScribeNestedPrecheckTarget(client, f)}
       ELSE {}

------------------------------------------------------------------------------
(* class_display_discovery.cpp: not tied to the SHA-256 *)

DiscoverPinnedEntryBytesTarget(client, f) ==
    Shows(client, {Found(f), Executable(f), Entry(f)})

RunClassDisplayDiscovery(client, allowed) ==
    {f \in {"whoClassName", "classDesc", "threeLetter", "charSelect"} :
        allowed /\ client.pe /\ DiscoverPinnedEntryBytesTarget(client, f)}
==============================================================================
