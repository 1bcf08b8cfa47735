---------------------------- MODULE PacketObserver ----------------------------
(***************************************************************************)
(* What the client's packets teach the DLL (packet_observer.cpp) and the   *)
(* display and skill hooks that read it back: the authoritative stats, the *)
(* identities of other players, the rows of the last /who response and the *)
(* timed cast.  ReceiveDispatchHook runs the observer first and then the   *)
(* client's own handler on one thread, so a handler is one step, except    *)
(* that the client's /who handler looks up one class label per row.        *)
(* Left out: the budgets and correlation windows, which only choose what   *)
(* is logged, and the pet roster (PetRoster) and the retries (AuthUpdate)  *)
(* that the same handler also feeds.                                       *)
(***************************************************************************)
EXTENDS AuthStats, RemoteIdentity, Integers, FiniteSetsExt

CONSTANTS
    NoServer,           \* the client's server name cannot be read
    StatsPayloads,      \* the payloads that have the shape of ServerAuthStats
    RemotePayloads,     \* the payloads of OP_RemoteMulticlassIdentity
    WhoResponses,       \* the payloads of OP_WhoAllResponse
    Spells,             \* spell ids
    NoSpell,
    CastTimes,          \* cast times of BeginCast packets, in ticks
    BeginWindow,        \* kTimedCastBeginWindowMs, in ticks
    CastGrace           \* kTimedCastGraceMs, in ticks

ASSUME PacketObserverAssumption ==
    /\ CastTimes \subseteq Nat
    /\ BeginWindow \in Nat
    /\ CastGrace \in Nat
    /\ \A payload \in StatsPayloads :
          /\ Len(payload.entries) \in Nat
          /\ DOMAIN payload.entries = 1 .. Len(payload.entries)
          /\ \A i \in DOMAIN payload.entries : IsStatEntry(payload.entries[i])
          /\ payload.exactLength \in BOOLEAN
    /\ \A payload \in RemotePayloads :
          /\ payload.entries \in Seq([name : Names, class : ClassBits \cup {NoClass}, mask : Masks])
          /\ payload.truncated \in BOOLEAN
    /\ \A response \in WhoResponses :
          /\ response.rows \in Seq([name : Names, class : ClassBits \cup {NoClass}])
          /\ response.oversize \in BOOLEAN

VARIABLES
    state,      \* g_state
    stats,      \* the stored stats: server_auth_stats_observer's globals
    notified,   \* the mask hooks::NotifyServerAuthStatsUpdated last ran for
    server,     \* the server name the client's globals hold
    identities, \* g_remote_identity_entries
    entries,    \* g_who_all_class_display_entries, up to their count
    cursor,     \* g_who_all_class_display_entry_cursor
    who,        \* the response the client is drawing, and the labels drawn
    begin,      \* ticks left of g_local_cast_begin_pending_until_ms
    cast,       \* g_timed_cast_spell_id and ticks left of ..._active_until_ms
    lastStats,  \* history: the last ServerAuthStats payload in order
    told,       \* history: what the server last told of each player
    sent        \* history: ticks since a CastSpell no cast has claimed

observed == <<stats, notified>>
remote == <<identities, told>>
rows == <<entries, cursor, who>>
casting == <<begin, cast, sent>>

vars == <<state, stats, notified, server, identities, entries, cursor, who,
          begin, cast, lastStats, told, sent>>

Off == -1                                       \* a deadline of 0
NoCast == [spell |-> NoSpell, left |-> Off]
NoResponse == [rows |-> <<>>, oversize |-> FALSE, labels |-> <<>>]
NativeLabel == {}                               \* the client's own class name

Initialized == state = "initialized"

\* The client draws a response to its end before it handles another packet.
Drawing == Len(who.labels) < Len(who.rows)

Idle == ~Drawing

------------------------------------------------------------------------------
(* Starting and stopping the observer                                         *)

\* Initialize: its counters, rows and identities are at their initial values
\* still, since the proxy calls it once.
Initialize(allowed) ==
    /\ state = "unavailable"
    /\ state' = IF allowed THEN "initialized" ELSE "disabled_by_capability"
    /\ UNCHANGED <<observed, server, remote, rows, casting, lastStats>>

DisableBecauseHookUnavailable ==
    /\ Idle
    /\ Initialized
    /\ state' = "disabled_by_hook_failure"
    /\ UNCHANGED <<observed, server, remote, rows, casting, lastStats>>

\* The stats and the timed cast stay.
Shutdown ==
    /\ Idle
    /\ state \notin {"unavailable", "shutdown"}
    /\ state' = "shutdown"
    /\ entries' = <<>>
    /\ cursor' = 0
    /\ identities' = EmptyStore
    /\ told' = EmptyStore
    /\ UNCHANGED <<observed, server, who, casting, lastStats>>

------------------------------------------------------------------------------
(* ObserveReceiveMetadata, by opcode                                          *)

\* Stores a well-formed payload and tells the hooks, also of a mask that an
\* earlier packet brought.
ObserveReceivePayload(payload) ==
    /\ stats' = Stored(stats, ParsePayload(payload))
    /\ notified' = IF stats'["classes"] # Absent THEN stats'["classes"] ELSE notified
    /\ lastStats' = IF payload.exactLength THEN payload ELSE lastStats

ReceiveServerAuthStats(payload) ==
    /\ Idle
    /\ Initialized
    /\ ObserveReceivePayload(payload)
    /\ UNCHANGED <<state, server, remote, rows, casting>>

\* The same payload under an opcode of 0.
ReceiveServerAuthStatsCandidate(payload) ==
    /\ Idle
    /\ Initialized
    /\ IsStrictServerAuthStatsFallbackCandidate(ParsePayload(payload))
    /\ ObserveReceivePayload(payload)
    /\ UNCHANGED <<state, server, remote, rows, casting>>

\* A payload is stored for the server whose name can be read now.  (The
\* identities above the safety ceiling are ignored like truncated ones.)
ReceiveRemoteMulticlassIdentity(payload) ==
    /\ Idle
    /\ Initialized
    /\ server # NoServer
    /\ identities' = StoreEntries(identities, server, payload)
    /\ told' =
         IF payload.truncated
         THEN told
         ELSE [key \in StoreKeys |->
                LET about == {i \in DOMAIN payload.entries :
                                /\ <<server, NormalName[payload.entries[i].name]>> = key
                                /\ IsAcceptableRemoteIdentityEntry(payload.entries[i])}
                IN  IF about = {}
                    THEN told[key]
                    ELSE LET last == payload.entries[Max(about)]
                         IN  [class |-> last.class, mask |-> last.mask]]
    /\ UNCHANGED <<state, observed, server, rows, casting, lastStats>>

\* A new character or zone: what was learned of others is dropped, and the
\* timed cast; the local cast that waits for its BeginCast is not.
ReceiveEnterWorld ==
    /\ Idle
    /\ Initialized
    /\ identities' = EmptyStore
    /\ told' = EmptyStore
    /\ cast' = NoCast
    /\ UNCHANGED <<state, observed, server, rows, begin, lastStats, sent>>

------------------------------------------------------------------------------
(* The rows of /who                                                           *)

\* The capture starts over without its cursor.
LeaveCursor(response) ==
    IF response.oversize
    THEN UNCHANGED <<entries, cursor>>
    ELSE entries' = response.rows /\ UNCHANGED cursor

\* Every row becomes an entry, whatever its class.  256 entries do not fit the
\* 4096 bytes above which a response is ignored and the entries of the last
\* one stay.  (A response that is cut short is one with fewer rows.)
MaybeLogWhoAllResponse(response) ==
    IF response.oversize
    THEN UNCHANGED <<entries, cursor>>
    ELSE /\ entries' = response.rows
         /\ cursor' = 0

\* The observer, and then the client's handler, which starts to draw.
ReceiveWhoAllResponse(response) ==
    /\ Idle
    /\ Initialized
    /\ MaybeLogWhoAllResponse(response)
    /\ who' = [rows |-> response.rows, oversize |-> response.oversize, labels |-> <<>>]
    /\ UNCHANGED <<state, observed, server, remote, casting, lastStats>>

\* The next entry with a name: TryConsumeWhoAllClassDisplayEntry leaves the
\* cursor behind it, or at the end.
NextEntry ==
    LET named == {i \in cursor + 1 .. Len(entries) : entries[i].name # EmptyName}
    IN  IF named = {} THEN Len(entries) + 1 ELSE Min(named)

\* The class label of an entry, if the server told of the player.
TryBuildRemoteCharacterClassDisplayAscii(entry) ==
    IF IsPlayableClassId(entry.class) /\ server # NoServer
    THEN TryLookupCharacterClassMask(identities, server, entry.name, entry.class)
    ELSE NativeLabel

Drawn(label) == who' = [who EXCEPT !.labels = Append(@, label)]

\* The client looks up a class name for a row that has a class.
WhoClassNameClassLookup ==
    /\ Drawing
    /\ LET row == who.rows[Len(who.labels) + 1] IN
       /\ IsPlayableClassId(row.class)
       /\ cursor' = IF NextEntry > Len(entries) THEN Len(entries) ELSE NextEntry
       /\ Drawn(IF NextEntry > Len(entries)
                THEN NativeLabel
                ELSE TryBuildRemoteCharacterClassDisplayAscii(entries[NextEntry]))
    /\ UNCHANGED <<state, observed, server, remote, entries, casting, lastStats>>

\* A row without one (an anonymous player) is drawn without a lookup.
DrawRowWithoutClass ==
    /\ Drawing
    /\ ~IsPlayableClassId(who.rows[Len(who.labels) + 1].class)
    /\ Drawn(NativeLabel)
    /\ UNCHANGED <<state, observed, server, remote, entries, cursor, casting, lastStats>>

------------------------------------------------------------------------------
(* Timed casts                                                                *)

\* ObserveSendMetadata, for a CastSpell the client has sent.
SendCastSpell ==
    /\ Idle
    /\ Initialized
    /\ begin' = BeginWindow
    /\ sent' = 0
    /\ UNCHANGED <<state, observed, server, remote, rows, cast, lastStats>>

KeepLocalBeginCastWindow == UNCHANGED begin

\* A window that has run out is cleared like one that is used.
ConsumeLocalBeginCastWindow == begin' = Off

\* The caster's id in the packet is not read: within the window any caster's
\* BeginCast is taken for the local one.
ReceiveBeginCast(spell, time) ==
    /\ Idle
    /\ Initialized
    /\ IF time = 0
       THEN cast' = NoCast /\ UNCHANGED begin
       ELSE /\ ConsumeLocalBeginCastWindow
            /\ cast' = IF begin = Off
                       THEN NoCast
                       ELSE [spell |-> spell, left |-> time + CastGrace]
    /\ sent' = IF cast' = NoCast THEN sent ELSE Off
    /\ UNCHANGED <<state, observed, server, remote, rows, lastStats>>

ReceiveInterruptCast ==
    /\ Idle
    /\ Initialized
    /\ cast' = NoCast
    /\ UNCHANGED <<state, observed, server, remote, rows, begin, lastStats, sent>>

\* The skill check that lets a melee skill through during a timed cast
\* (CharacterZoneClientGetAdjustedSkillHook) reads this.
IsTimedCastActive == cast # NoCast

\* A deadline is met while now <= until; the code clears one it finds passed,
\* which no one can tell from one that has passed.
OneTickLess(left) == IF left = Off THEN Off ELSE left - 1

Tick ==
    /\ Idle
    /\ \/ begin # Off
       \/ cast # NoCast
       \/ sent \in 0 .. BeginWindow
    /\ begin' = OneTickLess(begin)
    /\ cast' = LET left == OneTickLess(cast.left)
               IN  IF left = Off THEN NoCast ELSE [cast EXCEPT !.left = left]
    /\ sent' = IF sent \in 0 .. BeginWindow THEN sent + 1 ELSE sent
    /\ UNCHANGED <<state, observed, server, remote, rows, lastStats>>

------------------------------------------------------------------------------
\* The client's server name comes and goes with its connection.
SelectServer(name) ==
    /\ Idle
    /\ server' = name
    /\ UNCHANGED <<state, observed, remote, rows, casting, lastStats>>

Init ==
    /\ state = "unavailable"
    /\ stats = NoStats
    /\ notified = Absent
    /\ server = NoServer
    /\ identities = EmptyStore
    /\ entries = <<>>
    /\ cursor = 0
    /\ who = NoResponse
    /\ begin = Off
    /\ cast = NoCast
    /\ lastStats = [entries |-> <<>>, exactLength |-> TRUE]
    /\ told = EmptyStore
    /\ sent = Off

Lifecycle ==
    \/ \E allowed \in BOOLEAN : Initialize(allowed)
    \/ DisableBecauseHookUnavailable
    \/ Shutdown

Receive ==
    \/ \E payload \in StatsPayloads : ReceiveServerAuthStats(payload)
    \/ \E payload \in StatsPayloads : ReceiveServerAuthStatsCandidate(payload)
    \/ \E payload \in RemotePayloads : ReceiveRemoteMulticlassIdentity(payload)
    \/ ReceiveEnterWorld
    \/ \E response \in WhoResponses : ReceiveWhoAllResponse(response)
    \/ \E spell \in Spells, time \in CastTimes : ReceiveBeginCast(spell, time)
    \/ ReceiveInterruptCast

Client ==
    \/ WhoClassNameClassLookup
    \/ DrawRowWithoutClass
    \/ SendCastSpell
    \/ Tick
    \/ \E name \in Servers \cup {NoServer} : SelectServer(name)

Next == Lifecycle \/ Receive \/ Client

Spec == Init /\ [][Next]_vars

------------------------------------------------------------------------------
(* Properties *)

TypeOK ==
    /\ state \in {"unavailable", "initialized", "disabled_by_capability",
                  "disabled_by_hook_failure", "shutdown"}
    /\ DOMAIN stats = StatKeys
    /\ stats["classes"] \in Masks \cup {Absent}
    /\ stats["skillsLow"] \in {Absent} \cup SUBSET LowSkills
    /\ stats["skillsHigh"] \in {Absent} \cup SUBSET HighSkills
    /\ server \in Servers \cup {NoServer}
    /\ identities \in [StoreKeys -> Identities \cup {NoIdentity}]
    /\ cursor \in 0 .. Len(entries)
    /\ Len(who.labels) <= Len(who.rows)
    /\ begin \in Off .. BeginWindow
    /\ cast = NoCast \/ (cast.spell \in Spells /\ cast.left >= 0)

\* The value the server last gave for a key in one payload, by its last entry
\* that fits.
LastValue(payload, key) ==
    LET fitting == {i \in DOMAIN payload.entries :
                      /\ payload.entries[i].key = key
                      /\ payload.entries[i].value # WideValue}
    IN  IF fitting = {} THEN Absent ELSE payload.entries[Max(fitting)].value

\* What the readers of the stats see is the last well-formed payload and
\* nothing older, except for a class mask that a payload may leave out; every
\* mask was announced to the hooks.  A skill is shown to a character only when
\* that same payload grants it and has both skill masks, so what an earlier
\* payload granted cannot outlive it (server_auth_stats_observer.cpp,
\* HasAuthoritativeActivatedSkill).
StatsAreLastPayload ==
    /\ \A key \in StatKeys :
          \/ stats[key] = LastValue(lastStats, key)
          \/ key = "classes" /\ LastValue(lastStats, key) = Absent
    /\ notified = stats["classes"]
    /\ \A skill \in LowSkills \cup HighSkills :
          HasAuthoritativeActivatedSkill(stats, skill) =>
            /\ \A key \in {"skillsLow", "skillsHigh"} : LastValue(lastStats, key) # Absent
            /\ \E key \in {"skillsLow", "skillsHigh"} : skill \in LastValue(lastStats, key)

\* What the server last told of a player.
ToldOf(name) == IF server = NoServer THEN NoIdentity ELSE told[<<server, NormalName[name]>>]

\* The response was captured, and every row of it takes an entry and a label.
InStep ==
    /\ ~who.oversize
    /\ \A i \in DOMAIN who.rows :
         /\ IsPlayableClassId(who.rows[i].class)
         /\ who.rows[i].name # EmptyName

NextRowAsTold ==
    LET done == Len(who.labels)
        row  == who.rows[done + 1]
        fact == ToldOf(row.name)
    IN  who'.rows = who.rows /\ Len(who'.labels) = done + 1 =>
          who'.labels[done + 1] = IF fact # NoIdentity /\ fact.class = row.class
                                  THEN fact.mask
                                  ELSE NativeLabel

\* While every row of a response has a name and a class, so that it takes an
\* entry and a label, and the response was captured,
\* each row is drawn with what the server last told of its own player, if that
\* is of the row's class, and with the native class otherwise: entries and
\* lookups stay in step through every order of the packets before the response
\* (docs/multiclass-negative-results.md:75, "the matched `/who` row subject").
LabelsMatchRows == [][InStep => NextRowAsTold]_vars

\* A timed cast starts only from a BeginCast within the window after a CastSpell
\* the client sent, and no two from the same one, whatever interrupts, zone
\* changes and instant casts come between.
TimedCastClaimsOwnSend ==
    [][\A spell \in Spells, time \in CastTimes :
         ReceiveBeginCast(spell, time) /\ cast' # NoCast => sent \in 0 .. BeginWindow]_vars
==============================================================================
