------------------------------ MODULE AuthUpdate ------------------------------
(***************************************************************************)
(* What the client does with the authoritative class mask of a server      *)
(* packet (src/src/hook_manager.cpp, server_auth_stats_observer.cpp):      *)
(* persist it in the multiclass cache, resynchronise the combat abilities, *)
(* open the caster windows, and retry each of these later when the client  *)
(* was not ready.                                                          *)
(*                                                                         *)
(* All handlers run on the client's game thread.  A received packet is     *)
(* three steps, because the client's own code runs between them and can    *)
(* call the class-display hooks: the observer stores the mask and notifies *)
(* (ReceivePacket), the notification resynchronises and arms the retries   *)
(* after the forced character-list refresh (NotifyRetries), and the hook   *)
(* polls the retries after the original dispatcher (AfterDispatch).        *)
(***************************************************************************)
EXTENDS CacheFile

CONSTANTS
    NoName,         \* no local player
    NativeClass,    \* the class each character was created with
    PacketMasks,    \* the class masks the server sends
    MaxAttempts,    \* kMulticlassCasterUiAccessRetryMaxAttempts
    Cooldown        \* kMulticlassCasterUiAccessRetryCooldownMs, in ticks

ASSUME AuthUpdateAssumption ==
    /\ NoName \notin Names
    /\ NativeClass \in [Names -> PlayableClasses]
    /\ PacketMasks \subseteq Masks
    /\ MaxAttempts \in Nat \ {0}
    /\ Cooldown \in Nat \ {0}

VARIABLES
    stage,          \* where the game thread is in ReceiveDispatchHook
    auth,           \* g_classes_bitmask; {} also stands for "none received"
    persist,        \* g_multiclass_cache_persist_pending, _mask
    caster,         \* g_multiclass_caster_ui_access_retry_*
    combat,         \* g_combat_ability_resync_retry_*
    ensured,        \* g_multiclass_caster_ui_access_ensured, _mask, _primary_class
    cache,          \* the cache file
    character,      \* the character in the world, or NoName
    player,         \* the local player's spawn as the hooks read it
    profileClass,   \* the local profile's class as the hooks read it
    server,         \* LastServerName of the client's configuration
    sinceAttempt,   \* ticks since the last polled UI attempt (history)
    gap             \* ticks between the last two of them (history)

world == <<character, player, profileClass, server>>
history == <<sinceAttempt, gap>>
vars  == <<stage, auth, persist, caster, combat, ensured, cache, world, history>>

Retries == [pending : BOOLEAN, mask : Masks,
            attempts : 0 .. MaxAttempts, wait : 0 .. Cooldown]

TypeOK ==
    /\ stage \in {"idle", "refresh", "dispatch", "dispatchZone"}
    /\ auth \in Masks
    /\ persist \in [pending : BOOLEAN, mask : Masks]
    /\ caster \in Retries
    /\ combat \in Retries
    /\ ensured \in [set : BOOLEAN, mask : Masks, class : PlayableClasses \cup {NoClass}]
    /\ cache \in Image
    /\ character \in Names \cup {NoName}
    /\ player \in Names \cup {NoName}
    /\ profileClass \in PlayableClasses \cup {NoClass}
    /\ server \in Servers \cup {NoServer}
    /\ sinceAttempt \in 0 .. Cooldown
    /\ gap \in 0 .. Cooldown

------------------------------------------------------------------------------
(* The retry records.  wait is next_retry_tick_ms - now, 0 once it is due. *)

NoPersist  == [pending |-> FALSE, mask |-> {}]
NotEnsured == [set |-> FALSE, mask |-> {}, class |-> NoClass]
Cleared    == [pending |-> FALSE, mask |-> {}, attempts |-> 0, wait |-> 0]

Armed(mask) == [pending |-> TRUE, mask |-> mask, attempts |-> 0, wait |-> Cooldown]

ShouldArmCaster(mask) ==
    /\ HasAnyAuthoritativeCastingClass(TRUE, mask)
    /\ profileClass # NoClass
    /\ ~IsCastingClassId(profileClass)
    /\ HasAuthoritativeClass(TRUE, mask, profileClass)

ShouldArmCombat(mask) == mask # {} /\ IsPlayableClassMask(mask)

\* TryEnsure...: the same conditions, then whether the client offers a window
\* or a command to open it with.
TryEnsure(mask, uiOk) == ShouldArmCaster(mask) /\ uiOk

Ensured(mask, uiOk, before) ==
    IF TryEnsure(mask, uiOk)
    THEN [set |-> TRUE, mask |-> mask, class |-> profileClass]
    ELSE before

\* A poll finds the retry due and the client ready, and spends an attempt.
Attempts(retry, ready) ==
    /\ retry.pending
    /\ retry.mask # {}
    /\ retry.wait = 0
    /\ retry.attempts < MaxAttempts
    /\ ready

\* Mutants of AfterAttempt: one attempt too many; no cooldown; no count.
AfterAttemptOffByOne(retry, success, eligible) ==
    IF success \/ ~eligible \/ retry.attempts + 1 > MaxAttempts
    THEN Cleared
    ELSE [retry EXCEPT !.attempts = @ + 1, !.wait = Cooldown]

AfterAttemptAtOnce(retry, success, eligible) ==
    IF success \/ ~eligible \/ retry.attempts + 1 >= MaxAttempts
    THEN Cleared
    ELSE [retry EXCEPT !.attempts = @ + 1]

AfterAttemptUncounted(retry, success, eligible) ==
    IF success \/ ~eligible \/ retry.attempts + 1 >= MaxAttempts
    THEN Cleared
    ELSE [retry EXCEPT !.wait = Cooldown]

AfterAttempt(retry, success, eligible) ==
    IF success \/ ~eligible \/ retry.attempts + 1 >= MaxAttempts
    THEN Cleared
    ELSE [retry EXCEPT !.attempts = @ + 1, !.wait = Cooldown]

\* One poll of a retry: what TryRetryPending... leaves of the record.
Polled(retry, ready, success, eligible) ==
    IF ~retry.pending THEN retry
    ELSE IF retry.mask = {} THEN Cleared
    ELSE IF retry.wait > 0 THEN retry
    ELSE IF retry.attempts >= MaxAttempts THEN Cleared
    ELSE IF ~ready THEN [retry EXCEPT !.wait = Cooldown]
    ELSE AfterAttempt(retry, success, eligible)

TryRetryPendingCasterUiAccess(retry, was, uiOk) ==
    LET attempt == Attempts(retry, player # NoName) IN
    /\ caster' = Polled(retry, player # NoName,
                        TryEnsure(retry.mask, uiOk), ShouldArmCaster(retry.mask))
    /\ ensured' = IF attempt THEN Ensured(retry.mask, uiOk, was) ELSE was
    /\ sinceAttempt' = IF attempt THEN 0 ELSE sinceAttempt
    /\ gap' = IF attempt THEN sinceAttempt ELSE gap

\* ready: displayed class and spell manager readable beside the player.
TryRetryPendingCombatResync(ready, resyncOk) ==
    combat' = Polled(combat, player # NoName /\ ready,
                     resyncOk, ShouldArmCombat(combat.mask))

\* io: the spawn's name is readable and the file operations succeed.
TryPersistPendingMulticlassCache(p, io) ==
    IF /\ p.pending
       /\ p.mask # {}
       /\ profileClass # NoClass
       /\ server # NoServer
       /\ player # NoName
       /\ io
    THEN /\ persist' = NoPersist
         /\ cache' \in StoreCharacterClassMask(cache, player, p.mask,
                                               profileClass, server)
    ELSE /\ persist' = [p EXCEPT !.pending = @ /\ p.mask # {}]
         /\ UNCHANGED cache

------------------------------------------------------------------------------
(* The handlers *)

\* ObserveReceiveMetadata of an OP_ServerAuthStats packet and the first half of
\* NotifyServerAuthStatsUpdated.  A packet without a valid classes entry keeps
\* the stored mask and notifies all the same.
ReceiveAuthStats(packet, io) ==
    /\ stage = "idle"
    /\ auth' = packet
    /\ IF auth' = {}
       THEN /\ stage' = "dispatch"
            /\ UNCHANGED <<persist, cache>>
       ELSE /\ stage' = "refresh"
            /\ TryPersistPendingMulticlassCache([pending |-> TRUE, mask |-> auth'], io)
    /\ UNCHANGED <<caster, combat, ensured, world, history>>

\* Mutant: a notification the caster retry is not armed for leaves it as it is.
NotifyKeepsRetry(uiOk, resyncOk) ==
    /\ stage = "refresh"
    /\ stage' = "dispatch"
    /\ combat' = IF ~resyncOk /\ ShouldArmCombat(auth) THEN Armed(auth) ELSE Cleared
    /\ ensured' = Ensured(auth, uiOk, ensured)
    /\ caster' = IF ~TryEnsure(auth, uiOk) /\ ShouldArmCaster(auth)
                 THEN Armed(auth) ELSE caster
    /\ UNCHANGED <<auth, persist, cache, world, history>>

\* The second half of NotifyServerAuthStatsUpdated, after the forced refresh.
NotifyRetries(uiOk, resyncOk) ==
    /\ stage = "refresh"
    /\ stage' = "dispatch"
    /\ combat' = IF ~resyncOk /\ ShouldArmCombat(auth) THEN Armed(auth) ELSE Cleared
    /\ ensured' = Ensured(auth, uiOk, ensured)
    /\ caster' = IF ~TryEnsure(auth, uiOk) /\ ShouldArmCaster(auth)
                 THEN Armed(auth) ELSE Cleared
    /\ UNCHANGED <<auth, persist, cache, world, history>>

\* Any other packet: the observer keeps nothing of it here.
ReceiveOther(next) ==
    /\ stage = "idle"
    /\ stage' = next
    /\ UNCHANGED <<auth, persist, caster, combat, ensured, cache, world, history>>

RearmsForZone == stage = "dispatchZone" /\ auth # {} /\ ShouldArmCaster(auth)

\* What ReceiveDispatchHook does once the original dispatcher returned.
AfterDispatch(uiOk, ready, resyncOk) ==
    /\ stage \in {"dispatch", "dispatchZone"}
    /\ stage' = "idle"
    /\ IF RearmsForZone
       THEN TryRetryPendingCasterUiAccess(Armed(auth), NotEnsured, uiOk)
       ELSE TryRetryPendingCasterUiAccess(caster, ensured, uiOk)
    /\ TryRetryPendingCombatResync(ready, resyncOk)
    /\ UNCHANGED <<auth, persist, cache, world>>

\* A class-display hook: persist, then poll both retries.
DisplaySurface(io, uiOk, ready, resyncOk) ==
    /\ TryPersistPendingMulticlassCache(persist, io)
    /\ TryRetryPendingCasterUiAccess(caster, ensured, uiOk)
    /\ TryRetryPendingCombatResync(ready, resyncOk)
    /\ UNCHANGED <<stage, auth, world>>

\* Mutant: the difference of the two unsigned ticks is taken without the check.
DownUnchecked(n) == n - 1

Down(n) == IF n = 0 THEN 0 ELSE n - 1

\* GetTickCount64 advances by one tick.
Tick ==
    /\ caster.wait > 0 \/ combat.wait > 0 \/ sinceAttempt < Cooldown
    /\ caster' = [caster EXCEPT !.wait = Down(@)]
    /\ combat' = [combat EXCEPT !.wait = Down(@)]
    /\ sinceAttempt' = IF sinceAttempt < Cooldown THEN sinceAttempt + 1 ELSE sinceAttempt
    /\ UNCHANGED <<stage, auth, persist, ensured, cache, world, gap>>

------------------------------------------------------------------------------
(* The client around the hooks: it logs characters in and out, and the two    *)
(* globals the hooks read come and go separately while it zones.              *)

Login(name, on) ==
    /\ character = NoName
    /\ character' = name
    /\ player' = name
    /\ profileClass' = NativeClass[name]
    /\ server' = on
    /\ UNCHANGED <<stage, auth, persist, caster, combat, ensured, cache, history>>

\* Zoning: which of the two globals is readable changes.
Zoning(spawn, profile) ==
    /\ character # NoName
    /\ player' = IF spawn THEN character ELSE NoName
    /\ profileClass' = IF profile THEN NativeClass[character] ELSE NoClass
    /\ UNCHANGED <<stage, auth, persist, caster, combat, ensured, cache,
                   character, server, history>>

Logout ==
    /\ character # NoName
    /\ character' = NoName
    /\ player' = NoName
    /\ profileClass' = NoClass
    /\ UNCHANGED <<stage, auth, persist, caster, combat, ensured, cache, server,
                   history>>

------------------------------------------------------------------------------
Init ==
    /\ stage = "idle"
    /\ auth = {}
    /\ persist = NoPersist
    /\ caster = Cleared
    /\ combat = Cleared
    /\ ensured = NotEnsured
    /\ cache = [format |-> "unreadable", rows |-> NoRows]
    /\ character = NoName
    /\ player = NoName
    /\ profileClass = NoClass
    /\ server = NoServer
    /\ sinceAttempt = Cooldown
    /\ gap = Cooldown

ReceivePacket ==
    \/ \E packet \in PacketMasks \cup {auth}, io \in BOOLEAN : ReceiveAuthStats(packet, io)
    \/ \E next \in {"dispatch", "dispatchZone"} : ReceiveOther(next)

Handlers ==
    \/ \E uiOk, resyncOk \in BOOLEAN : NotifyRetries(uiOk, resyncOk)
    \/ \E uiOk, ready, resyncOk \in BOOLEAN : AfterDispatch(uiOk, ready, resyncOk)
    \/ \E io, uiOk, ready, resyncOk \in BOOLEAN : DisplaySurface(io, uiOk, ready, resyncOk)

Client ==
    \/ \E name \in Names, on \in Servers : Login(name, on)
    \/ \E spawn, profile \in BOOLEAN : Zoning(spawn, profile)
    \/ Logout

Next == ReceivePacket \/ Handlers \/ Tick \/ Client

Spec == Init /\ [][Next]_vars

\* Packets keep arriving, and a handler that started is run to its end.
Fairness ==
    /\ WF_vars(Tick)
    /\ WF_vars(ReceiveOther("dispatch"))
    /\ WF_vars(\E uiOk, resyncOk \in BOOLEAN : NotifyRetries(uiOk, resyncOk))
    /\ WF_vars(\E uiOk, ready, resyncOk \in BOOLEAN : AfterDispatch(uiOk, ready, resyncOk))

LiveSpec == Spec /\ Fairness

------------------------------------------------------------------------------
(* Properties *)

\* A retry record is armed with attempts left, or it is all zero; an armed one
\* has a mask some attempt can succeed for.  (The arming and clearing calls of
\* NotifyServerAuthStatsUpdated, the zone rearm and the polls.)
SoundRetry(retry) ==
    IF retry.pending
    THEN retry.attempts < MaxAttempts /\ ShouldArmCombat(retry.mask)
    ELSE retry = Cleared

RetryRecordsSound ==
    /\ SoundRetry(caster)
    /\ SoundRetry(combat)
    /\ caster.pending => HasAnyAuthoritativeCastingClass(TRUE, caster.mask)

\* Whatever is pending is pending for the mask the server sent last, unless
\* that was 0 (which NotifyServerAuthStatsUpdated ignores): no retry and no
\* deferred store acts for a mask the server has since replaced.
PendingUsesLatestMask ==
    /\ persist.pending => auth \in {persist.mask, {}}
    /\ stage # "refresh" =>
         \A retry \in {caster, combat} : retry.pending => auth \in {retry.mask, {}}

\* Two polled UI attempts are at least one cooldown apart, whatever arms, zone
\* rearms and nested display surfaces happen between them (CHANGELOG.md:32,
\* "spaced one second apart"): an armed retry waits out the cooldown counted
\* from the last attempt, also when it was armed anew since.
AttemptsSpaced ==
    /\ gap = Cooldown
    /\ caster.pending => caster.wait + sinceAttempt >= Cooldown

\* A store stops being pending, in the packet that brought the mask or later,
\* only when a lookup by the same name, class and server finds the mask in the
\* file the store left (the round trip of CacheFile's write and parse).
MaskToPersist == IF stage = "idle" /\ stage' = "refresh" THEN auth' ELSE persist.mask

PersistedIsFound ==
    [][/\ persist.pending \/ (stage = "idle" /\ stage' = "refresh")
       /\ ~persist'.pending
       => TryLookupCharacterClassMask(cache', player, profileClass, server)
            = {MaskToPersist}]_vars

\* In the world, and while no packet arms it again, the polls after each packet
\* end a pending retry: success, no longer eligible, or out of attempts
\* (CHANGELOG.md:26, "can advance the bounded one-second retry window").
RetrySettles ==
    <>[](player # NoName /\ stage \in {"idle", "dispatch"}) => <>[]~caster.pending
==============================================================================
