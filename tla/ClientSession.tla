---------------------------- MODULE ClientSession -----------------------------
(***************************************************************************)
(* The authoritative-mask handlers and the guild trainer's session in one  *)
(* client.  They share the local class: the session overwrites the fields  *)
(* that the retries and the cache store read as the character's native     *)
(* class (TryReadLocalProfileClassId, src/src/hook_manager.cpp).           *)
(***************************************************************************)
EXTENDS TrainerSession, Integers, FiniteSets

CONSTANTS Servers, NoServer, NoRow, SmallSort, MaxRows, MaxAttempts, Cooldown

ASSUME ClientSessionAssumption ==
    /\ NoServer \notin Servers
    /\ NoRow \notin [mask : Masks, native : AnyClass, server : Servers \cup {NoServer}]
    /\ SmallSort \in Nat /\ MaxRows \in Nat
    /\ MaxAttempts \in Nat \ {0} /\ Cooldown \in Nat \ {0}

VARIABLES stage, persist, caster, combat, ensured, cache, server, sinceAttempt, gap

\* What the hooks read of the client's objects.
player == IF spawn = NoAddress THEN NoName ELSE character

profileClass == IF profile = NoAddress THEN NoClass ELSE class[profile]

Update == INSTANCE AuthUpdate WITH PacketMasks <- SessionMasks

trainerOnly == <<objects, class, session, pending, trainer>>
updateOnly  == <<stage, persist, caster, combat, ensured, cache, server, sinceAttempt, gap>>
clientVars  == <<sessionVars, updateOnly>>

------------------------------------------------------------------------------
ClientInit ==
    /\ TrainerInit
    /\ server \in Servers
    /\ auth = {}
    /\ stage = "idle"
    /\ persist = Update!NoPersist
    /\ caster = Update!Cleared
    /\ combat = Update!Cleared
    /\ ensured = Update!NotEnsured
    /\ cache = [format |-> "unreadable", rows |-> Update!NoRows]
    /\ sinceAttempt = Cooldown
    /\ gap = Cooldown

\* The handlers run between the trainer's steps, on the same thread.
UpdateStep ==
    /\ UNCHANGED trainerOnly
    /\ \/ Update!ReceivePacket
       \/ Update!Handlers
       \/ Update!Tick

\* The trainer's hooks and the client's object changes.  The client sends and
\* zones between two packets.
TrainerStep ==
    /\ stage = "idle"
    /\ Sends \/ Clicks \/ Objects
    /\ UNCHANGED updateOnly

ClientNext == UpdateStep \/ TrainerStep

ClientSpec == ClientInit /\ [][ClientNext]_clientVars

------------------------------------------------------------------------------
(* Properties *)

\* Whichever class a session shows while masks arrive and retries are polled, the
\* retry records stay sound, everything pending is for the newest mask, and UI
\* attempts are spaced: a session may end a retry early, but not revive, retarget or
\* hurry one.
UpdatesStaySound ==
    /\ Update!RetryRecordsSound
    /\ Update!PendingUsesLatestMask
    /\ Update!AttemptsSpaced

\* "without broad class spoofing outside the active guildmaster session"
\* (README.md:39): once no session is open, the cache file, which the character
\* list reads, files every character under the class it was created with.
CacheHasNativeClass ==
    ~session.active =>
        \A name \in Names :
            cache.rows[name] # NoRow => cache.rows[name].native = NativeClass[name]

\* "failed native-melee caster UI unlocks stay armed for up to thirty later
\* retries" (CHANGELOG.md:32): for a character whose objects are readable and
\* whose own class is a melee class of the mask, polls end the retry only by
\* success or with the last attempt.
RetryStaysArmed ==
    [][/\ caster.pending
       /\ ~caster'.pending
       /\ auth' = auth
       /\ stage # "refresh"
       /\ spawn # NoAddress
       /\ profile # NoAddress
       /\ ~IsCastingClassId(NativeClass[character])
       /\ HasAuthoritativeClass(TRUE, caster.mask, NativeClass[character])
       => \/ ensured'.set
          \/ caster.attempts + 1 = MaxAttempts]_clientVars
==============================================================================
