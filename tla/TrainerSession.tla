---------------------------- MODULE TrainerSession ----------------------------
(***************************************************************************)
(* The guild trainer's session: while the client's train window is open    *)
(* for a trainer of an assigned class, the hooks overwrite the local       *)
(* class in two of the client's objects, the local player's spawn          *)
(* (displayed class) and the profile, and restore both when the window     *)
(* closes (src/src/hook_manager.cpp).                                      *)
(*                                                                         *)
(* The session remembers the two objects by address.  The client frees     *)
(* and reallocates them as the player zones or changes character, so an    *)
(* address may stand for another object than when it was saved.            *)
(***************************************************************************)
EXTENDS ClassIdentity

CONSTANTS
    Names,          \* the player's characters
    NoName,         \* no local player
    NativeClass,    \* the class each character was created with
    Spawns,         \* addresses the local player's spawn can have
    Profiles,       \* addresses the local profile can have
    NoAddress,      \* a null pointer
    SessionMasks    \* the class masks the server sends

ASSUME TrainerSessionAssumption ==
    /\ NoName \notin Names
    /\ NativeClass \in [Names -> PlayableClasses]
    /\ SessionMasks \subseteq Masks
    /\ NoAddress \notin Spawns \cup Profiles

VARIABLES
    auth,       \* g_classes_bitmask; {} also stands for "none received"
    character,  \* the character in the world, or NoName
    spawn,      \* the local player pointer
    profile,    \* the local profile pointer
    class,      \* the class field of the object at each address
    written,    \* the class the client itself last wrote there (history)
    session,    \* g_guild_trainer_session_class_override
    pending,    \* g_pending_guild_trainer_session_class_id
    trainer,    \* the client's train window and the gate that opened it
    reloaded    \* the client loaded an object under an open session (history)

objects     == <<character, spawn, profile, written, reloaded>>
sessionVars == <<auth, objects, class, session, pending, trainer>>

Addresses  == Spawns \cup Profiles
AnyClass   == PlayableClasses \cup {NoClass}
Local      == {spawn, profile} \ {NoAddress}

\* original: the addresses the session overwrote, with the class found there.
NoSession == [active |-> FALSE, class |-> NoClass, original |-> <<>>]
NoTrainer == [window |-> "none", class |-> NoClass, matched |-> FALSE]

Originals == UNION {[S -> PlayableClasses] : S \in SUBSET Addresses}

TypeOK ==
    /\ auth \in Masks
    /\ character \in Names \cup {NoName}
    /\ spawn \in Spawns \cup {NoAddress}
    /\ profile \in Profiles \cup {NoAddress}
    /\ class \in [Addresses -> AnyClass]
    /\ written \in [Addresses -> AnyClass]
    /\ \/ session = NoSession
       \/ /\ session.active
          /\ session.class \in PlayableClasses
          /\ session.original \in Originals
          /\ session.original # <<>>
    /\ pending \in AnyClass
    /\ trainer \in [window : {"none", "asked", "open"}, class : AnyClass,
                    matched : BOOLEAN]
    /\ reloaded \in BOOLEAN

------------------------------------------------------------------------------
(* The hooks *)

\* Memory after the saved classes are written back.  A write to an object the
\* client still uses succeeds; the page of a freed one may be gone.
Restored(memory, saved) ==
    {[a \in Addresses |-> IF a \in ok THEN saved[a] ELSE memory[a]] :
        ok \in {S \in SUBSET DOMAIN saved : Local \cap DOMAIN saved \subseteq S}}

RestoreGuildTrainerSessionClassOverride ==
    /\ class' \in Restored(class, session.original)
    /\ session' = NoSession

\* The session that overwrites the readable local classes of this memory.
Opened(memory, id) ==
    LET readable == {a \in Local : IsPlayableClassId(memory[a])} IN
    IF readable = {} THEN NoSession
    ELSE [active |-> TRUE, class |-> id, original |-> [a \in readable |-> memory[a]]]

Overwritten(memory, opened) ==
    [a \in Addresses |-> IF a \in DOMAIN opened.original THEN opened.class ELSE memory[a]]

\* Mutant: switching trainers does not restore the first one's originals.
ApplyWithoutRestore(id) ==
    IF ~IsPlayableClassId(id) \/ (session.active /\ session.class = id)
    THEN UNCHANGED <<class, session>>
    ELSE /\ session' = Opened(class, id)
         /\ class' = Overwritten(class, Opened(class, id))

\* Mutant: without the check that a trainer is pending at all.
ApplyUnchecked(id) ==
    IF session.active /\ session.class = id
    THEN UNCHANGED <<class, session>>
    ELSE \E memory \in IF session.active THEN Restored(class, session.original)
                                         ELSE {class} :
            /\ session' = Opened(memory, id)
            /\ class' = Overwritten(memory, Opened(memory, id))

\* Mutant: an open session is never switched.
ApplyOnce(id) ==
    IF ~IsPlayableClassId(id) \/ session.active
    THEN UNCHANGED <<class, session>>
    ELSE /\ session' = Opened(class, id)
         /\ class' = Overwritten(class, Opened(class, id))

ApplyGuildTrainerSessionClassOverride(id) ==
    IF ~IsPlayableClassId(id) \/ (session.active /\ session.class = id)
    THEN UNCHANGED <<class, session>>
    ELSE \E memory \in IF session.active THEN Restored(class, session.original)
                                         ELSE {class} :
            /\ session' = Opened(memory, id)
            /\ class' = Overwritten(memory, Opened(memory, id))

\* GuildTrainerClassLookupCallsiteHookImpl, when the player clicks a trainer of
\* class id.  The client asks to train when the lookup names the trainer's class:
\* the hook's record on a match, the local player's displayed class otherwise.
GuildTrainerClassLookup(id, copied) ==
    /\ spawn # NoAddress
    /\ trainer.window # "asked"
    /\ LET match == copied /\ HasAuthoritativeClass(auth # {}, auth, id) IN
         /\ pending' = IF match THEN id ELSE pending
         /\ trainer' = IF match \/ class[spawn] = id
                       THEN [window |-> "asked", class |-> id, matched |-> match]
                       ELSE trainer
    /\ UNCHANGED <<auth, objects, class, session>>

\* MemorizeSendPacketWrapperHook of OP_GMTraining; ok: the original sent it.
SendGMTraining(ok) ==
    /\ trainer.window = "asked"
    /\ trainer' = IF ok THEN [trainer EXCEPT !.window = "open"] ELSE NoTrainer
    /\ IF ok THEN ApplyGuildTrainerSessionClassOverride(pending)
             ELSE UNCHANGED <<class, session>>
    /\ UNCHANGED <<auth, objects, pending>>

\* Mutant: the window's end leaves the pending class and the override.
SendGMEndTrainingForgets(ok) ==
    /\ trainer.window = "open"
    /\ trainer' = NoTrainer
    /\ session' = IF ok THEN NoSession ELSE session
    /\ UNCHANGED <<auth, objects, class, pending>>

\* MemorizeSendPacketWrapperHook of OP_GMEndTraining.
SendGMEndTraining(ok) ==
    /\ trainer.window = "open"
    /\ trainer' = NoTrainer
    /\ IF ok
       THEN /\ RestoreGuildTrainerSessionClassOverride
            /\ pending' = NoClass
       ELSE UNCHANGED <<class, session, pending>>
    /\ UNCHANGED <<auth, objects>>

------------------------------------------------------------------------------
(* The client and the server around the hooks.                                *)

EnterWorld(name) ==
    /\ character = NoName
    /\ character' = name
    /\ UNCHANGED <<auth, spawn, profile, written, reloaded, class, session, pending,
                   trainer>>

\* The object at address a is (re)created for the local player.
Load(a) ==
    /\ character # NoName
    /\ class' = [class EXCEPT ![a] = NativeClass[character]]
    /\ written' = [written EXCEPT ![a] = NativeClass[character]]
    /\ reloaded' = (session.active \/ (reloaded /\ Local # {}))
    /\ UNCHANGED <<auth, character, session, pending, trainer>>

LoadSpawn(a) ==
    /\ spawn = NoAddress
    /\ spawn' = a
    /\ Load(a)
    /\ UNCHANGED profile

LoadProfile(a) ==
    /\ profile = NoAddress
    /\ profile' = a
    /\ Load(a)
    /\ UNCHANGED spawn

\* Zoning, camping or a lost connection: the client drops its objects, and the
\* train window with them; LeaveZone does so without a sent OP_GMEndTraining.
LeaveZone(name) ==
    /\ character # NoName
    /\ name \in {character, NoName}
    /\ character' = name
    /\ spawn' = NoAddress
    /\ profile' = NoAddress
    /\ trainer' = NoTrainer
    /\ UNCHANGED <<auth, written, reloaded, class, session, pending>>

ReceiveMask(mask) ==
    /\ auth' = mask
    /\ UNCHANGED <<objects, class, session, pending, trainer>>

------------------------------------------------------------------------------
TrainerInit ==
    /\ character = NoName
    /\ spawn = NoAddress
    /\ profile = NoAddress
    /\ class = [a \in Addresses |-> NoClass]
    /\ written = class
    /\ session = NoSession
    /\ pending = NoClass
    /\ trainer = NoTrainer
    /\ reloaded = FALSE

Init == auth = {} /\ TrainerInit

Sends == \E ok \in BOOLEAN : SendGMTraining(ok) \/ SendGMEndTraining(ok)

Clicks == \E id \in PlayableClasses, copied \in BOOLEAN : GuildTrainerClassLookup(id, copied)

Objects ==
    \/ \E name \in Names : EnterWorld(name)
    \/ \E a \in Spawns : LoadSpawn(a)
    \/ \E a \in Profiles : LoadProfile(a)
    \/ \E name \in Names \cup {NoName} : LeaveZone(name)

Next ==
    \/ Sends
    \/ Clicks
    \/ Objects
    \/ \E mask \in SessionMasks : ReceiveMask(mask)

Spec == Init /\ [][Next]_sessionVars

------------------------------------------------------------------------------
(* Properties *)

\* A local object whose class is not the one the client wrote is covered by the
\* open session (README.md:39, "restore the original local class on
\* OP_GMEndTraining"; README.md:61, "session-scoped").
OverrideOnlyInSession ==
    \A a \in Local :
        class[a] # written[a] =>
            /\ session.active
            /\ a \in DOMAIN session.original
            /\ class[a] = session.class

\* As long as the client replaces no object under an open session: every
\* override belongs to the session, and what the session would restore is what
\* the client wrote, however often trainers are switched and sends fail.
SessionRestoresOriginal ==
    ~reloaded =>
        /\ OverrideOnlyInSession
        /\ \A a \in Local \cap DOMAIN session.original :
               session.original[a] = written[a]

\* While the window is open through a matched gate, and the client replaced no
\* object under the session, the train window reads the trainer's class from
\* every local object (README.md:39, "for the clicked trainer class").
WindowShowsTrainer ==
    (trainer.window = "open" /\ trainer.matched /\ ~reloaded) =>
        /\ session.class = trainer.class
        /\ \A a \in Local : class[a] = trainer.class
==============================================================================
