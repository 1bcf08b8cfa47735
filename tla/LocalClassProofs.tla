--------------------------- MODULE LocalClassProofs ---------------------------
(***************************************************************************)
(* Theorems about the guild trainer's session (TrainerSession), the        *)
(* overrides of one call (LocalClass) and the session under the handlers   *)
(* of the mask (ClientSession), for every set of characters, addresses,    *)
(* masks and classes, whichever addresses the client uses again.           *)
(***************************************************************************)
EXTENDS LocalClass, ClientSession, ClassOrderProofs

\* The objects of the local player were created with a playable class, whatever
\* the hooks have written there since.
LocalPlayable == \A a \in Local : written[a] \in PlayableClasses

\* A train window, asked or open, is the local player's; a gate that matched
\* names a playable class, which is pending until the window opens.
WindowIsLocal ==
    /\ trainer.window # "none" => spawn # NoAddress
    /\ trainer.matched => trainer.class \in PlayableClasses
    /\ trainer.window = "asked" /\ trainer.matched => pending = trainer.class

\* A session under which no object was replaced shows its class in all of them.
SessionCoversLocal ==
    session.active /\ ~reloaded => \A a \in Local : class[a] = session.class

SessionInv ==
    /\ TypeOK
    /\ LocalPlayable
    /\ WindowIsLocal
    /\ SessionCoversLocal
    /\ SessionRestoresOriginal
    /\ WindowShowsTrainer

------------------------------------------------------------------------------
(* The operators of a session *)

LEMMA LocalAddresses ==
    ASSUME TypeOK
    PROVE  Local \subseteq Addresses
BY DEF TypeOK, Local, Addresses

\* A session that is not active is NoSession, and saves nothing.
LEMMA InactiveSession ==
    ASSUME TypeOK
    PROVE  /\ ~session.active => session = NoSession
           /\ session = NoSession => /\ ~session.active
                                     /\ session.class = NoClass
                                     /\ DOMAIN session.original = {}
           /\ session.active => /\ session.class \in PlayableClasses
                                /\ DOMAIN session.original \subseteq Addresses
                                /\ \A a \in DOMAIN session.original :
                                      session.original[a] \in PlayableClasses
<1>1. NoSession.active = FALSE /\ NoSession.class = NoClass /\ NoSession.original = <<>>
  BY DEF NoSession
<1>2. DOMAIN <<>> = {}
  OBVIOUS
<1>3. ASSUME session.original \in Originals
      PROVE  /\ DOMAIN session.original \subseteq Addresses
             /\ \A a \in DOMAIN session.original : session.original[a] \in PlayableClasses
  <2>1. PICK S \in SUBSET Addresses : session.original \in [S -> PlayableClasses]
    BY <1>3 DEF Originals
  <2> QED
    BY <2>1
<1> QED
  BY <1>1, <1>2, <1>3 DEF TypeOK

\* Writing back leaves the saved class in every saved object that is still local,
\* and all others as they were.
LEMMA RestoredMemory ==
    ASSUME NEW memory \in [Addresses -> AnyClass], TypeOK,
           NEW saved, DOMAIN saved \subseteq Addresses,
           \A a \in DOMAIN saved : saved[a] \in PlayableClasses,
           NEW restored \in Restored(memory, saved)
    PROVE  /\ restored \in [Addresses -> AnyClass]
           /\ \A a \in Local \cap DOMAIN saved : restored[a] = saved[a]
           /\ \A a \in Addresses \ DOMAIN saved : restored[a] = memory[a]
<1>1. PICK ok \in SUBSET DOMAIN saved :
         /\ Local \cap DOMAIN saved \subseteq ok
         /\ restored = [a \in Addresses |-> IF a \in ok THEN saved[a] ELSE memory[a]]
  BY DEF Restored
<1>2. \A a \in Addresses : memory[a] \in AnyClass
  OBVIOUS
<1> QED
  BY <1>1, <1>2, LocalAddresses DEF AnyClass

\* A session opened on a memory whose local classes are playable saves them all
\* and shows its own class in all of them.
LEMMA OpenedSession ==
    ASSUME TypeOK, NEW memory \in [Addresses -> AnyClass], NEW id \in PlayableClasses,
           NEW opened, opened = Opened(memory, id),
           NEW over, over = Overwritten(memory, opened)
    PROVE  /\ over \in [Addresses -> AnyClass]
           /\ \/ opened = NoSession
              \/ /\ opened.active /\ opened.class = id
                 /\ opened.original \in Originals /\ opened.original # <<>>
           /\ (\A a \in Local : memory[a] = written[a]) =>
                 /\ \A a \in Local : over[a] # written[a] =>
                        opened.active /\ a \in DOMAIN opened.original /\ over[a] = opened.class
                 /\ \A a \in Local \cap DOMAIN opened.original :
                        opened.original[a] = written[a]
                 /\ LocalPlayable =>
                        \A a \in Local : opened.active /\ opened.class = id /\ over[a] = id
<1> DEFINE readable == {a \in Local : IsPlayableClassId(memory[a])}
           saved    == [a \in readable |-> memory[a]]
<1>1. readable \subseteq Local /\ Local \subseteq Addresses
  BY LocalAddresses
<1>2. saved \in [readable -> PlayableClasses] /\ DOMAIN saved = readable
  BY DEF IsPlayableClassId
<1>3. CASE readable = {}
  <2>1. opened = NoSession
    BY <1>3 DEF Opened
  <2>2. DOMAIN opened.original = {}
    BY <2>1 DEF NoSession
  <2>3. over = [a \in Addresses |-> memory[a]]
    BY <2>2 DEF Overwritten
  <2>4. over = memory
    BY <2>3
  <2>5. LocalPlayable /\ (\A a \in Local : memory[a] = written[a]) => Local = {}
    BY <1>3 DEF LocalPlayable, IsPlayableClassId
  <2> QED
    BY <1>1, <2>1, <2>2, <2>4, <2>5
<1>4. CASE readable # {}
  <2>1. opened = [active |-> TRUE, class |-> id, original |-> saved]
    BY <1>4 DEF Opened
  <2>2. opened.active /\ opened.class = id /\ opened.original = saved
    BY <2>1
  <2>3. over = [a \in Addresses |-> IF a \in readable THEN id ELSE memory[a]]
    BY <1>2, <2>2 DEF Overwritten
  <2>4. over \in [Addresses -> AnyClass]
    BY <2>3 DEF AnyClass
  <2>5. saved \in Originals
    BY <1>1, <1>2 DEF Originals
  <2>6. saved # <<>>
    BY <1>2, <1>4
  <2>7. \A a \in readable : saved[a] = memory[a]
    OBVIOUS
  <2>8. LocalPlayable /\ (\A a \in Local : memory[a] = written[a]) => readable = Local
    BY DEF LocalPlayable, IsPlayableClassId
  <2> HIDE DEF saved, readable
  <2> QED
    BY <1>1, <1>2, <2>2, <2>3, <2>4, <2>5, <2>6, <2>7, <2>8 DEF NoSession
<1> QED
  BY <1>3, <1>4

------------------------------------------------------------------------------
(* The session's steps *)

\* The start of a session's state: nothing is local and nothing open.
LEMMA InitSessionInv == Init => SessionInv
<1> SUFFICES ASSUME Init PROVE SessionInv
  OBVIOUS
<1> USE DEF Init, TrainerInit
<1>1. Local = {}
  BY DEF Local
<1>2. TypeOK
  BY DEF TypeOK, Masks, AnyClass, NoTrainer
<1> QED
  BY <1>1, <1>2 DEF SessionInv, LocalPlayable, WindowIsLocal, SessionCoversLocal,
     SessionRestoresOriginal, OverrideOnlyInSession, WindowShowsTrainer, NoTrainer, NoSession

\* Without an open session, or after it was restored, every local object shows
\* what the client wrote there, while none was replaced under the session.
LEMMA LocalAsWritten ==
    ASSUME SessionInv,
           NEW memory, memory \in IF session.active THEN Restored(class, session.original)
                                                    ELSE {class}
    PROVE  /\ memory \in [Addresses -> AnyClass]
           /\ ~reloaded => \A a \in Local : memory[a] = written[a]
<1> USE DEF SessionInv
<1>1. class \in [Addresses -> AnyClass] /\ Local \subseteq Addresses
  BY LocalAddresses DEF TypeOK
<1>2. CASE ~session.active
  BY <1>1, <1>2 DEF SessionRestoresOriginal, OverrideOnlyInSession
<1>3. CASE session.active
  <2>1. /\ DOMAIN session.original \subseteq Addresses
        /\ \A a \in DOMAIN session.original : session.original[a] \in PlayableClasses
    BY <1>3, InactiveSession
  <2>2. /\ memory \in [Addresses -> AnyClass]
        /\ \A a \in Local \cap DOMAIN session.original : memory[a] = session.original[a]
        /\ \A a \in Addresses \ DOMAIN session.original : memory[a] = class[a]
    BY <1>1, <1>3, <2>1, RestoredMemory
  <2> QED
    BY <1>1, <2>2 DEF SessionRestoresOriginal, OverrideOnlyInSession
<1> QED
  BY <1>2, <1>3

\* The window is asked for, and every object shows the pending class, or the send
\* failed and nothing was touched.
LEMMA SendGMTrainingStep ==
    ASSUME SessionInv, NEW ok \in BOOLEAN, SendGMTraining(ok)
    PROVE  SessionInv'
<1> USE DEF SessionInv
<1>1. UNCHANGED <<auth, objects, pending>> /\ Local' = Local
  BY DEF SendGMTraining, objects, Local
<1>2. /\ trainer' \in [window : {"none", "asked", "open"}, class : AnyClass, matched : BOOLEAN]
      /\ trainer'.window # "none" => ok
      /\ trainer'.window # "asked"
      /\ ok => /\ trainer'.class = trainer.class /\ trainer'.matched = trainer.matched
               /\ trainer'.window = "open"
      /\ ~ok => ~trainer'.matched
  BY DEF SendGMTraining, TypeOK, NoTrainer, AnyClass
<1>3. LocalPlayable'
  BY <1>1 DEF LocalPlayable, objects
<1>4. WindowIsLocal'
  BY <1>1, <1>2 DEF WindowIsLocal, objects, SendGMTraining
<1>5. CASE ~ok \/ ~IsPlayableClassId(pending) \/ (session.active /\ session.class = pending)
  <2>1. UNCHANGED <<class, session>>
    BY <1>5 DEF SendGMTraining, ApplyGuildTrainerSessionClassOverride
  <2>2. TypeOK'
    BY <1>1, <1>2, <2>1 DEF TypeOK, objects
  <2>3. SessionCoversLocal' /\ SessionRestoresOriginal'
    BY <1>1, <2>1 DEF SessionCoversLocal, SessionRestoresOriginal, OverrideOnlyInSession, objects
  <2>4. ok /\ trainer.matched => session.active /\ session.class = trainer.class
    BY <1>5 DEF WindowIsLocal, SendGMTraining, IsPlayableClassId
  <2>5. WindowShowsTrainer'
    BY <1>1, <1>2, <2>1, <2>4 DEF WindowShowsTrainer, SessionCoversLocal, objects
  <2> QED
    BY <1>3, <1>4, <2>2, <2>3, <2>5
<1>6. CASE ok /\ IsPlayableClassId(pending) /\ ~(session.active /\ session.class = pending)
  <2>1. PICK memory \in IF session.active THEN Restored(class, session.original)
                                          ELSE {class} :
           /\ session' = Opened(memory, pending)
           /\ class' = Overwritten(memory, Opened(memory, pending))
    BY <1>6 DEF SendGMTraining, ApplyGuildTrainerSessionClassOverride
  <2>2. /\ memory \in [Addresses -> AnyClass]
        /\ ~reloaded => \A a \in Local : memory[a] = written[a]
    BY LocalAsWritten
  <2>3. pending \in PlayableClasses
    BY <1>6 DEF IsPlayableClassId
  <2>4. /\ class' \in [Addresses -> AnyClass]
        /\ \/ session' = NoSession
           \/ /\ session'.active /\ session'.class = pending
              /\ session'.original \in Originals /\ session'.original # <<>>
        /\ ~reloaded =>
              /\ \A a \in Local : class'[a] # written[a] =>
                     /\ session'.active /\ a \in DOMAIN session'.original
                     /\ class'[a] = session'.class
              /\ \A a \in Local \cap DOMAIN session'.original :
                     session'.original[a] = written[a]
              /\ \A a \in Local : /\ session'.active /\ session'.class = pending
                                  /\ class'[a] = pending
    BY <2>1, <2>2, <2>3, OpenedSession
  <2>5. TypeOK'
    BY <1>1, <1>2, <2>3, <2>4 DEF TypeOK, objects
  <2>6. SessionCoversLocal' /\ SessionRestoresOriginal'
    BY <1>1, <2>4 DEF SessionCoversLocal, SessionRestoresOriginal, OverrideOnlyInSession, objects
  <2>7. spawn \in Local
    BY DEF WindowIsLocal, SendGMTraining, Local
  <2>8. trainer.matched => pending = trainer.class
    BY DEF WindowIsLocal, SendGMTraining
  <2>9. WindowShowsTrainer'
    BY <1>1, <1>2, <2>4, <2>7, <2>8 DEF WindowShowsTrainer, objects
  <2> QED
    BY <1>3, <1>4, <2>5, <2>6, <2>9
<1> QED
  BY <1>5, <1>6

\* The window is closed: what the client wrote is back.
LEMMA SendGMEndTrainingStep ==
    ASSUME SessionInv, NEW ok \in BOOLEAN, SendGMEndTraining(ok)
    PROVE  SessionInv'
<1> USE DEF SessionInv
<1>1. UNCHANGED <<auth, objects>> /\ Local' = Local /\ trainer' = NoTrainer
  BY DEF SendGMEndTraining, objects, Local
<1>2. /\ NoTrainer \in [window : {"none", "asked", "open"}, class : AnyClass, matched : BOOLEAN]
      /\ NoTrainer.window = "none" /\ ~NoTrainer.matched
  BY DEF NoTrainer, AnyClass
<1>3. LocalPlayable' /\ WindowIsLocal' /\ WindowShowsTrainer'
  BY <1>1, <1>2 DEF LocalPlayable, WindowIsLocal, WindowShowsTrainer, objects
<1>4. CASE ~ok
  BY <1>1, <1>2, <1>3, <1>4 DEF SendGMEndTraining, TypeOK, SessionCoversLocal,
     SessionRestoresOriginal, OverrideOnlyInSession, objects
<1>5. CASE ok
  <2>1. session' = NoSession /\ class' \in Restored(class, session.original) /\ pending' = NoClass
    BY <1>5 DEF SendGMEndTraining, RestoreGuildTrainerSessionClassOverride
  <2>2. /\ DOMAIN session.original \subseteq Addresses
        /\ \A a \in DOMAIN session.original : session.original[a] \in PlayableClasses
    BY InactiveSession
  <2>3. class \in [Addresses -> AnyClass] /\ Local \subseteq Addresses
    BY LocalAddresses DEF TypeOK
  <2>4. /\ class' \in [Addresses -> AnyClass]
        /\ \A a \in Local \cap DOMAIN session.original : class'[a] = session.original[a]
        /\ \A a \in Addresses \ DOMAIN session.original : class'[a] = class[a]
    BY <2>1, <2>2, <2>3, RestoredMemory
  <2>5. TypeOK'
    BY <1>1, <1>2, <2>1, <2>4 DEF TypeOK, objects, AnyClass
  <2>6. ~reloaded => \A a \in Local : class'[a] = written[a]
    BY <2>3, <2>4 DEF SessionRestoresOriginal, OverrideOnlyInSession
  <2>7. ~NoSession.active /\ DOMAIN NoSession.original = {}
    BY DEF NoSession
  <2>8. SessionCoversLocal' /\ SessionRestoresOriginal'
    BY <1>1, <2>1, <2>6, <2>7
       DEF SessionCoversLocal, SessionRestoresOriginal, OverrideOnlyInSession, objects
  <2> QED
    BY <1>3, <2>5, <2>8
<1> QED
  BY <1>4, <1>5

\* The client creates an object of the local player.  One that is created under an
\* open session sets reloaded, and until then every other is as it was written.
LEMMA LoadStep ==
    ASSUME SessionInv, NEW a \in Addresses, Load(a),
           spawn' \in Spawns \cup {NoAddress}, profile' \in Profiles \cup {NoAddress},
           spawn # NoAddress => spawn' # NoAddress, Local' \subseteq Local \cup {a}
    PROVE  SessionInv'
<1> USE DEF SessionInv
<1> DEFINE native == NativeClass[character]
<1>1. native \in PlayableClasses
  BY TrainerSessionAssumption DEF Load, TypeOK
<1>2. /\ class' = [class EXCEPT ![a] = native]
      /\ written' = [written EXCEPT ![a] = native]
      /\ reloaded' = (session.active \/ (reloaded /\ Local # {}))
      /\ UNCHANGED <<auth, character, session, pending, trainer>>
  BY DEF Load
<1>3. /\ class' \in [Addresses -> AnyClass] /\ written' \in [Addresses -> AnyClass]
      /\ class'[a] = native /\ written'[a] = native
      /\ \A b \in Addresses \ {a} : class'[b] = class[b] /\ written'[b] = written[b]
  BY <1>1, <1>2 DEF TypeOK, AnyClass
<1>5. reloaded' \in BOOLEAN
  BY <1>2
<1>6. TypeOK'
  BY <1>2, <1>3, <1>5 DEF TypeOK
<1>7. LocalPlayable' /\ WindowIsLocal'
  BY <1>1, <1>2, <1>3, LocalAddresses DEF LocalPlayable, WindowIsLocal
<1>8. ~reloaded' => ~session.active
  BY <1>2
<1>9. SessionCoversLocal'
  BY <1>2, <1>8 DEF SessionCoversLocal
<1>10. SessionRestoresOriginal'
  <2>1. SUFFICES ASSUME ~reloaded'
                 PROVE  \A b \in Local' : class'[b] = written'[b] /\ b \notin DOMAIN session'.original
    BY DEF SessionRestoresOriginal, OverrideOnlyInSession
  <2>2. ~session.active /\ DOMAIN session'.original = {}
    BY <1>2, <1>8, <2>1, InactiveSession
  <2>3. \A b \in Local : class[b] = written[b]
    BY <1>2, <2>1, <2>2 DEF SessionRestoresOriginal, OverrideOnlyInSession
  <2> QED
    BY <1>3, <2>2, <2>3, LocalAddresses
<1>11. WindowShowsTrainer'
  <2>1. SUFFICES ASSUME trainer'.window = "open", trainer'.matched, ~reloaded' PROVE FALSE
    BY DEF WindowShowsTrainer
  <2>2. spawn \in Local
    BY <1>2, <2>1 DEF WindowIsLocal, Local
  <2>3. ~reloaded /\ ~session.active
    BY <1>2, <2>1, <2>2
  <2>4. session.class = trainer.class /\ trainer.class \in PlayableClasses
    BY <1>2, <2>1, <2>3 DEF WindowShowsTrainer, WindowIsLocal
  <2> QED
    BY <2>3, <2>4, InactiveSession, ClassAssumption
<1> QED
  BY <1>6, <1>7, <1>9, <1>10, <1>11

\* The client drops its objects, and nothing is local.
LEMMA LeaveZoneStep ==
    ASSUME SessionInv, NEW name \in Names \cup {NoName}, LeaveZone(name)
    PROVE  SessionInv'
<1> USE DEF SessionInv, LeaveZone
<1>1. Local' = {}
  BY DEF Local
<1>2. TypeOK'
  BY DEF TypeOK, NoTrainer, AnyClass
<1> QED
  BY <1>1, <1>2 DEF LocalPlayable, WindowIsLocal, SessionCoversLocal, SessionRestoresOriginal,
     OverrideOnlyInSession, WindowShowsTrainer, NoTrainer

\* A click asks for a window, or changes nothing.
LEMMA ClickStep ==
    ASSUME SessionInv, NEW id \in PlayableClasses, NEW copied \in BOOLEAN,
           GuildTrainerClassLookup(id, copied)
    PROVE  SessionInv'
<1> USE DEF SessionInv
<1> DEFINE match == copied /\ HasAuthoritativeClass(auth # {}, auth, id)
<1>1. UNCHANGED <<auth, objects, class, session>> /\ Local' = Local
  BY DEF GuildTrainerClassLookup, objects, Local
<1>2. match \in BOOLEAN
  BY DEF HasAuthoritativeClass
<1>3. /\ pending' = IF match THEN id ELSE pending
      /\ \/ trainer' = [window |-> "asked", class |-> id, matched |-> match]
         \/ ~match /\ trainer' = trainer /\ trainer.window # "asked"
  BY DEF GuildTrainerClassLookup
<1>4. spawn # NoAddress
  BY DEF GuildTrainerClassLookup
<1> HIDE DEF match
<1>5. TypeOK'
  BY <1>1, <1>2, <1>3 DEF TypeOK, objects, AnyClass
<1>6. WindowIsLocal'
  BY <1>1, <1>3, <1>4 DEF WindowIsLocal, objects
<1>7. WindowShowsTrainer'
  BY <1>1, <1>3 DEF WindowShowsTrainer, objects
<1> QED
  BY <1>1, <1>5, <1>6, <1>7 DEF LocalPlayable, SessionCoversLocal, SessionRestoresOriginal,
     OverrideOnlyInSession, objects

\* Steps that touch neither the objects nor the session.
LEMMA QuietStep ==
    ASSUME SessionInv, auth' \in Masks, character' \in Names \cup {NoName},
           UNCHANGED <<spawn, profile, written, reloaded, class, session, pending, trainer>>
    PROVE  SessionInv'
BY DEF SessionInv, TypeOK, LocalPlayable, WindowIsLocal, SessionCoversLocal, Local,
       SessionRestoresOriginal, OverrideOnlyInSession, WindowShowsTrainer

LEMMA SendsStep == SessionInv /\ Sends => SessionInv'
BY SendGMTrainingStep, SendGMEndTrainingStep DEF Sends

LEMMA ClicksStep == SessionInv /\ Clicks => SessionInv'
BY ClickStep DEF Clicks

LEMMA ReceiveMaskStep ==
    ASSUME SessionInv, NEW mask \in SessionMasks, ReceiveMask(mask)
    PROVE  SessionInv'
BY QuietStep, TrainerSessionAssumption DEF ReceiveMask, objects, SessionInv, TypeOK

LEMMA EnterWorldStep ==
    ASSUME SessionInv, NEW name \in Names, EnterWorld(name)
    PROVE  SessionInv'
BY QuietStep DEF EnterWorld, SessionInv, TypeOK

LEMMA LoadSpawnStep ==
    ASSUME SessionInv, NEW a \in Spawns, LoadSpawn(a)
    PROVE  SessionInv'
<1>1. a \in Addresses /\ Local' \subseteq Local \cup {a}
  BY DEF LoadSpawn, Local, Addresses
<1> QED
  BY <1>1, LoadStep DEF LoadSpawn, SessionInv, TypeOK

LEMMA LoadProfileStep ==
    ASSUME SessionInv, NEW a \in Profiles, LoadProfile(a)
    PROVE  SessionInv'
<1>1. a \in Addresses /\ Local' \subseteq Local \cup {a}
  BY DEF LoadProfile, Local, Addresses
<1> QED
  BY <1>1, LoadStep DEF LoadProfile, SessionInv, TypeOK

\* Every step of the session keeps the invariant.
LEMMA NextSessionInv == SessionInv /\ [Next]_sessionVars => SessionInv'
<1> SUFFICES ASSUME SessionInv, [Next]_sessionVars PROVE SessionInv'
  OBVIOUS
<1>1. CASE Objects
  BY <1>1, EnterWorldStep, LoadSpawnStep, LoadProfileStep, LeaveZoneStep DEF Objects
<1>2. CASE UNCHANGED sessionVars
  BY <1>2, QuietStep DEF sessionVars, objects, SessionInv, TypeOK
<1> QED
  BY <1>1, <1>2, SendsStep, ClicksStep, ReceiveMaskStep DEF Next

\* The state of a guild trainer's session is consistent in every reachable state
\* (ApplyGuildTrainerSessionClassOverride, RestoreGuildTrainerSessionClassOverride).
THEOREM SessionInvariant == Spec => []SessionInv
<1>1. Init => SessionInv
  BY InitSessionInv
<1>2. SessionInv /\ [Next]_sessionVars => SessionInv'
  BY NextSessionInv
<1> QED
  BY <1>1, <1>2, PTL DEF Spec

\* While the client replaces no object under an open session, what the session
\* would restore is what the client wrote, and no override outlives it.
THEOREM RestoresOriginal == Spec => []SessionRestoresOriginal
BY SessionInvariant, PTL DEF SessionInv

\* A window that a matched gate opened reads the trainer's class everywhere.
THEOREM WindowCorrect == Spec => []WindowShowsTrainer
BY SessionInvariant, PTL DEF SessionInv

------------------------------------------------------------------------------
(* A hooked call.  Every operator below starts from a memory whose classes are *)
(* c and ends in one whose classes are c again.                                *)

\* Memories with the classes c, what a function of the client's makes of one, and
\* the best of several.
MemoriesOf(c) == [class : {c}, mana : [Profiles -> Int]]
ResultsOf(c)  == [memory : MemoriesOf(c), ok : BOOLEAN, value : Int]
BestsOf(c)    == [memory : MemoriesOf(c), value : Int, class : AnyClass]
AnswersOf(c)  == [memory : MemoriesOf(c), value : Int]

\* Every local object has a playable class.
ClassesOK(c) ==
    /\ c \in [Addresses -> AnyClass]
    /\ \A a \in LocalObjects : c[a] \in PlayableClasses

\* The conditions of a call, met while the player is in the world.
EnvOK(env) ==
    /\ InWorld
    /\ record \in Profiles \cup {NoAddress}
    /\ spawn \in Spawns /\ profile \in Profiles
    /\ env \in [site : {"profile", "record"}, cap : BOOLEAN, faults : SUBSET PlayableClasses,
                torn : SUBSET PlayableClasses, failing : SUBSET (Spawns \cup Profiles)]
    /\ env.site = "record" => record # NoAddress

LEMMA SiteIsLocal ==
    ASSUME NEW env, EnvOK(env)
    PROVE  Site(env) \in LocalObjects /\ Site(env) \in Profiles
BY TrainerSessionAssumption DEF EnvOK, Site, LocalObjects, InWorld

LEMMA LocalObjectsAddresses ==
    ASSUME NEW env, EnvOK(env)
    PROVE  LocalObjects \subseteq Addresses
BY DEF EnvOK, LocalObjects, Addresses

\* Under an override every local object still has a playable class, and what the
\* call leaves is written back to the classes there were before.
LEMMA OverrideWrittenBack ==
    ASSUME NEW c, ClassesOK(c), NEW memory \in MemoriesOf(c), NEW env, EnvOK(env), NEW id,
           NEW override, override = TryApplyTemporaryLocalClassOverride(memory, id, env),
           override.active
    PROVE  /\ IsPlayableClassId(id)
           /\ ClassesOK(override.memory.class)
           /\ override.memory \in MemoriesOf(override.memory.class)
           /\ \A call \in ResultsOf(override.memory.class) :
                  WrittenBack(call, override.saved, env) \in ResultsOf(c)
<1> DEFINE saved == SavedClasses(memory)
           over  == {a \in DOMAIN saved \ env.failing : IsPlayableClassId(id)}
           under == [a \in Addresses |-> IF a \in over THEN id ELSE c[a]]
<1>1. /\ memory.class = c /\ memory.mana \in [Profiles -> Int]
      /\ memory = [class |-> c, mana |-> memory.mana]
  BY DEF MemoriesOf
<1>2. LocalObjects \subseteq Addresses
  BY LocalObjectsAddresses
<1>3. /\ DOMAIN saved \subseteq LocalObjects
      /\ \A a \in DOMAIN saved : saved[a] = c[a]
  BY <1>1 DEF SavedClasses
<1>4. /\ override.active = (over # {})
      /\ override.saved = saved
      /\ override.memory = [memory EXCEPT !.class =
                               [a \in Addresses |-> IF a \in over THEN id ELSE @[a]]]
  BY DEF TryApplyTemporaryLocalClassOverride
<1> HIDE DEF saved
<1>5. IsPlayableClassId(id) /\ over = DOMAIN saved \ env.failing
  BY <1>4
<1> HIDE DEF over
<1>6. override.memory = [class |-> under, mana |-> memory.mana]
  BY <1>1, <1>4
<1>7. ClassesOK(under)
  BY <1>2, <1>5 DEF ClassesOK, IsPlayableClassId, AnyClass
<1>8. override.memory.class = under /\ override.memory \in MemoriesOf(under)
  BY <1>1, <1>6 DEF MemoriesOf
<1>9. ASSUME NEW call \in ResultsOf(under)
      PROVE  WrittenBack(call, saved, env) \in ResultsOf(c)
  <2> DEFINE back == [a \in Addresses |->
                         IF a \in DOMAIN saved \ env.failing THEN saved[a] ELSE under[a]]
  <2>1. /\ call.memory.class = under /\ call.memory.mana \in [Profiles -> Int]
        /\ call.memory = [class |-> under, mana |-> call.memory.mana]
        /\ call = [memory |-> call.memory, ok |-> call.ok, value |-> call.value]
        /\ call.ok \in BOOLEAN /\ call.value \in Int
    BY DEF ResultsOf, MemoriesOf
  <2>2. back = c
    <3>1. \A a \in Addresses : back[a] = c[a]
      BY <1>3, <1>5
    <3> QED
      BY <3>1 DEF ClassesOK
  <2>3. RestoreTemporaryLocalClassOverride(call.memory, saved, env)
            = [class |-> back, mana |-> call.memory.mana]
    BY <2>1 DEF RestoreTemporaryLocalClassOverride
  <2> HIDE DEF back
  <2>4. WrittenBack(call, saved, env)
            = [memory |-> RestoreTemporaryLocalClassOverride(call.memory, saved, env),
               ok |-> call.ok, value |-> call.value]
    BY <2>1 DEF WrittenBack
  <2> QED
    BY <2>1, <2>2, <2>3, <2>4 DEF ResultsOf, MemoriesOf
<1> QED
  BY <1>4, <1>5, <1>7, <1>8, <1>9

\* A function without side effects.
LEMMA NativeForResult ==
    ASSUME NEW c, ClassesOK(c), NEW memory \in MemoriesOf(c), NEW env, EnvOK(env),
           NEW table \in [PlayableClasses -> Nat]
    PROVE  NativeFor(memory, env, table) \in ResultsOf(c)
<1>1. memory.class[Site(env)] \in PlayableClasses
  BY SiteIsLocal DEF MemoriesOf, ClassesOK
<1>2. table[memory.class[Site(env)]] \in Int
  BY <1>1
<1> QED
  BY <1>2 DEF NativeFor, ResultsOf

\* A probe's answer is taken or not.
LEMMA BetterIsBest ==
    ASSUME NEW c, NEW best \in BestsOf(c), NEW id, NEW probe \in ResultsOf(c),
           probe.ok => IsPlayableClassId(id)
    PROVE  Better(best, id, probe) \in BestsOf(c)
<1>1. [best EXCEPT !.memory = probe.memory]
         = [memory |-> probe.memory, value |-> best.value, class |-> best.class]
  BY DEF BestsOf
<1> QED
  BY <1>1 DEF Better, BestsOf, ResultsOf, IsPlayableClassId, AnyClass

\* One class of a sequence, for a function without side effects.
TriedFor(best, id, env, table) == Tried(best, id, env, LAMBDA m : NativeFor(m, env, table))

LEMMA TriedForIsBest ==
    ASSUME NEW c, ClassesOK(c), NEW env, EnvOK(env), NEW table \in [PlayableClasses -> Nat],
           NEW best \in BestsOf(c), NEW id
    PROVE  TriedFor(best, id, env, table) \in BestsOf(c)
<1> DEFINE memory   == best.memory
           override == TryApplyTemporaryLocalClassOverride(memory, id, env)
           probe    == Probe(memory, id, env, LAMBDA m : NativeFor(m, env, table))
<1>1. memory \in MemoriesOf(c)
  BY DEF BestsOf
<1>2. probe = IF ~override.active THEN [memory |-> memory, ok |-> FALSE, value |-> 0]
              ELSE WrittenBack(NativeFor(override.memory, env, table), override.saved, env)
  BY DEF Probe
<1>3. TriedFor(best, id, env, table) = Better(best, id, probe)
  BY DEF TriedFor, Tried
<1> HIDE DEF probe, override, memory
<1>4. probe \in ResultsOf(c) /\ (probe.ok => IsPlayableClassId(id))
  <2>1. CASE ~override.active
    BY <1>1, <1>2, <2>1 DEF ResultsOf
  <2>2. CASE override.active
    <3>1. override.memory \in MemoriesOf(override.memory.class)
          /\ ClassesOK(override.memory.class) /\ IsPlayableClassId(id)
      BY <1>1, <2>2, OverrideWrittenBack DEF override
    <3>2. NativeFor(override.memory, env, table) \in ResultsOf(override.memory.class)
      BY <3>1, NativeForResult
    <3>3. WrittenBack(NativeFor(override.memory, env, table), override.saved, env) \in ResultsOf(c)
      BY <1>1, <2>2, <3>2, OverrideWrittenBack DEF override
    <3> QED
      BY <1>2, <2>2, <3>1, <3>3
  <2> QED
    BY <2>1, <2>2
<1> QED
  BY <1>3, <1>4, BetterIsBest

\* The best of all classes, for a function without side effects.
BestFor(memory, ids, env, value, table) ==
    EvaluateBest(memory, ids, env, value, LAMBDA m : NativeFor(m, env, table))

\* It is the last of a run over the classes in order that tries those of ids.
TriedOf(ids, best, id, env, table) ==
    IF id \notin ids THEN best ELSE TriedFor(best, id, env, table)

IsBestRun(best, c, memory, ids, env, value, table) ==
    /\ BestFor(memory, ids, env, value, table) = best[Len(ClassOrder)]
    /\ best[0] = [memory |-> memory, value |-> value, class |-> NoClass]
    /\ \A i \in 1 .. Len(ClassOrder) :
           best[i] = TriedOf(ids, best[i - 1], ClassOrder[i], env, table)
    /\ \A i \in 0 .. Len(ClassOrder) : best[i] \in BestsOf(c)

LEMMA ClassOrderLength == Len(ClassOrder) \in Nat
BY ClassOrderAssumption, LenProperties

LEMMA BestForRun ==
    ASSUME NEW c, ClassesOK(c), NEW env, EnvOK(env), NEW table \in [PlayableClasses -> Nat],
           NEW memory \in MemoriesOf(c), NEW ids, NEW value \in Int
    PROVE  \E best : IsBestRun(best, c, memory, ids, env, value, table)
<1> DEFINE n         == Len(ClassOrder)
           none      == [memory |-> memory, value |-> value, class |-> NoClass]
           Try(b, i) == TriedOf(ids, b, ClassOrder[i], env, table)
           Is(f)     == f = [i \in 0 .. n |-> IF i = 0 THEN none ELSE Try(f[i - 1], i)]
           best      == CHOOSE f : Is(f)
           step      == [i \in 1 .. n |-> [b \in BestsOf(c) |-> Try(b, i)]]
<1>1. BestFor(memory, ids, env, value, table) = best[n]
  BY DEF BestFor, EvaluateBest, TriedOf, TriedFor
<1>2. none \in BestsOf(c)
  BY DEF BestsOf, AnyClass
<1>3. \A b \in BestsOf(c) : \A i \in 1 .. n : Try(b, i) \in BestsOf(c)
  BY TriedForIsBest DEF TriedOf
<1> HIDE DEF Try, none, n
<1>4. n \in Nat
  BY ClassOrderLength DEF n
<1>5. step \in [1 .. n -> [BestsOf(c) -> BestsOf(c)]]
  BY <1>3
<1>6. \A i \in 1 .. n, b \in BestsOf(c) : step[i][b] = Try(b, i)
  BY <1>3
<1> HIDE DEF step
<1>7. \E f : Is(f)
  <2>0. Runs(BestsOf(c), n, none, step) # {}
    BY <1>2, <1>4, <1>5, RunExists
  <2>1. PICK f \in [0 .. n -> BestsOf(c)] :
           f[0] = none /\ \A i \in 1 .. n : f[i] = step[i][f[i - 1]]
    BY <2>0 DEF Runs
  <2>2. \A i \in 1 .. n : f[i] = Try(f[i - 1], i)
    BY <1>4, <1>6, <2>1
  <2> QED
    BY <1>4, <2>1, <2>2
<1>8. Is(best)
  BY <1>7
<1> HIDE DEF best
<1>9. best[0] = none /\ \A i \in 1 .. n : best[i] = Try(best[i - 1], i)
  BY <1>4, <1>8
<1>10. \A i \in 0 .. n : best[i] \in BestsOf(c)
  BY <1>2, <1>3, <1>4, <1>9, AllSteps
<1> QED
  BY <1>1, <1>9, <1>10 DEF IsBestRun, n, none, Try

LEMMA BestForIsBest ==
    ASSUME NEW c, ClassesOK(c), NEW env, EnvOK(env), NEW table \in [PlayableClasses -> Nat],
           NEW memory \in MemoriesOf(c), NEW ids, NEW value \in Int
    PROVE  BestFor(memory, ids, env, value, table) \in BestsOf(c)
<1>1. PICK best : IsBestRun(best, c, memory, ids, env, value, table)
  BY BestForRun
<1> QED
  BY <1>1, ClassOrderLength DEF IsBestRun

\* One class of a sequence, for the abilities: the first that answers stays.
TriedAbility(best, id, env) ==
    IF best.class # NoClass THEN best ELSE TriedFor(best, id, env, NativeSkill)

\* The first class that answers is the last of a run.
IsAbilityRun(first, c, memory, ids, env) ==
    /\ first[0] = [memory |-> memory, value |-> 0, class |-> NoClass]
    /\ \A i \in 1 .. Len(ids) : first[i] = TriedAbility(first[i - 1], ids[i], env)
    /\ \A i \in 0 .. Len(ids) : first[i] \in BestsOf(c)

OrNative(last, value) == IF last.class = NoClass THEN [last EXCEPT !.value = value] ELSE last

LEMMA FirstAbilityRun ==
    ASSUME NEW c, ClassesOK(c), NEW env, EnvOK(env), NEW memory \in MemoriesOf(c),
           NEW ids, Len(ids) \in Nat, NEW value \in Int
    PROVE  \E first : /\ IsAbilityRun(first, c, memory, ids, env)
                      /\ FirstAbility(memory, ids, env, value) = OrNative(first[Len(ids)], value)
<1> DEFINE n         == Len(ids)
           none      == [memory |-> memory, value |-> 0, class |-> NoClass]
           Try(b, i) == TriedAbility(b, ids[i], env)
           Is(f)     == f = [i \in 0 .. n |-> IF i = 0 THEN none ELSE Try(f[i - 1], i)]
           first     == CHOOSE f : Is(f)
           step      == [i \in 1 .. n |-> [b \in BestsOf(c) |-> Try(b, i)]]
<1>1. FirstAbility(memory, ids, env, value) = OrNative(first[n], value)
  BY DEF FirstAbility, OrNative, TriedFor, TriedAbility
<1>2. none \in BestsOf(c)
  BY DEF BestsOf, AnyClass
<1>3. \A b \in BestsOf(c) : \A i \in 1 .. n : Try(b, i) \in BestsOf(c)
  BY TriedForIsBest, LocalClassAssumption DEF TriedAbility
<1> HIDE DEF Try, none, n
<1>4. n \in Nat
  BY DEF n
<1>5. step \in [1 .. n -> [BestsOf(c) -> BestsOf(c)]]
  BY <1>3
<1>6. \A i \in 1 .. n, b \in BestsOf(c) : step[i][b] = Try(b, i)
  BY <1>3
<1> HIDE DEF step
<1>7. \E f : Is(f)
  <2>1. Runs(BestsOf(c), n, none, step) # {}
    BY <1>2, <1>4, <1>5, RunExists
  <2>2. PICK f \in [0 .. n -> BestsOf(c)] :
           f[0] = none /\ \A i \in 1 .. n : f[i] = step[i][f[i - 1]]
    BY <2>1 DEF Runs
  <2>3. \A i \in 1 .. n : f[i] = Try(f[i - 1], i)
    BY <1>4, <1>6, <2>2
  <2>4. \A i \in 0 .. n : f[i] = IF i = 0 THEN none ELSE Try(f[i - 1], i)
    BY <1>4, <2>2, <2>3
  <2>5. Is(f)
    BY <2>2, <2>4
  <2> QED
    BY <2>5
<1>8. Is(first)
  BY <1>7
<1> HIDE DEF first
<1>9. first[0] = none /\ \A i \in 1 .. n : first[i] = Try(first[i - 1], i)
  BY <1>4, <1>8
<1>10. \A i \in 0 .. n : first[i] \in BestsOf(c)
  BY <1>2, <1>3, <1>4, <1>9, AllSteps
<1> QED
  BY <1>1, <1>9, <1>10 DEF IsAbilityRun, n, none, Try

LEMMA FirstAbilityResult ==
    ASSUME NEW c, ClassesOK(c), NEW env, EnvOK(env), NEW memory \in MemoriesOf(c),
           NEW ids, Len(ids) \in Nat, NEW value \in Int
    PROVE  FirstAbility(memory, ids, env, value) \in BestsOf(c)
<1>1. PICK first : /\ IsAbilityRun(first, c, memory, ids, env)
                   /\ FirstAbility(memory, ids, env, value) = OrNative(first[Len(ids)], value)
  BY FirstAbilityRun
<1> DEFINE last == first[Len(ids)]
<1>3. last \in BestsOf(c)
  BY <1>1 DEF IsAbilityRun
<1> HIDE DEF last
<1>2. [last EXCEPT !.value = value]
          = [memory |-> last.memory, value |-> value, class |-> last.class]
  BY <1>3 DEF BestsOf
<1>4. FirstAbility(memory, ids, env, value) = OrNative(last, value)
  BY <1>1 DEF last
<1> QED
  BY <1>2, <1>3, <1>4 DEF OrNative, BestsOf

------------------------------------------------------------------------------
(* Mana *)

LEMMA HeroicsAreInt ==
    ASSUME NEW id
    PROVE  HeroicManaAdjustment(id, 10, 1) \in Int /\ HeroicManaAdjustment(id, 1, 25) \in Int
<1>1. Heroic(HeroicBonus.int) \in Int /\ Heroic(HeroicBonus.wis) \in Int
  BY LocalClassAssumption DEF Heroic, Positive
<1> QED
  BY <1>1 DEF HeroicManaAdjustment

LEMMA WithHeroicsIsBest ==
    ASSUME NEW c, NEW best \in BestsOf(c)
    PROVE  WithHeroics(best, 10, 1) \in BestsOf(c) /\ WithHeroics(best, 1, 25) \in BestsOf(c)
<1>1. \A times, parts :
         WithHeroics(best, times, parts)
            = [memory |-> best.memory,
               value |-> best.value + HeroicManaAdjustment(best.class, times, parts),
               class |-> best.class]
  BY DEF WithHeroics, BestsOf
<1> QED
  BY <1>1, HeroicsAreInt DEF BestsOf

\* The best maximum, and the hooked maximum.
LEMMA MaxManaAnswer ==
    ASSUME NEW c, ClassesOK(c), NEW env, EnvOK(env), NEW memory \in MemoriesOf(c)
    PROVE  /\ \A value \in Int : EvaluateBestAuthoritativeMaxMana(memory, env, value) \in BestsOf(c)
           /\ CharacterZoneClientMaxMana(memory, env) \in AnswersOf(c)
<1>2. ASSUME NEW m \in MemoriesOf(c), NEW value \in Int
      PROVE  EvaluateBestAuthoritativeMaxMana(m, env, value) \in BestsOf(c)
  <2> DEFINE best == BestFor(m, AssignedCasters, env, value, NativeMaxMana)
  <2>1. best \in BestsOf(c)
    BY BestForIsBest, LocalClassAssumption
  <2>2. EvaluateBestAuthoritativeMaxMana(m, env, value) = WithHeroics(best, 10, 1)
    BY DEF EvaluateBestAuthoritativeMaxMana, NativeMax, BestFor
  <2> HIDE DEF best
  <2> QED
    BY <2>1, <2>2, WithHeroicsIsBest
<1> DEFINE native == NativeMax(memory, env)
           best   == EvaluateBestAuthoritativeMaxMana(native.memory, env, native.value)
<1>3. native \in ResultsOf(c)
  BY NativeForResult, LocalClassAssumption DEF NativeMax
<1>4. CharacterZoneClientMaxMana(memory, env)
         = IF ~native.ok THEN [memory |-> native.memory, value |-> 0]
           ELSE IF Eligible(native.memory) THEN Outcome(best) ELSE Outcome(native)
  BY DEF CharacterZoneClientMaxMana, Hooked
<1> HIDE DEF native
<1>5. best \in BestsOf(c)
  BY <1>2, <1>3 DEF ResultsOf
<1> HIDE DEF best
<1>6. CharacterZoneClientMaxMana(memory, env) \in AnswersOf(c)
  BY <1>3, <1>4, <1>5 DEF Outcome, ResultsOf, BestsOf, AnswersOf
<1> QED
  BY <1>2, <1>6

\* Cur_Mana stores in the object it works on, and touches no class.
LEMMA NativeCurManaResult ==
    ASSUME NEW c, ClassesOK(c), NEW env, EnvOK(env), NEW memory \in MemoriesOf(c)
    PROVE  NativeCurMana(memory, env) \in ResultsOf(c)
<1> DEFINE max   == IF hooked THEN CharacterZoneClientMaxMana(memory, env)
                              ELSE Outcome(NativeMax(memory, env))
           site  == Site(env)
           caps  == env.cap /\ memory.mana[site] > max.value
           value == IF caps THEN max.value ELSE memory.mana[site]
           under == [max.memory EXCEPT !.mana[site] = value]
           ok    == memory.class[site] \notin env.torn
<1>1. max \in AnswersOf(c)
  <2>1. NativeMax(memory, env) \in ResultsOf(c)
    BY NativeForResult, LocalClassAssumption DEF NativeMax
  <2>2. Outcome(NativeMax(memory, env)) \in AnswersOf(c)
    BY <2>1 DEF Outcome, ResultsOf, AnswersOf
  <2> QED
    BY <2>2, MaxManaAnswer
<1>2. \/ NativeCurMana(memory, env) = [memory |-> memory, ok |-> FALSE, value |-> 0]
      \/ NativeCurMana(memory, env)
            = [memory |-> under, ok |-> ok, value |-> value]
  BY DEF NativeCurMana, CurManaUnder
<1>8. ok \in BOOLEAN
  OBVIOUS
<1> HIDE DEF max, ok
<1>3. site \in Profiles /\ memory.mana \in [Profiles -> Int]
  BY SiteIsLocal DEF MemoriesOf
<1> HIDE DEF site
<1>4. value \in Int
  BY <1>1, <1>3 DEF AnswersOf
<1> HIDE DEF value
<1>5. /\ max.memory.class = c /\ max.memory.mana \in [Profiles -> Int]
      /\ max.memory = [class |-> max.memory.class, mana |-> max.memory.mana]
  BY <1>1 DEF AnswersOf, MemoriesOf
<1>6. under = [class |-> max.memory.class, mana |-> [max.memory.mana EXCEPT ![site] = value]]
  BY <1>5
<1>7. under \in MemoriesOf(c)
  BY <1>3, <1>4, <1>5, <1>6 DEF MemoriesOf
<1> HIDE DEF under
<1>9. [memory |-> memory, ok |-> FALSE, value |-> 0] \in ResultsOf(c)
  BY DEF ResultsOf
<1>10. [memory |-> under, ok |-> ok, value |-> value] \in ResultsOf(c)
  BY <1>4, <1>7, <1>8 DEF ResultsOf
<1> QED
  BY <1>2, <1>9, <1>10

LEMMA WithStoredManaMemory ==
    ASSUME NEW c, NEW memory \in MemoriesOf(c), NEW env, NEW stored \in [Profiles -> Int]
    PROVE  WithStoredMana(memory, stored, env) \in MemoriesOf(c)
<1> DEFINE mana2 == [a \in Profiles |-> IF a \in ManaObjects(memory) \ env.failing
                                       THEN stored[a] ELSE memory.mana[a]]
<1>1. WithStoredMana(memory, stored, env) = [class |-> memory.class, mana |-> mana2]
  BY DEF WithStoredMana, MemoriesOf
<1>2. mana2 \in [Profiles -> Int]
  BY DEF MemoriesOf
<1> HIDE DEF mana2
<1> QED
  BY <1>1, <1>2 DEF MemoriesOf

LEMMA CurManaPreservingResult ==
    ASSUME NEW c, ClassesOK(c), NEW env, EnvOK(env), NEW memory \in MemoriesOf(c)
    PROVE  CurManaPreservingStorage(memory, env) \in ResultsOf(c)
<1> DEFINE call == NativeCurMana(memory, env)
<1>1. call \in ResultsOf(c)
  BY NativeCurManaResult
<1>2. CurManaPreservingStorage(memory, env) = PutBack(call, memory, env)
  BY DEF CurManaPreservingStorage
<1> HIDE DEF call
<1>3. [call EXCEPT !.memory = WithStoredMana(call.memory, memory.mana, env)]
         = [memory |-> WithStoredMana(call.memory, memory.mana, env),
            ok |-> call.ok, value |-> call.value]
  BY <1>1 DEF ResultsOf
<1>4. call.memory \in MemoriesOf(c) /\ memory.mana \in [Profiles -> Int]
  BY <1>1 DEF ResultsOf, MemoriesOf
<1>5. WithStoredMana(call.memory, memory.mana, env) \in MemoriesOf(c)
  BY <1>4, WithStoredManaMemory
<1> QED
  BY <1>1, <1>2, <1>3, <1>5 DEF PutBack, ResultsOf

\* One class of a sequence, for the stored mana.
TriedCur(best, id, env) == Tried(best, id, env, LAMBDA m : CurManaPreservingStorage(m, env))

LEMMA TriedCurIsBest ==
    ASSUME NEW c, ClassesOK(c), NEW env, EnvOK(env), NEW best \in BestsOf(c), NEW id
    PROVE  TriedCur(best, id, env) \in BestsOf(c)
<1> DEFINE memory   == best.memory
           override == TryApplyTemporaryLocalClassOverride(memory, id, env)
           probe    == Probe(memory, id, env, LAMBDA m : CurManaPreservingStorage(m, env))
<1>1. memory \in MemoriesOf(c)
  BY DEF BestsOf
<1>2. probe = IF ~override.active THEN [memory |-> memory, ok |-> FALSE, value |-> 0]
              ELSE WrittenBack(CurManaPreservingStorage(override.memory, env), override.saved, env)
  BY DEF Probe
<1>3. TriedCur(best, id, env) = Better(best, id, probe)
  BY DEF TriedCur, Tried
<1> HIDE DEF probe, override, memory
<1>4. probe \in ResultsOf(c) /\ (probe.ok => IsPlayableClassId(id))
  <2>1. CASE ~override.active
    BY <1>1, <1>2, <2>1 DEF ResultsOf
  <2>2. CASE override.active
    <3>1. override.memory \in MemoriesOf(override.memory.class)
          /\ ClassesOK(override.memory.class) /\ IsPlayableClassId(id)
      BY <1>1, <2>2, OverrideWrittenBack DEF override
    <3>2. CurManaPreservingStorage(override.memory, env) \in ResultsOf(override.memory.class)
      BY <3>1, CurManaPreservingResult
    <3>3. WrittenBack(CurManaPreservingStorage(override.memory, env), override.saved, env)
             \in ResultsOf(c)
      BY <1>1, <2>2, <3>2, OverrideWrittenBack DEF override
    <3> QED
      BY <1>2, <2>2, <3>1, <3>3
  <2> QED
    BY <2>1, <2>2
<1> QED
  BY <1>3, <1>4, BetterIsBest

\* The best of them is the last of a run.
TriedCaster(best, id, env) == IF id \notin AssignedCasters THEN best ELSE TriedCur(best, id, env)

IsCurRun(best, c, memory, env, value) ==
    LET n == Len(ClassOrder) IN
    /\ BestCurMana(memory, env, value) = best[n]
    /\ best[0] = [memory |-> memory, value |-> value, class |-> NoClass]
    /\ \A i \in 1 .. n : best[i] = TriedCaster(best[i - 1], ClassOrder[i], env)
    /\ \A i \in 0 .. n : best[i] \in BestsOf(c)

LEMMA BestCurManaRun ==
    ASSUME NEW c, ClassesOK(c), NEW env, EnvOK(env), NEW memory \in MemoriesOf(c),
           NEW value \in Int
    PROVE  \E best : IsCurRun(best, c, memory, env, value)
<1> DEFINE n         == Len(ClassOrder)
           none      == [memory |-> memory, value |-> value, class |-> NoClass]
           Try(b, i) == TriedCaster(b, ClassOrder[i], env)
           Is(f)     == f = [i \in 0 .. n |-> IF i = 0 THEN none ELSE Try(f[i - 1], i)]
           best      == CHOOSE f : Is(f)
           step      == [i \in 1 .. n |-> [b \in BestsOf(c) |-> Try(b, i)]]
<1>1. BestCurMana(memory, env, value) = best[n]
  BY DEF BestCurMana, EvaluateBest, TriedCaster, TriedCur
<1>2. none \in BestsOf(c)
  BY DEF BestsOf, AnyClass
<1>3. \A b \in BestsOf(c) : \A i \in 1 .. n : Try(b, i) \in BestsOf(c)
  BY TriedCurIsBest DEF TriedCaster
<1>4. n \in Nat
  BY ClassOrderLength
<1> HIDE DEF Try, none, n
<1>5. step \in [1 .. n -> [BestsOf(c) -> BestsOf(c)]]
  BY <1>3
<1>6. \A i \in 1 .. n, b \in BestsOf(c) : step[i][b] = Try(b, i)
  BY <1>3
<1> HIDE DEF step
<1>7. \E f : Is(f)
  <2>1. Runs(BestsOf(c), n, none, step) # {}
    BY <1>2, <1>4, <1>5, RunExists
  <2>2. PICK f \in [0 .. n -> BestsOf(c)] :
           f[0] = none /\ \A i \in 1 .. n : f[i] = step[i][f[i - 1]]
    BY <2>1 DEF Runs
  <2>3. \A i \in 1 .. n : f[i] = Try(f[i - 1], i)
    BY <1>4, <1>6, <2>2
  <2> QED
    BY <1>4, <2>2, <2>3
<1>8. Is(best)
  BY <1>7
<1> HIDE DEF best
<1>9. best[0] = none /\ \A i \in 1 .. n : best[i] = Try(best[i - 1], i)
  BY <1>4, <1>8
<1>10. \A i \in 0 .. n : best[i] \in BestsOf(c)
  BY <1>2, <1>3, <1>4, <1>9, AllSteps
<1> QED
  BY <1>1, <1>9, <1>10 DEF IsCurRun, n, none, Try

LEMMA BestCurManaIsBest ==
    ASSUME NEW c, ClassesOK(c), NEW env, EnvOK(env), NEW memory \in MemoriesOf(c),
           NEW value \in Int
    PROVE  BestCurMana(memory, env, value) \in BestsOf(c)
<1>1. PICK best : IsCurRun(best, c, memory, env, value)
  BY BestCurManaRun
<1> QED
  BY <1>1, ClassOrderLength DEF IsCurRun

LEMMA StoredIfBetterAnswer ==
    ASSUME NEW c, NEW best, best.value \in Int, NEW stored \in Int, NEW memory \in MemoriesOf(c)
    PROVE  StoredIfBetter(best, stored, memory) \in AnswersOf(c)
BY DEF StoredIfBetter, AnswersOf

\* The best current mana is an answer.
LEMMA BestCurManaAnswer ==
    ASSUME NEW c, ClassesOK(c), NEW env, EnvOK(env), NEW memory \in MemoriesOf(c),
           NEW value \in Int
    PROVE  EvaluateBestAuthoritativeCurMana(memory, env, value) \in AnswersOf(c)
<1> DEFINE best == BestCurMana(memory, env, value)
           max  == EvaluateBestAuthoritativeMaxMana(best.memory, env, 0)
<1>1. best \in BestsOf(c)
  BY BestCurManaIsBest
<1>2. EvaluateBestAuthoritativeCurMana(memory, env, value)
         = StoredIfBetter(best, Capped(max.memory.mana[profile], env, max.value), max.memory)
  BY DEF EvaluateBestAuthoritativeCurMana, WithBestMax, WithinMax
<1> HIDE DEF best
<1>6. best.memory \in MemoriesOf(c)
  BY <1>1 DEF BestsOf
<1>3. max \in BestsOf(c)
  BY <1>6, MaxManaAnswer
<1> HIDE DEF max
<1>4. max.memory \in MemoriesOf(c) /\ max.memory.mana[profile] \in Int /\ max.value \in Int
  BY <1>3 DEF BestsOf, MemoriesOf, EnvOK
<1>5. Capped(max.memory.mana[profile], env, max.value) \in Int
  BY <1>4 DEF Capped, Positive
<1> QED
  BY <1>1, <1>2, <1>4, <1>5, StoredIfBetterAnswer DEF BestsOf

\* The current mana the hook answers.
LEMMA CurManaAnswer ==
    ASSUME NEW c, ClassesOK(c), NEW env, EnvOK(env), NEW memory \in MemoriesOf(c)
    PROVE  CharacterZoneClientCurMana(memory, env) \in AnswersOf(c)
<1> DEFINE native  == NativeCurMana(memory, env)
           current == EvaluateBestAuthoritativeCurMana(native.memory, env, native.value)
           max     == EvaluateBestAuthoritativeMaxMana(current.memory, env, 0)
           full    == [a \in Profiles |-> max.value]
<1>1. native \in ResultsOf(c)
  BY NativeCurManaResult
<1>2. CharacterZoneClientCurMana(memory, env) = CurManaFrom(native, env)
  BY DEF CharacterZoneClientCurMana
<1> HIDE DEF native
<1>3. current \in AnswersOf(c)
  BY <1>1, BestCurManaAnswer DEF ResultsOf
<1>4. CurManaFrom(native, env) \in
         {[memory |-> native.memory, value |-> 0], Outcome(native), current,
          [memory |-> WithStoredMana(max.memory, full, env), value |-> max.value],
          [memory |-> max.memory, value |-> current.value]}
  BY DEF CurManaFrom, Seeded, Refilled
<1> HIDE DEF current
<1>5. max \in BestsOf(c)
  BY <1>3, MaxManaAnswer DEF AnswersOf
<1>6. max.memory \in MemoriesOf(c) /\ max.value \in Int
  BY <1>5 DEF BestsOf
<1> HIDE DEF max
<1>7. full \in [Profiles -> Int]
  BY <1>6
<1> HIDE DEF full
<1>8. WithStoredMana(max.memory, full, env) \in MemoriesOf(c)
  BY <1>6, <1>7, WithStoredManaMemory
<1>9. native.memory \in MemoriesOf(c) /\ native.value \in Int
  BY <1>1 DEF ResultsOf
<1>10. current.value \in Int
  BY <1>3 DEF AnswersOf
<1> QED
  BY <1>2, <1>3, <1>4, <1>6, <1>8, <1>9, <1>10 DEF Outcome, AnswersOf

\* The mana regeneration.
LEMMA ManaRegenAnswer ==
    ASSUME NEW c, ClassesOK(c), NEW env, EnvOK(env), NEW memory \in MemoriesOf(c)
    PROVE  CharacterZoneClientGetManaRegen(memory, env) \in AnswersOf(c)
<1> DEFINE native == NativeFor(memory, env, NativeSkill)
           best   == BestFor(native.memory, AssignedCasters, env, native.value, NativeSkill)
           better == WithHeroics(best, 1, 25)
<1>1. native \in ResultsOf(c)
  BY NativeForResult, LocalClassAssumption
<1>2. CharacterZoneClientGetManaRegen(memory, env)
         = IF ~native.ok THEN [memory |-> native.memory, value |-> 0]
           ELSE IF Eligible(native.memory) THEN Outcome(better) ELSE Outcome(native)
  BY DEF CharacterZoneClientGetManaRegen, EvaluateBestAuthoritativeManaRegen, Hooked, BestFor
<1> HIDE DEF native
<1>4. best \in BestsOf(c)
  BY <1>1, BestForIsBest, LocalClassAssumption DEF ResultsOf
<1> HIDE DEF best
<1>5. better \in BestsOf(c)
  BY <1>4, WithHeroicsIsBest
<1> HIDE DEF better
<1> QED
  BY <1>1, <1>2, <1>5 DEF Outcome, ResultsOf, BestsOf, AnswersOf

LEMMA PercentOfMemory ==
    ASSUME NEW value, NEW max
    PROVE  PercentOf(value, max).memory = max.memory
BY DEF PercentOf

\* The gauge's percentage.
LEMMA ManaPercentMemory ==
    ASSUME NEW c, ClassesOK(c), NEW env, EnvOK(env), NEW memory \in MemoriesOf(c)
    PROVE  LocalPlayerManaPercent(memory, env).memory \in MemoriesOf(c)
<1> DEFINE capped  == [env EXCEPT !.cap = TRUE]
           native  == NativeCurMana(memory, capped)
           max     == NativeMax(native.memory, capped)
           current == EvaluateBestAuthoritativeCurMana(max.memory, capped, native.value)
           best    == EvaluateBestAuthoritativeMaxMana(current.memory, capped, max.value)
           percent == LocalPlayerManaPercent(memory, env)
<1>1. EnvOK(capped)
  <2>1. env \in [site : {"profile", "record"}, cap : BOOLEAN, faults : SUBSET PlayableClasses,
                 torn : SUBSET PlayableClasses, failing : SUBSET (Spawns \cup Profiles)]
    BY DEF EnvOK
  <2>2. /\ capped \in [site : {"profile", "record"}, cap : BOOLEAN,
                       faults : SUBSET PlayableClasses, torn : SUBSET PlayableClasses,
                       failing : SUBSET (Spawns \cup Profiles)]
        /\ capped.site = env.site
    BY <2>1
  <2> HIDE DEF capped
  <2> QED
    BY <2>2 DEF EnvOK
<1>2. percent \in
         {[memory |-> native.memory, ok |-> FALSE, percent |-> 0],
          [memory |-> max.memory, ok |-> FALSE, percent |-> 0],
          PercentOf(current.value, best), PercentOf(native.value, max)}
  BY DEF LocalPlayerManaPercent, PercentAfter, NativePercent, BestPercent
<1> HIDE DEF capped
<1>3. native \in ResultsOf(c)
  BY <1>1, NativeCurManaResult
<1> HIDE DEF native
<1>4. native.memory \in MemoriesOf(c) /\ native.value \in Int
  BY <1>3 DEF ResultsOf
<1>5. max \in ResultsOf(c)
  BY <1>1, <1>4, NativeForResult, LocalClassAssumption DEF NativeMax
<1> HIDE DEF max
<1>6. max.memory \in MemoriesOf(c) /\ max.value \in Int
  BY <1>5 DEF ResultsOf
<1>7. current \in AnswersOf(c)
  BY <1>1, <1>4, <1>6, BestCurManaAnswer
<1> HIDE DEF current
<1>8. best \in BestsOf(c)
  BY <1>1, <1>6, <1>7, MaxManaAnswer DEF AnswersOf
<1> HIDE DEF best
<1>9. best.memory \in MemoriesOf(c)
  BY <1>8 DEF BestsOf
<1> HIDE DEF percent
<1>10. percent.memory \in {native.memory, max.memory, best.memory}
  BY <1>2, PercentOfMemory
<1> QED
  BY <1>4, <1>6, <1>9, <1>10 DEF percent

\* The percentage, or another value.
LEMMA PercentOrMemory ==
    ASSUME NEW c, NEW percent, percent.memory \in MemoriesOf(c), NEW value
    PROVE  PercentOr(percent, value).memory \in MemoriesOf(c)
BY DEF PercentOr

\* The gauge and the label of the mana.
LEMMA ResolverMemory ==
    ASSUME NEW c, ClassesOK(c), NEW env, EnvOK(env), NEW memory \in MemoriesOf(c),
           NEW gauge \in BOOLEAN
    PROVE  PlayerManaEqTypeResolver(memory, env, gauge).memory \in MemoriesOf(c)
<1> DEFINE native  == NativeFor(memory, env, NativeSkill)
           percent == PercentOr(LocalPlayerManaPercent(native.memory, env), native.value)
           best    == BestFor(native.memory, AssignedCasters, env, native.value, NativeSkill)
<1>1. native \in ResultsOf(c)
  BY NativeForResult, LocalClassAssumption
<1>2. PlayerManaEqTypeResolver(memory, env, gauge)
         = IF ~native.ok THEN [memory |-> native.memory, value |-> 0]
           ELSE IF gauge THEN percent
           ELSE IF Eligible(native.memory) THEN Outcome(best) ELSE Outcome(native)
  BY DEF PlayerManaEqTypeResolver, BestFor
<1> HIDE DEF native
<1>3. native.memory \in MemoriesOf(c) /\ native.value \in Int
  BY <1>1 DEF ResultsOf
<1>4. percent.memory \in MemoriesOf(c)
  BY <1>3, ManaPercentMemory, PercentOrMemory
<1> HIDE DEF percent
<1>6. best \in BestsOf(c)
  BY <1>3, BestForIsBest, LocalClassAssumption
<1> HIDE DEF best
<1>7. best.memory \in MemoriesOf(c)
  BY <1>6 DEF BestsOf
<1>8. Outcome(best).memory = best.memory /\ Outcome(native).memory = native.memory
  BY DEF Outcome
<1> QED
  BY <1>2, <1>3, <1>4, <1>7, <1>8

LEMMA ManaLabelMemory ==
    ASSUME NEW c, ClassesOK(c), NEW env, EnvOK(env), NEW memory \in MemoriesOf(c)
    PROVE  ManaLabel(memory, env).memory \in MemoriesOf(c)
BY ManaPercentMemory, PercentOrMemory DEF ManaLabel

------------------------------------------------------------------------------
(* Skills and combat abilities *)

LEMMA SkillMemory ==
    ASSUME NEW c, ClassesOK(c), NEW env, EnvOK(env), NEW memory \in MemoriesOf(c)
    PROVE  /\ AdjustedSkill(memory, env).memory \in MemoriesOf(c)
           /\ SkillsWindowRow(memory, env).memory \in MemoriesOf(c)
<1> DEFINE native == NativeFor(memory, env, NativeSkill)
           best   == BestFor(native.memory, AssignedClasses, env, native.value, NativeSkill)
<1>1. native \in ResultsOf(c)
  BY NativeForResult, LocalClassAssumption
<1>2. /\ AdjustedSkill(memory, env)
            = IF ~native.ok \/ native.value > 0 \/ ~MaskAssigns
              THEN [memory |-> native.memory, value |-> native.value]
              ELSE [memory |-> best.memory, value |-> best.value]
      /\ SkillsWindowRow(memory, env)
            = IF ~native.ok \/ ~MaskAssigns
              THEN [memory |-> native.memory, value |-> native.value]
              ELSE [memory |-> best.memory, value |-> best.value]
  BY DEF AdjustedSkill, SkillsWindowRow, BestFor
<1> HIDE DEF native
<1>3. native.memory \in MemoriesOf(c) /\ native.value \in Int
  BY <1>1 DEF ResultsOf
<1>5. best \in BestsOf(c)
  BY <1>3, BestForIsBest, LocalClassAssumption
<1> HIDE DEF best
<1>6. best.memory \in MemoriesOf(c)
  BY <1>5 DEF BestsOf
<1> QED
  BY <1>2, <1>3, <1>6

LEMMA CombatAbilityMemory ==
    ASSUME NEW c, ClassesOK(c), NEW env, EnvOK(env), NEW memory \in MemoriesOf(c)
    PROVE  CombatAbility(memory, env).memory \in MemoriesOf(c)
<1> DEFINE native == NativeFor(memory, env, NativeSkill)
           ids    == BuildAuthoritativeCombatAbilityClassOrder(auth, Displayed(native.memory))
           first  == FirstAbility(native.memory, ids, env, native.value)
<1>1. native \in ResultsOf(c)
  BY NativeForResult, LocalClassAssumption
<1>2. CombatAbility(memory, env)
         = IF ~native.ok \/ native.value > 0 \/ ~MaskAssigns
           THEN [memory |-> native.memory, value |-> native.value]
           ELSE [memory |-> first.memory, value |-> first.value]
  BY DEF CombatAbility
<1> HIDE DEF native
<1>3. native.memory \in MemoriesOf(c) /\ native.value \in Int
  BY <1>1 DEF ResultsOf
<1>4. MaskAssigns => Len(ids) \in Nat
  BY AbilityClassOrder, LenProperties DEF MaskAssigns
<1> HIDE DEF ids
<1>5. MaskAssigns => first \in BestsOf(c)
  BY <1>3, <1>4, FirstAbilityResult
<1> HIDE DEF first
<1>6. MaskAssigns => first.memory \in MemoriesOf(c)
  BY <1>5 DEF BestsOf
<1> QED
  BY <1>2, <1>3, <1>6

\* Whatever a hooked call meets, it leaves the classes it found.
LEMMA CallsKeep ==
    ASSUME NEW c, ClassesOK(c), NEW env, EnvOK(env), Memory \in MemoriesOf(c),
           NEW call \in Calls(env)
    PROVE  call.memory \in MemoriesOf(c)
<1>1. /\ CharacterZoneClientCurMana(Memory, env).memory \in MemoriesOf(c)
      /\ CharacterZoneClientMaxMana(Memory, env).memory \in MemoriesOf(c)
      /\ CharacterZoneClientGetManaRegen(Memory, env).memory \in MemoriesOf(c)
  BY CurManaAnswer, MaxManaAnswer, ManaRegenAnswer DEF AnswersOf
<1>2. /\ PlayerManaEqTypeResolver(Memory, env, TRUE).memory \in MemoriesOf(c)
      /\ PlayerManaEqTypeResolver(Memory, env, FALSE).memory \in MemoriesOf(c)
  BY ResolverMemory
<1>3. ManaLabel(Memory, env).memory \in MemoriesOf(c)
  BY ManaLabelMemory
<1>4. /\ AdjustedSkill(Memory, env).memory \in MemoriesOf(c)
      /\ SkillsWindowRow(Memory, env).memory \in MemoriesOf(c)
      /\ CombatAbility(Memory, env).memory \in MemoriesOf(c)
  BY SkillMemory, CombatAbilityMemory
<1> QED
  BY <1>1, <1>2, <1>3, <1>4 DEF Calls

------------------------------------------------------------------------------
(* A call in which nothing fails: it computes with the class of its override,  *)
(* and leaves the memory it found.                                             *)

LEMMA CleanOverride ==
    ASSUME NEW c, ClassesOK(c), NEW memory \in MemoriesOf(c), NEW env, EnvOK(env), Clean(env),
           NEW id \in PlayableClasses,
           NEW override, override = TryApplyTemporaryLocalClassOverride(memory, id, env)
    PROVE  /\ override.active
           /\ \A a \in LocalObjects : override.memory.class[a] = id
           /\ override.memory.mana = memory.mana
           /\ \A call \in ResultsOf(override.memory.class) :
                  call.memory.mana = memory.mana =>
                      WrittenBack(call, override.saved, env)
                         = [memory |-> memory, ok |-> call.ok, value |-> call.value]
<1> DEFINE saved == SavedClasses(memory)
           over  == {a \in DOMAIN saved \ env.failing : IsPlayableClassId(id)}
           under == [a \in Addresses |-> IF a \in over THEN id ELSE c[a]]
<1>1. memory = [class |-> c, mana |-> memory.mana] /\ memory.class = c
  BY DEF MemoriesOf
<1>2. LocalObjects \subseteq Addresses /\ profile \in LocalObjects
  BY LocalObjectsAddresses DEF EnvOK, LocalObjects, InWorld
<1>3. DOMAIN saved = LocalObjects
  BY <1>1 DEF SavedClasses, ClassesOK, IsPlayableClassId
<1>4. /\ override.active = (over # {})
      /\ override.saved = saved
      /\ override.memory = [memory EXCEPT !.class =
                               [a \in Addresses |-> IF a \in over THEN id ELSE @[a]]]
  BY DEF TryApplyTemporaryLocalClassOverride
<1> HIDE DEF saved
<1>5. over = LocalObjects
  BY <1>3 DEF Clean, IsPlayableClassId
<1> HIDE DEF over
<1>6. override.memory = [class |-> under, mana |-> memory.mana]
  BY <1>1, <1>4
<1>7. override.active
  BY <1>2, <1>4, <1>5
<1>8. ASSUME NEW call \in ResultsOf(override.memory.class), call.memory.mana = memory.mana
      PROVE  WrittenBack(call, override.saved, env)
                = [memory |-> memory, ok |-> call.ok, value |-> call.value]
  <2> DEFINE back == WrittenBack(call, override.saved, env)
  <2>1. back \in ResultsOf(c)
    BY <1>7, OverrideWrittenBack
  <2>2. /\ call = [memory |-> call.memory, ok |-> call.ok, value |-> call.value]
        /\ call.memory = [class |-> call.memory.class, mana |-> call.memory.mana]
    BY DEF ResultsOf, MemoriesOf
  <2>3. \A m : RestoreTemporaryLocalClassOverride([class |-> m.class, mana |-> m.mana],
                                                  override.saved, env).mana = m.mana
    BY DEF RestoreTemporaryLocalClassOverride
  <2>4. RestoreTemporaryLocalClassOverride(call.memory, override.saved, env).mana = memory.mana
    BY <1>8, <2>2, <2>3
  <2>5. back = [memory |-> RestoreTemporaryLocalClassOverride(call.memory, override.saved, env),
                ok |-> call.ok, value |-> call.value]
    BY <2>2 DEF WrittenBack
  <2> HIDE DEF back
  <2>6. back.memory = [class |-> c, mana |-> back.memory.mana]
    BY <2>1 DEF ResultsOf, MemoriesOf
  <2> QED
    BY <1>1, <2>4, <2>5, <2>6 DEF back
<1> QED
  BY <1>2, <1>5, <1>6, <1>7, <1>8

\* A probe of a function without side effects answers the class's own value.
LEMMA CleanTriedFor ==
    ASSUME NEW c, ClassesOK(c), NEW env, EnvOK(env), Clean(env),
           NEW table \in [PlayableClasses -> Nat],
           NEW best \in BestsOf(c), NEW id \in PlayableClasses
    PROVE  TriedFor(best, id, env, table)
              = IF table[id] > best.value
                THEN [memory |-> best.memory, value |-> table[id], class |-> id] ELSE best
<1> DEFINE memory   == best.memory
           override == TryApplyTemporaryLocalClassOverride(memory, id, env)
           native   == NativeFor(override.memory, env, table)
           probe    == Probe(memory, id, env, LAMBDA m : NativeFor(m, env, table))
<1>1. memory \in MemoriesOf(c) /\ best = [memory |-> memory, value |-> best.value, class |-> best.class]
  BY DEF BestsOf
<1>2. probe = IF ~override.active THEN [memory |-> memory, ok |-> FALSE, value |-> 0]
              ELSE WrittenBack(native, override.saved, env)
  BY DEF Probe
<1>3. TriedFor(best, id, env, table) = Better(best, id, probe)
  BY DEF TriedFor, Tried
<1>4. native = [memory |-> override.memory,
                ok     |-> override.memory.class[Site(env)] \notin env.faults,
                value  |-> IF override.memory.class[Site(env)] \in env.faults THEN 0
                           ELSE table[override.memory.class[Site(env)]]]
  BY DEF NativeFor
<1> HIDE DEF probe, native
<1>5. /\ override.active
      /\ \A a \in LocalObjects : override.memory.class[a] = id
      /\ override.memory.mana = memory.mana
      /\ \A call \in ResultsOf(override.memory.class) :
             call.memory.mana = memory.mana =>
                 WrittenBack(call, override.saved, env)
                    = [memory |-> memory, ok |-> call.ok, value |-> call.value]
  BY <1>1, CleanOverride
<1>6. override.memory.class[Site(env)] = id
  BY <1>5, SiteIsLocal
<1>7. native \in ResultsOf(override.memory.class)
  BY <1>1, <1>5, OverrideWrittenBack, NativeForResult DEF native
<1>8. native.memory.mana = memory.mana /\ native.ok /\ native.value = table[id]
  BY <1>4, <1>5, <1>6 DEF Clean
<1> HIDE DEF override
<1>9. WrittenBack(native, override.saved, env)
         = [memory |-> memory, ok |-> native.ok, value |-> native.value]
  BY <1>5, <1>7, <1>8
<1>10. probe.memory = memory /\ probe.ok /\ probe.value = table[id]
  BY <1>2, <1>5, <1>8, <1>9
<1> HIDE DEF memory
<1>11. [best EXCEPT !.memory = memory] = best
  BY <1>1
<1> QED
  BY <1>3, <1>10, <1>11 DEF Better, memory

\* The best of the assigned classes starts at the value given and is at least what
\* each of them has; the memory is as it was.
LEMMA CleanBestFor ==
    ASSUME NEW c, ClassesOK(c), NEW env, EnvOK(env), Clean(env),
           NEW table \in [PlayableClasses -> Nat], NEW memory \in MemoriesOf(c),
           NEW ids, NEW value \in Int,
           NEW result, result = BestFor(memory, ids, env, value, table)
    PROVE  /\ result \in BestsOf(c) /\ result.memory = memory
           /\ result.value >= value
           /\ \A id \in PlayableClasses \cap ids : table[id] <= result.value
<1> DEFINE n     == Len(ClassOrder)
           up(i) == {b \in BestsOf(c) : /\ b.memory = memory /\ b.value >= value
                                        /\ \A j \in 1 .. i : ClassOrder[j] \in ids =>
                                               table[ClassOrder[j]] <= b.value}
           D     == [i \in 0 .. n |-> up(i)]
<1>1. n \in Nat /\ \A i \in 1 .. n : ClassOrder[i] \in PlayableClasses
                                     /\ table[ClassOrder[i]] \in Nat
  BY LenProperties, ElementOfSeq, ClassOrderAssumption
<1>2. PICK best : IsBestRun(best, c, memory, ids, env, value, table)
  BY BestForRun
<1>3. best[0] \in D[0]
  <2>1. best[0] = [memory |-> memory, value |-> value, class |-> NoClass] /\ best[0] \in BestsOf(c)
    BY <1>1, <1>2 DEF IsBestRun
  <2>2. best[0] \in up(0)
    BY <2>1
  <2> QED
    BY <1>1, <2>2
<1>4. ASSUME NEW i \in 1 .. n, best[i - 1] \in D[i - 1]
      PROVE  best[i] \in D[i]
  <2> DEFINE b == best[i - 1]
             id == ClassOrder[i]
  <2>1. best[i] = TriedOf(ids, b, id, env, table) /\ best[i] \in BestsOf(c)
    BY <1>1, <1>2 DEF IsBestRun
  <2>2. b \in up(i - 1) /\ b \in BestsOf(c) /\ b.value \in Int
    BY <1>1, <1>4 DEF BestsOf
  <2>3. id \in PlayableClasses /\ table[id] \in Nat
    BY <1>1
  <2> HIDE DEF b
  <2>4. id \in ids =>
           best[i] = IF table[id] > b.value
                     THEN [memory |-> b.memory, value |-> table[id], class |-> id] ELSE b
    BY <2>1, <2>2, <2>3, CleanTriedFor DEF TriedOf
  <2>5. id \notin ids => best[i] = b
    BY <2>1 DEF TriedOf
  <2>6. /\ best[i].memory = memory /\ best[i].value >= b.value /\ best[i].value \in Int
        /\ id \in ids => table[id] <= best[i].value
    BY <2>2, <2>3, <2>4, <2>5
  <2>7. \A j \in 1 .. i : j \in 1 .. i - 1 \/ j = i
    OBVIOUS
  <2>8. \A j \in 1 .. i : ClassOrder[j] \in ids => table[ClassOrder[j]] <= best[i].value
    <3>1. SUFFICES ASSUME NEW j \in 1 .. i - 1, ClassOrder[j] \in ids
                   PROVE  table[ClassOrder[j]] <= best[i].value
      BY <2>6, <2>7
    <3>2. table[ClassOrder[j]] <= b.value /\ table[ClassOrder[j]] \in Nat
      BY <1>1, <2>2, <3>1
    <3> QED
      BY <2>2, <2>6, <3>2
  <2>9. best[i] \in up(i)
    BY <2>1, <2>2, <2>6, <2>8
  <2> QED
    BY <1>1, <2>9
<1> HIDE DEF D, n
<1>5. \A i \in 0 .. n : best[i] \in D[i]
  BY <1>1, <1>3, <1>4, AllStages
<1>6. result \in up(n)
  <2>1. best[n] \in up(n)
    BY <1>1, <1>5 DEF D
  <2> QED
    BY <1>2, <2>1 DEF IsBestRun, n
<1>7. ASSUME NEW id \in PlayableClasses \cap ids
      PROVE  table[id] <= result.value
  <2>1. PICK i \in 1 .. n : ClassOrder[i] = id
    BY ClassOrderAssumption DEF ToSet, n
  <2> QED
    BY <1>6, <2>1
<1> QED
  BY <1>6, <1>7

\* It depends on nothing in memory: neither the stored mana nor the classes there.
LEMMA CleanBestSame ==
    ASSUME NEW c, ClassesOK(c), NEW env1, EnvOK(env1), Clean(env1),
           NEW env2, EnvOK(env2), Clean(env2),
           NEW table \in [PlayableClasses -> Nat],
           NEW memory1 \in MemoriesOf(c), NEW memory2 \in MemoriesOf(c), NEW ids, NEW value \in Int,
           NEW result1, result1 = BestFor(memory1, ids, env1, value, table),
           NEW result2, result2 = BestFor(memory2, ids, env2, value, table)
    PROVE  result1.value = result2.value /\ result1.class = result2.class
<1> DEFINE n         == Len(ClassOrder)
           like(b)   == {a \in BestsOf(c) : a.value = b.value /\ a.class = b.class}
<1>1. n \in Nat /\ \A i \in 1 .. n : ClassOrder[i] \in PlayableClasses
                                     /\ table[ClassOrder[i]] \in Nat
  BY LenProperties, ElementOfSeq, ClassOrderAssumption
<1>2. PICK best1 : IsBestRun(best1, c, memory1, ids, env1, value, table)
  BY BestForRun
<1>3. PICK best2 : IsBestRun(best2, c, memory2, ids, env2, value, table)
  BY BestForRun
<1> DEFINE D == [i \in 0 .. n |-> like(best2[i])]
<1>4. best1[0] \in D[0]
  <2>1. /\ best1[0] = [memory |-> memory1, value |-> value, class |-> NoClass]
        /\ best2[0] = [memory |-> memory2, value |-> value, class |-> NoClass]
        /\ best1[0] \in BestsOf(c)
    BY <1>1, <1>2, <1>3 DEF IsBestRun
  <2>2. best1[0] \in like(best2[0])
    BY <2>1
  <2> QED
    BY <1>1, <2>2
<1>5. ASSUME NEW i \in 1 .. n, best1[i - 1] \in D[i - 1]
      PROVE  best1[i] \in D[i]
  <2> DEFINE a  == best1[i - 1]
             b  == best2[i - 1]
             id == ClassOrder[i]
  <2>1. /\ best1[i] = TriedOf(ids, a, id, env1, table) /\ best1[i] \in BestsOf(c)
        /\ best2[i] = TriedOf(ids, b, id, env2, table)
        /\ a \in BestsOf(c) /\ b \in BestsOf(c)
    BY <1>1, <1>2, <1>3 DEF IsBestRun
  <2>2. a.value = b.value /\ a.class = b.class
    BY <1>1, <1>5
  <2>3. id \in PlayableClasses
    BY <1>1
  <2> HIDE DEF a, b, id
  <2>4. id \in ids =>
           best1[i] = IF table[id] > a.value
                      THEN [memory |-> a.memory, value |-> table[id], class |-> id] ELSE a
    BY <2>1, <2>3, CleanTriedFor DEF TriedOf
  <2>5. id \in ids =>
           best2[i] = IF table[id] > b.value
                      THEN [memory |-> b.memory, value |-> table[id], class |-> id] ELSE b
    BY <2>1, <2>3, CleanTriedFor DEF TriedOf
  <2>6. best1[i].value = best2[i].value /\ best1[i].class = best2[i].class
    BY <2>1, <2>2, <2>4, <2>5 DEF TriedOf
  <2>7. best1[i] \in like(best2[i])
    BY <2>1, <2>6
  <2> QED
    BY <1>1, <2>7
<1> HIDE DEF D, n
<1>6. \A i \in 0 .. n : best1[i] \in D[i]
  BY <1>1, <1>4, <1>5, AllStages
<1>7. best1[n] \in like(best2[n])
  BY <1>1, <1>6 DEF D
<1> QED
  BY <1>2, <1>3, <1>7 DEF IsBestRun, n

\* The ability of one of the sequence's classes, or the value given when none has any.
AbilityAmong(result, ids, value) ==
    \/ result = value /\ \A i \in 1 .. Len(ids) : NativeSkill[ids[i]] = 0
    \/ \E i \in 1 .. Len(ids) : result = NativeSkill[ids[i]] /\ NativeSkill[ids[i]] > 0

\* Trying one class for a skill, when nothing fails.
LEMMA CleanTriedSkill ==
    ASSUME NEW c, ClassesOK(c), NEW env, EnvOK(env), Clean(env),
           NEW best \in BestsOf(c), NEW id \in PlayableClasses
    PROVE  TriedFor(best, id, env, NativeSkill)
              = IF NativeSkill[id] > best.value
                THEN [memory |-> best.memory, value |-> NativeSkill[id], class |-> id] ELSE best
<1>1. NativeSkill \in [PlayableClasses -> Nat]
  BY LocalClassAssumption
<1> QED
  BY <1>1, CleanTriedFor

\* The first class that answers, when nothing fails; the memory is as it was.
LEMMA CleanFirstAbility ==
    ASSUME NEW c, ClassesOK(c), NEW env, EnvOK(env), Clean(env), NEW memory \in MemoriesOf(c),
           NEW ids \in Seq(PlayableClasses), NEW value \in Int,
           NEW result, result = FirstAbility(memory, ids, env, value)
    PROVE  result.memory = memory /\ AbilityAmong(result.value, ids, value)
<1> DEFINE n       == Len(ids)
           none(i) == {b \in BestsOf(c) : /\ b.memory = memory /\ b.class = NoClass /\ b.value = 0
                                          /\ \A j \in 1 .. i : NativeSkill[ids[j]] = 0}
           some(i) == {b \in BestsOf(c) : /\ b.memory = memory /\ b.class # NoClass /\ b.value > 0
                                          /\ \E j \in 1 .. i : b.value = NativeSkill[ids[j]]}
           D       == [i \in 0 .. n |-> none(i) \cup some(i)]
<1>1. n \in Nat /\ \A i \in 1 .. n : ids[i] \in PlayableClasses /\ NativeSkill[ids[i]] \in Nat
  BY LenProperties, ElementOfSeq, LocalClassAssumption
<1>2. PICK first : /\ IsAbilityRun(first, c, memory, ids, env)
                   /\ FirstAbility(memory, ids, env, value) = OrNative(first[n], value)
  BY <1>1, FirstAbilityRun
<1>3. first[0] \in D[0]
  <2>1. first[0] = [memory |-> memory, value |-> 0, class |-> NoClass] /\ first[0] \in BestsOf(c)
    BY <1>1, <1>2 DEF IsAbilityRun
  <2>2. first[0] \in none(0)
    BY <2>1
  <2> QED
    BY <1>1, <2>2
<1>4. ASSUME NEW i \in 1 .. n, first[i - 1] \in D[i - 1]
      PROVE  first[i] \in D[i]
  <2> DEFINE b == first[i - 1]
  <2>1. first[i] = TriedAbility(b, ids[i], env) /\ b \in BestsOf(c) /\ first[i] \in BestsOf(c)
    BY <1>1, <1>2 DEF IsAbilityRun
  <2>2. b \in none(i - 1) \cup some(i - 1)
    <3>1. i - 1 \in 0 .. n
      BY <1>1
    <3>2. D[i - 1] = none(i - 1) \cup some(i - 1)
      BY <3>1
    <3> QED
      BY <1>4, <3>2
  <2> HIDE DEF b
  <2>3. CASE b \in some(i - 1)
    <3>1. first[i] = b
      BY <2>1, <2>3 DEF TriedAbility
    <3>2. b \in some(i)
      BY <1>1, <2>3
    <3> QED
      BY <3>1, <3>2
  <2>4. CASE b \in none(i - 1)
    <3>0. first[i] = TriedFor(b, ids[i], env, NativeSkill) /\ b.value = 0
      BY <2>1, <2>4 DEF TriedAbility
    <3>1. first[i] = IF NativeSkill[ids[i]] > 0
                     THEN [memory |-> b.memory, value |-> NativeSkill[ids[i]], class |-> ids[i]]
                     ELSE b
      <4>1. ids[i] \in PlayableClasses
        BY <1>1
      <4>2. TriedFor(b, ids[i], env, NativeSkill)
               = IF NativeSkill[ids[i]] > b.value
                 THEN [memory |-> b.memory, value |-> NativeSkill[ids[i]], class |-> ids[i]]
                 ELSE b
        BY <2>1, <4>1, CleanTriedSkill
      <4>3. first[i] = IF NativeSkill[ids[i]] > b.value
                       THEN [memory |-> b.memory, value |-> NativeSkill[ids[i]], class |-> ids[i]]
                       ELSE b
        BY ONLY <3>0, <4>2
      <4>4. b.value = 0
        BY ONLY <3>0
      <4> QED
        BY ONLY <4>3, <4>4
    <3>2. CASE NativeSkill[ids[i]] > 0
      <4>1. /\ first[i].class # NoClass /\ first[i].value = NativeSkill[ids[i]]
            /\ first[i].memory = memory
        BY <1>1, <2>4, <3>1, <3>2, ClassAssumption
      <4>2. first[i] \in some(i)
        BY <2>1, <3>2, <4>1
      <4> QED
        BY <4>2
    <3>3. CASE ~(NativeSkill[ids[i]] > 0)
      <4>1. NativeSkill[ids[i]] = 0
        BY <1>1, <3>3
      <4>2. \A j \in 1 .. i : j \in 1 .. i - 1 \/ j = i
        OBVIOUS
      <4>3. b \in none(i)
        BY <2>4, <4>1, <4>2
      <4> QED
        BY <3>1, <3>3, <4>3
    <3> QED
      BY <3>2, <3>3
  <2> QED
    BY <2>2, <2>3, <2>4
<1> HIDE DEF D, n
<1>5. \A i \in 0 .. n : first[i] \in D[i]
  BY <1>1, <1>3, <1>4, AllStages
<1>6. first[n] \in none(n) \cup some(n)
  BY <1>1, <1>5 DEF D
<1> DEFINE last == first[n]
<1>7. last \in BestsOf(c) /\ last.memory = memory /\ result = OrNative(last, value)
  BY <1>2, <1>6
<1> HIDE DEF last
<1>8. result.memory = memory /\ result.value = IF last.class = NoClass THEN value ELSE last.value
  BY <1>7 DEF OrNative, BestsOf
<1> QED
  BY <1>6, <1>8 DEF AbilityAmong, last, n

LEMMA HeroicsAreNat ==
    ASSUME NEW id
    PROVE  HeroicManaAdjustment(id, 10, 1) \in Nat
<1>1. Heroic(HeroicBonus.int) \in Nat /\ Heroic(HeroicBonus.wis) \in Nat
  BY LocalClassAssumption DEF Heroic, Positive
<1> QED
  BY <1>1 DEF HeroicManaAdjustment

\* The best maximum: at least the value given and what each assigned caster has.
LEMMA CleanBestMax ==
    ASSUME NEW c, ClassesOK(c), NEW env, EnvOK(env), Clean(env), NEW memory \in MemoriesOf(c),
           NEW value \in Int,
           NEW max, max = EvaluateBestAuthoritativeMaxMana(memory, env, value)
    PROVE  /\ max.memory = memory /\ max.value \in Int /\ max.value >= value
           /\ \A id \in AssignedCasters : NativeMaxMana[id] <= max.value
<1> DEFINE best == BestFor(memory, AssignedCasters, env, value, NativeMaxMana)
<1>1. max = [best EXCEPT !.value = best.value + HeroicManaAdjustment(best.class, 10, 1)]
  BY DEF EvaluateBestAuthoritativeMaxMana, NativeMax, BestFor, WithHeroics
<1>2. /\ best \in BestsOf(c) /\ best.memory = memory /\ best.value >= value
      /\ \A id \in PlayableClasses \cap AssignedCasters : NativeMaxMana[id] <= best.value
  BY CleanBestFor, LocalClassAssumption
<1> HIDE DEF best
<1>3. /\ best = [memory |-> best.memory, value |-> best.value, class |-> best.class]
      /\ best.value \in Int
  BY <1>2 DEF BestsOf
<1>4. max.memory = memory /\ max.value = best.value + HeroicManaAdjustment(best.class, 10, 1)
  BY <1>1, <1>2, <1>3
<1>5. AssignedCasters \subseteq PlayableClasses /\ \A id \in PlayableClasses : NativeMaxMana[id] \in Nat
  BY LocalClassAssumption DEF AssignedCasters, AssignedClasses
<1> QED
  BY <1>2, <1>3, <1>4, <1>5, HeroicsAreNat

LEMMA CleanBestMaxSame ==
    ASSUME NEW c, ClassesOK(c), NEW env1, EnvOK(env1), Clean(env1),
           NEW env2, EnvOK(env2), Clean(env2),
           NEW memory1 \in MemoriesOf(c), NEW memory2 \in MemoriesOf(c), NEW value \in Int
    PROVE  EvaluateBestAuthoritativeMaxMana(memory1, env1, value).value
              = EvaluateBestAuthoritativeMaxMana(memory2, env2, value).value
<1> DEFINE Best(memory, env) == BestFor(memory, AssignedCasters, env, value, NativeMaxMana)
<1>1. \A memory, env : EvaluateBestAuthoritativeMaxMana(memory, env, value)
         = [Best(memory, env) EXCEPT
               !.value = Best(memory, env).value
                            + HeroicManaAdjustment(Best(memory, env).class, 10, 1)]
  BY DEF EvaluateBestAuthoritativeMaxMana, NativeMax, BestFor, WithHeroics
<1>2. Best(memory1, env1) \in BestsOf(c) /\ Best(memory2, env2) \in BestsOf(c)
  BY BestForIsBest, LocalClassAssumption
<1>3. /\ Best(memory1, env1).value = Best(memory2, env2).value
      /\ Best(memory1, env1).class = Best(memory2, env2).class
  BY CleanBestSame, LocalClassAssumption
<1> HIDE DEF Best
<1>4. \A memory, env : Best(memory, env) \in BestsOf(c) =>
         EvaluateBestAuthoritativeMaxMana(memory, env, value).value
            = Best(memory, env).value + HeroicManaAdjustment(Best(memory, env).class, 10, 1)
  BY <1>1 DEF BestsOf
<1> QED
  BY <1>2, <1>3, <1>4

\* The maximum the hook answers: the class's own, or the best of the assigned.
LEMMA CleanMaxMana ==
    ASSUME NEW c, ClassesOK(c), NEW env, EnvOK(env), Clean(env), NEW memory \in MemoriesOf(c),
           NEW own, own = NativeMaxMana[c[Site(env)]],
           NEW max, max = CharacterZoneClientMaxMana(memory, env)
    PROVE  /\ own \in Nat /\ max.memory = memory /\ max.value \in Nat
           /\ Eligible(memory) =>
                  max.value = EvaluateBestAuthoritativeMaxMana(memory, env, own).value
           /\ ~Eligible(memory) => max.value = own
<1> DEFINE native == NativeMax(memory, env)
           best   == EvaluateBestAuthoritativeMaxMana(native.memory, env, native.value)
<1>1. c[Site(env)] \in PlayableClasses /\ memory.class = c
  BY SiteIsLocal DEF ClassesOK, MemoriesOf
<1>2. own \in Nat
  BY <1>1, LocalClassAssumption
<1>3. native.memory = memory /\ native.ok /\ native.value = own
  BY <1>1 DEF NativeMax, NativeFor, Clean
<1>4. max = IF ~native.ok THEN [memory |-> native.memory, value |-> 0]
            ELSE IF Eligible(native.memory) THEN Outcome(best) ELSE Outcome(native)
  BY DEF CharacterZoneClientMaxMana, Hooked
<1> HIDE DEF native
<1>5. best.memory = memory /\ best.value \in Int /\ best.value >= own
  BY <1>2, <1>3, CleanBestMax
<1>6. best = EvaluateBestAuthoritativeMaxMana(memory, env, own)
  BY <1>3
<1> HIDE DEF best
<1> QED
  BY <1>2, <1>3, <1>4, <1>5, <1>6 DEF Outcome

LEMMA CleanMaxManaSame ==
    ASSUME NEW c, ClassesOK(c), NEW env1, EnvOK(env1), Clean(env1),
           NEW env2, EnvOK(env2), Clean(env2), Site(env1) = Site(env2),
           NEW memory1 \in MemoriesOf(c), NEW memory2 \in MemoriesOf(c)
    PROVE  CharacterZoneClientMaxMana(memory1, env1).value
              = CharacterZoneClientMaxMana(memory2, env2).value
<1> DEFINE own == NativeMaxMana[c[Site(env1)]]
<1>1. Eligible(memory1) = Eligible(memory2)
  BY DEF Eligible, MemoriesOf
<1>2. own \in Int
  BY CleanMaxMana
<1>3. EvaluateBestAuthoritativeMaxMana(memory1, env1, own).value
         = EvaluateBestAuthoritativeMaxMana(memory2, env2, own).value
  BY <1>2, CleanBestMaxSame
<1>4. /\ Eligible(memory1) => CharacterZoneClientMaxMana(memory1, env1).value
                                 = EvaluateBestAuthoritativeMaxMana(memory1, env1, own).value
      /\ ~Eligible(memory1) => CharacterZoneClientMaxMana(memory1, env1).value = own
  BY CleanMaxMana
<1>5. /\ Eligible(memory2) => CharacterZoneClientMaxMana(memory2, env2).value
                                 = EvaluateBestAuthoritativeMaxMana(memory2, env2, own).value
      /\ ~Eligible(memory2) => CharacterZoneClientMaxMana(memory2, env2).value = own
  BY CleanMaxMana
<1> QED
  BY <1>1, <1>3, <1>4, <1>5

\* What Cur_Mana stores and answers: what is stored, within the maximum when asked.
Within(stored, max, env) == IF env.cap /\ stored > max THEN max ELSE stored

LEMMA CleanCurMana ==
    ASSUME hooked, NEW c, ClassesOK(c), NEW env, EnvOK(env), Clean(env),
           NEW memory \in MemoriesOf(c),
           NEW stored, stored = memory.mana[Site(env)],
           NEW max, max = CharacterZoneClientMaxMana(memory, env).value,
           NEW call, call = NativeCurMana(memory, env)
    PROVE  /\ stored \in Int /\ max \in Nat
           /\ call.ok /\ call.value = Within(stored, max, env)
           /\ call.memory = [class |-> c, mana |-> [memory.mana EXCEPT ![Site(env)] = call.value]]
<1> DEFINE own   == CharacterZoneClientMaxMana(memory, env)
           site  == Site(env)
           value == Within(stored, max, env)
<1>1. site \in Profiles /\ memory.mana \in [Profiles -> Int]
      /\ memory = [class |-> c, mana |-> memory.mana]
  BY SiteIsLocal DEF MemoriesOf
<1>2. own.memory = memory /\ own.value = max /\ max \in Nat
  BY CleanMaxMana
<1>3. call = IF \/ ~hooked /\ memory.class[site] \in env.faults
                \/ env.cap /\ stored > own.value /\ site \in env.failing
             THEN [memory |-> memory, ok |-> FALSE, value |-> 0]
             ELSE [memory |-> [own.memory EXCEPT !.mana[site] = Within(stored, own.value, env)],
                   ok     |-> memory.class[site] \notin env.torn,
                   value  |-> Within(stored, own.value, env)]
  BY DEF NativeCurMana, CurManaUnder, Within
<1> HIDE DEF own, site
<1>4. call = [memory |-> [memory EXCEPT !.mana[site] = value], ok |-> TRUE, value |-> value]
  BY <1>2, <1>3 DEF Clean
<1> HIDE DEF value
<1>5. [memory EXCEPT !.mana[site] = value]
         = [class |-> c, mana |-> [memory.mana EXCEPT ![site] = value]]
  BY <1>1
<1>6. stored \in Int
  BY <1>1 DEF site
<1> QED
  BY <1>2, <1>4, <1>5, <1>6 DEF value, site

\* Cur_Mana with the stored mana put back: the memory is as it was, and the answer
\* no more than what is stored.
LEMMA CleanPreserving ==
    ASSUME hooked, NEW c, ClassesOK(c), NEW env, EnvOK(env), Clean(env),
           NEW memory \in MemoriesOf(c),
           NEW call, call = CurManaPreservingStorage(memory, env)
    PROVE  /\ call \in ResultsOf(c)
           /\ call.memory.mana = memory.mana
           /\ call.value <= memory.mana[Site(env)]
<1> DEFINE native == NativeCurMana(memory, env)
           site   == Site(env)
           stored == memory.mana[site]
           max    == CharacterZoneClientMaxMana(memory, env).value
<1>1. /\ stored \in Int /\ max \in Nat
      /\ native.ok /\ native.value = Within(stored, max, env)
      /\ native.memory = [class |-> c, mana |-> [memory.mana EXCEPT ![site] = native.value]]
  BY CleanCurMana
<1>2. native \in ResultsOf(c) /\ call \in ResultsOf(c)
  BY NativeCurManaResult, CurManaPreservingResult
<1>3. call = PutBack(native, memory, env)
  BY DEF CurManaPreservingStorage
<1>4. /\ site \in {profile, record} \ {NoAddress} /\ site \in Profiles
      /\ IsPlayableClassId(c[site])
  <2>1. site \in LocalObjects /\ site \in Profiles
    BY SiteIsLocal
  <2> QED
    BY <2>1 DEF ClassesOK, Site, LocalObjects, IsPlayableClassId
<1>5. memory.mana \in [Profiles -> Int]
  BY DEF MemoriesOf
<1> HIDE DEF native, site, max
<1>6. call = [memory |-> WithStoredMana(native.memory, memory.mana, env),
              ok |-> native.ok, value |-> native.value]
  BY <1>1, <1>2, <1>3 DEF PutBack, ResultsOf
<1>7. site \in ManaObjects(native.memory) \ env.failing
  BY <1>1, <1>4 DEF ManaObjects, Clean
<1>8. WithStoredMana(native.memory, memory.mana, env).mana = memory.mana
  <2> DEFINE back == [a \in Profiles |-> IF a \in ManaObjects(native.memory) \ env.failing
                                         THEN memory.mana[a] ELSE native.memory.mana[a]]
  <2>1. WithStoredMana(native.memory, memory.mana, env).mana = back
    BY <1>1 DEF WithStoredMana
  <2>2. \A a \in Profiles : back[a] = memory.mana[a]
    BY <1>1, <1>5, <1>7
  <2> QED
    BY <1>5, <2>1, <2>2
<1>9. native.value <= stored
  BY <1>1 DEF Within
<1> QED
  BY <1>2, <1>6, <1>8, <1>9 DEF site

LEMMA CleanTriedCur ==
    ASSUME hooked, NEW c, ClassesOK(c), NEW env, EnvOK(env), Clean(env),
           NEW best \in BestsOf(c), best.memory.mana[Site(env)] <= best.value,
           NEW id \in PlayableClasses
    PROVE  TriedCur(best, id, env) = best
<1> DEFINE memory   == best.memory
           override == TryApplyTemporaryLocalClassOverride(memory, id, env)
           call     == CurManaPreservingStorage(override.memory, env)
           probe    == Probe(memory, id, env, LAMBDA m : CurManaPreservingStorage(m, env))
<1>1. /\ memory \in MemoriesOf(c) /\ best.value \in Int
      /\ best = [memory |-> memory, value |-> best.value, class |-> best.class]
  BY DEF BestsOf
<1>2. probe = IF ~override.active THEN [memory |-> memory, ok |-> FALSE, value |-> 0]
              ELSE WrittenBack(call, override.saved, env)
  BY DEF Probe
<1>3. TriedCur(best, id, env) = Better(best, id, probe)
  BY DEF TriedCur, Tried
<1> HIDE DEF probe, call
<1>4. /\ override.active /\ override.memory.mana = memory.mana
      /\ \A other \in ResultsOf(override.memory.class) :
             other.memory.mana = memory.mana =>
                 WrittenBack(other, override.saved, env)
                    = [memory |-> memory, ok |-> other.ok, value |-> other.value]
  BY <1>1, CleanOverride
<1>5. ClassesOK(override.memory.class) /\ override.memory \in MemoriesOf(override.memory.class)
  BY <1>1, <1>4, OverrideWrittenBack
<1> HIDE DEF override
<1>6. /\ call \in ResultsOf(override.memory.class)
      /\ call.memory.mana = override.memory.mana
      /\ call.value <= override.memory.mana[Site(env)]
  BY <1>5, CleanPreserving DEF call
<1>7. WrittenBack(call, override.saved, env)
         = [memory |-> memory, ok |-> call.ok, value |-> call.value]
  BY <1>4, <1>6
<1>8. call.value \in Int /\ call.value <= memory.mana[Site(env)] /\ memory.mana[Site(env)] \in Int
  BY <1>1, <1>4, <1>6, SiteIsLocal DEF ResultsOf, MemoriesOf
<1>9. probe.memory = memory /\ probe.value <= memory.mana[Site(env)] /\ probe.value \in Int
  BY <1>2, <1>4, <1>7, <1>8
<1>10. ~(probe.value > best.value)
  BY <1>1, <1>8, <1>9
<1> HIDE DEF memory
<1>11. [best EXCEPT !.memory = memory] = best
  BY <1>1
<1> QED
  BY <1>3, <1>9, <1>10, <1>11 DEF Better, memory

\* So no class improves on an answer that is at least what is stored.
LEMMA CleanBestCur ==
    ASSUME hooked, NEW c, ClassesOK(c), NEW env, EnvOK(env), Clean(env),
           NEW memory \in MemoriesOf(c), NEW value \in Int, memory.mana[Site(env)] <= value
    PROVE  BestCurMana(memory, env, value) = [memory |-> memory, value |-> value, class |-> NoClass]
<1> DEFINE n    == Len(ClassOrder)
           none == [memory |-> memory, value |-> value, class |-> NoClass]
<1>1. n \in Nat /\ \A i \in 1 .. n : ClassOrder[i] \in PlayableClasses
  BY LenProperties, ElementOfSeq, ClassOrderAssumption
<1>2. PICK best : IsCurRun(best, c, memory, env, value)
  BY BestCurManaRun
<1>3. best[0] = none /\ best[0] \in BestsOf(c)
  BY <1>1, <1>2 DEF IsCurRun
<1>4. ASSUME NEW i \in 1 .. n, best[i - 1] = none
      PROVE  best[i] = none
  <2>1. best[i] = TriedCaster(none, ClassOrder[i], env)
    BY <1>2, <1>4 DEF IsCurRun
  <2>2. TriedCur(none, ClassOrder[i], env) = none
    BY <1>1, <1>3, CleanTriedCur
  <2> QED
    BY <2>1, <2>2 DEF TriedCaster
<1> DEFINE only == {none}
<1>5. best[0] \in only /\ \A i \in 1 .. n : best[i - 1] \in only => best[i] \in only
  BY <1>3, <1>4
<1> HIDE DEF n, only
<1>6. \A i \in 0 .. n : best[i] \in only
  BY <1>1, <1>5, AllSteps
<1>7. best[n] = none
  BY <1>1, <1>6 DEF only
<1> HIDE DEF none
<1> QED
  BY <1>2, <1>7 DEF IsCurRun, n, none

\* The best current mana is what the client answers, or the profile's stored mana
\* within the best maximum.
LEMMA CleanBestAuthoritativeCur ==
    ASSUME hooked, NEW c, ClassesOK(c), NEW env, EnvOK(env), Clean(env),
           NEW memory \in MemoriesOf(c), NEW value \in Int, memory.mana[Site(env)] <= value,
           NEW max, max = EvaluateBestAuthoritativeMaxMana(memory, env, 0).value,
           NEW stored, stored = Capped(memory.mana[profile], env, max),
           NEW call, call = EvaluateBestAuthoritativeCurMana(memory, env, value)
    PROVE  /\ max \in Int /\ stored \in Int /\ memory.mana[profile] \in Int
           /\ call.memory = memory
           /\ call.value = IF stored > value THEN stored ELSE value
<1> DEFINE best == BestCurMana(memory, env, value)
           most == EvaluateBestAuthoritativeMaxMana(best.memory, env, 0)
<1>1. best = [memory |-> memory, value |-> value, class |-> NoClass]
  BY CleanBestCur
<1>2. call = StoredIfBetter(best, Capped(most.memory.mana[profile], env, most.value), most.memory)
  BY DEF EvaluateBestAuthoritativeCurMana, WithBestMax, WithinMax
<1> HIDE DEF best
<1>3. most.memory = memory /\ most.value = max /\ max \in Int
  BY <1>1, CleanBestMax
<1> HIDE DEF most
<1>4. call = StoredIfBetter(best, stored, memory)
  BY <1>2, <1>3
<1>5. memory.mana[profile] \in Int
  BY DEF MemoriesOf, EnvOK
<1>6. stored \in Int
  BY <1>3, <1>5 DEF Capped, Positive
<1> QED
  BY <1>1, <1>3, <1>4, <1>5, <1>6 DEF StoredIfBetter

\* The client computes a maximum mana for the casting classes and for no others
\* (kCastingClassMask, multiclass_identity.cpp:89).
OnlyCastersHaveMana == \A id \in PlayableClasses : NativeMaxMana[id] > 0 <=> IsCastingClassId(id)

\* Of a local player to whom the mana hooks apply, the object the client's function
\* works on shows no caster's class either.
SiteAgrees(c, memory, env) == Eligible(memory) => ~IsCastingClassId(c[Site(env)])

\* Then the maximum the current mana is measured against, which starts from 0, is
\* the one the client is told, which starts from its own answer.
LEMMA CleanSameMaximum ==
    ASSUME OnlyCastersHaveMana, NEW c, ClassesOK(c), NEW env, EnvOK(env), Clean(env),
           NEW memory1 \in MemoriesOf(c), NEW memory2 \in MemoriesOf(c),
           Eligible(memory1), SiteAgrees(c, memory1, env),
           NEW max, max = CharacterZoneClientMaxMana(memory1, env).value
    PROVE  EvaluateBestAuthoritativeMaxMana(memory2, env, 0).value = max /\ max > 0
<1> DEFINE own == NativeMaxMana[c[Site(env)]]
<1>1. c[Site(env)] \in PlayableClasses
  BY SiteIsLocal DEF ClassesOK
<1>2. own \in Nat /\ max = EvaluateBestAuthoritativeMaxMana(memory1, env, own).value
  BY CleanMaxMana
<1>3. own = 0
  BY <1>1, <1>2 DEF OnlyCastersHaveMana, SiteAgrees
<1> HIDE DEF own
<1>4. max = EvaluateBestAuthoritativeMaxMana(memory1, env, 0).value
  BY <1>2, <1>3
<1>5. EvaluateBestAuthoritativeMaxMana(memory2, env, 0).value = max
  BY <1>4, CleanBestMaxSame
<1>6. PICK id \in AssignedCasters : TRUE
  BY DEF Eligible, HasAnyAuthoritativeCastingClass, IsPlayableClassMask, AssignedCasters,
     AssignedClasses, HasAuthoritativeClass, HasClass, IsPlayableClassId, IsCastingClassId
<1>7. NativeMaxMana[id] <= max /\ max \in Int
  BY <1>4, <1>6, CleanBestMax
<1>8. id \in PlayableClasses /\ NativeMaxMana[id] > 0 /\ NativeMaxMana[id] \in Nat
  BY <1>6, LocalClassAssumption DEF OnlyCastersHaveMana, AssignedCasters, AssignedClasses
<1> QED
  BY <1>5, <1>7, <1>8

\* A clean call of the current mana's hook.
LEMMA CleanCharacterCurMana ==
    ASSUME hooked, OnlyCastersHaveMana, NEW c, ClassesOK(c), NEW env, EnvOK(env), Clean(env),
           NEW memory \in MemoriesOf(c), SiteAgrees(c, memory, env),
           NEW max, max = CharacterZoneClientMaxMana(memory, env).value,
           NEW call, call = CharacterZoneClientCurMana(memory, env),
           NEW was, was = memory.mana[profile],
           NEW now, now = call.memory.mana[profile]
    PROVE  /\ env.cap => call.value <= max
           /\ now # was => now = max /\ (now < was \/ was <= 0)
<1> DEFINE native  == NativeCurMana(memory, env)
           value   == native.value
           after   == native.memory
           site    == Site(env)
           current == EvaluateBestAuthoritativeCurMana(after, env, value)
           most    == EvaluateBestAuthoritativeMaxMana(current.memory, env, 0)
           full    == [a \in Profiles |-> most.value]
<1>1. /\ memory.mana[site] \in Int /\ max \in Nat
      /\ native.ok /\ value = Within(memory.mana[site], max, env)
      /\ after = [class |-> c, mana |-> [memory.mana EXCEPT ![site] = value]]
  BY CleanCurMana
<1>2. native \in ResultsOf(c)
  BY NativeCurManaResult
<1>3. call = CurManaFrom(native, env)
  BY DEF CharacterZoneClientCurMana
<1> HIDE DEF native
<1>4. after \in MemoriesOf(c) /\ value \in Int
  BY <1>2 DEF ResultsOf
<1>5. /\ profile \in Profiles /\ profile # NoAddress /\ site \in Profiles
      /\ memory.mana \in [Profiles -> Int] /\ IsPlayableClassId(c[profile])
  BY SiteIsLocal DEF MemoriesOf, EnvOK, InWorld, ClassesOK, LocalObjects, IsPlayableClassId
<1>6. Eligible(after) = Eligible(memory)
  BY <1>4 DEF Eligible, MemoriesOf
<1> HIDE DEF site
<1>7. /\ after.mana[site] = value
      /\ after.mana[profile] = IF site = profile THEN value ELSE was
      /\ was \in Int /\ (site = profile => memory.mana[site] = was)
  BY <1>1, <1>5
<1> HIDE DEF after, value
<1>8. CASE ~Eligible(memory)
  <2>1. call = [memory |-> after, value |-> value]
    BY <1>1, <1>3, <1>6, <1>8 DEF CurManaFrom, Outcome, after, value
  <2>2. now = after.mana[profile] /\ call.value = value
    BY <2>1
  <2> QED
    BY <1>1, <1>4, <1>7, <2>2 DEF Within
<1>9. CASE Eligible(memory)
  <2>1. call = Seeded(current, native, env)
    BY <1>1, <1>3, <1>6, <1>9 DEF CurManaFrom, after, value
  <2> DEFINE stored == Capped(after.mana[profile], env,
                              EvaluateBestAuthoritativeMaxMana(after, env, 0).value)
  <2>2. /\ current.memory = after
        /\ current.value = IF stored > value THEN stored ELSE value
        /\ stored \in Int
    BY <1>4, <1>7, CleanBestAuthoritativeCur DEF site
  <2>3. max > 0 /\ EvaluateBestAuthoritativeMaxMana(after, env, 0).value = max
    BY <1>4, <1>9, CleanSameMaximum
  <2> HIDE DEF current
  <2>4. most.memory = after /\ most.value = max
    BY <1>4, <2>2, <2>3, CleanBestMax
  <2>5. stored = Capped(after.mana[profile], env, max)
    BY <2>3
  <2> HIDE DEF stored, most
  <2>6. CASE current.value <= 0 /\ value <= 0
    <3>1. call = Refilled(current, most, env)
      BY <2>1, <2>6 DEF Seeded, most, value
    <3>2. profile \in ManaObjects(after) \ env.failing
      BY <1>4, <1>5 DEF ManaObjects, MemoriesOf, Clean
    <3>3. call = [memory |-> WithStoredMana(after, full, env), value |-> max]
      BY <2>3, <2>4, <3>1, <3>2 DEF Refilled
    <3>4. now = max
      <4>1. WithStoredMana(after, full, env).mana[profile] = full[profile]
        BY <1>4, <1>5, <3>2 DEF WithStoredMana, MemoriesOf
      <4> QED
        BY <1>5, <2>4, <3>3, <4>1
    <3>5. stored <= 0 /\ value <= 0
      BY <1>4, <2>2, <2>6
    <3>6. after.mana[profile] <= 0
      <4>1. after.mana[profile] \in Int /\ max \in Int
        BY <1>1, <1>4, <1>7
      <4> QED
        BY <2>3, <2>5, <3>5, <4>1 DEF Capped, Positive
    <3>7. was <= 0
      BY <1>1, <1>7, <2>3, <3>5, <3>6 DEF Within
    <3> QED
      BY <1>1, <3>3, <3>4, <3>7
  <2>7. CASE ~(current.value <= 0 /\ value <= 0)
    <3>1. call = current
      BY <2>1, <2>7 DEF Seeded, value
    <3>2. now = after.mana[profile]
      BY <2>2, <3>1
    <3>3. env.cap => stored <= max /\ value <= max
      BY <1>1, <1>4, <1>7, <2>3, <2>5 DEF Capped, Positive, Within
    <3>4. now # was => now = max /\ now < was
      BY <1>1, <1>7, <3>2 DEF Within
    <3> QED
      BY <1>1, <1>4, <2>2, <3>1, <3>3, <3>4
  <2> QED
    BY <2>6, <2>7
<1> QED
  BY <1>8, <1>9

\* A clean call of the percentage: it stores the maximum when more is stored.
LEMMA CleanManaPercent ==
    ASSUME hooked, NEW c, ClassesOK(c), NEW env, EnvOK(env), Clean(env),
           NEW memory \in MemoriesOf(c),
           NEW max, max = CharacterZoneClientMaxMana(memory, env).value,
           NEW was, was = memory.mana[profile],
           NEW now, now = LocalPlayerManaPercent(memory, env).memory.mana[profile]
    PROVE  now # was => now = max /\ now < was
<1> DEFINE capped  == [env EXCEPT !.cap = TRUE]
           native  == NativeCurMana(memory, capped)
           value   == native.value
           after   == native.memory
           site    == Site(env)
           own     == NativeMax(after, capped)
           current == EvaluateBestAuthoritativeCurMana(own.memory, capped, value)
           best    == EvaluateBestAuthoritativeMaxMana(current.memory, capped, own.value)
           percent == LocalPlayerManaPercent(memory, env)
<1>1. EnvOK(capped) /\ Clean(capped) /\ capped.cap /\ Site(capped) = site
  <2>1. /\ env \in [site : {"profile", "record"}, cap : BOOLEAN, faults : SUBSET PlayableClasses,
                    torn : SUBSET PlayableClasses, failing : SUBSET (Spawns \cup Profiles)]
        /\ env.faults = {} /\ env.torn = {} /\ env.failing = {}
    BY DEF EnvOK, Clean
  <2>2. /\ capped \in [site : {"profile", "record"}, cap : BOOLEAN,
                       faults : SUBSET PlayableClasses, torn : SUBSET PlayableClasses,
                       failing : SUBSET (Spawns \cup Profiles)]
        /\ capped.site = env.site /\ capped.cap
        /\ capped.faults = {} /\ capped.torn = {} /\ capped.failing = {}
    BY <2>1
  <2> HIDE DEF capped
  <2> QED
    BY <2>2 DEF EnvOK, Clean, Site
<1> HIDE DEF capped
<1>2. percent \in
         {[memory |-> after, ok |-> FALSE, percent |-> 0],
          [memory |-> own.memory, ok |-> FALSE, percent |-> 0],
          PercentOf(current.value, best), PercentOf(value, own)}
  BY DEF LocalPlayerManaPercent, PercentAfter, NativePercent, BestPercent, capped
<1>3. CharacterZoneClientMaxMana(memory, capped).value = max
  BY <1>1, CleanMaxManaSame
<1>4. /\ memory.mana[site] \in Int /\ max \in Nat
      /\ value = Within(memory.mana[site], max, capped)
      /\ after = [class |-> c, mana |-> [memory.mana EXCEPT ![site] = value]]
  BY <1>1, <1>3, CleanCurMana
<1>5. native \in ResultsOf(c)
  BY <1>1, NativeCurManaResult
<1> HIDE DEF native
<1>6. after \in MemoriesOf(c) /\ value \in Int
  BY <1>5 DEF ResultsOf
<1>7. /\ profile \in Profiles /\ site \in Profiles /\ memory.mana \in [Profiles -> Int]
  BY SiteIsLocal DEF MemoriesOf, EnvOK
<1>8. after.mana[profile] = IF site = profile THEN value ELSE was
  BY <1>4, <1>7
<1>9. after.mana[site] = value
  BY <1>4, <1>7
<1> HIDE DEF after, value, site
<1>10. own.memory = after /\ own.value \in Int
  <2>1. own \in ResultsOf(c)
    BY <1>1, <1>6, NativeForResult, LocalClassAssumption DEF NativeMax
  <2> QED
    BY <2>1 DEF NativeMax, NativeFor, ResultsOf
<1> HIDE DEF own
<1>11. current.memory = after
  BY <1>1, <1>6, <1>9, <1>10, CleanBestAuthoritativeCur
<1> HIDE DEF current
<1>12. best.memory = after
  BY <1>1, <1>6, <1>10, <1>11, CleanBestMax
<1> HIDE DEF best, percent
<1>13. percent.memory = after
  BY <1>2, <1>10, <1>12, PercentOfMemory
<1>14. now = after.mana[profile]
  BY <1>13 DEF percent
<1> QED
  BY <1>1, <1>4, <1>8, <1>14 DEF Within, site

\* The hooks of the client's getters leave the memory as it was.
LEMMA CleanGetters ==
    ASSUME NEW c, ClassesOK(c), NEW env, EnvOK(env), Clean(env), NEW memory \in MemoriesOf(c)
    PROVE  /\ CharacterZoneClientMaxMana(memory, env).memory = memory
           /\ CharacterZoneClientGetManaRegen(memory, env).memory = memory
           /\ PlayerManaEqTypeResolver(memory, env, FALSE).memory = memory
           /\ AdjustedSkill(memory, env).memory = memory
           /\ SkillsWindowRow(memory, env).memory = memory
           /\ CombatAbility(memory, env).memory = memory
<1> DEFINE native     == NativeFor(memory, env, NativeSkill)
           Best(ids)  == BestFor(native.memory, ids, env, native.value, NativeSkill)
           order      == BuildAuthoritativeCombatAbilityClassOrder(auth, Displayed(native.memory))
           first      == FirstAbility(native.memory, order, env, native.value)
<1>1. CharacterZoneClientMaxMana(memory, env).memory = memory
  BY CleanMaxMana
<1>2. native.memory = memory /\ native.value \in Int
  BY NativeForResult, LocalClassAssumption DEF NativeFor, ResultsOf
<1>3. /\ CharacterZoneClientGetManaRegen(memory, env).memory
            \in {native.memory, WithHeroics(Best(AssignedCasters), 1, 25).memory}
      /\ PlayerManaEqTypeResolver(memory, env, FALSE).memory
            \in {native.memory, Best(AssignedCasters).memory}
      /\ AdjustedSkill(memory, env).memory \in {native.memory, Best(AssignedClasses).memory}
      /\ SkillsWindowRow(memory, env).memory \in {native.memory, Best(AssignedClasses).memory}
  BY DEF CharacterZoneClientGetManaRegen, EvaluateBestAuthoritativeManaRegen, Hooked, Outcome,
     PlayerManaEqTypeResolver, AdjustedSkill, SkillsWindowRow, BestFor
<1>4. CombatAbility(memory, env).memory \in {native.memory, IF MaskAssigns THEN first.memory
                                                           ELSE native.memory}
  BY DEF CombatAbility
<1>5. MaskAssigns => first.memory = memory
  <2>1. MaskAssigns => order \in Seq(PlayableClasses)
    BY AbilityClassOrder DEF MaskAssigns
  <2> HIDE DEF order, native
  <2> QED
    BY <1>2, <2>1, CleanFirstAbility
<1> HIDE DEF native, first
<1>6. \A ids : Best(ids) \in BestsOf(c) /\ Best(ids).memory = memory
  BY <1>2, CleanBestFor, LocalClassAssumption
<1> HIDE DEF Best
<1>7. WithHeroics(Best(AssignedCasters), 1, 25).memory = Best(AssignedCasters).memory
  BY <1>6 DEF WithHeroics, BestsOf
<1> QED
  BY <1>1, <1>2, <1>3, <1>4, <1>5, <1>6, <1>7

\* The gauge and the label of the mana leave what the percentage leaves.
LEMMA CleanLabels ==
    ASSUME NEW c, ClassesOK(c), NEW env, EnvOK(env), Clean(env), NEW memory \in MemoriesOf(c)
    PROVE  /\ PlayerManaEqTypeResolver(memory, env, TRUE).memory
                 = LocalPlayerManaPercent(memory, env).memory
           /\ ManaLabel(memory, env).memory = LocalPlayerManaPercent(memory, env).memory
<1> DEFINE native == NativeFor(memory, env, NativeSkill)
<1>1. native.memory = memory /\ native.ok
  BY DEF NativeFor, Clean
<1>2. PlayerManaEqTypeResolver(memory, env, TRUE)
         = IF ~native.ok THEN [memory |-> native.memory, value |-> 0]
           ELSE PercentOr(LocalPlayerManaPercent(native.memory, env), native.value)
  BY DEF PlayerManaEqTypeResolver
<1>3. \A percent, value : PercentOr(percent, value).memory = percent.memory
  BY DEF PercentOr
<1> HIDE DEF native
<1> QED
  BY <1>1, <1>2, <1>3 DEF ManaLabel

------------------------------------------------------------------------------
(* The steps of the client with its hooked calls *)

\* Types, the session's invariant, and a playable class in every local object:
\* what an override saves and a call reads.
LocalInv ==
    /\ SessionInv
    /\ LocalTypeOK
    /\ ClassesOK(class)

\* A session writes playable classes only.
LEMMA SendsKeepPlayable ==
    ASSUME SessionInv, Sends, NEW a \in Addresses, class[a] \in PlayableClasses
    PROVE  class'[a] \in PlayableClasses
<1>1. class \in [Addresses -> AnyClass]
  BY DEF SessionInv, TypeOK
<1>2. /\ DOMAIN session.original \subseteq Addresses
      /\ \A b \in DOMAIN session.original : session.original[b] \in PlayableClasses
  BY InactiveSession DEF SessionInv
<1>3. ASSUME NEW memory \in Restored(class, session.original)
      PROVE  memory[a] \in PlayableClasses
  <2>1. PICK ok \in SUBSET DOMAIN session.original :
          memory = [b \in Addresses |-> IF b \in ok THEN session.original[b] ELSE class[b]]
    BY DEF Restored
  <2> QED
    BY <1>2, <2>1
<1>4. CASE UNCHANGED class
  BY <1>4
<1>5. CASE class' \in Restored(class, session.original)
  BY <1>3, <1>5
<1>6. ASSUME IsPlayableClassId(pending),
             NEW memory, memory \in IF session.active THEN Restored(class, session.original)
                                                      ELSE {class},
             class' = Overwritten(memory, Opened(memory, pending))
      PROVE  class'[a] \in PlayableClasses
  <2>1. memory[a] \in PlayableClasses
    BY <1>3, <1>6
  <2>2. \/ Opened(memory, pending) = NoSession
        \/ Opened(memory, pending).class = pending
    BY DEF Opened
  <2>3. DOMAIN NoSession.original = {}
    BY DEF NoSession
  <2> QED
    BY <1>6, <2>1, <2>2, <2>3 DEF Overwritten, IsPlayableClassId
<1> QED
  BY <1>4, <1>5, <1>6 DEF Sends, SendGMTraining, SendGMEndTraining,
     ApplyGuildTrainerSessionClassOverride, RestoreGuildTrainerSessionClassOverride

\* The environment a call meets.
LEMMA MetEnvironment ==
    ASSUME LocalInv, InWorld, NEW env \in Met
    PROVE  EnvOK(env)
BY LocalClassAssumption DEF LocalInv, LocalTypeOK, TypeOK, Met, EnvOK, InWorld

\* A hooked call changes the stored mana and nothing else.
LEMMA HookedCallKeeps ==
    ASSUME LocalInv, HookedCall
    PROVE  UNCHANGED <<sessionVars, record, hooked>> /\ mana' \in [Profiles -> Int]
<1>1. PICK env \in Met : InWorld /\ \E call \in Calls(env) : Answer(call)
  BY DEF HookedCall
<1>2. PICK call \in Calls(env) : Answer(call)
  BY <1>1
<1>3. ClassesOK(class) /\ Memory \in MemoriesOf(class)
  BY DEF LocalInv, LocalTypeOK, Memory, MemoriesOf
<1>4. EnvOK(env)
  BY <1>1, MetEnvironment
<1>5. call.memory \in MemoriesOf(class)
  BY <1>3, <1>4, CallsKeep
<1> QED
  BY <1>2, <1>5 DEF Answer, MemoriesOf, sessionVars

LEMMA SessionUnchanged ==
    ASSUME SessionInv, UNCHANGED sessionVars
    PROVE  SessionInv'
BY QuietStep DEF sessionVars, objects, SessionInv, TypeOK

LEMMA InitLocalInv == LocalInit => LocalInv
<1> SUFFICES ASSUME LocalInit PROVE LocalInv
  OBVIOUS
<1>1. SessionInv
  BY InitSessionInv DEF LocalInit
<1>2. LocalObjects = {}
  BY DEF LocalInit, Init, TrainerInit, LocalObjects
<1>3. LocalTypeOK
  BY <1>1 DEF LocalInit, LocalTypeOK, SessionInv
<1> QED
  BY <1>1, <1>2, <1>3 DEF LocalInv, ClassesOK, LocalTypeOK, TypeOK

\* The objects of the local player come and go.
LEMMA LocalObjectsChangeStep ==
    ASSUME LocalInv, LocalObjectsChange
    PROVE  LocalInv'
<1> USE DEF LocalInv
<1>1. class \in [Addresses -> AnyClass]
  BY DEF LocalTypeOK, TypeOK
<1>2. ASSUME NEW a \in Addresses, Load(a), class' \in [Addresses -> AnyClass],
             LocalObjects' \subseteq LocalObjects \cup {a}, LocalObjects \subseteq Addresses
      PROVE  ClassesOK(class)'
  <2>1. NativeClass[character] \in PlayableClasses
    BY <1>2, TrainerSessionAssumption DEF Load, LocalTypeOK, TypeOK
  <2> QED
    BY <1>1, <1>2, <2>1 DEF Load, ClassesOK
<1>3. LocalObjects \subseteq Addresses
  BY DEF LocalTypeOK, TypeOK, LocalObjects, Addresses
<1>4. ASSUME NEW a \in Profiles \ OwnRecords, NEW value \in StoredMana,
             LoadProfileWithMana(a, value)
      PROVE  LocalInv'
  <2>1. SessionInv'
    BY <1>4, LoadProfileStep DEF LoadProfileWithMana
  <2>2. LocalTypeOK'
    BY <1>4, <2>1, LocalClassAssumption DEF LoadProfileWithMana, LocalTypeOK, SessionInv
  <2>3. a \in Addresses /\ Load(a) /\ LocalObjects' \subseteq LocalObjects \cup {a}
    BY <1>4 DEF LoadProfileWithMana, LoadProfile, LocalObjects, Addresses
  <2> QED
    BY <1>2, <1>3, <2>1, <2>2, <2>3 DEF LocalTypeOK, TypeOK
<1>5. ASSUME NEW a \in OwnRecords \cup {profile}, LoadRecord(a), a # profile
      PROVE  LocalInv'
  <2>1. a \in Profiles /\ a \in Addresses
    BY <1>5, LocalClassAssumption DEF Addresses
  <2>2. Load(a) /\ UNCHANGED <<spawn, profile>> /\ record' = a
    BY <1>5 DEF LoadRecord
  <2>3. SessionInv'
    BY <2>1, <2>2, LoadStep DEF Local, LocalTypeOK, TypeOK
  <2>4. LocalTypeOK'
    BY <1>5, <2>1, <2>3 DEF LoadRecord, LocalTypeOK, SessionInv, TypeOK
  <2>5. LocalObjects' \subseteq LocalObjects \cup {a}
    BY <2>2 DEF LocalObjects
  <2> QED
    BY <1>2, <1>3, <2>1, <2>2, <2>3, <2>4, <2>5 DEF LocalTypeOK, TypeOK
<1>6. ASSUME LoadRecord(profile)
      PROVE  LocalInv'
  <2>1. SessionInv' /\ UNCHANGED <<class, spawn, profile>>
    BY <1>6, SessionUnchanged DEF LoadRecord, sessionVars, objects
  <2>2. LocalTypeOK'
    BY <1>6, <2>1 DEF LoadRecord, LocalTypeOK, SessionInv, TypeOK
  <2>3. LocalObjects' \subseteq LocalObjects
    BY <1>6, <2>1 DEF LoadRecord, LocalObjects
  <2> QED
    BY <2>1, <2>2, <2>3 DEF ClassesOK
<1>7. ASSUME NEW name \in Names \cup {NoName}, LeaveZone(name), record' = NoAddress,
             mana' = [a \in Profiles |-> 0], UNCHANGED hooked
      PROVE  LocalInv'
  <2>1. SessionInv'
    BY <1>7, LeaveZoneStep
  <2>2. LocalTypeOK' /\ LocalObjects' = {}
    BY <1>7, <2>1 DEF LocalTypeOK, SessionInv, LeaveZone, LocalObjects
  <2> QED
    BY <2>1, <2>2 DEF ClassesOK, LocalTypeOK, TypeOK
<1>8. ASSUME NEW name \in Names, EnterWorld(name), UNCHANGED <<record, mana, hooked>>
      PROVE  LocalInv'
  <2>1. SessionInv' /\ UNCHANGED <<class, spawn, profile>>
    BY <1>8, EnterWorldStep DEF EnterWorld
  <2> QED
    BY <1>8, <2>1 DEF LocalTypeOK, SessionInv, ClassesOK, LocalObjects
<1>9. ASSUME NEW a \in Spawns, LoadSpawn(a), UNCHANGED <<record, mana, hooked>>
      PROVE  LocalInv'
  <2>1. SessionInv'
    BY <1>9, LoadSpawnStep
  <2>2. LocalTypeOK'
    BY <1>9, <2>1 DEF LocalTypeOK, SessionInv
  <2>3. a \in Addresses /\ Load(a) /\ LocalObjects' \subseteq LocalObjects \cup {a}
    BY <1>9 DEF LoadSpawn, LocalObjects, Addresses
  <2> QED
    BY <1>2, <1>3, <2>1, <2>2, <2>3 DEF LocalTypeOK, TypeOK
<1> QED
  BY <1>4, <1>5, <1>6, <1>7, <1>8, <1>9 DEF LocalObjectsChange

LEMMA NextLocalInv == LocalInv /\ [LocalNext]_localVars => LocalInv'
<1> SUFFICES ASSUME LocalInv, [LocalNext]_localVars PROVE LocalInv'
  OBVIOUS
<1> USE DEF LocalInv
<1>1. ASSUME UNCHANGED <<sessionVars, record, hooked>>, mana' \in [Profiles -> Int]
      PROVE  LocalInv'
  <2>1. SessionInv' /\ UNCHANGED <<class, spawn, profile>>
    BY <1>1, SessionUnchanged DEF sessionVars, objects
  <2> QED
    BY <1>1, <2>1 DEF LocalTypeOK, SessionInv, ClassesOK, LocalObjects
<1>2. CASE HookedCall
  BY <1>1, <1>2, HookedCallKeeps
<1>3. ASSUME NEW value \in StoredMana, StoreMana(value)
      PROVE  LocalInv'
  BY <1>1, <1>3, LocalClassAssumption DEF StoreMana, LocalTypeOK
<1>4. ASSUME Sends, UNCHANGED <<record, mana, hooked>>
      PROVE  LocalInv'
  <2>1. SessionInv'
    BY <1>4, SendsStep
  <2>2. UNCHANGED <<spawn, profile>>
    BY <1>4 DEF Sends, SendGMTraining, SendGMEndTraining, objects
  <2>3. LocalTypeOK' /\ LocalObjects' = LocalObjects
    BY <1>4, <2>1, <2>2 DEF LocalTypeOK, SessionInv, LocalObjects
  <2>4. LocalObjects \subseteq Addresses
    BY DEF LocalTypeOK, TypeOK, LocalObjects, Addresses
  <2> QED
    BY <1>4, <2>1, <2>3, <2>4, SendsKeepPlayable DEF ClassesOK, LocalTypeOK, TypeOK
<1>5. ASSUME Clicks, UNCHANGED <<record, mana, hooked>>
      PROVE  LocalInv'
  <2>1. SessionInv' /\ UNCHANGED <<class, spawn, profile>>
    BY <1>5, ClicksStep DEF Clicks, GuildTrainerClassLookup, objects
  <2> QED
    BY <1>5, <2>1 DEF LocalTypeOK, SessionInv, ClassesOK, LocalObjects
<1>6. ASSUME NEW mask \in SessionMasks, ReceiveMask(mask), UNCHANGED <<record, mana, hooked>>
      PROVE  LocalInv'
  <2>1. SessionInv' /\ UNCHANGED <<class, spawn, profile>>
    BY <1>6, ReceiveMaskStep DEF ReceiveMask, objects
  <2> QED
    BY <1>6, <2>1 DEF LocalTypeOK, SessionInv, ClassesOK, LocalObjects
<1>7. CASE UNCHANGED localVars
  BY <1>1, <1>7 DEF localVars, LocalTypeOK
<1> QED
  BY <1>2, <1>3, <1>4, <1>5, <1>6, <1>7, LocalObjectsChangeStep DEF LocalNext

\* The session's invariant and the types hold under every hooked call
\* (CharacterZoneClientCurManaHook and the other hooks that repeat a call per class).
THEOREM LocalInvariant == LocalSpec => []LocalInv
<1>1. LocalInit => LocalInv
  BY InitLocalInv
<1>2. LocalInv /\ [LocalNext]_localVars => LocalInv'
  BY NextLocalInv
<1> QED
  BY <1>1, <1>2, PTL DEF LocalSpec

\* The client's objects and the session stay well-formed through every call, load
\* and override (hook_manager.cpp, TryApplyTemporaryLocalClassOverride and the
\* hooks that call it).
THEOREM LocalTypeCorrect == LocalSpec => []LocalTypeOK
BY LocalInvariant, PTL DEF LocalInv

\* With every hooked call taken into account, the trainer's session still restores
\* what the client wrote (RestoreGuildTrainerSessionClassOverride).
THEOREM LocalRestoresOriginal == LocalSpec => []SessionRestoresOriginal
BY LocalInvariant, PTL DEF LocalInv, SessionInv

\* With every hooked call taken into account, a window that a matched gate opened
\* reads the trainer's class everywhere.
THEOREM LocalWindowCorrect == LocalSpec => []WindowShowsTrainer
BY LocalInvariant, PTL DEF LocalInv, SessionInv

\* A send that leaves the session as it was leaves every class as it was.
LEMMA SameSessionSameClasses ==
    ASSUME SessionInv, Sends, UNCHANGED session
    PROVE  UNCHANGED class
<1>1. class \in [Addresses -> AnyClass]
  BY DEF SessionInv, TypeOK
<1>2. session = NoSession => class \in [Addresses -> AnyClass] /\ DOMAIN session.original = {}
  BY <1>1, InactiveSession DEF SessionInv
<1>3. CASE session' = NoSession /\ class' \in Restored(class, session.original)
  <2>1. DOMAIN session.original = {}
    BY <1>2, <1>3
  <2>2. PICK ok \in SUBSET DOMAIN session.original :
          class' = [b \in Addresses |-> IF b \in ok THEN session.original[b] ELSE class[b]]
    BY <1>3 DEF Restored
  <2>3. class' = [b \in Addresses |-> class[b]]
    BY <2>1, <2>2
  <2> QED
    BY <1>1, <2>3
<1>4. ASSUME IsPlayableClassId(pending), ~(session.active /\ session.class = pending),
             NEW memory, memory \in IF session.active THEN Restored(class, session.original)
                                                      ELSE {class},
             session' = Opened(memory, pending),
             class' = Overwritten(memory, Opened(memory, pending))
      PROVE  UNCHANGED class
  <2>1. \/ Opened(memory, pending) = NoSession
        \/ Opened(memory, pending).active /\ Opened(memory, pending).class = pending
    BY DEF Opened
  <2>2. session = NoSession
    BY <1>4, <2>1
  <2>3. memory = class /\ DOMAIN session.original = {}
    BY <1>4, <2>2, InactiveSession DEF SessionInv
  <2>4. class' = [b \in Addresses |-> class[b]]
    BY <1>4, <2>3 DEF Overwritten
  <2> QED
    BY <1>1, <2>4
<1> QED
  BY <1>3, <1>4 DEF Sends, SendGMTraining, SendGMEndTraining,
     ApplyGuildTrainerSessionClassOverride, RestoreGuildTrainerSessionClassOverride

\* No override of a hooked call outlives it: a class changes only with the session
\* or with the client's objects (RestoreTemporaryLocalClassOverride), whatever the
\* call faults on, whichever page cannot be written.
THEOREM OverridesEndWithTheirCall == LocalSpec => ClassesUntouched
<1>1. ASSUME LocalInv, [LocalNext]_localVars, UNCHANGED <<session, spawn, profile, record>>
      PROVE  UNCHANGED class
  <2> USE <1>1 DEF LocalInv
  <2>1. CASE HookedCall
    BY <2>1, HookedCallKeeps DEF sessionVars
  <2>2. CASE Sends
    BY <2>2, SameSessionSameClasses
  <2>3. CASE LocalObjectsChange
    <3>1. NoAddress \notin Spawns \cup Profiles
      BY TrainerSessionAssumption
    <3>2. record = NoAddress /\ profile # NoAddress =>
             \A a \in OwnRecords \cup {profile} : a # NoAddress
      BY <3>1, LocalClassAssumption
    <3> QED
      BY <2>3, <3>1, <3>2 DEF LocalObjectsChange, LoadProfileWithMana, LoadProfile,
         LoadSpawn, LoadRecord, LeaveZone, EnterWorld
  <2>4. CASE \E value \in StoredMana : StoreMana(value)
    BY <2>4 DEF StoreMana, sessionVars
  <2>5. CASE Clicks
    BY <2>5 DEF Clicks, GuildTrainerClassLookup
  <2>6. CASE \E mask \in SessionMasks : ReceiveMask(mask)
    BY <2>6 DEF ReceiveMask
  <2>7. CASE UNCHANGED localVars
    BY <2>7 DEF localVars, sessionVars
  <2> QED
    BY <1>1, <2>1, <2>2, <2>3, <2>4, <2>5, <2>6, <2>7 DEF LocalNext
<1>2. LocalInv /\ [LocalNext]_localVars =>
         [UNCHANGED <<session, spawn, profile, record>> => UNCHANGED class]_localVars
  BY <1>1
<1> QED
  BY <1>2, LocalInvariant, PTL DEF LocalSpec, ClassesUntouched

\* What a clean call of the ability hook answers.
LEMMA CleanCombatAbility ==
    ASSUME LocalInv, InWorld, NEW env \in Met, Clean(env), MaskAssigns,
           NativeFor(Memory, env, NativeSkill).value <= 0
    PROVE  LET value == CombatAbility(Memory, env).value IN
           /\ value > 0 => \E id \in auth : NativeSkill[id] = value
           /\ (\E id \in auth : NativeSkill[id] > 0) => value > 0
<1> DEFINE native == NativeFor(Memory, env, NativeSkill)
           ids    == BuildAuthoritativeCombatAbilityClassOrder(auth, Displayed(native.memory))
           first  == FirstAbility(native.memory, ids, env, native.value)
           value  == CombatAbility(Memory, env).value
<1>1. ClassesOK(class) /\ Memory \in MemoriesOf(class) /\ EnvOK(env)
  BY MetEnvironment DEF LocalInv, LocalTypeOK, Memory, MemoriesOf
<1>2. native \in ResultsOf(class) /\ native.ok
  <2>1. native.ok = (Memory.class[Site(env)] \notin env.faults)
    BY DEF NativeFor
  <2> QED
    BY <1>1, <2>1, NativeForResult, LocalClassAssumption DEF Clean
<1>3. value = IF ~native.ok \/ native.value > 0 \/ ~MaskAssigns
              THEN native.value ELSE first.value
  BY DEF CombatAbility
<1> HIDE DEF native
<1>4. native.memory \in MemoriesOf(class) /\ native.value \in Int /\ native.value <= 0
  BY <1>2 DEF ResultsOf, native
<1>5. /\ ids \in Seq(PlayableClasses)
      /\ \A i \in 1 .. Len(ids) : ids[i] \in auth
      /\ \A id \in auth : \E i \in 1 .. Len(ids) : ids[i] = id
  BY AbilityClassOrder DEF MaskAssigns
<1> HIDE DEF ids
<1>6. AbilityAmong(first.value, ids, native.value)
  BY <1>1, <1>4, <1>5, CleanFirstAbility
<1> HIDE DEF first, value
<1>7. /\ first.value > 0 => \E id \in auth : NativeSkill[id] = first.value
      /\ (\E id \in auth : NativeSkill[id] > 0) => first.value > 0
  BY <1>4, <1>5, <1>6 DEF AbilityAmong
<1>8. value = first.value
  BY <1>2, <1>3, <1>4
<1> QED
  BY <1>7, <1>8 DEF value

\* In every reachable state of the client a combat ability comes from an assigned
\* class, and from one whenever an assigned class has it, whatever a train window
\* displays (EvaluateBestAuthoritativeCombatAbility).
THEOREM AbilityIsAssigned == LocalSpec => []AbilityOfAssignedClass
<1>1. LocalInv => AbilityOfAssignedClass
  BY CleanCombatAbility DEF AbilityOfAssignedClass
<1> QED
  BY <1>1, LocalInvariant, PTL

\* The class record shows a caster's class only where the profile does.
RecordAgrees ==
    (profile # NoAddress /\ record # NoAddress) =>
        (IsCastingClassId(class[record]) => IsCastingClassId(class[profile]))

\* What the clean calls that store mana do, where the record agrees.
LEMMA CleanCallsKeepMana ==
    ASSUME LocalInv, OnlyCastersHaveMana, RecordAgrees, InWorld, hooked,
           NEW env \in Met, Clean(env),
           NEW max, max = CharacterZoneClientMaxMana(Memory, env).value
    PROVE  /\ env.cap => CharacterZoneClientCurMana(Memory, env).value <= max
           /\ \A call \in Calls(env) :
                  call.memory.mana[profile] # mana[profile] =>
                      /\ call.memory.mana[profile] = max
                      /\ call.memory.mana[profile] < mana[profile] \/ mana[profile] <= 0
<1>1. ClassesOK(class) /\ Memory \in MemoriesOf(class) /\ Memory.class = class /\ Memory.mana = mana
  BY DEF LocalInv, LocalTypeOK, Memory, MemoriesOf
<1>2. EnvOK(env)
  BY MetEnvironment
<1>3. SiteAgrees(class, Memory, env)
  <2>1. Site(env) \in {record, profile} \ {NoAddress}
    BY <1>2 DEF Site, EnvOK, InWorld
  <2> QED
    BY <1>1, <2>1 DEF SiteAgrees, RecordAgrees, Eligible
<1> DEFINE Kept(call) == call.memory.mana[profile] # mana[profile] =>
                            /\ call.memory.mana[profile] = max
                            /\ call.memory.mana[profile] < mana[profile] \/ mana[profile] <= 0
<1>4. /\ env.cap => CharacterZoneClientCurMana(Memory, env).value <= max
      /\ Kept(CharacterZoneClientCurMana(Memory, env))
  BY <1>1, <1>2, <1>3, CleanCharacterCurMana
<1>5. Kept(LocalPlayerManaPercent(Memory, env))
  BY <1>1, <1>2, CleanManaPercent
<1>6. \A call \in Calls(env) :
         \/ call = CharacterZoneClientCurMana(Memory, env)
         \/ call.memory = LocalPlayerManaPercent(Memory, env).memory
         \/ call.memory = Memory
  <2>1. /\ CharacterZoneClientMaxMana(Memory, env).memory = Memory
        /\ CharacterZoneClientGetManaRegen(Memory, env).memory = Memory
        /\ PlayerManaEqTypeResolver(Memory, env, FALSE).memory = Memory
        /\ AdjustedSkill(Memory, env).memory = Memory
        /\ SkillsWindowRow(Memory, env).memory = Memory
        /\ CombatAbility(Memory, env).memory = Memory
    BY <1>1, <1>2, CleanGetters
  <2>2. /\ PlayerManaEqTypeResolver(Memory, env, TRUE).memory
              = LocalPlayerManaPercent(Memory, env).memory
        /\ ManaLabel(Memory, env).memory = LocalPlayerManaPercent(Memory, env).memory
    BY <1>1, <1>2, CleanLabels
  <2> QED
    BY <2>1, <2>2 DEF Calls
<1> QED
  BY <1>1, <1>4, <1>5, <1>6

\* Reading mana stores nothing but a maximum, and the current mana is within it, for
\* every character, as long as the class record agrees with the profile
\* (InvokeCharacterZoneClientCurManaOverride): of a native caster it does not while
\* the train window of a class without mana is open.
THEOREM ManaWhereRecordAgrees ==
    ASSUME OnlyCastersHaveMana
    PROVE  LocalSpec => [](RecordAgrees => StoredManaKept /\ CurrentWithinMax)
<1>1. LocalInv => (RecordAgrees => StoredManaKept /\ CurrentWithinMax)
  <2> SUFFICES ASSUME LocalInv, RecordAgrees PROVE StoredManaKept /\ CurrentWithinMax
    OBVIOUS
  <2>1. StoredManaKept
    BY CleanCallsKeepMana DEF StoredManaKept
  <2>2. CurrentWithinMax
    BY CleanCallsKeepMana DEF CurrentWithinMax
  <2> QED
    BY <2>1, <2>2
<1> QED
  BY <1>1, LocalInvariant, PTL

\* No character of the player was created a caster.
NoNativeCaster == \A name \in Names : ~IsCastingClassId(NativeClass[name])

\* Of such characters a caster's class is a session's: in the objects it covers, the
\* profile among them if the record is one, and in no class it would restore.
CastersOfSession ==
    /\ record # NoAddress => profile # NoAddress
    /\ \A a \in DOMAIN session.original : ~IsCastingClassId(session.original[a])
    /\ \A a \in LocalObjects : IsCastingClassId(class[a]) =>
           a \in DOMAIN session.original /\ class[a] = session.class
    /\ record # NoAddress /\ IsCastingClassId(class[record]) =>
           record \in Local /\ profile \in DOMAIN session.original /\ class[profile] = session.class

RecordInv == LocalInv /\ CastersOfSession

\* Once a session's classes are restored, no local object shows a caster's.
LEMMA RestoredNoncaster ==
    ASSUME RecordInv,
           NEW memory, memory \in IF session.active THEN Restored(class, session.original)
                                                    ELSE {class},
           NEW a \in LocalObjects
    PROVE  ~IsCastingClassId(memory[a]) /\ memory[a] \in PlayableClasses
<1> USE DEF RecordInv
<1>1. /\ a \in Addresses /\ class[a] \in PlayableClasses
      /\ a \in Local \/ (a = record /\ record # NoAddress)
  BY DEF LocalInv, LocalTypeOK, TypeOK, ClassesOK, LocalObjects, Local, Addresses
<1>2. a \notin DOMAIN session.original => ~IsCastingClassId(class[a])
  BY DEF CastersOfSession
<1>3. /\ ~session.active => DOMAIN session.original = {}
      /\ \A b \in DOMAIN session.original : session.original[b] \in PlayableClasses
  <2>1. TypeOK
    BY DEF LocalInv, SessionInv
  <2>2. DOMAIN NoSession.original = {}
    BY DEF NoSession
  <2> QED
    BY <2>1, <2>2, InactiveSession
<1>4. CASE ~session.active
  BY <1>1, <1>2, <1>3, <1>4
<1>5. CASE session.active
  <2>1. PICK ok \in SUBSET DOMAIN session.original :
          /\ Local \cap DOMAIN session.original \subseteq ok
          /\ memory = [b \in Addresses |-> IF b \in ok THEN session.original[b] ELSE class[b]]
    BY <1>5 DEF Restored
  <2>2. CASE a \in ok
    BY <1>1, <1>3, <2>1, <2>2 DEF CastersOfSession
  <2>3. CASE a \notin ok
    <3>1. a \in Local => a \notin DOMAIN session.original
      BY <2>1, <2>3
    <3>2. ~IsCastingClassId(class[a])
      BY <1>1, <1>2, <3>1 DEF CastersOfSession
    <3> QED
      BY <1>1, <2>1, <2>3, <3>2
  <2> QED
    BY <2>2, <2>3
<1> QED
  BY <1>4, <1>5

\* A session's steps: the classes restored, or those of the next session.
LEMMA SendsKeepCasters ==
    ASSUME RecordInv, Sends, UNCHANGED record
    PROVE  CastersOfSession'
<1> USE DEF RecordInv
<1>1. UNCHANGED <<spawn, profile, record>> /\ LocalObjects' = LocalObjects /\ Local' = Local
  BY DEF Sends, SendGMTraining, SendGMEndTraining, objects, LocalObjects, Local
<1>2. LocalObjects \subseteq Addresses /\ Local \subseteq LocalObjects
      /\ (record # NoAddress => record \in LocalObjects)
      /\ (profile # NoAddress => profile \in Local)
      /\ (record # NoAddress => profile # NoAddress)
  BY DEF LocalInv, LocalTypeOK, TypeOK, LocalObjects, Local, Addresses, CastersOfSession
<1>3. DOMAIN NoSession.original = {}
  BY DEF NoSession
<1>4. CASE UNCHANGED <<class, session>>
  BY <1>1, <1>4 DEF CastersOfSession
<1>5. CASE session' = NoSession /\ class' \in Restored(class, session.original)
  <2>1. class' \in IF session.active THEN Restored(class, session.original) ELSE {class}
    <3>1. CASE ~session.active
      <4>1. DOMAIN session.original = {} /\ class \in [Addresses -> AnyClass]
        BY <1>3, <3>1, InactiveSession DEF LocalInv, SessionInv, TypeOK
      <4>2. class' = [b \in Addresses |-> class[b]]
        BY <1>5, <4>1 DEF Restored
      <4> QED
        BY <3>1, <4>1, <4>2
    <3> QED
      BY <1>5, <3>1
  <2>2. \A a \in LocalObjects : ~IsCastingClassId(class'[a])
    BY <2>1, RestoredNoncaster
  <2> QED
    BY <1>1, <1>2, <1>3, <1>5, <2>2 DEF CastersOfSession
<1>6. ASSUME NEW memory, memory \in IF session.active THEN Restored(class, session.original)
                                                      ELSE {class},
             session' = Opened(memory, pending),
             class' = Overwritten(memory, Opened(memory, pending))
      PROVE  CastersOfSession'
  <2> DEFINE readable == {a \in Local : IsPlayableClassId(memory[a])}
             saved    == [a \in readable |-> memory[a]]
  <2>1. \A a \in LocalObjects : ~IsCastingClassId(memory[a]) /\ memory[a] \in PlayableClasses
    BY <1>6, RestoredNoncaster
  <2>2. readable = Local
    BY <1>2, <2>1 DEF IsPlayableClassId
  <2>3. CASE readable = {}
    <3>1. session' = NoSession
      BY <1>6, <2>3 DEF Opened
    <3>2. \A a \in LocalObjects : class'[a] = memory[a]
      BY <1>2, <1>3, <1>6, <3>1 DEF Overwritten
    <3> QED
      BY <1>1, <1>2, <1>3, <2>1, <3>1, <3>2 DEF CastersOfSession
  <2>4. CASE readable # {}
    <3>1. session' = [active |-> TRUE, class |-> pending, original |-> saved]
      BY <1>6, <2>4 DEF Opened
    <3>2. session'.class = pending /\ session'.original = saved /\ DOMAIN saved = Local
      BY <2>2, <3>1
    <3>3. \A a \in LocalObjects : class'[a] = IF a \in Local THEN pending ELSE memory[a]
      BY <1>2, <1>6, <3>1, <3>2 DEF Overwritten
    <3>4. \A a \in Local : saved[a] = memory[a]
      BY <2>2
    <3> HIDE DEF saved, readable
    <3> QED
      BY <1>1, <1>2, <2>1, <3>2, <3>3, <3>4 DEF CastersOfSession
  <2> QED
    BY <2>3, <2>4
<1> QED
  BY <1>4, <1>5, <1>6 DEF Sends, SendGMTraining, SendGMEndTraining,
     ApplyGuildTrainerSessionClassOverride, RestoreGuildTrainerSessionClassOverride

\* The client's objects come and go.
LEMMA ObjectsKeepCasters ==
    ASSUME NoNativeCaster, RecordInv, LocalObjectsChange
    PROVE  CastersOfSession'
<1> USE DEF RecordInv
<1>1. /\ class \in [Addresses -> AnyClass] /\ LocalObjects \subseteq Addresses
      /\ NoAddress \notin Addresses
  BY TrainerSessionAssumption DEF LocalInv, LocalTypeOK, TypeOK, LocalObjects, Addresses
<1>2. ASSUME NEW a \in Addresses, Load(a)
      PROVE  /\ ~IsCastingClassId(class'[a]) /\ UNCHANGED session
             /\ \A b \in Addresses \ {a} : class'[b] = class[b]
  BY <1>1, <1>2 DEF Load, NoNativeCaster, LocalInv, LocalTypeOK, TypeOK
<1>3. ASSUME NEW a \in Profiles \ OwnRecords, NEW value \in StoredMana,
             LoadProfileWithMana(a, value)
      PROVE  CastersOfSession'
  <2>1. /\ a \in Addresses /\ Load(a) /\ profile = NoAddress /\ profile' = a
        /\ UNCHANGED <<spawn, record>>
    BY <1>3 DEF LoadProfileWithMana, LoadProfile, Addresses
  <2>2. record = NoAddress
    BY <2>1 DEF CastersOfSession
  <2>3. LocalObjects' \subseteq LocalObjects \cup {a}
    BY <2>1 DEF LocalObjects
  <2> QED
    BY <1>1, <1>2, <2>1, <2>2, <2>3 DEF CastersOfSession
<1>4. ASSUME NEW a \in OwnRecords \cup {profile}, LoadRecord(a), a # profile
      PROVE  CastersOfSession'
  <2>1. /\ a \in Addresses /\ Load(a) /\ profile # NoAddress /\ record' = a
        /\ UNCHANGED <<spawn, profile>>
    BY <1>4, LocalClassAssumption DEF LoadRecord, Addresses
  <2>2. LocalObjects' \subseteq LocalObjects \cup {a}
    BY <2>1 DEF LocalObjects
  <2> QED
    BY <1>1, <1>2, <2>1, <2>2 DEF CastersOfSession
<1>5. ASSUME LoadRecord(profile)
      PROVE  CastersOfSession'
  <2>1. /\ profile # NoAddress /\ record' = profile
        /\ UNCHANGED <<spawn, profile, class, session>>
    BY <1>5 DEF LoadRecord, sessionVars, objects
  <2>2. LocalObjects' \subseteq LocalObjects /\ profile \in LocalObjects /\ profile \in Local'
    BY <2>1 DEF LocalObjects, Local
  <2> QED
    BY <2>1, <2>2 DEF CastersOfSession
<1>6. ASSUME NEW name \in Names \cup {NoName}, LeaveZone(name), record' = NoAddress
      PROVE  CastersOfSession'
  <2>1. LocalObjects' = {} /\ UNCHANGED session
    BY <1>6 DEF LeaveZone, LocalObjects
  <2> QED
    BY <1>6, <2>1 DEF CastersOfSession
<1>7. ASSUME NEW name \in Names, EnterWorld(name), UNCHANGED record
      PROVE  CastersOfSession'
  BY <1>7 DEF EnterWorld, CastersOfSession, LocalObjects, Local
<1>8. ASSUME NEW a \in Spawns, LoadSpawn(a), UNCHANGED record
      PROVE  CastersOfSession'
  <2>1. /\ a \in Addresses /\ Load(a) /\ spawn = NoAddress /\ spawn' = a
        /\ UNCHANGED <<profile, record>>
    BY <1>8 DEF LoadSpawn, Addresses
  <2>2. /\ LocalObjects' \subseteq LocalObjects \cup {a}
        /\ Local \subseteq {profile} /\ Local \subseteq Local' /\ LocalObjects \subseteq LocalObjects'
    BY <2>1 DEF LocalObjects, Local
  <2>3. \A b \in LocalObjects' : IsCastingClassId(class'[b]) =>
           b \in LocalObjects /\ b # a /\ class'[b] = class[b]
    BY <1>1, <1>2, <2>1, <2>2
  <2>4. record # NoAddress => record \in LocalObjects'
    BY <2>1 DEF LocalObjects
  <2>5. record # NoAddress /\ IsCastingClassId(class'[record]) =>
           record = profile /\ class'[record] = class[record] /\ record \in Local'
    BY <2>2, <2>3, <2>4 DEF CastersOfSession
  <2> QED
    BY <1>2, <2>1, <2>3, <2>5 DEF CastersOfSession
<1> QED
  BY <1>3, <1>4, <1>5, <1>6, <1>7, <1>8 DEF LocalObjectsChange

LEMMA NextRecordInv ==
    ASSUME NoNativeCaster, RecordInv, [LocalNext]_localVars
    PROVE  RecordInv'
<1> USE DEF RecordInv
<1>1. LocalInv'
  BY NextLocalInv
<1>2. ASSUME UNCHANGED <<class, session, spawn, profile, record>>
      PROVE  CastersOfSession'
  <2>1. LocalObjects' = LocalObjects /\ Local' = Local
    BY <1>2 DEF LocalObjects, Local
  <2>2. class' = class /\ session' = session /\ profile' = profile /\ record' = record
    BY <1>2
  <2> QED
    BY <2>1, <2>2 DEF CastersOfSession
<1>3. CASE HookedCall
  BY <1>1, <1>2, <1>3, HookedCallKeeps DEF sessionVars, objects
<1>4. CASE \E value \in StoredMana : StoreMana(value)
  BY <1>1, <1>2, <1>4 DEF StoreMana, sessionVars, objects
<1>5. CASE Sends /\ UNCHANGED <<record, mana, hooked>>
  BY <1>1, <1>5, SendsKeepCasters
<1>6. CASE Clicks /\ UNCHANGED <<record, mana, hooked>>
  BY <1>1, <1>2, <1>6 DEF Clicks, GuildTrainerClassLookup, objects
<1>7. CASE (\E mask \in SessionMasks : ReceiveMask(mask)) /\ UNCHANGED <<record, mana, hooked>>
  BY <1>1, <1>2, <1>7 DEF ReceiveMask, objects
<1>8. CASE UNCHANGED localVars
  BY <1>1, <1>2, <1>8 DEF localVars, sessionVars, objects
<1> QED
  BY <1>1, <1>3, <1>4, <1>5, <1>6, <1>7, <1>8, ObjectsKeepCasters DEF LocalNext

\* The class record of a character that was not created a caster agrees with the
\* profile, through every load, override and train window (LocalPlayer's profile and
\* char data as TryApplyTemporaryLocalClassOverride finds them).
THEOREM RecordAlwaysAgrees ==
    ASSUME NoNativeCaster
    PROVE  LocalSpec => []RecordAgrees
<1>1. LocalInit => RecordInv
  <2> SUFFICES ASSUME LocalInit PROVE RecordInv
    OBVIOUS
  <2>1. LocalObjects = {} /\ record = NoAddress /\ DOMAIN session.original = {}
    BY DEF LocalInit, Init, TrainerInit, LocalObjects, NoSession
  <2> QED
    BY <2>1, InitLocalInv DEF RecordInv, CastersOfSession
<1>2. RecordInv /\ [LocalNext]_localVars => RecordInv'
  BY NextRecordInv
<1>3. RecordInv => RecordAgrees
  BY DEF RecordInv, CastersOfSession, RecordAgrees, LocalObjects
<1> QED
  BY <1>1, <1>2, <1>3, PTL DEF LocalSpec

\* A hooked call changes the profile's stored mana only to the maximum the client is
\* told, from above it or from nothing (TryInvokeCharacterZoneClientCurManaPreservingStorage
\* and the refill of InvokeCharacterZoneClientCurManaOverride).
THEOREM StoredManaIsKept ==
    ASSUME OnlyCastersHaveMana, NoNativeCaster
    PROVE  LocalSpec => []StoredManaKept
BY ManaWhereRecordAgrees, RecordAlwaysAgrees, PTL

\* The current mana asked with the cap is within the maximum the client is told
\* (EvaluateBestAuthoritativeCurMana, EvaluateBestAuthoritativeMaxMana).
THEOREM CurrentIsWithinMax ==
    ASSUME OnlyCastersHaveMana, NoNativeCaster
    PROVE  LocalSpec => []CurrentWithinMax
BY ManaWhereRecordAgrees, RecordAlwaysAgrees, PTL
------------------------------------------------------------------------------
(* One client: the trainer's session and the handlers of the mask.            *)
(* The handlers leave the session alone but for the mask it is opened under;  *)
(* the session changes what the handlers read of the client, on which none of *)
(* their records depends.                                                     *)

Proved == INSTANCE AuthUpdateProofs WITH PacketMasks <- SessionMasks

LEMMA HandlersAssumptions ==
    /\ Proved!CacheFileAssumption
    /\ Proved!AuthUpdateAssumption
<1>1. Proved!CacheFileAssumption
  BY ClientSessionAssumption DEF Proved!Row, Proved!Masks, Masks, AnyClass
<1>2. Proved!AuthUpdateAssumption
  BY ClientSessionAssumption, TrainerSessionAssumption DEF Proved!Masks, Masks
<1> QED
  BY <1>1, <1>2

\* The handlers of ClientSession are those the theorems are about.
LEMMA SameStore ==
    ASSUME NEW image, NEW name, NEW mask, NEW native, NEW on
    PROVE  Update!StoreCharacterClassMask(image, name, mask, native, on)
             = Proved!StoreCharacterClassMask(image, name, mask, native, on)
<1> DEFINE row == Update!CacheRow(mask, native, on)
<1>1. row = Proved!CacheRow(mask, native, on)
  BY DEF Update!CacheRow, Proved!CacheRow
<1>2. Update!ReadCacheEntries(image) = Proved!ReadCacheEntries(image)
  <2>1. ASSUME NEW format, NEW old
        PROVE  /\ Update!RowKept(format, old) <=> Proved!RowKept(format, old)
               /\ Update!RowFields(format, old) = Proved!RowFields(format, old)
    BY DEF Update!RowKept, Proved!RowKept, Update!RowFields, Proved!RowFields
  <2>2. Update!ParseCacheEntries(image) = Proved!ParseCacheEntries(image)
    BY <2>1 DEF Update!ParseCacheEntries, Proved!ParseCacheEntries
  <2> QED
    BY <2>2 DEF Update!ReadCacheEntries, Proved!ReadCacheEntries, Update!NoRows, Proved!NoRows
<1> DEFINE rows == Update!ReadCacheEntries(image)
<1> HIDE DEF row, rows
<1>3. Update!RowsWritten(rows, name, row) = Proved!RowsWritten(rows, name, row)
  <2>1. ASSUME NEW some PROVE Update!CountRows(some) = Proved!CountRows(some)
    BY DEF Update!CountRows, Proved!CountRows, Update!Cardinality, Proved!Cardinality
  <2> QED
    BY <2>1 DEF Update!RowsWritten, Proved!RowsWritten, Update!Shadowed, Proved!Shadowed
<1>4. Update!LastRow(rows, name, row) = Proved!LastRow(rows, name, row)
  BY <1>3 DEF Update!LastRow, Proved!LastRow, Update!Shadowed, Proved!Shadowed,
         Update!RowKept, Proved!RowKept
<1>5. Update!BuildCacheFileContents(rows, name, row)
        = Proved!BuildCacheFileContents(rows, name, row)
  BY <1>3, <1>4 DEF Update!BuildCacheFileContents, Proved!BuildCacheFileContents
<1> QED
  BY <1>1, <1>2, <1>5
     DEF Update!StoreCharacterClassMask, Proved!StoreCharacterClassMask, row, rows

LEMMA SamePersist ==
    ASSUME NEW p, NEW io
    PROVE  Update!TryPersistPendingMulticlassCache(p, io)
             <=> Proved!TryPersistPendingMulticlassCache(p, io)
  BY SameStore
     DEF Update!TryPersistPendingMulticlassCache,
         Proved!TryPersistPendingMulticlassCache, Update!NoPersist, Proved!NoPersist

LEMMA SamePolls ==
    /\ \A retry, was, uiOk : Update!TryRetryPendingCasterUiAccess(retry, was, uiOk)
                               <=> Proved!TryRetryPendingCasterUiAccess(retry, was, uiOk)
    /\ \A ready, resyncOk : Update!TryRetryPendingCombatResync(ready, resyncOk)
                               <=> Proved!TryRetryPendingCombatResync(ready, resyncOk)
  BY DEF Update!TryRetryPendingCasterUiAccess, Proved!TryRetryPendingCasterUiAccess,
         Update!TryRetryPendingCombatResync, Proved!TryRetryPendingCombatResync,
         Update!Polled, Proved!Polled, Update!Attempts, Proved!Attempts,
         Update!AfterAttempt, Proved!AfterAttempt, Update!Ensured, Proved!Ensured,
         Update!Cleared, Proved!Cleared, Update!TryEnsure, Proved!TryEnsure,
         Update!ShouldArmCaster, Proved!ShouldArmCaster, Update!ShouldArmCombat,
         Proved!ShouldArmCombat, Update!HasAnyAuthoritativeCastingClass,
         Proved!HasAnyAuthoritativeCastingClass, Update!HasAuthoritativeClass,
         Proved!HasAuthoritativeClass, Update!HasClass, Proved!HasClass,
         Update!IsCastingClassId, Proved!IsCastingClassId, Update!IsPlayableClassId,
         Proved!IsPlayableClassId, Update!IsPlayableClassMask,
         Proved!IsPlayableClassMask
LEMMA SameHandlers ==
    /\ Update!ReceivePacket <=> Proved!ReceivePacket
    /\ Update!Handlers <=> Proved!Handlers
    /\ Update!Tick <=> Proved!Tick
<1>1. Update!ReceivePacket <=> Proved!ReceivePacket
  <2>1. ASSUME NEW packet, NEW io
        PROVE  Update!ReceiveAuthStats(packet, io) <=> Proved!ReceiveAuthStats(packet, io)
    BY SamePersist DEF Update!ReceiveAuthStats, Proved!ReceiveAuthStats, Update!world,
           Proved!world, Update!history, Proved!history
  <2>2. ASSUME NEW next
        PROVE  Update!ReceiveOther(next) <=> Proved!ReceiveOther(next)
    BY DEF Update!ReceiveOther, Proved!ReceiveOther, Update!world, Proved!world,
           Update!history, Proved!history
  <2> QED
    BY <2>1, <2>2 DEF Update!ReceivePacket, Proved!ReceivePacket
<1>2. Update!Handlers <=> Proved!Handlers
  <2>1. ASSUME NEW mask
        PROVE  /\ Update!ShouldArmCaster(mask) <=> Proved!ShouldArmCaster(mask)
               /\ Update!ShouldArmCombat(mask) <=> Proved!ShouldArmCombat(mask)
               /\ Update!Armed(mask) = Proved!Armed(mask)
    BY DEF Update!ShouldArmCaster, Proved!ShouldArmCaster, Update!ShouldArmCombat,
           Proved!ShouldArmCombat, Update!Armed, Proved!Armed,
           Update!HasAnyAuthoritativeCastingClass, Proved!HasAnyAuthoritativeCastingClass,
           Update!HasAuthoritativeClass, Proved!HasAuthoritativeClass, Update!HasClass,
           Proved!HasClass, Update!IsCastingClassId, Proved!IsCastingClassId,
           Update!IsPlayableClassId, Proved!IsPlayableClassId,
           Update!IsPlayableClassMask, Proved!IsPlayableClassMask
  <2>2. ASSUME NEW mask, NEW uiOk, NEW was
        PROVE  /\ Update!TryEnsure(mask, uiOk) <=> Proved!TryEnsure(mask, uiOk)
               /\ Update!Ensured(mask, uiOk, was) = Proved!Ensured(mask, uiOk, was)
    BY <2>1 DEF Update!TryEnsure, Proved!TryEnsure, Update!Ensured, Proved!Ensured
  <2>3. Update!Cleared = Proved!Cleared /\ Update!NotEnsured = Proved!NotEnsured
    BY DEF Update!Cleared, Proved!Cleared, Update!NotEnsured, Proved!NotEnsured
  <2>4. ASSUME NEW uiOk, NEW resyncOk
        PROVE  Update!NotifyRetries(uiOk, resyncOk) <=> Proved!NotifyRetries(uiOk, resyncOk)
    BY <2>1, <2>2, <2>3 DEF Update!NotifyRetries, Proved!NotifyRetries, Update!world,
           Proved!world, Update!history, Proved!history
  <2>5. ASSUME NEW uiOk, NEW ready, NEW resyncOk
        PROVE  Update!AfterDispatch(uiOk, ready, resyncOk)
                 <=> Proved!AfterDispatch(uiOk, ready, resyncOk)
    BY <2>1, <2>3, SamePolls DEF Update!AfterDispatch, Proved!AfterDispatch,
           Update!RearmsForZone, Proved!RearmsForZone, Update!world, Proved!world
  <2>6. ASSUME NEW io, NEW uiOk, NEW ready, NEW resyncOk
        PROVE  Update!DisplaySurface(io, uiOk, ready, resyncOk)
                 <=> Proved!DisplaySurface(io, uiOk, ready, resyncOk)
    BY SamePersist, SamePolls DEF Update!DisplaySurface, Proved!DisplaySurface,
           Update!world, Proved!world
  <2> QED
    BY <2>4, <2>5, <2>6 DEF Update!Handlers, Proved!Handlers
<1>3. Update!Tick <=> Proved!Tick
  BY DEF Update!Tick, Proved!Tick, Update!Down, Proved!Down, Update!world, Proved!world
<1> QED
  BY <1>1, <1>2, <1>3

\* The handlers change nothing of the session's but the mask.
LEMMA UpdateStepIsMask == UpdateStep => [Next]_sessionVars
<1> SUFFICES ASSUME UpdateStep PROVE [Next]_sessionVars
  OBVIOUS
<1>1. auth' = auth \/ auth' \in SessionMasks
  BY DEF UpdateStep, Update!ReceivePacket, Update!ReceiveAuthStats, Update!ReceiveOther,
         Update!Handlers, Update!NotifyRetries, Update!AfterDispatch, Update!DisplaySurface,
         Update!Tick
<1>2. UNCHANGED <<objects, class, session, pending, trainer>>
  BY DEF UpdateStep, trainerOnly
<1>3. CASE auth' = auth
  BY <1>2, <1>3 DEF sessionVars
<1>4. CASE auth' \in SessionMasks
  BY <1>2, <1>4 DEF ReceiveMask, Next
<1> QED
  BY <1>1, <1>3, <1>4

\* Every behaviour of the client is one of the guild trainer's session: whatever the
\* handlers of the mask do between its steps, the session does what it does alone.
THEOREM ClientImplementsSession == ClientSpec => Spec
<1>1. ClientInit => Init
  BY DEF ClientInit, Init
<1>2. [ClientNext]_clientVars => [Next]_sessionVars
  <2> SUFFICES ASSUME [ClientNext]_clientVars PROVE [Next]_sessionVars
    OBVIOUS
  <2>1. CASE TrainerStep
    BY <2>1 DEF TrainerStep, Next
  <2>2. CASE UNCHANGED clientVars
    BY <2>2 DEF clientVars
  <2> QED
    BY <2>1, <2>2, UpdateStepIsMask DEF ClientNext
<1> QED
  BY <1>1, <1>2, PTL DEF ClientSpec, Spec

\* So the session restores what the client wrote, and shows its trainer's class, with
\* masks arriving and retries polled while it is open.
THEOREM ClientSessionCorrect ==
    ClientSpec => [](SessionRestoresOriginal /\ WindowShowsTrainer)
BY ClientImplementsSession, RestoresOriginal, WindowCorrect, PTL
\* The session types what the handlers read; the handlers' own invariant needs no more.
ClientInv == SessionInv /\ Proved!PersistInv

LEMMA ReadsTyped ==
    ASSUME TypeOK
    PROVE  /\ player \in Names \cup {NoName}
           /\ profileClass \in PlayableClasses \cup {NoClass}
<1>1. profile # NoAddress => profile \in Addresses
  BY DEF TypeOK, Addresses
<1> QED
  BY <1>1 DEF TypeOK, player, profileClass, AnyClass

LEMMA InitClientInv == ClientInit => ClientInv
<1> SUFFICES ASSUME ClientInit PROVE ClientInv
  OBVIOUS
<1>1. SessionInv
  BY InitSessionInv DEF ClientInit, Init
<1>2. TypeOK
  BY <1>1 DEF SessionInv
<1>3. Proved!AuthInv
  <2>1. /\ Proved!NoPersist \in [pending : BOOLEAN, mask : Proved!Masks]
        /\ Proved!NotEnsured \in Proved!EnsuredType
        /\ Proved!Cleared \in Proved!Retries
    BY HandlersAssumptions, ClassAssumption, Proved!RecordTypes DEF Proved!EnsuredType
  <2>2. cache \in Proved!Image
    BY DEF ClientInit, Update!NoRows, Proved!Image, Proved!Rows
  <2>3. /\ persist = Proved!NoPersist /\ caster = Proved!Cleared
        /\ combat = Proved!Cleared /\ ensured = Proved!NotEnsured
    BY DEF ClientInit, Update!NoPersist, Proved!NoPersist, Update!Cleared, Proved!Cleared,
           Update!NotEnsured, Proved!NotEnsured
  <2>4. Proved!TypeOK
    BY <1>2, <2>1, <2>2, <2>3, ReadsTyped, ClientSessionAssumption
       DEF ClientInit, TrainerInit, TypeOK, Proved!TypeOK, Proved!EnsuredType, Proved!Masks
  <2> QED
    BY <2>3, <2>4, ClientSessionAssumption
       DEF ClientInit, Proved!AuthInv, Proved!RetryRecordsSound, Proved!SoundRetry,
           Proved!PendingUsesLatestMask, Proved!AttemptsSpaced, Proved!Cleared,
           Proved!NoPersist
<1>4. ~persist.pending
  BY DEF ClientInit, Update!NoPersist
<1> QED
  BY <1>1, <1>3, <1>4 DEF ClientInv, Proved!PersistInv

LEMMA NextClientInv == ClientInv /\ [ClientNext]_clientVars => ClientInv'
<1> SUFFICES ASSUME ClientInv, [ClientNext]_clientVars PROVE ClientInv'
  OBVIOUS
<1>1. SessionInv'
  <2>1. [Next]_sessionVars
    BY UpdateStepIsMask DEF ClientNext, TrainerStep, Next, clientVars
  <2> QED
    BY <2>1, NextSessionInv DEF ClientInv
<1>2. CASE UpdateStep
  <2>1. Proved!Next
    BY <1>2, SameHandlers DEF UpdateStep, Proved!Next
  <2> QED
    BY <1>1, <2>1, HandlersAssumptions, ClassAssumption, Proved!NextPersistInv DEF ClientInv
<1>3. CASE TrainerStep \/ UNCHANGED clientVars
  <2>1. UNCHANGED updateOnly
    BY <1>3 DEF TrainerStep, clientVars
  <2>2. auth' = auth
    BY <1>3 DEF TrainerStep, Sends, SendGMTraining, SendGMEndTraining, Clicks,
       GuildTrainerClassLookup, Objects, EnterWorld, LoadSpawn, LoadProfile, Load, LeaveZone,
       clientVars, sessionVars
  <2>3. /\ character' \in Names \cup {NoName}
        /\ player' \in Names \cup {NoName}
        /\ profileClass' \in PlayableClasses \cup {NoClass}
    BY <1>1, ReadsTyped DEF SessionInv, TypeOK, player, profileClass, Addresses, AnyClass
  <2>4. Proved!AuthInv /\ (persist.pending => persist.mask # {})
    BY DEF ClientInv, Proved!PersistInv
  <2>5. Proved!AuthInv'
    BY <2>1, <2>2, <2>3, <2>4, HandlersAssumptions, ClassAssumption, Proved!WorldChangesInv
       DEF updateOnly, Proved!AuthInv, Proved!TypeOK
  <2> QED
    BY <1>1, <2>1, <2>4, <2>5 DEF ClientInv, Proved!PersistInv, updateOnly
<1> QED
  BY <1>2, <1>3 DEF ClientNext

\* The invariants of the session and of the mask's handlers hold together, whatever
\* class the handlers read (TryReadLocalProfileClassId).
THEOREM ClientInvariant == ClientSpec => []ClientInv
BY InitClientInv, NextClientInv, PTL DEF ClientSpec

\* Whatever class a session shows while masks arrive and retries are polled, the retry
\* records stay sound, for the newest mask, and spaced (the polls, hm:6706 and hm:6813,
\* read the class the session overwrites through TryReadLocalProfileClassId).
THEOREM UpdatesSound == ClientSpec => []UpdatesStaySound
<1>1. ClientInv => UpdatesStaySound
  BY DEF ClientInv, Proved!PersistInv, Proved!AuthInv, UpdatesStaySound,
         Proved!RetryRecordsSound, Update!RetryRecordsSound, Proved!SoundRetry,
         Update!SoundRetry, Proved!Cleared, Update!Cleared,
         Proved!ShouldArmCombat, Update!ShouldArmCombat,
         Proved!HasAnyAuthoritativeCastingClass, Update!HasAnyAuthoritativeCastingClass,
         Proved!IsPlayableClassMask, Update!IsPlayableClassMask,
         Proved!PendingUsesLatestMask, Update!PendingUsesLatestMask,
         Proved!AttemptsSpaced, Update!AttemptsSpaced
<1> QED
  BY <1>1, ClientInvariant, PTL

\* A mask received or pending under a session is given up only when a lookup by the
\* class the hooks read then finds it.
THEOREM DeferredIsFound ==
    ASSUME Proved!StoresFit
    PROVE  ClientSpec => Update!PersistedIsFound
<1> DEFINE Found == /\ persist.pending \/ (stage = "idle" /\ stage' = "refresh")
                    /\ ~persist'.pending
                    => Update!TryLookupCharacterClassMask(cache', player, profileClass, server)
                         = {Update!MaskToPersist}
<1>1. Proved!MaskFound => Found
  <2>1. ASSUME NEW format, NEW row
        PROVE  /\ Update!RowKept(format, row) <=> Proved!RowKept(format, row)
               /\ Update!RowFields(format, row) = Proved!RowFields(format, row)
    BY DEF Update!RowKept, Proved!RowKept, Update!RowFields, Proved!RowFields
  <2>2. Update!ParseCacheEntries(cache') = Proved!ParseCacheEntries(cache')
    BY <2>1 DEF Update!ParseCacheEntries, Proved!ParseCacheEntries
  <2>3. Update!ReadCacheEntries(cache') = Proved!ReadCacheEntries(cache')
    BY <2>2 DEF Update!ReadCacheEntries, Proved!ReadCacheEntries, Update!NoRows, Proved!NoRows
  <2>4. Update!TryLookupCharacterClassMask(cache', player, profileClass, server)
          = Proved!TryLookupCharacterClassMask(cache', player, profileClass, server)
    BY <2>3 DEF Update!TryLookupCharacterClassMask, Proved!TryLookupCharacterClassMask
  <2> QED
    BY <2>4 DEF Proved!MaskFound, Update!MaskToPersist, Proved!MaskToPersist
<1>2. ASSUME ClientInv, [ClientNext]_clientVars
      PROVE  [Found]_(Update!vars)
  <2>1. CASE UpdateStep
    <3>1. Proved!Next
      BY <2>1, SameHandlers DEF UpdateStep, Proved!Next
    <3>2. [Proved!MaskFound]_(Proved!vars)
      BY <1>2, <3>1, HandlersAssumptions, ClassAssumption, Proved!StepFinds DEF ClientInv
    <3> QED
      BY <1>1, <3>2 DEF Update!vars, Proved!vars, Update!world, Proved!world,
                        Update!history, Proved!history
  <2>2. CASE UNCHANGED <<stage, persist>> /\ (stage = "idle" => stage' = "idle")
    BY <2>2
  <2> HIDE DEF Found
  <2> QED
    BY <1>2, <2>1, <2>2 DEF ClientNext, TrainerStep, updateOnly, clientVars
<1> QED
  BY <1>2, ClientInvariant, PTL DEF ClientSpec, Update!PersistedIsFound
===============================================================================
