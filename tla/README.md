# Models of the Monomyth client DLL

Monomyth is a `dinput8.dll` proxy that runs inside a 32-bit EverQuest client.
It forwards the DirectInput exports, patches *seams* of the client's code, and
uses them to let one character act with several classes. The server decides
which: it sends an authoritative class mask in `OP_ServerAuthStats`. This
directory holds TLA+ models of the DLL's own control logic, TLC configurations
that check them on small instances, and proofs for TLAPS. Line numbers of
`hook_manager.cpp` are written `hm:N`.

## 1. The system

| part | state | operations | talks to |
|---|---|---|---|
| proxy (`dllmain`, `dinput_proxy`) | `g_init_once`, `g_hooks_started`, manifest | `InitializeOnce` on the first export call, `Shutdown` on unload | everything below, once each way |
| discovery, fingerprint, capabilities | a manifest of validated addresses | run once before hooking | manifest read by the installers |
| hook engine and lifecycle (`hook_manager`) | per seam: bytes, trampoline, `g_original_...` pointer; `g_initialized` | `Install...`, `Remove...`, `Initialize`, `Shutdown` | patches the client |
| packet observer | `g_state`, budgets, who-all rows, timed cast | `ObserveReceiveMetadata`, `ObserveSendMetadata` | called by the receive and send hooks |
| authoritative mask (`server_auth_stats_observer`, `hook_manager`) | the mask; a pending store; two retry records | packet notification, forced refresh, polls, zone rearm | cache, client windows, combat arrays |
| multiclass cache | one text file and its `.tmp` | lookup by name or by native class, store | written by the authoritative mask, read by the character list |
| guild trainer session | two saved classes with the addresses they were found at, a pending class | gate lookup, override on `OP_GMTraining`, restore on `OP_GMEndTraining` | overwrites the class every other part reads |
| multi-pet roster (`multipet_spawn_observer`, `hook_manager`) | pets by spawn id with owner, name and first-seen number | spawn, despawn and world-entry packets, a snapshot for the pet window's rows, clicks on a row | focus from the authoritative stats; targets spawns of the client |
| remote identity | other players' classes by server and name | identity packets, lookups | the packet observer's /who rows |
| local class overrides (`hook_manager`) | none of its own: the class and the stored mana in the client's objects | mana, skill and ability hooks that repeat a call per assigned class | the client's own getters, the trainer session |
| combat abilities | remembered source and target of the client's last copy, a pending resync, a pending show | copy, rebuild and show hooks, resync | the authoritative mask, the client's window |
| spell usability | one snapshot of the scribe gate in progress | detours on the gate and its helpers, level hook | the client's spellbook |
| item usability | remembered hands, a pending move | detours on the checks of a click, an observer of sends | the client's inventory |
| pet window | a window | layout | the roster |
| class identity, learned disciplines, spell level selection | none (pure) | mask predicates, selections | every hook |

Almost everything runs on the client's game thread, but not in one piece: the
client's own code runs between the DLL's steps and calls other hooks, so a
handler is cut by display hooks in the middle (a forced character-list refresh
inside the packet notification is the plainest case). Real concurrency exists
only between *client processes* that share the cache file. What is hard:

* **ordering and staleness**: a mask, a pending store and two retries outlive
  zoning, camping and a change of character, and act later on whoever is there;
* **retries**: budget, spacing and end of the deferred attempts;
* **shared client memory**: the trainer session overwrites fields that other
  parts read as the character's own class, and remembers raw addresses;
* **ids used again**: spawn ids outlive the spawns and the zone they named;
* **files**: read, write and move with crashes, short writes, other processes;
* **client code inside a hook**: a temporary class is set around a call that may
  fault or write what it should only read; gates and windows re-enter the hooks;
* **memory of things not read**: a replay buffer, a scribe snapshot and the hands
  are remembered from earlier calls and used as if they were current;
* **partial failure** of installing and removing some hundred patches.

What makes each part correct: retries are bounded, spaced, for the newest mask,
and end; a store that reports success can be read back, and disturbs no other
row; the pet rows name the pets a click reaches; a /who row shows its own
player; an override lives no longer than its session or its call, and reading
mana does not spend it; what a character is granted is an assigned class's, and
what is taken back is really excluded; nothing is patched that was not
recognised, no hook is left without the original it calls, and an unload undoes
what the load did. `PROJECT.json` lists every hazard at its line with
the property that watches it.

## 2. Modules

| module | models | in the code |
|---|---|---|
| `ClassIdentity` | class masks as sets of bits, and the predicates on them | `multiclass_identity.cpp` |
| `CacheFile` | the cache file as data: what a reader makes of an image, which images a store can leave | `multiclass_cache.cpp` |
| `AuthUpdate` | the mask's handlers, both retries, the deferred store | `NotifyServerAuthStatsUpdated` (hm:35791), the polls (hm:6706, hm:6813), `ReceiveDispatchHook` (hm:17739), `TryPersistPendingMulticlassCache` (hm:5905) |
| `AuthUpdateProofs` | the theorems about it | |
| `CacheStore` | abstract: a dictionary from names to rows | |
| `MulticlassCache` | a store as file operations of several processes | `StoreCharacterClassMask`, `WriteCacheEntries` |
| `MulticlassCacheProofs` | its theorems, the refinement of `CacheStore` among them | |
| `TrainerSession` | gate, override and restore over reallocated client objects | hm:9839-9957, hm:18321, hm:24286 |
| `ClientSession` | `TrainerSession` and `AuthUpdate` in one client, the latter by `INSTANCE`, reading the class the former overwrites | `TryReadLocalProfileClassId` (hm:6273) |
| `PetRoster` | the roster, the pet window's rows and the clicks on them, against the spawns of the zone | `multipet_spawn_observer.cpp`, `TryTargetMultiPetAuxiliarySlotFromPetInfoClick` (hm:10548) |
| `PetRosterProofs` | the theorems about it | |
| `ClientImage` | a client as what it lacks of the expected one; the fingerprint and the discoveries as functions of it | `fingerprint.cpp`, `*_discovery.cpp` |
| `Capabilities` | the manifest as a function of both | `runtime_capabilities.cpp` |
| `HookLifecycle` | load, install, remove, unload | `hooks::Initialize` (hm:35831), `hooks::Shutdown` (hm:36275), `dinput_proxy.cpp` |
| `HookLifecycleProofs` | the theorems about it | |
| `AuthStats` | a stats payload, and what it leaves for readers | `server_auth_stats_observer.cpp` |
| `RemoteIdentity` | the store of other players' classes | `remote_multiclass_identity.cpp` |
| `PacketObserver` | composes both with the packets, the /who capture and its display, and timed casts | `packet_observer.cpp` |
| `PacketObserverProofs` | the theorems about all three | |
| `AssignedMask`, `ClassOrder` | the mask as the hooks below share it; the orders in which its classes are tried | `multiclass_identity.cpp`, hm:7115 |
| `ClassOrderProofs` | the theorems about the orders, and the lemmas on recursive functions that other proofs cite | |
| `LocalClass` | temporary overrides around the client's mana, skill and ability functions, over `TrainerSession` | hm:6970-7600, hm:9501 |
| `LocalClassProofs` | the theorems about `TrainerSession`, `LocalClass` and `ClientSession` | |
| `CombatAbilities` | the ability array, its replay and synthesis, the window's show | hm:11379-12130, hm:14823, hm:35441 |
| `SpellUsability` | the scribe gate's override, and the level of a spell | hm:15549-15656, hm:23722-24125, `spell_level_selection.cpp` |
| `HandEquipment` | a click on a hand through its three checks, and the remembered hands | hm:12132-12338, hm:15266, hm:25602-26191 |
| `UsableAbilities` | composes the three: one mask, which a packet sets for all of them, and one thread | hm:17739 |
| `UsableAbilitiesProofs` | the theorems about the three and their composition | |

`MC...` modules and `.cfg` files give the constants values. Operators have the
source's names wherever a function stands behind them.

**AuthUpdate.** `ReceiveDispatchHook` is three actions, with display hooks free
to run between them: `ReceiveAuthStats` (store the mask, mark the store pending
and try it; `stage` becomes `refresh`), `NotifyRetries` (after the forced
refresh: resync, arm or clear both retries), `AfterDispatch` (after the
original dispatcher: zone rearm, then both polls). `ReceiveOther` is any other
packet; `DisplaySurface` any class-display hook. A record's `wait` is the
difference of its due tick and the clock, so `Tick` counts it down; the history
variables `sinceAttempt` and `gap` measure the distance of polled attempts.
Whether a client window opens, a resync succeeds, a pointer is readable or a
file operation works is a free choice of each step, since the client decides it.
A poll is one step: the client code an attempt runs (hm:6758) is taken not to
call a display hook, which would find the old due tick (set anew at hm:6767) and
attempt a second time inside the first. Whether the client's windows do is not
in the repository; `AttemptsSpaced` says nothing of such attempts.

**CacheFile** keeps an image as a function from names to rows: every reader
parses first, and the parser keeps one row per name. Two rows of one name (on
two servers) exist only inside a rewrite, and which of them survives the next
parse is decided there: beyond `SmallSort` rows `std::sort` may leave either
last. `MaxRows` is the 64 KiB limit in rows.

**TrainerSession** has the client's two objects at addresses that it frees and
reuses. A restore may find a freed page unreadable, so it may or may not write
to an object no longer in use; it always writes to one in use.

**ClientSession** runs both on one thread: the handlers go on between the
trainer's steps, and read the class of whatever the client's objects show then.
The client sends and zones between two packets, so a trainer's step needs
`stage = "idle"`.

**PetRoster** keeps `g_entries` by spawn id, since `FindEntryBySpawnId` never
lets an id in twice, and the sort of the candidates as the order of their
first-seen numbers: a row is the first candidate, the other the first of the
rest. `world`, `inZone` and `target` are the client's own: what the spawns of
the zone are, and what is targeted. The packets of a zone come in order over
one reliable stream, so a spawn enters `world` and the roster in one step; only
`LeaveZone` empties `world` without a packet. The world server sends
`OP_EnterWorld` before each zone, which is where the observer clears the roster.
`DisplayName` drops a trailing `000` of a raw name as `BuildDisplayName` does.

**HookLifecycle** has a member of `Seams` for each place that is patched, two
where more than three are treated alike, the installers with the rollback each
of them does by hand, and the removal chain in its order. `client` says which
evidence is missing from the image and which seams cannot be patched or
restored; everything else follows from it, the manifest included. Installers
that no manifest ever allows (the traces) are left out.

**PacketObserver**: a packet is one step. `lastStats`, `told` and `sent` are
histories of what the server and the client really said. A /who response is
captured by one action and drawn, row by row, by others; the client handles no
other packet before it has drawn the last row.

**LocalClass** has memory as the class and the stored mana at each address. A
hooked call is one step; what it does to memory on the way is a composition of
operators from memory to memory and a value (`TryApplyTemporaryLocalClassOverride`,
`CurManaPreservingStorage`, `EvaluateBestAuthoritativeCurMana`). The client's
functions are data: what they return for a class, for which classes they fault.

**CombatAbilities** replays from `source`, remembered when the client copies
into the local profile. The client's `Show` rebuilds the list before it
returns, so showing is two actions. Its window is shown or not: shown stands for
visible, not minimised and active together (hm:14845), the restore before `Show`
belongs to the start of the call, and what follows it (hm:14863-14869) to its
return. `owed` is a history: a resync asked for the
window and it has not been seen since.

**SpellUsability** keeps a stack of frames, since paths, gates and rules nest;
`snapshot` is the one global record they all write. `installed` is any
combination the installer can leave.

**HandEquipment**: `worn` is what the hands hold, `cached` and `pendingMove` what
the hooks remember. A `sight` is what the hooks manage to read in one call. `GateB` judges the item
of the click, where the code judges the one the late lookup of that click left
(hm:29117; emptied when a click starts, hm:28707): a lookup that did not happen
is a sight without the item.
`unseen` marks a hand that changed with no send that shows how (the server, a
swap in one packet, another character, a pending move of an aborted click):
there the memory is known to be stale, which the hazards list. The holding
animation, when it can be read, is taken to be true of the primary hand.

**UsableAbilities**: a call of one part is over before another part's begins, and
a packet is dispatched between calls; it sets the mask of all three and
resynchronises the abilities in one step.

## 3. Runs

| run | what it asks | bounds |
|---|---|---|
| `auth` | types; retry records sound; pending for the newest mask; attempts spaced; a finished store is found; a pending retry ends | 2 characters, 2 servers, 3 masks (with a caster class, with an unknown bit, 0), 2 attempts, cooldown 2 |
| `cache` | types and exclusive writing; a store that overlaps no other is atomic | 2 processes, 2 names, 2 servers, read faults, crashes |
| `cacheOne` | one process refines `CacheStore` | the same rows, no read fault |
| `localClass` | originals come back after a session and after a call; the window reads the trainer's class; stored mana survives; mana within its maximum; abilities of assigned classes; retries sound, for the newest mask and spaced under a session | `part` puts either the hooked calls or the handlers of the mask beside the session; 1 character with 3 classes, 2 masks, 1 spawn and 2 profile addresses (one of which may be the class record), one fault or unwritable object per call; with the handlers one trainer, no class record, 2 attempts, cooldown 1 |
| `usable` | what is selected, replayed and shown; overrides of the gate and the level; answers for the hands | `part` bounds a behaviour to the calls of one part, packets in each; 7 spells of which 4 share a group, 2 buffers, a list of 2, 2 players; 4 nested calls, 5 installations, 4 spell masks; 3 items, 4 sights; 3 masks |
| `hooks` | nothing unproved is patched; clean end of a completed shutdown; originals behind every patch; the `HasSkill` pointer is alive | every fingerprint; each piece of evidence missing, and each pair of entry bytes; each seam that cannot be patched with each that cannot be restored |
| `pets` | rows are living siblings of the focused pet under their names; rows keep their order; clicks reach no one else | 4 ids (symmetric), 2 owners and none, 2 raw names of which one loses its `000` |
| `packets` | readers see the last stats payload; rows are labelled with their own player; a timed cast starts from the player's own send | 7 stats payloads, 5 identity payloads, responses of up to 2 rows, 3 spellings of 2 names, a window of one tick |
| `trainerStale`, `cachedNative`, `retryDropped`, `unloadInSession` | violated: see below | one or two characters |

Why the bounds are enough: a budget of two has a first, a middle and a last
attempt once the cleared state is counted, and a cooldown of two lets a poll
come too early by one tick. Two characters are needed for every mix-up the code
can make, a third adds none, because no step reads more than the current one
and what is left of one before. Two processes give all overlaps of a pair of
stores. One reused address is enough for a stale pointer. Four spawns are a focused
pet, its two rows and one sibling too many. `SmallSort` and
`MaxRows` are set so that the runs stay where the order of rows is fixed and
the file readable: beyond, the code promises nothing a property could state
(the hazards list both limits). Characters never leave `Names`, and a poll
never runs inside another (§2, `AuthUpdate`).

In `usable` the calls of two parts share nothing but the mask and the thread, so
`part` leaves out no step of either, only sequences of both; the composition
without that bound is proved. There a group of four with a list of two makes an ability displace
another, be displaced and find the list full; four nested calls are a path, a
gate, its rule and a gate inside the rule. The three items are one for each
branch of the policies: a two-hander, a weapon for either hand, and no weapon.
In `localClass` the hooked calls and the handlers share the class and the mask,
which both read anew in every step; the calls leave the class as it was, so a
handler reads the same with or without them.
In `hooks` two failures at once are enough for a rollback that itself fails; a
third would have to be independent of both, and no installer handles two. In
`localClass` one fault per call is enough, since nothing in the code counts
them. `packets` has a row and one after it, which is what a shift of labels
needs. `MaxDepth`, `BeginWindow`, `CastGrace` and `Capacity` are the code's
limits made small.

`hooks` alone checks no deadlock: the DLL really is done once it is unloaded.

### What the violated runs show

* `trainerStale` - a session left open by zoning or camping stays, with its
  addresses, and its later restore or switch writes into whatever object is
  there. `localClass` shows the other half: without a reload under a session the
  README's claim holds, through failed sends and switched trainers.
* `cachedNative` - a mask that arrives during a session is filed under the
  trainer's class. The row stays wrong after the session.
* `retryDropped` - a poll during a session judges eligibility by the
  overridden class and clears the retry with attempts left.
* `unloadInSession` - removing the skill visibility hook reports failure when
  it succeeded, so the rest of the chain, the trainer's restore included, is
  skipped. `CompleteShutdownIsClean` holds because such a shutdown never counts
  as complete.

### Fairness

Only `RetrySettles` in `auth` needs any: weak fairness of time, of some other packet, and of
the handlers once begun. A handler is straight-line code on the game thread;
packets keep coming because a player in the world is sent movement and spawn
updates all the time, which CHANGELOG.md:26 relies on too. Nothing is assumed of
display hooks, of the client's windows or of login. `RetrySettles` asks for an
end only while the player stays readable and no new mask arms the retry again.

## 4. Proofs

Every theorem is for all values of the constants that the named assumptions
allow; TLC evaluates those assumptions in the runs. A proof has an inductive
invariant (TLC checked each of them on the run of its module first), a lemma for
every helper that changes state, and one step per action.

**The mask** (`AuthUpdateProofs`): `TypeCorrect`, `RetriesSound`,
`LatestMaskPending` and `PolledAttemptsSpaced`, four invariants of `auth`, for
any budget and any cooldown. `AuthInv` is inductive where single members are
not. Spacing needs that an armed retry waits out the cooldown *counted from the
last attempt*; that no attempt is counted past the budget needs the soundness of
both records; that a poll acts for the newest mask needs the `stage` under which
the old records may still be there.

`PersistedMaskIsFound`: a mask that stops being pending is found by both lookups.
Its hypothesis is `StoresFit`: fewer characters than `MaxRows`, since a longer
file is unreadable, and fewer than `SmallSort` unless there is only one server,
since `std::sort` may otherwise leave the new row before an old one of the same
name. Beyond either limit the property is false, and both are listed hazards.
Besides `AuthInv` it needs that a pending mask is not empty.

**The roster** (`PetRosterProofs`): the four properties of `pets`, for all sets
of spawn ids, owners and names. `PetInv` adds to the types that the active
entries are exactly the zone's pets (between zones the zone is empty, so that a
cleared roster agrees with it) and that first-seen numbers are distinct. The
rows follow: `FirstExists` by the well-foundedness of the naturals,
`FirstUnique` because numbers are distinct, and `CandidatesAreOtherPets`
replaces the roster by the zone. The focus needs no invariant: the rows are
right for whatever pet it names, which is also all they promise.

**The trainer session and the overrides of a call** (`LocalClassProofs`).
`SessionInv` adds to `SessionRestoresOriginal` and `WindowShowsTrainer` that the
objects in use were created with a playable class, that a train window has a
local player and the class its gate named, and that an active session under
which nothing was replaced shows its class in every object of the player. Both
properties are proved for `TrainerSession` alone and again under the hooked calls
of `LocalClass` and the handlers of `ClientSession`. `OverridesEndWithTheirCall`
proves `ClassesUntouched`: an
override of one call, however it nests, faults or fails to be written, leaves
memory's classes as they were. Its lemma is that `TryApply...` followed by
`Restore...` around any call that keeps classes is the identity on classes; the
rest is that every evaluation of the hooks is such a composition.

**What the hooked calls return** (`LocalClassProofs`). For calls in which nothing
fails, a second set of lemmas says what each evaluation yields: the best of the
answers of the assigned classes and the value it starts from, with memory as it
was. `AbilityIsAssigned` follows at once. For mana there are two hypotheses:

* `OnlyCastersHaveMana`: the client computes a maximum for the casting classes
  and for no others. Those are the classes with a mana pool in the game; the
  code rests on it where it asks the casting classes only.
* `RecordAgrees`: the class record shows a caster's class only where the profile
  does. It is needed: the maximum is evaluated from the client's own answer, the
  one current mana is measured against from 0 (hm:7536), and only a class that
  beats its start gets the heroic bonus. While a warrior's train window hides a
  cleric's class in the profile and not in a class record of its own, the two
  differ. TLC finds that state when `MCNativeClass` is made a cleric; it is a
  listed hazard, and no document says what mana is shown there.

`ManaWhereRecordAgrees` is the theorem under both. `RecordAlwaysAgrees` proves the
second for characters that were not created as casters (`NoNativeCaster`),
through every session, load and fault: then a caster's class is always a
session's, and a session that covers the record covers the profile.
`StoredManaIsKept` and `CurrentIsWithinMax` put the two together.

**One client** (`LocalClassProofs`, last section). `ClientImplementsSession`: each
step of the composed client is one of `TrainerSession` or a stutter. The other
way, the handlers read a class the session changes under them. `ClientInv` is the
session's invariant and that of `AuthUpdate`, whose lemmas are used through an
`INSTANCE` of `AuthUpdateProofs`: each handler's lemma holds for any player and
class it may read, and a trainer's step changes only those two. So
records are as sound under sessions as without (`UpdatesSound`), and a finished
store is found (`DeferredIsFound`, under `StoresFit`), whereas
`RetryStaysArmed` and `CacheHasNativeClass`, which are about *which* class was
read, are violated.

**The cache** (`MulticlassCacheProofs`). `CacheInv`: a call that overlaps no
other runs alone, on the rows the file has and with a temporary file it wrote;
rows held in memory are rows a reader keeps. `StoreIsAtomic` and the refinement
`OneClientIsDictionary` (each step is `Put` of `CacheStore` or a stutter,
crashes and failures included) have one hypothesis besides, `RoomForEveryName`:
the names are fewer than `MaxRows`, since a longer file is unreadable and the
code then starts over (a listed hazard). They do not depend on `SmallSort`: a
rewrite of rows read from the file has two rows of one name only if they are
equal or one is the new one.

**Abilities, spells, hands** (`UsableAbilitiesProofs`), by specification:

* `GateSpec`: `OverridesOwnReject` and `LevelsOfOverridden`. The invariant says
  that rules nest only in gates that have read their mask, and that the one
  global snapshot is that of the *innermost* gate, with what its stage has
  filled in. An outer gate finds the snapshot cleared by the inner one, which is
  why only the innermost can be overridden.
* `HandSpec`: `CacheCorrect`, `RevocationsRight` and `GrantsRight`, for every
  item, mask and sight. `CacheShowsHands` needs that the move pending when a
  click is sent is of that click's item: an earlier click may have left a move
  pending for the same hand.
* `CombatSpec`: `ClientCopyStays`, `ShowKept`, `ShowOnce` and `SynthesisBest`. The
  last is a theorem about the selection itself, `SelectsBest`, for every spell
  table, player and capacity: stage by stage, the list holds a spell that no
  eligible one of its group seen so far beats.

Every step of `UsableAbilities` is a step of each part's own specification or
leaves that part alone (`UsableInvariant`), so the types and all nine properties
hold of the composition as well.

The properties of the order of classes (`ClassOrderProofs`) say that it has each
assigned class once and nothing else but the primary class, first.

**Load and unload** (`HookLifecycleProofs`): all five invariants of `hooks`, for
every client, not only those with up to two failures. `HookInv` follows the
removal chain: at the k-th group everything before it is out but for the item
seams whose result nobody reads (`Passed`); features hang on the seams that
enable them only while those can still be there (`Attached`). Each removal is an
instance of one lemma, `RemovalStep`; each installer has a lemma that says which
seams it adds with which originals, and under what evidence.

**Packets** (`PacketObserverProofs`): all four properties of `packets`.
`ObserverInv` has four parts on disjoint state, beside the range of the state flag (`Lives`). For the stats, `ParsedPayload`
shows that the parser's loop keeps the last value of each key that fits, for
payloads of any length; for the identities, `StoredPayload` the same for the rows
of other players. For /who: while a response whose rows all have a name and a
class is drawn, the cursor is the number of labels drawn. For casts: the age of
the last send and what is left of its window add up to the window.

**Recursive functions.** A loop is a function over `0 .. n` whose values follow
from one another. That such a function exists, and that what each step preserves
holds of all values, is proved once in `ClassOrderProofs` (`RunExists`,
`AllSteps`, `AllStages`) from the well-foundedness of the naturals, since an
induction theorem that takes a predicate cannot be used here. A proof then names
the set of values each stage may have.

Model-checked only: `RetrySettles`, which is liveness under fairness. The
violated properties of the four other runs are refuted by TLC, so there is
nothing to prove.

## 5. Not modelled

* The pet window, and the texts, tokens, logs and traces: no state others read.
* The bytes of a patch, and threads of the client running in a trampoline that
  is being freed. The matching of bytes in discovery is a choice per piece of
  evidence.
* The spell window's replay, seeding and selection (hm:8163-9121) and the spell
  bar refresh: lists of undocumented client objects. The refresh at hm:13548 and
  hm:13675-14111 is called by nothing.
* Power source, ammo and augment decisions, each one class test; merchant lists
  (the class test of `HandEquipment`, added to what a list shows).
* The packet observer's log budgets and the correlations that are only logged.

### Where documents and code differ, without a run

* `receive_dispatch_discovery.cpp:615` fails discovery without the `ret 0x10`
  epilogue; README.md:219 and CHANGELOG.md:83 call that evidence advisory.
  `ClientImage` follows the code.
* hm:31588 installs item usability traces; CHANGELOG.md:50 says they "are no
  longer installed during normal item-usability behavior runs".
* `runtime_capabilities.cpp:1105` allows UI hooks when class display is allowed;
  README.md:41 says "Leaves `ui_hooks_allowed=false`".
* `packet_observer.cpp:544` accepts at most five entries under opcode 0 while
  six keys exist; CHANGELOG.md:43 speaks of an exact recognised shape.
* The player window's mana visibility callsites are patched (hm:30344), but the
  override needs a window pointer (hm:9374) that is only stored behind that
  same check (hm:9337), so it never acts.

## 6. Plan

1. `AuthUpdate` with the resync of `CombatAbilities` in place of its free
   success or failure.
2. `HandEquipment` with the power source and ammo slots, and the merchant mask.
3. Native casters in `LocalClass`: what the mana of a caster is at a trainer of
   another class, once a document says what it should be.
