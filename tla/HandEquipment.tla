---------------------------- MODULE HandEquipment ----------------------------
(***************************************************************************)
(* Weapons in two hands (src/src/hook_manager.cpp, multiclass_identity.cpp)*)
(*                                                                         *)
(* A click with an item on an inventory slot passes three checks of the    *)
(* client before the move is sent: Prep, GateB and Dispatch.  Hooks on the *)
(* three turn the rejection of an item an assigned class can use into an   *)
(* acceptance, and an acceptance into a rejection when the other hand does *)
(* not allow it.  They do not ask the client what the hands hold: they     *)
(* remember what the checks and the sends of moves have shown.             *)
(*                                                                         *)
(* One thread; a click is several steps, and other moves are sent, and the *)
(* hands change, without any of them.                                      *)
(***************************************************************************)
EXTENDS AssignedMask, Naturals

CONSTANTS
    Item,           \* the items, by name
    NoItem,
    DualWieldLevel, \* kDualWieldMatrix: the classes that can, and their level
    Sights          \* what the hooks may be able to read in one call

Hands == {"primary", "secondary"}
Kinds == {"oneHand", "twoHand", "bow", "other"}

\* A sight: the item's data and the holding animation are readable, the answer of
\* HasSkill for dual wield, and the level, 0 when it is not readable.
ASSUME HandAssumption ==
    /\ \A item \in DOMAIN Item :
           Item[item] \in [kind : Kinds, classes : Masks, wears : SUBSET Hands]
    /\ NoItem \notin DOMAIN Item
    /\ DOMAIN DualWieldLevel \subseteq PlayableClasses
    /\ \A class \in DOMAIN DualWieldLevel : DualWieldLevel[class] \in Nat \ {0}
    /\ Sights \subseteq [item : BOOLEAN, animation : BOOLEAN,
                         skill : {"yes", "no", "unreadable"}, level : Nat]

VARIABLES
    worn,           \* the hands of the local player
    cached,         \* g_cached_hand_equipment_state
    pendingMove,    \* g_pending_hand_equipment_move_state
    click,          \* the click in progress
    unseen          \* hands that changed without a send that shows how (history)

handVars == <<worn, cached, pendingMove, click, unseen>>

NoMove  == [slot |-> "none", known |-> FALSE, kind |-> "other"]
NoClick == [slot |-> "none", item |-> NoItem, at |-> "none"]
ItemOrNone == DOMAIN Item \cup {NoItem}

HandTypeOK ==
    /\ worn \in [Hands -> ItemOrNone]
    /\ cached \in [primary : {"unknown", "blocks", "free"},
                   secondary : {"unknown", "occupied", "free"}]
    /\ pendingMove \in [slot : Hands, known : BOOLEAN, kind : Kinds] \cup {NoMove}
    /\ click \in [slot : Hands, item : ItemOrNone,
                  at : {"prep", "gateB", "dispatch", "send"}] \cup {NoClick}
    /\ unseen \subseteq Hands

------------------------------------------------------------------------------
(* Items *)

IsWeapon(item) == Item[item].kind # "other"

IsTwoHandedWeapon(item) == Item[item].kind = "twoHand"

BlocksSecondaryWeapon(kind) == kind \in {"twoHand", "bow"}

\* IsClassUsablePredicateHook, CanEquipHook, EquipClickCanEquipCallsiteHook and
\* AugmentPlacementValidatorCallsiteHook ask no more than this.
HasAnyAuthoritativeClientItemClass(item) ==
    /\ IsPlayableClassMask(auth)
    /\ Item[item].classes \subseteq PlayableClasses
    /\ auth \cap Item[item].classes # {}

TryResolveDualWieldMatrixEntitlement(level) ==
    /\ IsPlayableClassMask(auth)
    /\ \E class \in DOMAIN DualWieldLevel :
           HasClass(auth, class) /\ level >= DualWieldLevel[class]

Entitled(sight) ==
    \/ sight.skill = "yes"
    \/ sight.skill = "no" /\ TryResolveDualWieldMatrixEntitlement(sight.level)

------------------------------------------------------------------------------
(* The other hand *)

\* TryResolveCurrentPrimaryBlocksSecondaryState: what is remembered, or the
\* animation of a weapon that needs both hands.
CurrentPrimary(sight) ==
    IF cached.primary # "unknown" THEN cached.primary
    ELSE IF /\ sight.animation
            /\ worn.primary # NoItem
            /\ BlocksSecondaryWeapon(Item[worn.primary].kind)
    THEN "blocks" ELSE "unknown"

Evaluated(slot, sight) ==
    IF slot = "secondary" THEN CurrentPrimary(sight) # "unknown" ELSE cached.secondary # "unknown"

\* Mutant: any weapon in the primary hand needs an empty secondary one.
EvaluateAnyWeapon(slot, item, sight) ==
    IF slot = "secondary" THEN CurrentPrimary(sight) = "blocks"
    ELSE item # NoItem /\ sight.item /\ IsWeapon(item) /\ cached.secondary = "occupied"

EvaluateHandEquipConflict(slot, item, sight) ==
    IF slot = "secondary" THEN CurrentPrimary(sight) = "blocks"
    ELSE item # NoItem /\ sight.item /\ IsTwoHandedWeapon(item) /\ cached.secondary = "occupied"

HandConflictClear(slot, item, sight) ==
    Evaluated(slot, sight) /\ ~EvaluateHandEquipConflict(slot, item, sight)

\* A weapon for the secondary hand, of an assigned class: is_offhand_weapon_attempt
\* and the class.
OffhandWeapon(item, sight) ==
    /\ item # NoItem /\ sight.item
    /\ IsWeapon(item) /\ "secondary" \in Item[item].wears
    /\ HasAnyAuthoritativeClientItemClass(item)

\* CaptureOffhandWeaponPolicySnapshot: eligible.
OffhandEligible(item, sight) ==
    OffhandWeapon(item, sight) /\ Entitled(sight) /\ CurrentPrimary(sight) = "free"

\* CaptureEquipmentClassPolicySnapshot: eligible.
EquipmentEligible(slot, item, sight) ==
    /\ item # NoItem /\ sight.item
    /\ slot \in Item[item].wears
    /\ slot = "secondary" => ~IsWeapon(item)
    /\ HasAnyAuthoritativeClientItemClass(item)

------------------------------------------------------------------------------
(* The checks of a click *)

\* The primary hand's policy needs an item.
HandPolicyActive == click.slot = "secondary" \/ click.item # NoItem

Revoked(native, sight) ==
    /\ native
    /\ HandPolicyActive
    /\ EvaluateHandEquipConflict(click.slot, click.item, sight)

\* RememberPendingHandEquipmentMoveState.
Remembered(result, sight) ==
    LET known == click.item # NoItem /\ sight.item IN
    IF ~HandPolicyActive THEN pendingMove
    ELSE IF ~result THEN IF pendingMove.slot = click.slot THEN NoMove ELSE pendingMove
    ELSE [slot |-> click.slot, known |-> known,
          kind |-> IF known THEN Item[click.item].kind ELSE "other"]

PrepAnswer(native, sight) ==
    IF native THEN ~Revoked(native, sight)
    ELSE /\ click.slot = "secondary"
         /\ OffhandEligible(click.item, sight)
         /\ HandConflictClear(click.slot, click.item, sight)

\* secondary_prep_fallback_used: nothing is known of the primary hand, but Prep
\* has accepted an item of this kind.
PrepFallback(sight) ==
    /\ click.slot = "secondary"
    /\ ~Evaluated(click.slot, sight)
    /\ pendingMove.slot = click.slot
    /\ \/ ~pendingMove.known
       \/ click.item = NoItem \/ ~sight.item
       \/ pendingMove.kind = Item[click.item].kind

OffhandOverride(sight) ==
    /\ click.slot = "secondary"
    /\ OffhandWeapon(click.item, sight)
    /\ HandConflictClear(click.slot, click.item, sight) \/ PrepFallback(sight)
    /\ OffhandEligible(click.item, sight) \/ (PrepFallback(sight) /\ Entitled(sight))

\* Mutant: what a click replaces in one hand is not checked with the other.
EquipmentOverrideUnchecked(sight) == EquipmentEligible(click.slot, click.item, sight)

EquipmentOverride(sight) ==
    /\ EquipmentEligible(click.slot, click.item, sight)
    /\ IF click.slot = "primary"
       THEN \/ ~IsTwoHandedWeapon(click.item)
            \/ cached.secondary = "unknown"
            \/ HandConflictClear(click.slot, click.item, sight)
       ELSE HandConflictClear(click.slot, click.item, sight) \/ PrepFallback(sight)

DispatchAnswer(native, sight) ==
    IF native THEN ~Revoked(native, sight)
    ELSE OffhandOverride(sight) \/ EquipmentOverride(sight)

Goes(answer, at) == click' = IF answer THEN [click EXCEPT !.at = at] ELSE NoClick

\* GateA lets the click through.
ClickSlot(slot, item) ==
    /\ click = NoClick
    /\ click' = [slot |-> slot, item |-> item, at |-> "prep"]
    /\ UNCHANGED <<worn, cached, pendingMove, unseen>>

\* InvSlotHandleLButtonCoreLateBranchPrepCallsiteHook for the hands.
Prep(native, sight) ==
    /\ click.at = "prep"
    /\ pendingMove' = Remembered(native /\ ~Revoked(native, sight), sight)
    /\ Goes(PrepAnswer(native, sight), "gateB")
    /\ UNCHANGED <<worn, cached, unseen>>

\* InvSlotHandleLButtonCoreLateBranchGateBCallsiteHook.
GateB(native, sight) ==
    /\ click.at = "gateB"
    /\ Goes(native \/ (click.slot = "secondary" /\ OffhandEligible(click.item, sight)), "dispatch")
    /\ UNCHANGED <<worn, cached, pendingMove, unseen>>

\* InvSlotHandleLButtonCoreLateBranchDispatchCallsiteHook for the hands.
Dispatch(native, sight) ==
    /\ click.at = "dispatch"
    /\ pendingMove' = Remembered(native /\ ~Revoked(native, sight), sight)
    /\ Goes(DispatchAnswer(native, sight), "send")
    /\ UNCHANGED <<worn, cached, unseen>>

------------------------------------------------------------------------------
(* The sends of moves *)

Pending(slot) == pendingMove.slot = slot /\ pendingMove.known

CachedAfter(from, to) ==
    [primary |->
        IF to = "primary"
        THEN IF ~Pending("primary") THEN "unknown"
             ELSE IF BlocksSecondaryWeapon(pendingMove.kind) THEN "blocks" ELSE "free"
        ELSE IF from = "primary" THEN "free" ELSE cached.primary,
     secondary |->
        IF to = "secondary" THEN "occupied"
        ELSE IF from = "secondary" THEN "free" ELSE cached.secondary]

\* Mutant: a send that failed is taken for a move.
ObserveAnySend(from, to, ok) ==
    cached' = CachedAfter(from, to) /\ pendingMove' = NoMove

\* ObserveHandEquipmentMoveSend, from MemorizeSendPacketWrapperHook.
ObserveHandEquipmentMoveSend(from, to, ok) ==
    IF ok THEN cached' = CachedAfter(from, to) /\ pendingMove' = NoMove
    ELSE UNCHANGED <<cached, pendingMove>>

\* The click's item goes into the hand, and what was there to the cursor.
SendMove(ok) ==
    /\ click.at = "send"
    /\ ObserveHandEquipmentMoveSend("elsewhere", click.slot, ok)
    /\ click' = NoClick
    /\ IF ok /\ click.item # NoItem
       THEN worn' = [worn EXCEPT ![click.slot] = click.item] /\ unseen' = unseen \ {click.slot}
       ELSE worn' = worn /\ unseen' = IF ok THEN unseen \cup {click.slot} ELSE unseen

TakeOff(slot, ok) ==
    /\ click = NoClick
    /\ worn[slot] # NoItem
    /\ ObserveHandEquipmentMoveSend(slot, "elsewhere", ok)
    /\ IF ok THEN worn' = [worn EXCEPT ![slot] = NoItem] /\ unseen' = unseen \ {slot}
             ELSE UNCHANGED <<worn, unseen>>
    /\ UNCHANGED click

\* EquipClickCanEquipCallsiteHook: the client equips by itself and sends the move,
\* with none of the three checks before it; a pending move that an earlier click
\* left for the hand is then taken for this one.
EquipClick(slot, item, native, ok) ==
    /\ click = NoClick
    /\ slot \in Item[item].wears
    /\ native \/ HasAnyAuthoritativeClientItemClass(item)
    /\ ObserveHandEquipmentMoveSend("elsewhere", slot, ok)
    /\ IF ok
       THEN /\ worn' = [worn EXCEPT ![slot] = item]
            /\ unseen' = IF slot = "primary" /\ Pending(slot)
                         THEN unseen \cup {slot} ELSE unseen \ {slot}
       ELSE UNCHANGED <<worn, unseen>>
    /\ UNCHANGED click

\* One move that swaps the hands; the server moves or destroys an item; another
\* character enters the world.
SwapHands(from, to) ==
    /\ click = NoClick
    /\ from # to /\ worn[from] # NoItem
    /\ ObserveHandEquipmentMoveSend(from, to, TRUE)
    /\ worn' = [h \in Hands |-> IF h = from THEN worn[to] ELSE worn[from]]
    /\ unseen' = Hands
    /\ UNCHANGED click

HandsChange(slot, item) ==
    /\ click = NoClick
    /\ item # worn[slot]
    /\ worn' = [worn EXCEPT ![slot] = item]
    /\ unseen' = unseen \cup {slot}
    /\ UNCHANGED <<cached, pendingMove, click>>

HandMaskChanges(mask) ==
    /\ click = NoClick
    /\ auth' = mask
    /\ UNCHANGED handVars

\* The item usability hooks are installed with whatever is worn then.
HandInit ==
    /\ worn \in [Hands -> ItemOrNone]
    /\ cached = [primary |-> "unknown", secondary |-> "unknown"]
    /\ pendingMove = NoMove
    /\ click = NoClick
    /\ unseen = {}

Clicking ==
    \/ \E slot \in Hands, item \in ItemOrNone : ClickSlot(slot, item)
    \/ \E native \in BOOLEAN, sight \in Sights :
           Prep(native, sight) \/ GateB(native, sight) \/ Dispatch(native, sight)
    \/ \E ok \in BOOLEAN : SendMove(ok)

OtherMoves ==
    \/ \E slot \in Hands, ok \in BOOLEAN : TakeOff(slot, ok)
    \/ \E slot \in Hands, item \in DOMAIN Item, native, ok \in BOOLEAN :
           EquipClick(slot, item, native, ok)
    \/ \E from, to \in Hands : SwapHands(from, to)
    \/ \E slot \in Hands, item \in ItemOrNone : HandsChange(slot, item)

HandNext ==
    \/ (Clicking \/ OtherMoves) /\ UNCHANGED auth
    \/ \E mask \in ReceivedMasks : HandMaskChanges(mask)

HandSpec == auth = {} /\ HandInit /\ [][HandNext]_<<auth, handVars>>

------------------------------------------------------------------------------
(* Properties *)

Other(slot) == IF slot = "primary" THEN "secondary" ELSE "primary"

Blocked == worn.primary # NoItem /\ BlocksSecondaryWeapon(Item[worn.primary].kind)

\* What the hooks remember of a hand is what it holds, through rejected and
\* abandoned clicks, failed sends and overridden checks, unless the hand changed
\* without a send that shows how.
CacheShowsHands ==
    /\ ("primary" \notin unseen /\ cached.primary # "unknown") =>
           (cached.primary = "blocks" <=> Blocked)
    /\ ("secondary" \notin unseen /\ cached.secondary # "unknown") =>
           (cached.secondary = "occupied" <=> worn.secondary # NoItem)

\* The item does not fit what the other hand really holds.
Conflict ==
    IF click.slot = "secondary" THEN Blocked
    ELSE /\ click.item # NoItem /\ IsTwoHandedWeapon(click.item)
         /\ worn.secondary # NoItem

Answers(native, sight) ==
    CASE click.at = "prep"     -> {PrepAnswer(native, sight)}
      [] click.at = "dispatch" -> {DispatchAnswer(native, sight)}
      [] OTHER                 -> {}

\* An acceptance of the client's is only taken back for an item the other hand
\* really excludes.
RevokedOnlyForConflict ==
    (click # NoClick /\ Other(click.slot) \notin unseen) =>
        \A sight \in Sights : FALSE \in Answers(TRUE, sight) => Conflict

\* A rejection is never turned into an acceptance against the other hand, when the
\* hooks can see that hand: offhand items beside a weapon that needs both hands,
\* or a two-handed weapon beside an occupied offhand (CHANGELOG.md:44, "Secondary/
\* offhand weapon behavior still uses the existing dual-wield policy gate").
GrantedOnlyWithoutConflict ==
    (click # NoClick /\ Other(click.slot) \notin unseen) =>
        \A sight \in Sights :
            (/\ TRUE \in Answers(FALSE, sight)
             /\ IF click.slot = "secondary" THEN cached.primary # "unknown" \/ sight.animation
                                            ELSE cached.secondary # "unknown")
            => ~Conflict
==============================================================================
