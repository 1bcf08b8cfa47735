--------------------------- MODULE UsableAbilities ---------------------------
(***************************************************************************)
(* What a character can use: the combat abilities, the spell gate and the  *)
(* hands on the client's game thread, under the one class mask.  A packet  *)
(* sets the mask for all three and resynchronises the abilities; it is     *)
(* dispatched when no call of the client is in progress, and a call of one *)
(* part is over before another part's begins.                              *)
(***************************************************************************)
EXTENDS CombatAbilities, SpellUsability, HandEquipment

usableVars == <<auth, combatVars, gateVars, handVars>>

TypeOK == CombatTypeOK /\ GateTypeOK /\ HandTypeOK

Init == auth = {} /\ CombatInit /\ GateInit /\ HandInit

\* ReceiveDispatchHook: the observer stores the mask, the notification resyncs.
Packet(mask, manager) ==
    /\ showing = 0
    /\ ReceiveMask(mask, manager)
    /\ MaskChanges(mask)
    /\ HandMaskChanges(mask)

Next ==
    \/ \E mask \in ReceivedMasks, manager \in BOOLEAN : Packet(mask, manager)
    \/ /\ frames = <<>> /\ click = NoClick
       /\ CombatCalls
       /\ UNCHANGED <<gateVars, handVars>>
    \/ /\ showing = 0 /\ click = NoClick
       /\ GateCalls
       /\ UNCHANGED <<auth, combatVars, handVars>>
    \/ /\ showing = 0 /\ frames = <<>>
       /\ Clicking \/ OtherMoves
       /\ UNCHANGED <<auth, combatVars, gateVars>>

Spec == Init /\ [][Next]_usableVars
==============================================================================
