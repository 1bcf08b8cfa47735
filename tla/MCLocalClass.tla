---- MODULE MCLocalClass ----
(* A warrior assigned a ranger's and a cleric's classes; the class record is *)
(* the profile or a second object.  Beside the trainer's session go either   *)
(* the hooked calls (LocalSpec) or the handlers of the mask (ClientSpec):    *)
(* part bounds a behaviour to one of the two.                                *)
EXTENDS LocalClass, ClientSession

CONSTANTS War, Rng, Clr, Ann, Srv, S1, P1, P2

VARIABLE part

callsOnly == <<record, mana, hooked>>

MCInit ==
    /\ LocalInit
    /\ ClientInit
    /\ part \in {"calls", "masks"}
    /\ part = "masks" => ~hooked

MCCalls ==
    /\ part = "calls"
    /\ LocalNext
    /\ UNCHANGED updateOnly

\* With a cleric's trainer only, and no class record.
MCMasks ==
    /\ part = "masks"
    /\ ClientNext
    /\ trainer'.class \in {NoClass, Clr}
    /\ profile' # P2
    /\ UNCHANGED callsOnly

MCNext == (MCCalls \/ MCMasks) /\ UNCHANGED part

MCSpec == MCInit /\ [][MCNext]_<<localVars, updateOnly, part>>

MCClassBits        == {War, Rng, Clr}
MCPlayableClasses  == {War, Rng, Clr}
MCCastingClasses   == {Rng, Clr}
MCNames            == {Ann}
MCNativeClass      == [n \in {Ann} |-> War]
MCServers          == {Srv}
MCSpawns           == {S1}
MCProfiles         == {P1, P2}
MCOwnRecords       == {P2}
MCSessionMasks     == {{War, Rng, Clr}, {War, Clr}}
MCClassOrder       == <<War, Clr, Rng>>
MCHeroicIntClasses == {}
MCHeroicWisClasses == {Rng}
MCNativeMaxMana    == [c \in {War, Rng, Clr} |-> CASE c = War -> 0 [] c = Rng -> 4 [] c = Clr -> 9]
MCNativeSkill      == [c \in {War, Rng, Clr} |-> CASE c = War -> 0 [] c = Rng -> 50 [] c = Clr -> 25]
MCHeroicBonus      == [int |-> -2, wis |-> 3]
MCStoredMana       == {0, 30}

\* One thing goes wrong in a capped call, or none; nothing in one without cap.
MCEnvironments ==
    {e \in [site : {"profile", "record"}, cap : BOOLEAN,
            faults : {{}, {Clr}}, torn : {{}, {Rng}}, failing : {{}, {P1}, {S1, P2}}] :
        /\ Cardinality({f \in {"faults", "torn", "failing"} : e[f] # {}})
               <= IF e.cap THEN 1 ELSE 0
        /\ e.site = "record" => e.cap}
=============================
