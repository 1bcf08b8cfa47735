------------------------- MODULE MCPacketObserver -------------------------
(* Two players, one of them under two spellings; a mask with two classes,    *)
(* one bit no class has; one skill in each half of the skill masks.          *)
EXTENDS PacketObserver, TLC

CONSTANTS War, Clr, BitX, ann, Ann, bob, Srv, Kick, Taunt, Swim

MCClassBits        == {War, Clr, BitX}
MCPlayableClasses  == {War, Clr}
MCCastingClasses   == {Clr}
MCLowSkills        == {Kick, Swim}
MCHighSkills       == {Taunt}
MCAdvertisedSkills == {Kick, Taunt}
MCNames            == {ann, Ann, bob, EmptyName}
MCNormalName       == [name \in MCNames |-> IF name = Ann THEN ann ELSE name]
MCServers          == {Srv}

Mask(value) == [key |-> "classes", value |-> value]
Low(value)  == [key |-> "skillsLow", value |-> value]
High(value) == [key |-> "skillsHigh", value |-> value]
Focus(value) == [key |-> "focus", value |-> value]
Other       == [key |-> "unknown", value |-> 0]
Pets        == <<[key |-> "pet0", value |-> 1], [key |-> "pet1", value |-> 0]>>
Whole(list) == [entries |-> list, exactLength |-> TRUE]

MCStatsPayloads ==
    {Whole(<<>>),
     Whole(<<Mask({War})>>),
     Whole(<<Mask({War, Clr}), Mask(WideValue), Low({Kick, Swim}), High({Taunt})>>),
     Whole(<<Mask({War}), Low({Kick}), High({}), Other>>),
     Whole(<<Mask({War, Clr}), Low({}), High({Taunt}), Focus(1)>> \o Pets),
     Whole(<<Low({Kick}), Low({}), Focus(WideValue)>>),
     [Whole(<<Mask({BitX})>>) EXCEPT !.exactLength = FALSE]}

Told(name, class, mask) == [name |-> name, class |-> class, mask |-> mask]
Remote(list) == [entries |-> list, truncated |-> FALSE]

MCRemotePayloads ==
    {Remote(<<Told(ann, War, {War}), Told(bob, Clr, {Clr})>>),
     Remote(<<Told(bob, War, {Clr}), Told(Ann, War, {War, Clr})>>),
     Remote(<<Told(bob, War, {War, BitX}), Told(bob, War, {War, Clr}), Told(ann, Clr, {Clr})>>),
     Remote(<<Told(EmptyName, War, {War})>>),
     [Remote(<<Told(bob, Clr, {War, Clr})>>) EXCEPT !.truncated = TRUE]}

MCRows == {[name |-> Ann, class |-> War], [name |-> bob, class |-> War],
           [name |-> bob, class |-> NoClass], [name |-> EmptyName, class |-> War]}
MCWhoResponses ==
    [rows : UNION {[1 .. n -> MCRows] : n \in 0 .. 2}, oversize : {FALSE}]
    \cup {[rows |-> <<[name |-> bob, class |-> War]>>, oversize |-> TRUE]}
============================================================================
