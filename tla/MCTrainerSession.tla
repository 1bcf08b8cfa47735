---- MODULE MCTrainerSession ----
(* A warrior and a cleric; the spawn moves between two addresses, the        *)
(* profile is reallocated in place.                                          *)
EXTENDS TrainerSession

CONSTANTS War, Clr, Ann, Bob, S1, S2, P1

MCClassBits       == {War, Clr}
MCPlayableClasses == {War, Clr}
MCCastingClasses  == {Clr}
MCNames           == {Ann, Bob}
MCNativeClass     == [n \in {Ann, Bob} |-> IF n = Ann THEN War ELSE Clr]
MCSpawns          == {S1, S2}
MCProfiles        == {P1}
MCSessionMasks    == {{War, Clr}, {War}, {}}
=============================
