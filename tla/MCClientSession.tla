---- MODULE MCClientSession ----
(* One warrior at the trainers of two classes.                               *)
EXTENDS ClientSession

CONSTANTS War, Clr, Ann, Srv, S1, P1

MCClassBits       == {War, Clr}
MCPlayableClasses == {War, Clr}
MCCastingClasses  == {Clr}
MCNames           == {Ann}
MCServers         == {Srv}
MCNativeClass     == [n \in {Ann} |-> War]
MCSpawns          == {S1}
MCProfiles        == {P1}
MCSessionMasks    == {{War, Clr}, {War}}
=============================
