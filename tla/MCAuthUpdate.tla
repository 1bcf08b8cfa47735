---- MODULE MCAuthUpdate ----
(* A warrior and a cleric on two servers; a mask with a caster class, one    *)
(* with a bit no class has, and 0.                                           *)
EXTENDS AuthUpdate

CONSTANTS War, Clr, BitX, Ann, Bob, Srv, Old

MCClassBits       == {War, Clr, BitX}
MCPlayableClasses == {War, Clr}
MCCastingClasses  == {Clr}
MCNames           == {Ann, Bob}
MCServers         == {Srv, Old}
MCNativeClass     == [n \in {Ann, Bob} |-> IF n = Ann THEN War ELSE Clr]
MCPacketMasks     == {{War, Clr}, {War, BitX}, {}}
=============================
