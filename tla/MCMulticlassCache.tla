------------------------- MODULE MCMulticlassCache -------------------------
(* Two names, one of them on two servers; two clients, or one alone.        *)
EXTENDS MulticlassCache

CONSTANTS War, Clr, Ann, Bob, Srv, Old, C1, C2

MCClassBits       == {War, Clr}
MCPlayableClasses == {War, Clr}
MCCastingClasses  == {Clr}
MCNames           == {Ann, Bob}
MCServers         == {Srv, Old}
MCStored ==
    {<<Ann, [mask |-> {War, Clr}, native |-> War, server |-> Srv]>>,
     <<Ann, [mask |-> {Clr}, native |-> Clr, server |-> Old]>>,
     <<Bob, [mask |-> {Clr}, native |-> Clr, server |-> Srv]>>}
MCClients  == {C1, C2}
OneClient  == {C1}
=============================================================================
