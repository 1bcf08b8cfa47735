---- MODULE MCPetRoster ----
(* Four spawns: a focused pet, two rows and one pet too many; two owners; two *)
(* raw names of which one is shown without its number.                        *)
EXTENDS PetRoster, TLC

CONSTANTS P1, P2, P3, P4, Ann, Bob

MCSpawnIds    == {P1, P2, P3, P4}
MCOwners      == {Ann, Bob}
MCNames       == {"Fang000", "Fang001"}
MCTexts       == {"Fang", "Fang001"}
MCDisplayName == [n \in MCNames |-> IF n = "Fang000" THEN "Fang" ELSE n]

Symmetry == Permutations(MCSpawnIds) \cup Permutations(MCOwners)
=============================
