----------------------------- MODULE AssignedMask -----------------------------
(***************************************************************************)
(* The authoritative class mask (g_classes_bitmask of                      *)
(* src/src/server_auth_stats_observer.cpp) as the hooks on the game thread *)
(* read it.                                                                *)
(***************************************************************************)
EXTENDS ClassOrder

CONSTANT ReceivedMasks      \* the masks the server sends

ASSUME AssignedMaskAssumption == ReceivedMasks \subseteq Masks

VARIABLE auth               \* {} also stands for "none received"
===============================================================================
