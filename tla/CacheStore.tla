------------------------------ MODULE CacheStore ------------------------------
(***************************************************************************)
(* What a caller of the multiclass cache relies on: a dictionary from      *)
(* character names to rows, in which a store puts one row and touches no   *)
(* other.  Stores may fail, and a failed one changes nothing.              *)
(***************************************************************************)
EXTENDS CacheFile

VARIABLE dict

Init == dict \in Rows

Put(name, row) ==
    /\ row.native # NoClass
    /\ row.server # NoServer
    /\ dict' = [dict EXCEPT ![name] = row]

Next == \E name \in Names, row \in Row : Put(name, row)

Spec == Init /\ [][Next]_dict
===============================================================================
