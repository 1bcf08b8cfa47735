---------------------------- MODULE ClassIdentity ----------------------------
(***************************************************************************)
(* Class masks (src/src/multiclass_identity.cpp).  The server sends an     *)
(* unsigned 32-bit mask; a class id names one bit of it.  A mask is        *)
(* modelled as the set of its bits, numbered like the class ids (bit k is  *)
(* class k + 1), so a bit the client has no class for is a member of       *)
(* ClassBits outside PlayableClasses, and the mask 0 is the empty set.     *)
(***************************************************************************)
CONSTANTS
    ClassBits,          \* the bits of a mask
    PlayableClasses,    \* kFirstPlayableClassId .. kLastPlayableClassId
    CastingClasses,     \* the classes of kCastingClassMask
    NoClass             \* class id 0: no class, or none readable

ASSUME ClassAssumption ==
    /\ PlayableClasses \subseteq ClassBits
    /\ CastingClasses \subseteq PlayableClasses
    /\ NoClass \notin ClassBits

Masks == SUBSET ClassBits

IsPlayableClassId(class) == class \in PlayableClasses

IsCastingClassId(class) == class \in CastingClasses

\* The mask 0 counts: (0 & ~kPlayableClassMask) == 0.
IsPlayableClassMask(mask) == mask \subseteq PlayableClasses

HasClass(mask, class) == IsPlayableClassId(class) /\ class \in mask

HasAuthoritativeClass(hasMask, mask, class) ==
    /\ hasMask
    /\ mask # {}
    /\ IsPlayableClassMask(mask)
    /\ HasClass(mask, class)

HasAnyAuthoritativeCastingClass(hasMask, mask) ==
    /\ hasMask
    /\ mask # {}
    /\ IsPlayableClassMask(mask)
    /\ mask \cap CastingClasses # {}
==============================================================================
