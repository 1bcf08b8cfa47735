------------------------------ MODULE ClassOrder ------------------------------
(***************************************************************************)
(* The assigned classes as a list, the displayed class first               *)
(* (src/src/multiclass_identity.cpp, multiclass_combat_ability.cpp).       *)
(***************************************************************************)
EXTENDS ClassIdentity, Integers, SequencesExt

CONSTANT ClassOrder     \* the playable classes, by id

ASSUME ClassOrderAssumption ==
    /\ ClassOrder \in Seq(PlayableClasses)
    /\ ToSet(ClassOrder) = PlayableClasses
    /\ IsInjective(ClassOrder)

\* The primary class comes first, assigned or not, then the assigned ones.
BuildOrderedClassIdList(primary, mask) ==
    LET appendIfMissing(list, id) ==
            IF ~IsPlayableClassId(id) \/ Contains(list, id) THEN list ELSE Append(list, id)
        ids[i \in 0..Len(ClassOrder)] ==
            IF i = 0 THEN appendIfMissing(<<>>, primary)
            ELSE IF HasClass(mask, ClassOrder[i]) THEN appendIfMissing(ids[i - 1], ClassOrder[i])
            ELSE ids[i - 1]
    IN  IF mask = {} \/ ~IsPlayableClassMask(mask) THEN <<>> ELSE ids[Len(ClassOrder)]

\* Mutant: the displayed class comes first even when it is not assigned.
DisplayedClassFirst(mask, displayed) == BuildOrderedClassIdList(displayed, mask)

BuildAuthoritativeCombatAbilityClassOrder(mask, displayed) ==
    BuildOrderedClassIdList(IF HasClass(mask, displayed) THEN displayed ELSE NoClass, mask)
===============================================================================
