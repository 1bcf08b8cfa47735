--------------------------- MODULE ClassOrderProofs ---------------------------
(***************************************************************************)
(* Theorems about the order of the classes (ClassOrder), for every mask and*)
(* displayed class, and the lemmas about recursive functions that the      *)
(* proofs about other modules cite: a loop of the code is a function over  *)
(* 0 .. n whose values follow from one another.                            *)
(***************************************************************************)
EXTENDS ClassOrder, SequenceTheorems, WellFoundedInduction, TLAPS

(* Recursion over 0 .. n *)

\* What the first value has, and each value has when the one before it does, all
\* values have.
LEMMA AllSteps ==
    ASSUME NEW D, NEW n \in Nat, NEW f, f[0] \in D,
           \A i \in 1 .. n : f[i - 1] \in D => f[i] \in D
    PROVE  \A i \in 0 .. n : f[i] \in D
<1> DEFINE bad  == {i \in 0 .. n : f[i] \notin D}
           less == OpToRel(<, Nat)
<1>1. SUFFICES ASSUME bad # {} PROVE FALSE
  BY DEF bad
<1>2. bad \subseteq Nat
  BY DEF bad
<1>3. IsWellFoundedOn(less, Nat)
  BY NatLessThanWellFounded
<1>4. \A i, j \in Nat : i < j => <<i, j>> \in less
  BY DEF OpToRel
<1> HIDE DEF less
<1>5. PICK least \in bad : \A i \in bad : ~(<<i, least>> \in less)
  <2> HIDE DEF bad
  <2> QED
    BY <1>1, <1>2, <1>3, WFMin
<1>6. least \in 1 .. n /\ f[least] \notin D
  BY <1>5 DEF bad
<1>7. least - 1 \in 0 .. n /\ least - 1 < least
  BY <1>6
<1>8. least - 1 \notin bad
  BY <1>2, <1>4, <1>5, <1>7
<1> QED
  BY <1>6, <1>7, <1>8 DEF bad

\* The functions over 0 .. n whose values follow from one another.
Runs(D, n, d, step) ==
    {f \in [0 .. n -> D] : f[0] = d /\ \A i \in 1 .. n : f[i] = step[i][f[i - 1]]}

LEMMA RunExists ==
    ASSUME NEW D, NEW n \in Nat, NEW d \in D, NEW step \in [1 .. n -> [D -> D]]
    PROVE  Runs(D, n, d, step) # {}
<1> DEFINE Good(k) == {f \in [0 .. k -> D] :
                          f[0] = d /\ \A i \in 1 .. k : f[i] = step[i][f[i - 1]]}
           has  == [k \in 0 .. n |-> IF Good(k) = {} THEN 0 ELSE 1]
<1>1. has[0] \in {1}
  <2>1. [i \in 0 .. 0 |-> d] \in Good(0)
    OBVIOUS
  <2>2. Good(0) # {}
    BY <2>1
  <2> HIDE DEF Good
  <2> QED
    BY <2>2
<1>2. ASSUME NEW k \in 1 .. n, has[k - 1] \in {1}
      PROVE  has[k] \in {1}
  <2>0. Good(k - 1) # {}
    <3> HIDE DEF Good
    <3> QED
      BY <1>2
  <2>1. PICK f \in [0 .. k - 1 -> D] :
           f[0] = d /\ \A i \in 1 .. k - 1 : f[i] = step[i][f[i - 1]]
    BY <2>0
  <2> DEFINE g == [i \in 0 .. k |-> IF i = k THEN step[k][f[k - 1]] ELSE f[i]]
  <2>2. k - 1 \in 0 .. k - 1 /\ k \in 1 .. n
    BY <1>2
  <2>3. f[k - 1] \in D
    BY <2>1, <2>2
  <2>4. step[k][f[k - 1]] \in D
    BY <2>2, <2>3
  <2>5. g \in [0 .. k -> D]
    BY <2>1, <2>4
  <2>6. g[0] = d /\ \A i \in 1 .. k : g[i] = step[i][g[i - 1]]
    BY <2>1, <2>2
  <2>7. g \in Good(k)
    BY <2>5, <2>6
  <2>8. Good(k) # {}
    BY <2>7
  <2> HIDE DEF Good
  <2> QED
    BY <2>2, <2>8
<1>3. \A k \in 0 .. n : has[k] \in {1}
  <2> DEFINE yes == {1}
  <2>1. has[0] \in yes /\ \A k \in 1 .. n : has[k - 1] \in yes => has[k] \in yes
    BY <1>1, <1>2
  <2>2. \A k \in 0 .. n : has[k] \in yes
    <3> HIDE DEF has, yes
    <3> QED
      BY <2>1, AllSteps
  <2> QED
    BY <2>2
<1>4. Good(n) # {}
  <2> HIDE DEF Good
  <2>1. n \in 0 .. n
    OBVIOUS
  <2> QED
    BY <1>3, <2>1
<1> QED
  BY <1>4 DEF Runs

\* The same for what holds of each value at its own place.
LEMMA AllStages ==
    ASSUME NEW n \in Nat, NEW D, NEW f, f[0] \in D[0],
           \A i \in 1 .. n : f[i - 1] \in D[i - 1] => f[i] \in D[i]
    PROVE  \A i \in 0 .. n : f[i] \in D[i]
<1> DEFINE yes  == {1}
           good == [i \in 0 .. n |-> IF f[i] \in D[i] THEN 1 ELSE 0]
<1>1. good[0] \in yes
  OBVIOUS
<1>2. ASSUME NEW i \in 1 .. n, good[i - 1] \in yes
      PROVE  good[i] \in yes
  <2>1. i \in 0 .. n /\ i - 1 \in 0 .. n
    OBVIOUS
  <2>2. f[i - 1] \in D[i - 1]
    BY <1>2, <2>1
  <2> QED
    BY <2>1, <2>2
<1>3. \A i \in 0 .. n : good[i] \in yes
  <2> HIDE DEF good, yes
  <2> QED
    BY <1>1, <1>2, AllSteps
<1> QED
  BY <1>3

\* A least element of a set of numbers.
LEMMA MinOfNats ==
    ASSUME NEW S, S \subseteq Nat, S # {}
    PROVE  Min(S) \in S /\ \A n \in S : Min(S) <= n
<1> DEFINE less == OpToRel(<, Nat)
<1>1. IsWellFoundedOn(less, Nat)
  BY NatLessThanWellFounded
<1>2. \A i, j \in Nat : i < j => <<i, j>> \in less
  BY DEF OpToRel
<1> HIDE DEF less
<1>3. PICK least \in S : \A n \in S : ~(<<n, least>> \in less)
  BY <1>1, WFMin
<1>4. ASSUME NEW n \in S
      PROVE  least <= n
  <2>1. n \in Nat /\ least \in Nat /\ ~(<<n, least>> \in less)
    BY <1>3
  <2>2. ~(n < least)
    BY <1>2, <2>1
  <2> QED
    BY <2>1, <2>2
<1> QED
  BY <1>4 DEF Min

------------------------------------------------------------------------------
(* The order of the classes *)

Missing(list, id) == \A i \in 1 .. Len(list) : list[i] # id

AppendIfMissing(list, id) ==
    IF ~IsPlayableClassId(id) \/ Contains(list, id) THEN list ELSE Append(list, id)

\* The lists without duplicates of the primary class and the classes of a set.
Listings(primary, classes) ==
    {list \in Seq(PlayableClasses) :
        /\ \A i, j \in 1 .. Len(list) : list[i] = list[j] => i = j
        /\ \A i \in 1 .. Len(list) : list[i] \in classes \cup {primary}
        /\ \A c \in (classes \cup {primary}) \cap PlayableClasses : ~Missing(list, c)
        /\ IsPlayableClassId(primary) => Len(list) # 0 /\ list[1] = primary}

LEMMA ContainsIsNotMissing ==
    ASSUME NEW list \in Seq(PlayableClasses), NEW id
    PROVE  Contains(list, id) <=> ~Missing(list, id)
BY LenProperties DEF Contains, Missing

LEMMA AppendedListing ==
    ASSUME NEW primary, NEW classes, NEW list \in Listings(primary, classes), NEW id
    PROVE  AppendIfMissing(list, id) \in Listings(primary, classes \cup {id})
<1>1. /\ list \in Seq(PlayableClasses) /\ Len(list) \in Nat
      /\ Contains(list, id) <=> ~Missing(list, id)
  BY ContainsIsNotMissing, LenProperties DEF Listings
<1>2. CASE ~IsPlayableClassId(id) \/ Contains(list, id)
  BY <1>1, <1>2 DEF Listings, AppendIfMissing, IsPlayableClassId
<1>3. CASE IsPlayableClassId(id) /\ ~Contains(list, id)
  <2>1. PICK more : more = Append(list, id)
    OBVIOUS
  <2>2. /\ more \in Seq(PlayableClasses) /\ Len(more) = Len(list) + 1
        /\ more[Len(list) + 1] = id
        /\ \A i \in 1 .. Len(list) : more[i] = list[i]
    BY <1>1, <1>3, <2>1, AppendProperties DEF IsPlayableClassId
  <2>3. \A i, j \in 1 .. Len(more) : more[i] = more[j] => i = j
    BY <1>1, <1>3, <2>2 DEF Listings, Missing
  <2>4. \A i \in 1 .. Len(more) : more[i] \in classes \cup {id} \cup {primary}
    BY <1>1, <2>2 DEF Listings
  <2>5. \A c \in (classes \cup {id} \cup {primary}) \cap PlayableClasses : ~Missing(more, c)
    BY <1>1, <2>2 DEF Listings, Missing
  <2>6. IsPlayableClassId(primary) => Len(more) # 0 /\ more[1] = primary
    BY <1>1, <2>2 DEF Listings
  <2>7. more \in Listings(primary, classes \cup {id})
    BY <2>2, <2>3, <2>4, <2>5, <2>6 DEF Listings
  <2> QED
    BY <1>3, <2>1, <2>7 DEF AppendIfMissing
<1> QED
  BY <1>2, <1>3

LEMMA FirstListing ==
    ASSUME NEW primary
    PROVE  AppendIfMissing(<<>>, primary) \in Listings(primary, {})
<1>1. <<>> \in Seq(PlayableClasses) /\ Len(<<>>) = 0
  BY EmptySeq
<1>2. CASE ~IsPlayableClassId(primary)
  BY <1>1, <1>2 DEF AppendIfMissing, Listings, IsPlayableClassId
<1>3. CASE IsPlayableClassId(primary)
  <2>1. PICK one : one = Append(<<>>, primary)
    OBVIOUS
  <2>2. one \in Seq(PlayableClasses) /\ Len(one) = 1 /\ one[1] = primary
    BY <1>1, <1>3, <2>1, AppendProperties DEF IsPlayableClassId
  <2>3. one \in Listings(primary, {})
    BY <1>3, <2>2 DEF Listings, Missing
  <2>4. ~Contains(<<>>, primary)
    BY <1>1 DEF Contains
  <2> QED
    BY <1>3, <2>1, <2>3, <2>4 DEF AppendIfMissing
<1> QED
  BY <1>2, <1>3

\* The list has every assigned class once, and no class beside them and the primary
\* class, which comes first when there is one.
THEOREM OrderedClasses ==
    ASSUME NEW primary, NEW mask, mask # {}, IsPlayableClassMask(mask)
    PROVE  BuildOrderedClassIdList(primary, mask) \in Listings(primary, mask)
<1> DEFINE n == Len(ClassOrder)
           first == AppendIfMissing(<<>>, primary)
           Next(list, i) == IF HasClass(mask, ClassOrder[i])
                            THEN AppendIfMissing(list, ClassOrder[i]) ELSE list
           Is(f) == f = [i \in 0 .. n |-> IF i = 0 THEN first ELSE Next(f[i - 1], i)]
           ids   == CHOOSE f : Is(f)
           upTo  == [i \in 0 .. n |-> {c \in mask : \E j \in 1 .. i : ClassOrder[j] = c}]
           D     == [i \in 0 .. n |-> Listings(primary, upTo[i])]
           All   == Seq(PlayableClasses)
           step  == [i \in 1 .. n |-> [list \in All |-> Next(list, i)]]
<1>1. BuildOrderedClassIdList(primary, mask) = ids[n]
  BY DEF BuildOrderedClassIdList, AppendIfMissing
<1>2. /\ ClassOrder \in Seq(PlayableClasses) /\ n \in Nat
      /\ \A i \in 1 .. n : ClassOrder[i] \in PlayableClasses
  BY ClassOrderAssumption, LenProperties, ElementOfSeq
<1>3. first \in D[0] /\ first \in All
  <2>1. upTo[0] = {}
    BY <1>2
  <2> QED
    BY <1>2, <2>1, FirstListing DEF Listings
<1>4. ASSUME NEW i \in 1 .. n, NEW list \in D[i - 1]
      PROVE  Next(list, i) \in D[i]
  <2>1. i - 1 \in 0 .. n /\ i \in 0 .. n /\ list \in Listings(primary, upTo[i - 1])
    BY <1>2, <1>4
  <2>2. CASE HasClass(mask, ClassOrder[i])
    <3>1. upTo[i] = upTo[i - 1] \cup {ClassOrder[i]}
      BY <1>2, <2>1, <2>2 DEF HasClass
    <3> QED
      BY <2>1, <2>2, <3>1, AppendedListing
  <2>3. CASE ~HasClass(mask, ClassOrder[i])
    <3>1. upTo[i] = upTo[i - 1]
      BY <1>2, <2>1, <2>3 DEF HasClass, IsPlayableClassId
    <3> QED
      BY <2>1, <2>3, <3>1
  <2> QED
    BY <2>2, <2>3
<1>5. \A i \in 1 .. n, list \in All : Next(list, i) \in All
  BY <1>2, AppendProperties DEF AppendIfMissing
<1>6. upTo[n] = mask
  BY <1>2, ClassOrderAssumption DEF ToSet, IsPlayableClassMask
<1> HIDE DEF Next, first, n
<1>7. n \in Nat
  BY <1>2
<1>8. step \in [1 .. n -> [All -> All]] /\ \A i \in 1 .. n, list \in All : step[i][list] = Next(list, i)
  BY <1>5
<1> HIDE DEF step, All, D, upTo
<1>9. \E f : Is(f)
  <2>1. Runs(All, n, first, step) # {}
    BY <1>3, <1>7, <1>8, RunExists
  <2>2. PICK f \in [0 .. n -> All] : f[0] = first /\ \A i \in 1 .. n : f[i] = step[i][f[i - 1]]
    BY <2>1 DEF Runs
  <2>3. \A i \in 1 .. n : f[i] = Next(f[i - 1], i)
    BY <1>7, <1>8, <2>2
  <2> QED
    BY <1>7, <2>2, <2>3
<1>10. Is(ids)
  BY <1>9
<1> HIDE DEF ids
<1>11. ids[0] = first /\ \A i \in 1 .. n : ids[i] = Next(ids[i - 1], i)
  BY <1>7, <1>10
<1>12. \A i \in 0 .. n : ids[i] \in D[i]
  BY <1>3, <1>4, <1>7, <1>11, AllStages
<1> QED
  BY <1>1, <1>2, <1>6, <1>7, <1>12 DEF D

\* The order combat abilities are chosen in has the assigned classes and no other,
\* the displayed class first when it is assigned.
THEOREM AbilityClassOrder ==
    ASSUME NEW displayed, NEW mask, mask # {}, IsPlayableClassMask(mask),
           NEW order, order = BuildAuthoritativeCombatAbilityClassOrder(mask, displayed)
    PROVE  /\ order \in Seq(PlayableClasses)
           /\ \A i, j \in 1 .. Len(order) : order[i] = order[j] => i = j
           /\ \A i \in 1 .. Len(order) : order[i] \in mask
           /\ \A c \in mask : \E i \in 1 .. Len(order) : order[i] = c
           /\ HasClass(mask, displayed) => order[1] = displayed
<1>1. PICK primary : primary = IF HasClass(mask, displayed) THEN displayed ELSE NoClass
  OBVIOUS
<1>2. order \in Listings(primary, mask)
  BY <1>1, OrderedClasses DEF BuildAuthoritativeCombatAbilityClassOrder
<1>3. (mask \cup {primary}) \cap PlayableClasses = mask
  BY <1>1, ClassAssumption DEF IsPlayableClassMask, HasClass, IsPlayableClassId
<1>4. order \in Seq(PlayableClasses) /\ \A i \in 1 .. Len(order) : order[i] \in PlayableClasses
  BY <1>2, ElementOfSeq DEF Listings
<1>5. \A i \in 1 .. Len(order) : order[i] \in mask
  BY <1>2, <1>3, <1>4 DEF Listings
<1>6. \A c \in mask : \E i \in 1 .. Len(order) : order[i] = c
  BY <1>2, <1>3 DEF Listings, Missing
<1>7. HasClass(mask, displayed) => order[1] = displayed
  BY <1>1, <1>2 DEF Listings, HasClass
<1> QED
  BY <1>2, <1>4, <1>5, <1>6, <1>7 DEF Listings
=============================================================================
