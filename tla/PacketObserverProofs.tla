------------------------- MODULE PacketObserverProofs -------------------------
(***************************************************************************)
(* Theorems about what the client's packets teach the DLL (PacketObserver),*)
(* for every set of payloads, responses, names and skills and for every    *)
(* cast window.  The invariant is four parts that touch disjoint state:    *)
(* the stats, the identities, the rows of /who and the timed cast.         *)
(***************************************************************************)
EXTENDS PacketObserver, ClassOrderProofs

(* The greatest of a set of numbers *)

LEMMA MaxUpTo ==
    ASSUME NEW n \in Nat, NEW S, S \subseteq 1 .. n, S # {}
    PROVE  Max(S) \in S /\ \A k \in S : Max(S) >= k
<1> DEFINE away == {n - k : k \in S}
<1>1. away \subseteq Nat /\ away # {}
  <2>1. \A k \in S : k \in 1 .. n /\ n - k \in Nat
    OBVIOUS
  <2> QED
    BY <2>1
<1>2. Min(away) \in away /\ \A m \in away : Min(away) <= m
  <2> HIDE DEF away
  <2> QED
    BY <1>1, MinOfNats
<1>3. PICK most \in S : Min(away) = n - most
  BY <1>2
<1>4. ASSUME NEW k \in S
      PROVE  most >= k
  <2>1. k \in 1 .. n /\ most \in 1 .. n /\ n - k \in away
    OBVIOUS
  <2>2. n - most <= n - k
    BY <1>2, <1>3, <2>1
  <2> QED
    BY <2>1, <2>2
<1> QED
  BY <1>4 DEF Max

LEMMA MaxOfNext ==
    ASSUME NEW n \in Nat, NEW S, S \subseteq 1 .. n + 1, n + 1 \in S
    PROVE  Max(S) = n + 1
<1>1. Max(S) \in S /\ \A k \in S : Max(S) >= k
  BY MaxUpTo, n + 1 \in Nat
<1>2. Max(S) >= n + 1 /\ Max(S) \in 1 .. n + 1
  BY <1>1
<1> QED
  BY <1>2

------------------------------------------------------------------------------
(* Parsing: the last entry of a key that fits counts *)

Results(Values) ==
    [valid : BOOLEAN, count : Nat, recognized : Nat, unknown : Nat,
     invalidClasses : BOOLEAN, stats : [StatKeys -> Values]]

LEMMA ParsedEntry ==
    ASSUME NEW Values, NEW result \in Results(Values), NEW entry,
           entry.value \in Values, IsStatEntry(entry)
    PROVE  /\ ParseEntry(result, entry) \in Results(Values)
           /\ \A key \in StatKeys :
                ParseEntry(result, entry).stats[key] =
                  IF entry.key = key /\ entry.value # WideValue THEN entry.value ELSE result.stats[key]
<1>1. CASE entry.key \notin StatKeys
  BY <1>1 DEF ParseEntry, Results
<1>2. CASE entry.key \in StatKeys
  <2>1. PICK counted : counted = [result EXCEPT !.recognized = @ + 1]
    OBVIOUS
  <2>2. counted \in Results(Values) /\ counted.stats = result.stats
    BY <2>1 DEF Results
  <2>3. CASE entry.value # WideValue
    <3>1. ParseEntry(result, entry) = [counted EXCEPT !.stats[entry.key] = entry.value]
      BY <1>2, <2>1, <2>3 DEF ParseEntry
    <3> QED
      BY <1>2, <2>2, <2>3, <3>1 DEF Results
  <2>4. CASE entry.value = WideValue
    <3>1. ParseEntry(result, entry) = IF entry.key = "classes"
                                      THEN [counted EXCEPT !.invalidClasses = TRUE]
                                      ELSE [counted EXCEPT !.unknown = @ + 1]
      BY <1>2, <2>1, <2>4 DEF ParseEntry
    <3>2. PICK parsed : parsed = ParseEntry(result, entry)
      OBVIOUS
    <3>3. parsed \in Results(Values) /\ parsed.stats = counted.stats
      <4>1. CASE entry.key = "classes"
        BY <2>2, <3>1, <3>2, <4>1 DEF Results
      <4>2. CASE entry.key # "classes"
        BY <2>2, <3>1, <3>2, <4>2 DEF Results
      <4> QED
        BY <4>1, <4>2
    <3> QED
      BY <2>2, <2>4, <3>2, <3>3
  <2> QED
    BY <2>3, <2>4
<1> QED
  BY <1>1, <1>2

\* The entries for a key that fit, and the value of the last of them.
Fitting(payload, key, n) ==
    {i \in 1 .. n : payload.entries[i].key = key /\ payload.entries[i].value # WideValue}

LastUpTo(payload, key, n) ==
    IF Fitting(payload, key, n) = {}
    THEN Absent
    ELSE payload.entries[Max(Fitting(payload, key, n))].value

LEMMA LastOfNext ==
    ASSUME NEW payload, NEW key, NEW n \in Nat
    PROVE  LastUpTo(payload, key, n + 1) =
             IF payload.entries[n + 1].key = key /\ payload.entries[n + 1].value # WideValue
             THEN payload.entries[n + 1].value
             ELSE LastUpTo(payload, key, n)
<1>1. CASE payload.entries[n + 1].key = key /\ payload.entries[n + 1].value # WideValue
  <2>1. Fitting(payload, key, n + 1) \subseteq 1 .. n + 1 /\ n + 1 \in Fitting(payload, key, n + 1)
    BY <1>1 DEF Fitting
  <2>2. Max(Fitting(payload, key, n + 1)) = n + 1
    BY <2>1, MaxOfNext
  <2> QED
    BY <1>1, <2>1, <2>2 DEF LastUpTo
<1>2. CASE ~(payload.entries[n + 1].key = key /\ payload.entries[n + 1].value # WideValue)
  <2>1. Fitting(payload, key, n + 1) = Fitting(payload, key, n)
    BY <1>2 DEF Fitting
  <2> QED
    BY <1>2, <2>1 DEF LastUpTo
<1> QED
  BY <1>1, <1>2

\* What PacketObserverAssumption says of a stats payload.
IsStatsPayload(payload) ==
    /\ Len(payload.entries) \in Nat
    /\ DOMAIN payload.entries = 1 .. Len(payload.entries)
    /\ \A i \in DOMAIN payload.entries : IsStatEntry(payload.entries[i])
    /\ payload.exactLength \in BOOLEAN

LEMMA LastValueFits ==
    ASSUME NEW payload, IsStatsPayload(payload), NEW key
    PROVE  LastValue(payload, key) = LastUpTo(payload, key, Len(payload.entries))
BY DEF IsStatsPayload, LastValue, LastUpTo, Fitting

\* What a key may hold.
LEMMA LastValueTyped ==
    ASSUME NEW payload, IsStatsPayload(payload)
    PROVE  /\ LastValue(payload, "classes") \in Masks \cup {Absent}
           /\ LastValue(payload, "skillsLow") \in {Absent} \cup SUBSET LowSkills
           /\ LastValue(payload, "skillsHigh") \in {Absent} \cup SUBSET HighSkills
<1>1. ASSUME NEW key, LastValue(payload, key) # Absent
      PROVE  \E i \in DOMAIN payload.entries :
                /\ payload.entries[i].key = key
                /\ payload.entries[i].value # WideValue
                /\ payload.entries[i].value = LastValue(payload, key)
  <2>1. PICK n : n = Len(payload.entries)
    OBVIOUS
  <2>2. n \in Nat /\ DOMAIN payload.entries = 1 .. n /\ LastValue(payload, key) = LastUpTo(payload, key, n)
    BY <2>1, LastValueFits DEF IsStatsPayload
  <2>3. Fitting(payload, key, n) # {} /\ Fitting(payload, key, n) \subseteq 1 .. n
    BY <1>1, <2>2 DEF LastUpTo, Fitting
  <2>4. Max(Fitting(payload, key, n)) \in Fitting(payload, key, n)
    BY <2>2, <2>3, MaxUpTo
  <2> QED
    BY <2>2, <2>3, <2>4 DEF LastUpTo, Fitting
<1>2. LastValue(payload, "classes") \in Masks \cup {Absent}
  BY <1>1 DEF IsStatsPayload, IsStatEntry
<1>3. LastValue(payload, "skillsLow") \in {Absent} \cup SUBSET LowSkills
  BY <1>1 DEF IsStatsPayload, IsStatEntry
<1>4. LastValue(payload, "skillsHigh") \in {Absent} \cup SUBSET HighSkills
  BY <1>1 DEF IsStatsPayload, IsStatEntry
<1> QED
  BY <1>2, <1>3, <1>4

\* The loop of ParsePayload keeps the last value of every key.
THEOREM ParsedPayload ==
    ASSUME NEW payload, IsStatsPayload(payload), payload.exactLength
    PROVE  /\ ParsePayload(payload).valid
           /\ DOMAIN ParsePayload(payload).stats = StatKeys
           /\ \A key \in StatKeys : ParsePayload(payload).stats[key] = LastValue(payload, key)
<1> DEFINE n      == Len(payload.entries)
           Values == {payload.entries[i].value : i \in 1 .. n} \cup {Absent}
           Parsed == Results(Values)
           none   == EmptyResult(payload)
           Is(f)  == f = [i \in 0 .. n |-> IF i = 0 THEN none
                                           ELSE ParseEntry(f[i - 1], payload.entries[i])]
           parsed == CHOOSE f : Is(f)
           step   == [i \in 1 .. n |-> [r \in Parsed |-> ParseEntry(r, payload.entries[i])]]
           D      == [i \in 0 .. n |-> {r \in Parsed :
                        \A key \in StatKeys : r.stats[key] = LastUpTo(payload, key, i)}]
<1>1. ParsePayload(payload) = [parsed[n] EXCEPT !.valid = TRUE]
  BY DEF ParsePayload
<1>2. n \in Nat /\ \A i \in 1 .. n : IsStatEntry(payload.entries[i]) /\ payload.entries[i].value \in Values
  BY DEF IsStatsPayload
<1>3. none \in Parsed /\ none \in D[0]
  <2>1. none \in Parsed
    BY <1>2 DEF EmptyResult, Results, NoStats
  <2>2. \A key \in StatKeys : none.stats[key] = LastUpTo(payload, key, 0)
    BY DEF EmptyResult, NoStats, LastUpTo, Fitting
  <2> QED
    BY <1>2, <2>1, <2>2
<1>4. \A key : LastUpTo(payload, key, n) = LastValue(payload, key)
  BY LastValueFits
<1> HIDE DEF n, Values, none
<1>5. ASSUME NEW i \in 1 .. n, NEW r \in Parsed
      PROVE  /\ ParseEntry(r, payload.entries[i]) \in Parsed
             /\ r \in D[i - 1] => ParseEntry(r, payload.entries[i]) \in D[i]
  <2>1. i - 1 \in Nat /\ (i - 1) + 1 = i /\ i \in 0 .. n /\ i - 1 \in 0 .. n
    BY <1>2
  <2>2. PICK next : next = ParseEntry(r, payload.entries[i])
    OBVIOUS
  <2>3. /\ next \in Parsed
        /\ \A key \in StatKeys :
             next.stats[key] = IF payload.entries[i].key = key /\ payload.entries[i].value # WideValue
                               THEN payload.entries[i].value ELSE r.stats[key]
    BY <1>2, <2>2, ParsedEntry
  <2>4. \A key : LastUpTo(payload, key, i) =
                   IF payload.entries[i].key = key /\ payload.entries[i].value # WideValue
                   THEN payload.entries[i].value ELSE LastUpTo(payload, key, i - 1)
    <3>1. ASSUME NEW key
          PROVE  LastUpTo(payload, key, (i - 1) + 1) =
                   IF payload.entries[(i - 1) + 1].key = key /\ payload.entries[(i - 1) + 1].value # WideValue
                   THEN payload.entries[(i - 1) + 1].value ELSE LastUpTo(payload, key, i - 1)
      BY <2>1, LastOfNext
    <3> QED
      BY <2>1, <3>1
  <2> HIDE DEF Parsed
  <2> QED
    BY <2>1, <2>2, <2>3, <2>4
<1>6. step \in [1 .. n -> [Parsed -> Parsed]]
      /\ \A i \in 1 .. n, r \in Parsed : step[i][r] = ParseEntry(r, payload.entries[i])
  <2> HIDE DEF Parsed
  <2> QED
    BY <1>5
<1> HIDE DEF step, Parsed
<1>7. \E f : Is(f)
  <2>1. Runs(Parsed, n, none, step) # {}
    BY <1>2, <1>3, <1>6, RunExists
  <2>2. PICK f \in [0 .. n -> Parsed] : f[0] = none /\ \A i \in 1 .. n : f[i] = step[i][f[i - 1]]
    BY <2>1 DEF Runs
  <2>3. \A i \in 1 .. n : f[i] = ParseEntry(f[i - 1], payload.entries[i])
    BY <1>2, <1>6, <2>2
  <2> QED
    BY <1>2, <2>2, <2>3
<1>8. Is(parsed)
  BY <1>7
<1> HIDE DEF parsed
<1>9. parsed[0] = none /\ \A i \in 1 .. n : parsed[i] = ParseEntry(parsed[i - 1], payload.entries[i])
  BY <1>2, <1>8
<1>10. ASSUME NEW i \in 1 .. n, parsed[i - 1] \in D[i - 1]
       PROVE  parsed[i] \in D[i]
  <2>1. i - 1 \in 0 .. n /\ parsed[i - 1] \in Parsed
    BY <1>2, <1>10
  <2> HIDE DEF D
  <2> QED
    BY <1>5, <1>9, <1>10, <2>1
<1>11. parsed[0] \in D[0]
  BY <1>3, <1>9
<1>12. \A i \in 0 .. n : parsed[i] \in D[i]
  <2> HIDE DEF D
  <2> QED
    BY <1>2, <1>10, <1>11, AllStages
<1>13. parsed[n] \in Parsed /\ \A key \in StatKeys : parsed[n].stats[key] = LastValue(payload, key)
  BY <1>2, <1>4, <1>12
<1> QED
  BY <1>1, <1>13 DEF Parsed, Results

\* A payload whose length disagrees with its count gives nothing.
LEMMA RefusedPayload ==
    ASSUME NEW payload, payload.exactLength = FALSE
    PROVE  ParsePayload(payload).valid = FALSE
BY DEF ParsePayload, EmptyResult

------------------------------------------------------------------------------
(* Storing: the last acceptable entry about a player counts *)

\* An identity the store may hold.
AcceptedIdentities ==
    {row \in Identities :
        /\ row.mask # {}
        /\ IsPlayableClassMask(row.mask)
        /\ HasClass(row.mask, row.class)}

Stores == [StoreKeys -> AcceptedIdentities \cup {NoIdentity}]

\* The entries about a player, and what the last of them says.
About(payload, srv, key, n) ==
    {i \in 1 .. n :
        /\ <<srv, NormalName[payload.entries[i].name]>> = key
        /\ IsAcceptableRemoteIdentityEntry(payload.entries[i])}

ToldUpTo(known, payload, srv, key, n) ==
    IF About(payload, srv, key, n) = {}
    THEN known[key]
    ELSE LET last == payload.entries[Max(About(payload, srv, key, n))]
         IN  [class |-> last.class, mask |-> last.mask]

LEMMA ToldByNext ==
    ASSUME NEW known, NEW payload, NEW srv, NEW key, NEW n \in Nat
    PROVE  ToldUpTo(known, payload, srv, key, n + 1) =
             IF /\ <<srv, NormalName[payload.entries[n + 1].name]>> = key
                /\ IsAcceptableRemoteIdentityEntry(payload.entries[n + 1])
             THEN [class |-> payload.entries[n + 1].class, mask |-> payload.entries[n + 1].mask]
             ELSE ToldUpTo(known, payload, srv, key, n)
<1> DEFINE counts == /\ <<srv, NormalName[payload.entries[n + 1].name]>> = key
                     /\ IsAcceptableRemoteIdentityEntry(payload.entries[n + 1])
<1>1. CASE counts
  <2>1. About(payload, srv, key, n + 1) \subseteq 1 .. n + 1 /\ n + 1 \in About(payload, srv, key, n + 1)
    BY <1>1 DEF About
  <2>2. Max(About(payload, srv, key, n + 1)) = n + 1
    BY <2>1, MaxOfNext
  <2> QED
    BY <1>1, <2>1, <2>2 DEF ToldUpTo
<1>2. CASE ~counts
  <2>1. About(payload, srv, key, n + 1) = About(payload, srv, key, n)
    BY <1>2 DEF About
  <2> QED
    BY <1>2, <2>1 DEF ToldUpTo
<1> QED
  BY <1>1, <1>2

IdentityEntries == [name : Names, class : ClassBits \cup {NoClass}, mask : Masks]

LEMMA StoredRow ==
    ASSUME NEW known \in Stores, NEW srv \in Servers, NEW entry \in IdentityEntries,
           IsAcceptableRemoteIdentityEntry(entry)
    PROVE  /\ StoreRow(known, srv, entry) \in Stores
           /\ \A key \in StoreKeys :
                StoreRow(known, srv, entry)[key] =
                  IF <<srv, NormalName[entry.name]>> = key
                  THEN [class |-> entry.class, mask |-> entry.mask] ELSE known[key]
<1>1. PICK row : row = [class |-> entry.class, mask |-> entry.mask]
  OBVIOUS
<1>2. row \in AcceptedIdentities
  BY <1>1 DEF IdentityEntries, AcceptedIdentities, Identities, IsAcceptableRemoteIdentityEntry
<1>3. PICK place : place = <<srv, NormalName[entry.name]>>
  OBVIOUS
<1>4. place \in StoreKeys
  BY <1>3 DEF StoreKeys, IdentityEntries
<1>5. StoreRow(known, srv, entry) = [known EXCEPT ![place] = row]
  BY <1>1, <1>3 DEF StoreRow
<1> QED
  BY <1>1, <1>2, <1>3, <1>4, <1>5 DEF Stores

\* The loop over the entries of a whole payload stores what the last acceptable
\* entry says of each player, and nothing for the others.
THEOREM StoredPayload ==
    ASSUME NEW known \in Stores, NEW srv \in Servers, NEW payload,
           payload.entries \in Seq(IdentityEntries), payload.truncated = FALSE
    PROVE  /\ StoreEntries(known, srv, payload) \in Stores
           /\ StoreEntries(known, srv, payload) =
                [key \in StoreKeys |-> ToldUpTo(known, payload, srv, key, Len(payload.entries))]
<1> DEFINE n      == Len(payload.entries)
           Next1(rows1, i) == IF IsAcceptableRemoteIdentityEntry(payload.entries[i])
                              THEN StoreRow(rows1, srv, payload.entries[i])
                              ELSE rows1
           Is(f)  == f = [i \in 0 .. n |-> IF i = 0 THEN known ELSE Next1(f[i - 1], i)]
           stored == CHOOSE f : Is(f)
           step   == [i \in 1 .. n |-> [r \in Stores |-> Next1(r, i)]]
           D      == [i \in 0 .. n |-> {r \in Stores :
                        \A key \in StoreKeys : r[key] = ToldUpTo(known, payload, srv, key, i)}]
<1>1. StoreEntries(known, srv, payload) = stored[n]
  BY DEF StoreEntries
<1>2. n \in Nat /\ \A i \in 1 .. n : payload.entries[i] \in IdentityEntries
  BY LenProperties, ElementOfSeq
<1> HIDE DEF n
<1>3. known \in D[0]
  <2>1. \A key \in StoreKeys : ToldUpTo(known, payload, srv, key, 0) = known[key]
    BY DEF ToldUpTo, About
  <2> QED
    BY <1>2, <2>1
<1>4. ASSUME NEW i \in 1 .. n, NEW r \in Stores
      PROVE  Next1(r, i) \in Stores /\ (r \in D[i - 1] => Next1(r, i) \in D[i])
  <2>1. i - 1 \in Nat /\ (i - 1) + 1 = i /\ i \in 0 .. n /\ i - 1 \in 0 .. n
    BY <1>2
  <2>2. PICK next : next = Next1(r, i)
    OBVIOUS
  <2>3. PICK entry : entry = payload.entries[i]
    OBVIOUS
  <2>4. /\ next \in Stores
        /\ \A key \in StoreKeys :
             next[key] = IF /\ <<srv, NormalName[entry.name]>> = key
                            /\ IsAcceptableRemoteIdentityEntry(entry)
                         THEN [class |-> entry.class, mask |-> entry.mask] ELSE r[key]
    <3>1. CASE IsAcceptableRemoteIdentityEntry(entry)
      BY <1>2, <2>2, <2>3, <3>1, StoredRow
    <3>2. CASE ~IsAcceptableRemoteIdentityEntry(entry)
      BY <2>2, <2>3, <3>2
    <3> QED
      BY <3>1, <3>2
  <2>5. \A key : ToldUpTo(known, payload, srv, key, i) =
                   IF /\ <<srv, NormalName[entry.name]>> = key
                      /\ IsAcceptableRemoteIdentityEntry(entry)
                   THEN [class |-> entry.class, mask |-> entry.mask]
                   ELSE ToldUpTo(known, payload, srv, key, i - 1)
    <3>1. ASSUME NEW key
          PROVE  ToldUpTo(known, payload, srv, key, (i - 1) + 1) =
                   IF /\ <<srv, NormalName[payload.entries[(i - 1) + 1].name]>> = key
                      /\ IsAcceptableRemoteIdentityEntry(payload.entries[(i - 1) + 1])
                   THEN [class |-> payload.entries[(i - 1) + 1].class,
                         mask |-> payload.entries[(i - 1) + 1].mask]
                   ELSE ToldUpTo(known, payload, srv, key, i - 1)
      BY <2>1, ToldByNext
    <3> QED
      BY <2>1, <2>3, <3>1
  <2>6. r \in D[i - 1] => next \in D[i]
    BY <2>1, <2>4, <2>5
  <2> QED
    BY <2>2, <2>4, <2>6
<1> HIDE DEF Next1
<1>5. step \in [1 .. n -> [Stores -> Stores]] /\ \A i \in 1 .. n, r \in Stores : step[i][r] = Next1(r, i)
  BY <1>4
<1> HIDE DEF step
<1>6. \E f : Is(f)
  <2>1. Runs(Stores, n, known, step) # {}
    BY <1>2, <1>5, RunExists
  <2>2. PICK f \in [0 .. n -> Stores] : f[0] = known /\ \A i \in 1 .. n : f[i] = step[i][f[i - 1]]
    BY <2>1 DEF Runs
  <2>3. \A i \in 1 .. n : f[i] = Next1(f[i - 1], i)
    BY <1>2, <1>5, <2>2
  <2> QED
    BY <1>2, <2>2, <2>3
<1>7. Is(stored)
  BY <1>6
<1> HIDE DEF stored
<1>8. stored[0] = known /\ \A i \in 1 .. n : stored[i] = Next1(stored[i - 1], i)
  BY <1>2, <1>7
<1>9. ASSUME NEW i \in 1 .. n, stored[i - 1] \in D[i - 1]
      PROVE  stored[i] \in D[i]
  <2>1. i - 1 \in 0 .. n /\ stored[i - 1] \in Stores
    BY <1>2, <1>9
  <2> HIDE DEF D
  <2> QED
    BY <1>4, <1>8, <1>9, <2>1
<1>10. stored[0] \in D[0]
  BY <1>3, <1>8
<1>11. \A i \in 0 .. n : stored[i] \in D[i]
  <2> HIDE DEF D
  <2> QED
    BY <1>2, <1>9, <1>10, AllStages
<1>12. stored[n] \in Stores /\ \A key \in StoreKeys : stored[n][key] = ToldUpTo(known, payload, srv, key, n)
  BY <1>2, <1>11
<1>13. stored[n] = [key \in StoreKeys |-> ToldUpTo(known, payload, srv, key, n)]
  BY <1>12 DEF Stores
<1> QED
  BY <1>1, <1>12, <1>13 DEF n

------------------------------------------------------------------------------
(* The invariant *)

StatsPart ==
    /\ DOMAIN stats = StatKeys
    /\ stats["classes"] \in Masks \cup {Absent}
    /\ stats["skillsLow"] \in {Absent} \cup SUBSET LowSkills
    /\ stats["skillsHigh"] \in {Absent} \cup SUBSET HighSkills
    /\ \A key \in StatKeys :
          \/ stats[key] = LastValue(lastStats, key)
          \/ key = "classes" /\ LastValue(lastStats, key) = Absent
    /\ notified = stats["classes"]

RemotePart ==
    /\ server \in Servers \cup {NoServer}
    /\ identities \in Stores
    /\ told = identities

WhoRows == [name : Names, class : ClassBits \cup {NoClass}]

WhoPart ==
    /\ entries \in Seq(WhoRows)
    /\ cursor \in 0 .. Len(entries)
    /\ who \in [rows : Seq(WhoRows), oversize : BOOLEAN, labels : Seq(Masks)]
    /\ Len(who.labels) <= Len(who.rows)
    /\ Drawing /\ InStep => entries = who.rows /\ cursor = Len(who.labels)

\* While the window of a send is open, the ticks since the send are the ticks the
\* window has lost.
CastPart ==
    /\ begin \in Off .. BeginWindow
    /\ cast \in [spell : Spells, left : Nat] \cup {NoCast}
    /\ sent \in Int
    /\ begin # Off => begin + sent = BeginWindow /\ sent >= 0

Lives == state \in {"unavailable", "initialized", "disabled_by_capability",
                    "disabled_by_hook_failure", "shutdown"}

ObserverInv == Lives /\ StatsPart /\ RemotePart /\ WhoPart /\ CastPart

(* What the actions do to each part *)

LEMMA ObservedPayload ==
    ASSUME StatsPart, NEW payload, IsStatsPayload(payload), ObserveReceivePayload(payload)
    PROVE  StatsPart'
<1>1. PICK result : result = ParsePayload(payload)
  OBVIOUS
<1>2. /\ stats' = Stored(stats, result)
      /\ notified' = IF stats'["classes"] # Absent THEN stats'["classes"] ELSE notified
      /\ lastStats' = IF payload.exactLength THEN payload ELSE lastStats
  BY <1>1 DEF ObserveReceivePayload
<1>3. CASE payload.exactLength
  <2>1. /\ result.valid /\ DOMAIN result.stats = StatKeys
        /\ \A key \in StatKeys : result.stats[key] = LastValue(payload, key)
    BY <1>1, <1>3, ParsedPayload
  <2>2. stats' = [result.stats EXCEPT !["classes"] =
                    IF @ = Absent THEN stats["classes"] ELSE @]
    BY <1>2, <2>1 DEF Stored
  <2>3. /\ DOMAIN stats' = StatKeys
        /\ \A key \in StatKeys \ {"classes"} : stats'[key] = LastValue(payload, key)
        /\ stats'["classes"] = IF LastValue(payload, "classes") = Absent
                               THEN stats["classes"] ELSE LastValue(payload, "classes")
    BY <2>1, <2>2 DEF StatKeys
  <2>4. lastStats' = payload
    BY <1>2, <1>3
  <2>5. \A key \in StatKeys :
          \/ stats'[key] = LastValue(payload, key)
          \/ key = "classes" /\ LastValue(payload, key) = Absent
    BY <2>3
  <2>6. /\ stats'["classes"] \in Masks \cup {Absent}
        /\ stats'["skillsLow"] \in {Absent} \cup SUBSET LowSkills
        /\ stats'["skillsHigh"] \in {Absent} \cup SUBSET HighSkills
    BY <2>3, LastValueTyped DEF StatsPart, StatKeys
  <2>7. notified' = stats'["classes"]
    BY <1>2, <2>3 DEF StatsPart
  <2>8. \A key \in StatKeys : LastValue(lastStats, key)' = LastValue(payload, key)
    BY <2>4 DEF LastValue
  <2> QED
    BY <2>3, <2>5, <2>6, <2>7, <2>8 DEF StatsPart
<1>4. CASE payload.exactLength = FALSE
  <2>1. stats' = stats /\ lastStats' = lastStats
    BY <1>1, <1>2, <1>4, RefusedPayload DEF Stored
  <2>2. notified' = notified
    BY <1>2, <2>1 DEF StatsPart
  <2> QED
    BY <2>1, <2>2 DEF StatsPart, LastValue
<1> QED
  BY <1>3, <1>4 DEF IsStatsPayload

LEMMA StatsStep ==
    ASSUME StatsPart, Next
    PROVE  StatsPart'
<1>1. ASSUME NEW payload \in StatsPayloads, ObserveReceivePayload(payload)
      PROVE  StatsPart'
  BY <1>1, PacketObserverAssumption, ObservedPayload DEF IsStatsPayload
<1>2. ASSUME UNCHANGED <<observed, lastStats>>
      PROVE  StatsPart'
  BY <1>2 DEF StatsPart, observed, LastValue
<1>3. CASE Lifecycle
  BY <1>2, <1>3 DEF Lifecycle, Initialize, DisableBecauseHookUnavailable, Shutdown
<1>4. CASE Receive
  BY <1>1, <1>2, <1>4
     DEF Receive, ReceiveServerAuthStats, ReceiveServerAuthStatsCandidate,
         ReceiveRemoteMulticlassIdentity, ReceiveEnterWorld, ReceiveWhoAllResponse,
         ReceiveBeginCast, ReceiveInterruptCast
<1>5. CASE Client
  BY <1>2, <1>5
     DEF Client, WhoClassNameClassLookup, DrawRowWithoutClass, SendCastSpell, Tick, SelectServer
<1> QED
  BY <1>3, <1>4, <1>5 DEF Next

LEMMA RemoteReceived ==
    ASSUME RemotePart, NEW payload \in RemotePayloads, ReceiveRemoteMulticlassIdentity(payload)
    PROVE  RemotePart'
<1>1. payload.entries \in Seq(IdentityEntries) /\ payload.truncated \in BOOLEAN
  BY PacketObserverAssumption DEF IdentityEntries
<1>2. server \in Servers /\ server' = server
  BY DEF RemotePart, ReceiveRemoteMulticlassIdentity
<1>3. CASE payload.truncated
  <2>1. identities' = identities /\ told' = told
    BY <1>3 DEF ReceiveRemoteMulticlassIdentity, StoreEntries
  <2> QED
    BY <1>2, <2>1 DEF RemotePart
<1>4. CASE payload.truncated = FALSE
  <2>1. identities' = StoreEntries(identities, server, payload)
    BY DEF ReceiveRemoteMulticlassIdentity
  <2>2. told' = [key \in StoreKeys |->
                   ToldUpTo(told, payload, server, key, Len(payload.entries))]
    <3>1. DOMAIN payload.entries = 1 .. Len(payload.entries)
      BY <1>1, LenProperties
    <3> QED
      BY <1>4, <3>1 DEF ReceiveRemoteMulticlassIdentity, ToldUpTo, About
  <2>3. /\ StoreEntries(identities, server, payload) \in Stores
        /\ StoreEntries(identities, server, payload) =
             [key \in StoreKeys |->
                ToldUpTo(identities, payload, server, key, Len(payload.entries))]
    BY <1>1, <1>2, <1>4, StoredPayload DEF RemotePart
  <2>4. told = identities
    BY DEF RemotePart
  <2> QED
    BY <1>2, <2>1, <2>2, <2>3, <2>4 DEF RemotePart
<1> QED
  BY <1>1, <1>3, <1>4

LEMMA RemoteStep ==
    ASSUME RemotePart, Next
    PROVE  RemotePart'
<1>1. ASSUME UNCHANGED <<server, remote>>
      PROVE  RemotePart'
  BY <1>1 DEF RemotePart, remote
<1>2. ASSUME identities' = EmptyStore, told' = EmptyStore, UNCHANGED server
      PROVE  RemotePart'
  BY <1>2 DEF RemotePart, EmptyStore, Stores
<1>3. CASE Lifecycle
  BY <1>1, <1>2, <1>3 DEF Lifecycle, Initialize, DisableBecauseHookUnavailable, Shutdown
<1>4. CASE Receive
  BY <1>1, <1>2, <1>4, RemoteReceived
     DEF Receive, ReceiveServerAuthStats, ReceiveServerAuthStatsCandidate,
         ReceiveEnterWorld, ReceiveWhoAllResponse, ReceiveBeginCast, ReceiveInterruptCast
<1>5. CASE Client
  <2>1. ASSUME NEW name \in Servers \cup {NoServer}, SelectServer(name)
        PROVE  RemotePart'
    BY <2>1 DEF SelectServer, RemotePart, remote
  <2> QED
    BY <1>1, <1>5, <2>1
       DEF Client, WhoClassNameClassLookup, DrawRowWithoutClass, SendCastSpell, Tick
<1> QED
  BY <1>3, <1>4, <1>5 DEF Next

LEMMA CastStep ==
    ASSUME CastPart, Next
    PROVE  CastPart'
<1>1. ASSUME UNCHANGED casting
      PROVE  CastPart'
  BY <1>1 DEF CastPart, casting
<1>2. ASSUME cast' = NoCast, UNCHANGED <<begin, sent>>
      PROVE  CastPart'
  BY <1>2 DEF CastPart
<1>3. ASSUME NEW spell \in Spells, NEW time \in CastTimes, ReceiveBeginCast(spell, time)
      PROVE  CastPart'
  <2>1. time + CastGrace \in Nat
    BY PacketObserverAssumption
  <2>2. CASE time = 0
    BY <1>3, <2>2 DEF CastPart, ReceiveBeginCast
  <2>3. CASE time # 0
    <3>1. begin' = Off
      BY <1>3, <2>3 DEF ReceiveBeginCast, ConsumeLocalBeginCastWindow
    <3>2. cast' \in [spell : Spells, left : Nat] \cup {NoCast}
      BY <1>3, <2>1, <2>3 DEF ReceiveBeginCast
    <3>3. sent' \in Int
      BY <1>3 DEF ReceiveBeginCast, CastPart, Off
    <3> QED
      BY <3>1, <3>2, <3>3, PacketObserverAssumption DEF CastPart, Off
  <2> QED
    BY <2>2, <2>3
<1>4. ASSUME SendCastSpell
      PROVE  CastPart'
  BY <1>4, PacketObserverAssumption DEF SendCastSpell, CastPart, Off
<1>5. ASSUME Tick
      PROVE  CastPart'
  <2>1. cast' \in [spell : Spells, left : Nat] \cup {NoCast}
    <3>1. PICK left : left = OneTickLess(cast.left)
      OBVIOUS
    <3>2. cast' = IF left = Off THEN NoCast ELSE [cast EXCEPT !.left = left]
      BY <1>5, <3>1 DEF Tick
    <3>3. CASE cast = NoCast
      BY <3>1, <3>2, <3>3 DEF NoCast, OneTickLess
    <3>4. CASE cast \in [spell : Spells, left : Nat]
      <4>1. left = Off \/ left \in Nat
        BY <3>1, <3>4 DEF OneTickLess, Off
      <4> QED
        BY <3>2, <3>4, <4>1
    <3> QED
      BY <3>3, <3>4 DEF CastPart
  <2>2. /\ begin' = OneTickLess(begin)
        /\ sent' = IF sent \in 0 .. BeginWindow THEN sent + 1 ELSE sent
    BY <1>5 DEF Tick
  <2>3. BeginWindow \in Nat
    BY PacketObserverAssumption
  <2>4. /\ begin' \in Off .. BeginWindow /\ sent' \in Int
        /\ begin' # Off => begin' + sent' = BeginWindow /\ sent' >= 0
    BY <2>2, <2>3 DEF CastPart, OneTickLess, Off
  <2> QED
    BY <2>1, <2>4 DEF CastPart
<1>6. CASE Lifecycle
  BY <1>1, <1>6 DEF Lifecycle, Initialize, DisableBecauseHookUnavailable, Shutdown
<1>7. CASE Receive
  BY <1>1, <1>2, <1>3, <1>7
     DEF Receive, ReceiveServerAuthStats, ReceiveServerAuthStatsCandidate,
         ReceiveRemoteMulticlassIdentity, ReceiveEnterWorld, ReceiveWhoAllResponse,
         ReceiveInterruptCast
<1>8. CASE Client
  BY <1>1, <1>4, <1>5, <1>8
     DEF Client, WhoClassNameClassLookup, DrawRowWithoutClass, SelectServer
<1> QED
  BY <1>6, <1>7, <1>8 DEF Next

(* The rows of /who *)

LEMMA CapturedResponse ==
    ASSUME WhoPart, NEW response \in WhoResponses, ReceiveWhoAllResponse(response)
    PROVE  WhoPart'
<1>1. response.rows \in Seq(WhoRows) /\ response.oversize \in BOOLEAN
  BY PacketObserverAssumption DEF WhoRows
<1>2. who' = [rows |-> response.rows, oversize |-> response.oversize, labels |-> <<>>]
  BY DEF ReceiveWhoAllResponse
<1>3. /\ who' \in [rows : Seq(WhoRows), oversize : BOOLEAN, labels : Seq(Masks)]
      /\ who'.rows = response.rows /\ who'.oversize = response.oversize
      /\ Len(who'.labels) = 0 /\ Len(response.rows) \in Nat
  BY <1>1, <1>2, EmptySeq, LenProperties
<1>4. CASE response.oversize
  <2>1. entries' = entries /\ cursor' = cursor
    BY <1>4 DEF ReceiveWhoAllResponse, MaybeLogWhoAllResponse
  <2> QED
    BY <1>3, <1>4, <2>1 DEF WhoPart, InStep
<1>5. CASE response.oversize = FALSE
  <2>1. entries' = response.rows /\ cursor' = 0
    BY <1>5 DEF ReceiveWhoAllResponse, MaybeLogWhoAllResponse
  <2> QED
    BY <1>1, <1>3, <2>1 DEF WhoPart
<1> QED
  BY <1>1, <1>4, <1>5

\* While they are in step, the next lookup takes the entry of the row drawn.
LEMMA NextEntryOfRow ==
    ASSUME WhoPart, Drawing, InStep
    PROVE  /\ NextEntry = Len(who.labels) + 1
           /\ NextEntry <= Len(entries)
           /\ entries[NextEntry] = who.rows[Len(who.labels) + 1]
<1>1. /\ entries = who.rows /\ cursor = Len(who.labels)
      /\ Len(who.rows) \in Nat /\ DOMAIN who.rows = 1 .. Len(who.rows)
      /\ Len(who.labels) \in Nat
  BY LenProperties DEF WhoPart
<1>2. PICK named : named = {i \in cursor + 1 .. Len(entries) : entries[i].name # EmptyName}
  OBVIOUS
<1>3. cursor + 1 \in named /\ named \subseteq Nat /\ \A i \in named : cursor + 1 <= i
  BY <1>1, <1>2 DEF Drawing, InStep
<1>4. PICK least : least = Min(named)
  OBVIOUS
<1>5. least = cursor + 1
  <2>1. least \in named /\ least <= cursor + 1
    BY <1>3, <1>4, MinOfNats
  <2>2. cursor \in Nat /\ least \in Nat /\ cursor + 1 <= least
    BY <1>1, <1>3, <2>1
  <2> QED
    BY <2>1, <2>2
<1>6. NextEntry = least
  BY <1>2, <1>3, <1>4 DEF NextEntry
<1> QED
  BY <1>1, <1>5, <1>6 DEF Drawing

LEMMA NextEntryBehindCursor ==
    ASSUME WhoPart
    PROVE  NextEntry \in cursor + 1 .. Len(entries) + 1
<1>1. Len(entries) \in Nat /\ cursor \in Nat /\ cursor <= Len(entries)
  BY LenProperties DEF WhoPart
<1>2. PICK named : named = {i \in cursor + 1 .. Len(entries) : entries[i].name # EmptyName}
  OBVIOUS
<1>3. named \subseteq Nat /\ named \subseteq cursor + 1 .. Len(entries)
  BY <1>1, <1>2
<1>4. CASE named = {}
  BY <1>1, <1>2, <1>4 DEF NextEntry
<1>5. CASE named # {}
  <2>1. PICK least : least = Min(named)
    OBVIOUS
  <2>2. least \in named
    BY <1>3, <1>5, <2>1, MinOfNats
  <2>3. least \in cursor + 1 .. Len(entries) + 1
    BY <1>1, <1>3, <2>2
  <2>4. NextEntry = least
    BY <1>2, <1>5, <2>1 DEF NextEntry
  <2> QED
    BY <2>3, <2>4
<1> QED
  BY <1>4, <1>5

\* A label is a mask, and one more label is drawn.
LEMMA OneMoreLabel ==
    ASSUME WhoPart, Drawing, NEW label \in Masks, Drawn(label)
    PROVE  /\ who' \in [rows : Seq(WhoRows), oversize : BOOLEAN, labels : Seq(Masks)]
           /\ who'.rows = who.rows /\ who'.oversize = who.oversize
           /\ Len(who.labels) \in Nat /\ Len(who.rows) \in Nat
           /\ Len(who'.labels) = Len(who.labels) + 1
           /\ who'.labels[Len(who.labels) + 1] = label
           /\ Len(who'.labels) <= Len(who'.rows)
<1>1. /\ who.labels \in Seq(Masks) /\ Len(who.labels) \in Nat /\ Len(who.rows) \in Nat
      /\ who \in [rows : Seq(WhoRows), oversize : BOOLEAN, labels : Seq(Masks)]
  BY LenProperties DEF WhoPart
<1>2. PICK more : more = Append(who.labels, label)
  OBVIOUS
<1>3. /\ more \in Seq(Masks) /\ Len(more) = Len(who.labels) + 1
      /\ more[Len(who.labels) + 1] = label
  BY <1>1, <1>2, AppendProperties
<1>4. who' = [who EXCEPT !.labels = more]
  BY <1>2 DEF Drawn
<1> QED
  BY <1>1, <1>3, <1>4 DEF Drawing

LEMMA LookupIsMask ==
    ASSUME RemotePart, NEW entry \in WhoRows
    PROVE  TryBuildRemoteCharacterClassDisplayAscii(entry) \in Masks
<1>1. NativeLabel \in Masks
  BY DEF NativeLabel, Masks
<1>2. CASE IsPlayableClassId(entry.class) /\ server # NoServer
  <2>1. PICK key : key = <<server, NormalName[entry.name]>>
    OBVIOUS
  <2>2. key \in StoreKeys
    BY <1>2, <2>1 DEF RemotePart, StoreKeys, WhoRows
  <2>3. identities[key] \in AcceptedIdentities \cup {NoIdentity}
    BY <2>2 DEF RemotePart, Stores
  <2>4. TryLookupCharacterClassMask(identities, server, entry.name, entry.class) \in Masks
    BY <1>1, <2>1, <2>3
       DEF TryLookupCharacterClassMask, AcceptedIdentities, Identities, NativeLabel
  <2> QED
    BY <1>2, <2>4 DEF TryBuildRemoteCharacterClassDisplayAscii
<1> QED
  BY <1>1, <1>2 DEF TryBuildRemoteCharacterClassDisplayAscii

LEMMA RowLookedUp ==
    ASSUME RemotePart, WhoPart, WhoClassNameClassLookup
    PROVE  WhoPart'
<1>1. PICK label : label = IF NextEntry > Len(entries)
                           THEN NativeLabel
                           ELSE TryBuildRemoteCharacterClassDisplayAscii(entries[NextEntry])
  OBVIOUS
<1>2. /\ Drawing /\ Drawn(label) /\ entries' = entries
      /\ cursor' = IF NextEntry > Len(entries) THEN Len(entries) ELSE NextEntry
  BY <1>1 DEF WhoClassNameClassLookup
<1>3. /\ NextEntry \in cursor + 1 .. Len(entries) + 1
      /\ Len(entries) \in Nat /\ cursor \in Nat /\ entries \in Seq(WhoRows)
  BY NextEntryBehindCursor, LenProperties DEF WhoPart
<1>4. label \in Masks
  <2>1. CASE NextEntry > Len(entries)
    BY <1>1, <2>1 DEF NativeLabel, Masks
  <2>2. CASE ~(NextEntry > Len(entries))
    <3>1. NextEntry \in 1 .. Len(entries)
      BY <1>3, <2>2
    <3>2. entries[NextEntry] \in WhoRows
      BY <1>3, <3>1, ElementOfSeq
    <3> QED
      BY <1>1, <2>2, <3>2, LookupIsMask
  <2> QED
    BY <2>1, <2>2
<1>5. cursor' \in 0 .. Len(entries)
  BY <1>2, <1>3
<1>6. ASSUME Drawing', InStep'
      PROVE  entries' = who'.rows /\ cursor' = Len(who'.labels)
  <2>1. InStep
    BY <1>2, <1>4, <1>6, OneMoreLabel DEF InStep
  <2>2. /\ NextEntry = Len(who.labels) + 1 /\ NextEntry <= Len(entries)
        /\ entries = who.rows
    BY <1>2, <2>1, NextEntryOfRow DEF WhoPart
  <2>3. ~(NextEntry > Len(entries))
    BY <1>3, <2>2
  <2> QED
    BY <1>2, <1>4, <2>2, <2>3, OneMoreLabel
<1> QED
  BY <1>2, <1>3, <1>4, <1>5, <1>6, OneMoreLabel DEF WhoPart

LEMMA WhoStep ==
    ASSUME RemotePart, WhoPart, Next
    PROVE  WhoPart'
<1>1. ASSUME UNCHANGED rows
      PROVE  WhoPart'
  BY <1>1 DEF WhoPart, InStep, Drawing, rows
<1>2. ASSUME DrawRowWithoutClass
      PROVE  WhoPart'
  <2>1. Drawing /\ Drawn(NativeLabel) /\ entries' = entries /\ cursor' = cursor
    BY <1>2 DEF DrawRowWithoutClass
  <2>2. NativeLabel \in Masks
    BY DEF NativeLabel, Masks
  <2>3. ~InStep
    <3>1. Len(who.labels) + 1 \in DOMAIN who.rows
      BY <2>1, LenProperties DEF WhoPart, Drawing
    <3> QED
      BY <1>2, <3>1 DEF DrawRowWithoutClass, InStep
  <2>4. ~InStep'
    BY <2>1, <2>2, <2>3, OneMoreLabel DEF InStep
  <2> QED
    BY <2>1, <2>2, <2>4, OneMoreLabel DEF WhoPart
<1>3. ASSUME Shutdown
      PROVE  WhoPart'
  <2>1. entries' = <<>> /\ cursor' = 0 /\ who' = who /\ ~Drawing
    BY <1>3 DEF Shutdown, Idle
  <2>2. ~Drawing'
    BY <2>1 DEF Drawing
  <2> QED
    BY <2>1, <2>2, EmptySeq DEF WhoPart
<1>4. CASE Lifecycle
  BY <1>1, <1>3, <1>4 DEF Lifecycle, Initialize, DisableBecauseHookUnavailable
<1>5. CASE Receive
  BY <1>1, <1>5, CapturedResponse
     DEF Receive, ReceiveServerAuthStats, ReceiveServerAuthStatsCandidate,
         ReceiveRemoteMulticlassIdentity, ReceiveEnterWorld, ReceiveBeginCast,
         ReceiveInterruptCast
<1>6. CASE Client
  BY <1>1, <1>2, <1>6, RowLookedUp DEF Client, SendCastSpell, Tick, SelectServer
<1> QED
  BY <1>4, <1>5, <1>6 DEF Next

------------------------------------------------------------------------------
(* The theorems *)

LEMMA InitObserver == Init => ObserverInv
<1> SUFFICES ASSUME Init PROVE ObserverInv
  OBVIOUS
<1>1. Lives
  BY DEF Init, Lives
<1>2. StatsPart
  <2>1. \A key \in StatKeys : stats[key] = Absent
    BY DEF Init, NoStats
  <2>2. lastStats = [entries |-> <<>>, exactLength |-> TRUE] /\ DOMAIN lastStats.entries = {}
    BY DEF Init
  <2>3. \A key : LastValue(lastStats, key) = Absent
    BY <2>2 DEF LastValue
  <2>4. /\ stats["classes"] = Absent /\ stats["skillsLow"] = Absent /\ stats["skillsHigh"] = Absent
        /\ notified = Absent /\ DOMAIN stats = StatKeys
    BY <2>1 DEF Init, NoStats, StatKeys
  <2> QED
    BY <2>1, <2>3, <2>4 DEF StatsPart
<1>3. RemotePart
  BY DEF Init, RemotePart, EmptyStore, Stores
<1>4. WhoPart
  <2>1. /\ entries = <<>> /\ cursor = 0 /\ who = [rows |-> <<>>, oversize |-> FALSE, labels |-> <<>>]
        /\ Len(<<>>) = 0
    BY EmptySeq DEF Init, NoResponse
  <2>2. ~Drawing
    BY <2>1 DEF Drawing
  <2>3. <<>> \in Seq(WhoRows) /\ <<>> \in Seq(Masks)
    BY EmptySeq
  <2> QED
    BY <2>1, <2>2, <2>3 DEF WhoPart
<1>5. CastPart
  BY PacketObserverAssumption DEF Init, CastPart, Off, NoCast
<1> QED
  BY <1>1, <1>2, <1>3, <1>4, <1>5 DEF ObserverInv

LEMMA LivesStep ==
    ASSUME Lives, Next
    PROVE  Lives'
<1>1. CASE Lifecycle
  BY <1>1 DEF Lifecycle, Initialize, DisableBecauseHookUnavailable, Shutdown, Lives
<1>2. CASE Receive
  BY <1>2
     DEF Lives, Receive, ReceiveServerAuthStats, ReceiveServerAuthStatsCandidate,
         ReceiveRemoteMulticlassIdentity, ReceiveEnterWorld, ReceiveWhoAllResponse,
         ReceiveBeginCast, ReceiveInterruptCast
<1>3. CASE Client
  BY <1>3
     DEF Lives, Client, WhoClassNameClassLookup, DrawRowWithoutClass, SendCastSpell, Tick,
         SelectServer
<1> QED
  BY <1>1, <1>2, <1>3 DEF Next

\* The invariant holds, whatever packets arrive in whatever order.
THEOREM ObserverInvariant == Spec => []ObserverInv
<1>1. ObserverInv /\ [Next]_vars => ObserverInv'
  <2> SUFFICES ASSUME ObserverInv, [Next]_vars PROVE ObserverInv'
    OBVIOUS
  <2>1. CASE Next
    BY <2>1, LivesStep, StatsStep, RemoteStep, WhoStep, CastStep DEF ObserverInv
  <2>2. CASE UNCHANGED vars
    <3>1. /\ state' = state /\ stats' = stats /\ notified' = notified /\ server' = server
          /\ identities' = identities /\ entries' = entries /\ cursor' = cursor /\ who' = who
          /\ begin' = begin /\ cast' = cast /\ lastStats' = lastStats /\ told' = told
          /\ sent' = sent
      BY <2>2 DEF vars
    <3>2. StatsPart'
      BY <3>1 DEF ObserverInv, StatsPart, LastValue
    <3>3. WhoPart'
      BY <3>1 DEF ObserverInv, WhoPart, InStep, Drawing
    <3> QED
      BY <3>1, <3>2, <3>3 DEF ObserverInv, Lives, RemotePart, CastPart
  <2> QED
    BY <2>1, <2>2
<1> QED
  BY InitObserver, <1>1, PTL DEF Spec

\* Every variable keeps its type; the cursor stays within the entries and no more
\* labels are drawn than the response has rows.
THEOREM ObserverTypeCorrect == Spec => []TypeOK
<1>1. ASSUME ObserverInv PROVE TypeOK
  <2>1. Lives /\ StatsPart /\ RemotePart /\ WhoPart /\ CastPart
    BY <1>1 DEF ObserverInv
  <2>2. identities \in [StoreKeys -> Identities \cup {NoIdentity}]
    BY <2>1 DEF RemotePart, Stores, AcceptedIdentities
  <2>3. cast = NoCast \/ (cast.spell \in Spells /\ cast.left >= 0)
    BY <2>1 DEF CastPart
  <2> QED
    BY <2>1, <2>2, <2>3 DEF TypeOK, Lives, StatsPart, RemotePart, WhoPart, CastPart
<1> QED
  BY <1>1, ObserverInvariant, PTL

\* What the readers of the stats see is the last well-formed payload, for every set
\* of payloads: the loop of the parser, the merge of the class mask and the refusal
\* of malformed payloads add up to the last value of each key.
THEOREM ReadersSeeLastPayload == Spec => []StatsAreLastPayload
<1>1. ASSUME ObserverInv PROVE StatsAreLastPayload
  <2>1. /\ \A key \in StatKeys :
             \/ stats[key] = LastValue(lastStats, key)
             \/ key = "classes" /\ LastValue(lastStats, key) = Absent
        /\ notified = stats["classes"]
    BY <1>1 DEF ObserverInv, StatsPart
  <2>2. \A key \in {"skillsLow", "skillsHigh"} : stats[key] = LastValue(lastStats, key)
    BY <2>1 DEF StatKeys
  <2>3. \A skill \in LowSkills \cup HighSkills :
          HasAuthoritativeActivatedSkill(stats, skill) =>
            /\ \A key \in {"skillsLow", "skillsHigh"} : LastValue(lastStats, key) # Absent
            /\ \E key \in {"skillsLow", "skillsHigh"} : skill \in LastValue(lastStats, key)
    BY <2>2 DEF HasAuthoritativeActivatedSkill
  <2> QED
    BY <2>1, <2>3 DEF StatsAreLastPayload
<1> QED
  BY <1>1, ObserverInvariant, PTL

\* A timed cast starts only from a send within the window, for every window.
THEOREM CastsClaimOwnSend == Spec => TimedCastClaimsOwnSend
<1>1. ASSUME ObserverInv, NEW spell \in Spells, NEW time \in CastTimes,
             ReceiveBeginCast(spell, time), cast' # NoCast
      PROVE  sent \in 0 .. BeginWindow
  <2>1. begin # Off
    BY <1>1 DEF ReceiveBeginCast
  <2>2. BeginWindow \in Nat /\ CastPart
    BY <1>1, PacketObserverAssumption DEF ObserverInv
  <2> QED
    BY <2>1, <2>2 DEF CastPart, Off
<1>2. ObserverInv =>
        [\A spell \in Spells, time \in CastTimes :
           ReceiveBeginCast(spell, time) /\ cast' # NoCast => sent \in 0 .. BeginWindow]_vars
  BY <1>1
<1> QED
  BY <1>2, ObserverInvariant, PTL DEF TimedCastClaimsOwnSend

\* What a lookup of the row drawn finds is what the server last told of its player,
\* if that is of the row's class.
LEMMA LookupIsTold ==
    ASSUME RemotePart, NEW row \in WhoRows, IsPlayableClassId(row.class), row.name # EmptyName,
           NEW fact, fact = ToldOf(row.name)
    PROVE  TryBuildRemoteCharacterClassDisplayAscii(row) =
             IF fact # NoIdentity /\ fact.class = row.class THEN fact.mask ELSE NativeLabel
<1>1. CASE server = NoServer
  BY <1>1 DEF TryBuildRemoteCharacterClassDisplayAscii, ToldOf
<1>2. CASE server # NoServer
  <2>1. PICK key : key = <<server, NormalName[row.name]>>
    OBVIOUS
  <2>2. key \in StoreKeys
    BY <1>2, <2>1 DEF RemotePart, StoreKeys, WhoRows
  <2>3. fact = identities[key] /\ fact \in AcceptedIdentities \cup {NoIdentity}
    BY <1>2, <2>1, <2>2 DEF RemotePart, Stores, ToldOf
  <2>4. row.class # NoClass
    BY ClassAssumption DEF IsPlayableClassId
  <2>5. TryBuildRemoteCharacterClassDisplayAscii(row) =
          TryLookupCharacterClassMask(identities, server, row.name, row.class)
    BY <1>2 DEF TryBuildRemoteCharacterClassDisplayAscii
  <2>6. CASE fact = NoIdentity
    BY <2>1, <2>3, <2>5, <2>6 DEF TryLookupCharacterClassMask, NativeLabel
  <2>7. CASE fact \in AcceptedIdentities
    <3>1. IsAcceptableRemoteIdentityEntry(
            [name |-> row.name, class |-> fact.class, mask |-> fact.mask])
      BY <2>7 DEF IsAcceptableRemoteIdentityEntry, AcceptedIdentities, HasClass
    <3>2. TryLookupCharacterClassMask(identities, server, row.name, row.class) =
            IF fact # NoIdentity /\ row.class \in {fact.class, NoClass}
            THEN fact.mask ELSE {}
      BY <2>1, <2>3, <3>1 DEF TryLookupCharacterClassMask
    <3> QED
      BY <2>4, <2>5, <3>2 DEF NativeLabel
  <2> QED
    BY <2>3, <2>6, <2>7
<1> QED
  BY <1>1, <1>2

\* Every row is drawn with what the server last told of its own player, for every set
\* of names, spellings, payloads and responses, and whatever packets, reconnections and
\* shutdowns came before the response.
THEOREM RowsShowTheirPlayers == Spec => LabelsMatchRows
<1>1. ASSUME ObserverInv, Next, InStep,
             who'.rows = who.rows, Len(who'.labels) = Len(who.labels) + 1,
             NEW row, row = who.rows[Len(who.labels) + 1],
             NEW fact, fact = ToldOf(row.name)
      PROVE  who'.labels[Len(who.labels) + 1] =
               IF fact # NoIdentity /\ fact.class = row.class THEN fact.mask ELSE NativeLabel
  <2>1. RemotePart /\ WhoPart /\ Len(who.labels) \in Nat
    BY <1>1, LenProperties DEF ObserverInv, WhoPart
  <2>2. who' # who
    BY <1>1, <2>1
  <2>3. WhoClassNameClassLookup
    <3>1. CASE Lifecycle
      BY <2>2, <3>1
         DEF Lifecycle, Initialize, DisableBecauseHookUnavailable, Shutdown, rows
    <3>2. CASE Receive
      <4>1. ASSUME NEW response \in WhoResponses, ReceiveWhoAllResponse(response)
            PROVE  FALSE
        <5>1. who'.labels = <<>>
          BY <4>1 DEF ReceiveWhoAllResponse
        <5> QED
          BY <1>1, <2>1, <5>1, EmptySeq
      <4> QED
        BY <2>2, <3>2, <4>1
           DEF Receive, ReceiveServerAuthStats, ReceiveServerAuthStatsCandidate,
               ReceiveRemoteMulticlassIdentity, ReceiveEnterWorld, ReceiveBeginCast,
               ReceiveInterruptCast, rows
    <3>3. CASE Client
      <4>1. ~DrawRowWithoutClass
        <5>1. Drawing => Len(who.labels) + 1 \in DOMAIN who.rows
          BY <2>1, LenProperties DEF WhoPart, Drawing
        <5> QED
          BY <1>1, <5>1 DEF DrawRowWithoutClass, InStep
      <4> QED
        BY <2>2, <3>3, <4>1 DEF Client, SendCastSpell, Tick, SelectServer, rows
    <3> QED
      BY <1>1, <3>1, <3>2, <3>3 DEF Next
  <2>4. /\ Drawing /\ NextEntry = Len(who.labels) + 1 /\ NextEntry <= Len(entries)
        /\ entries[NextEntry] = row
    BY <1>1, <2>1, <2>3, NextEntryOfRow DEF WhoClassNameClassLookup
  <2>5. Len(who.labels) + 1 \in 1 .. Len(who.rows) /\ DOMAIN who.rows = 1 .. Len(who.rows)
    BY <2>1, <2>4, LenProperties DEF WhoPart, Drawing
  <2>6. row \in WhoRows /\ IsPlayableClassId(row.class) /\ row.name # EmptyName
    BY <1>1, <2>1, <2>5, ElementOfSeq DEF WhoPart, InStep
  <2>7. PICK label : label = TryBuildRemoteCharacterClassDisplayAscii(row)
    OBVIOUS
  <2>8. ~(NextEntry > Len(entries))
    BY <2>1, <2>4, LenProperties DEF WhoPart
  <2>9. Drawn(label)
    BY <2>3, <2>4, <2>7, <2>8 DEF WhoClassNameClassLookup
  <2>10. label \in Masks
    BY <2>1, <2>6, <2>7, LookupIsMask
  <2>11. who'.labels[Len(who.labels) + 1] = label
    BY <2>1, <2>4, <2>9, <2>10, OneMoreLabel
  <2>12. label = IF fact # NoIdentity /\ fact.class = row.class THEN fact.mask ELSE NativeLabel
    BY <1>1, <2>1, <2>6, <2>7, LookupIsTold
  <2> QED
    BY <2>11, <2>12
<1>2. ObserverInv /\ [Next]_vars => [InStep => NextRowAsTold]_vars
  <2> SUFFICES ASSUME ObserverInv, [Next]_vars, InStep
               PROVE  NextRowAsTold \/ UNCHANGED vars
    OBVIOUS
  <2> QED
    BY <1>1 DEF NextRowAsTold
<1> QED
  BY <1>2, ObserverInvariant, PTL DEF LabelsMatchRows, Spec
==============================================================================
