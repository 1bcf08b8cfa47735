------------------------ MODULE MulticlassCacheProofs ------------------------
(***************************************************************************)
(* Theorems about the stores of the multiclass cache, for every number of  *)
(* clients, names and rows: a store that overlaps no other is atomic, and  *)
(* one client alone implements the dictionary of CacheStore, wherever its  *)
(* calls fail and it dies.  The file must have room for one row per name   *)
(* and the one a store adds; how the rows of one name are sorted does not  *)
(* matter.                                                                 *)
(***************************************************************************)
EXTENDS MulticlassCache, FiniteSetTheorems, TLAPS

\* Every row is one the reader of the current file version keeps.
KeptRows(rows) == \A n \in Names : rows[n] = NoRow \/ RowKept("V3", rows[n])

\* The file images of this version of the client.
CurrentImage(image) == image \in Image /\ image.format \in {"unreadable", "V3"}

\* What the clients store, and the rows they start from, is kept when read again.
RowsAreKept ==
    /\ CurrentImage(file)
    /\ CurrentImage(temp.image)
    /\ \A c \in Clients : /\ RowKept("V3", store[c].row)
                          /\ KeptRows(store[c].rows)

\* A call that overlaps no other works on the rows that are in the file, and the
\* temporary file it moves is the one it wrote.
UndisturbedIsAlone ==
    \A c \in undisturbed :
        /\ Running \subseteq {c}
        /\ store[c].at # "idle" => store[c].rows = ReadCacheEntries(file)
        /\ store[c].at = "written" =>
              temp.image \in BuildCacheFileContents(store[c].rows, store[c].name, store[c].row)

CacheInv ==
    /\ TypeOK
    /\ RowsAreKept
    /\ UndisturbedIsAlone

RoomForEveryName == IsFiniteSet(Names) /\ Cardinality(Names) < MaxRows

------------------------------------------------------------------------------
(* The file as data *)

\* A reader keeps or drops a row of the current version, and changes none.
LEMMA ReadsCurrentImage ==
    ASSUME NEW image, CurrentImage(image)
    PROVE  /\ ReadCacheEntries(image) \in Rows
           /\ KeptRows(ReadCacheEntries(image))
           /\ image.format = "V3" /\ KeptRows(image.rows) => ReadCacheEntries(image) = image.rows
<1>1. image.rows \in Rows
  BY DEF CurrentImage, Image
<1>2. NoRows \in Rows /\ KeptRows(NoRows)
  BY DEF NoRows, Rows, KeptRows
<1>3. CASE image.format = "unreadable"
  BY <1>2, <1>3 DEF ReadCacheEntries
<1>4. CASE image.format = "V3"
  <2> DEFINE rows == image.rows
  <2>1. \A n \in Names : rows[n] # NoRow =>
           /\ rows[n] \in Row
           /\ RowFields("V3", rows[n]) = rows[n]
    BY <1>1 DEF Rows, Row, RowFields
  <2>2. ReadCacheEntries(image)
           = [n \in Names |-> IF RowKept("V3", rows[n]) THEN RowFields("V3", rows[n]) ELSE NoRow]
    BY <1>4 DEF ReadCacheEntries, ParseCacheEntries
  <2>3. \A n \in Names : RowKept("V3", rows[n]) => rows[n] # NoRow
    BY DEF RowKept
  <2>4. rows = [n \in Names |-> rows[n]]
    BY <1>1 DEF Rows
  <2> HIDE DEF rows
  <2>5. ReadCacheEntries(image)
           = [n \in Names |-> IF RowKept("V3", rows[n]) THEN rows[n] ELSE NoRow]
    BY <2>1, <2>2, <2>3
  <2>6. ReadCacheEntries(image) \in Rows
    BY <2>1, <2>3, <2>5 DEF Rows
  <2>7. KeptRows(ReadCacheEntries(image))
    BY <2>5 DEF KeptRows
  <2>8. KeptRows(rows) => ReadCacheEntries(image) = rows
    BY <2>4, <2>5 DEF KeptRows
  <2> QED
    BY <2>6, <2>7, <2>8 DEF rows
<1> QED
  BY <1>3, <1>4 DEF CurrentImage

\* A store writes at most one row per name and one more.
LEMMA RowsFit ==
    ASSUME RoomForEveryName, NEW rows, NEW name, NEW row
    PROVE  ~(RowsWritten(rows, name, row) > MaxRows)
<1> DEFINE written == [rows EXCEPT ![name] = row]
           present == {n \in Names : written[n] # NoRow}
<1>1. present \in SUBSET Names
  OBVIOUS
<1>2. IsFiniteSet(present) /\ Cardinality(present) <= Cardinality(Names)
  BY <1>1, FS_Subset DEF RoomForEveryName
<1>3. Cardinality(present) \in Nat /\ Cardinality(Names) \in Nat
  BY <1>2, FS_CardinalityType DEF RoomForEveryName
<1>4. RowsWritten(rows, name, row)
         = Cardinality(present) + (IF Shadowed(rows, name, row) THEN 1 ELSE 0)
  BY DEF RowsWritten, CountRows
<1> HIDE DEF present
<1> QED
  BY <1>2, <1>3, <1>4, CacheFileAssumption DEF RoomForEveryName

\* What a rewrite leaves reads as the rows it started from, with the new row or,
\* when the sort put another server's row of the name last, without it.
LEMMA RewriteReads ==
    ASSUME NEW rows \in Rows, KeptRows(rows), NEW name \in Names, NEW row \in Row,
           RowKept("V3", row), NEW image \in BuildCacheFileContents(rows, name, row)
    PROVE  /\ CurrentImage(image)
           /\ RoomForEveryName =>
                 ReadCacheEntries(image) \in {rows, [rows EXCEPT ![name] = row]}
<1>1. PICK last \in LastRow(rows, name, row) :
         image = [format |-> IF RowsWritten(rows, name, row) > MaxRows
                             THEN "unreadable" ELSE "V3",
                  rows   |-> [rows EXCEPT ![name] = last]]
  BY DEF BuildCacheFileContents
<1>2. last = row \/ (last = rows[name] /\ rows[name] # NoRow)
  BY DEF LastRow, RowKept
<1>3. last \in Row
  BY <1>2 DEF Rows
<1>4. [rows EXCEPT ![name] = last] \in Rows
  BY <1>3 DEF Rows
<1>5. KeptRows([rows EXCEPT ![name] = last])
  BY <1>2 DEF KeptRows, Rows
<1>6. CurrentImage(image)
  BY <1>1, <1>4 DEF CurrentImage, Image
<1>7. [rows EXCEPT ![name] = last] \in {rows, [rows EXCEPT ![name] = row]}
  BY <1>2 DEF Rows
<1>8. RoomForEveryName => image.format = "V3" /\ image.rows = [rows EXCEPT ![name] = last]
  BY <1>1, RowsFit
<1> QED
  BY <1>5, <1>6, <1>7, <1>8, ReadsCurrentImage

------------------------------------------------------------------------------
(* The steps of a store *)

LEMMA InitCacheInv == Init => CacheInv
<1> SUFFICES ASSUME Init PROVE CacheInv
  OBVIOUS
<1> USE DEF Init
<1>1. NoRows \in Rows /\ KeptRows(NoRows)
  BY DEF NoRows, Rows, KeptRows
<1>2. CurrentImage(NoImage)
  BY <1>1 DEF CurrentImage, Image, NoImage
<1>3. temp = [exists |-> FALSE, owner |-> NoClient, image |-> NoImage]
  BY DEF NoTemp
<1>4. ASSUME NEW c \in Clients
      PROVE  /\ store[c] \in [at : Steps, name : Names, row : Row, rows : Rows]
             /\ store[c].at = "idle" /\ store[c].rows = NoRows
             /\ RowKept("V3", store[c].row)
  <2>1. PICK s \in Stored :
          store[c] = [at |-> "idle", name |-> s[1], row |-> s[2], rows |-> NoRows]
    BY <1>4
  <2>2. s[1] \in Names /\ s[2] \in Row /\ s[2].native # NoClass /\ s[2].server # NoServer
    BY MulticlassCacheAssumption
  <2> QED
    BY <1>1, <2>1, <2>2, CacheFileAssumption DEF Steps, RowKept
<1>5. store \in [Clients -> [at : Steps, name : Names, row : Row, rows : Rows]]
  <2>1. DOMAIN store = Clients /\ store = [c \in Clients |-> store[c]]
    OBVIOUS
  <2> QED
    BY <1>4, <2>1
<1>6. TypeOK
  BY <1>2, <1>3, <1>4, <1>5, MulticlassCacheAssumption DEF TypeOK, CurrentImage
<1>7. RowsAreKept
  BY <1>1, <1>2, <1>3, <1>4 DEF RowsAreKept
<1> QED
  BY <1>6, <1>7 DEF CacheInv, UndisturbedIsAlone

\* The call of one client goes from one file operation to the next.
LEMMA GotoStep ==
    ASSUME TypeOK, NEW c \in Clients, NEW step \in Steps, Goto(c, step)
    PROVE  /\ store' \in [Clients -> [at : Steps, name : Names, row : Row, rows : Rows]]
           /\ store'[c].at = step
           /\ \A d \in Clients \ {c} : store'[d] = store[d]
           /\ \A d \in Clients : /\ store'[d].name = store[d].name
                                 /\ store'[d].row = store[d].row
                                 /\ store'[d].rows = store[d].rows
<1>1. store \in [Clients -> [at : Steps, name : Names, row : Row, rows : Rows]]
  BY DEF TypeOK
<1>2. store' = [store EXCEPT ![c].at = step]
  BY DEF Goto
<1>3. store'[c] = [at |-> step, name |-> store[c].name, row |-> store[c].row,
                  rows |-> store[c].rows]
  BY <1>1, <1>2
<1>4. \A d \in Clients \ {c} : store'[d] = store[d]
  BY <1>1, <1>2
<1>5. store'[c] \in [at : Steps, name : Names, row : Row, rows : Rows]
  BY <1>1, <1>3
<1>6. store' \in [Clients -> [at : Steps, name : Names, row : Row, rows : Rows]]
  BY <1>1, <1>2, <1>4, <1>5
<1> QED
  BY <1>3, <1>4, <1>6

\* What is true of a running call that does not touch the cache file.
LEMMA RunningStep ==
    ASSUME CacheInv, NEW c \in Clients, NEW step \in Steps, Goto(c, step),
           store[c].at # "idle", UNCHANGED <<file, undisturbed>>,
           temp' \in [exists : BOOLEAN, owner : Clients \cup {NoClient}, image : Image],
           CurrentImage(temp'.image),
           \A d \in Clients : store'[d].at = "opened" <=> temp'.owner = d,
           step = "written" =>
               temp'.image \in BuildCacheFileContents(store[c].rows, store[c].name, store[c].row)
    PROVE  CacheInv'
<1> USE DEF CacheInv
<1>1. TypeOK'
  BY GotoStep DEF TypeOK
<1>2. RowsAreKept'
  BY GotoStep DEF RowsAreKept, KeptRows, CurrentImage
<1>3. Running' \subseteq Running /\ c \in Running
  BY GotoStep DEF Running
<1>4. UndisturbedIsAlone'
  <2> SUFFICES ASSUME NEW d \in undisturbed
               PROVE  /\ Running' \subseteq {d}
                      /\ store'[d].at # "idle" => store'[d].rows = ReadCacheEntries(file)
                      /\ store'[d].at = "written" =>
                           temp'.image \in BuildCacheFileContents(store'[d].rows, store'[d].name,
                                                                  store'[d].row)
    BY DEF UndisturbedIsAlone
  <2>1. d = c /\ Running' \subseteq {d}
    BY <1>3 DEF UndisturbedIsAlone
  <2>2. store[c].rows = ReadCacheEntries(file)
    BY <2>1 DEF UndisturbedIsAlone
  <2> QED
    BY <2>1, <2>2, GotoStep
<1> QED
  BY <1>1, <1>2, <1>4

LEMMA ReadEntriesStep ==
    ASSUME CacheInv, NEW c \in Clients, NEW s \in Stored, NEW readOk \in BOOLEAN,
           ReadEntries(c, s[1], s[2], readOk)
    PROVE  CacheInv'
<1> USE DEF CacheInv
<1> DEFINE rows == IF readOk THEN ReadCacheEntries(file) ELSE NoRows
           call == [at |-> "read", name |-> s[1], row |-> s[2], rows |-> rows]
<1>1. rows \in Rows /\ KeptRows(rows)
  <2>1. NoRows \in Rows /\ KeptRows(NoRows)
    BY DEF NoRows, Rows, KeptRows
  <2> QED
    BY <2>1, ReadsCurrentImage DEF RowsAreKept
<1>2. /\ s[1] \in Names /\ s[2] \in Row /\ RowKept("V3", s[2])
  BY MulticlassCacheAssumption, CacheFileAssumption DEF RowKept
<1>3. store' = [store EXCEPT ![c] = call]
  BY DEF ReadEntries
<1>4. readOk => rows = ReadCacheEntries(file)
  OBVIOUS
<1> HIDE DEF rows
<1>5. /\ store \in [Clients -> [at : Steps, name : Names, row : Row, rows : Rows]]
      /\ store[c].at = "idle"
      /\ UNCHANGED <<file, temp>>
  BY DEF TypeOK, ReadEntries
<1>6. /\ store' \in [Clients -> [at : Steps, name : Names, row : Row, rows : Rows]]
      /\ store'[c] = call
      /\ \A d \in Clients \ {c} : store'[d] = store[d]
  BY <1>1, <1>2, <1>3, <1>5 DEF Steps
<1>7. undisturbed' = (IF Running = {} /\ readOk THEN {c} ELSE {})
  BY DEF ReadEntries
<1>8. TypeOK'
  BY <1>5, <1>6, <1>7 DEF TypeOK
<1>9. RowsAreKept'
  BY <1>1, <1>2, <1>5, <1>6 DEF RowsAreKept, KeptRows, CurrentImage
<1>10. UndisturbedIsAlone'
  <2> SUFFICES ASSUME NEW d \in undisturbed'
               PROVE  /\ Running' \subseteq {d}
                      /\ store'[d].rows = ReadCacheEntries(file')
                      /\ store'[d].at = "read"
    BY DEF UndisturbedIsAlone
  <2>1. d = c /\ Running = {} /\ readOk
    BY <1>7
  <2>2. Running' \subseteq {c}
    BY <1>6, <2>1 DEF Running
  <2> QED
    BY <1>4, <1>5, <1>6, <2>1, <2>2
<1> QED
  BY <1>8, <1>9, <1>10

LEMMA OpenTempStep ==
    ASSUME CacheInv, NEW c \in Clients, OpenTemp(c)
    PROVE  CacheInv'
<1> USE DEF CacheInv
<1>1. /\ Goto(c, "opened") /\ store[c].at = "read" /\ UNCHANGED <<file, undisturbed>>
      /\ temp.owner = NoClient
      /\ temp' = [exists |-> TRUE, owner |-> c, image |-> NoImage]
  BY DEF OpenTemp
<1>2. CurrentImage(NoImage)
  BY DEF CurrentImage, Image, NoImage, NoRows, Rows
<1>3. \A d \in Clients : store'[d].at = "opened" <=> temp'.owner = d
  BY <1>1, GotoStep, MulticlassCacheAssumption DEF TypeOK, Steps
<1>4. temp' \in [exists : BOOLEAN, owner : Clients \cup {NoClient}, image : Image]
  BY <1>1, <1>2 DEF CurrentImage
<1> QED
  BY <1>1, <1>2, <1>3, <1>4, RunningStep DEF Steps

LEMMA WriteTempStep ==
    ASSUME CacheInv, NEW c \in Clients, WriteTemp(c)
    PROVE  CacheInv'
<1> USE DEF CacheInv
<1>1. PICK image \in BuildCacheFileContents(store[c].rows, store[c].name, store[c].row) :
        temp' = [exists |-> TRUE, owner |-> NoClient, image |-> image]
  BY DEF WriteTemp
<1>2. Goto(c, "written") /\ store[c].at = "opened" /\ UNCHANGED <<file, undisturbed>>
  BY DEF WriteTemp
<1>3. CurrentImage(image)
  BY RewriteReads DEF TypeOK, RowsAreKept
<1>4. \A d \in Clients : store'[d].at = "opened" <=> temp'.owner = d
  BY <1>1, <1>2, GotoStep, MulticlassCacheAssumption DEF TypeOK, Steps
<1>5. temp' \in [exists : BOOLEAN, owner : Clients \cup {NoClient}, image : Image]
  BY <1>1, <1>3 DEF CurrentImage
<1> QED
  BY <1>1, <1>2, <1>3, <1>4, <1>5, RunningStep DEF Steps

LEMMA OtherRunningSteps ==
    ASSUME CacheInv, NEW c \in Clients,
           OpenFails(c) \/ WriteFails(c) \/ MoveFails(c) \/ DeleteTemp(c) \/ Crash(c)
    PROVE  CacheInv'
<1> USE DEF CacheInv
<1>1. /\ store[c].at # "idle" /\ UNCHANGED <<file, undisturbed>>
      /\ Goto(c, "idle") \/ Goto(c, "cleanup")
  BY DEF OpenFails, WriteFails, MoveFails, DeleteTemp, Crash
<1>2. temp \in [exists : BOOLEAN, owner : Clients \cup {NoClient}, image : Image]
  BY DEF TypeOK
<1>3. CurrentImage(temp.image) /\ CurrentImage(NoImage)
  BY DEF RowsAreKept, CurrentImage, Image, NoImage, NoRows, Rows
<1>4. NoTemp \in [exists : BOOLEAN, owner : Clients \cup {NoClient}, image : Image]
      /\ NoTemp.owner = NoClient /\ NoTemp.image = NoImage
  BY <1>3 DEF NoTemp, CurrentImage
<1>5. /\ [temp EXCEPT !.owner = NoClient]
            = [exists |-> temp.exists, owner |-> NoClient, image |-> temp.image]
      /\ [temp EXCEPT !.owner = IF @ = c THEN NoClient ELSE @]
            = [exists |-> temp.exists,
               owner |-> IF temp.owner = c THEN NoClient ELSE temp.owner, image |-> temp.image]
  BY <1>2
<1>6. /\ temp' \in [exists : BOOLEAN, owner : Clients \cup {NoClient}, image : Image]
      /\ CurrentImage(temp'.image)
      /\ temp'.owner = IF temp.owner = c THEN NoClient ELSE temp.owner
  <2>1. CASE OpenFails(c) \/ MoveFails(c)
    <3>1. temp' = temp /\ store[c].at # "opened"
      BY <2>1 DEF OpenFails, MoveFails
    <3> QED
      BY <1>2, <1>3, <3>1 DEF TypeOK
  <2>2. CASE WriteFails(c)
    <3>1. temp' = [temp EXCEPT !.owner = NoClient] /\ temp.owner = c
      BY <2>2 DEF WriteFails, TypeOK
    <3> QED
      BY <1>2, <1>3, <1>5, <3>1
  <2>3. CASE DeleteTemp(c)
    <3>1. temp' = (IF temp.owner = NoClient THEN NoTemp ELSE temp) /\ temp.owner # c
      BY <2>3 DEF DeleteTemp, TypeOK
    <3> QED
      BY <1>2, <1>3, <1>4, <3>1
  <2>4. CASE Crash(c)
    BY <1>2, <1>3, <1>5, <2>4 DEF Crash
  <2> QED
    BY <2>1, <2>2, <2>3, <2>4
<1>7. ASSUME NEW step \in {"idle", "cleanup"}, Goto(c, step)
      PROVE  CacheInv'
  <2>1. step \in Steps /\ step # "opened" /\ step # "written"
    BY DEF Steps
  <2>2. \A d \in Clients : store'[d].at = "opened" <=> temp'.owner = d
    BY <1>6, <1>7, <2>1, GotoStep, MulticlassCacheAssumption DEF TypeOK
  <2> QED
    BY <1>1, <1>6, <1>7, <2>1, <2>2, RunningStep
<1> QED
  BY <1>1, <1>7

\* The temporary file takes the place of the cache file, and the call is over.
LEMMA MoveTempStep ==
    ASSUME CacheInv, NEW c \in Clients, MoveTemp(c)
    PROVE  CacheInv'
<1> USE DEF CacheInv
<1>1. /\ store[c].at = "written" /\ temp.owner = NoClient /\ file' = temp.image
      /\ temp' = NoTemp /\ Goto(c, "idle") /\ undisturbed' = undisturbed
  BY DEF MoveTemp
<1>2. CurrentImage(NoImage)
  BY DEF CurrentImage, Image, NoImage, NoRows, Rows
<1>3. /\ NoTemp \in [exists : BOOLEAN, owner : Clients \cup {NoClient}, image : Image]
      /\ NoTemp.owner = NoClient /\ NoTemp.image = NoImage
  BY <1>2 DEF NoTemp, CurrentImage
<1>4. /\ store' \in [Clients -> [at : Steps, name : Names, row : Row, rows : Rows]]
      /\ store'[c].at = "idle"
      /\ \A d \in Clients \ {c} : store'[d] = store[d]
      /\ \A d \in Clients : store'[d].row = store[d].row /\ store'[d].rows = store[d].rows
  BY <1>1, GotoStep DEF Steps
<1>5. \A d \in Clients : store'[d].at # "opened"
  BY <1>1, <1>4, MulticlassCacheAssumption DEF TypeOK
<1>6. TypeOK'
  BY <1>1, <1>3, <1>4, <1>5, MulticlassCacheAssumption DEF TypeOK
<1>7. RowsAreKept'
  BY <1>1, <1>2, <1>3, <1>4 DEF RowsAreKept, KeptRows, CurrentImage
<1>8. UndisturbedIsAlone'
  <2>1. ASSUME NEW d \in undisturbed
        PROVE  d = c /\ Running' \subseteq {d}
    BY <1>1, <1>4 DEF UndisturbedIsAlone, Running
  <2> QED
    BY <1>1, <1>4, <2>1 DEF UndisturbedIsAlone
<1> QED
  BY <1>6, <1>7, <1>8

LEMMA NextCacheInv == CacheInv /\ [Next]_vars => CacheInv'
<1> SUFFICES ASSUME CacheInv, [Next]_vars PROVE CacheInv'
  OBVIOUS
<1>1. CASE UNCHANGED vars
  BY <1>1 DEF vars, CacheInv, TypeOK, RowsAreKept, UndisturbedIsAlone, Running, KeptRows,
     CurrentImage
<1>2. ASSUME NEW c \in Clients, NEW s \in Stored, NEW readOk \in {TRUE, ~ReadFaults},
             ReadEntries(c, s[1], s[2], readOk)
      PROVE  CacheInv'
  BY <1>2, ReadEntriesStep
<1>3. ASSUME NEW c \in Clients,
             \/ OpenTemp(c) \/ OpenFails(c) \/ WriteTemp(c) \/ WriteFails(c)
             \/ MoveTemp(c) \/ MoveFails(c) \/ DeleteTemp(c) \/ Crash(c)
      PROVE  CacheInv'
  BY <1>3, OpenTempStep, WriteTempStep, OtherRunningSteps, MoveTempStep
<1> QED
  BY <1>1, <1>2, <1>3 DEF Next

\* A store that overlaps no other runs alone, on the rows the file has, in every
\* interleaving of any number of clients (StoreCharacterClassMask, WriteCacheEntries).
THEOREM CacheInvariant == Spec => []CacheInv
<1>1. Init => CacheInv
  BY InitCacheInv
<1>2. CacheInv /\ [Next]_vars => CacheInv'
  BY NextCacheInv
<1> QED
  BY <1>1, <1>2, PTL DEF Spec

\* The files and the calls stay well-formed, and a client holds the temporary file
\* exactly while it writes it, whatever fails and whoever dies (WriteCacheEntries).
THEOREM CacheTypeCorrect == Spec => []TypeOK
BY CacheInvariant, PTL DEF CacheInv

------------------------------------------------------------------------------
(* What a store does to the readers *)

\* Only a move replaces the cache file.
LEMMA OnlyMovesReplace ==
    ASSUME [Next]_vars, file' # file
    PROVE  \E c \in Clients : MoveTemp(c)
BY DEF Next, vars, ReadEntries, OpenTemp, OpenFails, WriteTemp, WriteFails, MoveFails,
       DeleteTemp, Crash

\* The move of an undisturbed call puts its row, or leaves what readers find.
LEMMA MovePutsRow ==
    ASSUME CacheInv, RoomForEveryName, NEW c \in undisturbed, MoveTemp(c)
    PROVE  ReadCacheEntries(file') \in
              {ReadCacheEntries(file),
               [ReadCacheEntries(file) EXCEPT ![store[c].name] = store[c].row]}
<1> USE DEF CacheInv
<1>1. c \in Clients /\ store[c].at = "written" /\ file' = temp.image
  BY DEF TypeOK, MoveTemp
<1>2. /\ store[c].rows = ReadCacheEntries(file)
      /\ temp.image \in BuildCacheFileContents(store[c].rows, store[c].name, store[c].row)
  BY <1>1 DEF UndisturbedIsAlone
<1>3. /\ store[c].rows \in Rows /\ KeptRows(store[c].rows) /\ store[c].name \in Names
      /\ store[c].row \in Row /\ RowKept("V3", store[c].row)
  BY <1>1 DEF TypeOK, RowsAreKept
<1> QED
  BY <1>1, <1>2, <1>3, RewriteReads

\* A call that overlaps no other puts its own row and keeps all others, or leaves
\* what readers find as it was (StoreCharacterClassMask), for any number of
\* clients, and however std::sort orders the rows of one name.
THEOREM StoreIsAtomic ==
    ASSUME RoomForEveryName
    PROVE  Spec => UndisturbedStoreIsAtomic
<1> DEFINE Atomic ==
      \A c \in undisturbed :
         ReadCacheEntries(file') # ReadCacheEntries(file) =>
           ReadCacheEntries(file')
             = [ReadCacheEntries(file) EXCEPT ![store[c].name] = store[c].row]
<1>1. ASSUME CacheInv, [Next]_vars
      PROVE  Atomic
  <2>1. SUFFICES ASSUME NEW c \in undisturbed,
                        ReadCacheEntries(file') # ReadCacheEntries(file)
                 PROVE  ReadCacheEntries(file')
                          = [ReadCacheEntries(file) EXCEPT ![store[c].name] = store[c].row]
    OBVIOUS
  <2>2. PICK d \in Clients : MoveTemp(d)
    BY <1>1, <2>1, OnlyMovesReplace
  <2>3. d \in Running
    BY <2>2 DEF MoveTemp, Running
  <2>4. d = c
    BY <1>1, <2>3 DEF CacheInv, UndisturbedIsAlone
  <2> QED
    BY <1>1, <2>1, <2>2, <2>4, MovePutsRow
<1>2. CacheInv /\ [Next]_vars => [Atomic]_vars
  BY <1>1
<1> QED
  BY <1>2, CacheInvariant, PTL DEF Spec, UndisturbedStoreIsAtomic

\* With one client that can read its file, no call is disturbed.
AllUndisturbed == Running \subseteq undisturbed

LEMMA OneClientUndisturbed ==
    ASSUME NEW c, Clients = {c}, ~ReadFaults, CacheInv, AllUndisturbed, [Next]_vars
    PROVE  AllUndisturbed'
<1>1. CASE UNCHANGED vars
  BY <1>1 DEF vars, AllUndisturbed, Running
<1>2. ASSUME NEW s \in Stored, ReadEntries(c, s[1], s[2], TRUE)
      PROVE  AllUndisturbed'
  <2>1. Running = {} /\ Running' \subseteq {c}
    BY <1>2 DEF ReadEntries, Running
  <2> QED
    BY <1>2, <2>1 DEF ReadEntries, AllUndisturbed
<1>3. ASSUME store[c].at # "idle", undisturbed' = undisturbed
      PROVE  AllUndisturbed'
  BY <1>3 DEF AllUndisturbed, Running
<1> QED
  BY <1>1, <1>2, <1>3 DEF Next, OpenTemp, OpenFails, WriteTemp, WriteFails, MoveTemp, MoveFails,
     DeleteTemp, Crash

\* One client alone implements the dictionary of CacheStore to its readers, with
\* every failure and crash a stutter: whatever step fails, the next store starts
\* from the rows the last successful one left (StoreCharacterClassMask).
THEOREM OneClientIsDictionary ==
    ASSUME RoomForEveryName, NEW c, Clients = {c}, ~ReadFaults
    PROVE  Spec => ActsAsDictionary
<1>1. Init => AllUndisturbed
  BY DEF Init, AllUndisturbed, Running
<1>2. CacheInv /\ AllUndisturbed /\ [Next]_vars => AllUndisturbed'
  BY OneClientUndisturbed
<1>3. Init => Cache!Init
  <2>1. Rows = Cache!Rows
    BY DEF Rows, Row, Cache!Rows, Cache!Row, Masks, Cache!Masks
  <2> QED
    BY <2>1, InitCacheInv, ReadsCurrentImage DEF Cache!Init, CacheInv, RowsAreKept
<1>4. ASSUME CacheInv, AllUndisturbed, [Next]_vars
      PROVE  [Cache!Next]_(ReadCacheEntries(file))
  <2>1. CASE ReadCacheEntries(file)' = ReadCacheEntries(file)
    BY <2>1
  <2>2. CASE ReadCacheEntries(file)' # ReadCacheEntries(file)
    <3>1. ReadCacheEntries(file') # ReadCacheEntries(file)
      BY <2>2
    <3>2. PICK d \in Clients : MoveTemp(d)
      BY <1>4, <3>1, OnlyMovesReplace
    <3>3. d \in undisturbed
      BY <1>4, <3>2 DEF AllUndisturbed, Running, MoveTemp
    <3>4. ReadCacheEntries(file')
            = [ReadCacheEntries(file) EXCEPT ![store[d].name] = store[d].row]
      BY <1>4, <3>1, <3>2, <3>3, MovePutsRow
    <3>5. store[d].name \in Names /\ store[d].row \in Row /\ RowKept("V3", store[d].row)
      BY <1>4 DEF CacheInv, TypeOK, RowsAreKept
    <3>6. Cache!Put(store[d].name, store[d].row)
      BY <2>2, <3>4, <3>5 DEF Cache!Put, RowKept
    <3> QED
      BY <3>5, <3>6 DEF Cache!Next, Cache!Row, Row, Cache!Masks, Masks
  <2> QED
    BY <2>1, <2>2
<1>5. CacheInv /\ AllUndisturbed /\ [Next]_vars => [Cache!Next]_(ReadCacheEntries(file))
  BY <1>4
<1> QED
  BY <1>1, <1>2, <1>3, <1>5, CacheInvariant, PTL DEF Spec, ActsAsDictionary, Cache!Spec
=============================================================================
