------------------------------ MODULE CacheFile ------------------------------
(***************************************************************************)
(* The multiclass cache file as data (src/src/multiclass_cache.cpp): what  *)
(* a reader makes of a file image, and which images a rewrite can leave.   *)
(* Every reader goes through ParseCacheEntries, which keeps one row per    *)
(* normalised name, the last one; an image is therefore kept as a function *)
(* from names to rows.  Two rows of one name exist only inside a rewrite,  *)
(* and the order std::sort leaves them in is resolved there.               *)
(***************************************************************************)
EXTENDS ClassIdentity, Integers, FiniteSets

CONSTANTS
    Names,      \* normalised character names
    Servers,    \* normalised server names
    NoServer,   \* an empty server field
    NoRow,      \* the name has no row
    SmallSort,  \* std::sort keeps equal rows in order up to this many rows
    MaxRows     \* rows that fit in kMaxCacheFileBytes

Row == [mask : Masks,
        native : PlayableClasses \cup {NoClass},
        server : Servers \cup {NoServer}]

ASSUME CacheFileAssumption ==
    /\ NoServer \notin Servers
    /\ NoRow \notin Row
    /\ SmallSort \in Nat
    /\ MaxRows \in Nat

Rows == [Names -> Row \cup {NoRow}]

\* "unreadable": missing, longer than kMaxCacheFileBytes, or without a header.
Image == [format : {"unreadable", "V1", "V2", "V3"}, rows : Rows]

NoRows == [n \in Names |-> NoRow]

CountRows(rows) == Cardinality({n \in Names : rows[n] # NoRow})

------------------------------------------------------------------------------
(* Reading *)

\* The checks of a line by file version: V2 and V3 need a native class, V3 a server.
RowKept(format, row) ==
    /\ row # NoRow
    /\ format \in {"V2", "V3"} => row.native # NoClass
    /\ format = "V3" => row.server # NoServer

\* The fields a file version carries; the others keep their default.
RowFields(format, row) ==
    [mask   |-> row.mask,
     native |-> IF format = "V1" THEN NoClass ELSE row.native,
     server |-> IF format = "V3" THEN row.server ELSE NoServer]

ParseCacheEntries(image) ==
    [n \in Names |-> IF RowKept(image.format, image.rows[n])
                     THEN RowFields(image.format, image.rows[n])
                     ELSE NoRow]

\* On failure the vector the caller passed is left empty.
ReadCacheEntries(image) ==
    IF image.format = "unreadable" THEN NoRows ELSE ParseCacheEntries(image)

\* The masks a lookup returns: none, or the one of the name's row.
TryLookupCharacterClassMask(image, name, native, server) ==
    LET row == ReadCacheEntries(image)[name] IN
    IF /\ row # NoRow
       /\ server # NoServer => row.server = server
       /\ native # NoClass => row.native \in {NoClass, native}
    THEN {row.mask}
    ELSE {}

TryLookupUniqueClassMaskForNativeClassId(image, native, server) ==
    LET rows    == ReadCacheEntries(image)
        matches == {n \in Names :
                      /\ rows[n] # NoRow
                      /\ server # NoServer => rows[n].server = server
                      /\ rows[n].native \in {NoClass, native}
                      /\ native \in rows[n].mask}
        masks   == {rows[n].mask : n \in matches}
    IN  IF Cardinality(masks) = 1 THEN masks ELSE {}

------------------------------------------------------------------------------
(* Writing *)

\* The parser keys a row by name alone, a store by name and server: the row of
\* the same name on another server stays in the vector beside the new one.
Shadowed(rows, name, row) ==
    rows[name] # NoRow /\ rows[name].server # row.server

RowsWritten(rows, name, row) ==
    CountRows([rows EXCEPT ![name] = row])
      + (IF Shadowed(rows, name, row) THEN 1 ELSE 0)

\* The row of the name a later parse keeps: the last one in sorted order.
LastRow(rows, name, row) ==
    {row} \cup
    (IF /\ Shadowed(rows, name, row)
        /\ RowsWritten(rows, name, row) > SmallSort
        /\ RowKept("V3", rows[name])
     THEN {rows[name]}
     ELSE {})

\* The images a rewrite of the rows with the new one can leave.
BuildCacheFileContents(rows, name, row) ==
    {[format |-> IF RowsWritten(rows, name, row) > MaxRows
                 THEN "unreadable" ELSE "V3",
      rows   |-> [rows EXCEPT ![name] = last]] : last \in LastRow(rows, name, row)}

\* Mutant: the native class is left at its default.
CacheRowNoNative(mask, native, server) ==
    [mask |-> mask, native |-> NoClass, server |-> server]

CacheRow(mask, native, server) ==
    [mask |-> mask, native |-> native, server |-> server]

\* A failed read is ignored: the store then starts from no rows.
StoreCharacterClassMask(image, name, mask, native, server) ==
    BuildCacheFileContents(ReadCacheEntries(image), name, CacheRow(mask, native, server))
==============================================================================
