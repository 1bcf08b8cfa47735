---------------------------- MODULE RemoteIdentity ----------------------------
(***************************************************************************)
(* The class masks of other players by name                                *)
(* (remote_multiclass_identity.cpp).  The store is a list of rows, one for *)
(* each server and normalized name; here a function from those keys.       *)
(***************************************************************************)
EXTENDS ClassIdentity, Naturals, Sequences

CONSTANTS
    Servers,        \* server names
    Names,          \* character names as packets spell them
    NormalName,     \* NormalizeName: a function from Names to Names
    EmptyName,      \* the empty character name
    NoIdentity      \* a name the store has no row for

ASSUME RemoteIdentityAssumption ==
    /\ NormalName \in [Names -> Names]
    /\ \A name \in Names : NormalName[NormalName[name]] = NormalName[name]

Identities == [class : ClassBits \cup {NoClass}, mask : Masks]

StoreKeys == Servers \X {NormalName[name] : name \in Names}

EmptyStore == [key \in StoreKeys |-> NoIdentity]

IsAcceptableRemoteIdentityEntry(entry) ==
    /\ entry.name # EmptyName
    /\ IsPlayableClassId(entry.class)
    /\ entry.mask # {}
    /\ IsPlayableClassMask(entry.mask)
    /\ HasClass(entry.mask, entry.class)

\* A row that is there already is not updated.
StoreRowOnce(rows, server, entry) ==
    IF rows[<<server, NormalName[entry.name]>>] = NoIdentity
    THEN [rows EXCEPT ![<<server, NormalName[entry.name]>>] =
            [class |-> entry.class, mask |-> entry.mask]]
    ELSE rows

StoreRow(rows, server, entry) ==
    [rows EXCEPT ![<<server, NormalName[entry.name]>>] =
        [class |-> entry.class, mask |-> entry.mask]]

\* A payload that ends inside an entry is refused as a whole; an unacceptable
\* entry only for itself.
StoreEntries(rows, server, payload) ==
    LET entries == payload.entries
        stored[n \in 0 .. Len(entries)] ==
            IF n = 0 THEN rows
            ELSE IF IsAcceptableRemoteIdentityEntry(entries[n])
                 THEN StoreRow(stored[n - 1], server, entries[n])
                 ELSE stored[n - 1]
    IN IF payload.truncated THEN rows ELSE stored[Len(entries)]

\* The mask of a name, {} when there is none: the row must be of the class
\* the caller expects.
TryLookupCharacterClassMask(rows, server, name, expectedClass) ==
    LET row == rows[<<server, NormalName[name]>>] IN
    IF /\ row # NoIdentity
       /\ expectedClass \in {row.class, NoClass}
       /\ IsAcceptableRemoteIdentityEntry([name |-> name, class |-> row.class, mask |-> row.mask])
    THEN row.mask
    ELSE {}
==============================================================================
