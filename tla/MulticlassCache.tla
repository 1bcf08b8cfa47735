--------------------------- MODULE MulticlassCache ---------------------------
(***************************************************************************)
(* StoreCharacterClassMask step by step (src/src/multiclass_cache.cpp):    *)
(* read the cache file, write all rows to a temporary file, move it over   *)
(* the cache file.  g_cache_mutex orders the stores of one client; several *)
(* clients started from one directory share both files and no lock, so     *)
(* each client is a process here and every file operation a step.  A       *)
(* client can die at any of them.                                          *)
(***************************************************************************)
EXTENDS CacheFile

CONSTANTS
    Clients,        \* client processes of one directory
    NoClient,       \* nobody holds the temporary file open
    Stored,         \* the <<name, row>> pairs the clients store, once they know
                    \* the class and the server
    ReadFaults      \* whether reading a present file can fail

ASSUME MulticlassCacheAssumption ==
    /\ NoClient \notin Clients
    /\ Stored \subseteq Names \X Row
    /\ \A s \in Stored : s[2].native # NoClass /\ s[2].server # NoServer
    /\ ReadFaults \in BOOLEAN

VARIABLES
    file,       \* the cache file
    temp,       \* the file of the same name with ".tmp" appended
    store,      \* each client's StoreCharacterClassMask call
    undisturbed \* the calls that read the file and overlap no other (history)

vars == <<file, temp, store, undisturbed>>

Steps == {"idle", "read", "opened", "written", "cleanup"}

\* Also: a client holds the temporary file exactly while it writes it.
TypeOK ==
    /\ file \in Image
    /\ temp \in [exists : BOOLEAN, owner : Clients \cup {NoClient}, image : Image]
    /\ store \in [Clients -> [at : Steps, name : Names, row : Row, rows : Rows]]
    /\ undisturbed \subseteq Clients
    /\ \A c \in Clients : store[c].at = "opened" <=> temp.owner = c

NoImage == [format |-> "unreadable", rows |-> NoRows]
NoTemp  == [exists |-> FALSE, owner |-> NoClient, image |-> NoImage]

Running == {c \in Clients : store[c].at # "idle"}

\* A call between two file operations: where it goes, and what it keeps.
Goto(c, step) == store' = [store EXCEPT ![c].at = step]

------------------------------------------------------------------------------
\* Mutant: the store goes on from no rows although it read the file.
ReadEntriesDropped(c, name, row, readOk) ==
    /\ store[c].at = "idle"
    /\ store' = [store EXCEPT ![c] = [at |-> "read", name |-> name, row |-> row,
                                      rows |-> NoRows]]
    /\ undisturbed' = IF Running = {} /\ readOk THEN {c} ELSE {}
    /\ UNCHANGED <<file, temp>>

\* ReadCacheEntries.  Its result is ignored: a failed read leaves no rows.
ReadEntries(c, name, row, readOk) ==
    /\ store[c].at = "idle"
    /\ store' = [store EXCEPT ![c] = [at |-> "read", name |-> name, row |-> row,
                                      rows |-> IF readOk THEN ReadCacheEntries(file)
                                               ELSE NoRows]]
    /\ undisturbed' = IF Running = {} /\ readOk THEN {c} ELSE {}
    /\ UNCHANGED <<file, temp>>

\* Mutant: the file is opened with sharing.
OpenTempShared(c) ==
    /\ store[c].at = "read"
    /\ temp' = [exists |-> TRUE, owner |-> c, image |-> NoImage]
    /\ Goto(c, "opened")
    /\ UNCHANGED <<file, undisturbed>>

\* CreateFileW(CREATE_ALWAYS, no sharing): truncates, and fails while another
\* client has the file open.
OpenTemp(c) ==
    /\ store[c].at = "read"
    /\ temp.owner = NoClient
    /\ temp' = [exists |-> TRUE, owner |-> c, image |-> NoImage]
    /\ Goto(c, "opened")
    /\ UNCHANGED <<file, undisturbed>>

\* CreateFileW fails, for that reason or another: StoreCharacterClassMask is false.
OpenFails(c) ==
    /\ store[c].at = "read"
    /\ Goto(c, "idle")
    /\ UNCHANGED <<file, temp, undisturbed>>

\* WriteFile and CloseHandle.
WriteTemp(c) ==
    /\ store[c].at = "opened"
    /\ \E image \in BuildCacheFileContents(store[c].rows, store[c].name, store[c].row) :
         temp' = [exists |-> TRUE, owner |-> NoClient, image |-> image]
    /\ Goto(c, "written")
    /\ UNCHANGED <<file, undisturbed>>

\* Mutant: a short write is not noticed.
WriteFailsUnnoticed(c) ==
    /\ store[c].at = "opened"
    /\ temp' = [temp EXCEPT !.owner = NoClient]
    /\ Goto(c, "written")
    /\ UNCHANGED <<file, undisturbed>>

\* WriteFile fails or is cut short: the handle is closed, the file deleted next.
WriteFails(c) ==
    /\ store[c].at = "opened"
    /\ temp' = [temp EXCEPT !.owner = NoClient]
    /\ Goto(c, "cleanup")
    /\ UNCHANGED <<file, undisturbed>>

\* MoveFileExW(REPLACE_EXISTING) of whatever the temporary file is by now.
MoveTemp(c) ==
    /\ store[c].at = "written"
    /\ temp.exists
    /\ temp.owner = NoClient
    /\ file' = temp.image
    /\ temp' = NoTemp
    /\ Goto(c, "idle")
    /\ UNCHANGED undisturbed

\* The temporary file is gone or open, or the cache file cannot be replaced.
MoveFails(c) ==
    /\ store[c].at = "written"
    /\ Goto(c, "cleanup")
    /\ UNCHANGED <<file, temp, undisturbed>>

\* DeleteFileW of the temporary file, which an open one refuses; then false.
DeleteTemp(c) ==
    /\ store[c].at = "cleanup"
    /\ temp' = IF temp.owner = NoClient THEN NoTemp ELSE temp
    /\ Goto(c, "idle")
    /\ UNCHANGED <<file, undisturbed>>

\* The client process ends in the middle of a store; its handle is closed.
Crash(c) ==
    /\ store[c].at # "idle"
    /\ temp' = [temp EXCEPT !.owner = IF @ = c THEN NoClient ELSE @]
    /\ Goto(c, "idle")
    /\ UNCHANGED <<file, undisturbed>>

------------------------------------------------------------------------------
Init ==
    /\ file = NoImage
    /\ temp = NoTemp
    /\ store \in [Clients -> {[at |-> "idle", name |-> s[1], row |-> s[2],
                              rows |-> NoRows] : s \in Stored}]
    /\ undisturbed = {}

Next ==
    \E c \in Clients :
        \/ \E s \in Stored, readOk \in {TRUE, ~ReadFaults} :
             ReadEntries(c, s[1], s[2], readOk)
        \/ OpenTemp(c) \/ OpenFails(c)
        \/ WriteTemp(c) \/ WriteFails(c)
        \/ MoveTemp(c) \/ MoveFails(c) \/ DeleteTemp(c)
        \/ Crash(c)

Spec == Init /\ [][Next]_vars

------------------------------------------------------------------------------
(* Properties *)

\* A call that overlaps no other either leaves what readers find as it was or
\* puts its own row and keeps every other one, wherever it fails or dies and
\* whatever temporary file an earlier crash left behind.
UndisturbedStoreIsAtomic ==
    [][\A c \in undisturbed :
         ReadCacheEntries(file') # ReadCacheEntries(file) =>
           ReadCacheEntries(file')
             = [ReadCacheEntries(file) EXCEPT ![store[c].name] = store[c].row]]_vars

\* One client alone is a dictionary to its readers, crashes included.
Cache == INSTANCE CacheStore WITH dict <- ReadCacheEntries(file)

ActsAsDictionary == Cache!Spec
===============================================================================
