\* A train window open while the DLL is unloaded.
\* The DLL stops for good once it is down.
SPECIFICATION Spec
CHECK_DEADLOCK FALSE
CONSTANT
    Clients <- MCClients
INVARIANTS
    ShutdownRestoresSession
