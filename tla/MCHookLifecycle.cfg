\* The proxy loads into every client and is unloaded again.
\* The DLL stops for good once it is down.
SPECIFICATION Spec
CHECK_DEADLOCK FALSE
CONSTANT
    Clients <- MCClients
INVARIANTS
    TypeOK
    CompleteShutdownIsClean
    CallsThrough
    HasSkillPointerLive
    FailClosed
