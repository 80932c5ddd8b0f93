SPECIFICATION FairSpec
CONSTANTS
    Procs = {p1, p2, p3, p4}
    Idle = Idle
    Resources = {r1}
    Channels = {c1}
    IoChannels = {c1}
    Signals = {"stop", "cont"}
    Signalled = {p4}
    Priority = 1
    NULL = NULL
INVARIANT
    NoLostWakeup
PROPERTIES
    LockWaiterRetries
    IdleLeavesCPU
