SPECIFICATION Spec
CONSTANTS
    a1 = a1
    a2 = a2
    a3 = a3
    p1 = p1
    p2 = p2
    p3 = p3
    Procs = {p1, p2, p3}
    Idle = Idle
    NULL = NULL
    Addresses = {a1, a2, a3}
    Buckets = {0, 1}
    SLEEP_HASH <- MCHash
    Priority = 1
    IrqSignalled = {p1}
    Continued = {p2, p3}
SYMMETRY Perms
INVARIANT ListsIntact
PROPERTY ImplementsWaitQueues
