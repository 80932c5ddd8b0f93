SPECIFICATION FairSpec
CONSTANTS
    p1 = p1
    p2 = p2
    Procs = {p1, p2}
    IRQ = irq
    MaxGroup = 2
    Drivers = {TRUE, FALSE}
    MayFail = TRUE
    NULL = NULL
CHECK_DEADLOCK FALSE
INVARIANTS NoLostCompletion QueueIntact
PROPERTY CallsEndWithoutErrors
