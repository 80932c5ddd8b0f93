SPECIFICATION Spec
CONSTANTS
    d1 = d1
    d2 = d2
    Clients = {c1, c2}
    Syncers = {s1}
    kbdflushd = kbdflushd
    kswapd = kswapd
    Blocks = {1, 2, 3}
    Dev <- MCDev
    SyncDevs = {d1}
    Pages = {g1}
    PerPage = 2
    MaxHeld = 2
    MAX_DIRTY = 0
    NR_BUF_RECLAIM = 1
    FailingWriters = {c1, c2, s1, kbdflushd}
    Teams <- MCTeams
    NULL = NULL
SYMMETRY Perms
INVARIANTS BuffersAccounted ReadsLastWrite WritesNotLost
CHECK_DEADLOCK FALSE
