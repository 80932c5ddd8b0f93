SPECIFICATION Spec
CONSTANTS
    r1 = r1
    r2 = r2
    w1 = w1
    w2 = w2
    Readers = {r1}
    Writers = {w1, w2}
    Stranger = other
    Users <- MCUsers
    PIPE_BUF = 2
    MaxCount = 2
    NonBlock = {FALSE}
    NULL = NULL
CHECK_DEADLOCK FALSE
INVARIANT WriteNotInterleaved
