CONSTANTS
    init = init
    Slots = {init, p1, p2, p3}
    IDLE = IDLE
    NULL = NULL
    Groups = {3}
    Handlers = {"handler", "IGN"}
    MaxStrays = 1
    Programs <- MCPrograms
SPECIFICATION Spec
SYMMETRY Perms
CHECK_DEADLOCK FALSE
INVARIANTS FamilyIntact ZombieAnnounced SignalNotSleptOn GroupInSession
