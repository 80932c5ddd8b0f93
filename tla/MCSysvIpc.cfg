CONSTANTS
  Proc = {p1, p2, p3}
  SEMMNI = 2
  SEMMSL = 2
  SEMVMX = 2
  MSGMNI = 2
  MSGTQL = 3
  MSGMNB = 4
  MSGMAX = 3
  SmaBlocks = 3
  UndoCells = 3
  Hazards = {}
  Menus <- MCMenus
SYMMETRY Symmetry
SPECIFICATION Spec
INVARIANTS
  NoIpcStall
  QueuesIntact
PROPERTY UndoneOnExit
CHECK_DEADLOCK FALSE
