CONSTANTS
  p1 = p1
  p2 = p2
  p3 = p3
  Proc = {p1, p2, p3}
  Sock = {1, 2, 3, 4}
  Path = {n1}
  Inode = {1, 2, 3}
  PIPE_BUF = 3
  SOMAXCONN = 2
  MaxPackets = 2
  Hazards = {}
  Menus <- MCMenus
SYMMETRY Symmetry
SPECIFICATION Spec
INVARIANTS
  StreamsIntact
  NoSocketStall
  ConnectionsCounted
CHECK_DEADLOCK FALSE
