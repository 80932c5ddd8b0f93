SPECIFICATION Spec
CONSTANTS
  NDIR = 2
  BPI = 2
  BlockSize = 6
  DiskBlocks = {1, 2, 3, 4, 5, 6, 7}
  DiskInodes = {1, 2, 3, 4, 5, 6}
  MntRoot = 9
  PipeInode = 8
  NR_INODES = 7
  Proc = {p1, p2}
  OPEN_MAX = 3
  NR_OPENS = 4
  MAX_SYMLINKS = 2
  NR_FLOCKS = 3
  Hazards = {}
  Paths <- MCPaths
  Targets <- MCTargets
  Lengths <- MCLengths
  Menus <- MCMenus
  FileSystems = {"ext2", "minix1", "minix2"}
INVARIANTS
  RefsCounted
  LinksCounted
  BlocksAccounted
  FlockExclusive
  TruncateFreesTail
  DirectoryListed
