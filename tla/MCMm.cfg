SPECIFICATION Spec
CONSTANTS
  NR_PAGES = 10
  BUDDY_MAX_LEVEL = 2
  Junk = 99
  Proc = {1, 2}
  PAGE_OFFSET = 9
  MMAP_START = 5
  Inode = {1, 2, 3}
  FilePages = 2
  Image <- MCImage
  NUM_ATTACHES_PER_SEG = 2
  Hazards = {}
  Menus <- MCMenus
CHECK_DEADLOCK FALSE
INVARIANTS
  RegionsDisjoint
  MemoryIntact
  MemoryAccounted
