CONSTANTS
  CBSIZE = 2
  NR_CB_QUEUE = 2
  CB_POOL_SIZE = 7
  Columns = 3
  Lines = 4
  TAB_SIZE = 2
  Keymap <- MCKeymap
  Proc = {1, 2, 3}
  NR_VCONSOLES = 3
  UART_FIFO_SIZE = 1
  Serial = 4
  Pts = 5
  Ptmx = 6
  Modes <- MCModes
  Counts = {1, 3}
  Nonblock = {}
  Marks = {"x", "y"}
  Hazards = {}
  Menus <- MCMenus
SPECIFICATION Spec
INVARIANTS
  PoolConserved
  CursorOnScreen
  EditedAsTyped
  OutputOnce
  CttyOfSession
  SleepersHaveCause
PROPERTY SwitchAllowed
CHECK_DEADLOCK FALSE
