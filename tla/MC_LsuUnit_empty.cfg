\* Four threads in two partial issues of two lanes; the front end may issue
\* a partial none of whose threads is active.
CONSTANTS
  ISSUE_WIDTH = 2
  NUM_LSU_BLOCKS = 1
  NUM_LSU_LANES = 2
  NUM_THREADS = 4
  NUM_WARPS = 2
  LSUQ_SIZE = 1
  MaxTraces = 2
  EmptyPartials = TRUE
  WriteAcks = FALSE
  NoTrace = NoTrace

SPECIFICATION Spec

INVARIANT SlotsAwaitLanes
