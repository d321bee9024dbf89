\* Liveness: two lanes sharing one bank, one-slot pending table, two traces.
CONSTANTS
  ISSUE_WIDTH = 2
  NUM_LSU_BLOCKS = 1
  NUM_LSU_LANES = 2
  NUM_THREADS = 2
  NUM_WARPS = 2
  LSUQ_SIZE = 1
  MaxTraces = 2
  EmptyPartials = FALSE
  WriteAcks = FALSE
  NoTrace = NoTrace

SPECIFICATION Spec

PROPERTY EveryTraceRetires
