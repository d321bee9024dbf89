\* Two lanes, one shared bank, two-lane requests, a two-slot pending table, so two loads hold different tags at once.
CONSTANTS
  ISSUE_WIDTH = 2
  NUM_LSU_BLOCKS = 1
  NUM_LSU_LANES = 2
  NUM_THREADS = 2
  NUM_WARPS = 2
  LSUQ_SIZE = 2
  MaxTraces = 3
  EmptyPartials = FALSE
  WriteAcks = FALSE
  NoTrace = NoTrace

SPECIFICATION Spec

INVARIANT TypeOK
INVARIANT TraceConservation
INVARIANT PendingLoadsConsistent
INVARIANT FenceDrainsLoads
INVARIANT FenceBlocksLaterOps


INVARIANT TagNamesOneLoad
