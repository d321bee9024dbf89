\* Two cores sharing the coprocessors, two issue lanes (warp w on lane w), two warps per core
\* meeting at a two-warp barrier, two partials per instruction, two instructions in all.
CONSTANTS
  NUM_CORES = 2
  ISSUE_WIDTH = 2
  NUM_WARPS = 2
  NUM_PARTIALS = 2
  SfuOps = {"BAR", "OM", "WSPAWN"}
  BAR_COUNT = 2
  COP_LATENCY = 1
  MaxInstrs = 2

SPECIFICATION Spec

INVARIANT TypeOK
INVARIANT TracesReturnHome
INVARIANT SuspensionCoversInstruction
INVARIANT BarrierHoldsWarps

PROPERTY EveryTraceRetires
