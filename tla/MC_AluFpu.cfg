\* Two issue lanes and three warps (warps 0 and 2 share lane 0), two
\* partials per instruction, two instructions.  A branch (ALU, 2 + 2
\* cycles, with or without fetch_stall) and an FMA (FPU, LATENCY_FMA + 2)
\* have different latencies, so results leave in a different order from
\* the one they were issued in.  IMUL and IDIV differ from the branch only
\* in their latency.
CONSTANTS
  ISSUE_WIDTH = 2
  NUM_WARPS = 3
  NUM_PARTIALS = 2
  LATENCY_IMUL = 2
  XLEN = 3
  LATENCY_FMA = 1
  LATENCY_FDIV = 2
  LATENCY_FSQRT = 2
  LATENCY_FCVT = 1
  AluOps = {"BRANCH"}
  FpuOps = {"FMA"}
  MaxInstrs = 2

SPECIFICATION Spec

INVARIANT TypeOK
INVARIANT FetchStallCoversInstruction

PROPERTY StalledWarpResumes
