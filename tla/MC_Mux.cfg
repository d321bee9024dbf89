\* Four inputs into one output under round robin (R = 4), two requests in
\* flight per output group.
CONSTANTS
  NUM_INPUTS = 4
  NUM_OUTPUTS = 1
  ARB_TYPE = "RoundRobin"
  MaxInFlight = 2

SPECIFICATION Spec

INVARIANT TypeOK
INVARIANT RoundRobinBoundedWait

PROPERTY EveryRequestForwarded
PROPERTY MuxImplementsArbiter
