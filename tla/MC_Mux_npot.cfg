\* Three inputs into one output: R = 3 is not a power of two, which the
\* constructor does not reject.
CONSTANTS
  NUM_INPUTS = 3
  NUM_OUTPUTS = 1
  ARB_TYPE = "RoundRobin"
  MaxInFlight = 2

SPECIFICATION Spec

PROPERTY EveryRequestForwarded
