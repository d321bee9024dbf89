\* Three inputs into two outputs: log2ceil(3 / 2) = 0, so R = 1, the groups
\* are {0} and {1}, and input 2 belongs to no output.
CONSTANTS
  NUM_INPUTS = 3
  NUM_OUTPUTS = 2
  ARB_TYPE = "RoundRobin"
  TAG_BITS = 3
  Tags = {0}
  MaxReqs = 2

SPECIFICATION Spec

PROPERTY EveryRequestAnswered
