\* Six inputs into two outputs: I / O = 3 is rounded up to R = 4 (lg = 2),
\* so output 1's group 4 .. 7 meets the missing inputs 6 and 7 and skips
\* them (j >= I), while output 0's group is full.  Tags fit in the field
\* after the shift (3 << 2 = 12 < 2^4).
CONSTANTS
  NUM_INPUTS = 6
  NUM_OUTPUTS = 2
  ARB_TYPE = "RoundRobin"
  TAG_BITS = 4
  Tags = {0, 3}
  MaxReqs = 2

SPECIFICATION Spec

INVARIANT TypeOK
INVARIANT ResponseRouting

PROPERTY EveryRequestAnswered
PROPERTY SwitchImplementsArbiter
