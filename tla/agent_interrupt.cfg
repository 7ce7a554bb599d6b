SPECIFICATION Spec
CONSTANTS
  Indices = {1}
  MaxLen = 1
  Costs = {1}
  Budget = 2
PROPERTY InterruptHolds
CHECK_DEADLOCK FALSE
