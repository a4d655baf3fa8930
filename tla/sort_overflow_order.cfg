\* Argument values at the ends of int: an overflowing comparator misorders.
CONSTANTS
  INT_BITS = 3
  Inputs <- MCInputsEdge
SPECIFICATION Spec
INVARIANT PrintedIsOrdered
CHECK_DEADLOCK FALSE
