\* functions2.c with a 4-bit int: y = INT_MAX keeps print_table looping.
CONSTANTS
  INT_BITS = 4
  ROW_CAP = 17
SPECIFICATION Spec
PROPERTY Terminates
CHECK_DEADLOCK FALSE
