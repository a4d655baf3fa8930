\* structs.c pointers(): print_student of a half-initialised student.
CONSTANTS
  Addrs <- MCAddrs
  NULL = NULL
  Garbage = Garbage
SPECIFICATION Spec
INVARIANT PrintsOnlyWrittenFields
CHECK_DEADLOCK FALSE
