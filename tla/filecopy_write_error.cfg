\* file_example() when writes to /tmp/1.bak can fail.
CONSTANTS
  c1 = c1
  c2 = c2
  Contents <- MCContents
  BUF_SIZE = 2
  NoFile = NoFile
  WriteErrors = TRUE
SPECIFICATION Spec
INVARIANT CopyCompleteOnExit0
CHECK_DEADLOCK FALSE
