\* Kills, fopen/fwrite/fflush failures and out-of-range ids: the fields of every row stay within width and NUL-terminated.
CONSTANTS
  MAX_ROWS = 1
  MAX_DATA = 2
  Chars = {1, 2}
  Names <- MCNames
  Emails <- MCEmails
  FindNames <- MCFindNamesWithEmpty
  Ids <- MCIdsWide
  Faults = TRUE
  NoFile = NoFile
  Uninit = Uninit
  Garbage = Garbage
  NotSet = NotSet
  NotFound = NotFound
  NoOutput = NoOutput
  Empty = Empty
  NoStore = NoStore
SPECIFICATION Spec
INVARIANT TypeOK
INVARIANT FieldsTerminated
