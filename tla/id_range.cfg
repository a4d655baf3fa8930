\* get, set and delete with an id outside the table never succeed (spec 4.1, 8).
CONSTANTS
  MAX_ROWS = 2
  MAX_DATA = 2
  Chars = {1, 2}
  Names <- MCNames
  Emails <- MCEmails
  FindNames <- MCFindNames
  Ids <- MCIdsWide
  Faults = FALSE
  NoFile = NoFile
  Uninit = Uninit
  Garbage = Garbage
  NotSet = NotSet
  NotFound = NotFound
  NoOutput = NoOutput
  Empty = Empty
  NoStore = NoStore
SPECIFICATION Spec
INVARIANT OutOfRangeRejected
