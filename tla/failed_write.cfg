\* A failed or killed invocation leaves the stored table as it found it, or with its whole effect (spec sections 3 and 7).
CONSTANTS
  MAX_ROWS = 2
  MAX_DATA = 2
  Chars = {1, 2}
  Names <- MCNames
  Emails <- MCEmails
  FindNames <- MCFindNames
  Ids <- MCIds
  Faults = TRUE
  NoFile = NoFile
  Uninit = Uninit
  Garbage = Garbage
  NotSet = NotSet
  NotFound = NotFound
  NoOutput = NoOutput
  Empty = Empty
  NoStore = NoStore
SPECIFICATION Spec
INVARIANT FailedCommandAllOrNothing
