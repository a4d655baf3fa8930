\* find only ever reports an occupied slot (spec 4.1).
CONSTANTS
  MAX_ROWS = 2
  MAX_DATA = 2
  Chars = {1, 2}
  Names <- MCNames
  Emails <- MCEmails
  FindNames <- MCFindNamesWithEmpty
  Ids <- MCIds
  Faults = FALSE
  NoFile = NoFile
  Uninit = Uninit
  Garbage = Garbage
  NotSet = NotSet
  NotFound = NotFound
  NoOutput = NoOutput
  Empty = Empty
  NoStore = NoStore
SPECIFICATION Spec
INVARIANT FindReturnsOccupied
