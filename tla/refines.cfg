\* Fault-free invocations with in-range ids: AddressDB implements AddressStore.
CONSTANTS
  MAX_ROWS = 2
  MAX_DATA = 2
  Chars = {1, 2}
  Names <- MCNames
  Emails <- MCEmails
  FindNames <- MCFindNames
  Ids <- MCIds
  Faults = FALSE
  NoFile = NoFile
  Uninit = Uninit
  Garbage = Garbage
  NotSet = NotSet
  NotFound = NotFound
  NoOutput = NoOutput
  Empty = Empty
  NoStore = NoStore
SPECIFICATION Spec
INVARIANT UnsetCleared
PROPERTY AddressStoreSpec
