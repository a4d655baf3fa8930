\* The single-process programs, each from every input of its bound.
CONSTANTS
  NULL = NULL
  Garbage = Garbage
  NoFile = NoFile
  c1 = c1
  c2 = c2
  JoeName = JoeName
  FrankName = FrankName
  NullText = NullText
  NoStack = NoStack
  NoOutput = NoOutput
  sv1 = sv1
  sv2 = sv2
SPECIFICATION Spec
INVARIANT SortTypeOK
INVARIANT SortPrintedIsPermutation
INVARIANT SortOrderedUnlessOverflow
PROPERTY SortTerminates
INVARIANT ListTypeOK
INVARIANT ListBuiltByPrepending
INVARIANT TokensTypeOK
INVARIANT TokensAreWords
INVARIANT BackupIsPrefix
INVARIANT CopyCompleteOnExit0
INVARIANT TableCoversXToLarger
PROPERTY TableEndsBelowIntMax
INVARIANT VowelsTypeOK
INVARIANT ReportsMatchArgument
INVARIANT LinesAreLettersOfArgs
INVARIANT WritesStayInBuffers
INVARIANT DStrIsPrefixOfStr
INVARIANT CharsFolded
INVARIANT NamesFitTheirBlocks
INVARIANT MinimumIsLeast
INVARIANT ElementsAgree
INVARIANT WalksAgree
INVARIANT CopyIsSource
INVARIANT WritesReachCaller
INVARIANT StackTypeOK
INVARIANT HeapExact
PROPERTY LifoStackSpec
CHECK_DEADLOCK FALSE
