\* ex16_2.c: a failed strdup leaves a person without a name.
CONSTANTS
  JoeName = JoeName
  FrankName = FrankName
  NULL = NULL
  NullText = NullText
SPECIFICATION Spec
INVARIANT PrintsNamesGiven
CHECK_DEADLOCK FALSE
