\* One attribute line over every object type and permission triple; xattr
\* files of up to 3 lines, with a 3-bit cleanup index (2^3 > 3 lines); paths
\* up to 5 characters and filter files of up to two lines of 2 characters.
\* The run stops where the builder dies of SIGABRT in the cleanup loop.
CONSTANTS
  PathChars <- MCPathChars
  LineChars <- MCLineChars
  MaxPathLen = 5
  MaxLineLen = 2
  MaxLines = 2
  TagKeys <- MCTagKeys
  OidTexts <- MCOidTexts
  MaxXLines = 3
  Width = 3
SPECIFICATION ParseSpec
CHECK_DEADLOCK FALSE

INVARIANT ExtensionIsLastSuffix
INVARIANT StModeIsPosix
INVARIANT CollectAllOrNothing
INVARIANT WellFormedAccepted
