CONSTANTS
  MaxSize = 2
  MaxChunks = 3
  MaxVersions = 2
  None = None
SPECIFICATION Spec
INVARIANTS RightBytes LengthKept
