CONSTANTS
  Attempts = 4
  Size = 2
  Prompt = TRUE
  None = None
SPECIFICATION FairSpec
INVARIANTS WholeFiles
PROPERTIES UploadEnds
CHECK_DEADLOCK FALSE
