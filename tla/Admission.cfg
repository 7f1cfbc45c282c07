CONSTANTS
  Writers = {r1, r2}
  Readers = {r2, r3}
  Keys = {k1}
  Limits <- MCLimits
  MaxChunks = 2
  Attempts = 2
  None = None
SPECIFICATION FairSpec
INVARIANTS IInv CallsLimited
PROPERTIES WritesReturn DepartedReturn AllReturn
