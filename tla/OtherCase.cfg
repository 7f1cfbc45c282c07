CONSTANTS
  Fold <- CaseBlind
  Files <- Flat
  Contents = {v1, v2}
  Clients = {c1}
  MaxRows = 4
  MaxRecursive = 4
  Upwards = FALSE
  None = None
SPECIFICATION Spec
PROPERTIES DeleteStaysBelow
