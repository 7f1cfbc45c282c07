CONSTANTS
  Fold <- ExactCase
  Files <- Repeated
  Contents = {v1, v2}
  Clients = {c1}
  MaxRows = 4
  MaxRecursive = 4
  Upwards = TRUE
  None = None
SPECIFICATION Spec
PROPERTIES MoveArrives
