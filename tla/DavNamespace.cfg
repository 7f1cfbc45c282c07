CONSTANTS
  Fold <- ExactCase
  Files <- Nested
  Contents = {v1, v2}
  Clients = {c1}
  MaxRows = 3
  MaxRecursive = 3
  Upwards = FALSE
  None = None
SPECIFICATION Spec
INVARIANTS IInv RowsWhole
PROPERTIES TreeSpec OverwriteForbidden
