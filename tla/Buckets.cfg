CONSTANTS
  Names = {a, b, d}
  Keys = {k}
  Chats = {x, y}
  Tokens = {t}
  Clients = {c1, c2}
  MaxAnswers = 2
  Online = FALSE
  None = None
SPECIFICATION Spec
SYMMETRY Interchangeable
INVARIANTS IInv ServedExist RowsHaveBucket ClicksCounted
PROPERTIES OnlyOrphansRemoved LinksConfined
