CONSTANTS
  Names = {a, b}
  Keys = {k}
  Chats = {x, y}
  Tokens = {t}
  Clients = {c1, c2}
  MaxAnswers = 1
  Online = TRUE
  None = None
SPECIFICATION Spec
SYMMETRY Interchangeable
PROPERTY MissingRefused
