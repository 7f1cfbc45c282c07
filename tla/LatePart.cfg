CONSTANTS
  Clients = {c1, c2}
  Keys = {1}
  Snapshots <- Reconfigured
  Files = {f1, f2}
  Attempts = 4
  Uploads = {u1}
  PartNumbers = {1}
  MaxMultipart = 1
  Times = {0}
  ClockForward = FALSE
  MaxCrashes = 0
  None = None
SPECIFICATION Spec
PROPERTIES FailedPartLogged
