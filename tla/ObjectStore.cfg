CONSTANTS
  Clients = {c1, c2}
  Keys = {1, 2}
  Snapshots <- Reconfigured
  Files = {f1, f2}
  Attempts = 4
  Uploads = {u1, u2}
  PartNumbers = {1, 2}
  MaxMultipart = 1
  Times = {1, 2}
  ClockForward = TRUE
  MaxCrashes = 1
  None = None
SPECIFICATION Spec
SYMMETRY Interchangeable
INVARIANTS IInv FilesOfKey NoUntrackedFile SessionsBounded
PROPERTIES OnlyServedChange NewUploadUsable AtomicSpec
