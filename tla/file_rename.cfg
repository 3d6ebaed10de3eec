CONSTANTS
  Writers = {w}
  Readers = {}
  Updaters = {}
  Sharing = FALSE
  FileNames = {a, b}
  FirstName = a
  Xattrs = {"User.x"}
  Canonical = {"User.x"}
  RenameRaces = TRUE
SPECIFICATION FileSpec
INVARIANT ClosedIsStored
CHECK_DEADLOCK FALSE
