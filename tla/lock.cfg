CONSTANTS
  Writers = {w1, w2, w3}
  Readers = {r}
  Updaters = {u}
  Sharing = FALSE
  FileNames = {a, b}
  FirstName = a
  Xattrs = {"User.x"}
  Canonical = {"User.x"}
  RenameRaces = FALSE
SPECIFICATION FileFairSpec
INVARIANTS LockInvariant OneHolder NeverFatal UpdateAfterUpload FileInvariant ClosedIsStored AttributesStored
PROPERTY Served
