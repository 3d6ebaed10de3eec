CONSTANTS
  Writers = {w1, w2}
  Readers = {r}
  Updaters = {}
  Sharing = TRUE
SPECIFICATION Spec
INVARIANT OneHolder
