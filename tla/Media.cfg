\* Two uploads and a removal beside the cleanup queue; transactions
\* conflict, storage fails, the extension refuses.
CONSTANTS
  None = None
  Uploads = {u1, u2}
  Removals = {r1}
  Slots = {burger, pizza}
  Contents = {red, blue}
  Scopes <- AnyScope
  MaxTries = 2
  MaxRetries = 2
SPECIFICATION Spec
SYMMETRY Symmetry
INVARIANTS
  MediaInv
  NoOrphanedFiles
  NoJobForgotten
