\* Concurrent removals, grants, creations and activations keep an owner, and nobody
\* waits for the advisory lock forever.
CONSTANTS
  None = None
  Users = {u1, u2, u3}
  Accounts = {u1, u2}
  Requests = {r1, r2, r3}
  Operations = {"create", "grant", "activate", "demote", "deactivate", "delete"}
\* Each request is submitted once.
CHECK_DEADLOCK FALSE
SPECIFICATION StaffFairSpec
INVARIANTS
  StaffInv
PROPERTIES
  StaffRequestsFinish
