\* Two jobs with two attempts each, two copies per webhook; two devices of two users.
CONSTANTS
  Jobs = {j1, j2}
  MaxAttempts = 2
  MaxSends = 2
  Tokens = {k1, k2}
  Users = {u1, u2}
  Requests = {r1, r2}
  MaxRows = 3
SPECIFICATION MCSpec
\* Everything dispatched, sent and removed is an end.
CHECK_DEADLOCK FALSE
INVARIANTS
  DispatchInv
  PushInv
PROPERTIES
  QueuedJobsAreTried
