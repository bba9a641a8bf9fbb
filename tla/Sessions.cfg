\* Two browsers and two handlers of one account, deactivated and logged out.
CONSTANTS
  Devices = {d1, d2}
  Handlers = {h1, h2}
  AccessLife = 1
  RevocationTTL = 2
  DefaultTTL = 3
  MaxClock = 2
  MaxPairs = 3
  MaxRequests = 3
\* The bounds on time, tokens and requests end every behaviour.
CHECK_DEADLOCK FALSE
SPECIFICATION Spec
SYMMETRY SessionSymmetry
INVARIANTS
  SessionsInv
  DeactivatedCannotAct
  OwnerOpensStaffRoutes
