\* Two tasks and one objective under one action id; one plan run up to twice; two
\* conversations of two exchanges each and one note; two situations over one event each; two
\* orders in two branches.
CONSTANTS
  None = None
  ActionIds = {a1}
  Tasks = {k1, k2}
  Plans = {p1}
  Objectives = {o1}
  ExtraTools <- MCExtraTools
  MaxPlanRuns = 2
  Conversations = {c1, c2}
  MaxMessages = 4
  MaxNotes = 1
  MaxEvents = 1
  MaxSituations = 2
  MaxFiled = 1
  MaxTime = 1
  Branches = {b1, b2}
  MaxOrders = 2
SPECIFICATION MCSpec
SYMMETRY Symmetry
\* The counters end.
CHECK_DEADLOCK FALSE
INVARIANTS
  AgentInv
  OfficeInv
  
