\* Concurrent handlers on one order, with crashes and failing calls.
CONSTANTS
  Requests = {r1, r2, r3, r4, r5}
  None = None
SPECIFICATION Spec
SYMMETRY RequestSymmetry
\* Each request is submitted once: the system stops when all are answered.
CHECK_DEADLOCK FALSE
INVARIANTS
  TypeOK
  StagesInOrder
  AuditIsChain
  InvoiceFollowsCompletion
PROPERTIES
  InvoicePermanent
  ImplementsOrderMachine
