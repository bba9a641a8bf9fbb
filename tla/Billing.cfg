\* Deliveries repeat, overlap and come in any order; Redis, the database and the
\* processes fail.
CONSTANTS
  s1 = s1
  s2 = s2
  c1 = c1
  c2 = c2
  None = None
  Deliveries = {d1, d2, d3}
  Events <- TwoCheckouts
  Subscriptions = {s1, s2}
  Customers = {c1, c2}
  Context = "platform"
  Faults = TRUE
SPECIFICATION Spec
SYMMETRY DeliverySymmetry
INVARIANTS
  BillingInv
  EventProcessedOnce
PROPERTIES
  StripeIdsPermanent
