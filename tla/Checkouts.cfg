\* Overlapping checkouts of every kind beside table deletion and staff changes
\* (a liveness property, hence no symmetry).
CONSTANTS
  None = None
  Requests = {r1, r2}
  Code = "SAVE"
  TaxPercent = 7
  Discount <- FixedOff
  Dtos <- MixedDtos
  Tables <- MCTables
  BranchOf <- MCBranchOf
  BasePrice <- MCBasePrice
  VariantPrice <- MCVariantPrice
  SizeAdjust <- MCSizeAdjust
  AddonPrice <- MCAddonPrice
  Stock <- MCStock
SPECIFICATION FairSpec
INVARIANTS
  CheckoutInv
  UsageCountsOrders
  PricesMatchReference
PROPERTIES
  CheckoutsFinish
