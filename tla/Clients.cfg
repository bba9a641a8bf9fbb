\* Two sales, a cart of one item, two runs of the worker; two displays of two tenants,
\* two orders; two additions and two submissions of a guest; two onboardings, and
\* two updates of two tenants.
CONSTANTS
  None = None
  s1 = s1
  s2 = s2
  b1 = b1
  b2 = b2
  t1 = t1
  t2 = t2
  d1 = d1
  d2 = d2
  o1 = o1
  o2 = o2
  m1 = m1
  m2 = m2
  m3 = m3
  z1 = z1
  v1 = v1
  g1 = g1
  g2 = g2
  g3 = g3
  a1 = a1
  a2 = a2
  a3 = a3
  a4 = a4
  a5 = a5
  a6 = a6
  Sales = {s1, s2}
  Syncs = {y1, y2}
  MaxCart = 1
  MaxAsked = 1
  MaxTimers = 1
  Screens = {d1, d2}
  Branches = {b1, b2}
  Orders = {o1, o2}
  TenantOf <- MCTenantOf
  TokenTenant <- MCTokenTenant
  ScreenBranch <- MCScreenBranch
  OrderBranch <- MCOrderBranch
  MaxWire = 2
  MaxUnsaid = 2
  MenuItems = {m1, m2, m3}
  SizesOf <- MCSizesOf
  VariantsOf <- MCVariantsOf
  GroupsOf <- MCGroupsOf
  OptionsOf <- MCOptionsOf
  MaxSelections <- MCMaxSelections
  BasePrice <- MCBasePrice
  VariantPrice <- MCVariantPrice
  SizeAdjust <- MCSizeAdjust
  AddonPrice <- MCAddonPrice
  PriceRise = 50
  Discount = None
  TaxPercent = 0
  MaxQuantity = 2
  MaxAdditions = 2
  MaxSubmissions = 2
  Requests = {r1, r2}
  Settled = {w1, w2}
  Subdomains = {u1, u2}
  Emails = {e1, e2}
  Permissions = {p1, p2}
  WizardSub = u1
  WizardMail = e1
  Domains = {n1}
  BrandingKeys = {k1, k2}
SPECIFICATION MCSpec
\* The sales, orders, submissions and requests end.
CHECK_DEADLOCK FALSE
INVARIANTS
  CashierInv
  DisplayInv
  GuestInv
  OnboardingInv
PROPERTIES
  PendingIsTried
