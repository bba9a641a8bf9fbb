\* A plan of one branch and two products; two rows of every kind (three customers),
\* of which one is there at the start; two requests at a time, three in all (two
\* with the operator), two forms.
CONSTANTS
  None = None
  Blank = Blank
  b1 = b1
  t1 = t1
  c1 = c1
  p1 = p1
  u1 = u1
  k1 = k1
  Branches = {b1, b2}
  Tables = {t1, t2}
  Categories = {c1, c2}
  Products = {p1, p2}
  Customers = {u1, u2, u3}
  Keys = {k1, k2, k3}
  MaxBranches = 1
  MaxProducts = 2
  Requests = {r1, r2}
  MaxRequests = 3
  MaxScreenRequests = 2
  MaxTime = 1
  MaxForms = 2
  MaxListed = 1
  SeedRows <- MCSeedRows
SPECIFICATION MCSpec
SYMMETRY Symmetry
\* The requests and the forms end.
CHECK_DEADLOCK FALSE
INVARIANTS
  CatalogInv
  ScreensInv
PROPERTIES
  TombstonesStay
  FormHearsItsOwnAnswer
