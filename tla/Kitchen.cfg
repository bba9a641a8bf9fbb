\* Item updates, overlapping or not, beside racing polls.
CONSTANTS
  Unset = Unset
  Items = {i1, i2}
  Updates = {r1, r2, r3}
  Polls = {p1, p2}
  PrepTime = 0
  MaxTime = 1
SPECIFICATION TicketSpec
SYMMETRY Symmetry
\* Updates and ticks are bounded.
CHECK_DEADLOCK FALSE
INVARIANTS
  TicketInv
PROPERTIES
  TimesAreStable
