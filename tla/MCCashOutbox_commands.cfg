\* Two tabs flush the same queue of two refunds and a cash-in; a request or an
\* answer is lost; the outlet may be closed for a time and the PIN be rotated.
CHECK_DEADLOCK FALSE
SPECIFICATION Spec
CONSTANTS
  sale = sale
  Sales = {sale}
  Units = 2
  Price = 2
  Discount = 1
  Tax = 1
  Service = 0
  CashPaid <- MCHalfCash
  Refunds = {r1, r2}
  CashIns = {c1}
  Calls = {}
  Tabs = {t1, t2}
  Budget <- MCNetworkAndOwner
SYMMETRY Symmetry
INVARIANTS
  TypeOK
  BookedOnce
  ScreenTrue
  KeptUntilBooked
  RefundsWithinSale
  RefundsAddUp
PROPERTIES
  OriginalNeverOverdraws
