\* Two tabs flush the same outbox while the split bill is refused.
CHECK_DEADLOCK FALSE
SPECIFICATION Spec
CONSTANTS
  plain = plain
  bill = bill
  shop = shop
  kiosk = kiosk
  Sales = {bill}
  Payments <- MCPayments
  Split <- MCSplit
  Printed <- MCPrinted
  Numbers = {1}
  MaxPayments = 2
  Tabs = {t1, t2}
  Outlets = {shop, kiosk}
  OutletOf <- MCOneOutlet
  Closable = {}
  BatchSize = 2
  InitialRefusal <- BillRefused
  Repairable = {bill}
  StoresOutcomes = TRUE
INVARIANTS
  NeverLost
