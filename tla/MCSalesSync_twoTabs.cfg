\* Two tabs flush the same outbox, one row per request, no stored outcomes;
\* one split bill.
CHECK_DEADLOCK FALSE
SPECIFICATION RetrySpec
CONSTANTS
  plain = plain
  bill = bill
  shop = shop
  kiosk = kiosk
  Sales = {bill}
  Payments <- MCPayments
  Split <- MCSplit
  Printed <- MCPrinted
  Numbers = {1}
  MaxPayments = 2
  Tabs = {t1, t2}
  Outlets = {shop, kiosk}
  OutletOf <- MCOneOutlet
  Closable = {}
  BatchSize = 1
  InitialRefusal <- BillRefused
  Repairable = {bill}
  StoresOutcomes = FALSE
INVARIANTS
  SaleKept
PROPERTIES
  LedgerPromise
  QueueDrains
  HealthySaleBooked
