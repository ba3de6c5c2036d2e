\* One tab with stored outcomes: the stored rejection is replayed.
CHECK_DEADLOCK FALSE
SPECIFICATION RetrySpec
CONSTANTS
  plain = plain
  bill = bill
  shop = shop
  kiosk = kiosk
  Sales = {bill}
  Payments <- MCPayments
  Split <- MCSplit
  Printed <- MCPrinted
  Numbers = {1}
  MaxPayments = 2
  Tabs = {t1}
  Outlets = {shop, kiosk}
  OutletOf <- MCOneOutlet
  Closable = {}
  BatchSize = 2
  InitialRefusal <- BillRefused
  Repairable = {bill}
  StoresOutcomes = TRUE
PROPERTIES
  HealthySaleBooked
