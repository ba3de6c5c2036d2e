\* A sale that fails its request stands before the sale of another outlet.
CHECK_DEADLOCK FALSE
SPECIFICATION RetrySpec
CONSTANTS
  plain = plain
  bill = bill
  shop = shop
  kiosk = kiosk
  Sales = {plain, bill}
  Payments <- MCPayments
  Split <- MCSplit
  Printed <- MCPrinted
  Numbers = {1}
  MaxPayments = 2
  Tabs = {t1}
  Outlets = {shop, kiosk}
  OutletOf <- MCTwoOutlets
  Closable = {}
  BatchSize = 2
  InitialRefusal <- PlainFailsBatch
  Repairable = {}
  StoresOutcomes = TRUE
PROPERTIES
  HealthySaleBooked
