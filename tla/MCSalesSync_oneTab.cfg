\* One tab; the split bill is refused and the plain sale fails its whole batch
\* until they are repaired; the outlet is closed and reopened.
CHECK_DEADLOCK FALSE
SPECIFICATION Spec
CONSTANTS
  plain = plain
  bill = bill
  shop = shop
  kiosk = kiosk
  Sales = {plain, bill}
  Payments <- MCPayments
  Split <- MCSplit
  Printed <- MCPrinted
  Numbers = {1}
  MaxPayments = 2
  Tabs = {t1}
  Outlets = {shop, kiosk}
  OutletOf <- MCOneOutlet
  Closable = {shop}
  BatchSize = 2
  InitialRefusal <- MixedRefusal
  Repairable = {plain, bill}
  StoresOutcomes = TRUE
INVARIANTS
  TypeOK
  NeverLost
  BookedOnce
  ReceiptsTrue
PROPERTIES
  DropsOnlyConfirmed
  VoidIsFinal
  LedgerPromise
