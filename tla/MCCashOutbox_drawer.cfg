\* Two direct calls beside a queued refund and a cash-in: a void or a reversal
\* asked for twice; a request or an answer is lost, an approval expires.
CHECK_DEADLOCK FALSE
SPECIFICATION FairSpec
CONSTANTS
  sale = sale
  Sales = {sale}
  Units = 1
  Price = 2
  Discount = 1
  Tax = 1
  Service = 0
  CashPaid <- MCHalfCashOfOne
  Refunds = {r1}
  CashIns = {c1}
  Calls = {d1, d2}
  Tabs = {t1}
  Budget <- MCNetworkAndExpiry
INVARIANTS
  BookedOnce
  VoidSettlesDrawer
  AuditMatchesBooks
PROPERTIES
  QueueDrains
  CashPromise
