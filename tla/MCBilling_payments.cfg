\* Two invoices, while plan and outlets change.
CHECK_DEADLOCK FALSE
SPECIFICATION Spec
CONSTANTS
  trial = trial
  small = small
  large = large
  o1 = o1
  o2 = o2
  k1 = k1
  k2 = k2
  k3 = k3
  Offers = {small, large}
  Trial = trial
  Capacity <- MCCapacity
  Length <- MCLength
  Price <- MCPrice
  Outlets = {o1, o2}
  NoOutlet = NoOutlet
  Keys = {k1, k2}
  MaxTime = 1
  MaxRevision = 1
SYMMETRY Symmetry
INVARIANTS
  TypeOK
  PaidApart
  PaymentsAccounted
  PeriodBacked
  PaidOutletsCovered
PROPERTIES
  PaidTimeKept
  PlanPromise
