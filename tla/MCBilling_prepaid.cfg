\* Three invoices of a tenant without outlets: a plan is bought, renewed and
\* changed.
CHECK_DEADLOCK FALSE
SPECIFICATION Spec
CONSTANTS
  trial = trial
  small = small
  large = large
  o1 = o1
  o2 = o2
  k1 = k1
  k2 = k2
  k3 = k3
  Offers = {small, large}
  Trial = trial
  Capacity <- MCCapacity
  Length <- MCLength
  Price <- MCPrice
  Outlets = {}
  NoOutlet = NoOutlet
  Keys = {k1, k2, k3}
  MaxTime = 0
  MaxRevision = 0
PROPERTIES
  PrepaidKept
