\* The answer to a flush arrives after the snapshot of a later poll.
CHECK_DEADLOCK FALSE
SPECIFICATION FairSpec
CONSTANTS
  product = product
  table = table
  d1 = d1
  d2 = d2
  Devices = {d1, d2}
  Records = {table}
  Values = {a, b}
  NoValue = NoValue
  Guarded <- MCGuarded
  Unfit = {}
  MaxEvents <- Quiet
PROPERTIES
  Converges
