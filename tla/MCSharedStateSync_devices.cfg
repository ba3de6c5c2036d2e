\* Two devices change the same product; one loses requests and is reloaded.  The
\* plan turns read-only and back, outlets open and close, and c is unfit.
CHECK_DEADLOCK FALSE
SPECIFICATION FairSpec
CONSTANTS
  product = product
  table = table
  d1 = d1
  d2 = d2
  Devices = {d1, d2}
  Records = {product}
  Values = {a, b, c}
  NoValue = NoValue
  Guarded <- MCGuarded
  Unfit = {c}
  MaxEvents <- Lively
INVARIANTS
  TypeOK
  CopiesTrue
PROPERTIES
  NoBlindOverwrite
  DropsOnlyTaken
  RegisterPromise
  EditSettles
