\* Three proposers on one branch, whose last block does not verify; a message
\* may get lost, a replica may restart.
SPECIFICATION Spec
CONSTANTS
  x = x
  r1 = r1
  r2 = r2
  r3 = r3
  TwoStep = FALSE
  Payloads = {x}
  Replicas = {r1, r2, r3}
  Blocks <- OneBranch
  Author <- ProposerOf
  Invalid <- LastInvalid
  MaxLosses = 1
  MaxRestarts = 1
INVARIANTS IInv ParentsFirst InvalidStaysOut WaitsAreBacked AskedHasIt
PROPERTIES DeliveryEnds ImplementsFeed
CHECK_DEADLOCK FALSE
