\* A quorum is r1 with one of the others, of which r3 has lost its vheight and
\* lock in a restart.
SPECIFICATION Spec
CONSTANTS
  x = x
  y = y
  r1 = r1
  r2 = r2
  r3 = r3
  TwoStep = TRUE
  Payloads = {x, y}
  Replicas = {r1, r2, r3}
  Faulty = {r3}
  Quorums <- HubAndOne
  Blocks <- Overtaking
INVARIANTS IInv Agreement UniqueCertificate DecisionIsFinal
PROPERTIES ImplementsLedger
CHECK_DEADLOCK FALSE
