\* No symmetry: the counterexample is to be read.
SPECIFICATION Spec
CONSTANTS
  x = x
  y = y
  r1 = r1
  r2 = r2
  r3 = r3
  TwoStep = FALSE
  Payloads = {x, y}
  Replicas = {r1, r2, r3}
  Proposers = {r1, r2}
  Quorums <- TwoOfThree
  Blocks <- ThreeStepTree
INVARIANT ProposesAboveVheight
CHECK_DEADLOCK FALSE
