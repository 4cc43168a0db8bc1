\* Two proposers on a tree in which both branches can commit.
SPECIFICATION Spec
CONSTANTS
  x = x
  y = y
  r1 = r1
  r2 = r2
  r3 = r3
  TwoStep = FALSE
  Payloads = {x, y}
  Replicas = {r1, r2, r3}
  Proposers = {r1, r2}
  Quorums <- TwoOfThree
  Blocks <- ThreeStepTree
SYMMETRY Symm2
INVARIANTS CoreInv HqcCertified NoEquivocation TailFollowsHqc TailsAreLeaves
INVARIANTS NoSafetyBreach DecisionIsBranch HqcAboveLock
PROPERTIES ImplementsVoting ImplementsFeed ImplementsLedger
CHECK_DEADLOCK FALSE
