\* The build without generalized quorums; the end of a run is a quorum.
SPECIFICATION Spec
CONSTANTS
  Replicas = {1, 2, 3, 4, 5, 6}
  P = 101
  Confs <- ThresholdBuild
  Coins <- SomeCoins
INVARIANT ValidIffQuorum
CHECK_DEADLOCK FALSE
