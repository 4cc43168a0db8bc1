\* The end of a run is a quorum.
SPECIFICATION Spec
CONSTANTS
  Replicas = {1, 2, 3, 4, 5, 6}
  P = 101
  Confs <- BothBuilds
  Coins <- SomeCoins
INVARIANTS QuorumIsConf CertIffQuorum CertVerifies FactorsMultiply
CHECK_DEADLOCK FALSE
