\* A formula with as many members as the modulus, as 101 where there are no BLS
\* signatures, on a small scale.
SPECIFICATION Spec
CONSTANTS
  Replicas = {1, 2, 3, 4, 5}
  P = 5
  Confs <- MajorityOfFive
  Coins <- FewCoins
INVARIANT CertIffQuorum
CHECK_DEADLOCK FALSE
