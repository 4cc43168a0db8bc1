\* The round-robin pacemaker rotates without a timer.
SPECIFICATION Spec
CONSTANTS
  c1 = c1
  c2 = c2
  c3 = c3
  c4 = c4
  c5 = c5
  NReplicas = 3
  Self = 2
  Kinds = {"rr"}
  Cmds = {c1, c2}
  BlkSize = 1
  TwoStep = FALSE
  MaxBlocks = 6
  MaxUnheard = 1
SYMMETRY Symm
INVARIANT RotationTimed
CHECK_DEADLOCK FALSE
