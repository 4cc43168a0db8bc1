\* The round-robin pacemaker loses a beat.
SPECIFICATION Spec
CONSTANTS
  c1 = c1
  c2 = c2
  c3 = c3
  c4 = c4
  c5 = c5
  NReplicas = 2
  Self = 0
  Kinds = {"rr"}
  Cmds = {c1, c2, c3, c4, c5}
  BlkSize = 1
  TwoStep = FALSE
  MaxBlocks = 5
  MaxUnheard = 1
SYMMETRY Symm
INVARIANT BeatKept
CHECK_DEADLOCK FALSE
