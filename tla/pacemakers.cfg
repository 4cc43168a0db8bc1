\* Both pacemakers.
SPECIFICATION FairSpec
CONSTANTS
  c1 = c1
  c2 = c2
  c3 = c3
  c4 = c4
  c5 = c5
  NReplicas = 2
  Self = 0
  Kinds = {"dummy", "rr"}
  Cmds = {c1, c2, c3}
  BlkSize = 1
  TwoStep = TRUE
  MaxBlocks = 4
  MaxUnheard = 1
INVARIANTS IInv LockHasBeat QcBeforeBeat OneManualChain EachOnce
PROPERTIES SettlesOnNewBlock InOrder EventuallyProposed
CHECK_DEADLOCK FALSE
