\* The client is killed and run again while its commands are on their way.
SPECIFICATION RestartSpec
CONSTANTS
  r1 = r1
  r2 = r2
  r3 = r3
  r4 = r4
  Replicas = {r1, r2, r3, r4}
  Down = {r4}
  Proposer = r1
  nfaulty = 1
  TwoStep = TRUE
  blk_size = 1
  max_async_num = 3
  Total = 4
  MaxRestarts = 1
INVARIANT ConfirmedIsExecuted
CHECK_DEADLOCK FALSE
