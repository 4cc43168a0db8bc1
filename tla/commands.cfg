\* Four replicas, one of them down; a window that just fills the pipeline.
SPECIFICATION Spec
CONSTANTS
  r1 = r1
  r2 = r2
  r3 = r3
  r4 = r4
  Replicas = {r1, r2, r3, r4}
  Down = {r4}
  Proposer = r1
  nfaulty = 1
  TwoStep = FALSE
  blk_size = 2
  max_async_num = 8
  Total = 9
  MaxRestarts = 0
INVARIANTS IInv ConfirmedIsExecuted AnsweredOnce
PROPERTIES CommandsAreConfirmed ImplementsService
CHECK_DEADLOCK FALSE
