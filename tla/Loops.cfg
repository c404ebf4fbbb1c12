SPECIFICATION FairSpec

CONSTANTS
  l1 = l1
  l2 = l2
  c1 = c1
  c2 = c2
  Loops = {l1, l2}
  Calls = {c1, c2}
  None = None
  MaxIterations <- MCMaxIterations
  MaxExtend = 1
  MaxLimit = 2
  Plans <- MCPlans
  MaxRetries = 2
  MaxConsecutiveFailures = 2
  MaxConcurrent <- MCMaxConcurrent
  RequiredPasses = 2
  Seeded <- MCSeeded
  Verifies <- MCVerifies
  Extends <- MCExtends
  FailFast <- MCFailFast

INVARIANTS
  TypeOK
  WorkIsAwaited

PROPERTIES
  RunsWhatWasApproved
  FailuresRunOut
  LoopEnds

CHECK_DEADLOCK FALSE
