\* one worker, one operation, no fault at all
SPECIFICATION Spec
CONSTANTS
  w1 = w1  w2 = w2  o1 = o1  o2 = o2
  Workers = {w1}
  Ops = {o1}
  NoWorker = NoWorker
  NoOp = NoOp
  Compatible <- MCTags
  Curated = {}
  Retryable = {o1}
  MaxAttempts = 2
  PollLimit = 2
  OwnerOnlyVerdict = FALSE
  MaxFaults = 0
INVARIANTS SingleExecution
