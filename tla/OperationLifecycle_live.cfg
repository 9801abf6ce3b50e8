\* liveness: two workers, one operation the curator may settle, one fault; verdicts
\* are taken from the owner of the claim only
SPECIFICATION FairSpec
CONSTANTS
  w1 = w1  w2 = w2  o1 = o1  o2 = o2
  Workers = {w1, w2}
  Ops = {o1}
  NoWorker = NoWorker
  NoOp = NoOp
  Compatible <- MCTags
  Curated = {o1}
  Retryable = {o1}
  MaxAttempts = 2
  PollLimit = 2
  OwnerOnlyVerdict = TRUE
  MaxFaults = 1
PROPERTIES EveryOperationSettles
