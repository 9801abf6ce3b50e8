\* one monitor, one failed request
SPECIFICATION FairSpec
CONSTANTS
  m1 = m1  m2 = m2
  Monitors = {m1}
  IdleWindow = 3
  ResumeSetting = 6
  CycleTime = 1
  Horizon = 7
  Autoscaled = TRUE
  MaxChanges = 0
  MaxFaults = 1
PROPERTY RestorationComes
