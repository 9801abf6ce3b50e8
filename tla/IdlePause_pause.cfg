\* two monitors, one deploy or scaling, one failed request
SPECIFICATION FairSpec
CONSTANTS
  m1 = m1  m2 = m2
  Monitors = {m1, m2}
  IdleWindow = 3
  ResumeSetting = 6
  CycleTime = 1
  Horizon = 7
  Autoscaled = TRUE
  MaxChanges = 1
  MaxFaults = 1
INVARIANT TypeOK
PROPERTIES PausesAreEarned ResumedByNewRequests RequestsWake
