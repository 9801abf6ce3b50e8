\* two workers, two commits, one deploy by hand, two faults
SPECIFICATION FairSpec
CONSTANTS
  w1 = w1  w2 = w2
  Workers = {w1, w2}
  Nobody = Nobody
  MaxCommit = 2
  LeaseTTL = 2
  CycleTime = 1
  Cooldown = 1
  RecentTTL = 2
  MaxManual = 1
  MaxFaults = 2
INVARIANTS TypeOK AloneInCycle OnceByMonitors
PROPERTIES NeverBackwards TipGetsDeployed
