SPECIFICATION FairSpec
CONSTANTS
  Logger = Logger
  Main = Main
  Clients <- MCClients
  NoClient = NoClient
  NoToken = NoToken
  Lifetime = 3
  Skew = 2
  Timeout = 1
  MaxFaults = 2
  MaxLines = 2
  MaxBatch = 2
  Attempts = 2
INVARIANTS TypeOK ExpiryNeverRefuses NoLineTwice CompleteBelowAttempts
PROPERTIES OrderedLogSpec HeartbeatsGetThrough
