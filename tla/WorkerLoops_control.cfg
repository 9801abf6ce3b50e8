SPECIFICATION Spec
CONSTANTS
  consumer = consumer
  poller = poller
  Getters <- MCGetters
  TTL = 2
  FetchTimeout = 2
  MaxInventory = 2
INVARIANTS TypeOK UnchangedIsTrue
PROPERTY ControlIsRecent
