SPECIFICATION Spec
CONSTANTS
  v1 = v1  v2 = v2  v3 = v3  r1 = r1  r2 = r2  j1 = j1  j2 = j2
  Versions = {v1, v2, v3}
  Healthy = {v1, v2}
  First = v1
  Rules = {r1, r2}
  Jobs = {j1}
  Absent = Absent
  NoSlot = NoSlot
  Strategies = {"blue-green"}
  Starts = {"rolling", "blue-green"}
  Payloads = {"template"}
  PayloadSlot = TRUE
  Overrides = {"none"}
  ReadErrors = TRUE
  Overlap = FALSE
  MaxOps = 4
PROPERTIES LostOnlyGoingBack SuccessIsLive SwitchSticks StagingSparesTraffic OnlySwitchesCutRoutes
CHECK_DEADLOCK FALSE
