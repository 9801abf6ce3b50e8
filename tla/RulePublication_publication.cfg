SPECIFICATION Spec
CONSTANTS
  jwt = jwt  deny = deny  hidden = hidden  bare = bare
  d1 = d1  d2 = d2  e1 = e1  x1 = x1  x2 = x2  name = name
  Ops = {d1, d2, e1}
  Deploys = {d1, d2}
  Curated = {d1, d2}
  Executors = {x1, x2}
  Versions = {jwt, deny, hidden, bare}
  Rule <- MCRule
  Names = {name}
  Denial <- MCDenial
  NoOp = NoOp
  Absent = Absent
  MaxAttempts = 2
  MaxFaults = 1
  MaxEdits = 1
CONSTRAINT FewAtOnce
SYMMETRY MCSymmetry
INVARIANTS TypeOK LoneRunIsExact
PROPERTIES DeployedMeansGuarded OldRoutesStayClosed
CHECK_DEADLOCK FALSE
