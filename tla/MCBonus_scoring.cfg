CONSTANTS
  x = x  y = y
  Users = {u1}
  Awards <- MCAwards
  Refs = {x, y}
  Submissions <- MCSubmissions
  Outcomes <- MCOutcomes
  Scorers = {s1, s2}
  LockAt0 = 1
  LockInputs = {0, 2}
  Latency = 1
  MaxTime = 1
  Idle = Idle  NoPick = NoPick  NoOutcome = NoOutcome  Null = Null
SPECIFICATION Spec
INVARIANTS TypeOK RunRestores
PROPERTIES ShownPicksStay
CHECK_DEADLOCK FALSE
