CONSTANTS
  m1 = m1  m2 = m2  u1 = u1  u2 = u2  teamA = teamA  teamB = teamB
  Teams <- MCTeams
  NoTeam = NoTeam
  Users = {u1}
  Admins = {a1}
  Ingests = {}
  Rebuilds = {}
  MatchIds = {m1}
  Sources = {m1}
  Seed <- MCSeed
  ApiIds <- ApiIdSet
  ApiMatches <- MCApi
  PickInputs <- MCPicks
  ResultInputs <- MCResults
  FixtureInputs <- SameFixture
  MaxScore = 1
  Window = 1
  IngestWindow = 2
  MatchLength = 1
  Latency = 1
  MaxTime = 3
  Idle = Idle  NoTx = NoTx  NoPick = NoPick  NoScore = NoScore
  NoResult = NoResult  NoApi = NoApi  NoSource = NoSource
SPECIFICATION Spec
PROPERTIES NoLateWrite
CHECK_DEADLOCK FALSE
