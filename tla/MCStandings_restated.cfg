CONSTANTS
  m1 = m1  m2 = m2  teamA = teamA  teamB = teamB
  Teams <- MCTeams
  NoTeam = NoTeam
  Users <- MCUsers
  Matches <- MCMatches
  Kickoff0 <- MCKickoffs
  Knockouts = {}
  Kickoffs <- MCMoves
  PickInputs <- WeekPicks
  ResultInputs <- WeekResults
  Awards <- MCAwards
  BonusInputs = {}
  Jobs = {j1}
  WeekLength = 3
  IstOffset = 1
  PageSize = 1
  MaxTime = 2
  NoPick = NoPick  NoScore = NoScore  NoResult = NoResult
  NoRow = NoRow  Idle = Idle
SPECIFICATION MCSpec
PROPERTIES HighestTotalsWin
CHECK_DEADLOCK FALSE
