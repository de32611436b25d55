CONSTANTS
  m1 = m1  m2 = m2  teamA = teamA  teamB = teamB
  Teams <- MCTeams
  NoTeam = NoTeam
  Users <- MCUsers
  Matches <- MCMatches
  Kickoff0 <- MCKickoffs
  Knockouts = {m1, m2}
  Kickoffs <- MCMoves
  PickInputs <- MCPicks
  ResultInputs <- MCResults
  Awards <- MCAwards
  BonusInputs <- BoardBonus
  Jobs = {j1, j2}
  WeekLength = 3
  IstOffset = 1
  PageSize = 1
  MaxTime = 2
  NoPick = NoPick  NoScore = NoScore  NoResult = NoResult
  NoRow = NoRow  Idle = Idle
SPECIFICATION MCSpec
INVARIANTS TypeOK RankIsPlace WeeksAddUp PagesCoverBoard VerdictTruthful
PROPERTIES DeclaresTheTop PayoutsAreToggles AdvancerNotOutscored
CHECK_DEADLOCK FALSE
