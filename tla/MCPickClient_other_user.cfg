CONSTANTS
  teamA = teamA
  Users = {u1, u2}
  Nobody = Nobody
  Matches = {1, 2}
  Decided = {2}
  Knockouts = {2}
  Teams <- MCTeams
  NoTeam = NoTeam
  MaxGoals = 1
  PickInputs <- OnePick
  Kickoff0 <- MCKickoffs
  Moves <- MCMoves
  Window = 1
  PageSize = 2
  MaxTime = 2
  MaxPuts = 0
  MaxStored = 1
  NoPick = NoPick  NoCard = NoCard  NoPut = NoPut  NoData = NoData
SPECIFICATION Spec
INVARIANTS OwnPicksOnly
CHECK_DEADLOCK FALSE
