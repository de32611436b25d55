CONSTANTS
  teamA = teamA
  Users = {u1}
  Nobody = Nobody
  Matches = {1, 2}
  Decided = {2}
  Knockouts = {2}
  Teams <- MCTeams
  NoTeam = NoTeam
  MaxGoals = 1
  PickInputs <- OnePick
  Kickoff0 <- MCKickoffs
  Moves <- MCMoves
  Window = 1
  PageSize = 1
  MaxTime = 2
  MaxPuts = 1
  MaxStored = 2
  NoPick = NoPick  NoCard = NoCard  NoPut = NoPut  NoData = NoData
SPECIFICATION FairSpec
INVARIANTS TypeOK SavingShowsWhatIsSent UnsavedIsOffered
PROPERTIES PicksNeverGoBack CatchesUp
CHECK_DEADLOCK FALSE
