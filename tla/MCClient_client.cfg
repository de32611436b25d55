CONSTANTS
  Parts = {"panel", "saves", "settings", "outcomes", "accounts", "console",
           "shell", "session", "goat", "combobox", "chat"}
  NoData = NoData
  TeamCategories = {winner}  PlayerCategories = {boot}
  Choices = {r1}  Others = {o1}  You = You
  NoLabel = NoLabel  NoSave = NoSave
  MaxSaves = 2  MaxBonusStored = 3
  CronKeys = {cron}  Crons = {c1}  LockKey = lock  Instants = {0, 1}
  BadCron = bad  Empty = empty  NoRequest = NoRequest
  MaxSettingPuts = 1  MaxSettingWrites = 3
  OutcomeRows = {a1, a2}  TeamRows = {a1}  Winners = {w1, w2}
  NotSet = NotSet  NoUpdate = NoUpdate
  MaxUpdates = 1  MaxOutcomeWrites = 2
  p1 = p1
  People = {p1, p2, p3}  FirstAdmins = {p1, p2}  NoOne = NoOne  MaxChanges = 3
  t1 = t1  t2 = t2
  Ids = {1, 2}  FirstIds = {1}  Sides = {t1, t2}  NoSide = NoSide
  FirstFixture <- MCFixture  Rewrites <- MCRewrites  Drafts <- MCDrafts
  Unborn = Unborn  Gone = Gone  NoId = NoId  New = New  NoWork = NoWork
  MaxElsewhere = 1  MaxWork = 2
  Persons = {p1, p2}  Nobody = Nobody  Wins = {final}
  NoAuth = NoAuth
  MaxVisits = 2  MaxSignIns = 1  MaxMarks = 2
  MaxTokens = 3  MaxRuns = 2  MaxRestarts = 1  NoToken = NoToken
  ab = ab  ac = ac
  Texts = {ab, ac, b}  Blank = Blank  LongTexts = {ab, ac}  Hits <- MCHits
  NoTimer = NoTimer
  Window = 4  MaxMessages = 7
SPECIFICATION Spec
INVARIANTS
  ClientTypeOK ViewedAreTheirs SaveSurvives LabelsSettle SavedFormStays
  BadBatchWritesNothing ChoicesSurvive AdminsRemain AnswersCloseTheirOwn
   NoEncore TokenPaysOnce NextRunIsFresh
  EnterPicksFromAimedList OnlyBlankRepliesRefuse
PROPERTIES
  FormAgreesWithServer
CHECK_DEADLOCK FALSE
