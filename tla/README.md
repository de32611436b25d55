# SayScore: a TLA+ model

SayScore (Go API, MySQL, React client) lets the people of a company predict World
Cup matches, scores the predictions when results arrive, and declares weekly and
overall winners.  This directory holds TLA+ modules of the parts whose correctness
depends on order, failure or arithmetic, the TLC configurations that check small
instances of them, and TLAPS proofs of what holds for every instance.

Paths below are relative to `src/`; `internal/` is `backend/internal/`.

## 1. Inventory

### The system

One backend process serves HTTP and runs the scheduled jobs; one MySQL database
holds everything that survives a restart.  Handlers and jobs are goroutines that
share nothing but the database (and, for the mini-game, a map in memory).  A
handler reads, validates and then writes.  Only four places use a transaction: the
two result writers (`WithTx`), the weekly upsert and a player's bonus submission;
everything else is a sequence of autocommitted statements.  robfig cron does not
skip a run that is still going, and an admin can trigger any job by hand, so runs of
the same job overlap.

| Component | State it keeps | Operations | Talks to |
|---|---|---|---|
| Scoring engine (`internal/scoring`, `sportsapi/translate.go`) | none | `Compute`, `ToResult` | called by ingest, correction, recompute |
| Predictions (`prediction_handler.go`) | `predictions` | upsert, reveal | reads `matches`, the clock |
| Results ingest (`jobs/results_ingest.go`) | `matches` result columns, `predictions.points` | run: fetch, align, skip or write each match | sports API; races with admins and other runs |
| Admin matches (`admin_matches_handler.go`) | `matches` | create, edit, delete, correct a result | cascades to `predictions`; `manual_override` shields from ingest and importer |
| Recompute (`jobs/recompute.go`) | `predictions.points` | rebuild all points | reads final matches once; then runs the bonus score |
| Fixture importer (`internal/importer`, `cmd/seedfixtures`) | `matches`, `teams`, `venues`, `players` | upsert the dataset | respects `manual_override` |
| Leaderboards (`internal/leaderboard`, `leaderboard.sql`) | none | weekly and overall boards, ranks, pages | reads predictions, matches, bonus points |
| Weekly winner, Hall of Fame (`jobs/weekly_winner.go`, `winners_handler.go`) | `weekly_results` | declare last week, toggle payout | reads the weekly board |
| Tournament bonus (`internal/bonus`, `bonus_handler.go`, `admin_bonus_handler.go`, `jobs/bonus_score.go`) | `bonus_predictions`, `bonus_results` | submit, reveal, save outcomes, score | reads the lock from settings |
| Settings (`internal/settings`) | `settings` | seed, read, set | `bonus_lock_at` is read per request, crons at start |
| Accounts (`internal/auth`, `middleware.go`, `admin_users_handler.go`) | `users`, a signed cookie | log in, slide a session, change a role | guards every other handler |
| Celebrations (`store/celebrations.go`) | `celebration_views` | list unseen wins, mark seen | reads final matches |
| GOAT game (`internal/game`, `game_handler.go`) | `game_runs`, used tokens in memory | issue a token, accept a run | - |
| Rate limiter (`ratelimit.go`) | token buckets in memory | allow or refuse | - |
| Chat (`internal/chat`, `chat_handler.go`, `ChatWidget.tsx`) | the tab's transcript, in its session storage | stream a completion | OpenAI |
| Web client (`frontend/src`) | one query cache per tab, React state | edit, save, reveal, administer | the API |

The client keeps server data in one TanStack Query cache per tab.  A query has data, at
most one request in flight and an error flag; mounting and focusing refetch it,
invalidating drops the request in flight and sends another, `setQueryData` writes past
it.  The forms copy what the cache holds into state of their own, once, and every save is
a mutation whose answer comes when it comes.  Nothing is pushed: a tab is behind the
server whenever another device, an admin, a job or the clock did something.

### What is hard

* **Read, check, write.**  `manual_override` is read before the ingest's transaction
  (`results_ingest.go:77`), the kickoff before the upsert (`prediction_handler.go:66`),
  the bonus lock before the submission (`bonus_handler.go:163`).  What happens between
  the two?
* **Long jobs without a transaction.**  Recompute and bonus score read lists first and
  then set one row after another; anything may commit in between, and a failure leaves
  the table half rewritten.
* **Aborts.**  An ingest run stops at its first failing match and depends on later runs,
  within a window of two days, to finish the job.
* **Reruns.**  Every job claims to be idempotent, while the tables it reads change
  between runs: results are corrected, matches moved and deleted, prizes paid.
* **Old answers.**  A list requested before a save arrives after it; `/me` is answered for
  a session that has ended; a form is filled from a cached answer and sends all of it.
* **State that outlives its reason.**  A form stays open over a deleted match, a viewed
  user leaves the list, a highlight is of an older list, a run token is used, a reply is
  cut off, a cache survives a logout.
* **Boundaries.**  The instant of kickoff, of the bonus lock and of Monday 00:00 IST;
  ties over four tiers; the last page of a board.

### What makes each component correct

* Scoring: an advancer always outscores a non-advancer on a drawn shootout.
* Predictions: picks that others have seen do not change; deletion leaves nothing.
* Ingest and corrections: final matches are fully scored, corrections stand, every
  finished match gets its result.
* Recompute and bonus score: an undisturbed run repairs whatever was there before.
* Boards: ranks are places, weeks partition matches, pages partition the board.
* Weekly winners: the top of the board that was read is declared; payouts change by
  toggles only.
* Accounts: there is always an admin.  Game: a token pays once, and the next run has a
  fresh one.  Celebrations: none plays again but for a lost mark.  Chat: only a blank
  message makes the server refuse.
* Client: what is shown is what some answer said, never older than what was shown or
  confirmed before; what was typed is kept until it is saved; an answer closes the form
  that asked; the tab believes in the session it has.

`PROJECT.json` lists the components with their status and 40 hazards, each at its line.

## 2. Modules

| Module | What it models |
|---|---|
| `Scoring` | the pure engine and the translation of an API match; constants `Teams`, `NoTeam` |
| `MatchPoints` | matches, predictions and points with everyone who writes them |
| `MatchPoints_proofs` | its theorems: types, then safety |
| `Standings` | boards, weekly-winner job, Hall of Fame, on top of whole result transactions |
| `Sums` | lemmas: induction as a least counterexample, and what a sum over a finite set is |
| `Standings_proofs` | theorems about `Standings` |
| `Bonus` | bonus picks, lock, outcomes and the scoring job |
| `Bonus_proofs` | its theorems |
| `QueryCache`, `QueryCache_proofs` | one query of the client's cache, as operators the client modules share; lemmas about them |
| `PickRegister` | abstract: what the client promises about the picks it shows |
| `PickClient` | the Predictions page of one tab: list, cards, saves |
| `PickClient_proofs` | its theorems, the refinement of `PickRegister` among them |
| `BonusPanel` | the Tournament Bonus panel |
| `SettingsForm`, `OutcomesForm`, `MatchConsole` | the Settings, Bonus and Matches sections of the admin page, each with its handlers |
| `Accounts` | role changes, with the Users section |
| `Forms_proofs` | theorems about the five modules above |
| `Shell` | session and celebrations of one tab |
| `Goat` | the mini-game's tokens and runs |
| `Combobox` | the searchable player field |
| `Chat` | the chat assistant |
| `Client_proofs` | theorems about the four modules above, and about the client as a whole |
| `MCMatchPoints`, `MCStandings`, `MCBonus`, `MCPickClient`, `MCClient` | small instances for TLC |

`MatchPoints` and `Standings` extend `Scoring`.  `Standings` takes a result transaction
(`Settle`) and a finished bonus run (`PayBonus`) as one step; `MatchPoints` and `Bonus`
take the same things apart.  Each client module holds the part of the server it talks to;
where `MatchPoints` or `Bonus` take a handler apart (the prediction upsert, the result
transaction, the submission) the client module has it as one step.

### MatchPoints

* `matches[m]` is a row of the table; `status` has two values more than the column,
  for a key not handed out yet and for a deleted row (`AUTO_INCREMENT` never reuses
  one).  `live` is never written by the code.  `predictions[u][m]` is the row under
  `uq_pred_user_match`; points and penalty bonus are one `score`, always set together.
* `request[u]`, `todo[i]`, `intent[w]`, `snap[w]` and `rebuild[r]` are the local
  variables of handlers and jobs in flight.  `Restart` clears them and leaves the tables.
* PutPrediction is `CheckPrediction` (every check) then `StorePrediction` or
  `RejectPrediction`.  `Latency` bounds how many ticks lie between them; with 0 the
  clock does not move while a request is in flight.
* An ingest run is `StartIngest`, then per match `TakeMatch` (the loop body up to the
  override check) or `SkipMatch`, then `BeginWrite`, `CommitWrite` or `FailWrite`.  The
  order in which the API lists matches is arbitrary.  An admin's correction is
  `EnterResult` and the same transaction.
* The transaction updates the match row first, so InnoDB keeps the row locked to the
  end: other result writers, edits, deletes, re-seeds and first inserts of a prediction
  (a foreign-key check on the row) wait.  An update of an existing prediction does not,
  and can fall between the list and the row's score: the transaction then writes the
  score of the pick it listed.
* `EditMatch`, `DeleteMatch`, `CreateMatch` and `Reseed` are single steps: the
  statement does not depend on anything read before it but the row's existence, which
  it tests again.
* A recompute run is `StartRebuild` (the list of final matches), `ListRows` per match,
  `ScoreRow` per row, `NextMatch`, `EndRebuild`, with `FailRebuild` at any point.
* `shown`, `corrected`, `raced` and `clean` are history: no guard reads them.  `raced` marks a
  match whose correction committed while an ingest run already intended to write it.

Left out: decoding and malformed bodies, team names, rounds, venues, the admin's list.
A team id missing from the alias file is `NoTeam`.  The two reads of the clock in
PutPrediction are one.

### Standings

Instants are numbers; an IST week is `WeekLength` long and begins `IstOffset` before a
multiple of it, as Monday 00:00 IST is Sunday 18:30 UTC.  `WeeklyLines` and
`OverallLines` are the two queries; a line's columns are sums and counts over the matches the
query joins, and `Ordered` is the sequence that ORDER BY allows (there is one, as lines differ
in their user).  `Rank` and `Page` are the Go functions.  A run of the
weekly job is `StartWeekly` (clock and query) then `FinishWeekly` (one transaction over
the rows read) or `FailWeekly`; `MarkPaid` is the guarded update behind PutWinnerPaid.

### Bonus

`request[u]` is a submission between its checks and its transaction, `save[s]` the
entries an admin's PUT has still to write, `run[s]` a scoring run with the two lists it
read.  A save that wrote its last entry goes on to `ReadResults`, as the handler does; a
manual trigger or the end of a recompute starts there too.  `MoveLock` is an admin's
change of `bonus_lock_at`, which takes effect at once.  `late` is history: the users with a
submission that was checked before the lock and was still on its way at the reveal.

### PickClient and PickRegister

A user's stored picks are a log; a list served after *n* entries is "upto *n*".  `list` is
the query `["matches"]`, `asker` the session its request carries, `card[m]` the editor of a
match while it is mounted, `puts` the saves under way.  `Render` recomputes what is mounted
after every change of list, view or page count: a card keeps its edits while its match
stays listed under the same date (its React key), and is seeded anew otherwise.
`told[u]` is history: the newest save the screen was told of.

`PickRegister` has one register per user with `Write`, `Tell`, `Show`, `Hide` and `Leave`:
a screen never goes back in time while it is up and shows nothing newly that is older than
what it was told.  `PickClient` implements it with `latest` the length of the log and
`view` what the screen shows of the user's own picks.

Each instant of the clock is a calendar day of its own, and the prediction window is read
at the current instant (the card recomputes it when it renders).  `Collect` is the cache's
five-minute garbage collection, which is longer than any request takes.

### The other client parts

* `BonusPanel` - two queries (own picks, everyone's picks after the lock), the panel's
  fold, `viewUserId` (`viewing`), the menus open (`menus`), the optimistic name of a player
  (`label`), and the mutation whose answer is written into the cache.  A menu closes on a
  choice, on a pointerdown outside it or on Escape, so that by keyboard several can be open,
  and one opened before a save takes a choice while the save is pending; the second `mutate`
  then drops the callbacks of the first (`overtaken` is history: the players so forgotten).
  `Settle` is the fallback during render.
* `SettingsForm` - `initialisedRef` (`seeded`), the form, the batch written key by key in an
  arbitrary order (a Go map), and another admin.  Time is in half minutes: the input field
  drops seconds, and `FormValue` says so.
* `OutcomesForm` - `seededRef` (`filled`), choices, the list refetched after a save.
* `MatchConsole` - the four dialogs, the four mutations and what blocks them
  (`AnyPending`), with both validations: the form's against the cached row, the handler's
  against the stored one.  `ahead` are the matches that have not kicked off: the handler refuses
  a result for them, and the form offers it all the same.
* `Accounts` - PostUserRole split at each statement (`Admit`, `ReadRole`, `CountAdmins`,
  `SetUserRole`), and one tab per person with a list that may be old.
* `Shell` - the cookie and what the tab believes, login and logout whose answers set the
  cookie when they arrive, the celebration, skipping it, and the marks that it was seen, of which
  several can be under way.  History: `doubt`, whether the belief may be wrong and whether
  `/me` was asked since; `played` and `lost`, the wins shown to each and those whose mark got
  lost.
* `Goat` - tokens numbered as minted, their expiry, the used ones in memory, one player's
  runs on one visit of the page; `RefuseRun` stands for every refusal of `ValidateRun`.
* `Combobox` - text, debounce, highlight, and a blur that closes the list later.
* `Chat` - a message is nothing, white space or text: the difference between what the panel
  drops (`""`) and what the server refuses (`TrimSpace`).  `widget` is up, gone with a logout
  or being loaded again; the transcript stays in the tab's storage.

The parts share no state but the cache's rules, so `MCClient` takes one at a time: a
behaviour picks a part (or a scene of one, see the bounds) and the others rest.

## 3. What the runs check

| Run | Distinct states | What it shows |
|---|---|---|
| `orderly` | 6 thousand | `FinalPointsFresh`, `ShownPicksFrozen`, `FinishedMatchSettles`: with corrections, deletions, two overlapping runs, failures and restarts, but no request across a tick, no recompute and no edit that moves a fixture, final matches are always fully scored, nobody changes a pick others saw, and every finished match is settled |
| `writers` | 1.0 million | `CorrectionStands`, `NoOrphans`: late requests, an API that revises its result, a second match created (possibly under a deleted fixture's source id), stage edits and re-seeding included |
| `rebuild` | 1.1 million | `RebuildRestores`, `PointsNeedResult`: recompute, statement by statement, among all of that |
| `boards` | 0.3 million | `RankIsPlace`, `WeeksAddUp`, `PagesCoverBoard`, `VerdictTruthful`, `AdvancerNotOutscored`, and with two weekly runs that overlap and fail `DeclaresTheTop`, `PayoutsAreToggles` |
| `scoring` | 2.1 million | `RunRestores`, `ShownPicksStay`, with two scorers, a submission that may cross a tick, and a lock that an admin moves |
| `picks` | 0.3 million | `SavingShowsWhatIsSent`, `UnsavedIsOffered`, `PicksNeverGoBack` (the refinement of `PickRegister`), `CatchesUp`: with saves elsewhere, a moved match, lost and dropped requests, logout and login |
| `client` | 1.2 million | the other client parts, sixteen properties: see below |

Every module's type invariant is checked by one of its runs (`ClientTypeOK` joins those of
`client`).

`client` checks, part by part:

* bonus panel - `ViewedAreTheirs`: no empty rows are shown as a user's picks;
  `SaveSurvives`: a confirmed save is not overwritten by an older answer, except by a GET that
  was in flight beside it, which nothing cancels (`bonus.ts:108`); `LabelsSettle`: a name not
  yet confirmed is of the save under way, or of one that a second save overtook.
* settings - `SavedFormStays`, `BadBatchWritesNothing`.  Outcomes - `ChoicesSurvive`, about a
  filled form: what is chosen between a save's answer and the refetched list is not kept.
* accounts - `AdminsRemain`: there is an admin unless a demotion was written on a count that
  another change had made out of date.  That race is in the code
  (`admin_users_handler.go:92`): the count and the write are separate statements.
* matches - `AnswersCloseTheirOwn`; `FormAgreesWithServer`: what the form lets through the
  handler refuses only if the match has not kicked off, was edited or is gone.
* shell - `BelievedIsSession`: the tab believes in the session its browser holds, but for four
  cases of the code: an expired session; a logout refused with an error status, which
  `logout()` does not look at (`api.ts:32`); a login or logout whose answer is lost; and one
  answered while answers about the session are on their way.  After each the first `/me`
  asked with nothing else under way sets the belief right, whatever it says, and the property
  is checked again from its answer on.  `NoEncore`: no win plays that its user had seen when
  the page loaded, or has been shown here before, unless its mark got lost.
* game - `TokenPaysOnce` until a restart, `NextRunIsFresh`.
* player field - `EnterPicksFromAimedList`.
* chat - `OnlyBlankRepliesRefuse`: the server refuses a question only while a blank message is
  among those it looks at.  There are such messages: a reply without text, one that fails
  after nothing but white space (only an empty bubble is dropped), and one whose page was left
  before its first word.  Every question is then refused until the message is older than
  twenty.

Five runs look for a counterexample and find it; each is a finding:

* `override_race` - an ingest run that read `manual_override` before a correction
  committed writes the API's result over it (`results_ingest.go:77`), although the
  correction's comment says "the ingest job never overwrites this correction".  The row keeps
  the flag, so no later run puts it right or wrong again.
* `late_write` - a prediction is stored after kickoff, although "any write where
  `now >= kickoff_utc` is rejected" (`docs/REQUIREMENTS.md:40`).
* `rebuild_race` - a correction that commits while a recompute runs loses its points
  (`recompute.go:40`).
* `restated` - a rerun of the weekly job leaves the row of a winner whose matches of that
  week have been moved or deleted since: the board has no line for that user, and the row
  stays payable beside those of the rerun (`weekly_winner.go:51`).
* `other_user` - logging out sets only `["me"]` to null (`auth.tsx:93`), and the list stays in
  the cache: the next user of the tab sees the previous one's picks of open matches until the
  refetch arrives, although they are "hidden until that match locks"
  (`docs/REQUIREMENTS.md:174`).

The passing runs state exactly what is left once those windows are set apart:
`CorrectionStands` is about corrections no ingest run was holding, `RebuildRestores` about
runs nobody wrote during, `FinalPointsFresh` and `ShownPicksFrozen` about requests that
do not straddle a tick, `DeclaresTheTop` about the users on the board, `ShownPicksStay` about
all changes but a late submission's, `LabelsSettle` and `NoEncore` about saves nobody overtook
and marks that were not lost.

Four more disagreements with the documents are in the models, each a few steps long and
without a run of its own; the first three are what history variables set apart:

* a bonus submission that was checked before the lock commits after it, over picks that others
  already see (`bonus_handler.go:163`, `late`), although writes are answered "403 when
  `now >= BONUS_LOCK_AT`" (`docs/REQUIREMENTS.md:447`);
* a team chosen, in a menu left open, while a player is being saved drops the callbacks that
  take the player's name away, and it stays (`BonusPanel.tsx:259`, `overtaken`): the optimistic
  save is not "reconciled with the server response"
  (`docs/superpowers/specs/2026-06-14-sayscore-m7-tournament-bonus-design.md:155`);
* a celebration plays to its end, the page is loaded again before the mark is stored, and it
  plays again (`App.tsx:114`, `lost`), although a user sees it "exactly once"
  (`docs/superpowers/specs/2026-06-19-sayscore-celebration-design.md:41`);
* the chat's transcript outlives a refresh (`Return` leaves `transcript` alone, as `loadHistory`
  does, `ChatWidget.tsx:10`), although "refreshing the page starts a fresh session"
  (`docs/REQUIREMENTS.md:115`).

### Bounds

* *Two matches, one or two users, two ingest runs, one admin.*  The races are between two
  writers of one match; matches interact only through the API id, the source id and
  the order of a run, for which a second row suffices.  The recompute has two users so that
  it can stop between two rows of a match.
* *Picks and results*: a drawn shootout won by one side, the same lost, a home win: the
  values `Compute` tells apart.  The boards add a draw of another score, so that
  exact, correct and bonus tiers all occur; the proofs cover the rest.
* *Clock*: to 2 or 3, kickoff at 1: before, at and after kickoff, and beyond the end of
  the match.  The ingest window is 2, so that it closes within the run.
* *Weeks* of three instants, a match on the last instant of one and one on the first of
  the next; page size 1, so that every row is a page boundary.
* *Bonus*: one team award and one player award, two refs; a submission that fills both
  and one that fills one; a clock of two instants, a lock at the later one or moved to the
  earlier one or behind both, and a submission one tick long, so that the clock as well as an
  admin can close the picks under it.
* *The boards' run* has two scenes.  In "boards" the jobs rest and the clock stops at 1, as no
  week is over; in "weeks" only one match may be moved or deleted and bonus hits rest.
* *Predictions page*: two matches, one of them a knockout with both teams known, the other
  still to be decided; one user and one save of the tab against one of another device, page
  size 1, goals to 1.  A second save of the same tab waits for the first; the proofs have
  any number.  `other_user` needs two users and no save.
* *Client parts*: one save or batch each and as many writes elsewhere as can fall before,
  between and after its steps.  The panel has two scenes: in "panel" the lock moves, others
  save and one save is sent; in "saves" the picks stay open and two saves are sent, so that one
  can overtake the other.  The shell has two: in "shell" nobody signs in, the page is loaded
  twice and two marks are under way at a time; in "session" it is loaded once, with one login
  tried and one mark at a time.  Three people and three role changes (two demotions that
  cross and a third change); three tokens, two runs and one restart; two texts with results and one too short to be searched; a chat window of 4 messages and a
  transcript of 7, so that a blank reply can leave the window.  `MCClient` starts the
  session as signed out or as one person: another one's is its mirror image.

`CHECK_DEADLOCK` is off throughout: clocks are bounded, and a system without work rests.

### Fairness

`FinishedMatchSettles` and `CatchesUp` need it.  `ListFairness`: the server answers a list
request eventually, and the answer or, after the retries, an error reaches the tab; nothing
is assumed of the user, the clock or a save.  `IngestFairness`: cron starts a run again and again
and one of them is told of every finished match (`StartFullIngest`; the window of two days
spans several runs); the steps of a run are strongly fair, because a failure or a restart
may interrupt a run but not the same step of every run; a transaction that can go on
commits eventually (`WriterFairness`), because failures of the database pass.  The property
gives up (`~due`) when the window closes or an admin takes the match over: a match
nobody settled in time is lost to the ingest, as in the code.

## 4. What is proved

The theorems hold for all values of the constants.  The proofs assume the modules' named
assumptions on constants and nothing else: inputs of the right type, sentinels (`NoData`,
`NoSave`, `Nobody`, ...) outside the sets they stand beside, bounds that are numbers, and, where
the code counts or adds up the rows of a table, that there are finitely many.  Nothing else
limits a set, a bound or the clock; where a theorem needs more, its hypothesis says so.  Every
state machine has its type invariant proved, one step per action.

### Predictions, results, points

* `DeletionIsFinal` - `NoOrphans` is inductive given types: every write of a prediction is
  guarded by, or keyed on, an existing row.
* `CorrectionsStand` - `CorrectionStands` alone is not inductive: a run that passed its
  override check would overwrite the result.  `CorrectionInv` adds that a match with a
  standing correction is overridden and that no ingest run intends to write it; the
  history variable is set only when no run holds the match, and `TakeMatch` refuses an
  overridden row from then on.
* `RecomputeRestores` - `RunInv` (in `RebuildInv`): while a run is undisturbed, its list of
  final matches is the table's, its listed picks are the stored ones, and every final
  match it is done with, and every row it is done with of the current match, is fresh.
* `PointsHaveResults` - `ResultInv`: listed final matches have results too, as long as their
  rows exist.
* `OrderlyPointsFresh`, `OrderlyPicksFrozen` - what `rebuild_race` and
  `late_write` refute holds once their windows are closed, and the hypotheses name those
  windows: `Latency = 0` (the clock does not tick between a prediction's check and its
  write); `Unmoved` (no match that exists gets another kickoff or stage); `ApiAgrees` (the
  API knows a match's stage); for the points, `Rebuilds = {}`.  Edits, corrections, deletions,
  re-seeds, failures, restarts and any number of overlapping runs remain.  `LockInv`: a
  result that is stored, intended or still in a run's list is of a match that has kicked off
  (`RowsOK`, `IntentOK`, `TodoOK`), a prediction on its way is of one that has not
  (`RequestOK`); so no update falls between a transaction's list of picks and its scores
  (`SnapOK`), though no lock prevents it.  `orderly` checks an instance of both.
* `LockLateByARequest` - for every `Latency`, and with matches unmoved: a pick is stored before
  kickoff + `Latency`.  So `late_write` is as bad as it gets: a prediction is late by what its
  request takes and no more, whatever runs, corrects, fails or restarts in between.

### Boards, winners, bonus

* `AdvancersFirst` - `PickInv` (a stored pick is one the handler let through: a shootout
  winner only with a draw), and what `Compute` gives to those who name the advancer
  (at least 4: `AdvancerEarns`) and to the others (nothing: `OthersEarnNothing`).
* `VerdictsTrue` - `PickInv` again, and `TierTells`: what 5, 3 and 0 points say of the two
  scorelines.  0 points with the right outcome happens only to a draw whose shootout pick
  is missing or wrong.
* `PayoutsStand` - `WeeklyTable` (rows are typed) and one case per action.
* `StandingsTypeCorrect` - the columns of a line are natural numbers (`SumType`), and the week a
  run declares is at most the last one of the calendar (`WeekOfMonotone`).
* `WeeksCutTheSeason` - the week number is a quotient, so the window from one Monday to the next
  holds exactly the instants with that quotient (`InWeekOf`), and the weeks cut the fixtures into
  classes.  A sum adds up class by class (`SumByClass`), and a user is on the board of a week iff
  the class has a prediction of theirs (`WeekGives`).  Hypothesis `CalendarSpans`: the weeks
  added up reach to the last kickoff, which `Scheduled` keeps true as admins move fixtures.
* `RanksArePlaces` - `Above` orders the lines of a board strictly (`AboveOrders`), so there is an
  order of rows (`OrderedExists`, which takes the last line off and puts it back) and it is what
  `Ordered` chooses.  Along it, the number of rows that beat a row grows by nothing at a tie and
  jumps to the row's place otherwise (`CountingBeaters`); that is the recursion of `Rank`, which
  has one solution (`RankUnique`).
* `RunsDeclareWhatTheyRead`, `TheTopIsDeclared` - `JobsHaveBoards`: what a run holds between its
  read and its write is a board, one line per user.  The winners are then the rows at rank 1 with
  points, whatever committed in between.  The second theorem compares with the board as it
  stands, and says of the whole table who is payable then; the first does not, and says what `restated` leaves of "the highest totals win":
  *among the rows read* the winners are level at the top.
* `PagesShowEveryone` - the pages before the *n*-th end where it begins (`PageEnds`), each page is
  the cut between two ends (`PageIsCut`), and joining the cuts one by one gives the rows
  (`PagesMakeTheRows`), which is again a recursion with one solution (`FlattenUnique`).
* `BonusRunRestores` - `CleanInv`/`RunInv`, as for the recompute.
* `BonusPicksStay` - without hypotheses.  `PicksInv`: what is shown is behind the lock, so that
  no submission passes its check any more, and those that were on their way at the reveal
  are in `late`, whether the clock or an admin closed the lock.  A submission in `late` does change what is shown.

### The Predictions page

* `PicksRefine` - every step of `PickClient` is a step of `PickRegister` or a stutter.  Needed
  beside types (`ClientInv`): `ToldOK`, no screen is told of more than the log holds, and only
  the one that is up; `ListOK`, an answer on its way to the user's own screen is at least as
  new as what the screen was told and shows, because a confirmed save drops the request in
  flight; `PutsOK`, a save under way has a list behind it.
* `SavingShows` - `SavingInv`: a card that waits waits for a request that exists and is about
  it, and nothing edits or remounts it meanwhile.
* `NoEditIsLost` - `QuotedInv`: a list, in the cache or on its way, quotes the log up to its
  number, and logs only grow; hence a card that differs from that pick is dirty, and offers to
  save unless one of the exceptions of `UnsavedIsOffered` holds.

### Forms

`QueryCache_proofs` says once what each operation of the cache does to a query, whatever its
data; the proofs about queries cite that.

* `PanelShowsWhatItHas`, `PanelKeepsSaves`, `PanelLabelsSettle` - `PanelInv`.  `AllLoaded`: who is
  viewed was chosen from a loaded list, and data are never unloaded under the panel.
  `FloorKept`: the server, a save's answer and an answer to a GET on its way are all at least
  as new as the newest save with nothing in flight beside it; the property alone says it of
  the cache only.  `LabelsOfPlayers`: labels are of player awards, so that a choice which makes
  the panel forget a save finds that save's category among the players' and notes it in
  `overtaken`.
* `SettingsFormStays`, `BadBatchesWriteNothing` - `SettingsInv`: the table, the cache and all
  answers hold legal values (`LegalTable`), a batch past its check is legal
  (`BatchChecked`), and a mounted form with data has been seeded (`Seeded`), so that no
  answer seeds it again.
* `OutcomeChoicesSurvive` - `KeptShown`: choices are kept only in a mounted form that has been
  filled, and a filled form is not filled again.
* `ConsoleAnswersItsOwn`, `ConsoleFormAgrees` - `ConsoleInv`.  Dialogs open over a list that may
  be old, so most of it relates old lists to the table: a listed match exists or is gone for
  good, and unless somebody edited it the row listed is the row stored (`ListsSound`,
  `ShootoutSound`); a dialog's match is in the list or deleted (`DialogsListed`); one dialog
  excludes the next (`OneDialog`); what a request carries was validated against a row the
  handler's checks agree with (`ResultSound`, `WorkSound`).  `Ages` is what every step of the
  server guarantees of a match, and keeps all of that true of the answers under way.
* `AdminsStay` - `LeavesOne`: a demotion past its check, with no change written since it
  counted, leaves an admin; on finite sets of people (`FS_RemoveElement`).

### The other client parts

* `EnterIsAimed` - `ComboboxInv`: a highlight is of the list searched for, or nothing is
  searched for and the list is empty.
* `TokensPayOnce` - `SpentOK`: before a restart, a token that paid or is held by a run past its
  check would be refused, and no two runs past their check hold the same one.
* `NextRunsAreFresh` - `BoardsFresh`: a token on its way to the page is no run's and not the one
  armed, and whatever is armed came with boards that loaded, so that the next load is a new
  request.  Needs that tokens are minted one after another (`TokensOut`).
* `BeliefIsSession` - `OfSession`: without doubt, each answer on its way, to `/me`, to the list
  of wins or to a mark, is of the browser's session, and so is the answer to a `/me` asked in
  doubt; an answer renews the cookie of whoever asked, so belief alone is not inductive.
* `NoWinTwice` - `EncoreInv`: a list of wins of this visit, shown or on its way, was made after
  the visit began, what is viewed stays viewed, and a win that was played here is viewed,
  carried by a mark on its way, or lost.
* `OnlyBlanksRefuse` - `ChatInv`: a message without text is at or before `blankAt` or is the
  bubble of the reply being streamed (`BlanksKnown`, `ReplyHasBubble`), and a question on its
  way is the transcript without that bubble (`AsksTranscript`).

### The client as a whole

* `PartsAreThemselves` - a step of `MCClient` is a step of one part and a stutter of the others
  (`PartsMove`), so its behaviours are behaviours of every part, and what is proved of a part
  holds in the composition.
* `ClientTypesCorrect` - the parts' type theorems, joined by that.

### Induction over data

Sums, ranks and pages are recursive, and the library's induction theorems take an operator as
a parameter, which the provers here cannot instantiate.  `Sums` gets by without: a set of
numbers has a least element (`LeastNatural`) and a family of finite sets a smallest member
(`LeastSet`), both from a well-founded order on a set; hence a set of numbers that has 0 and
every successor is all of them (`NumbersClosed`), and a family of subsets that has the empty one
and stays closed under adding an element has every finite one (`SubsetsClosed`).  A statement
is proved by applying these to the set of instances for which it holds.  A recursive function is
handled through its equation: `OneSolution` and its like say that the equation has at most one
solution, and a solution is exhibited, so that the function chosen is it.  `Standings` therefore
writes its sums as `SumFunction` and its ranks as recursive functions.

### Only model-checked

`FinishedMatchSettles` and `CatchesUp`, which are liveness under fairness; and the properties of
the five runs that refute theirs.  Every other property of a run is a theorem.

## 5. Not modelled, and the plan

Not modelled for good: CSV parsing, HTTP and JSON, generated query code, Slack messages,
what the model of the chat says, the pace integral of the game (floating point), styling,
animations and scripts.  On the client, what only reads and draws: the boards and the
Hall of Fame on screen, the others' picks dialog, countdowns, job buttons; the page number
of the board dialog outlives a board that shrank (listed as a hazard).

Simplified, and where it matters:

* the promotion of `SEED_ADMIN_EMAILS` at startup is not a step: `Accounts` begins
  with those admins, and a restart could only add some;
* one visit of the GOAT page; the bundle is external and reads its token when a run ends;
* the rate limiter, whose refusal is one of the failures every request may meet;
* `EnsureSeeded` and the cron settings, which take effect at the next start.

What could follow:

1. `Settle` of `Standings` as the abstract result transaction: `MatchPoints` under a
   refinement mapping, so that the boards stand on the detailed model; likewise `PayBonus`
   and `Bonus`, and `PickClient`'s one-step upsert and `MatchPoints`' two.
2. The rate limiter's buckets and their eviction, and `EnsureSeeded` against stored values.
