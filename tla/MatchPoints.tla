----------------------------- MODULE MatchPoints -----------------------------
(***************************************************************************)
(* The core of SayScore: fixtures, predictions, results and the points     *)
(* derived from them, in one MySQL database shared by                      *)
(*                                                                         *)
(*   - the players' handlers (PutPrediction, GetMatchPredictions),         *)
(*   - the results-ingest job (cron or a manual trigger),                  *)
(*   - the admin handlers (fixture edit, create, delete, result entry),    *)
(*   - the recompute job, and the fixture importer (seedfixtures).         *)
(*                                                                         *)
(* Every handler reads, validates and only then writes; nothing but        *)
(* WithTx groups statements.  A handler is therefore split where another   *)
(* one can run: at the end of its reads (request, intent, rebuild hold     *)
(* what it carried out of them) and at each write.                         *)
(*                                                                         *)
(* A result transaction (WithTx) updates the match row first, which locks  *)
(* the row until the end, then lists the predictions, scores them, and     *)
(* commits.  BeginWrite stands for the update and the list, CommitWrite    *)
(* for the row updates and the commit: a player's upsert between the list  *)
(* and the update of that row is the only interleaving InnoDB leaves open. *)
(***************************************************************************)
EXTENDS Scoring, FiniteSets

CONSTANTS
  Users, Admins,
  Ingests,       \* ingest runs that may overlap (cron, manual trigger)
  Rebuilds,      \* recompute runs that may overlap
  MatchIds,      \* primary keys the matches table can hand out
  Sources,       \* fixtures of the dataset; the seeded row of s has id s
  Seed,          \* Seed[s]: the fixture the dataset gives for s
  ApiIds,
  ApiMatches,    \* what the results API may report
  PickInputs,    \* request bodies of PUT prediction
  ResultInputs,  \* request bodies of PUT result
  FixtureInputs, \* request bodies of POST and PUT match
  MaxScore,      \* maxScore, 99 in the code
  Window,        \* predictionWindow, 3 days in the code
  IngestWindow,  \* how far back a run asks the API
  MatchLength,   \* the API reports a match finished this long after kickoff
  Latency,       \* how long a request may sit between its check and its write
  MaxTime,       \* bound of the clock
  Idle, NoTx, NoPick, NoScore, NoResult, NoApi, NoSource

Fixture == [kickoff : Nat, home : TeamOrNone, away : TeamOrNone,
            stage : {"group", "knockout"}]

ApiMatch == [id : ApiIds, utc : Nat, homeTeam : TeamOrNone, awayTeam : TeamOrNone,
             status : {"FINISHED", "TIMED"}, hasScore : BOOLEAN,
             home : Nat, away : Nat, side : Sides,
             duration : {"REGULAR", "PENALTY_SHOOTOUT"},
             stage : {"GROUP_STAGE", "LAST_16"}]

ASSUME InputsAssumption ==
  /\ Sources \subseteq MatchIds
  /\ Seed \in [Sources -> Fixture]
  /\ ApiMatches \subseteq ApiMatch
  /\ PickInputs \subseteq Pick
  /\ ResultInputs \subseteq Result
  /\ FixtureInputs \subseteq Fixture

ASSUME BoundsAssumption ==
  /\ MaxScore \in Nat /\ Window \in Nat /\ IngestWindow \in Nat
  /\ MatchLength \in Nat /\ Latency \in Nat /\ MaxTime \in Nat

ASSUME NullsAssumption ==
  /\ Ingests \intersect Admins = {}
  /\ NoPick \notin Pick /\ NoScore \notin Score /\ NoResult \notin Result
  /\ NoApi \notin ApiIds /\ NoSource \notin Sources
  /\ Idle \notin [match : MatchIds, result : Result, knockout : BOOLEAN,
                  api : ApiIds \union {NoApi}]
  /\ Idle \notin [match : MatchIds, pick : Pick, at : Nat]
  /\ Idle \notin [result : Result, knockout : BOOLEAN]
  /\ NoTx \notin [Users -> Pick \union {NoPick}]

Writers == Ingests \union Admins

VARIABLES
  now,          \* the server's clock
  matches,      \* table matches
  predictions,  \* table predictions, keyed by (user, match)
  request,      \* request[u]: a PUT prediction that passed its checks
  todo,         \* todo[i]: API matches the ingest run has still to look at
  intent,       \* intent[w]: the result w has decided to write
  snap,         \* snap[w]: the picks w listed inside its open transaction
  rebuild,      \* rebuild[r]: progress of a recompute run
  \* History, read by properties only:
  shown,        \* shown[m]: m's picks have been revealed to someone
  corrected,    \* corrected[m]: the last correction stored for m
  raced,        \* raced[m]: an ingest run held m when it was stored
  clean         \* clean[r]: nobody else wrote since r's run started

db    == <<matches, predictions>>
runs  == <<request, todo, intent, snap, rebuild>>
ghost == <<shown, corrected, raced, clean>>
vars  == <<now, db, runs, ghost>>

-----------------------------------------------------------------------------
Match == [status : {"unused", "scheduled", "final", "deleted"},
          source : Sources \union {NoSource},
          kickoff : Nat, home : TeamOrNone, away : TeamOrNone,
          stage : {"group", "knockout"},
          result : Result \union {NoResult},
          override : BOOLEAN,
          api : ApiIds \union {NoApi}]

Prediction == [pick : Pick \union {NoPick}, score : Score \union {NoScore}]
Picks      == [Users -> Pick \union {NoPick}]
Request    == [match : MatchIds, pick : Pick, at : Nat]
Intent     == [match : MatchIds, result : Result, knockout : BOOLEAN,
               api : ApiIds \union {NoApi}]
Final      == [result : Result, knockout : BOOLEAN]
Rebuild    == [phase : {"idle", "list", "rows"},
               finals : [MatchIds -> Final \union {Idle}],
               match : MatchIds \union {Idle}, rows : Picks]

NoRow    == [pick |-> NoPick, score |-> NoScore]
NoPicks  == [u \in Users |-> NoPick]
Resting  == [phase |-> "idle", finals |-> [m \in MatchIds |-> Idle],
             match |-> Idle, rows |-> NoPicks]

\* A row as the importer or the admin's create inserts it.
NewRow(f, source, override) ==
  [status |-> "scheduled", source |-> source,
   kickoff |-> f.kickoff, home |-> f.home, away |-> f.away, stage |-> f.stage,
   result |-> NoResult, override |-> override, api |-> NoApi]

\* A primary key with no row: never handed out, or handed out and deleted.
NoMatch(status) ==
  [status |-> status, source |-> NoSource, kickoff |-> 0, home |-> NoTeam,
   away |-> NoTeam, stage |-> "group", result |-> NoResult,
   override |-> FALSE, api |-> NoApi]

Exists(m)   == matches[m].status \in {"scheduled", "final"}
Locked(m)   == \E w \in Writers : snap[w] # NoTx /\ intent[w].match = m
Knockout(m) == matches[m].stage = "knockout"

\* Somebody other than a recompute run wrote the database.
Disturb == clean' = [r \in Rebuilds |-> FALSE]

Init ==
  /\ now = 0
  /\ matches = [m \in MatchIds |-> IF m \in Sources THEN NewRow(Seed[m], m, FALSE)
                                   ELSE NoMatch("unused")]
  /\ predictions = [u \in Users |-> [m \in MatchIds |-> NoRow]]
  /\ request = [u \in Users |-> Idle]
  /\ todo = [i \in Ingests |-> {}]
  /\ intent = [w \in Writers |-> Idle]
  /\ snap = [w \in Writers |-> NoTx]
  /\ rebuild = [r \in Rebuilds |-> Resting]
  /\ shown = [m \in MatchIds |-> FALSE]
  /\ corrected = [m \in MatchIds |-> NoResult]
  /\ raced = [m \in MatchIds |-> FALSE]
  /\ clean = [r \in Rebuilds |-> FALSE]

\* Real time passes; a request in flight is bounded by Latency.
Tick ==
  /\ now < MaxTime
  /\ \A u \in Users : request[u] # Idle => now < request[u].at + Latency
  /\ now' = now + 1
  /\ UNCHANGED <<db, runs, ghost>>

-----------------------------------------------------------------------------
(* Players. *)

BeforeKickoff(m) == now < matches[m].kickoff

MutOpenAtKickoff(m) ==
  now <= matches[m].kickoff /\ matches[m].kickoff - now <= Window

\* The lock, and the window before kickoff in which predictions are open.
Open(m) == BeforeKickoff(m) /\ matches[m].kickoff - now <= Window

ValidPick(m, p) ==
  /\ p.home <= MaxScore /\ p.away <= MaxScore
  /\ p.pen # NoTeam => /\ Knockout(m) /\ IsDraw(p)
                       /\ p.pen \in {matches[m].home, matches[m].away}

\* PutPrediction up to its last validation.
CheckPrediction(u, m, p) ==
  /\ request[u] = Idle
  /\ Exists(m)
  /\ Open(m)
  /\ matches[m].home # NoTeam /\ matches[m].away # NoTeam
  /\ ValidPick(m, p)
  /\ request' = [request EXCEPT ![u] = [match |-> m, pick |-> p, at |-> now]]
  /\ UNCHANGED <<now, db, todo, intent, snap, rebuild, ghost>>

\* UpsertPrediction: an existing row keeps its points, the first insert needs
\* the parent row, which an open result transaction holds locked.
StorePrediction(u) ==
  LET q == request[u] m == q.match
  IN  /\ q # Idle
      /\ Exists(m)
      /\ predictions[u][m].pick = NoPick => ~Locked(m)
      /\ predictions' = [predictions EXCEPT ![u][m].pick = q.pick]
      /\ request' = [request EXCEPT ![u] = Idle]
      /\ Disturb
      /\ UNCHANGED <<now, matches, todo, intent, snap, rebuild, shown, corrected, raced>>

\* The upsert fails: the match is gone (foreign key), or the database is.
RejectPrediction(u) ==
  /\ request[u] # Idle
  /\ request' = [request EXCEPT ![u] = Idle]
  /\ UNCHANGED <<now, db, todo, intent, snap, rebuild, ghost>>

\* GetMatchPredictions, the privacy gate and the list.
RevealPicks(m) ==
  /\ Exists(m)
  /\ ~BeforeKickoff(m)
  /\ shown' = [shown EXCEPT ![m] = TRUE]
  /\ UNCHANGED <<now, db, runs, corrected, raced, clean>>

-----------------------------------------------------------------------------
(* The result transaction, shared by the ingest and the admin's correction. *)

\* api_fixture_id is UNIQUE: the update fails when another row carries it.
Duplicate(t) ==
  t.api # NoApi /\ \E m \in MatchIds \ {t.match} : matches[m].api = t.api

\* Another transaction is about to stamp the same id on another row.
StampPending(w) ==
  \E v \in Writers \ {w} : /\ snap[v] # NoTx
                           /\ intent[v].api # NoApi
                           /\ intent[v].api = intent[w].api

\* Begin; UpdateMatchResult (takes the row lock); ListPredictionsForMatch.
BeginWrite(w) ==
  LET t == intent[w]
  IN  /\ t # Idle /\ snap[w] = NoTx
      /\ ~Locked(t.match) /\ ~Duplicate(t) /\ ~StampPending(w)
      /\ snap' = [snap EXCEPT ![w] = [u \in Users |-> predictions[u][t.match].pick]]
      /\ UNCHANGED <<now, db, request, todo, intent, rebuild, ghost>>

MutFinalizedUnmarked(row, t, w) ==
  [row EXCEPT !.status = "final", !.result = t.result, !.api = t.api]

\* The match row after the update.  Only a correction sets manual_override.
Finalized(row, t, w) ==
  [row EXCEPT !.status = "final", !.result = t.result, !.api = t.api,
              !.override = row.override \/ w \in Admins]

MutScoreOnce(row, p, result, knockout) ==
  IF p = NoPick \/ row.pick = NoPick \/ row.score # NoScore THEN row
  ELSE [row EXCEPT !.score = Compute(p, result, knockout)]

\* SetPredictionScore: a row that has gone is no error.
SetScore(row, p, result, knockout) ==
  IF p = NoPick \/ row.pick = NoPick THEN row
  ELSE [row EXCEPT !.score = Compute(p, result, knockout)]

\* An ingest run between its override check on m and its commit.
IngestHolds(m) == \E i \in Ingests : intent[i] # Idle /\ intent[i].match = m

\* SetPredictionScore for every listed row; SetMatchManualOverride; Commit.
\* Of a match deleted before the transaction began nothing is written.
CommitWrite(w) ==
  LET t == intent[w] m == t.match
  IN  /\ t # Idle /\ snap[w] # NoTx
      /\ matches' = IF Exists(m) THEN [matches EXCEPT ![m] = Finalized(@, t, w)]
                    ELSE matches
      /\ predictions' = [u \in Users |-> [predictions[u] EXCEPT ![m] =
                           SetScore(@, snap[w][u], t.result, t.knockout)]]
      /\ intent' = [intent EXCEPT ![w] = Idle]
      /\ snap' = [snap EXCEPT ![w] = NoTx]
      /\ IF w \in Admins /\ Exists(m)
         THEN /\ corrected' = [corrected EXCEPT ![m] = t.result]
              /\ raced' = [raced EXCEPT ![m] = IngestHolds(m)]
         ELSE UNCHANGED <<corrected, raced>>
      /\ Disturb
      /\ UNCHANGED <<now, request, todo, rebuild, shown>>

\* A statement fails: the transaction rolls back.  For the ingest that aborts
\* the whole run (matches committed before stay), for the admin it is a 500.
FailWrite(w) ==
  /\ \/ intent[w] # Idle
     \/ w \in Ingests /\ todo[w] # {}
  /\ intent' = [intent EXCEPT ![w] = Idle]
  /\ snap' = [snap EXCEPT ![w] = NoTx]
  /\ todo' = IF w \in Ingests THEN [todo EXCEPT ![w] = {}] ELSE todo
  /\ UNCHANGED <<now, db, request, rebuild, ghost>>

-----------------------------------------------------------------------------
(* The results-ingest job. *)

\* ListFinishedMatches over the run's window of days.  What the API reports
\* is external: any of ApiMatches whose match is over.
Reported(a) == a.utc + MatchLength <= now /\ now <= a.utc + IngestWindow

StartIngest(i) ==
  /\ todo[i] = {} /\ intent[i] = Idle
  /\ \E found \in SUBSET {a \in ApiMatches : Reported(a)} :
       found # {} /\ todo' = [todo EXCEPT ![i] = found]
  /\ UNCHANGED <<now, db, request, intent, snap, rebuild, ghost>>

MutStampedOnly(a) == {m \in MatchIds : Exists(m) /\ matches[m].api = a.id}

\* findSeeded: by the stamped API id, otherwise by kickoff and teams.
FoundRows(a) ==
  LET stamped == {m \in MatchIds : Exists(m) /\ matches[m].api = a.id}
  IN  IF stamped # {} THEN stamped
      ELSE {m \in MatchIds : /\ Exists(m)
                             /\ matches[m].kickoff = a.utc
                             /\ matches[m].home = a.homeTeam
                             /\ matches[m].away = a.awayTeam}

\* Both teams are in the alias table (NoTeam stands for an id that is not).
Aligned(a) == a.homeTeam # NoTeam /\ a.awayTeam # NoTeam

\* The loop body up to the override check: the match is taken on ...
TakeMatch(i) ==
  /\ intent[i] = Idle
  /\ \E a \in todo[i] :
       /\ Scoreable(a) /\ Aligned(a)
       /\ \E m \in FoundRows(a) :
            /\ ~matches[m].override
            /\ intent' = [intent EXCEPT ![i] =
                 [match |-> m, result |-> ToResult(a, a.homeTeam, a.awayTeam),
                  knockout |-> ApiKnockout(a), api |-> a.id]]
       /\ todo' = [todo EXCEPT ![i] = @ \ {a}]
  /\ UNCHANGED <<now, db, request, snap, rebuild, ghost>>

\* ... or skipped: not scoreable, not aligned, not found, or overridden.
SkipMatch(i) ==
  /\ intent[i] = Idle
  /\ \E a \in todo[i] :
       /\ \/ ~Scoreable(a) \/ ~Aligned(a)
          \/ FoundRows(a) = {}
          \/ \E m \in FoundRows(a) : matches[m].override
       /\ todo' = [todo EXCEPT ![i] = @ \ {a}]
  /\ UNCHANGED <<now, db, request, intent, snap, rebuild, ghost>>

-----------------------------------------------------------------------------
(* Admin handlers. *)

\* Penalties need a knockout and a participating winner; without penalties the
\* winner is not looked at, and stored as it came.
ValidResult(m, res) ==
  res.pens => /\ Knockout(m)
              /\ res.winner # NoTeam
              /\ res.winner \in {matches[m].home, matches[m].away}

\* PutAdminMatchResult up to the transaction: stage and api_fixture_id are
\* carried out of this read.
EnterResult(a, m, res) ==
  /\ intent[a] = Idle
  /\ Exists(m)
  /\ ~BeforeKickoff(m)
  /\ ValidResult(m, res)
  /\ intent' = [intent EXCEPT ![a] = [match |-> m, result |-> res,
                                      knockout |-> Knockout(m), api |-> matches[m].api]]
  /\ UNCHANGED <<now, db, request, todo, snap, rebuild, ghost>>

ValidFixture(f) == f.home # f.away /\ f.home \in Teams /\ f.away \in Teams

\* PutAdminMatch: fixture detail only; a final match stays final.
EditMatch(m, f) ==
  /\ Exists(m) /\ ~Locked(m)
  /\ ValidFixture(f)
  /\ matches' = [matches EXCEPT ![m] =
       [@ EXCEPT !.home = f.home, !.away = f.away, !.kickoff = f.kickoff,
                 !.stage = f.stage, !.override = TRUE]]
  /\ Disturb
  /\ UNCHANGED <<now, predictions, runs, shown, corrected, raced>>

\* The dataset fixture s has no row.
Unseeded(s) == \A m \in MatchIds : ~(Exists(m) /\ matches[m].source = s)

\* PostAdminMatch.  MAX(source_id) + 1 is a number past the dataset, unless the
\* dataset's last fixtures were deleted: then it is one of theirs.
CreateMatch(m, f) ==
  /\ matches[m].status = "unused"
  /\ ValidFixture(f)
  /\ \E s \in {NoSource} \union {s \in Sources : Unseeded(s)} :
       matches' = [matches EXCEPT ![m] = NewRow(f, s, TRUE)]
  /\ Disturb
  /\ UNCHANGED <<now, predictions, runs, shown, corrected, raced>>

MutNoCascade(m) == predictions

\* The predictions left by ON DELETE CASCADE.
Cascade(m) == [u \in Users |-> [predictions[u] EXCEPT ![m] = NoRow]]

\* DeleteAdminMatch.
DeleteMatch(m) ==
  /\ Exists(m) /\ ~Locked(m)
  /\ matches' = [matches EXCEPT ![m] = NoMatch("deleted")]
  /\ predictions' = Cascade(m)
  /\ corrected' = [corrected EXCEPT ![m] = NoResult]
  /\ raced' = [raced EXCEPT ![m] = FALSE]
  /\ Disturb
  /\ UNCHANGED <<now, runs, shown>>

-----------------------------------------------------------------------------
(* The fixture importer, one UpsertMatch. *)

\* An overridden row is left alone, any other gets the dataset's fixture and
\* the status "scheduled"; a fixture with no row is inserted under a new key.
Reseed(s) ==
  LET f == Seed[s]
  IN  /\ \/ \E m \in MatchIds :
              /\ Exists(m) /\ matches[m].source = s
              /\ ~matches[m].override /\ ~Locked(m)
              /\ matches' = [matches EXCEPT ![m] =
                   [@ EXCEPT !.status = "scheduled", !.home = f.home, !.away = f.away,
                             !.kickoff = f.kickoff, !.stage = f.stage]]
         \/ \E m \in MatchIds :
              /\ Unseeded(s)
              /\ matches[m].status = "unused"
              /\ matches' = [matches EXCEPT ![m] = NewRow(f, s, FALSE)]
      /\ Disturb
      /\ UNCHANGED <<now, predictions, runs, shown, corrected, raced>>

-----------------------------------------------------------------------------
(* The recompute job: no transaction, one autocommitted update per row. *)

MutEveryMatch(m) == Exists(m)

\* The rows ListFinalMatches returns.
IsFinal(m) == matches[m].status = "final"

\* FinalMatch: a NULL score reads as 0.
Scoreline(m) ==
  IF matches[m].result = NoResult
  THEN [home |-> 0, away |-> 0, pens |-> FALSE, winner |-> NoTeam]
  ELSE matches[m].result

FinalOf(m) == [result |-> Scoreline(m), knockout |-> Knockout(m)]

StartRebuild(r) ==
  /\ rebuild[r].phase = "idle"
  /\ rebuild' = [rebuild EXCEPT ![r] =
       [phase  |-> "list", match |-> Idle, rows |-> NoPicks,
        finals |-> [m \in MatchIds |->
                      IF IsFinal(m) THEN FinalOf(m) ELSE Idle]]]
  /\ clean' = [clean EXCEPT ![r] = TRUE]
  /\ UNCHANGED <<now, db, request, todo, intent, snap, shown, corrected, raced>>

\* ListPredictionsForMatch for the next match of the list.
ListRows(r, m) ==
  /\ rebuild[r].phase = "list" /\ rebuild[r].finals[m] # Idle
  /\ rebuild' = [rebuild EXCEPT ![r] =
       [@ EXCEPT !.phase = "rows", !.match = m,
                 !.rows = [u \in Users |-> predictions[u][m].pick]]]
  /\ UNCHANGED <<now, db, request, todo, intent, snap, ghost>>

\* SetPredictionScore for one listed row, from the listed pick and result.
ScoreRow(r, u) ==
  LET b == rebuild[r] m == b.match
  IN  /\ b.phase = "rows" /\ b.rows[u] # NoPick
      /\ predictions' = [predictions EXCEPT ![u][m] =
           SetScore(@, b.rows[u], b.finals[m].result, b.finals[m].knockout)]
      /\ rebuild' = [rebuild EXCEPT ![r].rows[u] = NoPick]
      /\ clean' = [q \in Rebuilds |-> q = r /\ clean[r]]
      /\ UNCHANGED <<now, matches, request, todo, intent, snap, shown, corrected, raced>>

NextMatch(r) ==
  /\ rebuild[r].phase = "rows" /\ rebuild[r].rows = NoPicks
  /\ rebuild' = [rebuild EXCEPT ![r] =
       [phase |-> "list", match |-> Idle, rows |-> NoPicks,
        finals |-> [rebuild[r].finals EXCEPT ![rebuild[r].match] = Idle]]]
  /\ UNCHANGED <<now, db, request, todo, intent, snap, ghost>>

\* Every listed match is done; the run goes on to the bonus picks (Bonus).
RebuildDone(r) ==
  rebuild[r].phase = "list" /\ \A m \in MatchIds : rebuild[r].finals[m] = Idle

EndRebuild(r) ==
  /\ RebuildDone(r)
  /\ rebuild' = [rebuild EXCEPT ![r] = Resting]
  /\ UNCHANGED <<now, db, request, todo, intent, snap, ghost>>

\* A statement fails: the run stops where it is, what it wrote stays.
FailRebuild(r) ==
  /\ rebuild[r].phase # "idle"
  /\ rebuild' = [rebuild EXCEPT ![r] = Resting]
  /\ UNCHANGED <<now, db, request, todo, intent, snap, ghost>>

-----------------------------------------------------------------------------
\* The single backend process dies and restarts: everything in memory is gone,
\* MySQL rolls open transactions back.
Restart ==
  /\ \/ \E u \in Users : request[u] # Idle
     \/ \E w \in Writers : intent[w] # Idle
     \/ \E i \in Ingests : todo[i] # {}
     \/ \E r \in Rebuilds : rebuild[r].phase # "idle"
  /\ request' = [u \in Users |-> Idle]
  /\ todo' = [i \in Ingests |-> {}]
  /\ intent' = [w \in Writers |-> Idle]
  /\ snap' = [w \in Writers |-> NoTx]
  /\ rebuild' = [r \in Rebuilds |-> Resting]
  /\ UNCHANGED <<now, db, ghost>>

PlayerNext ==
  \/ \E u \in Users : \/ \E m \in MatchIds, p \in PickInputs : CheckPrediction(u, m, p)
                      \/ StorePrediction(u)
                      \/ RejectPrediction(u)
  \/ \E m \in MatchIds : RevealPicks(m)

WriterNext ==
  \E w \in Writers : BeginWrite(w) \/ CommitWrite(w) \/ FailWrite(w)

IngestNext ==
  \E i \in Ingests : StartIngest(i) \/ TakeMatch(i) \/ SkipMatch(i)

AdminNext ==
  \/ \E a \in Admins, m \in MatchIds, res \in ResultInputs : EnterResult(a, m, res)
  \/ \E m \in MatchIds : \/ \E f \in FixtureInputs : EditMatch(m, f) \/ CreateMatch(m, f)
                         \/ DeleteMatch(m)

RebuildNext ==
  \E r \in Rebuilds : \/ StartRebuild(r) \/ NextMatch(r) \/ EndRebuild(r) \/ FailRebuild(r)
                      \/ \E m \in MatchIds : ListRows(r, m)
                      \/ \E u \in Users : ScoreRow(r, u)

Next == \/ Tick \/ PlayerNext \/ WriterNext \/ IngestNext \/ AdminNext \/ RebuildNext
        \/ \E s \in Sources : Reseed(s)
        \/ Restart

Spec == Init /\ [][Next]_vars

\* What the scheduler, the results API and the database owe the writers: cron
\* keeps starting runs that are told of every finished match, failures and
\* restarts do not hit the same step of every run for ever, and a transaction
\* does not stay open.
StartFullIngest(i) ==
  StartIngest(i) /\ todo'[i] = {a \in ApiMatches : Reported(a)}

IngestFairness ==
  \A i \in Ingests : /\ SF_vars(StartFullIngest(i))
                     /\ SF_vars(TakeMatch(i)) /\ SF_vars(SkipMatch(i))
                     /\ SF_vars(BeginWrite(i))

WriterFairness == \A w \in Writers : SF_vars(CommitWrite(w))

FairSpec == Spec /\ IngestFairness /\ WriterFairness

-----------------------------------------------------------------------------
(* Properties. *)

\* Every variable has its type.
TypeOK ==
  /\ now \in Nat
  /\ matches \in [MatchIds -> Match]
  /\ predictions \in [Users -> [MatchIds -> Prediction]]
  /\ request \in [Users -> Request \union {Idle}]
  /\ todo \in [Ingests -> SUBSET ApiMatches]
  /\ intent \in [Writers -> Intent \union {Idle}]
  /\ snap \in [Writers -> Picks \union {NoTx}]
  /\ rebuild \in [Rebuilds -> Rebuild]
  /\ shown \in [MatchIds -> BOOLEAN]
  /\ corrected \in [MatchIds -> Result \union {NoResult}]
  /\ raced \in [MatchIds -> BOOLEAN]
  /\ clean \in [Rebuilds -> BOOLEAN]

\* A correction entered by an admin while no ingest run is past its override
\* check on the match is never replaced by anything but another correction,
\* whatever jobs, re-seeds, edits and restarts follow (results_ingest.go, the
\* manual_override check; admin_matches_handler.go, SetMatchManualOverride).
CorrectionStands ==
  \A m \in MatchIds :
    corrected[m] # NoResult /\ ~raced[m] => matches[m].result = corrected[m]

\* A stored correction is never overwritten but by another one, an ingest run
\* past its check or not.
CorrectionNeverOverwritten ==
  \A m \in MatchIds : corrected[m] # NoResult => matches[m].result = corrected[m]

\* The points of a prediction on a final match are those of the stored result
\* and stage.
Fresh(u, m) ==
  (matches[m].status = "final" /\ predictions[u][m].pick # NoPick) =>
     predictions[u][m].score =
       Compute(predictions[u][m].pick, Scoreline(m), Knockout(m))

\* Result and points are one transaction, and picks are locked before a result
\* can exist: outside a recompute run, a final match is always fully scored.
FinalPointsFresh == \A u \in Users, m \in MatchIds : Fresh(u, m)

\* A recompute run nobody else wrote during leaves every prediction on every
\* final match with the points of the stored result, however stale, unscored
\* or half-rewritten they were when it started (recompute.go, Run).
RebuildRestores ==
  \A r \in Rebuilds : RebuildDone(r) /\ clean[r] => FinalPointsFresh

\* A prediction carries points only for a match that has a result, and a final
\* match always has one: ListFinalMatches never invents a 0-0.
PointsNeedResult ==
  \A m \in MatchIds :
    /\ matches[m].status = "final" => matches[m].result # NoResult
    /\ \A u \in Users : predictions[u][m].score # NoScore => matches[m].result # NoResult

\* Deleting a match leaves nothing of it behind, and neither an upsert in
\* flight nor a job that read the match before can put anything back.
NoOrphans ==
  \A u \in Users, m \in MatchIds : ~Exists(m) => predictions[u][m] = NoRow

\* Once a match's picks have been shown to others none of them changes.
ShownPicksFrozen ==
  [][\A u \in Users, m \in MatchIds :
       shown[m] /\ Exists(m)' => predictions'[u][m].pick = predictions[u][m].pick]_vars

\* PutPrediction accepts nothing at or after kickoff, whenever the row is
\* written (prediction_handler.go, the lock).
NoLateWrite ==
  [][\A u \in Users, m \in MatchIds :
       predictions'[u][m].pick \notin {NoPick, predictions[u][m].pick}
         => BeforeKickoff(m)]_vars

\* The row the ingest ought to find for an API match: the same fixture, and no
\* other row carries the API's id.
Corresponds(m, a) ==
  /\ Exists(m) /\ matches[m].kickoff = a.utc
  /\ matches[m].home = a.homeTeam /\ matches[m].away = a.awayTeam
  /\ \A n \in MatchIds \ {m} : matches[n].api # a.id

\* A match the API reports finished, inside the run's window and never touched
\* by an admin, is eventually final although runs fail, overlap and restart
\* (results_ingest.go: an aborted run leaves the rest to the next cron).
FinishedMatchSettles ==
  \A m \in MatchIds, a \in ApiMatches :
    LET due == Reported(a) /\ Scoreable(a) /\ Corresponds(m, a) /\ ~matches[m].override
    IN  due ~> (matches[m].status = "final" \/ ~due)

=============================================================================
