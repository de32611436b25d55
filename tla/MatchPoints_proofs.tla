------------------------- MODULE MatchPoints_proofs -------------------------
(***************************************************************************)
(* Theorems about MatchPoints, for every set of users, admins, runs,       *)
(* matches and inputs: types, then safety.  Deletions leave nothing        *)
(* behind, corrections stand, and a recompute run nobody else disturbs     *)
(* restores every score.                                                   *)
(*                                                                         *)
(* Each proof has one step per action group, and looks inside a group only *)
(* for the actions that write what the invariant reads.                    *)
(***************************************************************************)
EXTENDS MatchPoints, TLAPS

-----------------------------------------------------------------------------
(* Scoring. *)

\* The engine returns a score: 0, 3 or 5 points and at most one bonus point.
LEMMA ComputeType ==
  ASSUME NEW p \in Pick, NEW r \in Result, NEW k
  PROVE  Compute(p, r, k) \in Score
BY DEF Compute, Score, Zero, Tier, Pick, Result

\* A result read from the API is a result.
LEMMA ToResultType ==
  ASSUME NEW a \in ApiMatch
  PROVE  ToResult(a, a.homeTeam, a.awayTeam) \in Result
BY DEF ApiMatch, ToResult, PenaltyWinnerID, Result, TeamOrNone

\* Scoring a row keeps its pick and yields a row.
LEMMA SetScoreType ==
  ASSUME NEW row \in Prediction, NEW p \in Pick \union {NoPick},
         NEW r \in Result, NEW k
  PROVE  /\ SetScore(row, p, r, k) \in Prediction
         /\ SetScore(row, p, r, k).pick = row.pick
BY ComputeType DEF SetScore, Prediction

LEMMA NewRowType ==
  ASSUME NEW f \in Fixture, NEW s \in Sources \union {NoSource}, NEW o \in BOOLEAN
  PROVE  NewRow(f, s, o) \in Match
BY DEF NewRow, Match, Fixture

LEMMA NoMatchType ==
  ASSUME NEW s \in {"unused", "deleted"}
  PROVE  NoMatch(s) \in Match
BY DEF NoMatch, Match, TeamOrNone

LEMMA RestingType == Resting \in Rebuild
BY DEF Resting, Rebuild, Picks, NoPicks

LEMMA FinalOfType ==
  ASSUME TypeOK, NEW m \in MatchIds
  PROVE  FinalOf(m) \in Final
BY DEF TypeOK, FinalOf, Final, Scoreline, Knockout, Match, Result, TeamOrNone

-----------------------------------------------------------------------------
(* Type correctness. *)

\* A recompute run inside a match holds that match and its listed result: the
\* strengthening TypeOK needs, since SetScore is applied to what the run holds.
CursorOK ==
  \A r \in Rebuilds : rebuild[r].phase = "rows" =>
    rebuild[r].match \in MatchIds /\ rebuild[r].finals[rebuild[r].match] # Idle

LEMMA InitTypeOK == Init => TypeOK
<1> SUFFICES ASSUME Init PROVE TypeOK
  OBVIOUS
<1>1. matches \in [MatchIds -> Match]
  BY InputsAssumption, NewRowType, NoMatchType DEF Init
<1>2. rebuild \in [Rebuilds -> Rebuild]
  BY RestingType DEF Init
<1>3. predictions \in [Users -> [MatchIds -> Prediction]]
  BY DEF Init, Prediction, NoRow
<1>4. QED BY <1>1, <1>2, <1>3 DEF Init, TypeOK

LEMMA PlayerTypeOK == ASSUME TypeOK, PlayerNext PROVE TypeOK'
<1>1. ASSUME NEW u \in Users, NEW m \in MatchIds, NEW p \in PickInputs,
             CheckPrediction(u, m, p)
      PROVE  TypeOK'
  BY <1>1, InputsAssumption DEF TypeOK, CheckPrediction, Request, db, ghost
<1>2. ASSUME NEW u \in Users, StorePrediction(u) PROVE TypeOK'
  <2>1. request[u] \in Request
    BY <1>2 DEF StorePrediction, TypeOK
  <2> DEFINE m == request[u].match
  <2>1a. m \in MatchIds /\ request[u].pick \in Pick
    BY <2>1 DEF Request
  <2>1b. \A row \in Prediction, p \in Pick : [row EXCEPT !.pick = p] \in Prediction
    BY DEF Prediction
  <2>2. predictions' \in [Users -> [MatchIds -> Prediction]]
    BY <1>2, <2>1a, <2>1b DEF StorePrediction, TypeOK
  <2>3. QED BY <1>2, <2>2 DEF StorePrediction, TypeOK, Disturb
<1>3. ASSUME NEW u \in Users, RejectPrediction(u) PROVE TypeOK'
  BY <1>3 DEF TypeOK, RejectPrediction, db, ghost
<1>4. ASSUME NEW m \in MatchIds, RevealPicks(m) PROVE TypeOK'
  BY <1>4 DEF TypeOK, RevealPicks, db, runs
<1>5. QED BY <1>1, <1>2, <1>3, <1>4 DEF PlayerNext

LEMMA WriterTypeOK == ASSUME TypeOK, WriterNext PROVE TypeOK'
<1>1. ASSUME NEW w \in Writers, BeginWrite(w) PROVE TypeOK'
  <2>1. intent[w] \in Intent
    BY <1>1 DEF BeginWrite, TypeOK
  <2>2. [u \in Users |-> predictions[u][intent[w].match].pick] \in Picks
    BY <2>1 DEF TypeOK, Intent, Prediction, Picks
  <2>3. QED BY <1>1, <2>2 DEF BeginWrite, TypeOK, db, ghost
<1>2. ASSUME NEW w \in Writers, CommitWrite(w) PROVE TypeOK'
  <2> DEFINE t == intent[w]
  <2>1. /\ t \in Intent /\ snap[w] \in Picks
        /\ t.match \in MatchIds /\ t.result \in Result /\ t.api \in ApiIds \union {NoApi}
    BY <1>2 DEF CommitWrite, TypeOK, Intent
  <2>2. \A row \in Match : Finalized(row, t, w) \in Match
    BY <2>1 DEF Finalized, Match
  <2>3. matches' \in [MatchIds -> Match]
    BY <1>2, <2>1, <2>2 DEF CommitWrite, TypeOK
  <2>4. predictions' \in [Users -> [MatchIds -> Prediction]]
    <3>1. ASSUME NEW u \in Users
          PROVE  SetScore(predictions[u][t.match], snap[w][u], t.result, t.knockout)
                   \in Prediction
      BY <2>1, SetScoreType DEF TypeOK, Picks
    <3>2. QED BY <1>2, <2>1, <3>1 DEF CommitWrite, TypeOK
  <2>5. corrected' \in [MatchIds -> Result \union {NoResult}] /\ raced' \in [MatchIds -> BOOLEAN]
    BY <1>2, <2>1 DEF CommitWrite, TypeOK, IngestHolds
  <2>6. intent' \in [Writers -> Intent \union {Idle}] /\ snap' \in [Writers -> Picks \union {NoTx}]
    BY <1>2 DEF CommitWrite, TypeOK
  <2>7. QED BY <1>2, <2>3, <2>4, <2>5, <2>6 DEF CommitWrite, TypeOK, Disturb
<1>3. ASSUME NEW w \in Writers, FailWrite(w) PROVE TypeOK'
  BY <1>3 DEF FailWrite, TypeOK, db, ghost
<1>4. QED BY <1>1, <1>2, <1>3 DEF WriterNext

LEMMA IngestTypeOK == ASSUME TypeOK, IngestNext PROVE TypeOK'
<1>1. ASSUME NEW i \in Ingests, StartIngest(i) PROVE TypeOK'
  BY <1>1 DEF StartIngest, TypeOK, db, ghost
<1>2. ASSUME NEW i \in Ingests, TakeMatch(i) PROVE TypeOK'
  <2>1. PICK a \in todo[i] : \E m \in FoundRows(a) :
          /\ intent' = [intent EXCEPT ![i] =
               [match |-> m, result |-> ToResult(a, a.homeTeam, a.awayTeam),
                knockout |-> ApiKnockout(a), api |-> a.id]]
          /\ todo' = [todo EXCEPT ![i] = @ \ {a}]
    BY <1>2 DEF TakeMatch
  <2>1a. PICK m \in FoundRows(a) :
          /\ intent' = [intent EXCEPT ![i] =
               [match |-> m, result |-> ToResult(a, a.homeTeam, a.awayTeam),
                knockout |-> ApiKnockout(a), api |-> a.id]]
          /\ todo' = [todo EXCEPT ![i] = @ \ {a}]
    BY <2>1
  <2>2. a \in ApiMatch /\ a.id \in ApiIds
    BY <2>1, InputsAssumption DEF TypeOK, ApiMatch
  <2>3. m \in MatchIds
    BY <2>1a DEF FoundRows
  <2>4. [match |-> m, result |-> ToResult(a, a.homeTeam, a.awayTeam),
         knockout |-> ApiKnockout(a), api |-> a.id] \in Intent
    BY <2>2, <2>3, ToResultType DEF Intent, ApiKnockout
  <2>5. intent' \in [Writers -> Intent \union {Idle}] /\ todo' \in [Ingests -> SUBSET ApiMatches]
    BY <2>1a, <2>4 DEF TypeOK
  <2>6. QED BY <1>2, <2>5 DEF TakeMatch, TypeOK, db, ghost
<1>3. ASSUME NEW i \in Ingests, SkipMatch(i) PROVE TypeOK'
  BY <1>3 DEF SkipMatch, TypeOK, db, ghost
<1>4. QED BY <1>1, <1>2, <1>3 DEF IngestNext

LEMMA AdminTypeOK == ASSUME TypeOK, AdminNext PROVE TypeOK'
<1>1. ASSUME NEW a \in Admins, NEW m \in MatchIds, NEW res \in ResultInputs,
             EnterResult(a, m, res)
      PROVE  TypeOK'
  <2>1. [match |-> m, result |-> res, knockout |-> Knockout(m), api |-> matches[m].api]
          \in Intent
    BY InputsAssumption DEF Intent, TypeOK, Match, Knockout
  <2>2. QED BY <1>1, <2>1 DEF EnterResult, TypeOK, db, ghost
<1>2. ASSUME NEW m \in MatchIds, NEW f \in FixtureInputs, EditMatch(m, f) PROVE TypeOK'
  <2>1. f \in Fixture
    BY InputsAssumption
  <2>1a. \A row \in Match :
           [row EXCEPT !.home = f.home, !.away = f.away, !.kickoff = f.kickoff,
                       !.stage = f.stage, !.override = TRUE] \in Match
    BY <2>1 DEF Match, Fixture
  <2>2. matches' \in [MatchIds -> Match]
    BY <1>2, <2>1a DEF EditMatch, TypeOK
  <2>3. QED BY <1>2, <2>2 DEF EditMatch, TypeOK, runs, Disturb
<1>3. ASSUME NEW m \in MatchIds, NEW f \in FixtureInputs, CreateMatch(m, f) PROVE TypeOK'
  <2>1. PICK s \in Sources \union {NoSource} :
               matches' = [matches EXCEPT ![m] = NewRow(f, s, TRUE)]
    BY <1>3 DEF CreateMatch
  <2>2. NewRow(f, s, TRUE) \in Match
    BY InputsAssumption, NewRowType
  <2>3. QED BY <1>3, <2>1, <2>2 DEF CreateMatch, TypeOK, runs, Disturb
<1>4. ASSUME NEW m \in MatchIds, DeleteMatch(m) PROVE TypeOK'
  BY <1>4, NoMatchType DEF DeleteMatch, Cascade, TypeOK, runs, Disturb, NoRow, Prediction
<1>5. QED BY <1>1, <1>2, <1>3, <1>4 DEF AdminNext

LEMMA ReseedTypeOK == ASSUME TypeOK, NEW s \in Sources, Reseed(s) PROVE TypeOK'
<1>1. Seed[s] \in Fixture
  BY InputsAssumption
<1>1a. \A row \in Match :
         [row EXCEPT !.status = "scheduled", !.home = Seed[s].home,
                     !.away = Seed[s].away, !.kickoff = Seed[s].kickoff,
                     !.stage = Seed[s].stage] \in Match
  BY <1>1 DEF Match, Fixture
<1>1b. NewRow(Seed[s], s, FALSE) \in Match
  BY <1>1, NewRowType
<1>2. matches' \in [MatchIds -> Match]
  <2>1. PICK m \in MatchIds :
          \/ matches' = [matches EXCEPT ![m] =
                [@ EXCEPT !.status = "scheduled", !.home = Seed[s].home,
                          !.away = Seed[s].away, !.kickoff = Seed[s].kickoff,
                          !.stage = Seed[s].stage]]
          \/ matches' = [matches EXCEPT ![m] = NewRow(Seed[s], s, FALSE)]
    BY DEF Reseed
  <2>2. matches \in [MatchIds -> Match] /\ matches[m] \in Match
    BY DEF TypeOK
  <2>3. QED BY <1>1a, <1>1b, <2>1, <2>2
<1>3. QED BY <1>2 DEF Reseed, TypeOK, runs, Disturb

\* Listing a match's rows leaves a run a run.
LEMMA RowsListed ==
  ASSUME NEW b \in Rebuild, NEW m \in MatchIds, NEW l \in Picks
  PROVE  [b EXCEPT !.phase = "rows", !.match = m, !.rows = l] \in Rebuild
BY DEF Rebuild

LEMMA RebuildTypeOK == ASSUME TypeOK, CursorOK, RebuildNext PROVE TypeOK' /\ CursorOK'
<1>1. ASSUME NEW r \in Rebuilds, StartRebuild(r) PROVE TypeOK' /\ CursorOK'
  <2>1. rebuild' \in [Rebuilds -> Rebuild]
    BY <1>1, FinalOfType DEF StartRebuild, TypeOK, Rebuild, NoPicks, Picks
  <2>2. CursorOK'
    BY <1>1 DEF StartRebuild, TypeOK, CursorOK
  <2>3. QED BY <1>1, <2>1, <2>2 DEF StartRebuild, TypeOK, db
<1>2. ASSUME NEW r \in Rebuilds, NEW m \in MatchIds, ListRows(r, m)
      PROVE  TypeOK' /\ CursorOK'
  <2>1. [u \in Users |-> predictions[u][m].pick] \in Picks
    BY DEF TypeOK, Prediction, Picks
  <2>1a. [rebuild[r] EXCEPT !.phase = "rows", !.match = m,
                             !.rows = [u \in Users |-> predictions[u][m].pick]] \in Rebuild
    <3>1. rebuild[r] \in Rebuild
      BY DEF TypeOK
    <3>2. QED BY <2>1, <3>1, RowsListed
  <2>2. rebuild' \in [Rebuilds -> Rebuild]
    BY <1>2, <2>1a DEF ListRows, TypeOK
  <2>3. CursorOK'
    BY <1>2 DEF ListRows, TypeOK, CursorOK, Rebuild
  <2>4. QED BY <1>2, <2>2, <2>3 DEF ListRows, TypeOK, db, ghost
<1>3. ASSUME NEW r \in Rebuilds, NEW u \in Users, ScoreRow(r, u)
      PROVE  TypeOK' /\ CursorOK'
  <2> DEFINE b == rebuild[r]
  <2>1. b \in Rebuild /\ b.match \in MatchIds /\ b.finals[b.match] # Idle
    BY <1>3 DEF TypeOK, CursorOK, ScoreRow
  <2>2. rebuild' \in [Rebuilds -> Rebuild]
    BY <1>3, <2>1 DEF ScoreRow, TypeOK, Rebuild, Picks
  <2>3. b.finals[b.match].result \in Result /\ b.rows[u] \in Pick \union {NoPick}
    BY <2>1 DEF Rebuild, Final, Picks
  <2>4. SetScore(predictions[u][b.match], b.rows[u], b.finals[b.match].result,
                 b.finals[b.match].knockout) \in Prediction
    BY <2>1, <2>3, SetScoreType DEF TypeOK
  <2>5. predictions' \in [Users -> [MatchIds -> Prediction]]
    BY <1>3, <2>1, <2>4 DEF ScoreRow, TypeOK
  <2>6. CursorOK'
    BY <1>3, <2>1 DEF ScoreRow, TypeOK, CursorOK, Rebuild
  <2>7. QED BY <1>3, <2>2, <2>5, <2>6 DEF ScoreRow, TypeOK
<1>4. ASSUME NEW r \in Rebuilds, NextMatch(r) PROVE TypeOK' /\ CursorOK'
  <2>1a. rebuild[r] \in Rebuild /\ rebuild[r].match \in MatchIds
    BY <1>4 DEF NextMatch, TypeOK, CursorOK
  <2>1b. [phase |-> "list", match |-> Idle, rows |-> NoPicks,
          finals |-> [rebuild[r].finals EXCEPT ![rebuild[r].match] = Idle]] \in Rebuild
    BY <2>1a DEF Rebuild, NoPicks, Picks
  <2>1. rebuild' \in [Rebuilds -> Rebuild]
    BY <1>4, <2>1b DEF NextMatch, TypeOK
  <2>2. CursorOK'
    BY <1>4 DEF NextMatch, TypeOK, CursorOK, Rebuild
  <2>3. QED BY <1>4, <2>1, <2>2 DEF NextMatch, TypeOK, db, ghost
<1>5. ASSUME NEW r \in Rebuilds, EndRebuild(r) \/ FailRebuild(r)
      PROVE  TypeOK' /\ CursorOK'
  <2>1. rebuild' = [rebuild EXCEPT ![r] = Resting]
    BY <1>5 DEF EndRebuild, FailRebuild
  <2>2. rebuild' \in [Rebuilds -> Rebuild]
    BY <2>1, RestingType DEF TypeOK
  <2>3. CursorOK'
    BY <2>1 DEF TypeOK, CursorOK, Resting
  <2>4. QED BY <1>5, <2>2, <2>3 DEF EndRebuild, FailRebuild, TypeOK, db, ghost
<1>6. QED BY <1>1, <1>2, <1>3, <1>4, <1>5 DEF RebuildNext

LEMMA RestartTypeOK == ASSUME TypeOK, Restart PROVE TypeOK' /\ CursorOK'
<1>1. CursorOK'
  BY DEF Restart, CursorOK, Resting
<1>2. QED BY <1>1, RestingType DEF Restart, TypeOK, db, ghost

\* The recompute runs stay put in every step that is not theirs.
LEMMA OthersKeepRebuild ==
  ASSUME Tick \/ PlayerNext \/ WriterNext \/ IngestNext \/ AdminNext
           \/ \E s \in Sources : Reseed(s)
  PROVE  UNCHANGED rebuild
BY DEF Tick, PlayerNext, CheckPrediction, StorePrediction, RejectPrediction, RevealPicks,
       WriterNext, BeginWrite, CommitWrite, FailWrite,
       IngestNext, StartIngest, TakeMatch, SkipMatch,
       AdminNext, EnterResult, EditMatch, CreateMatch, DeleteMatch, Reseed, runs

LEMMA NextTypeOK == ASSUME TypeOK, CursorOK, [Next]_vars PROVE TypeOK' /\ CursorOK'
<1>1. CASE Tick
  BY <1>1, OthersKeepRebuild DEF Tick, TypeOK, CursorOK, db, runs, ghost
<1>2. CASE PlayerNext
  BY <1>2, PlayerTypeOK, OthersKeepRebuild DEF CursorOK
<1>3. CASE WriterNext
  BY <1>3, WriterTypeOK, OthersKeepRebuild DEF CursorOK
<1>4. CASE IngestNext
  BY <1>4, IngestTypeOK, OthersKeepRebuild DEF CursorOK
<1>5. CASE AdminNext
  BY <1>5, AdminTypeOK, OthersKeepRebuild DEF CursorOK
<1>6. CASE RebuildNext
  BY <1>6, RebuildTypeOK
<1>7. CASE \E s \in Sources : Reseed(s)
  BY <1>7, ReseedTypeOK, OthersKeepRebuild DEF CursorOK
<1>8. CASE Restart
  BY <1>8, RestartTypeOK
<1>9. CASE UNCHANGED vars
  BY <1>9 DEF vars, TypeOK, CursorOK, db, runs, ghost
<1>10. QED BY <1>1, <1>2, <1>3, <1>4, <1>5, <1>6, <1>7, <1>8, <1>9 DEF Next

LEMMA Typing == Spec => [](TypeOK /\ CursorOK)
<1>1. Init => TypeOK /\ CursorOK
  BY InitTypeOK DEF Init, CursorOK, Resting
<1>2. TypeOK /\ CursorOK /\ [Next]_vars => (TypeOK /\ CursorOK)'
  BY NextTypeOK
<1>3. QED BY <1>1, <1>2, PTL DEF Spec

\* Every variable keeps its type in every behaviour.
THEOREM TypeCorrect == Spec => []TypeOK
BY Typing, PTL


-----------------------------------------------------------------------------
(* What each action group leaves alone. *)

LEMMA PlayerFrame ==
  ASSUME PlayerNext
  PROVE  UNCHANGED <<now, matches, todo, intent, snap, rebuild, corrected, raced>>
BY DEF PlayerNext, CheckPrediction, StorePrediction, RejectPrediction, RevealPicks,
       db, runs, ghost

LEMMA IngestFrame ==
  ASSUME IngestNext
  PROVE  UNCHANGED <<now, db, request, snap, rebuild, ghost>>
BY DEF IngestNext, StartIngest, TakeMatch, SkipMatch

LEMMA RebuildFrame ==
  ASSUME RebuildNext
  PROVE  UNCHANGED <<now, matches, request, todo, intent, snap, shown, corrected, raced>>
BY DEF RebuildNext, StartRebuild, ListRows, ScoreRow, NextMatch, EndRebuild, FailRebuild,
       db, ghost

\* Reseeding writes one row, which no corrected match has, and leaves it there.
LEMMA ReseedRow ==
  ASSUME TypeOK, NEW s \in Sources, Reseed(s)
  PROVE  \E m \in MatchIds : /\ \A n \in MatchIds \ {m} : matches'[n] = matches[n]
                             /\ matches'[m].status = "scheduled"
                             /\ ~(Exists(m) /\ matches[m].override)
<1>1. matches \in [MatchIds -> Match] /\ \A m \in MatchIds : matches[m] \in Match
  BY DEF TypeOK
<1>2. ASSUME NEW m \in MatchIds, Exists(m), ~matches[m].override,
             matches' = [matches EXCEPT ![m] =
                [@ EXCEPT !.status = "scheduled", !.home = Seed[s].home,
                          !.away = Seed[s].away, !.kickoff = Seed[s].kickoff,
                          !.stage = Seed[s].stage]]
      PROVE  /\ \A n \in MatchIds \ {m} : matches'[n] = matches[n]
             /\ matches'[m].status = "scheduled"
  <2>1. matches[m] \in Match
    BY <1>1
  <2>2. matches'[m] = [matches[m] EXCEPT !.status = "scheduled", !.home = Seed[s].home,
                          !.away = Seed[s].away, !.kickoff = Seed[s].kickoff,
                          !.stage = Seed[s].stage]
    BY <1>1, <1>2
  <2>3. matches'[m].status = "scheduled"
    BY <2>1, <2>2 DEF Match
  <2>4. QED BY <1>1, <1>2, <2>3
<1>3. ASSUME NEW m \in MatchIds, matches[m].status = "unused",
             matches' = [matches EXCEPT ![m] = NewRow(Seed[s], s, FALSE)]
      PROVE  /\ \A n \in MatchIds \ {m} : matches'[n] = matches[n]
             /\ matches'[m].status = "scheduled" /\ ~Exists(m)
  <2>1. matches'[m] = NewRow(Seed[s], s, FALSE)
    BY <1>1, <1>3
  <2>2. QED BY <1>1, <1>3, <2>1 DEF NewRow, Exists
<1>4. QED BY <1>2, <1>3 DEF Reseed

-----------------------------------------------------------------------------
(* Deletion. *)

LEMMA InitNoOrphans == Init => NoOrphans
BY DEF Init, NoOrphans

\* A row that is not there is not scored.
LEMMA SetScoreNoRow ==
  ASSUME NEW p, NEW res, NEW k
  PROVE  SetScore(NoRow, p, res, k) = NoRow
BY DEF SetScore, NoRow

LEMMA NextNoOrphans == ASSUME TypeOK, CursorOK, NoOrphans, [Next]_vars PROVE NoOrphans'
<1>1. CASE Tick \/ IngestNext \/ Restart \/ UNCHANGED vars
  BY <1>1, IngestFrame DEF Tick, Restart, vars, db, NoOrphans, Exists
<1>2. CASE PlayerNext
  <2>1. ASSUME NEW u \in Users, StorePrediction(u) PROVE NoOrphans'
    <3>1. request[u] \in Request /\ Exists(request[u].match)
      BY <2>1 DEF StorePrediction, TypeOK
    <3>2. QED BY <2>1, <3>1 DEF StorePrediction, NoOrphans, TypeOK, Exists, Request
  <2>2. ASSUME UNCHANGED db PROVE NoOrphans'
    BY <2>2 DEF db, NoOrphans, Exists
  <2>3. QED BY <1>2, <2>1, <2>2
            DEF PlayerNext, CheckPrediction, RejectPrediction, RevealPicks
<1>3. CASE WriterNext
  <2>1. ASSUME NEW w \in Writers, CommitWrite(w) PROVE NoOrphans'
    <3> DEFINE t == intent[w]
    <3>1. t \in Intent /\ t.match \in MatchIds
      BY <2>1 DEF CommitWrite, TypeOK, Intent
    <3>2. \A m \in MatchIds : Exists(m) => Exists(m)'
      BY <2>1, <3>1 DEF CommitWrite, TypeOK, Exists, Finalized, Match
    <3>3. SUFFICES ASSUME NEW u \in Users, NEW m \in MatchIds, ~Exists(m)'
                   PROVE  predictions'[u][m] = NoRow
      BY DEF NoOrphans
    <3>4. predictions[u][m] = NoRow
      BY <3>2, <3>3 DEF NoOrphans
    <3>5. predictions'[u][m] =
            IF m = t.match THEN SetScore(predictions[u][m], snap[w][u], t.result, t.knockout)
            ELSE predictions[u][m]
      BY <2>1, <3>1 DEF CommitWrite, TypeOK
    <3>6. QED BY <3>4, <3>5, SetScoreNoRow
  <2>2. ASSUME UNCHANGED db PROVE NoOrphans'
    BY <2>2 DEF db, NoOrphans, Exists
  <2>3. QED BY <1>3, <2>1, <2>2 DEF WriterNext, BeginWrite, FailWrite
<1>4. CASE AdminNext
  <2>1. ASSUME NEW a \in Admins, NEW m \in MatchIds, NEW res \in ResultInputs,
               EnterResult(a, m, res)
        PROVE  NoOrphans'
    BY <2>1 DEF EnterResult, db, NoOrphans, Exists
  <2>2. ASSUME NEW m \in MatchIds, NEW f \in FixtureInputs,
               EditMatch(m, f) \/ CreateMatch(m, f)
        PROVE  NoOrphans'
    <3>1. matches'[m].status = "scheduled" \/ matches'[m].status = matches[m].status
      <4>1. matches[m] \in Match
        BY DEF TypeOK
      <4>2. CASE EditMatch(m, f)
        BY <4>1, <4>2 DEF EditMatch, TypeOK, Match
      <4>3. CASE CreateMatch(m, f)
        <5>1. PICK s \in Sources \union {NoSource} :
                     matches' = [matches EXCEPT ![m] = NewRow(f, s, TRUE)]
          BY <4>3 DEF CreateMatch
        <5>2. NewRow(f, s, TRUE).status = "scheduled"
          BY DEF NewRow
        <5>3. QED BY <4>3, <5>1, <5>2 DEF CreateMatch, TypeOK
      <4>4. QED BY <2>2, <4>2, <4>3
    <3>2. \A n \in MatchIds : Exists(n) => Exists(n)'
      BY <2>2, <3>1 DEF EditMatch, CreateMatch, TypeOK, Exists
    <3>3. UNCHANGED predictions
      BY <2>2 DEF EditMatch, CreateMatch
    <3>4. QED BY <3>2, <3>3 DEF NoOrphans
  <2>3. ASSUME NEW m \in MatchIds, DeleteMatch(m) PROVE NoOrphans'
    BY <2>3 DEF DeleteMatch, Cascade, NoOrphans, TypeOK, Exists
  <2>4. QED BY <1>4, <2>1, <2>2, <2>3 DEF AdminNext
<1>5. CASE \E s \in Sources : Reseed(s)
  <2>1. PICK s \in Sources : Reseed(s)
    BY <1>5
  <2>2. \A n \in MatchIds : Exists(n) => Exists(n)'
    BY <2>1, ReseedRow DEF Exists
  <2>3. UNCHANGED predictions
    BY <2>1 DEF Reseed
  <2>4. QED BY <2>2, <2>3 DEF NoOrphans
<1>6. CASE RebuildNext
  <2>1. \A m \in MatchIds : Exists(m)' <=> Exists(m)
    BY <1>6, RebuildFrame DEF Exists
  <2>2. ASSUME NEW r \in Rebuilds, NEW u \in Users, ScoreRow(r, u) PROVE NoOrphans'
    <3> DEFINE b == rebuild[r]
    <3>1. b.match \in MatchIds
      BY <2>2 DEF ScoreRow, CursorOK
    <3>2. \A v \in Users, m \in MatchIds :
            \/ predictions'[v][m] = predictions[v][m]
            \/ predictions'[v][m] = SetScore(predictions[v][m], b.rows[u],
                                             b.finals[b.match].result,
                                             b.finals[b.match].knockout)
      BY <2>2, <3>1 DEF ScoreRow, TypeOK
    <3>3. QED BY <2>1, <3>2, SetScoreNoRow DEF NoOrphans
  <2>3. ASSUME UNCHANGED predictions PROVE NoOrphans'
    BY <2>1, <2>3 DEF NoOrphans
  <2>4. QED BY <1>6, <2>2, <2>3
            DEF RebuildNext, StartRebuild, ListRows, NextMatch, EndRebuild, FailRebuild, db
<1>7. QED BY <1>1, <1>2, <1>3, <1>4, <1>5, <1>6 DEF Next

\* Deleting a match leaves nothing of it behind: no upsert in flight, job or
\* transaction begun before puts a prediction back (ON DELETE CASCADE, the
\* foreign key, UPDATE of a row that has gone).
THEOREM DeletionIsFinal == Spec => []NoOrphans
<1>1. TypeOK /\ CursorOK /\ NoOrphans /\ [Next]_vars => NoOrphans'
  BY NextNoOrphans
<1>2. QED BY InitNoOrphans, Typing, <1>1, PTL DEF Spec

-----------------------------------------------------------------------------
(* Corrections. *)

\* CorrectionStands is not inductive: what keeps a correction in place is that
\* its row is overridden, so no run takes it on and no re-seed touches it, and
\* that no run that took it on before is still holding it.
CorrectionInv ==
  \A m \in MatchIds : corrected[m] # NoResult /\ ~raced[m] =>
    /\ Exists(m) /\ matches[m].override /\ matches[m].result = corrected[m]
    /\ \A i \in Ingests : intent[i] # Idle => intent[i].match # m

LEMMA NextCorrectionInv ==
  ASSUME TypeOK, CorrectionInv, [Next]_vars PROVE CorrectionInv'
<1>1. CASE Tick \/ UNCHANGED vars
  BY <1>1 DEF Tick, vars, db, runs, ghost, CorrectionInv, Exists
<1>2. CASE PlayerNext
  BY <1>2, PlayerFrame DEF CorrectionInv, Exists
<1>3. CASE RebuildNext
  BY <1>3, RebuildFrame DEF CorrectionInv, Exists
<1>4. CASE Restart
  BY <1>4 DEF Restart, db, ghost, CorrectionInv, Exists, Writers
<1>5. CASE WriterNext
  <2>1. ASSUME NEW w \in Writers, BeginWrite(w) PROVE CorrectionInv'
    BY <2>1 DEF BeginWrite, db, ghost, CorrectionInv, Exists
  <2>2. ASSUME NEW w \in Writers, FailWrite(w) PROVE CorrectionInv'
    BY <2>2 DEF FailWrite, db, ghost, CorrectionInv, Exists, TypeOK, Writers
  <2>3. ASSUME NEW w \in Writers, CommitWrite(w) PROVE CorrectionInv'
    <3> DEFINE t == intent[w]
    <3>1. /\ t \in Intent /\ t.match \in MatchIds /\ t # Idle
          /\ t.result \in Result /\ t.result # NoResult
      BY <2>3, NullsAssumption DEF CommitWrite, TypeOK, Intent
    <3>2. \A i \in Ingests : intent'[i] # Idle => intent'[i] = intent[i] /\ intent[i] # Idle
      BY <2>3 DEF CommitWrite, TypeOK, Writers
    <3>3. ASSUME NEW m \in MatchIds, corrected'[m] # NoResult, ~raced'[m], m # t.match
          PROVE  /\ Exists(m)' /\ matches'[m].override /\ matches'[m].result = corrected'[m]
                 /\ \A i \in Ingests : intent'[i] # Idle => intent'[i].match # m
      <4>1. matches'[m] = matches[m] /\ corrected'[m] = corrected[m] /\ raced'[m] = raced[m]
        BY <2>3, <3>1, <3>3 DEF CommitWrite, TypeOK
      <4>2. QED BY <3>2, <3>3, <4>1 DEF CorrectionInv, Exists
    <3>4. CASE w \in Ingests
      <4>1. corrected[t.match] = NoResult \/ raced[t.match]
        BY <3>1, <3>4 DEF CorrectionInv
      <4>2. corrected' = corrected /\ raced' = raced
        BY <2>3, <3>4, NullsAssumption DEF CommitWrite
      <4>3. QED BY <3>3, <4>1, <4>2 DEF CorrectionInv
    <3>5. CASE w \in Admins /\ ~Exists(t.match)
      <4>1. corrected[t.match] = NoResult \/ raced[t.match]
        BY <3>1, <3>5 DEF CorrectionInv
      <4>2. corrected' = corrected /\ raced' = raced
        BY <2>3, <3>5 DEF CommitWrite
      <4>3. QED BY <3>3, <4>1, <4>2 DEF CorrectionInv
    <3>6. CASE w \in Admins /\ Exists(t.match)
      <4>1. /\ matches'[t.match] = Finalized(matches[t.match], t, w)
            /\ corrected'[t.match] = t.result /\ raced'[t.match] = IngestHolds(t.match)
        BY <2>3, <3>1, <3>6 DEF CommitWrite, TypeOK
      <4>2. matches[t.match] \in Match
        BY <3>1 DEF TypeOK
      <4>3. /\ matches'[t.match].status = "final" /\ matches'[t.match].override
            /\ matches'[t.match].result = t.result
        BY <3>6, <4>1, <4>2 DEF Finalized, Match
      <4>4. ~raced'[t.match] =>
              /\ corrected'[t.match] = t.result
              /\ \A i \in Ingests : intent'[i] # Idle => intent'[i].match # t.match
        BY <3>2, <4>1 DEF IngestHolds
      <4>5. QED BY <3>1, <3>3, <4>3, <4>4 DEF CorrectionInv, Exists
    <3>7. QED BY <3>4, <3>5, <3>6 DEF Writers
  <2>4. QED BY <1>5, <2>1, <2>2, <2>3 DEF WriterNext
<1>6. CASE IngestNext
  <2>1. ASSUME NEW i \in Ingests, TakeMatch(i) PROVE CorrectionInv'
    <3>1. PICK a \in todo[i] : \E m \in FoundRows(a) :
            /\ ~matches[m].override
            /\ intent' = [intent EXCEPT ![i] =
                 [match |-> m, result |-> ToResult(a, a.homeTeam, a.awayTeam),
                  knockout |-> ApiKnockout(a), api |-> a.id]]
      BY <2>1 DEF TakeMatch
    <3>2. PICK m \in FoundRows(a) :
            /\ ~matches[m].override
            /\ intent' = [intent EXCEPT ![i] =
                 [match |-> m, result |-> ToResult(a, a.homeTeam, a.awayTeam),
                  knockout |-> ApiKnockout(a), api |-> a.id]]
      BY <3>1
    <3>3. m \in MatchIds /\ (corrected[m] = NoResult \/ raced[m])
      BY <3>2 DEF FoundRows, CorrectionInv
    <3>4. \A j \in Ingests : intent'[j] = intent[j] \/ intent'[j].match = m
      BY <3>2 DEF TypeOK, Writers
    <3>5. QED BY <1>6, <3>3, <3>4, IngestFrame DEF CorrectionInv, Exists, db, ghost
  <2>2. ASSUME NEW i \in Ingests, StartIngest(i) \/ SkipMatch(i) PROVE CorrectionInv'
    BY <2>2 DEF StartIngest, SkipMatch, db, ghost, CorrectionInv, Exists
  <2>3. QED BY <1>6, <2>1, <2>2 DEF IngestNext
<1>7. CASE AdminNext
  <2>1. ASSUME NEW a \in Admins, NEW m \in MatchIds, NEW res \in ResultInputs,
               EnterResult(a, m, res)
        PROVE  CorrectionInv'
    <3>1. \A i \in Ingests : intent'[i] = intent[i]
      BY <2>1, NullsAssumption DEF EnterResult, TypeOK, Writers
    <3>2. QED BY <2>1, <3>1 DEF EnterResult, db, ghost, CorrectionInv, Exists
  <2>2. ASSUME NEW m \in MatchIds, NEW f \in FixtureInputs, EditMatch(m, f)
        PROVE  CorrectionInv'
    <3>1. \A n \in MatchIds : /\ matches'[n].status = matches[n].status
                              /\ matches'[n].result = matches[n].result
                              /\ matches[n].override => matches'[n].override
      BY <2>2 DEF EditMatch, TypeOK, Match
    <3>2. QED BY <2>2, <3>1 DEF EditMatch, runs, CorrectionInv, Exists
  <2>3. ASSUME NEW m \in MatchIds, NEW f \in FixtureInputs, CreateMatch(m, f)
        PROVE  CorrectionInv'
    BY <2>3 DEF CreateMatch, TypeOK, runs, CorrectionInv, Exists
  <2>4. ASSUME NEW m \in MatchIds, DeleteMatch(m) PROVE CorrectionInv'
    BY <2>4 DEF DeleteMatch, TypeOK, runs, CorrectionInv, Exists
  <2>5. QED BY <1>7, <2>1, <2>2, <2>3, <2>4 DEF AdminNext
<1>8. CASE \E s \in Sources : Reseed(s)
  <2>1. PICK s \in Sources : Reseed(s)
    BY <1>8
  <2>2. \A m \in MatchIds : Exists(m) /\ matches[m].override => matches'[m] = matches[m]
    BY <2>1, ReseedRow
  <2>3. UNCHANGED <<intent, corrected, raced>>
    BY <2>1 DEF Reseed, runs
  <2>4. QED BY <2>2, <2>3 DEF CorrectionInv, Exists
<1>9. QED BY <1>1, <1>2, <1>3, <1>4, <1>5, <1>6, <1>7, <1>8 DEF Next

\* A correction no run can have missed is never replaced by anything but another
\* correction, whatever jobs, re-seeds, edits and restarts follow.
THEOREM CorrectionsStand == Spec => []CorrectionStands
<1>1. Init => CorrectionInv
  BY DEF Init, CorrectionInv
<1>2. TypeOK /\ CorrectionInv /\ [Next]_vars => CorrectionInv'
  BY NextCorrectionInv
<1>3. CorrectionInv => CorrectionStands
  BY DEF CorrectionInv, CorrectionStands
<1>4. QED BY <1>1, <1>2, <1>3, Typing, PTL DEF Spec

-----------------------------------------------------------------------------
(* The recompute job. *)

\* A run nobody else wrote during: every match still on its list is final and
\* listed with the stored result and stage, every prediction it has passed is
\* fresh, and what it holds of the others is what is stored.
RunInv(r) ==
  \A m \in MatchIds :
    /\ rebuild[r].finals[m] = Idle => \A u \in Users : Fresh(u, m)
    /\ rebuild[r].finals[m] # Idle =>
         matches[m].status = "final" /\ rebuild[r].finals[m] = FinalOf(m)
    /\ rebuild[r].finals[m] # Idle /\ rebuild[r].phase = "rows" /\ rebuild[r].match = m =>
         \A u \in Users : IF rebuild[r].rows[u] = NoPick THEN Fresh(u, m)
                         ELSE rebuild[r].rows[u] = predictions[u][m].pick

RebuildInv == \A r \in Rebuilds : clean[r] /\ rebuild[r].phase # "idle" => RunInv(r)

\* Freshness reads one match row and one prediction.
LEMMA FreshFrame ==
  ASSUME NEW u, NEW m, matches'[m] = matches[m], predictions'[u][m] = predictions[u][m]
  PROVE  Fresh(u, m)' <=> Fresh(u, m)
BY DEF Fresh, Scoreline, Knockout, Compute, CorrectShootout, Tier, Sign, IsDraw, Zero

LEMMA FinalOfFrame ==
  ASSUME NEW m, matches'[m] = matches[m]
  PROVE  FinalOf(m)' = FinalOf(m)
BY DEF FinalOf, Scoreline, Knockout

\* A prediction just scored from the stored result is fresh.
LEMMA FreshWhenScored ==
  ASSUME NEW u, NEW m, matches'[m] = matches[m],
         predictions'[u][m].pick = predictions[u][m].pick,
         predictions'[u][m].score =
           Compute(predictions[u][m].pick, Scoreline(m), Knockout(m))
  PROVE  Fresh(u, m)'
BY DEF Fresh, Scoreline, Knockout, Compute, CorrectShootout, Tier, Sign, IsDraw, Zero

\* A step that writes nothing and moves no run.
LEMMA QuietRebuildInv ==
  ASSUME RebuildInv, UNCHANGED <<db, rebuild, clean>> PROVE RebuildInv'
<1>1. \A u, m : Fresh(u, m)' <=> Fresh(u, m)
  BY FreshFrame DEF db
<1>2. \A m : FinalOf(m)' = FinalOf(m)
  BY FinalOfFrame DEF db
<1>3. QED BY <1>1, <1>2 DEF RebuildInv, RunInv, db

\* A step that disturbs every run.
LEMMA DisturbRebuildInv == ASSUME Disturb PROVE RebuildInv'
BY DEF Disturb, RebuildInv

\* A step that only moves one run.
LEMMA OneRunRebuildInv ==
  ASSUME RebuildInv, TypeOK, NEW r \in Rebuilds, NEW b, UNCHANGED <<db, clean>>,
         rebuild' = [rebuild EXCEPT ![r] = b],
         clean[r] /\ b.phase # "idle" => RunInv(r)'
  PROVE  RebuildInv'
<1>1. ASSUME NEW q \in Rebuilds, q # r, clean'[q], rebuild'[q].phase # "idle"
      PROVE  RunInv(q)'
  <2>1. rebuild'[q] = rebuild[q] /\ RunInv(q)
    BY <1>1 DEF RebuildInv, TypeOK
  <2>2. QED BY <2>1, FreshFrame, FinalOfFrame DEF RunInv, db
<1>2. rebuild'[r] = b
  BY DEF TypeOK
<1>3. QED BY <1>1, <1>2 DEF RebuildInv

LEMMA RebuildStepInv ==
  ASSUME TypeOK, CursorOK, RebuildInv, RebuildNext PROVE RebuildInv'
<1>1. ASSUME NEW r \in Rebuilds, StartRebuild(r) PROVE RebuildInv'
  <2>1. ASSUME NEW q \in Rebuilds, q # r, clean'[q], rebuild'[q].phase # "idle"
        PROVE  RunInv(q)'
    <3>1. rebuild'[q] = rebuild[q] /\ clean'[q] = clean[q] /\ RunInv(q)
      BY <1>1, <2>1 DEF StartRebuild, RebuildInv, TypeOK
    <3>2. UNCHANGED db
      BY <1>1 DEF StartRebuild
    <3>3. QED BY <3>1, <3>2, FreshFrame, FinalOfFrame DEF RunInv, db
  <2>2. RunInv(r)'
    <3>1. /\ rebuild'[r].phase = "list"
          /\ \A m \in MatchIds :
               rebuild'[r].finals[m] = IF IsFinal(m) THEN FinalOf(m) ELSE Idle
      BY <1>1 DEF StartRebuild, TypeOK
    <3>2. \A m \in MatchIds : FinalOf(m) # Idle
      BY FinalOfType, NullsAssumption DEF Final
    <3>3. QED BY <1>1, <3>1, <3>2
              DEF StartRebuild, RunInv, IsFinal, db, Fresh, Scoreline, FinalOf, Knockout
  <2>3. QED BY <2>1, <2>2 DEF RebuildInv
<1>2. ASSUME NEW r \in Rebuilds, NEW m \in MatchIds, ListRows(r, m) PROVE RebuildInv'
  <2> DEFINE b == [rebuild[r] EXCEPT !.phase = "rows", !.match = m,
                                     !.rows = [u \in Users |-> predictions[u][m].pick]]
  <2>1. rebuild[r] \in Rebuild /\ rebuild' = [rebuild EXCEPT ![r] = b]
    BY <1>2 DEF ListRows, TypeOK
  <2>2. /\ b.phase = "rows" /\ b.match = m /\ b.finals = rebuild[r].finals
        /\ b.rows = [u \in Users |-> predictions[u][m].pick]
    BY <2>1 DEF Rebuild
  <2>3. rebuild'[r] = b
    BY <2>1 DEF TypeOK
  <2>4. clean[r] => RunInv(r)
    BY <1>2 DEF ListRows, RebuildInv
  <2>5. \A u \in Users : predictions[u][m].pick = NoPick => Fresh(u, m)
    BY DEF Fresh
  <2>6. clean[r] => RunInv(r)'
    <3> HIDE DEF b
    <3>1. UNCHANGED db
      BY <1>2 DEF ListRows
    <3>2. /\ \A u \in Users, n \in MatchIds : Fresh(u, n)' <=> Fresh(u, n)
          /\ \A n \in MatchIds : FinalOf(n)' = FinalOf(n)
      BY <3>1, FreshFrame, FinalOfFrame DEF db
    <3>3. QED BY <2>2, <2>3, <2>4, <2>5, <3>1, <3>2 DEF RunInv, db
  <2>7. QED BY <1>2, <2>1, <2>6, OneRunRebuildInv DEF ListRows, ghost
<1>3. ASSUME NEW r \in Rebuilds, NEW u \in Users, ScoreRow(r, u) PROVE RebuildInv'
  <2> DEFINE b == rebuild[r]
  <2>0. PICK m \in MatchIds : m = b.match
    BY <1>3 DEF ScoreRow, CursorOK
  <2>1. b \in Rebuild /\ b.match = m /\ b.finals[m] # Idle /\ b.phase = "rows"
    BY <1>3, <2>0 DEF ScoreRow, CursorOK, TypeOK
  <2>2. \A q \in Rebuilds : clean'[q] => q = r /\ clean[r]
    BY <1>3 DEF ScoreRow
  <2>3. SUFFICES ASSUME clean[r] PROVE RunInv(r)'
    BY <2>2 DEF RebuildInv
  <2>4. /\ RunInv(r) /\ b.finals[m] = FinalOf(m)
        /\ b.rows[u] = predictions[u][m].pick /\ b.rows[u] # NoPick
    BY <1>3, <2>1, <2>3 DEF RebuildInv, RunInv, ScoreRow
  <2>5. /\ rebuild'[r].phase = "rows" /\ rebuild'[r].match = m
        /\ rebuild'[r].finals = b.finals
        /\ rebuild'[r].rows = [b.rows EXCEPT ![u] = NoPick]
    BY <1>3, <2>1 DEF ScoreRow, TypeOK, Rebuild
  <2>6. b.rows \in [Users -> Pick \union {NoPick}]
    BY <2>1 DEF Rebuild, Picks
  <2>7. \A v \in Users, n \in MatchIds :
          <<v, n>> # <<u, m>> => predictions'[v][n] = predictions[v][n]
    BY <1>3, <2>1 DEF ScoreRow, TypeOK
  <2>8. /\ predictions'[u][m].pick = predictions[u][m].pick
        /\ predictions'[u][m].score =
             Compute(predictions[u][m].pick, Scoreline(m), Knockout(m))
    <3>1. predictions[u][m] \in Prediction
      BY <2>1 DEF TypeOK
    <3>2. predictions'[u][m] = SetScore(predictions[u][m], b.rows[u],
                                        b.finals[m].result, b.finals[m].knockout)
      BY <1>3, <2>1 DEF ScoreRow, TypeOK
    <3>3. b.finals[m].result = Scoreline(m) /\ b.finals[m].knockout = Knockout(m)
      BY <2>4 DEF FinalOf
    <3>4. QED BY <2>4, <3>1, <3>2, <3>3 DEF SetScore, Prediction
  <2>9. UNCHANGED matches
    BY <1>3 DEF ScoreRow
  <2>10. Fresh(u, m)'
    BY <2>8, <2>9, FreshWhenScored
  <2>11. \A v \in Users, n \in MatchIds :
           <<v, n>> # <<u, m>> => (Fresh(v, n) => Fresh(v, n)')
    BY <2>7, <2>9, FreshFrame
  <2>12. \A n \in MatchIds : (FinalOf(n) = FinalOf(n)') /\ matches'[n] = matches[n]
    BY <2>9, FinalOfFrame
  <2>13. QED
    <3> HIDE DEF b
    <3>1. ASSUME NEW n \in MatchIds, b.finals[n] = Idle
          PROVE  \A v \in Users : Fresh(v, n)'
      BY <2>1, <2>4, <2>11, <3>1 DEF RunInv, b
    <3>2. ASSUME NEW n \in MatchIds, b.finals[n] # Idle
          PROVE  matches'[n].status = "final" /\ b.finals[n] = FinalOf(n)'
      BY <2>4, <2>12, <3>2 DEF RunInv, b
    <3>3. ASSUME NEW v \in Users
          PROVE  IF rebuild'[r].rows[v] = NoPick THEN Fresh(v, m)'
                 ELSE rebuild'[r].rows[v] = predictions'[v][m].pick
      <4>1. CASE v = u
        BY <2>5, <2>6, <2>10, <4>1
      <4>2. CASE v # u
        <5>1. rebuild'[r].rows[v] = b.rows[v] /\ predictions'[v][m] = predictions[v][m]
          BY <2>1, <2>5, <2>6, <2>7, <4>2
        <5>2. IF b.rows[v] = NoPick THEN Fresh(v, m)
              ELSE b.rows[v] = predictions[v][m].pick
          BY <2>1, <2>4 DEF RunInv, b
        <5>3. QED BY <2>1, <2>11, <4>2, <5>1, <5>2
      <4>3. QED BY <4>1, <4>2
    <3>4. QED BY <2>5, <3>1, <3>2, <3>3 DEF RunInv
<1>4. ASSUME NEW r \in Rebuilds, NextMatch(r) PROVE RebuildInv'
  <2> DEFINE m == rebuild[r].match
             b == [phase |-> "list", match |-> Idle, rows |-> NoPicks,
                   finals |-> [rebuild[r].finals EXCEPT ![m] = Idle]]
  <2>1. /\ rebuild[r] \in Rebuild /\ m \in MatchIds /\ rebuild[r].finals[m] # Idle
        /\ rebuild[r].phase = "rows" /\ rebuild[r].rows = NoPicks
    BY <1>4 DEF NextMatch, CursorOK, TypeOK
  <2>2. rebuild' = [rebuild EXCEPT ![r] = b] /\ rebuild'[r] = b /\ UNCHANGED <<db, clean>>
    BY <1>4 DEF NextMatch, TypeOK, ghost
  <2>3. \A n \in MatchIds : b.finals[n] = IF n = m THEN Idle ELSE rebuild[r].finals[n]
    BY <2>1 DEF Rebuild
  <2>4. clean[r] => RunInv(r)'
    <3> SUFFICES ASSUME clean[r] PROVE RunInv(r)'
      OBVIOUS
    <3>1. RunInv(r)
      BY <2>1 DEF RebuildInv
    <3>2. \A u \in Users : Fresh(u, m)
      BY <2>1, <3>1 DEF RunInv, NoPicks
    <3>3. /\ \A u \in Users, n \in MatchIds : Fresh(u, n)' <=> Fresh(u, n)
          /\ \A n \in MatchIds : (FinalOf(n)' = FinalOf(n)) /\ matches'[n] = matches[n]
      BY <2>2, FreshFrame, FinalOfFrame DEF db
    <3>4. rebuild'[r].phase = "list" /\ rebuild'[r].finals = b.finals
      BY <2>2
    <3>5. QED
      <4> HIDE DEF b
      <4>1. QED BY <2>3, <3>1, <3>2, <3>3, <3>4 DEF RunInv
  <2>5. QED BY <2>2, <2>4, OneRunRebuildInv
<1>5. ASSUME NEW r \in Rebuilds, EndRebuild(r) \/ FailRebuild(r) PROVE RebuildInv'
  <2>1. rebuild' = [rebuild EXCEPT ![r] = Resting] /\ UNCHANGED <<db, clean>>
    BY <1>5 DEF EndRebuild, FailRebuild, ghost
  <2>2. QED BY <2>1, OneRunRebuildInv DEF Resting
<1>6. QED BY <1>1, <1>2, <1>3, <1>4, <1>5 DEF RebuildNext

LEMMA NextRebuildInv ==
  ASSUME TypeOK, CursorOK, RebuildInv, [Next]_vars PROVE RebuildInv'
<1>1. CASE Tick \/ UNCHANGED vars
  BY <1>1, QuietRebuildInv DEF Tick, vars, runs, ghost
<1>2. CASE PlayerNext
  <2>1. ASSUME NEW u \in Users, StorePrediction(u) PROVE RebuildInv'
    BY <2>1, DisturbRebuildInv DEF StorePrediction
  <2>2. QED BY <1>2, <2>1, QuietRebuildInv
            DEF PlayerNext, CheckPrediction, RejectPrediction, RevealPicks, runs, ghost
<1>3. CASE WriterNext
  <2>1. ASSUME NEW w \in Writers, CommitWrite(w) PROVE RebuildInv'
    BY <2>1, DisturbRebuildInv DEF CommitWrite
  <2>2. QED BY <1>3, <2>1, QuietRebuildInv DEF WriterNext, BeginWrite, FailWrite, ghost
<1>4. CASE IngestNext
  BY <1>4, IngestFrame, QuietRebuildInv DEF ghost
<1>5. CASE AdminNext
  <2>1. ASSUME NEW a \in Admins, NEW m \in MatchIds, NEW res \in ResultInputs,
               EnterResult(a, m, res)
        PROVE  RebuildInv'
    BY <2>1, QuietRebuildInv DEF EnterResult, ghost
  <2>2. ASSUME NEW m \in MatchIds, NEW f \in FixtureInputs,
               EditMatch(m, f) \/ CreateMatch(m, f) \/ DeleteMatch(m)
        PROVE  RebuildInv'
    BY <2>2, DisturbRebuildInv DEF EditMatch, CreateMatch, DeleteMatch
  <2>3. ASSUME NEW m \in MatchIds, DeleteMatch(m) PROVE RebuildInv'
    BY <2>3, DisturbRebuildInv DEF DeleteMatch
  <2>4. QED BY <1>5, <2>1, <2>2, <2>3 DEF AdminNext
<1>6. CASE RebuildNext
  BY <1>6, RebuildStepInv
<1>7. CASE \E s \in Sources : Reseed(s)
  BY <1>7, DisturbRebuildInv DEF Reseed
<1>8. CASE Restart
  BY <1>8 DEF Restart, RebuildInv, Resting
<1>9. QED BY <1>1, <1>2, <1>3, <1>4, <1>5, <1>6, <1>7, <1>8 DEF Next

\* A recompute run nobody else wrote during leaves every prediction on every
\* final match with the points of the stored result.
THEOREM RecomputeRestores == Spec => []RebuildRestores
<1>1. Init => RebuildInv
  BY DEF Init, RebuildInv
<1>2. TypeOK /\ CursorOK /\ RebuildInv /\ [Next]_vars => RebuildInv'
  BY NextRebuildInv
<1>3. RebuildInv => RebuildRestores
  BY DEF RebuildInv, RunInv, RebuildRestores, RebuildDone, FinalPointsFresh
<1>4. QED BY <1>1, <1>2, <1>3, Typing, PTL DEF Spec

-----------------------------------------------------------------------------
(* Points and results. *)

\* A key with no row has no result, and what a recompute run has still to
\* rewrite has one, unless it was deleted meanwhile.
ResultInv ==
  \A m \in MatchIds :
    /\ ~Exists(m) => matches[m].result = NoResult
    /\ matches[m].status = "final" => matches[m].result # NoResult
    /\ \A u \in Users : predictions[u][m].score # NoScore => matches[m].result # NoResult
    /\ \A r \in Rebuilds : rebuild[r].finals[m] # Idle =>
         matches[m].result # NoResult \/ matches[m].status = "deleted"

\* A result once stored goes only with its row.
LEMMA KeepResultInv ==
  ASSUME ResultInv, UNCHANGED predictions, UNCHANGED rebuild,
         \A m \in MatchIds :
           \/ matches'[m] = matches[m]
           \/ /\ matches'[m].status = "scheduled" /\ matches[m].status # "deleted"
              /\ matches'[m].result = matches[m].result
  PROVE  ResultInv'
BY DEF ResultInv, Exists

LEMMA NextResultInv ==
  ASSUME TypeOK, CursorOK, NoOrphans, ResultInv, [Next]_vars PROVE ResultInv'
<1>1. CASE Tick \/ IngestNext \/ UNCHANGED vars
  BY <1>1, IngestFrame DEF Tick, vars, db, runs, ResultInv, Exists
<1>2. CASE Restart
  BY <1>2 DEF Restart, db, ResultInv, Exists, Resting
<1>3. CASE PlayerNext
  <2>1. \A u \in Users, m \in MatchIds : predictions'[u][m].score = predictions[u][m].score
    <3>1. ASSUME NEW u \in Users, StorePrediction(u)
          PROVE  \A v \in Users, m \in MatchIds :
                   predictions'[v][m].score = predictions[v][m].score
      <4>1. predictions' = [predictions EXCEPT ![u][request[u].match].pick = request[u].pick]
        BY <3>1 DEF StorePrediction
      <4>2. QED BY <4>1 DEF TypeOK, Prediction
    <3>2. QED BY <1>3, <3>1
              DEF PlayerNext, CheckPrediction, RejectPrediction, RevealPicks, db
  <2>2. QED BY <1>3, <2>1, PlayerFrame DEF ResultInv, Exists
<1>4. CASE WriterNext
  <2>1. ASSUME NEW w \in Writers, CommitWrite(w) PROVE ResultInv'
    <3> DEFINE t == intent[w]
    <3>1. /\ t.match \in MatchIds /\ t.result \in Result /\ t.result # NoResult
          /\ UNCHANGED rebuild
      BY <2>1, NullsAssumption DEF CommitWrite, TypeOK, Intent
    <3>2. \A m \in MatchIds : m # t.match =>
            /\ matches'[m] = matches[m]
            /\ \A u \in Users : predictions'[u][m] = predictions[u][m]
      BY <2>1, <3>1 DEF CommitWrite, TypeOK
    <3>3. CASE Exists(t.match)
      <4>1. /\ matches[t.match] \in Match
            /\ matches'[t.match] = Finalized(matches[t.match], t, w)
        BY <2>1, <3>1, <3>3 DEF CommitWrite, TypeOK
      <4>2. matches'[t.match].status = "final" /\ matches'[t.match].result = t.result
        BY <4>1 DEF Finalized, Match
      <4>3. QED BY <3>1, <3>2, <4>2 DEF ResultInv, Exists
    <3>4. CASE ~Exists(t.match)
      <4>1. UNCHANGED matches
        BY <2>1, <3>4 DEF CommitWrite
      <4>2. \A u \in Users : predictions[u][t.match] = NoRow
        BY <3>1, <3>4 DEF NoOrphans
      <4>3. \A u \in Users : predictions'[u][t.match] = predictions[u][t.match]
        BY <2>1, <3>1, <4>2, SetScoreNoRow DEF CommitWrite, TypeOK
      <4>4. QED BY <3>1, <3>2, <4>1, <4>3 DEF ResultInv, Exists
    <3>5. QED BY <3>3, <3>4
  <2>2. ASSUME UNCHANGED db, UNCHANGED rebuild PROVE ResultInv'
    BY <2>2 DEF db, ResultInv, Exists
  <2>3. QED BY <1>4, <2>1, <2>2 DEF WriterNext, BeginWrite, FailWrite
<1>5. CASE AdminNext
  <2>1. ASSUME NEW a \in Admins, NEW m \in MatchIds, NEW res \in ResultInputs,
               EnterResult(a, m, res)
        PROVE  ResultInv'
    BY <2>1 DEF EnterResult, db, ResultInv, Exists
  <2>2. ASSUME NEW m \in MatchIds, NEW f \in FixtureInputs, EditMatch(m, f)
        PROVE  ResultInv'
    <3>1. \A n \in MatchIds : /\ matches'[n].status = matches[n].status
                              /\ matches'[n].result = matches[n].result
      BY <2>2 DEF EditMatch, TypeOK, Match
    <3>2. QED BY <2>2, <3>1 DEF EditMatch, runs, ResultInv, Exists
  <2>3. ASSUME NEW m \in MatchIds, NEW f \in FixtureInputs, CreateMatch(m, f)
        PROVE  ResultInv'
    <3>1. PICK s \in Sources \union {NoSource} :
            /\ matches[m].status = "unused"
            /\ matches' = [matches EXCEPT ![m] = NewRow(f, s, TRUE)]
      BY <2>3 DEF CreateMatch
    <3>2. NewRow(f, s, TRUE).status = "scheduled" /\ matches[m].result = NoResult
      BY <3>1 DEF NewRow, ResultInv, Exists
    <3>3. NewRow(f, s, TRUE).result = NoResult
      BY DEF NewRow
    <3>4. QED BY <2>3, <3>1, <3>2, <3>3, KeepResultInv DEF CreateMatch, runs, TypeOK
  <2>4. ASSUME NEW m \in MatchIds, DeleteMatch(m) PROVE ResultInv'
    <3>1. /\ NoMatch("deleted").status = "deleted" /\ NoMatch("deleted").result = NoResult
          /\ NoRow.score = NoScore
      BY DEF NoMatch, NoRow
    <3>2. /\ \A n \in MatchIds : matches'[n] = IF n = m THEN NoMatch("deleted") ELSE matches[n]
          /\ \A u \in Users, n \in MatchIds :
               predictions'[u][n] = IF n = m THEN NoRow ELSE predictions[u][n]
      BY <2>4 DEF DeleteMatch, Cascade, TypeOK
    <3>3. QED BY <2>4, <3>1, <3>2 DEF DeleteMatch, runs, ResultInv, Exists
  <2>5. QED BY <1>5, <2>1, <2>2, <2>3, <2>4 DEF AdminNext
<1>6. CASE \E s \in Sources : Reseed(s)
  <2>1. PICK s \in Sources : Reseed(s)
    BY <1>6
  <2>2. PICK m \in MatchIds :
          \/ /\ Exists(m)
             /\ matches' = [matches EXCEPT ![m] =
                  [@ EXCEPT !.status = "scheduled", !.home = Seed[s].home,
                            !.away = Seed[s].away, !.kickoff = Seed[s].kickoff,
                            !.stage = Seed[s].stage]]
          \/ /\ matches[m].status = "unused"
             /\ matches' = [matches EXCEPT ![m] = NewRow(Seed[s], s, FALSE)]
    BY <2>1 DEF Reseed
  <2>3. matches'[m].status = "scheduled" /\ matches'[m].result = matches[m].result
    <3>1. matches[m] \in Match
      BY DEF TypeOK
    <3>2. matches[m].status = "unused" => matches[m].result = NoResult
      BY DEF ResultInv, Exists
    <3>3. NewRow(Seed[s], s, FALSE).status = "scheduled"
          /\ NewRow(Seed[s], s, FALSE).result = NoResult
      BY DEF NewRow
    <3>4. CASE matches' = [matches EXCEPT ![m] = NewRow(Seed[s], s, FALSE)]
               /\ matches[m].status = "unused"
      BY <3>2, <3>3, <3>4 DEF TypeOK
    <3>5. CASE matches' = [matches EXCEPT ![m] =
                 [@ EXCEPT !.status = "scheduled", !.home = Seed[s].home,
                           !.away = Seed[s].away, !.kickoff = Seed[s].kickoff,
                           !.stage = Seed[s].stage]]
      BY <3>1, <3>5 DEF TypeOK, Match
    <3>6. QED BY <2>2, <3>4, <3>5
  <2>4. \A n \in MatchIds : n # m => matches'[n] = matches[n]
    BY <2>2 DEF TypeOK
  <2>5. matches[m].status # "deleted"
    BY <2>2 DEF Exists
  <2>6. UNCHANGED <<predictions, rebuild>>
    BY <2>1 DEF Reseed, runs
  <2>7. QED BY <2>3, <2>4, <2>5, <2>6, KeepResultInv
<1>7. CASE RebuildNext
  <2>1. UNCHANGED matches
    BY <1>7, RebuildFrame
  <2>2. ASSUME NEW r \in Rebuilds, StartRebuild(r) PROVE ResultInv'
    <3>1. \A q \in Rebuilds, m \in MatchIds :
            rebuild'[q].finals[m] # Idle =>
              rebuild[q].finals[m] # Idle \/ matches[m].status = "final"
      BY <2>2 DEF StartRebuild, TypeOK, IsFinal
    <3>2. QED BY <2>2, <3>1 DEF StartRebuild, db, ResultInv, Exists
  <2>3. ASSUME NEW r \in Rebuilds, NEW u \in Users, ScoreRow(r, u) PROVE ResultInv'
    <3> DEFINE b == rebuild[r]
    <3>1. PICK m \in MatchIds : m = b.match
      BY <2>3 DEF ScoreRow, CursorOK
    <3>2. b.finals[m] # Idle /\ b \in Rebuild
      BY <2>3, <3>1 DEF ScoreRow, CursorOK, TypeOK
    <3>3. \A q \in Rebuilds : rebuild'[q].finals = rebuild[q].finals
      BY <2>3 DEF ScoreRow, TypeOK, Rebuild
    <3>4. predictions' = [predictions EXCEPT ![u][m] =
            SetScore(@, b.rows[u], b.finals[m].result, b.finals[m].knockout)]
      BY <2>3, <3>1 DEF ScoreRow
    <3>5. matches[m].status = "deleted" => predictions[u][m] = NoRow
      BY DEF NoOrphans, Exists
    <3>6. \A v \in Users, n \in MatchIds :
            predictions'[v][n] # predictions[v][n] => matches[n].result # NoResult
      BY <3>2, <3>4, <3>5, SetScoreNoRow DEF TypeOK, ResultInv
    <3>7. QED BY <2>1, <3>3, <3>6 DEF ResultInv, Exists
  <2>4. ASSUME NEW r \in Rebuilds, NEW m \in MatchIds, ListRows(r, m) PROVE ResultInv'
    BY <2>4 DEF ListRows, TypeOK, Rebuild, db, ResultInv, Exists
  <2>5. ASSUME NEW r \in Rebuilds, NextMatch(r) \/ EndRebuild(r) \/ FailRebuild(r)
        PROVE  ResultInv'
    <3>1. \A q \in Rebuilds, n \in MatchIds :
            rebuild'[q].finals[n] # Idle => rebuild[q].finals[n] # Idle
      <4>2. CASE NextMatch(r)
        BY <4>2 DEF NextMatch, TypeOK, Rebuild
      <4>3. CASE EndRebuild(r) \/ FailRebuild(r)
        BY <4>3 DEF EndRebuild, FailRebuild, Resting, TypeOK
      <4>4. QED BY <2>5, <4>2, <4>3
    <3>2. UNCHANGED db
      BY <2>5 DEF NextMatch, EndRebuild, FailRebuild
    <3>3. QED BY <3>1, <3>2 DEF db, ResultInv, Exists
  <2>6. QED BY <1>7, <2>2, <2>3, <2>4, <2>5 DEF RebuildNext
<1>8. QED BY <1>1, <1>2, <1>3, <1>4, <1>5, <1>6, <1>7 DEF Next

\* Points are only ever paid for a stored result, and a final match has one.
THEOREM PointsHaveResults == Spec => []PointsNeedResult
<1>1. Init => ResultInv
  BY DEF Init, ResultInv, Exists, NewRow, NoMatch, NoRow, Resting
<1>2. TypeOK /\ CursorOK /\ NoOrphans /\ ResultInv /\ [Next]_vars => ResultInv'
  BY NextResultInv
<1>3. ResultInv => PointsNeedResult
  BY DEF ResultInv, PointsNeedResult
<1>4. QED BY <1>1, <1>2, <1>3, Typing, DeletionIsFinal, PTL DEF Spec


-----------------------------------------------------------------------------
(* Orderly behaviours.  Points and picks are safe from the races the other   *)
(* runs show when no recompute run overlaps a result, a request is written   *)
(* the moment it is checked, no match that is there is moved to another      *)
(* kickoff or stage, and the results API knows a match's stage.              *)

Unmoved ==
  \A m \in MatchIds : Exists(m) /\ Exists(m)' =>
    /\ matches'[m].kickoff = matches[m].kickoff
    /\ matches'[m].stage = matches[m].stage

ApiAgrees ==
  \A i \in Ingests : intent[i] = Idle /\ intent'[i] # Idle =>
    intent'[i].knockout = Knockout(intent'[i].match)

OrderlySpec == Spec /\ [][Unmoved /\ ApiAgrees]_vars

\* Who has a result, an API id, or picks others have seen, has kicked off.
RowsOK ==
  \A m \in MatchIds :
    /\ matches[m].status = "unused" => ~shown[m]
    /\ Exists(m) /\ (matches[m].status = "final" \/ matches[m].api # NoApi \/ shown[m]) =>
         matches[m].kickoff <= now

TodoOK == \A i \in Ingests : \A a \in todo[i] : a.utc <= now

\* A result decided on is for a match that has kicked off, and of its stage.
IntentOK ==
  \A w \in Writers : intent[w] # Idle =>
    LET m == intent[w].match
    IN  /\ matches[m].status # "unused"
        /\ Exists(m) => matches[m].kickoff <= now /\ intent[w].knockout = Knockout(m)

\* A prediction on its way is for a match that has not.
RequestOK ==
  \A u \in Users : request[u] # Idle =>
    LET m == request[u].match
    IN  /\ matches[m].status # "unused" /\ request[u].at <= now
        /\ Exists(m) => now < matches[m].kickoff

\* An open transaction lists the picks that are stored.
SnapOK ==
  \A w \in Writers : snap[w] # NoTx =>
    LET m == intent[w].match
    IN  intent[w] # Idle /\ (Exists(m) => \A u \in Users : snap[w][u] = predictions[u][m].pick)

LockInv ==
  TypeOK /\ CursorOK /\ NoOrphans /\ RowsOK /\ TodoOK /\ IntentOK /\ RequestOK /\ SnapOK

\* What a step that commits no result may do to a match.
Kept(m) ==
  \/ matches'[m] = matches[m]
  \/ matches[m].status = "unused" /\ matches'[m].status = "scheduled" /\ matches'[m].api = NoApi
  \/ Exists(m) /\ matches'[m].status = "deleted"
  \/ /\ Exists(m) /\ matches'[m].status \in {"scheduled", matches[m].status}
     /\ matches'[m].result = matches[m].result /\ matches'[m].api = matches[m].api

\* What a commit of w does to its match.
Committed(w) ==
  LET m == intent[w].match
  IN  /\ \A n \in MatchIds \ {m} : matches'[n] = matches[n]
      /\ ~Exists(m) => matches'[m] = matches[m]
      /\ Exists(m) => /\ matches'[m].status = "final" /\ matches'[m].result = intent[w].result
                      /\ matches'[m].kickoff = matches[m].kickoff
                      /\ matches'[m].stage = matches[m].stage

LEMMA CommitRow ==
  ASSUME TypeOK, NEW w \in Writers, CommitWrite(w)
  PROVE  intent[w] \in Intent /\ intent[w].match \in MatchIds /\ Committed(w)
<1> DEFINE t == intent[w]
<1>1. t \in Intent /\ t.match \in MatchIds
  BY DEF CommitWrite, TypeOK, Intent
<1>2. \A row \in Match : /\ Finalized(row, t, w).status = "final"
                         /\ Finalized(row, t, w).result = t.result
                         /\ Finalized(row, t, w).kickoff = row.kickoff
                         /\ Finalized(row, t, w).stage = row.stage
  BY DEF Finalized, Match
<1>3. matches' = IF Exists(t.match) THEN [matches EXCEPT ![t.match] = Finalized(@, t, w)] ELSE matches
  BY DEF CommitWrite
<1>4. Exists(t.match) => matches'[t.match] = Finalized(matches[t.match], t, w)
  BY <1>1, <1>3 DEF TypeOK
<1>5. \A n \in MatchIds \ {t.match} : matches'[n] = matches[n]
  BY <1>1, <1>3 DEF TypeOK
<1>6. matches[t.match] \in Match
  BY <1>1 DEF TypeOK
<1> QED
  BY <1>1, <1>2, <1>3, <1>4, <1>5, <1>6 DEF Committed

LEMMA EditKeeps ==
  ASSUME TypeOK, NEW m \in MatchIds, NEW f, EditMatch(m, f)
  PROVE  \A n \in MatchIds : Kept(n)
<1>1. matches[m] \in Match /\ Exists(m)
  BY DEF TypeOK, EditMatch
<1>2. matches'[m] = [matches[m] EXCEPT !.home = f.home, !.away = f.away, !.kickoff = f.kickoff,
                                       !.stage = f.stage, !.override = TRUE]
  BY DEF EditMatch, TypeOK
<1>3. /\ matches'[m].status = matches[m].status
      /\ matches'[m].result = matches[m].result /\ matches'[m].api = matches[m].api
  BY <1>1, <1>2 DEF Match
<1>4. \A n \in MatchIds \ {m} : matches'[n] = matches[n]
  BY DEF EditMatch, TypeOK
<1> QED
  BY <1>1, <1>3, <1>4 DEF Kept

LEMMA NewRowKeeps ==
  ASSUME TypeOK, NEW m \in MatchIds, NEW f, NEW s, NEW o, matches[m].status = "unused",
         matches' = [matches EXCEPT ![m] = NewRow(f, s, o)]
  PROVE  \A n \in MatchIds : Kept(n)
<1>1. matches'[m] = NewRow(f, s, o) /\ \A n \in MatchIds \ {m} : matches'[n] = matches[n]
  BY DEF TypeOK
<1> QED
  BY <1>1 DEF Kept, NewRow

LEMMA ReseedKeeps ==
  ASSUME TypeOK, NEW s \in Sources, Reseed(s)
  PROVE  \A n \in MatchIds : Kept(n)
<1>1. ASSUME NEW m \in MatchIds, matches[m].status = "unused",
             matches' = [matches EXCEPT ![m] = NewRow(Seed[s], s, FALSE)]
      PROVE  \A n \in MatchIds : Kept(n)
  BY <1>1, NewRowKeeps
<1>2. ASSUME NEW m \in MatchIds, Exists(m),
             matches' = [matches EXCEPT ![m] =
               [@ EXCEPT !.status = "scheduled", !.home = Seed[s].home, !.away = Seed[s].away,
                         !.kickoff = Seed[s].kickoff, !.stage = Seed[s].stage]]
      PROVE  \A n \in MatchIds : Kept(n)
  <2>1. matches[m] \in Match
    BY DEF TypeOK
  <2>2. matches'[m] = [matches[m] EXCEPT !.status = "scheduled", !.home = Seed[s].home,
                         !.away = Seed[s].away, !.kickoff = Seed[s].kickoff,
                         !.stage = Seed[s].stage]
    BY <1>2 DEF TypeOK
  <2>3. /\ matches'[m].status = "scheduled"
        /\ matches'[m].result = matches[m].result /\ matches'[m].api = matches[m].api
    BY <2>1, <2>2 DEF Match
  <2>4. \A n \in MatchIds \ {m} : matches'[n] = matches[n]
    BY <1>2 DEF TypeOK
  <2> QED
    BY <1>2, <2>3, <2>4 DEF Kept
<1> QED
  BY <1>1, <1>2 DEF Reseed

\* Of every step that is no commit.
LEMMA OthersKeep ==
  ASSUME TypeOK, [Next]_vars, \A w \in Writers : ~CommitWrite(w)
  PROVE  \A n \in MatchIds : Kept(n)
<1>1. CASE UNCHANGED matches
  BY <1>1 DEF Kept
<1>2. CASE PlayerNext \/ RebuildNext
  BY <1>1, <1>2, PlayerFrame, RebuildFrame
<1>3. CASE IngestNext
  BY <1>1, <1>3, IngestFrame DEF db
<1>4. CASE WriterNext
  BY <1>1, <1>4 DEF WriterNext, BeginWrite, FailWrite, db
<1>5. CASE AdminNext
  <2>1. ASSUME NEW m \in MatchIds, NEW f \in FixtureInputs, CreateMatch(m, f)
        PROVE  \A n \in MatchIds : Kept(n)
    <3>1. PICK s : matches' = [matches EXCEPT ![m] = NewRow(f, s, TRUE)]
      BY <2>1 DEF CreateMatch
    <3> QED
      BY <2>1, <3>1, NewRowKeeps DEF CreateMatch
  <2>2. ASSUME NEW m \in MatchIds, DeleteMatch(m) PROVE \A n \in MatchIds : Kept(n)
    BY <2>2 DEF DeleteMatch, NoMatch, Kept, TypeOK
  <2>3. ASSUME NEW a \in Admins, NEW m \in MatchIds, NEW res \in ResultInputs,
               EnterResult(a, m, res)
        PROVE  \A n \in MatchIds : Kept(n)
    BY <1>1, <2>3 DEF EnterResult, db
  <2> QED
    BY <1>5, <2>1, <2>2, <2>3, EditKeeps DEF AdminNext
<1> QED
  BY <1>1, <1>2, <1>3, <1>4, <1>5, ReseedKeeps DEF Next, Tick, Restart, vars, db

\* No match comes back, and one that is there keeps its time and stage.
LEMMA Calendar ==
  ASSUME TypeOK, [Next]_vars, Unmoved, NEW m \in MatchIds
  PROVE  /\ matches'[m].status = "unused" => matches[m].status = "unused"
         /\ Exists(m)' /\ matches[m].status # "unused" =>
              /\ Exists(m)
              /\ matches'[m].kickoff = matches[m].kickoff
              /\ matches'[m].stage = matches[m].stage
<1>1. CASE \A w \in Writers : ~CommitWrite(w)
  BY <1>1, OthersKeep DEF Kept, Exists, Unmoved
<1>2. ASSUME NEW w \in Writers, CommitWrite(w)
      PROVE  /\ matches'[m].status = "unused" => matches[m].status = "unused"
             /\ Exists(m)' /\ matches[m].status # "unused" => Exists(m)
  BY <1>2, CommitRow DEF Committed, Exists
<1> QED
  BY <1>1, <1>2 DEF Unmoved

\* Nothing is on its way that the clock could overtake.
LEMMA TickClears ==
  ASSUME TypeOK, BoundsAssumption, Latency = 0, RequestOK, Tick
  PROVE  \A u \in Users : request[u] = Idle
<1> SUFFICES ASSUME NEW u \in Users, request[u] # Idle PROVE FALSE
  OBVIOUS
<1>1. request[u].at \in Nat /\ now \in Nat
  BY DEF TypeOK, Request
<1>2. now < request[u].at + 0 /\ request[u].at <= now
  BY DEF Tick, RequestOK
<1> QED
  BY <1>1, <1>2

\* Time does not run back, and only Tick moves it.
LEMMA Clock ==
  ASSUME TypeOK, [Next]_vars
  PROVE  now' \in Nat /\ now <= now' /\ (Tick \/ now' = now)
<1>1. Tick => now' = now + 1
  BY DEF Tick
<1>2. Tick \/ now' = now
  BY PlayerFrame, IngestFrame, RebuildFrame
  DEF Next, WriterNext, BeginWrite, CommitWrite, FailWrite, AdminNext, EnterResult, EditMatch,
      CreateMatch, DeleteMatch, Reseed, Restart, vars
<1>3. now \in Nat
  BY DEF TypeOK
<1> QED
  BY <1>1, <1>2, <1>3

\* A match that had kicked off has.
LEMMA StaysStarted ==
  ASSUME TypeOK, TypeOK', [Next]_vars, Unmoved, NEW m \in MatchIds, matches[m].status # "unused",
         Exists(m) => matches[m].kickoff <= now
  PROVE  Exists(m)' => matches'[m].kickoff <= now'
<1>1. Exists(m)' => Exists(m) /\ matches'[m].kickoff = matches[m].kickoff
  BY Calendar
<1>2. matches'[m].kickoff \in Nat
  BY DEF TypeOK, Match
<1>3. now \in Nat /\ now' \in Nat /\ now <= now'
  BY Clock DEF TypeOK
<1> QED
  BY <1>1, <1>2, <1>3

LEMMA ShownBy ==
  ASSUME [Next]_vars, NEW m \in MatchIds, shown'[m] # shown[m], TypeOK
  PROVE  UNCHANGED <<matches, now>> /\ Exists(m) /\ ~BeforeKickoff(m)
<1>1. PICK n \in MatchIds : RevealPicks(n)
  BY PlayerFrame, IngestFrame, RebuildFrame
  DEF Next, PlayerNext, CheckPrediction, StorePrediction, RejectPrediction,
      WriterNext, BeginWrite, CommitWrite, FailWrite, AdminNext, EnterResult, EditMatch,
      CreateMatch, DeleteMatch, Reseed, Restart, Tick, vars, ghost
<1>2. n = m
  BY <1>1 DEF RevealPicks, TypeOK
<1> QED
  BY <1>1, <1>2 DEF RevealPicks, db

LEMMA RowsStep ==
  ASSUME TypeOK, TypeOK', RowsOK, IntentOK, [Next]_vars, Unmoved
  PROVE  RowsOK'
<1> SUFFICES ASSUME NEW m \in MatchIds
             PROVE  /\ matches'[m].status = "unused" => ~shown'[m]
                    /\ Exists(m)' /\ (matches'[m].status = "final" \/ matches'[m].api # NoApi
                                        \/ shown'[m])
                         => matches'[m].kickoff <= now'
  BY DEF RowsOK
<1>0. now \in Nat /\ matches[m].kickoff \in Nat /\ matches[m] \in Match
  BY DEF TypeOK, Match
<1>1. CASE shown'[m] # shown[m]
  BY <1>0, <1>1, ShownBy DEF BeforeKickoff, Exists
<1>2. CASE shown'[m] = shown[m]
  <2>1. matches'[m].status = "unused" => ~shown'[m]
    BY <1>2, Calendar DEF RowsOK
  <2>2. CASE matches[m].status # "unused" /\ (Exists(m) => matches[m].kickoff <= now)
    BY <2>1, <2>2, StaysStarted
  <2>3. CASE matches[m].status = "unused" \/ (Exists(m) /\ ~(matches[m].kickoff <= now))
    <3>1. \A w \in Writers : CommitWrite(w) => matches'[m] = matches[m]
      BY <2>3, CommitRow DEF Committed, IntentOK, CommitWrite, Exists
    <3>2. Kept(m)
      BY <3>1, OthersKeep DEF Kept
    <3> QED
      BY <1>2, <2>1, <2>3, <3>2 DEF Kept, RowsOK, Exists
  <2> QED
    BY <2>2, <2>3 DEF Exists
<1> QED
  BY <1>1, <1>2

LEMMA TodoStep ==
  ASSUME TypeOK, TypeOK', TodoOK, [Next]_vars
  PROVE  TodoOK'
<1>1. ASSUME NEW i \in Ingests PROVE \A a \in todo'[i] : a \in todo[i] \/ a.utc + MatchLength <= now
  <2>1. ASSUME NEW j \in Ingests, StartIngest(j) \/ TakeMatch(j) \/ SkipMatch(j)
        PROVE  \A a \in todo'[i] : a \in todo[i] \/ a.utc + MatchLength <= now
    BY <2>1 DEF StartIngest, TakeMatch, SkipMatch, Reported, TypeOK
  <2>2. ASSUME NEW w \in Writers, FailWrite(w) PROVE todo'[i] \subseteq todo[i]
    BY <2>2 DEF FailWrite, TypeOK
  <2>3. Restart => todo'[i] \subseteq todo[i]
    BY DEF Restart
  <2>4. CASE todo' = todo
    BY <2>4
  <2> QED
    BY <2>1, <2>2, <2>3, <2>4, PlayerFrame, RebuildFrame
    DEF Next, IngestNext, WriterNext, BeginWrite, CommitWrite, AdminNext, EnterResult, EditMatch,
        CreateMatch, DeleteMatch, Reseed, Tick, vars, runs
<1>2. ASSUME NEW i \in Ingests, NEW a \in todo'[i] PROVE a.utc <= now'
  <2>1. now \in Nat /\ now' \in Nat /\ now <= now' /\ MatchLength \in Nat
    BY Clock, BoundsAssumption DEF TypeOK
  <2>2. CASE a \in todo[i]
    <3>1. a.utc \in Nat /\ a.utc <= now
      BY <2>2, InputsAssumption DEF TypeOK, TodoOK, ApiMatch
    <3> QED
      BY <2>1, <3>1
  <2>3. CASE a \notin todo[i]
    <3>1. a.utc + MatchLength <= now
      BY <1>1, <2>3
    <3>3. a \in ApiMatches
      BY DEF TypeOK
    <3>4. a.utc \in Nat
      BY <3>3, InputsAssumption DEF ApiMatch
    <3> QED
      BY <2>1, <3>1, <3>4
  <2> QED
    BY <2>2, <2>3
<1> QED
  BY <1>2 DEF TodoOK

\* The match an ingest run takes on has kicked off.
LEMMA FoundStarted ==
  ASSUME TypeOK, RowsOK, TodoOK, NEW i \in Ingests, NEW a \in todo[i], NEW m \in FoundRows(a)
  PROVE  m \in MatchIds /\ Exists(m) /\ matches[m].kickoff <= now
<1>1. a \in ApiMatch /\ a.utc <= now
  BY InputsAssumption DEF TypeOK, TodoOK
<1>2. m \in MatchIds /\ Exists(m) /\ (matches[m].api = a.id \/ matches[m].kickoff = a.utc)
  BY DEF FoundRows
<1>3. a.id # NoApi
  BY <1>1, NullsAssumption DEF ApiMatch
<1> QED
  BY <1>1, <1>2, <1>3 DEF RowsOK

\* A result newly decided on.
LEMMA IntentTaken ==
  ASSUME TypeOK, RowsOK, TodoOK, ApiAgrees, [Next]_vars,
         NEW w \in Writers, intent'[w] # intent[w], intent'[w] # Idle
  PROVE  LET m == intent'[w].match
         IN  /\ m \in MatchIds /\ Exists(m) /\ matches[m].kickoff <= now
             /\ intent'[w].knockout = Knockout(m) /\ UNCHANGED <<matches, now>>
<1>1. ASSUME NEW i \in Ingests, TakeMatch(i), i = w
      PROVE  LET m == intent'[w].match
             IN  /\ m \in MatchIds /\ Exists(m) /\ matches[m].kickoff <= now
                 /\ intent'[w].knockout = Knockout(m) /\ UNCHANGED <<matches, now>>
  <2>1. PICK a \in todo[i] : \E m \in FoundRows(a) :
          intent' = [intent EXCEPT ![i] =
            [match |-> m, result |-> ToResult(a, a.homeTeam, a.awayTeam),
             knockout |-> ApiKnockout(a), api |-> a.id]]
    BY <1>1 DEF TakeMatch
  <2>1a. PICK m \in FoundRows(a) :
          intent' = [intent EXCEPT ![i] =
            [match |-> m, result |-> ToResult(a, a.homeTeam, a.awayTeam),
             knockout |-> ApiKnockout(a), api |-> a.id]]
    BY <2>1
  <2>2. intent'[w].match = m
    BY <1>1, <2>1a DEF TypeOK
  <2>3. intent[i] = Idle /\ UNCHANGED <<matches, now>>
    BY <1>1 DEF TakeMatch, db
  <2>4. intent'[w].knockout = Knockout(intent'[w].match)
    BY <1>1, <2>3 DEF ApiAgrees
  <2> QED
    BY <2>1a, <2>2, <2>3, <2>4, FoundStarted
<1>2. ASSUME NEW a \in Admins, NEW m \in MatchIds, NEW res \in ResultInputs, EnterResult(a, m, res),
             a = w
      PROVE  LET n == intent'[w].match
             IN  /\ n \in MatchIds /\ Exists(n) /\ matches[n].kickoff <= now
                 /\ intent'[w].knockout = Knockout(n) /\ UNCHANGED <<matches, now>>
  <2>1. intent'[w] = [match |-> m, result |-> res, knockout |-> Knockout(m), api |-> matches[m].api]
    BY <1>2 DEF EnterResult, TypeOK
  <2>2. now \in Nat /\ matches[m].kickoff \in Nat /\ ~(now < matches[m].kickoff)
    BY <1>2 DEF EnterResult, BeforeKickoff, TypeOK, Match
  <2> QED
    BY <1>2, <2>1, <2>2 DEF EnterResult, db
<1>3. ASSUME NEW v \in Writers, CommitWrite(v) \/ FailWrite(v) \/ BeginWrite(v) PROVE FALSE
  BY <1>3 DEF CommitWrite, FailWrite, BeginWrite, TypeOK
<1>4. ASSUME NEW i \in Ingests, TakeMatch(i) PROVE i = w
  BY <1>4 DEF TakeMatch, TypeOK, Writers
<1>5. ASSUME NEW a \in Admins, NEW m \in MatchIds, NEW res \in ResultInputs, EnterResult(a, m, res)
      PROVE  a = w
  BY <1>5 DEF EnterResult, TypeOK, Writers
<1> QED
  BY <1>1, <1>2, <1>3, <1>4, <1>5, PlayerFrame, RebuildFrame
  DEF Next, IngestNext, StartIngest, SkipMatch, WriterNext, AdminNext, EditMatch, CreateMatch,
      DeleteMatch, Reseed, Restart, Tick, vars, runs

LEMMA IntentStep ==
  ASSUME TypeOK, TypeOK', RowsOK, TodoOK, IntentOK, ApiAgrees, [Next]_vars, Unmoved
  PROVE  IntentOK'
<1> SUFFICES ASSUME NEW w \in Writers, intent'[w] # Idle, NEW m, m = intent'[w].match
             PROVE  /\ matches'[m].status # "unused"
                    /\ Exists(m)' => matches'[m].kickoff <= now' /\ intent'[w].knockout = Knockout(m)'
  BY DEF IntentOK
<1>1. CASE intent'[w] # intent[w]
  BY <1>1, IntentTaken DEF Exists, Knockout
<1>2. CASE intent'[w] = intent[w]
  <2>1. m \in MatchIds /\ intent[w] # Idle
    BY <1>2 DEF TypeOK, Intent
  <2>2. matches[m].status # "unused"
        /\ (Exists(m) => matches[m].kickoff <= now /\ intent[w].knockout = Knockout(m))
    BY <1>2, <2>1 DEF IntentOK
  <2> QED
    BY <1>2, <2>1, <2>2, StaysStarted, Calendar DEF Knockout
<1> QED
  BY <1>1, <1>2

\* A request on its way that was not there before has just been checked.
LEMMA NewRequest ==
  ASSUME TypeOK, [Next]_vars, NEW u \in Users, request'[u] # Idle, request'[u] # request[u]
  PROVE  \E n \in MatchIds, p \in PickInputs : CheckPrediction(u, n, p)
<1>1. ASSUME NEW v \in Users, StorePrediction(v) \/ RejectPrediction(v) PROVE FALSE
  BY <1>1 DEF StorePrediction, RejectPrediction, TypeOK
<1>2. ASSUME NEW v \in Users, NEW n \in MatchIds, NEW p \in PickInputs, CheckPrediction(v, n, p)
      PROVE  v = u
  BY <1>2 DEF CheckPrediction, TypeOK
<1> QED
  BY <1>1, <1>2, IngestFrame, RebuildFrame
  DEF Next, PlayerNext, RevealPicks, WriterNext, BeginWrite, CommitWrite, FailWrite, AdminNext,
      EnterResult, EditMatch, CreateMatch, DeleteMatch, Reseed, Restart, Tick, vars, runs

LEMMA RequestStep ==
  ASSUME TypeOK, TypeOK', BoundsAssumption, Latency = 0, RequestOK, [Next]_vars, Unmoved
  PROVE  RequestOK'
<1> SUFFICES ASSUME NEW u \in Users, request'[u] # Idle, NEW m, m = request'[u].match
             PROVE  /\ matches'[m].status # "unused" /\ request'[u].at <= now'
                    /\ Exists(m)' => now' < matches'[m].kickoff
  BY DEF RequestOK
<1>0. request'[u] \in Request /\ m \in MatchIds /\ now \in Nat
  BY DEF TypeOK, Request
<1>1. CASE request'[u] = request[u]
  <2>1. ~Tick
    BY <1>1, TickClears
  <2>2. now' = now
    BY <2>1, Clock
  <2> QED
    BY <1>0, <1>1, <2>2, Calendar DEF RequestOK
<1>2. CASE request'[u] # request[u]
  <2>1. PICK n \in MatchIds, p \in PickInputs : CheckPrediction(u, n, p)
    BY <1>2, NewRequest
  <2>2. request'[u].match = n /\ request'[u].at = now
    BY <2>1 DEF CheckPrediction, TypeOK
  <2> QED
    BY <1>0, <2>1, <2>2 DEF CheckPrediction, Open, BeforeKickoff, Exists, db
<1> QED
  BY <1>1, <1>2

\* A prediction moves when it is stored, when it is scored by a commit or by a
\* recompute run, and when its match is deleted.
LEMMA PredictionMoves ==
  ASSUME TypeOK, [Next]_vars, NEW u \in Users, NEW m \in MatchIds,
         predictions'[u][m] # predictions[u][m]
  PROVE  \/ StorePrediction(u) /\ request[u] # Idle /\ request[u].match = m
         \/ ~Exists(m)'
         \/ \E w \in Writers : CommitWrite(w) /\ intent[w].match = m
         \/ \E r \in Rebuilds, v \in Users : ScoreRow(r, v)
<1>1. ASSUME NEW v \in Users, StorePrediction(v)
      PROVE  v = u /\ request[u] # Idle /\ request[u].match = m
  <2>1. predictions' = [predictions EXCEPT ![v][request[v].match].pick = request[v].pick]
        /\ request[v] # Idle
    BY <1>1 DEF StorePrediction
  <2>2. request[v] \in Request /\ request[v].match \in MatchIds
    BY <2>1 DEF TypeOK, Request
  <2>3. v # u => predictions'[u] = predictions[u]
    BY <2>1 DEF TypeOK
  <2>4. request[v].match # m => predictions'[v][m] = predictions[v][m]
    BY <2>1, <2>2 DEF TypeOK
  <2> QED
    BY <2>1, <2>3, <2>4
<1>2. ASSUME NEW w \in Writers, CommitWrite(w) PROVE intent[w].match = m
  <2>1. intent[w].match \in MatchIds
    BY <1>2, CommitRow
  <2> QED
    BY <1>2, <2>1 DEF CommitWrite, TypeOK
<1>3. ASSUME NEW n \in MatchIds, DeleteMatch(n) PROVE ~Exists(m)'
  <2>1. n = m
    BY <1>3 DEF DeleteMatch, Cascade, TypeOK
  <2> QED
    BY <1>3, <2>1 DEF DeleteMatch, NoMatch, Exists, TypeOK
<1> QED
  BY <1>1, <1>2, <1>3, IngestFrame
  DEF Next, PlayerNext, CheckPrediction, RejectPrediction, RevealPicks, WriterNext, BeginWrite,
      FailWrite, AdminNext, EnterResult, EditMatch, CreateMatch, RebuildNext, StartRebuild, ListRows,
      NextMatch, EndRebuild, FailRebuild, Reseed, Restart, Tick, vars, db

\* Whoever stores a pick stores it before kickoff.
LEMMA StoredInTime ==
  ASSUME TypeOK, RequestOK, NEW u \in Users, StorePrediction(u)
  PROVE  Exists(request[u].match) /\ BeforeKickoff(request[u].match)
BY DEF StorePrediction, RequestOK, BeforeKickoff

\* A commit scores rows, and changes no pick.
LEMMA CommitScores ==
  ASSUME TypeOK, NEW w \in Writers, CommitWrite(w), NEW u \in Users
  PROVE  LET m == intent[w].match
         IN  predictions'[u][m] =
               SetScore(predictions[u][m], snap[w][u], intent[w].result, intent[w].knockout)
BY CommitRow DEF CommitWrite, TypeOK

LEMMA PickStored ==
  ASSUME TypeOK, CursorOK, [Next]_vars, NEW u \in Users, NEW m \in MatchIds,
         predictions'[u][m].pick # predictions[u][m].pick, Exists(m)'
  PROVE  StorePrediction(u) /\ request[u].match = m
<1>1. ASSUME NEW w \in Writers, CommitWrite(w), intent[w].match = m PROVE FALSE
  <2>1. predictions[u][m] \in Prediction /\ snap[w] \in Picks
    BY <1>1 DEF TypeOK, CommitWrite
  <2>2. intent[w].result \in Result
    BY <1>1, CommitRow DEF Intent
  <2>3. snap[w][u] \in Pick \union {NoPick}
    BY <2>1 DEF Picks
  <2>4. predictions'[u][m] =
          SetScore(predictions[u][m], snap[w][u], intent[w].result, intent[w].knockout)
    BY <1>1, CommitScores
  <2>5. SetScore(predictions[u][m], snap[w][u], intent[w].result, intent[w].knockout).pick
          = predictions[u][m].pick
    BY ONLY <2>1, <2>2, <2>3, SetScoreType
  <2> QED
    BY <2>4, <2>5
<1>2. ASSUME NEW r \in Rebuilds, NEW v \in Users, ScoreRow(r, v) PROVE FALSE
  <2> DEFINE b == rebuild[r]
             row == predictions[v][b.match]
             scored == SetScore(row, b.rows[v], b.finals[b.match].result, b.finals[b.match].knockout)
  <2>1. b.match \in MatchIds /\ b.finals[b.match] \in Final /\ b.rows[v] \in Pick \union {NoPick}
    <3>1. b \in Rebuild /\ b.phase = "rows"
      BY <1>2 DEF ScoreRow, TypeOK
    <3>2. b.match \in MatchIds /\ b.finals[b.match] # Idle
      BY <3>1 DEF CursorOK
    <3> QED
      BY <3>1, <3>2 DEF Rebuild, Picks
  <2>2. scored.pick = row.pick
    <3>1. row \in Prediction /\ b.finals[b.match].result \in Result
      BY <2>1 DEF TypeOK, Final
    <3> QED
      BY ONLY <2>1, <3>1, SetScoreType
  <2>3. predictions' = [predictions EXCEPT ![v][b.match] = scored]
    BY <1>2 DEF ScoreRow
  <2> HIDE DEF scored
  <2>4. predictions[v] \in [MatchIds -> Prediction] /\ predictions[u] \in [MatchIds -> Prediction]
        /\ DOMAIN predictions = Users
    BY DEF TypeOK
  <2>5. predictions'[u][m] = IF u = v /\ m = b.match THEN scored ELSE predictions[u][m]
    BY <2>1, <2>3, <2>4
  <2> QED
    BY <2>2, <2>5
<1> QED
  BY <1>1, <1>2, PredictionMoves

LEMMA PickMoves ==
  ASSUME TypeOK, CursorOK, RequestOK, [Next]_vars, NEW u \in Users, NEW m \in MatchIds,
         predictions'[u][m].pick # predictions[u][m].pick, Exists(m)'
  PROVE  StorePrediction(u) /\ request[u].match = m /\ BeforeKickoff(m)
BY PickStored, StoredInTime

LEMMA SnapStep ==
  ASSUME TypeOK, CursorOK, TypeOK', IntentOK, RequestOK, SnapOK, [Next]_vars, Unmoved
  PROVE  SnapOK'
<1> SUFFICES ASSUME NEW w \in Writers, snap'[w] # NoTx, NEW m, m = intent'[w].match
             PROVE  /\ intent'[w] # Idle
                    /\ Exists(m)' => \A u \in Users : snap'[w][u] = predictions'[u][m].pick
  BY DEF SnapOK
<1>1. CASE BeginWrite(w)
  BY <1>1 DEF BeginWrite, TypeOK, db
<1>2. CASE ~BeginWrite(w)
  <2>1. snap'[w] = snap[w] /\ ~CommitWrite(w) /\ ~FailWrite(w)
    <3>1. ASSUME NEW v \in Writers, v # w, BeginWrite(v) \/ CommitWrite(v) \/ FailWrite(v)
          PROVE  snap'[w] = snap[w]
      BY <3>1 DEF BeginWrite, CommitWrite, FailWrite, TypeOK
    <3>2. ~CommitWrite(w) /\ ~FailWrite(w) /\ ~Restart
      BY DEF CommitWrite, FailWrite, Restart, TypeOK
    <3> QED
      BY <1>2, <3>1, <3>2, PlayerFrame, IngestFrame, RebuildFrame
      DEF Next, WriterNext, AdminNext, EnterResult, EditMatch, CreateMatch, DeleteMatch, Reseed,
          Tick, vars, runs
  <2>2. intent[w] # Idle
    BY <2>1 DEF SnapOK
  <2>3. intent'[w] = intent[w]
    <3>1. ASSUME NEW v \in Writers, v # w, BeginWrite(v) \/ CommitWrite(v) \/ FailWrite(v)
          PROVE  intent'[w] = intent[w]
      BY <3>1 DEF BeginWrite, CommitWrite, FailWrite, TypeOK
    <3>2. ASSUME NEW i \in Ingests, StartIngest(i) \/ TakeMatch(i) \/ SkipMatch(i)
          PROVE  intent'[w] = intent[w]
      BY <2>2, <3>2 DEF StartIngest, TakeMatch, SkipMatch, TypeOK, Writers
    <3>3. ASSUME NEW a \in Admins, NEW n \in MatchIds, NEW res \in ResultInputs, EnterResult(a, n, res)
          PROVE  intent'[w] = intent[w]
      BY <2>2, <3>3 DEF EnterResult, TypeOK, Writers
    <3>4. ~Restart
      BY DEF Restart, TypeOK
    <3> QED
      BY <1>2, <2>1, <3>1, <3>2, <3>3, <3>4, PlayerFrame, RebuildFrame
      DEF Next, IngestNext, WriterNext, AdminNext, EditMatch, CreateMatch, DeleteMatch, Reseed,
          Tick, vars, runs
  <2>4. m \in MatchIds /\ now \in Nat /\ matches[m].kickoff \in Nat
    BY <2>2, <2>3 DEF TypeOK, Intent, Match
  <2>5. ASSUME Exists(m)', NEW u \in Users PROVE predictions'[u][m].pick = predictions[u][m].pick
    <3>1. Exists(m) /\ matches[m].kickoff <= now
      BY <2>2, <2>3, <2>4, <2>5, Calendar DEF IntentOK
    <3> QED
      BY <2>4, <2>5, <3>1, PickMoves DEF BeforeKickoff
  <2>6. Exists(m)' => Exists(m)
    BY <2>2, <2>3, <2>4, Calendar DEF IntentOK
  <2> QED
    BY <2>1, <2>2, <2>3, <2>5, <2>6 DEF SnapOK
<1> QED
  BY <1>1, <1>2

LEMMA FreshStep ==
  ASSUME TypeOK, TypeOK', RowsOK, IntentOK, RequestOK, SnapOK, FinalPointsFresh, [Next]_vars, Unmoved,
         Rebuilds = {}
  PROVE  FinalPointsFresh'
<1> SUFFICES ASSUME NEW u \in Users, NEW m \in MatchIds, matches'[m].status = "final",
                    predictions'[u][m].pick # NoPick
             PROVE  predictions'[u][m].score =
                      Compute(predictions'[u][m].pick, Scoreline(m)', Knockout(m)')
  BY DEF FinalPointsFresh, Fresh
<1>0. now \in Nat /\ matches[m] \in Match /\ matches[m].kickoff \in Nat /\ Fresh(u, m)
  BY DEF TypeOK, Match, FinalPointsFresh
<1>1. ASSUME NEW w \in Writers, CommitWrite(w), intent[w].match = m, Exists(m)
      PROVE  predictions'[u][m].score =
               Compute(predictions'[u][m].pick, Scoreline(m)', Knockout(m)')
  <2> DEFINE t == intent[w]
             row == predictions[u][m]
  <2>1. t \in Intent /\ t # Idle /\ snap[w] # NoTx /\ snap[w] \in Picks
    BY <1>1, CommitRow DEF CommitWrite, TypeOK
  <2>2. snap[w][u] = row.pick /\ t.knockout = Knockout(m)
    BY <1>1, <2>1 DEF SnapOK, IntentOK
  <2>3. matches'[m].result = t.result /\ matches'[m].stage = matches[m].stage
    BY <1>1, CommitRow DEF Committed
  <2>4. t.result # NoResult
    BY <2>1, NullsAssumption DEF Intent
  <2>5. Scoreline(m)' = t.result /\ Knockout(m)' = t.knockout
    BY <2>2, <2>3, <2>4 DEF Scoreline, Knockout
  <2>6. predictions'[u][m] = SetScore(row, snap[w][u], t.result, t.knockout)
    BY <1>1, CommitScores
  <2>7. row \in Prediction
    BY DEF TypeOK
  <2>8. row.pick # NoPick /\ predictions'[u][m].pick = row.pick
    BY <2>2, <2>6, <2>7 DEF SetScore, Prediction
  <2> QED
    BY <2>2, <2>5, <2>6, <2>7, <2>8 DEF SetScore, Prediction
<1>2. ASSUME \A w \in Writers : CommitWrite(w) => intent[w].match # m \/ ~Exists(m)
      PROVE  predictions'[u][m].score =
               Compute(predictions'[u][m].pick, Scoreline(m)', Knockout(m)')
  <2>1. Kept(m)
    BY <1>2, CommitRow, OthersKeep DEF Kept, Committed
  <2>2. Exists(m) /\ matches[m].status = "final" /\ matches'[m].result = matches[m].result
        /\ matches'[m].stage = matches[m].stage
    BY <2>1 DEF Kept, Exists, Unmoved
  <2>3. ~BeforeKickoff(m)
    BY <1>0, <2>2 DEF RowsOK, BeforeKickoff
  <2>4. predictions'[u][m] = predictions[u][m]
    BY <1>2, <2>2, <2>3, PredictionMoves, StoredInTime DEF Exists
  <2> QED
    BY <1>0, <2>2, <2>4 DEF Fresh, Scoreline, Knockout
<1> QED
  BY <1>1, <1>2

LEMMA LockNext ==
  ASSUME BoundsAssumption, Latency = 0, LockInv, TypeOK', CursorOK', NoOrphans',
         [Next]_vars, [Unmoved /\ ApiAgrees]_vars
  PROVE  LockInv' /\ (Rebuilds = {} /\ FinalPointsFresh => FinalPointsFresh')
<1>1. Unmoved /\ ApiAgrees
  BY DEF Unmoved, ApiAgrees, vars, db, runs, ghost
<1> QED
  BY <1>1, RowsStep, TodoStep, IntentStep, RequestStep, SnapStep, FreshStep DEF LockInv

LEMMA LockHolds ==
  ASSUME Latency = 0
  PROVE  OrderlySpec => []LockInv /\ (Rebuilds = {} => []FinalPointsFresh)
<1>1. Init => RowsOK /\ TodoOK /\ IntentOK /\ RequestOK /\ SnapOK /\ FinalPointsFresh
  <2> SUFFICES ASSUME Init
               PROVE  RowsOK /\ TodoOK /\ IntentOK /\ RequestOK /\ SnapOK /\ FinalPointsFresh
    OBVIOUS
  <2>1. \A m \in MatchIds : matches[m].status # "final" /\ matches[m].api = NoApi /\ ~shown[m]
    BY DEF Init, NewRow, NoMatch
  <2>2. RowsOK /\ FinalPointsFresh
    BY <2>1 DEF RowsOK, FinalPointsFresh, Fresh
  <2> QED
    BY <2>2 DEF Init, TodoOK, IntentOK, RequestOK, SnapOK
<1>2. LockInv /\ TypeOK' /\ CursorOK' /\ NoOrphans' /\ [Next]_vars /\ [Unmoved /\ ApiAgrees]_vars
        => LockInv' /\ (Rebuilds = {} /\ FinalPointsFresh => FinalPointsFresh')
  BY LockNext, BoundsAssumption
<1>3. TypeOK /\ CursorOK /\ NoOrphans /\ RowsOK /\ TodoOK /\ IntentOK /\ RequestOK /\ SnapOK
        => LockInv
  BY DEF LockInv
<1>4. OrderlySpec => []LockInv
  BY <1>1, <1>2, <1>3, Typing, DeletionIsFinal, PTL DEF OrderlySpec, Spec
<1>5. CASE Rebuilds = {}
  <2>1. LockInv /\ FinalPointsFresh /\ LockInv' /\ [Next]_vars /\ [Unmoved /\ ApiAgrees]_vars
          => FinalPointsFresh'
    BY <1>2, <1>5 DEF LockInv
  <2> QED
    BY <1>1, <1>4, <2>1, PTL DEF OrderlySpec, Spec
<1> QED
  BY <1>4, <1>5

\* Outside of races points are never stale: whatever ingest runs, corrections,
\* edits, re-seeds, deletions, failures and restarts interleave, every prediction
\* on a final match has the points of the stored result.
THEOREM OrderlyPointsFresh ==
  ASSUME Latency = 0, Rebuilds = {}
  PROVE  OrderlySpec => []FinalPointsFresh
BY LockHolds

\* Picks the others have seen are never changed.
THEOREM OrderlyPicksFrozen ==
  ASSUME Latency = 0
  PROVE  OrderlySpec => ShownPicksFrozen
<1>1. ASSUME LockInv, [Next]_vars, NEW u \in Users, NEW m \in MatchIds, shown[m], Exists(m)'
      PROVE  predictions'[u][m].pick = predictions[u][m].pick
  <2> SUFFICES ASSUME predictions'[u][m].pick # predictions[u][m].pick PROVE FALSE
    OBVIOUS
  <2>1. StorePrediction(u) /\ BeforeKickoff(m)
    BY <1>1, PickMoves DEF LockInv
  <2>2. Exists(m)
    BY <1>1, <2>1 DEF StorePrediction, Exists
  <2>3. matches[m].kickoff <= now /\ matches[m].kickoff \in Nat /\ now \in Nat
    BY <1>1, <2>2 DEF LockInv, RowsOK, TypeOK, Match
  <2> QED
    BY <2>1, <2>3 DEF BeforeKickoff
<1>2. LockInv /\ [Next]_vars =>
        \A u \in Users, m \in MatchIds :
          shown[m] /\ Exists(m)' => predictions'[u][m].pick = predictions[u][m].pick
  BY <1>1
<1> QED
  BY <1>2, LockHolds, PTL DEF OrderlySpec, Spec, ShownPicksFrozen

-----------------------------------------------------------------------------
(* The lock when requests take their time. *)

\* A prediction on its way was checked before kickoff, at most Latency ago.
DueOK ==
  \A u \in Users : request[u] # Idle =>
    LET m == request[u].match
    IN  /\ matches[m].status # "unused"
        /\ request[u].at <= now /\ now <= request[u].at + Latency
        /\ Exists(m) => request[u].at < matches[m].kickoff

LEMMA DueStep ==
  ASSUME TypeOK, TypeOK', BoundsAssumption, DueOK, [Next]_vars, Unmoved
  PROVE  DueOK'
<1> SUFFICES ASSUME NEW u \in Users, request'[u] # Idle, NEW m, m = request'[u].match
             PROVE  /\ matches'[m].status # "unused"
                    /\ request'[u].at <= now' /\ now' <= request'[u].at + Latency
                    /\ Exists(m)' => request'[u].at < matches'[m].kickoff
  BY DEF DueOK
<1>0. /\ request'[u] \in Request /\ m \in MatchIds /\ now \in Nat /\ now' \in Nat
      /\ Latency \in Nat /\ now <= now'
  BY Clock DEF TypeOK, Request, BoundsAssumption
<1>1. CASE request'[u] = request[u]
  <2>1. now' <= request[u].at + Latency
    <3>1. request[u].at \in Nat
      BY <1>0, <1>1 DEF Request
    <3>2. CASE Tick
      BY <1>0, <1>1, <3>1, <3>2 DEF Tick
    <3>3. CASE now' = now
      BY <1>1, <3>3 DEF DueOK
    <3> QED
      BY <3>2, <3>3, Clock
  <2>2. request[u].at \in Nat /\ request[u].at <= now
    BY <1>0, <1>1 DEF DueOK, Request
  <2> QED
    BY <1>0, <1>1, <2>1, <2>2, Calendar DEF DueOK
<1>2. CASE request'[u] # request[u]
  <2>1. PICK n \in MatchIds, p \in PickInputs : CheckPrediction(u, n, p)
    BY <1>2, NewRequest
  <2>2. request'[u].match = n /\ request'[u].at = now
    BY <2>1 DEF CheckPrediction, TypeOK
  <2> QED
    BY <1>0, <2>1, <2>2 DEF CheckPrediction, Open, BeforeKickoff, Exists, db
<1> QED
  BY <1>1, <1>2

\* The lock is late by less than the time a request takes, and never by more:
\* no pick is stored on a match whose kickoff is Latency or more in the past,
\* whatever is retried, deleted, created or restarted meanwhile.  With no edit
\* moving a kickoff this is all the check-then-write of PutPrediction allows.
THEOREM LockLateByARequest ==
  Spec /\ [][Unmoved]_vars =>
    [][\A u \in Users, m \in MatchIds :
         predictions'[u][m].pick \notin {NoPick, predictions[u][m].pick}
           => now < matches[m].kickoff + Latency]_vars
<1>1. Init => DueOK
  BY DEF Init, DueOK
<1>2. TypeOK /\ TypeOK' /\ DueOK /\ [Next]_vars /\ [Unmoved]_vars => DueOK'
  <2>1. ASSUME TypeOK, TypeOK', DueOK, UNCHANGED vars PROVE DueOK'
    BY <2>1 DEF DueOK, Exists, vars, db, runs
  <2> QED
    BY <2>1, DueStep, BoundsAssumption
<1>3. ASSUME TypeOK, CursorOK, DueOK, NoOrphans', [Next]_vars,
             NEW u \in Users, NEW m \in MatchIds,
             predictions'[u][m].pick \notin {NoPick, predictions[u][m].pick}
      PROVE  now < matches[m].kickoff + Latency
  <2>1. Exists(m)'
    BY <1>3 DEF NoOrphans, NoRow
  <2>2. StorePrediction(u) /\ request[u].match = m
    BY <1>3, <2>1, PickStored
  <2>3. request[u] \in Request /\ Exists(m) /\ request[u] # Idle
    BY <1>3, <2>2 DEF StorePrediction, TypeOK
  <2>4. now <= request[u].at + Latency /\ request[u].at < matches[m].kickoff
    BY <1>3, <2>2, <2>3 DEF DueOK
  <2>5. /\ now \in Nat /\ Latency \in Nat /\ request[u].at \in Nat
        /\ matches[m].kickoff \in Nat
    BY <1>3, <2>3, BoundsAssumption DEF TypeOK, Request, Match
  <2> QED
    BY <2>4, <2>5
<1>4. TypeOK /\ CursorOK /\ DueOK /\ NoOrphans' /\ [Next]_vars =>
        \A u \in Users, m \in MatchIds :
          predictions'[u][m].pick \notin {NoPick, predictions[u][m].pick}
            => now < matches[m].kickoff + Latency
  BY <1>3
<1> QED
  BY <1>1, <1>2, <1>4, Typing, DeletionIsFinal, PTL DEF Spec

=============================================================================
