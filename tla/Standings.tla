------------------------------ MODULE Standings ------------------------------
(***************************************************************************)
(* What is made of the points: the weekly and the overall leaderboard, the *)
(* weekly-winner job, and the Hall of Fame with its payouts                *)
(* (backend/internal/leaderboard, jobs/weekly_winner.go,                   *)
(* httpapi/leaderboard_handler.go, httpapi/winners_handler.go).            *)
(*                                                                         *)
(* Points reach this module whole: Settle is the one transaction that      *)
(* MatchPoints takes apart.  An instant is a number; an IST week begins    *)
(* IstOffset before a multiple of WeekLength, and its number stands for    *)
(* the calendar Monday that keys weekly_results.                           *)
(***************************************************************************)
EXTENDS Scoring, SequencesExt

CONSTANTS
  Users,         \* user ids, numbers: the last tie-break of the SQL order
  Matches,
  Kickoff0,      \* Kickoff0[m]: the kickoff m is created with
  Knockouts,     \* the matches that are knockouts
  Kickoffs,      \* where an admin may move a kickoff to
  PickInputs, ResultInputs,
  Awards,        \* Awards[c]: the points of bonus category c
  BonusInputs,   \* sets of categories a user may turn out to have hit
  Jobs,          \* weekly-winner runs that may overlap (cron, manual trigger)
  WeekLength, IstOffset, PageSize, MaxTime,
  NoPick, NoScore, NoResult, NoRow, Idle

Categories == DOMAIN Awards

Row == [points : Nat, winner : BOOLEAN, paid : BOOLEAN]

ASSUME StandingsAssumption ==
  /\ Users \subseteq Nat /\ IsFiniteSet(Users) /\ IsFiniteSet(Matches)
  /\ Kickoff0 \in [Matches -> Nat] /\ Kickoffs \subseteq Nat
  /\ Knockouts \subseteq Matches
  /\ PickInputs \subseteq Pick /\ ResultInputs \subseteq Result
  /\ Awards \in [Categories -> Nat \ {0}] /\ IsFiniteSet(Categories)
  /\ BonusInputs \subseteq SUBSET Categories
  /\ WeekLength \in Nat \ {0} /\ IstOffset \in Nat /\ PageSize \in Nat \ {0}
  /\ MaxTime \in Nat
  /\ NoPick \notin Pick /\ NoScore \notin Score /\ NoResult \notin Result
  /\ NoRow \notin Row

VARIABLES
  now,
  kickoff,   \* kickoff[m]; Idle once m is deleted
  result,    \* result[m]
  picks,     \* picks[u][m]
  score,     \* score[u][m]
  hits,      \* hits[u]: the bonus categories u was paid for
  weekly,    \* table weekly_results: weekly[w][u]
  job        \* job[j]: the week and the rows a run has read

table == <<kickoff, result, picks, score, hits>>
vars  == <<now, table, weekly, job>>

-----------------------------------------------------------------------------
(* Weeks. *)

\* ISTMonday, as the number of its week.
WeekOf(t) == (t + IstOffset) \div WeekLength

\* The instant the IST Monday of week w begins.
WeekFrom(w) == w * WeekLength - IstOffset

Weeks == WeekOf(0) - 1 .. WeekOf(MaxTime)

MutInWeekInclusive(m, w) ==
  kickoff[m] # Idle /\ WeekFrom(w) <= kickoff[m] /\ kickoff[m] <= WeekFrom(w + 1)

\* WHERE kickoff_utc >= from AND kickoff_utc < to.
InWeek(m, w) ==
  kickoff[m] # Idle /\ WeekFrom(w) <= kickoff[m] /\ kickoff[m] < WeekFrom(w + 1)

-----------------------------------------------------------------------------
(* Leaderboards. *)

Predicted(u, m) == picks[u][m] # NoPick

\* A NULL score counts 0.
Earned(u, m) ==
  IF score[u][m] = NoScore THEN 0 ELSE score[u][m].points + score[u][m].bonus

Counted(u, m, tier) == score[u][m] # NoScore /\ score[u][m].points = tier

\* The aggregate of one user over the matches MS.
Line(u, MS) ==
  [user    |-> u,
   points  |-> SumFunction([m \in {m \in MS : Predicted(u, m)} |-> Earned(u, m)]),
   exact   |-> Cardinality({m \in MS : Predicted(u, m) /\ Counted(u, m, 5)}),
   correct |-> Cardinality({m \in MS : Predicted(u, m) /\ Counted(u, m, 3)}),
   hits    |-> 0]

\* A line of a board.
BoardLine == [user : Users, points : Nat, exact : Nat, correct : Nat, hits : Nat]

BonusPoints(u) == SumFunctionOnSet(Awards, hits[u])

\* The inner join: only who predicted something in the window is listed.
Participants(MS) == {u \in Users : \E m \in MS : Predicted(u, m)}

WeekMatches(w) == {m \in Matches : InWeek(m, w)}
AllMatches     == {m \in Matches : kickoff[m] # Idle}

WeeklyLines(w) == {Line(u, WeekMatches(w)) : u \in Participants(WeekMatches(w))}

OverallLines ==
  {LET l == Line(u, AllMatches)
   IN  [l EXCEPT !.points = l.points + BonusPoints(u), !.hits = Cardinality(hits[u])]
     : u \in Participants(AllMatches)}

\* ORDER BY points, exact, correct, bonus hits, all descending, then id.
Above(a, b) ==
  \/ a.points > b.points
  \/ /\ a.points = b.points
     /\ \/ a.exact > b.exact
        \/ /\ a.exact = b.exact
           /\ \/ a.correct > b.correct
              \/ /\ a.correct = b.correct
                 /\ \/ a.hits > b.hits
                    \/ a.hits = b.hits /\ a.user < b.user

Ordered(lines) ==
  CHOOSE s \in SetToSeqs(lines) : \A i, j \in DOMAIN s : i < j => Above(s[i], s[j])

WeeklySameRank(a, b) == a.points = b.points

MutThreeTiers(a, b) ==
  a.points = b.points /\ a.exact = b.exact /\ a.correct = b.correct

OverallSameRank(a, b) ==
  /\ a.points = b.points /\ a.exact = b.exact
  /\ a.correct = b.correct /\ a.hits = b.hits

\* The comparison a board ranks by.
SameRank(period, a, b) ==
  IF period = "week" THEN WeeklySameRank(a, b) ELSE OverallSameRank(a, b)

\* Competition ranks of ordered rows: 1, 1, 3.
Rank(rows, period) ==
  LET place[i \in DOMAIN rows] ==
        IF i > 1 /\ SameRank(period, rows[i - 1], rows[i]) THEN place[i - 1] ELSE i
  IN  place

MutPageSkipsOne(rows, n) ==
  LET start == n * PageSize
      last  == IF start + PageSize > Len(rows) THEN Len(rows) ELSE start + PageSize
  IN  IF start >= Len(rows) THEN <<>> ELSE SubSeq(rows, start + 1, last)

\* The rows of page n.
Page(rows, n) ==
  LET start == (n - 1) * PageSize
      last  == IF start + PageSize > Len(rows) THEN Len(rows) ELSE start + PageSize
  IN  IF start >= Len(rows) THEN <<>> ELSE SubSeq(rows, start + 1, last)

-----------------------------------------------------------------------------
(* The client's card of a past match (PastRow). *)

MutThreeIsExact(u, m) ==
  IF result[m] = NoResult THEN "Awaiting result"
  ELSE IF ~Predicted(u, m) THEN "No prediction"
  ELSE LET pts == IF score[u][m] = NoScore THEN 0 ELSE score[u][m].points
       IN  IF pts >= 3 THEN "Exact score" ELSE "Missed"

\* The chip: read off the server's points, of which none are shown as 0.
Verdict(u, m) ==
  IF result[m] = NoResult THEN "Awaiting result"
  ELSE IF ~Predicted(u, m) THEN "No prediction"
  ELSE LET pts == IF score[u][m] = NoScore THEN 0 ELSE score[u][m].points
       IN  IF pts >= 5 THEN "Exact score" ELSE IF pts > 0 THEN "Right result" ELSE "Missed"

-----------------------------------------------------------------------------
Init ==
  /\ now = 0
  /\ kickoff = Kickoff0
  /\ result = [m \in Matches |-> NoResult]
  /\ picks = [u \in Users |-> [m \in Matches |-> NoPick]]
  /\ score = [u \in Users |-> [m \in Matches |-> NoScore]]
  /\ hits = [u \in Users |-> {}]
  /\ weekly = [w \in Weeks |-> [u \in Users |-> NoRow]]
  /\ job = [j \in Jobs |-> Idle]

Tick ==
  /\ now < MaxTime
  /\ now' = now + 1
  /\ UNCHANGED <<table, weekly, job>>

\* PutPrediction, from the lock to the upsert, in one step; the window and the
\* teams are MatchPoints' concern.  The stored points stay with the row.
Predict(u, m, p) ==
  /\ kickoff[m] # Idle /\ now < kickoff[m]
  /\ p.pen # NoTeam => m \in Knockouts /\ IsDraw(p)
  /\ picks' = [picks EXCEPT ![u][m] = p]
  /\ UNCHANGED <<now, kickoff, result, score, hits, weekly, job>>

\* A result transaction, in one step: an ingested match, or an admin's correction.
Settle(m, r) ==
  /\ kickoff[m] # Idle /\ now >= kickoff[m]
  /\ r.pens => m \in Knockouts
  /\ result' = [result EXCEPT ![m] = r]
  /\ score' = [u \in Users |->
                 IF Predicted(u, m)
                 THEN [score[u] EXCEPT ![m] = Compute(picks[u][m], r, m \in Knockouts)]
                 ELSE score[u]]
  /\ UNCHANGED <<now, kickoff, picks, hits, weekly, job>>

\* PutAdminMatch moves a match to another kickoff, points and all.
Move(m, k) ==
  /\ kickoff[m] # Idle
  /\ kickoff' = [kickoff EXCEPT ![m] = k]
  /\ UNCHANGED <<now, result, picks, score, hits, weekly, job>>

\* DeleteAdminMatch, with the cascade.
Delete(m) ==
  /\ kickoff[m] # Idle
  /\ kickoff' = [kickoff EXCEPT ![m] = Idle]
  /\ result' = [result EXCEPT ![m] = NoResult]
  /\ picks' = [u \in Users |-> [picks[u] EXCEPT ![m] = NoPick]]
  /\ score' = [u \in Users |-> [score[u] EXCEPT ![m] = NoScore]]
  /\ UNCHANGED <<now, hits, weekly, job>>

\* What a bonus-score run leaves behind for one user (Bonus).
PayBonus(u, S) ==
  /\ hits' = [hits EXCEPT ![u] = S]
  /\ UNCHANGED <<now, kickoff, result, picks, score, weekly, job>>

\* WeeklyWinner.Run up to the leaderboard read.
StartWeekly(j) ==
  /\ job[j] = Idle
  /\ LET w == WeekOf(now) - 1
     IN  job' = [job EXCEPT ![j] = [week |-> w, lines |-> WeeklyLines(w)]]
  /\ UNCHANGED <<now, table, weekly>>

MutWinsOnNothing(l, lines) == \A k \in lines : k.points <= l.points

\* A co-winner: the top of the rows that were read, if it is above 0.
IsTop(l, lines) == l.points > 0 /\ \A k \in lines : k.points <= l.points

MutUpsertClearsPaid(old, l, lines) ==
  [points |-> l.points, winner |-> IsTop(l, lines), paid |-> FALSE]

\* INSERT ... ON DUPLICATE KEY UPDATE points, is_winner.
Upsert(old, l, lines) ==
  [points |-> l.points, winner |-> IsTop(l, lines),
   paid |-> IF old = NoRow THEN FALSE ELSE old.paid]

\* UpsertWeeklyResults: one transaction over the rows that were read, and over
\* no others.
FinishWeekly(j) ==
  LET w == job[j].week lines == job[j].lines
  IN  /\ job[j] # Idle
      /\ weekly' = [weekly EXCEPT ![w] = [u \in Users |->
           IF \E l \in lines : l.user = u
           THEN Upsert(weekly[w][u], CHOOSE l \in lines : l.user = u, lines)
           ELSE weekly[w][u]]]
      /\ job' = [job EXCEPT ![j] = Idle]
      /\ UNCHANGED <<now, table>>

\* The transaction fails and rolls back, or the process dies.
FailWeekly(j) ==
  /\ job[j] # Idle
  /\ job' = [job EXCEPT ![j] = Idle]
  /\ UNCHANGED <<now, table, weekly>>

\* WHERE week_start = ? AND user_id = ? AND is_winner = 1.
Payable(w, u) == weekly[w][u] # NoRow /\ weekly[w][u].winner

\* PutWinnerPaid.
MarkPaid(w, u, paid) ==
  /\ Payable(w, u)
  /\ weekly' = [weekly EXCEPT ![w][u].paid = paid]
  /\ UNCHANGED <<now, table, job>>

TableNext ==
  \/ \E m \in Matches :
       \/ \E u \in Users, p \in PickInputs : Predict(u, m, p)
       \/ \E r \in ResultInputs : Settle(m, r)
       \/ \E k \in Kickoffs : Move(m, k)
       \/ Delete(m)
  \/ \E u \in Users, S \in BonusInputs : PayBonus(u, S)

WeeklyNext ==
  \/ \E j \in Jobs : StartWeekly(j) \/ FinishWeekly(j) \/ FailWeekly(j)
  \/ \E w \in Weeks, u \in Users, paid \in BOOLEAN : MarkPaid(w, u, paid)

Next == Tick \/ TableNext \/ WeeklyNext

Spec == Init /\ [][Next]_vars

-----------------------------------------------------------------------------
(* Properties. *)

\* Every variable has its type.
TypeOK ==
  /\ now \in 0 .. MaxTime
  /\ kickoff \in [Matches -> Nat \union {Idle}]
  /\ result \in [Matches -> Result \union {NoResult}]
  /\ picks \in [Users -> [Matches -> Pick \union {NoPick}]]
  /\ score \in [Users -> [Matches -> Score \union {NoScore}]]
  /\ hits \in [Users -> SUBSET Categories]
  /\ weekly \in [Weeks -> [Users -> Row \union {NoRow}]]
  /\ job \in [Jobs -> [week : Weeks, lines : SUBSET BoardLine] \union {Idle}]

\* When a drawn shootout is scored, whoever named the team that advanced ends up
\* above everyone who named the wrong team, or none, on that match (scoring.go,
\* the advancement-first rule).
AdvancersAbove ==
  \A m \in Matches, u, v \in Users :
    LET r == result'[m]
        Scored(x) == score'[x][m] # NoScore
    IN  /\ score'[u][m] # score[u][m]
        /\ r # NoResult /\ r.pens /\ IsDraw(r) /\ r.winner # NoTeam
        /\ Scored(u) /\ Scored(v)
        /\ picks'[u][m].pen = r.winner /\ picks'[v][m].pen # r.winner
        => Earned(u, m)' > Earned(v, m)'

AdvancerNotOutscored == [][AdvancersAbove]_vars

\* On both boards a user's rank is one more than the number of users who beat
\* him: by points on the weekly board, where ties stand, by the four tiers on
\* the overall board, whatever the order of rows the tiers leave open.
RankIsPlace ==
  LET weeklyOf(w) == Ordered(WeeklyLines(w))
      overall == Ordered(OverallLines)
      Beats(a, b) == Above([a EXCEPT !.user = 0], [b EXCEPT !.user = 0])
  IN  /\ \A w \in Weeks : \A i \in DOMAIN weeklyOf(w) :
           Rank(weeklyOf(w), "week")[i] =
             1 + Cardinality({l \in WeeklyLines(w) : l.points > weeklyOf(w)[i].points})
      /\ \A i \in DOMAIN overall :
           Rank(overall, "overall")[i] =
             1 + Cardinality({l \in OverallLines : Beats(l, overall[i])})

\* Every match counts in exactly one week: what a user has on the overall board
\* is what the weeks give him and his bonus points, nothing lost or counted
\* twice at the Monday boundary.
WeeksAddUp ==
  \A l \in OverallLines :
    l.points = BonusPoints(l.user) +
      SumFunction([w \in 0 .. WeekOf(MaxTime) |->
        SumFunction([k \in {k \in WeeklyLines(w) : k.user = l.user} |-> k.points])])

\* What the card says of a pick that is scored by the result shown is true of
\* the two scorelines; a pick of the right outcome reads "Missed" only when it
\* put the wrong team, or none, through a drawn shootout (PastRow, scoring.go).
VerdictTruthful ==
  \A u \in Users, m \in Matches :
    LET p == picks[u][m]
        r == result[m]
        alike == Sign(p.home - p.away) = Sign(r.home - r.away)
    IN  (/\ Predicted(u, m) /\ r # NoResult
         /\ score[u][m] = Compute(p, r, m \in Knockouts)) =>
        CASE Verdict(u, m) = "Exact score"  -> p.home = r.home /\ p.away = r.away
          [] Verdict(u, m) = "Right result" -> alike
          [] Verdict(u, m) = "Missed"       -> alike => /\ r.pens /\ IsDraw(p)
                                                        /\ p.pen = NoTeam \/ p.pen # r.winner

\* The pages of a board, one after the other, are the board.
PagesCoverBoard ==
  LET rows == Ordered(OverallLines)
  IN  FlattenSeq([n \in 1..Cardinality(Users) |-> Page(rows, n)]) = rows

\* Run j writes what it read, and the board it read still stands.
WritesTheBoard(j) ==
  /\ job[j] # Idle /\ job'[j] = Idle /\ weekly' # weekly
  /\ job[j].lines = WeeklyLines(job[j].week)

\* Payable in the next state: w and u are taken from this one.
PayableNext(w, u) == weekly'[w][u] # NoRow /\ weekly'[w][u].winner

\* A run that wrote what the board still shows leaves payable, of the users on
\* it, exactly those ranked first with points to their name, and makes payable
\* nobody who is not on it (weekly_winner.go, Run; who was a winner before and
\* has left the board since is another matter: HighestTotalsWin).
DeclaresTheTop ==
  [][\A j \in Jobs : WritesTheBoard(j) =>
       LET w == job[j].week
           rows == Ordered(job[j].lines)
       IN  /\ \A i \in DOMAIN rows :
                PayableNext(w, rows[i].user)
                  <=> Rank(rows, "week")[i] = 1 /\ rows[i].points > 0
           /\ \A u \in Users : PayableNext(w, u) /\ ~Payable(w, u) =>
                \E l \in job[j].lines : l.user = u]_vars

\* Only a toggle by an admin changes a payout, and only a declared winner's: no
\* run, repeated, late or overlapping, un-pays or pays anyone.
PayoutToggled ==
  \A w \in Weeks, u \in Users :
    (weekly[w][u] # NoRow /\ weekly'[w][u] # weekly[w][u]
       /\ weekly'[w][u].paid # weekly[w][u].paid)
      => weekly[w][u].winner /\ UNCHANGED job

PayoutsAreToggles == [][PayoutToggled]_vars

\* After a run that wrote what the board shows, whoever can be paid for the week
\* has the highest total on it.
HighestTotalsWin ==
  [][\A j \in Jobs : WritesTheBoard(j) =>
       \A u \in Users : PayableNext(job[j].week, u) =>
         \E l \in job[j].lines : l.user = u /\ IsTop(l, job[j].lines)]_vars

=============================================================================
