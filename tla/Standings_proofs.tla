-------------------------- MODULE Standings_proofs --------------------------
(***************************************************************************)
(* Theorems about Standings, for any users, matches, inputs and calendar:  *)
(* the engine, the past cards and the payouts; the types and the sums of   *)
(* the boards; their order, ranks and pages; the weekly-winner job.        *)
(***************************************************************************)
EXTENDS Standings, Sums, SequenceTheorems

\* Only drawn picks name a shootout winner, and only picks are scored: what
\* PutPrediction validates, and what the settling loop ranges over.
PickInv ==
  /\ result \in [Matches -> Result \union {NoResult}]
  /\ picks \in [Users -> [Matches -> Pick \union {NoPick}]]
  /\ score \in [Users -> [Matches -> Score \union {NoScore}]]
  /\ \A u \in Users, m \in Matches :
       picks[u][m] # NoPick /\ picks[u][m].pen # NoTeam => IsDraw(picks[u][m])
  /\ \A u \in Users, m \in Matches : score[u][m] # NoScore => picks[u][m] # NoPick

-----------------------------------------------------------------------------
(* The engine. *)

\* Compute returns a pair of a tier and a bonus.
LEMMA ComputeType ==
  ASSUME NEW p \in Pick, NEW r \in Result, NEW k
  PROVE  Compute(p, r, k) \in Score
BY DEF Compute, Tier, Zero, Score

\* A draw that names the team that advanced is worth at least 4 after a drawn
\* shootout: its tier, and the bonus.
LEMMA AdvancerEarns ==
  ASSUME NEW p \in Pick, NEW r \in Result, NEW k, k = TRUE,
         r.pens, IsDraw(r), r.winner # NoTeam, p.pen = r.winner, IsDraw(p)
  PROVE  Compute(p, r, k).points + Compute(p, r, k).bonus >= 4
<1>1. p.home \in Nat /\ p.away \in Nat /\ r.home \in Nat /\ r.away \in Nat
  BY DEF Pick, Result
<1>2. p.home = p.away /\ r.home = r.away
  BY DEF IsDraw
<1>3. Tier(p, r) = 5 \/ Tier(p, r) = 3
  BY <1>1, <1>2 DEF Tier, Sign
<1>4. Tier(p, r) \in Nat
  BY <1>3
<1>5. CorrectShootout(p, r, k)
  BY DEF CorrectShootout
<1>6. Compute(p, r, k).points = Tier(p, r) /\ Compute(p, r, k).bonus = 1
  BY <1>3, <1>4, <1>5 DEF Compute
<1> QED
  BY <1>3, <1>6

\* Anything else is worth nothing after a drawn shootout.
LEMMA OthersEarnNothing ==
  ASSUME NEW p \in Pick, NEW r \in Result, NEW k, k = TRUE, r.pens, IsDraw(r), p.pen # r.winner
  PROVE  Compute(p, r, k) = Zero
<1>1. p.home \in Nat /\ p.away \in Nat /\ r.home \in Nat /\ r.away \in Nat
  BY DEF Pick, Result
<1>2. ~CorrectShootout(p, r, k)
  BY DEF CorrectShootout
<1>3. CASE IsDraw(p)
  BY <1>2, <1>3 DEF Compute
<1>4. CASE ~IsDraw(p)
  <2>1. Sign(r.home - r.away) = 0 /\ Sign(p.home - p.away) # 0
    BY <1>1, <1>4 DEF IsDraw, Sign
  <2>2. p.home # r.home \/ p.away # r.away
    BY <1>4 DEF IsDraw
  <2>3. Tier(p, r) = 0
    BY <2>1, <2>2 DEF Tier
  <2> QED
    BY <1>2, <1>4, <2>3 DEF Compute, Zero
<1> QED
  BY <1>3, <1>4

-----------------------------------------------------------------------------
(* The table. *)

LEMMA PickInvInit == Init => PickInv
BY DEF Init, PickInv

LEMMA PickInvNext ==
  ASSUME StandingsAssumption, PickInv, [Next]_vars
  PROVE  PickInv'
<1> USE DEF PickInv
<1>1. ASSUME NEW m \in Matches, NEW u \in Users, NEW p \in PickInputs, Predict(u, m, p)
      PROVE  PickInv'
  <2>1. p \in Pick /\ p # NoPick /\ (p.pen # NoTeam => IsDraw(p))
    BY <1>1 DEF StandingsAssumption, Predict
  <2>2. picks' = [picks EXCEPT ![u][m] = p] /\ score' = score /\ result' = result
    BY <1>1 DEF Predict
  <2> QED
    BY <2>1, <2>2
<1>2. ASSUME NEW m \in Matches, NEW r \in ResultInputs, Settle(m, r)
      PROVE  PickInv'
  <2>1. r \in Result
    BY DEF StandingsAssumption
  <2>2. /\ picks' = picks /\ result' = [result EXCEPT ![m] = r]
        /\ score' = [u \in Users |->
             IF Predicted(u, m)
             THEN [score[u] EXCEPT ![m] = Compute(picks[u][m], r, m \in Knockouts)]
             ELSE score[u]]
    BY <1>2 DEF Settle
  <2>3. ASSUME NEW u \in Users
        PROVE  /\ score'[u] \in [Matches -> Score \union {NoScore}]
               /\ \A n \in Matches : score'[u][n] # NoScore => picks[u][n] # NoPick
    <3>1. CASE Predicted(u, m)
      <4>1. picks[u][m] \in Pick /\ picks[u][m] # NoPick
        BY <3>1 DEF Predicted
      <4>2. Compute(picks[u][m], r, m \in Knockouts) \in Score
        BY <4>1, <2>1, ComputeType
      <4>3. score'[u] = [score[u] EXCEPT ![m] = Compute(picks[u][m], r, m \in Knockouts)]
        BY <2>2, <3>1
      <4> QED
        BY <4>1, <4>2, <4>3, <2>2
    <3>2. CASE ~Predicted(u, m)
      BY <2>2, <3>2
    <3> QED
      BY <3>1, <3>2
  <2>4. score' \in [Users -> [Matches -> Score \union {NoScore}]]
    BY <2>2, <2>3
  <2> QED
    BY <2>2, <2>3, <2>4
<1>3. ASSUME NEW m \in Matches, Delete(m)
      PROVE  PickInv'
  <2>1. /\ result' = [result EXCEPT ![m] = NoResult]
        /\ picks' = [u \in Users |-> [picks[u] EXCEPT ![m] = NoPick]]
        /\ score' = [u \in Users |-> [score[u] EXCEPT ![m] = NoScore]]
    BY <1>3 DEF Delete
  <2> QED
    BY <2>1
<1>4. ASSUME UNCHANGED <<result, picks, score>>
      PROVE  PickInv'
  BY <1>4
<1> QED
  BY <1>1, <1>2, <1>3, <1>4
  DEF Next, Tick, TableNext, WeeklyNext, Move, PayBonus, StartWeekly, FinishWeekly,
      FailWeekly, MarkPaid, vars, table

-----------------------------------------------------------------------------
\* The advancement-first rule (scoring.go): scoring a drawn shootout never
\* leaves somebody who missed the advancing team level with, or above, somebody
\* who named it.
THEOREM AdvancersFirst == ASSUME StandingsAssumption PROVE Spec => AdvancerNotOutscored
<1>1. Spec => []PickInv
  BY PickInvInit, PickInvNext, PTL DEF Spec
<1>2. ASSUME PickInv, PickInv', [Next]_vars, NEW m \in Matches, NEW u \in Users, NEW v \in Users,
             score'[u][m] # score[u][m],
             result'[m] # NoResult, result'[m].pens, IsDraw(result'[m]),
             result'[m].winner # NoTeam,
             score'[u][m] # NoScore, score'[v][m] # NoScore,
             picks'[u][m].pen = result'[m].winner,
             picks'[v][m].pen # result'[m].winner
      PROVE  Earned(u, m)' > Earned(v, m)'
  <2>1. PICK k \in Matches, r \in ResultInputs : Settle(k, r)
    <3>1. ASSUME NEW k \in Matches, Delete(k) PROVE FALSE
      BY <3>1, <1>2 DEF Delete, PickInv
    <3> QED
      BY <1>2, <3>1
      DEF Next, Tick, TableNext, WeeklyNext, Predict, Move, PayBonus, StartWeekly,
          FinishWeekly, FailWeekly, MarkPaid, vars, table
  <2>2. /\ picks' = picks /\ result' = [result EXCEPT ![k] = r] /\ (r.pens => k \in Knockouts)
        /\ score' = [x \in Users |->
             IF Predicted(x, k)
             THEN [score[x] EXCEPT ![k] = Compute(picks[x][k], r, k \in Knockouts)]
             ELSE score[x]]
    BY <2>1 DEF Settle
  <2>3. k = m
    BY <2>2, <1>2 DEF PickInv
  <2>4. r \in Result /\ result'[m] = r /\ m \in Knockouts
    BY <2>2, <2>3, <1>2 DEF PickInv, StandingsAssumption
  <2>5. ASSUME NEW x \in Users, picks[x][m] # NoPick
        PROVE  picks[x][m] \in Pick /\ (picks[x][m].pen # NoTeam => IsDraw(picks[x][m]))
    <3>1. PickInv
      BY <1>2
    <3> QED
      BY ONLY <3>1, <2>5, m \in Matches, x \in Users DEF PickInv
  <2>6. ASSUME NEW x \in Users, score'[x][m] # NoScore
        PROVE  \E p \in Pick : /\ p = picks[x][m]
                               /\ p.pen # NoTeam => IsDraw(p)
                               /\ score'[x][m] = Compute(p, r, TRUE)
    <3>1. picks[x][m] # NoPick
      BY <2>2, <2>6, <1>2 DEF PickInv
    <3>2. picks[x][m] \in Pick /\ (picks[x][m].pen # NoTeam => IsDraw(picks[x][m]))
      BY <3>1, <2>5
    <3>3. PICK p \in Pick : p = picks[x][m] /\ (p.pen # NoTeam => IsDraw(p))
      BY <3>2
    <3>4. Predicted(x, m)
      BY <3>1 DEF Predicted
    <3>5. score'[x] = [score[x] EXCEPT ![m] = Compute(p, r, TRUE)]
      BY <2>2, <2>3, <2>4, <3>3, <3>4
    <3>6. score'[x][m] = Compute(p, r, TRUE)
      BY <3>5, <1>2 DEF PickInv
    <3> QED
      BY <3>3, <3>6
  <2>7. PICK p \in Pick : /\ p = picks[u][m]
                          /\ p.pen # NoTeam => IsDraw(p)
                          /\ score'[u][m] = Compute(p, r, TRUE)
    BY <1>2, <2>6
  <2>8. PICK q \in Pick : q = picks[v][m] /\ score'[v][m] = Compute(q, r, TRUE)
    BY <1>2, <2>6
  <2>9. p.pen = r.winner /\ q.pen # r.winner /\ r.pens /\ IsDraw(r) /\ r.winner # NoTeam
    BY <1>2, <2>2, <2>4, <2>7, <2>8
  <2>10. score'[u][m].points + score'[u][m].bonus >= 4
    BY <2>4, <2>7, <2>9, AdvancerEarns
  <2>11. score'[v][m] = Zero
    BY <2>4, <2>8, <2>9, OthersEarnNothing
  <2>12. Earned(u, m)' = score'[u][m].points + score'[u][m].bonus
    BY <1>2 DEF Earned
  <2>13. Earned(v, m)' = 0
    BY <2>11 DEF Earned, Zero
  <2>14. score'[u][m].points \in Nat /\ score'[u][m].bonus \in Nat
    <3>1. Compute(p, r, TRUE) \in Score
      BY <2>4, ComputeType
    <3>2. score'[u][m] \in Score
      BY <3>1, <2>7
    <3> QED
      BY ONLY <3>2 DEF Score
  <2>15. Earned(u, m)' >= 4
    BY <2>10, <2>12
  <2>16. Earned(u, m)' \in Nat
    BY <2>12, <2>14
  <2> QED
    BY <2>13, <2>15, <2>16
<1>3. PickInv /\ PickInv' /\ [Next]_vars => [AdvancersAbove]_vars
  BY <1>2 DEF AdvancersAbove
<1> QED
  BY <1>1, <1>3, PTL DEF Spec, AdvancerNotOutscored

-----------------------------------------------------------------------------
\* What the tiers of the engine say of the two scorelines.
LEMMA TierTells ==
  ASSUME NEW p \in Pick, NEW r \in Result, NEW k
  PROVE  LET pts   == Compute(p, r, k).points
             alike == Sign(p.home - p.away) = Sign(r.home - r.away)
         IN  /\ pts \in {0, 3, 5}
             /\ pts = 5 => p.home = r.home /\ p.away = r.away
             /\ pts = 3 => alike
             /\ pts = 0 /\ alike => r.pens /\ IsDraw(p) /\ (p.pen = NoTeam \/ p.pen # r.winner)
<1> DEFINE alike == Sign(p.home - p.away) = Sign(r.home - r.away)
<1>1. CASE k /\ r.pens /\ IsDraw(p) /\ ~CorrectShootout(p, r, k)
  <2>1. Compute(p, r, k) = Zero
    BY <1>1 DEF Compute
  <2>2. p.pen # NoTeam /\ p.pen = r.winner => FALSE
    BY <1>1 DEF CorrectShootout
  <2>3. /\ Compute(p, r, k).points = 0 /\ Compute(p, r, k).points \in {0, 3, 5}
        /\ Compute(p, r, k).points # 5 /\ Compute(p, r, k).points # 3
    BY <2>1 DEF Zero
  <2> QED
    BY <1>1, <2>2, <2>3, Zenon
<1>2. CASE ~(k /\ r.pens /\ IsDraw(p) /\ ~CorrectShootout(p, r, k))
  <2>1. Compute(p, r, k).points = Tier(p, r)
    BY <1>2 DEF Compute
  <2>2. Tier(p, r) \in {0, 3, 5} /\ (Tier(p, r) = 5 => p.home = r.home /\ p.away = r.away)
        /\ (Tier(p, r) = 3 => alike) /\ (Tier(p, r) = 0 => ~alike)
    BY DEF Tier
  <2> QED
    BY <2>1, <2>2
<1> QED
  BY <1>1, <1>2

\* The card of a past match never claims of a pick what its scoreline does not
\* bear out, whoever settles, corrects, moves or deletes matches around it.
THEOREM VerdictsTrue == ASSUME StandingsAssumption PROVE Spec => []VerdictTruthful
<1>1. ASSUME PickInv PROVE VerdictTruthful
  <2> SUFFICES ASSUME NEW u \in Users, NEW m \in Matches, Predicted(u, m), result[m] # NoResult,
                      score[u][m] = Compute(picks[u][m], result[m], m \in Knockouts)
               PROVE  LET p == picks[u][m]
                          r == result[m]
                          alike == Sign(p.home - p.away) = Sign(r.home - r.away)
                      IN  CASE Verdict(u, m) = "Exact score"  -> p.home = r.home /\ p.away = r.away
                            [] Verdict(u, m) = "Right result" -> alike
                            [] Verdict(u, m) = "Missed"       ->
                                 alike => /\ r.pens /\ IsDraw(p)
                                          /\ p.pen = NoTeam \/ p.pen # r.winner
    BY DEF VerdictTruthful
  <2>1. PICK p \in Pick : p = picks[u][m]
    BY <1>1 DEF PickInv, Predicted
  <2>2. PICK r \in Result : r = result[m]
    BY <1>1 DEF PickInv
  <2>3. PICK s \in Score : s = Compute(p, r, m \in Knockouts)
    BY ComputeType
  <2>4. s \in Score /\ s = score[u][m] /\ score[u][m] # NoScore
    BY <2>1, <2>2, <2>3 DEF StandingsAssumption
  <2>5. Verdict(u, m) = IF s.points >= 5 THEN "Exact score"
                        ELSE IF s.points > 0 THEN "Right result" ELSE "Missed"
    BY <2>4 DEF Verdict
  <2>6. /\ s.points \in {0, 3, 5}
        /\ s.points = 5 => p.home = r.home /\ p.away = r.away
        /\ s.points = 3 => Sign(p.home - p.away) = Sign(r.home - r.away)
        /\ s.points = 0 /\ Sign(p.home - p.away) = Sign(r.home - r.away)
             => r.pens /\ IsDraw(p) /\ (p.pen = NoTeam \/ p.pen # r.winner)
    BY <2>3, TierTells
  <2>7. CASE s.points = 5
    <3>1. s.points >= 5
      BY <2>7
    <3>2. Verdict(u, m) = "Exact score"
      BY <2>5, <3>1, Zenon
    <3> QED
      BY <2>1, <2>2, <2>6, <2>7, <3>2
  <2>8. CASE s.points = 3
    <3>1. ~(s.points >= 5) /\ s.points > 0
      BY <2>8
    <3>2. Verdict(u, m) = "Right result"
      BY <2>5, <3>1, Zenon
    <3> QED
      BY <2>1, <2>2, <2>6, <2>8, <3>2
  <2>9. CASE s.points = 0
    <3>1. Verdict(u, m) = "Missed"
      BY <2>5, <2>9
    <3> QED
      BY <2>1, <2>2, <2>6, <2>9, <3>1
  <2> QED
    BY <2>6, <2>7, <2>8, <2>9
<1>2. Spec => []PickInv
  BY PickInvInit, PickInvNext, PTL DEF Spec
<1> QED
  BY <1>1, <1>2, PTL

-----------------------------------------------------------------------------
\* weekly_results is a table over weeks and users.
WeeklyTable == weekly = [w \in Weeks |-> [u \in Users |-> weekly[w][u]]]

LEMMA WeeklyTableInvariant == Spec => []WeeklyTable
<1>1. Init => WeeklyTable
  BY DEF Init, WeeklyTable
<1>2. ASSUME WeeklyTable, [Next]_vars PROVE WeeklyTable'
  <2>1. ASSUME NEW j \in Jobs, FinishWeekly(j) PROVE WeeklyTable'
    BY <1>2, <2>1 DEF WeeklyTable, FinishWeekly
  <2>2. ASSUME NEW w \in Weeks, NEW u \in Users, NEW paid \in BOOLEAN, MarkPaid(w, u, paid)
        PROVE  WeeklyTable'
    BY <1>2, <2>2 DEF WeeklyTable, MarkPaid
  <2>3. ASSUME UNCHANGED weekly PROVE WeeklyTable'
    BY <1>2, <2>3 DEF WeeklyTable, Weeks, WeekOf
  <2> QED
    BY <1>2, <2>1, <2>2, <2>3
    DEF Next, Tick, TableNext, WeeklyNext, Predict, Settle, Move, Delete, PayBonus,
        StartWeekly, FailWeekly, vars, table
<1> QED
  BY <1>1, <1>2, PTL DEF Spec

\* No weekly-winner run, repeated, late or overlapping, pays or un-pays anyone,
\* and an admin's toggle reaches declared winners only.
THEOREM PayoutsStand == Spec => PayoutsAreToggles
<1> DEFINE Toggled(w, u) ==
       (weekly[w][u] # NoRow /\ weekly'[w][u] # weekly[w][u]
          /\ weekly'[w][u].paid # weekly[w][u].paid)
         => weekly[w][u].winner /\ UNCHANGED job
<1>1. ASSUME WeeklyTable, [Next]_vars, NEW w \in Weeks, NEW u \in Users
      PROVE  Toggled(w, u)
  <2>1. ASSUME NEW j \in Jobs, FinishWeekly(j) PROVE Toggled(w, u)
    <3>1. CASE w # job[j].week
      BY <1>1, <2>1, <3>1 DEF WeeklyTable, FinishWeekly
    <3>2. CASE w = job[j].week /\ weekly[w][u] # NoRow
      <4> DEFINE lines == job[j].lines
                 New == Upsert(weekly[w][u], CHOOSE l \in lines : l.user = u, lines)
      <4>1. New.paid = weekly[w][u].paid
        BY <3>2 DEF Upsert
      <4>2. weekly'[w][u] = New \/ weekly'[w][u] = weekly[w][u]
        BY <1>1, <2>1, <3>2 DEF WeeklyTable, FinishWeekly
      <4> QED
        BY <4>1, <4>2
    <3> QED
      BY <3>1, <3>2
  <2>2. ASSUME NEW y \in Weeks, NEW v \in Users, NEW paid \in BOOLEAN, MarkPaid(y, v, paid)
        PROVE  Toggled(w, u)
    <3>1. weekly[y][v].winner /\ UNCHANGED job
      BY <2>2 DEF MarkPaid, Payable
    <3>2. (w # y \/ u # v) => weekly'[w][u] = weekly[w][u]
      BY <1>1, <2>2 DEF MarkPaid, WeeklyTable
    <3> QED
      BY <3>1, <3>2
  <2>3. ASSUME UNCHANGED weekly PROVE Toggled(w, u)
    BY <2>3
  <2> QED
    BY <1>1, <2>1, <2>2, <2>3
    DEF Next, Tick, TableNext, WeeklyNext, Predict, Settle, Move, Delete, PayBonus,
        StartWeekly, FailWeekly, vars, table
<1>2. WeeklyTable /\ [Next]_vars => [PayoutToggled]_vars
  BY <1>1 DEF PayoutToggled
<1> QED
  BY <1>2, WeeklyTableInvariant, PTL DEF Spec, PayoutsAreToggles

-----------------------------------------------------------------------------
(* Weeks.  A week number is a quotient, and the window of a week is where  *)
(* the quotient is that number.                                            *)

\* What \div is for naturals.
LEMMA Division ==
  ASSUME NEW a \in Nat, NEW b \in Nat, b > 0
  PROVE  a \div b \in Nat /\ (a \div b) * b <= a /\ a < (a \div b + 1) * b
OBVIOUS

LEMMA SameQuotient ==
  ASSUME NEW a \in Nat, NEW b \in Nat, b > 0, NEW q \in Int, q * b <= a, a < (q + 1) * b
  PROVE  a \div b = q
<1> DEFINE d == a \div b
<1>1. d \in Nat /\ d * b <= a /\ a < (d + 1) * b
  BY Division
<1> HIDE DEF d
<1>2. q * b < (d + 1) * b /\ d * b < (q + 1) * b
  <2>1. q * b \in Int /\ (d + 1) * b \in Int /\ d * b \in Int /\ (q + 1) * b \in Int
    BY <1>1
  <2> HIDE DEF d
  <2> QED
    BY <1>1, <2>1
<1>3. \A i, j \in Int : i * b < j * b => i < j
  OBVIOUS
<1>4. q < d + 1 /\ d < q + 1
  BY <1>1, <1>2, <1>3
<1>5. d = q
  BY <1>1, <1>4
<1> QED
  BY <1>5 DEF d

LEMMA InWeekOf ==
  ASSUME StandingsAssumption, NEW m, kickoff[m] \in Nat, kickoff[m] # Idle, NEW w \in Int
  PROVE  InWeek(m, w) <=> WeekOf(kickoff[m]) = w
<1> DEFINE a == kickoff[m] + IstOffset
<1>1. a \in Nat /\ WeekLength \in Nat /\ WeekLength > 0
  BY DEF StandingsAssumption
<1>2. WeekOf(kickoff[m]) = a \div WeekLength
  BY DEF WeekOf
<1>3. InWeek(m, w) <=> w * WeekLength <= a /\ a < (w + 1) * WeekLength
  <2>1. w * WeekLength \in Int /\ (w + 1) * WeekLength \in Int /\ IstOffset \in Int /\ kickoff[m] \in Int
    BY <1>1 DEF StandingsAssumption
  <2> QED
    BY <2>1 DEF InWeek, WeekFrom
<1> HIDE DEF a
<1>4. InWeek(m, w) => a \div WeekLength = w
  BY <1>1, <1>3, SameQuotient
<1>5. a \div WeekLength = w => InWeek(m, w)
  BY <1>1, <1>3, Division
<1> QED
  BY <1>2, <1>4, <1>5

LEMMA WeekOfMonotone ==
  ASSUME StandingsAssumption, NEW s \in Nat, NEW t \in Nat, s <= t
  PROVE  WeekOf(s) \in Nat /\ WeekOf(t) \in Nat /\ WeekOf(s) <= WeekOf(t)
<1> DEFINE a == s + IstOffset
           b == t + IstOffset
<1>1. a \in Nat /\ b \in Nat /\ a <= b /\ WeekLength \in Nat /\ WeekLength > 0
  BY DEF StandingsAssumption
<1>2. WeekOf(s) = a \div WeekLength /\ WeekOf(t) = b \div WeekLength
  BY DEF WeekOf
<1> DEFINE c == a \div WeekLength
           d == b \div WeekLength
<1>3. c \in Nat /\ c * WeekLength <= a /\ d \in Nat /\ b < (d + 1) * WeekLength
  BY <1>1, Division
<1> HIDE DEF a, b, c, d
<1>4. c * WeekLength < (d + 1) * WeekLength
  <2>1. c * WeekLength \in Nat /\ (d + 1) * WeekLength \in Nat
    BY <1>1, <1>3
  <2> QED
    BY <1>1, <1>3, <2>1
<1>5. c < d + 1
  BY <1>1, <1>3, <1>4
<1> QED
  BY <1>2, <1>3, <1>5 DEF c, d

-----------------------------------------------------------------------------
(* Lines. *)

\* What a board adds up for a user is a natural number.
LEMMA LineType ==
  ASSUME StandingsAssumption, TypeOK, NEW u \in Users, NEW MS \in SUBSET Matches
  PROVE  Line(u, MS) \in BoardLine /\ Line(u, MS).user = u /\ Line(u, MS).hits = 0
<1> DEFINE mine == {m \in MS : Predicted(u, m)}
           f == [m \in mine |-> Earned(u, m)]
<1>1. /\ IsFiniteSet(mine)
      /\ IsFiniteSet({m \in MS : Predicted(u, m) /\ Counted(u, m, 5)})
      /\ IsFiniteSet({m \in MS : Predicted(u, m) /\ Counted(u, m, 3)})
  <2>1. IsFiniteSet(Matches)
    BY DEF StandingsAssumption
  <2> QED
    BY <2>1, FS_Subset
<1>2. \A m \in mine : f[m] \in Nat
  <2> SUFFICES ASSUME NEW m \in mine PROVE Earned(u, m) \in Nat
    OBVIOUS
  <2>1. score[u][m] \in Score \union {NoScore}
    BY DEF TypeOK
  <2> QED
    BY <2>1 DEF Earned, Score
<1>3. SumFunctionOnSet(f, mine) \in Nat
  <2> HIDE DEF f, mine
  <2> QED
    BY <1>1, <1>2, SumType
<1>4. SumFunction(f) = SumFunctionOnSet(f, mine)
  BY DEF SumFunction
<1>5. Line(u, MS).points \in Nat
  BY <1>3, <1>4 DEF Line
<1>6. Line(u, MS).exact \in Nat /\ Line(u, MS).correct \in Nat
  BY <1>1, FS_CardinalityType DEF Line
<1>7. Line(u, MS) = [user |-> u, points |-> Line(u, MS).points, exact |-> Line(u, MS).exact,
                     correct |-> Line(u, MS).correct, hits |-> 0]
  BY DEF Line
<1> HIDE DEF f, mine
<1> QED
  BY <1>5, <1>6, <1>7 DEF BoardLine

LEMMA BonusType ==
  ASSUME StandingsAssumption, TypeOK, NEW u \in Users
  PROVE  BonusPoints(u) \in Nat /\ Cardinality(hits[u]) \in Nat
<1>1. hits[u] \in SUBSET Categories /\ IsFiniteSet(Categories)
  BY DEF TypeOK, StandingsAssumption
<1>2. IsFiniteSet(hits[u]) /\ \A c \in hits[u] : Awards[c] \in Nat
  BY <1>1, FS_Subset DEF StandingsAssumption
<1> QED
  BY <1>2, SumType, FS_CardinalityType DEF BonusPoints

LEMMA WeeklyLinesType ==
  ASSUME StandingsAssumption, TypeOK, NEW w
  PROVE  /\ WeeklyLines(w) \in SUBSET BoardLine
         /\ \A l \in WeeklyLines(w) : l = Line(l.user, WeekMatches(w)) /\ l.hits = 0
<1>1. WeekMatches(w) \in SUBSET Matches
  BY DEF WeekMatches
<1>2. ASSUME NEW l \in WeeklyLines(w)
      PROVE  l \in BoardLine /\ l = Line(l.user, WeekMatches(w)) /\ l.hits = 0
  <2>1. PICK u \in Users : l = Line(u, WeekMatches(w))
    BY DEF WeeklyLines, Participants
  <2> QED
    BY <1>1, <2>1, LineType
<1> QED
  BY <1>2

LEMMA OverallLinesType ==
  ASSUME StandingsAssumption, TypeOK
  PROVE  /\ OverallLines \in SUBSET BoardLine
         /\ \A l \in OverallLines :
              LET k == Line(l.user, AllMatches)
              IN  /\ l.points = k.points + BonusPoints(l.user)
                  /\ l = [k EXCEPT !.points = k.points + BonusPoints(l.user),
                                   !.hits = Cardinality(hits[l.user])]
<1>1. AllMatches \in SUBSET Matches
  BY DEF AllMatches
<1>2. ASSUME NEW l \in OverallLines
      PROVE  /\ l \in BoardLine
             /\ LET k == Line(l.user, AllMatches)
                IN  /\ l.points = k.points + BonusPoints(l.user)
                    /\ l = [k EXCEPT !.points = k.points + BonusPoints(l.user),
                                     !.hits = Cardinality(hits[l.user])]
  <2>1. PICK u \in Users :
          l = [Line(u, AllMatches) EXCEPT !.points = Line(u, AllMatches).points + BonusPoints(u),
                                          !.hits = Cardinality(hits[u])]
    BY DEF OverallLines, Participants
  <2>2. Line(u, AllMatches) \in BoardLine /\ Line(u, AllMatches).user = u
    BY <1>1, LineType
  <2>3. BonusPoints(u) \in Nat /\ Cardinality(hits[u]) \in Nat
    BY BonusType
  <2>4. PICK k \in BoardLine : k = Line(u, AllMatches)
    BY <2>2
  <2>5. l.user = u /\ l.points = k.points + BonusPoints(u) /\ l \in BoardLine
    <3>1. PICK b \in Nat, c \in Nat : b = BonusPoints(u) /\ c = Cardinality(hits[u])
      BY <2>3
    <3>2. l = [k EXCEPT !.points = k.points + b, !.hits = c]
      BY <2>1, <2>4, <3>1
    <3>3. k.user = u
      BY <2>2, <2>4
    <3>4. /\ k = [user |-> k.user, points |-> k.points, exact |-> k.exact,
                  correct |-> k.correct, hits |-> k.hits]
          /\ k.points \in Nat /\ k.exact \in Nat /\ k.correct \in Nat
      BY DEF BoardLine
    <3>5. l = [user |-> u, points |-> k.points + b, exact |-> k.exact,
               correct |-> k.correct, hits |-> c]
      BY <3>2, <3>3, <3>4
    <3> QED
      BY <3>1, <3>4, <3>5 DEF BoardLine
  <2> QED
    BY <2>1, <2>4, <2>5
<1> QED
  BY <1>2

-----------------------------------------------------------------------------
(* Types. *)

LEMMA TypeInit == ASSUME StandingsAssumption, Init PROVE TypeOK
<1>1. 0 \in 0 .. MaxTime
  BY DEF StandingsAssumption
<1> QED
  BY <1>1 DEF Init, TypeOK, StandingsAssumption

LEMMA TypeNext ==
  ASSUME StandingsAssumption, TypeOK, [Next]_vars
  PROVE  TypeOK'
<1> DEFINE Table == /\ kickoff \in [Matches -> Nat \union {Idle}]
                    /\ result \in [Matches -> Result \union {NoResult}]
                    /\ picks \in [Users -> [Matches -> Pick \union {NoPick}]]
                    /\ score \in [Users -> [Matches -> Score \union {NoScore}]]
                    /\ hits \in [Users -> SUBSET Categories]
           Weekly == weekly \in [Weeks -> [Users -> Row \union {NoRow}]]
           Job == job \in [Jobs -> [week : Weeks, lines : SUBSET BoardLine] \union {Idle}]
<1>0. TypeOK <=> now \in 0 .. MaxTime /\ Table /\ Weekly /\ Job
  BY DEF TypeOK
<1>1. (UNCHANGED table => Table') /\ (UNCHANGED weekly => Weekly') /\ (UNCHANGED job => Job')
  <2>1. Table /\ Weekly /\ Job
    BY <1>0
  <2> QED
    BY <2>1 DEF table, Weeks, WeekOf
<1>2. TypeOK' <=> now' \in 0 .. MaxTime /\ Table' /\ Weekly' /\ Job'
  BY DEF TypeOK, Weeks, WeekOf
<1>3. CASE Tick
  <2>1. now' \in 0 .. MaxTime
    BY <1>0, <1>3 DEF Tick, StandingsAssumption
  <2> QED
    BY <1>1, <1>2, <1>3, <2>1, Zenon DEF Tick
<1>4. CASE TableNext
  <2>1. UNCHANGED <<now, weekly, job>>
    BY <1>4 DEF TableNext, Predict, Settle, Move, Delete, PayBonus
  <2>2. Table
    BY <1>0
  <2>3. ASSUME NEW m \in Matches, NEW u \in Users, NEW p \in PickInputs, Predict(u, m, p)
        PROVE  Table'
    BY <2>2, <2>3 DEF Predict, StandingsAssumption
  <2>4. ASSUME NEW m \in Matches, NEW r \in ResultInputs, Settle(m, r)
        PROVE  Table'
    <3>1. \A u \in Users : Predicted(u, m) => Compute(picks[u][m], r, m \in Knockouts) \in Score
      <4>1. \A u \in Users : Predicted(u, m) => picks[u][m] \in Pick
        BY <2>2 DEF Predicted
      <4>2. r \in Result
        BY DEF StandingsAssumption
      <4> QED
        BY <4>1, <4>2, ComputeType
    <3>2. score' \in [Users -> [Matches -> Score \union {NoScore}]]
      BY <2>2, <2>4, <3>1 DEF Settle
    <3> QED
      BY <2>2, <2>4, <3>2 DEF Settle, StandingsAssumption
  <2>5. ASSUME NEW m \in Matches, NEW k \in Kickoffs, Move(m, k) PROVE Table'
    BY <2>2, <2>5 DEF Move, StandingsAssumption
  <2>6. ASSUME NEW m \in Matches, Delete(m) PROVE Table'
    BY <2>2, <2>6 DEF Delete
  <2>7. ASSUME NEW u \in Users, NEW S \in BonusInputs, PayBonus(u, S) PROVE Table'
    BY <2>2, <2>7 DEF PayBonus, StandingsAssumption
  <2>8. Table'
    BY <1>4, <2>3, <2>4, <2>5, <2>6, <2>7, Zenon DEF TableNext
  <2> HIDE DEF Table, Weekly, Job
  <2> QED
    BY <1>0, <1>1, <1>2, <2>1, <2>8
<1>5. CASE WeeklyNext
  <2>1. UNCHANGED <<now, table>>
    BY <1>5 DEF WeeklyNext, StartWeekly, FinishWeekly, FailWeekly, MarkPaid
  <2>2. now \in 0 .. MaxTime /\ Weekly /\ Job
    BY <1>0
  <2>3. ASSUME NEW j \in Jobs, StartWeekly(j) PROVE Weekly' /\ Job'
    <3>1. WeekOf(now) - 1 \in Weeks
      <4>1. WeekOf(0) \in Nat /\ WeekOf(now) \in Nat /\ WeekOf(MaxTime) \in Nat
            /\ WeekOf(0) <= WeekOf(now) /\ WeekOf(now) <= WeekOf(MaxTime)
        BY <2>2, WeekOfMonotone DEF StandingsAssumption
      <4> QED
        BY <4>1 DEF Weeks
    <3>2. WeeklyLines(WeekOf(now) - 1) \in SUBSET BoardLine
      BY WeeklyLinesType
    <3>3. job' = [job EXCEPT ![j] = [week |-> WeekOf(now) - 1,
                                     lines |-> WeeklyLines(WeekOf(now) - 1)]]
      BY <2>3 DEF StartWeekly
    <3>4. Job'
      <4>1. [week |-> WeekOf(now) - 1, lines |-> WeeklyLines(WeekOf(now) - 1)]
              \in [week : Weeks, lines : SUBSET BoardLine]
        BY <3>1, <3>2
      <4> QED
        BY <2>2, <3>3, <4>1 DEF Weeks, WeekOf
    <3> QED
      BY <1>1, <2>3, <3>4 DEF StartWeekly
  <2>4. ASSUME NEW j \in Jobs, FinishWeekly(j) PROVE Weekly' /\ Job'
    <3>1. job[j] \in [week : Weeks, lines : SUBSET BoardLine]
      BY <2>2, <2>4 DEF FinishWeekly
    <3>2. ASSUME NEW u \in Users, \E l \in job[j].lines : l.user = u
          PROVE  Upsert(weekly[job[j].week][u],
                        CHOOSE l \in job[j].lines : l.user = u, job[j].lines) \in Row
      <4>1. PICK l \in BoardLine : l = CHOOSE k \in job[j].lines : k.user = u
        BY <3>1, <3>2
      <4>2. l.points \in Nat /\ IsTop(l, job[j].lines) \in BOOLEAN
        BY DEF BoardLine, IsTop
      <4>3. weekly[job[j].week][u] \in Row \union {NoRow}
        BY <2>2, <3>1
      <4>4. (IF weekly[job[j].week][u] = NoRow THEN FALSE ELSE weekly[job[j].week][u].paid) \in BOOLEAN
        BY <4>3 DEF Row
      <4> QED
        BY <4>1, <4>2, <4>4 DEF Upsert, Row
    <3>3. weekly' = [weekly EXCEPT ![job[j].week] = [u \in Users |->
           IF \E l \in job[j].lines : l.user = u
           THEN Upsert(weekly[job[j].week][u], CHOOSE l \in job[j].lines : l.user = u, job[j].lines)
           ELSE weekly[job[j].week][u]]]
      BY <2>4 DEF FinishWeekly
    <3>4. weekly'[job[j].week] \in [Users -> Row \union {NoRow}]
      BY <2>2, <3>1, <3>2, <3>3
    <3>5. Weekly'
      BY <2>2, <3>1, <3>3, <3>4 DEF Weeks, WeekOf
    <3>6. Job'
      BY <2>2, <2>4 DEF FinishWeekly, Weeks, WeekOf
    <3> QED
      BY <3>5, <3>6
  <2>5. ASSUME NEW j \in Jobs, FailWeekly(j) PROVE Weekly' /\ Job'
    <3>1. Job'
      BY <2>2, <2>5 DEF FailWeekly, Weeks, WeekOf
    <3> QED
      BY <1>1, <2>5, <3>1 DEF FailWeekly
  <2>6. ASSUME NEW w \in Weeks, NEW u \in Users, NEW paid \in BOOLEAN, MarkPaid(w, u, paid)
        PROVE  Weekly' /\ Job'
    <3>1. weekly[w][u] \in Row
      BY <2>2, <2>6 DEF MarkPaid, Payable
    <3>2. weekly' = [weekly EXCEPT ![w][u].paid = paid]
      BY <2>6 DEF MarkPaid
    <3>3. [weekly[w][u] EXCEPT !.paid = paid] \in Row
      BY <3>1 DEF Row
    <3>4. Weekly'
      BY <2>2, <3>2, <3>3 DEF Weeks, WeekOf
    <3> QED
      BY <1>1, <2>6, <3>4 DEF MarkPaid
  <2>7. Weekly' /\ Job'
    <3> HIDE DEF Weekly, Job
    <3> QED
      BY <1>5, <2>3, <2>4, <2>5, <2>6 DEF WeeklyNext
  <2> HIDE DEF Table, Weekly, Job
  <2> QED
    BY <1>1, <1>2, <2>1, <2>2, <2>7
<1>6. CASE UNCHANGED vars
  <2> HIDE DEF Table, Weekly, Job
  <2> QED
    BY <1>0, <1>1, <1>2, <1>6 DEF vars
<1> HIDE DEF Table, Weekly, Job
<1> QED
  BY <1>3, <1>4, <1>5, <1>6 DEF Next

\* The boards and the weekly table keep their types: the sums of the leaderboard
\* queries are natural numbers, and a run's week is one the table has.
THEOREM StandingsTypeCorrect == ASSUME StandingsAssumption PROVE Spec => []TypeOK
BY TypeInit, TypeNext, PTL DEF Spec

-----------------------------------------------------------------------------
(* Every match is in one week. *)

\* The calendar the boards are added up over is long enough for the fixtures.
CalendarSpans ==
  /\ \A m \in Matches : Kickoff0[m] <= MaxTime
  /\ \A k \in Kickoffs : k <= MaxTime

Scheduled == \A m \in Matches : kickoff[m] # Idle => kickoff[m] \in 0 .. MaxTime

LEMMA ScheduledInvariant ==
  ASSUME StandingsAssumption, CalendarSpans
  PROVE  Spec => []Scheduled
<1>1. ASSUME Init PROVE Scheduled
  BY <1>1 DEF Init, Scheduled, CalendarSpans, StandingsAssumption
<1>2. ASSUME TypeOK, Scheduled, [Next]_vars PROVE Scheduled'
  <2>1. ASSUME NEW m \in Matches, NEW k \in Kickoffs, Move(m, k) PROVE Scheduled'
    <3>1. k \in 0 .. MaxTime
      BY DEF CalendarSpans, StandingsAssumption
    <3>2. kickoff' = [kickoff EXCEPT ![m] = k]
      BY <2>1 DEF Move
    <3> QED
      BY <1>2, <3>1, <3>2 DEF Scheduled, TypeOK
  <2>2. ASSUME NEW m \in Matches, Delete(m) PROVE Scheduled'
    <3>1. kickoff' = [kickoff EXCEPT ![m] = Idle]
      BY <2>2 DEF Delete
    <3> QED
      BY <1>2, <3>1 DEF Scheduled, TypeOK
  <2>3. ASSUME UNCHANGED kickoff PROVE Scheduled'
    BY <1>2, <2>3 DEF Scheduled
  <2> QED
    BY <1>2, <2>1, <2>2, <2>3
    DEF Next, Tick, TableNext, WeeklyNext, Predict, Settle, PayBonus,
        StartWeekly, FinishWeekly, FailWeekly, MarkPaid, vars, table
<1> QED
  BY <1>1, <1>2, StandingsTypeCorrect, PTL DEF Spec

\* What a week gives a user, listed or not.
LEMMA WeekGives ==
  ASSUME StandingsAssumption, TypeOK, NEW u \in Users, NEW w
  PROVE  LET K == {k \in WeeklyLines(w) : k.user = u}
         IN  SumFunction([k \in K |-> k.points]) = Line(u, WeekMatches(w)).points
<1> DEFINE K == {k \in WeeklyLines(w) : k.user = u}
           L == Line(u, WeekMatches(w))
           f == [k \in K |-> k.points]
           mine == {m \in WeekMatches(w) : Predicted(u, m)}
           g == [m \in mine |-> Earned(u, m)]
<1> SUFFICES SumFunction(f) = L.points
  OBVIOUS
<1>1. WeekMatches(w) \in SUBSET Matches
  BY DEF WeekMatches
<1>2. L \in BoardLine /\ L.user = u /\ L.points \in Nat
  BY <1>1, LineType DEF BoardLine
<1>3. SumFunction(f) = SumFunctionOnSet(f, K) /\ L.points = SumFunctionOnSet(g, mine)
  BY DEF SumFunction, Line
<1>4. \A k \in K : k = L
  BY WeeklyLinesType
<1>5. CASE u \in Participants(WeekMatches(w))
  <2>1. L \in WeeklyLines(w)
    BY <1>5 DEF WeeklyLines
  <2>2. K = {L}
    <3> HIDE DEF L
    <3> QED
      BY <1>2, <1>4, <2>1
  <2>3. IsFiniteSet(K) /\ (\A k \in K : f[k] \in Nat) /\ L \in K /\ f[L] = L.points
    <3> HIDE DEF L
    <3>1. IsFiniteSet({L})
      BY FS_Singleton
    <3>2. \A k \in K : f[k] = k.points
      OBVIOUS
    <3> HIDE DEF K, f
    <3> QED
      BY <1>2, <2>2, <3>1, <3>2
  <2>4. SumFunctionOnSet(f, K) = f[L] + SumFunctionOnSet(f, K \ {L})
    <3> HIDE DEF K, f, L
    <3> QED
      BY <2>3, SumTakeOut
  <2>5. K \ {L} = {}
    <3> HIDE DEF K, L
    <3> QED
      BY <2>2
  <2>6. SumFunctionOnSet(f, K \ {L}) = 0
    <3> HIDE DEF K, L, f
    <3> QED
      BY <2>5, SumOfNone
  <2> HIDE DEF K, L, f
  <2> QED
    BY <1>2, <1>3, <2>3, <2>4, <2>6
<1>6. CASE u \notin Participants(WeekMatches(w))
  <2>1. K = {}
    <3>1. ASSUME NEW k \in WeeklyLines(w), k.user = u PROVE FALSE
      <4>1. PICK v \in Participants(WeekMatches(w)) : k = Line(v, WeekMatches(w))
        BY DEF WeeklyLines
      <4>2. k.user = v
        BY <4>1 DEF Line
      <4> QED
        BY <1>6, <3>1, <4>2
    <3> QED
      BY <3>1
  <2>2. mine = {}
    BY <1>6 DEF Participants
  <2>3. SumFunctionOnSet(f, K) = 0 /\ SumFunctionOnSet(g, mine) = 0
    <3> HIDE DEF K, f, mine, g
    <3> QED
      BY <2>1, <2>2, SumOfNone
  <2> HIDE DEF K, L, f, mine, g
  <2> QED
    BY <1>3, <2>3
<1> QED
  BY <1>5, <1>6

\* Nothing is lost or counted twice at a Monday boundary: the half-open week
\* windows cut the fixtures into classes, and a board adds a user's points up
\* class by class.
THEOREM WeeksCutTheSeason ==
  ASSUME StandingsAssumption, CalendarSpans
  PROVE  Spec => []WeeksAddUp
<1>1. ASSUME TypeOK, Scheduled PROVE WeeksAddUp
  <2> SUFFICES ASSUME NEW l \in OverallLines
      PROVE  l.points = BonusPoints(l.user) +
               SumFunction([w \in 0 .. WeekOf(MaxTime) |->
                 SumFunction([k \in {k \in WeeklyLines(w) : k.user = l.user} |-> k.points])])
    BY DEF WeeksAddUp
  <2>1. PICK u \in Users : u = l.user
    BY <1>1, OverallLinesType DEF BoardLine
  <2> DEFINE M == {m \in AllMatches : Predicted(u, m)}
             W == 0 .. WeekOf(MaxTime)
             f == [m \in M |-> Earned(u, m)]
             c == [m \in M |-> WeekOf(kickoff[m])]
             h == [w \in W |-> SumFunction([k \in {k \in WeeklyLines(w) : k.user = u} |-> k.points])]
             d == [w \in W |-> SumFunctionOnSet(f, {m \in M : c[m] = w})]
  <2>2. IsFiniteSet(M) /\ IsFiniteSet(W)
    <3>1. IsFiniteSet(Matches) /\ M \in SUBSET Matches
      BY DEF StandingsAssumption, AllMatches
    <3>2. WeekOf(MaxTime) \in Nat
      BY WeekOfMonotone DEF StandingsAssumption
    <3> QED
      BY <3>1, <3>2, FS_Subset, FS_Interval
  <2>3. \A m \in M : kickoff[m] # Idle /\ kickoff[m] \in Nat /\ c[m] \in W
    <3> SUFFICES ASSUME NEW m \in M
                 PROVE  kickoff[m] # Idle /\ kickoff[m] \in Nat /\ WeekOf(kickoff[m]) \in W
      OBVIOUS
    <3>1. kickoff[m] # Idle /\ kickoff[m] \in 0 .. MaxTime
      BY <1>1 DEF Scheduled, AllMatches
    <3>2. kickoff[m] \in Nat /\ MaxTime \in Nat /\ kickoff[m] <= MaxTime
      BY <3>1 DEF StandingsAssumption
    <3>3. WeekOf(kickoff[m]) \in Nat /\ WeekOf(MaxTime) \in Nat /\ WeekOf(kickoff[m]) <= WeekOf(MaxTime)
      BY <3>2, WeekOfMonotone
    <3> QED
      BY <3>1, <3>2, <3>3
  <2>4. \A m \in M : f[m] \in Nat
    <3> SUFFICES ASSUME NEW m \in M PROVE Earned(u, m) \in Nat
      OBVIOUS
    <3>1. m \in Matches /\ score[u] \in [Matches -> Score \union {NoScore}]
      BY <1>1 DEF TypeOK, AllMatches
    <3>2. score[u][m] \in Score \union {NoScore}
      BY ONLY <3>1
    <3> QED
      BY <3>2 DEF Earned, Score
  <2>5. ASSUME NEW w \in W PROVE h[w] = d[w]
    <3> DEFINE Mw == {m \in WeekMatches(w) : Predicted(u, m)}
               g == [m \in Mw |-> Earned(u, m)]
    <3>1. h[w] = Line(u, WeekMatches(w)).points
      BY <1>1, WeekGives
    <3>2. Line(u, WeekMatches(w)).points = SumFunctionOnSet(g, Mw)
      BY DEF Line, SumFunction
    <3>3. Mw = {m \in M : c[m] = w}
      <4>1. ASSUME NEW m \in M PROVE InWeek(m, w) <=> c[m] = w
        <5>1. kickoff[m] # Idle /\ kickoff[m] \in Nat /\ c[m] = WeekOf(kickoff[m])
          BY <2>3
        <5> QED
          BY <5>1, InWeekOf
      <4>2. \A m \in Mw : m \in M /\ InWeek(m, w)
        BY DEF WeekMatches, AllMatches, InWeek
      <4>3. \A m \in M : m \in Mw <=> InWeek(m, w)
        BY DEF WeekMatches, AllMatches
      <4> HIDE DEF M, Mw, c
      <4> QED
        BY <4>1, <4>2, <4>3
    <3>4. \A m \in Mw : g[m] = f[m]
      <4>1. Mw \in SUBSET M
        BY DEF WeekMatches, AllMatches, InWeek
      <4> QED
        BY <4>1
    <3>5. IsFiniteSet(Mw)
      <4>1. Mw \in SUBSET M
        BY DEF WeekMatches, AllMatches, InWeek
      <4> HIDE DEF M, Mw
      <4> QED
        BY <2>2, <4>1, FS_Subset
    <3>6. SumFunctionOnSet(g, Mw) = SumFunctionOnSet(f, Mw)
      <4> HIDE DEF Mw, g, f
      <4> QED
        BY <3>4, <3>5, SumSame
    <3>7. d[w] = SumFunctionOnSet(f, {m \in M : c[m] = w})
      OBVIOUS
    <3> HIDE DEF h, d, Mw, g, f, M, c
    <3> QED
      BY <3>1, <3>2, <3>3, <3>6, <3>7
  <2>6. SumFunctionOnSet(h, W) = SumFunctionOnSet(d, W)
    <3> HIDE DEF h, d, W
    <3> QED
      BY <2>2, <2>5, SumSame
  <2>7. SumFunctionOnSet(d, W) = SumFunctionOnSet(f, M)
    <3>1. \A m \in M : f[m] \in Nat /\ c[m] \in W
      BY <2>3, <2>4
    <3> HIDE DEF f, M, W, c
    <3> QED
      BY <2>2, <3>1, SumByClass
  <2>8. SumFunction(h) = SumFunctionOnSet(h, W) /\ Line(u, AllMatches).points = SumFunctionOnSet(f, M)
    BY DEF SumFunction, Line
  <2>9. l.points = Line(u, AllMatches).points + BonusPoints(u)
    BY <1>1, <2>1, OverallLinesType
  <2>10. Line(u, AllMatches).points \in Nat /\ BonusPoints(u) \in Nat
    <3>1. AllMatches \in SUBSET Matches
      BY DEF AllMatches
    <3> QED
      BY <1>1, <3>1, LineType, BonusType DEF BoardLine
  <2>11. l.points = BonusPoints(u) + SumFunction(h)
    <3> HIDE DEF h, d, f, M, W
    <3> QED
      BY <2>6, <2>7, <2>8, <2>9, <2>10
  <2> QED
    BY <2>1, <2>11
<1> QED
  BY <1>1, StandingsTypeCorrect, ScheduledInvariant, PTL

-----------------------------------------------------------------------------
(* Ordered rows. *)

\* Lines of a board: one per user.
IsBoard(L) ==
  /\ L \in SUBSET BoardLine /\ IsFiniteSet(L)
  /\ \A a, b \in L : a.user = b.user => a = b

LEMMA AboveOrders ==
  ASSUME StandingsAssumption, NEW L, IsBoard(L)
  PROVE  \A a, b \in L : /\ ~Above(a, a)
                         /\ a # b => Above(a, b) \/ Above(b, a)
                         /\ Above(a, b) => ~Above(b, a)
                         /\ \A c \in L : Above(a, b) /\ Above(b, c) => Above(a, c)
<1>1. \A a \in L : /\ a.user \in Nat /\ a.points \in Nat /\ a.exact \in Nat
                   /\ a.correct \in Nat /\ a.hits \in Nat
  BY DEF IsBoard, BoardLine, StandingsAssumption
<1>2. \A a, b \in L : a # b => a.user # b.user
  BY DEF IsBoard
<1> SUFFICES ASSUME NEW a \in L, NEW b \in L
             PROVE  /\ ~Above(a, a)
                    /\ a # b => Above(a, b) \/ Above(b, a)
                    /\ Above(a, b) => ~Above(b, a)
                    /\ \A c \in L : Above(a, b) /\ Above(b, c) => Above(a, c)
  OBVIOUS
<1>3. ~Above(a, a)
  BY <1>1 DEF Above
<1>4. a # b => Above(a, b) \/ Above(b, a)
  BY <1>1, <1>2 DEF Above
<1>5. Above(a, b) => ~Above(b, a)
  BY <1>1 DEF Above
<1>6. ASSUME NEW c \in L, Above(a, b), Above(b, c) PROVE Above(a, c)
  BY <1>1, <1>6 DEF Above
<1> QED
  BY <1>3, <1>4, <1>5, <1>6

\* A board that is not empty has a last line.
LEMMA LastLine ==
  ASSUME StandingsAssumption, NEW L, IsBoard(L), L # {}
  PROVE  \E x \in L : \A y \in L : y # x => Above(y, x)
<1> DEFINE G == {T \in SUBSET L : T = {} \/ \E x \in T : \A y \in T : y # x => Above(y, x)}
<1>1. ASSUME NEW T \in SUBSET L, \A U \in SUBSET T : U # T => U \in G PROVE T \in G
  <2> SUFFICES ASSUME NEW z \in T PROVE T \in G
    OBVIOUS
  <2>1. T \ {z} \in G
    BY <1>1
  <2>2. CASE T \ {z} = {}
    BY <2>2
  <2>3. CASE T \ {z} # {}
    <3>1. PICK x \in T \ {z} : \A y \in T \ {z} : y # x => Above(y, x)
      BY <2>1, <2>3
    <3>2. Above(x, z) \/ Above(z, x)
      BY <3>1, AboveOrders
    <3>3. CASE Above(z, x)
      BY <3>1, <3>3
    <3>4. CASE Above(x, z)
      <4>1. \A y \in T : y # z => Above(y, z)
        BY <3>1, <3>4, AboveOrders
      <4> QED
        BY <4>1
    <3> QED
      BY <3>2, <3>3, <3>4
  <2> QED
    BY <2>2, <2>3
<1>2. SUBSET L \subseteq G
  <2>1. IsFiniteSet(L)
    BY DEF IsBoard
  <2> HIDE DEF G
  <2> QED
    BY <1>1, <2>1, SubsetsClosed
<1> QED
  BY <1>2

IsOrdered(s) == \A i, j \in DOMAIN s : i < j => Above(s[i], s[j])

\* Every board can be ordered.
LEMMA OrderedExists ==
  ASSUME StandingsAssumption, NEW L, IsBoard(L)
  PROVE  \E s \in SetToSeqs(L) : IsOrdered(s)
<1> DEFINE G == {T \in SUBSET L : \E s \in SetToSeqs(T) : IsOrdered(s)}
<1>1. ASSUME NEW T \in SUBSET L, \A U \in SUBSET T : U # T => U \in G PROVE T \in G
  <2>1. IsBoard(T) /\ IsFiniteSet(T) /\ Cardinality(T) \in Nat
    BY FS_Subset, FS_CardinalityType DEF IsBoard
  <2>2. CASE T = {}
    <3>1. Cardinality(T) = 0
      BY <2>2, FS_EmptySet
    <3> DEFINE s == [i \in 1 .. 0 |-> i]
    <3>2. s \in SetToSeqs(T)
      BY <3>1 DEF SetToSeqs
    <3>3. IsOrdered(s)
      BY DEF IsOrdered
    <3> QED
      BY <3>2, <3>3
  <2>3. CASE T # {}
    <3>1. PICK x \in T : \A y \in T : y # x => Above(y, x)
      BY <2>1, <2>3, LastLine
    <3> DEFINE n == Cardinality(T)
    <3>2. n \in Nat /\ Cardinality(T \ {x}) = n - 1 /\ n - 1 \in Nat
      <4>1. Cardinality(T \ {x}) = n - 1
        BY <2>1, FS_RemoveElement
      <4>2. IsFiniteSet(T \ {x})
        BY <2>1, FS_RemoveElement
      <4> QED
        BY <2>1, <4>1, <4>2, FS_CardinalityType
    <3>3. PICK s \in SetToSeqs(T \ {x}) : IsOrdered(s)
      <4>1. T \ {x} \in G
        BY <1>1
      <4> QED
        BY <4>1
    <3> HIDE DEF n
    <3>4. /\ s \in [1 .. n - 1 -> T \ {x}]
          /\ \A i, j \in 1 .. n - 1 : i # j => s[i] # s[j]
          /\ \A i, j \in 1 .. n - 1 : i < j => Above(s[i], s[j])
      BY <3>2, <3>3 DEF SetToSeqs, IsOrdered
    <3> DEFINE t == [i \in 1 .. n |-> IF i = n THEN x ELSE s[i]]
    <3>5. \A i \in 1 .. n : i # n => i \in 1 .. n - 1
      BY <3>2
    <3>6. t \in [1 .. n -> T]
      BY <3>4, <3>5
    <3>7. \A i, j \in 1 .. n : i # j => t[i] # t[j]
      BY <3>4, <3>5
    <3>8. \A i, j \in 1 .. n : i < j => Above(t[i], t[j])
      <4> SUFFICES ASSUME NEW i \in 1 .. n, NEW j \in 1 .. n, i < j PROVE Above(t[i], t[j])
        OBVIOUS
      <4>1. i # n /\ i \in 1 .. n - 1 /\ t[i] = s[i]
        BY <3>2, <3>5
      <4>2. CASE j = n
        BY <3>1, <3>4, <4>1, <4>2
      <4>3. CASE j # n
        BY <3>4, <3>5, <4>1, <4>3
      <4> QED
        BY <4>2, <4>3
    <3> HIDE DEF t
    <3>9. t \in SetToSeqs(T)
      BY <3>6, <3>7 DEF SetToSeqs, n
    <3>10. IsOrdered(t)
      <4>1. DOMAIN t = 1 .. n
        BY <3>6
      <4> QED
        BY <3>8, <4>1 DEF IsOrdered
    <3> QED
      BY <3>9, <3>10
  <2> QED
    BY <2>2, <2>3
<1>2. SUBSET L \subseteq G
  <2>1. IsFiniteSet(L)
    BY DEF IsBoard
  <2> HIDE DEF G
  <2> QED
    BY <1>1, <2>1, SubsetsClosed
<1> QED
  BY <1>2

\* What Ordered returns: every line once, each above those after it.
LEMMA OrderedRows ==
  ASSUME StandingsAssumption, NEW L, IsBoard(L)
  PROVE  /\ Cardinality(L) \in Nat
         /\ Ordered(L) \in [1 .. Cardinality(L) -> L]
         /\ \A l \in L : \E i \in 1 .. Cardinality(L) : Ordered(L)[i] = l
         /\ \A i, j \in 1 .. Cardinality(L) :
              /\ i # j => Ordered(L)[i] # Ordered(L)[j]
              /\ i < j => Above(Ordered(L)[i], Ordered(L)[j])
<1> DEFINE n == Cardinality(L)
           s == Ordered(L)
<1>1. IsFiniteSet(L) /\ n \in Nat
  BY FS_CardinalityType DEF IsBoard
<1>2. s \in SetToSeqs(L) /\ IsOrdered(s)
  BY OrderedExists DEF Ordered, IsOrdered
<1> HIDE DEF s
<1>3. /\ s \in [1 .. n -> L]
      /\ \A i, j \in 1 .. n : i # j => s[i] # s[j]
      /\ \A i, j \in 1 .. n : i < j => Above(s[i], s[j])
  BY <1>2 DEF SetToSeqs, IsOrdered
<1>4. s \in Surjection(1 .. n, L)
  <2>1. s \in Injection(1 .. n, L)
    BY <1>3 DEF Injection, IsInjective
  <2>2. Cardinality(1 .. n) = n
    <3>1. 1 \in Int /\ n \in Int /\ (n = 0 <=> 1 > n)
      BY <1>1
    <3>2. Cardinality(1 .. n) = IF 1 > n THEN 0 ELSE n - 1 + 1
      BY <3>1, FS_Interval
    <3> HIDE DEF n
    <3> QED
      BY <1>1, <3>1, <3>2
  <2> QED
    BY <1>1, <2>1, <2>2, FS_Injection
<1>5. \A l \in L : \E i \in 1 .. n : s[i] = l
  BY <1>4 DEF Surjection
<1> QED
  BY <1>1, <1>3, <1>5 DEF s

-----------------------------------------------------------------------------
(* Ranks. *)

\* Rows in an order that never puts a row behind one it beats: counting those
\* that beat a row solves the recursion of competition ranks.  B is the set of
\* pairs of which the first beats the second.
BeatersIn(L, B, x) == {l \in L : <<l, x>> \in B}

LEMMA CountingBeaters ==
  ASSUME NEW L, NEW n \in Nat, NEW s \in [1 .. n -> L], IsFiniteSet(L),
         \A l \in L : \E i \in 1 .. n : s[i] = l,
         \A i, j \in 1 .. n : i # j => s[i] # s[j],
         NEW B,
         \A i, j \in 1 .. n : i <= j => <<s[j], s[i]>> \notin B,
         \A a, b, c \in L : <<a, c>> \in B => <<a, b>> \in B \/ <<b, c>> \in B,
         NEW i \in 1 .. n
  PROVE  1 + Cardinality(BeatersIn(L, B, s[i])) =
           IF i > 1 /\ <<s[i - 1], s[i]>> \notin B
           THEN 1 + Cardinality(BeatersIn(L, B, s[i - 1])) ELSE i
<1>1. CASE i > 1 /\ <<s[i - 1], s[i]>> \notin B
  <2>1. i - 1 \in 1 .. n /\ i - 1 <= i
    BY <1>1
  <2>2. <<s[i], s[i - 1]>> \notin B /\ s[i] \in L /\ s[i - 1] \in L
    BY <2>1
  <2>3. \A l \in L : <<l, s[i]>> \in B <=> <<l, s[i - 1]>> \in B
    BY <1>1, <2>2
  <2>4. BeatersIn(L, B, s[i]) = BeatersIn(L, B, s[i - 1])
    BY <2>3 DEF BeatersIn
  <2> QED
    BY <1>1, <2>4
<1>2. CASE ~(i > 1 /\ <<s[i - 1], s[i]>> \notin B)
  <2>1. \A j \in 1 .. n : j < i => <<s[j], s[i]>> \in B
    <3> SUFFICES ASSUME NEW j \in 1 .. n, j < i PROVE <<s[j], s[i]>> \in B
      OBVIOUS
    <3>1. i - 1 \in 1 .. n /\ i > 1 /\ j <= i - 1
      OBVIOUS
    <3>2. <<s[i - 1], s[i]>> \in B /\ s[i - 1] \in L /\ s[j] \in L /\ s[i] \in L
      BY <1>2, <3>1
    <3>3. <<s[i - 1], s[j]>> \notin B
      BY <3>1
    <3> QED
      BY <3>2, <3>3
  <2>2. \A j \in 1 .. n : <<s[j], s[i]>> \in B => j < i
    OBVIOUS
  <2> DEFINE T == {s[j] : j \in 1 .. i - 1}
             f == [j \in 1 .. i - 1 |-> s[j]]
  <2>3. BeatersIn(L, B, s[i]) = T
    <3>1. ASSUME NEW l \in BeatersIn(L, B, s[i]) PROVE l \in T
      <4>1. PICK j \in 1 .. n : s[j] = l
        BY DEF BeatersIn
      <4>2. j \in 1 .. i - 1
        BY <2>2, <4>1 DEF BeatersIn
      <4> QED
        BY <4>1, <4>2
    <3>2. ASSUME NEW j \in 1 .. i - 1 PROVE s[j] \in BeatersIn(L, B, s[i])
      <4>1. j \in 1 .. n /\ j < i
        OBVIOUS
      <4> QED
        BY <2>1, <4>1 DEF BeatersIn
    <3>3. T \subseteq BeatersIn(L, B, s[i])
      BY <3>2
    <3> HIDE DEF T
    <3> QED
      BY <3>1, <3>3
  <2>4. IsFiniteSet(1 .. i - 1) /\ Cardinality(1 .. i - 1) = i - 1
    <3>1. 1 \in Int /\ i - 1 \in Int
      OBVIOUS
    <3>2. Cardinality(1 .. i - 1) = (IF 1 > i - 1 THEN 0 ELSE i - 1 - 1 + 1) /\ IsFiniteSet(1 .. i - 1)
      BY <3>1, FS_Interval
    <3>3. (1 > i - 1 => i - 1 = 0) /\ i - 1 - 1 + 1 = i - 1
      OBVIOUS
    <3> QED
      BY <3>2, <3>3
  <2>5. f \in Bijection(1 .. i - 1, T)
    <3>1. \A j \in 1 .. i - 1 : j \in 1 .. n
      OBVIOUS
    <3>2. f \in [1 .. i - 1 -> T] /\ \A j, k \in 1 .. i - 1 : f[j] = f[k] => j = k
      BY <3>1
    <3>3. \A t \in T : \E j \in 1 .. i - 1 : f[j] = t
      OBVIOUS
    <3> HIDE DEF f, T
    <3> QED
      BY <3>2, <3>3 DEF Bijection, Injection, Surjection, IsInjective
  <2>6. Cardinality(T) = i - 1
    <3>1. ExistsBijection(1 .. i - 1, T)
      BY <2>5 DEF ExistsBijection
    <3> HIDE DEF T
    <3> QED
      BY <2>4, <3>1, FS_Bijection
  <2>7. 1 + Cardinality(BeatersIn(L, B, s[i])) = i
    <3> HIDE DEF T
    <3> QED
      BY <2>3, <2>6
  <2> QED
    BY <1>2, <2>7
<1> QED
  BY <1>1, <1>2

RankStep(rows, period, g, i) ==
  IF i > 1 /\ SameRank(period, rows[i - 1], rows[i]) THEN g[i - 1] ELSE i

RankSolves(rows, period, g) == g = [i \in DOMAIN rows |-> RankStep(rows, period, g, i)]

LEMMA RankUnique ==
  ASSUME NEW rows, NEW n \in Nat, DOMAIN rows = 1 .. n, NEW period, NEW c,
         RankSolves(rows, period, c)
  PROVE  Rank(rows, period) = c
<1> DEFINE g == Rank(rows, period)
<1>1. g = CHOOSE h : RankSolves(rows, period, h)
  BY DEF Rank, RankSolves, RankStep
<1>2. RankSolves(rows, period, g)
  BY <1>1
<1> HIDE DEF g
<1>3. g = [i \in 1 .. n |-> RankStep(rows, period, g, i)]
      /\ c = [i \in 1 .. n |-> RankStep(rows, period, c, i)]
  BY <1>2 DEF RankSolves
<1>4. ASSUME NEW i \in 1 .. n, i = 1 \/ g[i - 1] = c[i - 1] PROVE g[i] = c[i]
  <2>1. g[i] = RankStep(rows, period, g, i) /\ c[i] = RankStep(rows, period, c, i)
    BY <1>3
  <2> QED
    BY <1>4, <2>1 DEF RankStep
<1>5. Follows(g, c, n)
  BY <1>4 DEF Follows
<1>6. \A i \in 1 .. n : g[i] = c[i]
  BY <1>5, OneSolution
<1>7. g = c
  BY <1>3, <1>6
<1> QED
  BY <1>7 DEF g

\* The rank of a row is one more than the number of those that beat it.
LEMMA RankCounts ==
  ASSUME StandingsAssumption, NEW L, IsBoard(L), NEW period, NEW B,
         \A a, b \in L : Above(a, b) => <<b, a>> \notin B /\ (SameRank(period, a, b) <=> <<a, b>> \notin B),
         \A a \in L : <<a, a>> \notin B,
         \A a, b, c \in L : <<a, c>> \in B => <<a, b>> \in B \/ <<b, c>> \in B
  PROVE  LET s == Ordered(L)
         IN  /\ s \in [1 .. Cardinality(L) -> L]
             /\ \A i \in 1 .. Cardinality(L) :
                  Rank(s, period)[i] = 1 + Cardinality(BeatersIn(L, B, s[i]))
<1> DEFINE s == Ordered(L)
           n == Cardinality(L)
           c == [i \in 1 .. n |-> 1 + Cardinality(BeatersIn(L, B, s[i]))]
<1>1. /\ n \in Nat /\ s \in [1 .. n -> L]
      /\ \A l \in L : \E i \in 1 .. n : s[i] = l
      /\ \A i, j \in 1 .. n : (i # j => s[i] # s[j]) /\ (i < j => Above(s[i], s[j]))
  BY OrderedRows
<1> HIDE DEF s, n
<1>2. IsFiniteSet(L)
  BY DEF IsBoard
<1>3. \A i, j \in 1 .. n : i <= j => <<s[j], s[i]>> \notin B
  <2> SUFFICES ASSUME NEW i \in 1 .. n, NEW j \in 1 .. n, i <= j PROVE <<s[j], s[i]>> \notin B
    OBVIOUS
  <2>1. s[i] \in L /\ s[j] \in L
    BY <1>1
  <2>2. CASE i = j
    BY <2>1, <2>2
  <2>3. CASE i # j
    <3>1. i < j
      BY <2>3
    <3>2. Above(s[i], s[j])
      BY <1>1, <3>1
    <3> QED
      BY <2>1, <3>2
  <2> QED
    BY <2>2, <2>3
<1>4. ASSUME NEW i \in 1 .. n PROVE c[i] = RankStep(s, period, c, i)
  <2>1. \A j, k \in 1 .. n : j # k => s[j] # s[k]
    BY <1>1
  <2>2. 1 + Cardinality(BeatersIn(L, B, s[i])) =
          IF i > 1 /\ <<s[i - 1], s[i]>> \notin B
          THEN 1 + Cardinality(BeatersIn(L, B, s[i - 1])) ELSE i
    BY <1>1, <1>2, <1>3, <2>1, CountingBeaters
  <2>3. c[i] = 1 + Cardinality(BeatersIn(L, B, s[i]))
    OBVIOUS
  <2>4. CASE i > 1
    <3>1. i - 1 \in 1 .. n /\ i - 1 < i /\ s[i - 1] \in L /\ s[i] \in L
      BY <1>1, <2>4
    <3>2. Above(s[i - 1], s[i])
      BY <1>1, <3>1
    <3>3. SameRank(period, s[i - 1], s[i]) <=> <<s[i - 1], s[i]>> \notin B
      BY <3>1, <3>2
    <3>4. c[i - 1] = 1 + Cardinality(BeatersIn(L, B, s[i - 1]))
      BY <3>1
    <3> HIDE DEF c
    <3> QED
      BY <2>2, <2>3, <2>4, <3>3, <3>4 DEF RankStep
  <2>5. CASE ~(i > 1)
    <3> HIDE DEF c
    <3> QED
      BY <2>2, <2>3, <2>5 DEF RankStep
  <2> QED
    BY <2>4, <2>5
<1>5. DOMAIN s = 1 .. n
  BY <1>1
<1>6. RankSolves(s, period, c)
  <2>1. c = [i \in 1 .. n |-> c[i]]
    OBVIOUS
  <2> HIDE DEF c
  <2> QED
    BY <1>4, <1>5, <2>1 DEF RankSolves
<1>7. Rank(s, period) = c
  <2> HIDE DEF c
  <2> QED
    BY <1>1, <1>5, <1>6, RankUnique
<1>8. \A i \in 1 .. n : Rank(s, period)[i] = 1 + Cardinality(BeatersIn(L, B, s[i]))
  BY <1>7
<1> QED
  BY <1>1, <1>8 DEF s, n

LEMMA WeeklyBoard ==
  ASSUME StandingsAssumption, TypeOK, NEW w
  PROVE  IsBoard(WeeklyLines(w))
<1>1. WeeklyLines(w) \in SUBSET BoardLine /\ \A a, b \in WeeklyLines(w) : a.user = b.user => a = b
  BY WeeklyLinesType
<1>2. IsFiniteSet(WeeklyLines(w))
  <2> DEFINE f == [l \in WeeklyLines(w) |-> l.user]
  <2>1. f \in Injection(WeeklyLines(w), Users)
    BY <1>1 DEF Injection, IsInjective, BoardLine
  <2> QED
    BY <2>1, FS_Injection DEF StandingsAssumption
<1> QED
  BY <1>1, <1>2 DEF IsBoard

LEMMA OverallBoard ==
  ASSUME StandingsAssumption, TypeOK
  PROVE  IsBoard(OverallLines) /\ Cardinality(OverallLines) <= Cardinality(Users)
<1>1. OverallLines \in SUBSET BoardLine /\ \A a, b \in OverallLines : a.user = b.user => a = b
  BY OverallLinesType
<1>2. IsFiniteSet(OverallLines) /\ Cardinality(OverallLines) <= Cardinality(Users)
  <2> DEFINE f == [l \in OverallLines |-> l.user]
  <2>1. f \in Injection(OverallLines, Users)
    BY <1>1 DEF Injection, IsInjective, BoardLine
  <2> QED
    BY <2>1, FS_Injection DEF StandingsAssumption
<1> QED
  BY <1>1, <1>2 DEF IsBoard

WithMore(L, n) == {l \in L : l.points > n}

LEMMA WeeklyRanks ==
  ASSUME StandingsAssumption, NEW L, IsBoard(L)
  PROVE  LET s == Ordered(L)
         IN  /\ s \in [1 .. Cardinality(L) -> L]
             /\ \A i \in 1 .. Cardinality(L) :
                  Rank(s, "week")[i] = 1 + Cardinality(WithMore(L, s[i].points))
<1> DEFINE B == {p \in L \X L : p[1].points > p[2].points}
           s == Ordered(L)
<1>1. \A a \in L : a.points \in Nat
  BY DEF IsBoard, BoardLine
<1>2. \A a, b \in L : <<a, b>> \in B <=> a.points > b.points
  OBVIOUS
<1> HIDE DEF B
<1>3. \A a, b \in L : Above(a, b) => <<b, a>> \notin B /\ (SameRank("week", a, b) <=> <<a, b>> \notin B)
  BY <1>1, <1>2 DEF Above, SameRank, WeeklySameRank
<1>4. \A a \in L : <<a, a>> \notin B
  BY <1>1, <1>2
<1>5. \A a, b, c \in L : <<a, c>> \in B => <<a, b>> \in B \/ <<b, c>> \in B
  BY <1>1, <1>2
<1>6. /\ s \in [1 .. Cardinality(L) -> L]
      /\ \A i \in 1 .. Cardinality(L) :
           Rank(s, "week")[i] = 1 + Cardinality(BeatersIn(L, B, s[i]))
  BY <1>3, <1>4, <1>5, RankCounts
<1> HIDE DEF s
<1>7. ASSUME NEW i \in 1 .. Cardinality(L)
      PROVE  BeatersIn(L, B, s[i]) = WithMore(L, s[i].points)
  BY <1>2, <1>6 DEF BeatersIn, WithMore
<1>8. \A i \in 1 .. Cardinality(L) : Rank(s, "week")[i] = 1 + Cardinality(WithMore(L, s[i].points))
  BY <1>6, <1>7
<1> QED
  BY <1>6, <1>8 DEF s

Beats(a, b) ==
  Above([a EXCEPT !.user = 0], [b EXCEPT !.user = 0])

ThatBeat(L, x) == {l \in L : Beats(l, x)}

LEMMA OverallRanks ==
  ASSUME StandingsAssumption, NEW L, IsBoard(L)
  PROVE  LET s == Ordered(L)
         IN  /\ s \in [1 .. Cardinality(L) -> L]
             /\ \A i \in 1 .. Cardinality(L) :
                  Rank(s, "overall")[i] = 1 + Cardinality(ThatBeat(L, s[i]))
<1> DEFINE B == {p \in L \X L : Beats(p[1], p[2])}
           s == Ordered(L)
<1>1. \A a \in L : a.points \in Nat /\ a.exact \in Nat /\ a.correct \in Nat /\ a.hits \in Nat
  BY DEF IsBoard, BoardLine
<1>2. \A a, b \in L : <<a, b>> \in B <=> Beats(a, b)
  OBVIOUS
<1>3. \A a, b \in L : Beats(a, b) <=>
        \/ a.points > b.points
        \/ a.points = b.points /\ a.exact > b.exact
        \/ a.points = b.points /\ a.exact = b.exact /\ a.correct > b.correct
        \/ a.points = b.points /\ a.exact = b.exact /\ a.correct = b.correct /\ a.hits > b.hits
  <2> SUFFICES ASSUME NEW a \in L, NEW b \in L
               PROVE  Beats(a, b) <=>
                 \/ a.points > b.points
                 \/ a.points = b.points /\ a.exact > b.exact
                 \/ a.points = b.points /\ a.exact = b.exact /\ a.correct > b.correct
                 \/ a.points = b.points /\ a.exact = b.exact /\ a.correct = b.correct /\ a.hits > b.hits
    OBVIOUS
  <2> DEFINE x == [a EXCEPT !.user = 0]
             y == [b EXCEPT !.user = 0]
  <2>1. /\ x.points = a.points /\ x.exact = a.exact /\ x.correct = a.correct
        /\ x.hits = a.hits /\ x.user = 0
        /\ y.points = b.points /\ y.exact = b.exact /\ y.correct = b.correct
        /\ y.hits = b.hits /\ y.user = 0
    BY DEF IsBoard, BoardLine
  <2>2. Beats(a, b) <=> Above(x, y)
    BY DEF Beats
  <2> HIDE DEF x, y
  <2> QED
    BY <1>1, <2>1, <2>2 DEF Above
<1> HIDE DEF B
<1>4. \A a, b \in L : Above(a, b) => <<b, a>> \notin B /\ (SameRank("overall", a, b) <=> <<a, b>> \notin B)
  BY <1>1, <1>2, <1>3 DEF Above, SameRank, OverallSameRank
<1>5. \A a \in L : <<a, a>> \notin B
  BY <1>1, <1>2, <1>3
<1>6. \A a, b, c \in L : <<a, c>> \in B => <<a, b>> \in B \/ <<b, c>> \in B
  BY <1>1, <1>2, <1>3
<1>7. /\ s \in [1 .. Cardinality(L) -> L]
      /\ \A i \in 1 .. Cardinality(L) :
           Rank(s, "overall")[i] = 1 + Cardinality(BeatersIn(L, B, s[i]))
  BY <1>4, <1>5, <1>6, RankCounts
<1> HIDE DEF s
<1>8. ASSUME NEW i \in 1 .. Cardinality(L)
      PROVE  BeatersIn(L, B, s[i]) = ThatBeat(L, s[i])
  BY <1>2, <1>7 DEF BeatersIn, ThatBeat
<1>9. \A i \in 1 .. Cardinality(L) : Rank(s, "overall")[i] = 1 + Cardinality(ThatBeat(L, s[i]))
  BY <1>7, <1>8
<1> QED
  BY <1>7, <1>9 DEF s

\* Ties share a rank and the next rank skips over them, on both boards.
THEOREM RanksArePlaces == ASSUME StandingsAssumption PROVE Spec => []RankIsPlace
<1>1. ASSUME TypeOK PROVE RankIsPlace
  <2>1. ASSUME NEW w \in Weeks, NEW i \in DOMAIN Ordered(WeeklyLines(w))
        PROVE  Rank(Ordered(WeeklyLines(w)), "week")[i] =
                 1 + Cardinality(WithMore(WeeklyLines(w), Ordered(WeeklyLines(w))[i].points))
    <3>1. IsBoard(WeeklyLines(w))
      BY <1>1, WeeklyBoard
    <3> QED
      BY <3>1, WeeklyRanks
  <2>2. ASSUME NEW i \in DOMAIN Ordered(OverallLines)
        PROVE  Rank(Ordered(OverallLines), "overall")[i] =
                 1 + Cardinality(ThatBeat(OverallLines, Ordered(OverallLines)[i]))
    <3>1. IsBoard(OverallLines)
      BY <1>1, OverallBoard
    <3> QED
      BY <3>1, OverallRanks
  <2> QED
    BY <2>1, <2>2 DEF RankIsPlace, WithMore, ThatBeat, Beats
<1> QED
  BY <1>1, StandingsTypeCorrect, PTL

\* A rank is 1 exactly at the top.
LEMMA FirstIsTop ==
  ASSUME StandingsAssumption, NEW L, IsBoard(L), NEW i \in DOMAIN Ordered(L)
  PROVE  /\ Ordered(L)[i] \in L
         /\ IsTop(Ordered(L)[i], L) <=> Rank(Ordered(L), "week")[i] = 1 /\ Ordered(L)[i].points > 0
<1> DEFINE s == Ordered(L)
           x == s[i]
<1>1. i \in 1 .. Cardinality(L) /\ x \in L
      /\ Rank(s, "week")[i] = 1 + Cardinality(WithMore(L, x.points))
  <2>1. /\ s \in [1 .. Cardinality(L) -> L]
        /\ \A k \in 1 .. Cardinality(L) :
             Rank(s, "week")[k] = 1 + Cardinality(WithMore(L, s[k].points))
    BY WeeklyRanks
  <2>2. i \in DOMAIN s
    OBVIOUS
  <2> HIDE DEF s
  <2> QED
    BY <2>1, <2>2
<1>2. WithMore(L, x.points) \in SUBSET L
  BY DEF WithMore
<1>3. Cardinality(WithMore(L, x.points)) \in Nat
      /\ (Cardinality(WithMore(L, x.points)) = 0 <=> WithMore(L, x.points) = {})
  <2>1. IsFiniteSet(WithMore(L, x.points))
    BY <1>2, FS_Subset DEF IsBoard
  <2> QED
    BY <2>1, FS_CardinalityType, FS_EmptySet
<1>4. WithMore(L, x.points) = {} <=> \A k \in L : k.points <= x.points
  <2>1. \A k \in L : k.points \in Nat
    BY DEF IsBoard, BoardLine
  <2> HIDE DEF x
  <2> QED
    BY <1>1, <2>1 DEF WithMore
<1>5. Rank(s, "week")[i] = 1 <=> \A k \in L : k.points <= x.points
  BY <1>1, <1>3, <1>4
<1>6. IsTop(x, L) <=> x.points > 0 /\ \A k \in L : k.points <= x.points
  BY DEF IsTop
<1> HIDE DEF s, x
<1>7. x \in L /\ (IsTop(x, L) <=> Rank(s, "week")[i] = 1 /\ x.points > 0)
  BY <1>1, <1>5, <1>6
<1> QED
  BY <1>7 DEF s, x

\* A run works on a board: one line per user, as the query returned it.
JobsHaveBoards == \A j \in Jobs : job[j] # Idle => IsBoard(job[j].lines)

LEMMA JobsHaveBoardsInvariant ==
  ASSUME StandingsAssumption
  PROVE  Spec => []JobsHaveBoards
<1>1. ASSUME Init PROVE JobsHaveBoards
  BY <1>1 DEF Init, JobsHaveBoards
<1>2. ASSUME TypeOK, JobsHaveBoards, [Next]_vars PROVE JobsHaveBoards'
  <2>1. ASSUME NEW j \in Jobs, StartWeekly(j) PROVE JobsHaveBoards'
    <3> DEFINE L == WeeklyLines(WeekOf(now) - 1)
    <3>1. IsBoard(L)
      BY <1>2, WeeklyBoard
    <3>2. job' = [job EXCEPT ![j] = [week |-> WeekOf(now) - 1, lines |-> L]]
      BY <2>1 DEF StartWeekly
    <3> HIDE DEF L
    <3>3. \A k \in Jobs : job'[k] = job[k] \/ job'[k].lines = L
      BY <1>2, <3>2 DEF TypeOK
    <3> QED
      BY <1>2, <3>1, <3>3 DEF JobsHaveBoards, IsBoard, BoardLine
  <2>2. ASSUME NEW j \in Jobs, job' = [job EXCEPT ![j] = Idle] PROVE JobsHaveBoards'
    <3>1. \A k \in Jobs : job'[k] = job[k] \/ job'[k] = Idle
      BY <1>2, <2>2 DEF TypeOK
    <3> QED
      BY <1>2, <3>1 DEF JobsHaveBoards, IsBoard, BoardLine
  <2>3. ASSUME UNCHANGED job PROVE JobsHaveBoards'
    BY <1>2, <2>3 DEF JobsHaveBoards, IsBoard, BoardLine
  <2> QED
    BY <1>2, <2>1, <2>2, <2>3
    DEF Next, Tick, TableNext, WeeklyNext, Predict, Settle, Move, Delete, PayBonus,
        FinishWeekly, FailWeekly, MarkPaid, vars, table
<1> QED
  BY <1>1, <1>2, StandingsTypeCorrect, PTL DEF Spec

Wrote(j) == job[j] # Idle /\ job'[j] = Idle /\ weekly' # weekly

\* Whoever writes the table when a run ends is that run.
LEMMA WhoWrites ==
  ASSUME TypeOK, [Next]_vars, NEW j \in Jobs, Wrote(j)
  PROVE  FinishWeekly(j)
<1>1. PICK k \in Jobs : FinishWeekly(k)
  <2>1. \A k \in Jobs : ~StartWeekly(k) /\ ~FailWeekly(k)
    BY DEF StartWeekly, FailWeekly, Wrote
  <2>2. \A y \in Weeks, u \in Users, paid \in BOOLEAN : ~MarkPaid(y, u, paid)
    BY DEF MarkPaid, Wrote
  <2>3. ~Tick /\ ~TableNext /\ ~UNCHANGED vars
    BY DEF Tick, TableNext, Predict, Settle, Move, Delete, PayBonus, vars, Wrote
  <2> QED
    BY <2>1, <2>2, <2>3 DEF Next, WeeklyNext
<1>2. k # j => job'[j] = job[j]
  BY <1>1 DEF FinishWeekly, TypeOK
<1> QED
  BY <1>1, <1>2 DEF Wrote

\* It leaves the rows of all it did not read as they were.
LEMMA OthersStay ==
  ASSUME TypeOK, [Next]_vars, NEW j \in Jobs, Wrote(j), NEW u \in Users,
         \A l \in job[j].lines : l.user # u
  PROVE  weekly'[job[j].week][u] = weekly[job[j].week][u]
<1>1. FinishWeekly(j) /\ job[j].week \in Weeks
  BY WhoWrites DEF TypeOK, Wrote
<1> QED
  BY <1>1 DEF FinishWeekly, TypeOK

\* What a run leaves of a line it read.
LEMMA RunWrites ==
  ASSUME StandingsAssumption, TypeOK, JobsHaveBoards, [Next]_vars, NEW j \in Jobs, Wrote(j),
         NEW x \in job[j].lines
  PROVE  /\ PayableNext(job[j].week, x.user) <=> IsTop(x, job[j].lines)
         /\ weekly'[job[j].week][x.user].points = x.points
<1> DEFINE w == job[j].week
           L == job[j].lines
<1>1. job[j] \in [week : Weeks, lines : SUBSET BoardLine] /\ IsBoard(job[j].lines)
  BY DEF TypeOK, JobsHaveBoards, Wrote
<1>2. w \in Weeks /\ IsBoard(L)
  BY <1>1
<1>3. FinishWeekly(j)
  BY WhoWrites
<1>4. weekly' = [weekly EXCEPT ![w] = [u \in Users |->
         IF \E l \in L : l.user = u
         THEN Upsert(weekly[w][u], CHOOSE l \in L : l.user = u, L)
         ELSE weekly[w][u]]]
  BY <1>3 DEF FinishWeekly
<1>5. DOMAIN weekly = Weeks
  BY DEF TypeOK
<1>6. x \in L
  OBVIOUS
<1> HIDE DEF L, w
<1>7. x.user \in Users
  BY <1>2, <1>6 DEF IsBoard, BoardLine
<1>8. (CHOOSE l \in L : l.user = x.user) = x
  BY <1>2, <1>6 DEF IsBoard
<1>9. weekly'[w][x.user] = Upsert(weekly[w][x.user], x, L)
  BY <1>2, <1>4, <1>5, <1>6, <1>7, <1>8
<1>10. weekly'[w][x.user].winner = IsTop(x, L) /\ weekly'[w][x.user].points = x.points
  BY <1>9 DEF Upsert
<1>11. weekly'[w][x.user] # NoRow
  <2>1. weekly[w][x.user] \in Row \union {NoRow} /\ x.points \in Nat
    <3>1. x \in BoardLine
      BY <1>2, <1>6 DEF IsBoard
    <3>2. weekly[w] \in [Users -> Row \union {NoRow}]
      BY <1>2 DEF TypeOK
    <3> QED
      BY <1>7, <3>1, <3>2 DEF BoardLine
  <2>2. IsTop(x, L) \in BOOLEAN
    BY DEF IsTop
  <2>3. Upsert(weekly[w][x.user], x, L) \in Row
    BY <2>1, <2>2 DEF Upsert, Row
  <2> QED
    BY <1>9, <2>3 DEF StandingsAssumption
<1> QED
  BY <1>10, <1>11 DEF L, w, PayableNext

\* What a run declares, of the board it read.
Declared(j) ==
  LET rows == Ordered(job[j].lines)
  IN  /\ \A i \in DOMAIN rows :
           PayableNext(job[j].week, rows[i].user)
             <=> Rank(rows, "week")[i] = 1 /\ rows[i].points > 0
      /\ \A u \in Users : PayableNext(job[j].week, u) /\ ~Payable(job[j].week, u) =>
           \E l \in job[j].lines : l.user = u

LevelWinners(j) ==
  \A k, l \in job[j].lines :
    PayableNext(job[j].week, k.user) =>
      weekly'[job[j].week][l.user].points <= weekly'[job[j].week][k.user].points

LEMMA RunDeclares ==
  ASSUME StandingsAssumption, TypeOK, JobsHaveBoards, [Next]_vars, NEW j \in Jobs, Wrote(j)
  PROVE  Declared(j) /\ LevelWinners(j)
<1>1. IsBoard(job[j].lines)
  BY DEF JobsHaveBoards, Wrote
<1>2. ASSUME NEW i \in DOMAIN Ordered(job[j].lines)
      PROVE  PayableNext(job[j].week, Ordered(job[j].lines)[i].user)
               <=> /\ Rank(Ordered(job[j].lines), "week")[i] = 1
                   /\ Ordered(job[j].lines)[i].points > 0
  BY <1>1, FirstIsTop, RunWrites
<1>3. ASSUME NEW k \in job[j].lines, NEW l \in job[j].lines,
             PayableNext(job[j].week, k.user)
      PROVE  weekly'[job[j].week][l.user].points <= weekly'[job[j].week][k.user].points
  <2>1. IsTop(k, job[j].lines)
    BY <1>3, RunWrites
  <2>2. l.points <= k.points
    BY <2>1 DEF IsTop
  <2> QED
    BY <2>2, RunWrites
<1>4. ASSUME NEW u \in Users, PayableNext(job[j].week, u), ~Payable(job[j].week, u)
      PROVE  \E l \in job[j].lines : l.user = u
  BY <1>4, OthersStay DEF PayableNext, Payable
<1> QED
  BY <1>2, <1>3, <1>4 DEF Declared, LevelWinners

\* Whatever happens between its read and its write, a run of the weekly-winner
\* job declares whoever the board it read ranks first with points to their name,
\* and among all it read the winners are level at the top (what the Hall of Fame
\* lacks after a rerun are the rows of users who are no longer read).
THEOREM RunsDeclareWhatTheyRead ==
  ASSUME StandingsAssumption
  PROVE  Spec => [][\A j \in Jobs : Wrote(j) => Declared(j) /\ LevelWinners(j)]_vars
<1>1. TypeOK /\ JobsHaveBoards /\ [Next]_vars =>
        [\A j \in Jobs : Wrote(j) => Declared(j) /\ LevelWinners(j)]_vars
  BY RunDeclares
<1> QED
  BY <1>1, StandingsTypeCorrect, JobsHaveBoardsInvariant, PTL DEF Spec

\* The weekly-winner job makes payable exactly the top of the weekly board, of
\* the users on it, co-winners included, and nobody who is not on it, as long as
\* the board it read still stands.
THEOREM TheTopIsDeclared == ASSUME StandingsAssumption PROVE Spec => DeclaresTheTop
<1>1. [\A j \in Jobs : Wrote(j) => Declared(j) /\ LevelWinners(j)]_vars =>
        [\A j \in Jobs : WritesTheBoard(j) => Declared(j)]_vars
  BY DEF Wrote, WritesTheBoard
<1>2. (\A j \in Jobs : WritesTheBoard(j) => Declared(j)) <=>
        \A j \in Jobs : WritesTheBoard(j) =>
          LET w == job[j].week
              rows == Ordered(job[j].lines)
          IN  /\ \A i \in DOMAIN rows :
                   PayableNext(w, rows[i].user)
                     <=> Rank(rows, "week")[i] = 1 /\ rows[i].points > 0
              /\ \A u \in Users : PayableNext(w, u) /\ ~Payable(w, u) =>
                   \E l \in job[j].lines : l.user = u
  BY DEF Declared
<1> QED
  BY <1>1, <1>2, RunsDeclareWhatTheyRead, PTL DEF DeclaresTheTop

-----------------------------------------------------------------------------
(* Pages. *)

\* Row n * PageSize, or the last row if there are fewer.
PageEnd(rows, n) == IF n * PageSize > Len(rows) THEN Len(rows) ELSE n * PageSize

LEMMA PageEnds ==
  ASSUME StandingsAssumption, NEW S, NEW rows \in Seq(S)
  PROVE  /\ \A n \in Nat : PageEnd(rows, n) \in 0 .. Len(rows)
         /\ PageEnd(rows, 0) = 0
         /\ \A n \in Nat : Len(rows) <= n => PageEnd(rows, n) = Len(rows)
         /\ \A n \in Nat \ {0} : PageEnd(rows, n - 1) <= PageEnd(rows, n)
<1>1. Len(rows) \in Nat /\ PageSize \in Nat /\ PageSize > 0
  BY DEF StandingsAssumption
<1>2. \A n \in Nat : n * PageSize \in Nat /\ n <= n * PageSize
  BY <1>1
<1>3. \A n \in Nat \ {0} : (n - 1) * PageSize = n * PageSize - PageSize
  BY <1>1
<1>4. 0 * PageSize = 0
  BY <1>1
<1>5. PageEnd(rows, 0) = 0
  BY <1>1, <1>4 DEF PageEnd
<1>6. \A n \in Nat : PageEnd(rows, n) \in 0 .. Len(rows)
  BY <1>1, <1>2 DEF PageEnd
<1>7. \A n \in Nat : Len(rows) <= n => PageEnd(rows, n) = Len(rows)
  BY <1>1, <1>2 DEF PageEnd
<1>8. \A n \in Nat \ {0} : PageEnd(rows, n - 1) <= PageEnd(rows, n)
  <2> SUFFICES ASSUME NEW n \in Nat \ {0} PROVE PageEnd(rows, n - 1) <= PageEnd(rows, n)
    OBVIOUS
  <2>1. n - 1 \in Nat /\ n \in Nat /\ (n - 1) * PageSize \in Nat /\ n * PageSize \in Nat
        /\ (n - 1) * PageSize <= n * PageSize
    BY <1>1, <1>2, <1>3
  <2> QED
    BY <1>1, <2>1 DEF PageEnd
<1> QED
  BY <1>5, <1>6, <1>7, <1>8

\* A page is what lies between two ends.
LEMMA PageIsCut ==
  ASSUME StandingsAssumption, NEW S, NEW rows \in Seq(S), NEW n \in Nat \ {0}
  PROVE  Page(rows, n) = SubSeq(rows, PageEnd(rows, n - 1) + 1, PageEnd(rows, n))
<1> DEFINE a == (n - 1) * PageSize
           b == n * PageSize
<1>1. Len(rows) \in Nat /\ PageSize \in Nat /\ PageSize > 0
  BY DEF StandingsAssumption
<1>2. a \in Nat /\ b \in Nat /\ b = a + PageSize
  <2>1. n - 1 \in Nat
    OBVIOUS
  <2> QED
    BY <1>1, <2>1
<1>3. Page(rows, n) = IF a >= Len(rows) THEN <<>>
                      ELSE SubSeq(rows, a + 1,
                                  IF a + PageSize > Len(rows) THEN Len(rows) ELSE a + PageSize)
  BY DEF Page
<1>4. /\ PageEnd(rows, n - 1) = IF a > Len(rows) THEN Len(rows) ELSE a
      /\ PageEnd(rows, n) = IF b > Len(rows) THEN Len(rows) ELSE b
  BY DEF PageEnd
<1> HIDE DEF a, b
<1>5. CASE a >= Len(rows)
  <2>1. PageEnd(rows, n - 1) = Len(rows) /\ PageEnd(rows, n) = Len(rows)
    BY <1>1, <1>2, <1>4, <1>5
  <2>2. SubSeq(rows, Len(rows) + 1, Len(rows)) = <<>>
    BY <1>1, SubSeqEmpty
  <2> QED
    BY <1>3, <1>5, <2>1, <2>2
<1>6. CASE ~(a >= Len(rows))
  <2>1. /\ PageEnd(rows, n - 1) = a
        /\ PageEnd(rows, n) = IF a + PageSize > Len(rows) THEN Len(rows) ELSE a + PageSize
    BY <1>1, <1>2, <1>4, <1>6
  <2> QED
    BY <1>3, <1>6, <2>1
<1> QED
  BY <1>5, <1>6

FlatStep(seqs, g, i) == IF i = 1 THEN seqs[i] ELSE g[i - 1] \o seqs[i]

FlatSolves(seqs, g) == g = [i \in 1 .. Len(seqs) |-> FlatStep(seqs, g, i)]

\* FlattenSeq is the end of any solution of its recursion.
LEMMA FlattenUnique ==
  ASSUME NEW seqs, NEW n \in Nat, n # 0, Len(seqs) = n, NEW c, FlatSolves(seqs, c)
  PROVE  FlattenSeq(seqs) = c[n]
<1> DEFINE g == CHOOSE h : FlatSolves(seqs, h)
<1>1. FlattenSeq(seqs) = g[n]
  BY DEF FlattenSeq, FlatSolves, FlatStep
<1>2. FlatSolves(seqs, g)
  OBVIOUS
<1> HIDE DEF g
<1>3. \A i \in 1 .. n : g[i] = FlatStep(seqs, g, i) /\ c[i] = FlatStep(seqs, c, i)
  BY <1>2 DEF FlatSolves
<1>4. Follows(g, c, n)
  BY <1>3 DEF FlatStep, Follows
<1>5. \A i \in 1 .. n : g[i] = c[i]
  BY <1>4, OneSolution
<1> QED
  BY <1>1, <1>5

\* As many pages as there may be rows are enough, and none repeats or skips one.
LEMMA PagesMakeTheRows ==
  ASSUME StandingsAssumption, NEW S, NEW rows \in Seq(S), NEW n \in Nat, Len(rows) <= n
  PROVE  FlattenSeq([k \in 1 .. n |-> Page(rows, k)]) = rows
<1> DEFINE seqs == [k \in 1 .. n |-> Page(rows, k)]
           c == [k \in 1 .. n |-> SubSeq(rows, 1, PageEnd(rows, k))]
<1> SUFFICES FlattenSeq(seqs) = rows
  OBVIOUS
<1>1. Len(rows) \in Nat
  OBVIOUS
<1>2. Len(seqs) = n
  OBVIOUS
<1>3. CASE n = 0
  <2>1. rows = <<>>
    BY <1>3
  <2>2. seqs = <<>>
    BY <1>3
  <2>3. FlattenSeq(<<>>) = <<>>
    BY DEF FlattenSeq
  <2> HIDE DEF seqs
  <2> QED
    BY <2>1, <2>2, <2>3
<1>4. CASE n # 0
  <2>1. ASSUME NEW k \in 1 .. n PROVE c[k] = FlatStep(seqs, c, k)
    <3>1. k \in Nat \ {0} /\ k - 1 \in Nat /\ k \in Nat
      OBVIOUS
    <3>2. seqs[k] = SubSeq(rows, PageEnd(rows, k - 1) + 1, PageEnd(rows, k))
      BY <3>1, PageIsCut
    <3>3. c[k] = SubSeq(rows, 1, PageEnd(rows, k))
      OBVIOUS
    <3>4. /\ PageEnd(rows, k) \in 0 .. Len(rows) /\ PageEnd(rows, k - 1) \in 0 .. Len(rows)
          /\ PageEnd(rows, k - 1) <= PageEnd(rows, k) /\ PageEnd(rows, 0) = 0
      BY <3>1, PageEnds
    <3>5. CASE k = 1
      <4>1. PageEnd(rows, k - 1) + 1 = 1
        BY <3>4, <3>5
      <4> HIDE DEF seqs, c
      <4> QED
        BY <3>2, <3>3, <3>5, <4>1 DEF FlatStep
    <3>6. CASE k # 1
      <4>1. k - 1 \in 1 .. n
        BY <3>6
      <4>2. c[k - 1] = SubSeq(rows, 1, PageEnd(rows, k - 1))
        BY <4>1
      <4>3. SubSeq(rows, 1, PageEnd(rows, k - 1))
              \o SubSeq(rows, PageEnd(rows, k - 1) + 1, PageEnd(rows, k))
              = SubSeq(rows, 1, PageEnd(rows, k))
        <5>1. 1 \in 1 .. Len(rows) + 1 /\ PageEnd(rows, k - 1) \in 1 - 1 .. Len(rows)
              /\ PageEnd(rows, k) \in PageEnd(rows, k - 1) .. Len(rows)
          BY <1>1, <3>4
        <5> QED
          BY <5>1, ConcatAdjacentSubSeq
      <4> HIDE DEF seqs, c
      <4> QED
        BY <3>2, <3>3, <3>6, <4>2, <4>3 DEF FlatStep
    <3> QED
      BY <3>5, <3>6
  <2>2. FlatSolves(seqs, c)
    <3>1. c = [k \in 1 .. n |-> c[k]]
      OBVIOUS
    <3> HIDE DEF seqs, c
    <3> QED
      BY <1>2, <2>1, <3>1 DEF FlatSolves
  <2>3. FlattenSeq(seqs) = c[n]
    <3> HIDE DEF seqs, c
    <3> QED
      BY <1>2, <1>4, <2>2, FlattenUnique
  <2>4. c[n] = SubSeq(rows, 1, Len(rows))
    <3>1. PageEnd(rows, n) = Len(rows)
      BY PageEnds
    <3> QED
      BY <1>4, <3>1
  <2>5. SubSeq(rows, 1, Len(rows)) = rows
    BY SubSeqFull
  <2> HIDE DEF seqs, c
  <2> QED
    BY <2>3, <2>4, <2>5
<1> QED
  BY <1>3, <1>4

\* Turning the pages of the overall board shows every participant once, in
\* order, wherever the page size cuts it.
THEOREM PagesShowEveryone == ASSUME StandingsAssumption PROVE Spec => []PagesCoverBoard
<1>1. ASSUME TypeOK PROVE PagesCoverBoard
  <2> DEFINE L == OverallLines
             rows == Ordered(L)
  <2>1. IsBoard(L) /\ Cardinality(L) <= Cardinality(Users)
    BY <1>1, OverallBoard
  <2>2. Cardinality(L) \in Nat /\ rows \in [1 .. Cardinality(L) -> L]
    BY <2>1, OrderedRows
  <2>3. Cardinality(Users) \in Nat
    BY FS_CardinalityType DEF StandingsAssumption
  <2> HIDE DEF L, rows
  <2>4. rows \in Seq(L) /\ Len(rows) = Cardinality(L)
    BY <2>2
  <2>5. FlattenSeq([k \in 1 .. Cardinality(Users) |-> Page(rows, k)]) = rows
    BY <2>1, <2>3, <2>4, PagesMakeTheRows
  <2> QED
    BY <2>5 DEF PagesCoverBoard, rows, L
<1> QED
  BY <1>1, StandingsTypeCorrect, PTL

=============================================================================
