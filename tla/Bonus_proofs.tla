---------------------------- MODULE Bonus_proofs ----------------------------
(***************************************************************************)
(* Proofs about Bonus, for any users, categories, submissions, outcomes,   *)
(* scoring threads and lock.                                               *)
(***************************************************************************)
EXTENDS Bonus, TLAPS

\* What is submitted is a partial function into refs.
LEMMA UpsertedType ==
  ASSUME BonusAssumption, NEW sub \in Submissions,
         NEW old \in [Categories -> Refs \union {NoPick}]
  PROVE  Upserted(old, sub) \in [Categories -> Refs \union {NoPick}]
<1>1. PICK C \in SUBSET Categories : sub \in [C -> Refs]
  BY DEF BonusAssumption
<1>2. \A c \in DOMAIN sub : sub[c] \in Refs
  BY <1>1
<1> QED
  BY <1>2 DEF Upserted

LEMMA RestingType == Resting \in Run /\ NoPicks \in Listed
BY DEF Resting, Run, NoPicks, Listed

LEMMA WorthType ==
  ASSUME BonusAssumption, NEW c \in Categories, NEW p, NEW r
  PROVE  Worth(c, p, r) \in Nat
BY DEF BonusAssumption, Worth

\* The lists and the row updates of a run.
LEMMA RowsListed ==
  ASSUME NEW r \in Run, NEW l \in Listed
  PROVE  [r EXCEPT !.phase = "rows", !.rows = l] \in Run
BY DEF Run

LEMMA RowTaken ==
  ASSUME NEW r \in Run, NEW u \in Users, NEW c \in Categories
  PROVE  [r EXCEPT !.rows[u][c] = NoPick] \in Run
<1>1. \A l \in Listed : [l EXCEPT ![u][c] = NoPick] \in Listed
  BY DEF Listed
<1>2. r.rows \in Listed
  BY DEF Run
<1>3. [r EXCEPT !.rows[u][c] = NoPick] = [r EXCEPT !.rows = [r.rows EXCEPT ![u][c] = NoPick]]
  BY DEF Run
<1> QED
  BY <1>1, <1>2, <1>3 DEF Run

-----------------------------------------------------------------------------
LEMMA PlayerTyped ==
  ASSUME BonusAssumption, TypeOK, PlayerNext
  PROVE  TypeOK'
<1> USE DEF TypeOK
<1>1. ASSUME NEW u \in Users, NEW sub \in Submissions, CheckPicks(u, sub) PROVE TypeOK'
  BY <1>1 DEF CheckPicks, Request, table
<1>2. ASSUME NEW u \in Users, StorePicks(u) PROVE TypeOK'
  <2>1. request[u] \in Request
    BY <1>2 DEF StorePicks
  <2>2. PICK sub \in Submissions : sub = request[u].picks
    BY <2>1 DEF Request
  <2>3. PICK old \in [Categories -> Refs \union {NoPick}] : old = picks[u]
    BY DEF Listed
  <2>4. Upserted(old, sub) \in [Categories -> Refs \union {NoPick}]
    BY UpsertedType
  <2>5. picks' = [picks EXCEPT ![u] = Upserted(old, sub)]
    BY <1>2, <2>2, <2>3 DEF StorePicks
  <2>6. picks' \in Listed
    BY <2>4, <2>5 DEF Listed
  <2> QED
    BY <1>2, <2>6 DEF StorePicks, Disturb
<1>3. ASSUME NEW u \in Users, DropPicks(u) PROVE TypeOK'
  BY <1>3 DEF DropPicks, table
<1>4. ASSUME Reveal PROVE TypeOK'
  BY <1>4 DEF Reveal, table
<1> QED
  BY <1>1, <1>2, <1>3, <1>4 DEF PlayerNext

LEMMA ScorerTyped ==
  ASSUME BonusAssumption, TypeOK, ScorerNext
  PROVE  TypeOK'
<1> USE DEF TypeOK
<1>1. ASSUME NEW s \in Scorers, NEW entries \in Outcomes, StartSave(s, entries) PROVE TypeOK'
  BY <1>1 DEF StartSave, table, BonusAssumption
<1>2. ASSUME NEW s \in Scorers, SaveOutcome(s) PROVE TypeOK'
  <2>1. save[s] \in Seq(Entry) /\ save[s] # <<>>
    BY <1>2 DEF SaveOutcome
  <2>2. Head(save[s]) \in Entry /\ Tail(save[s]) \in Seq(Entry)
    BY <2>1
  <2>3. outcome' \in [Categories -> Refs \union {NoOutcome}]
    BY <1>2, <2>2 DEF SaveOutcome, Entry
  <2>4. save' \in [Scorers -> Seq(Entry) \union {Idle}]
    BY <1>2, <2>2 DEF SaveOutcome
  <2> QED
    BY <1>2, <2>3, <2>4 DEF SaveOutcome, Disturb
<1>3. ASSUME NEW s \in Scorers, ReadResults(s) PROVE TypeOK'
  <2>1. [Resting EXCEPT !.phase = "results", !.results = outcome] \in Run
    BY RestingType DEF Run
  <2> QED
    BY <1>3, <2>1 DEF ReadResults, table
<1>4. ASSUME NEW s \in Scorers, ReadPicks(s) PROVE TypeOK'
  <2>1. run[s] \in Run /\ picks \in Listed
    OBVIOUS
  <2>2. [run[s] EXCEPT !.phase = "rows", !.rows = picks] \in Run
    BY <2>1, RowsListed
  <2> QED
    BY <1>4, <2>2 DEF ReadPicks, table
<1>5. ASSUME NEW s \in Scorers, NEW u \in Users, NEW c \in Categories, ScorePick(s, u, c)
      PROVE  TypeOK'
  <2>1. PointsSet(s, u, c) \in Nat
    BY WorthType DEF PointsSet
  <2>2. points' \in [Users -> [Categories -> Nat \union {Null}]]
    BY <1>5, <2>1 DEF ScorePick
  <2>3. PICK r \in Run : r = run[s]
    OBVIOUS
  <2>4. [r EXCEPT !.rows[u][c] = NoPick] \in Run
    BY RowTaken
  <2>5. run' = [run EXCEPT ![s] = [r EXCEPT !.rows[u][c] = NoPick]]
    BY <1>5, <2>3 DEF ScorePick
  <2>6. run' \in [Scorers -> Run]
    BY <2>4, <2>5
  <2>7. clean' \in [Scorers -> BOOLEAN]
    BY <1>5 DEF ScorePick, Wrote
  <2> QED
    BY <1>5, <2>2, <2>6, <2>7 DEF ScorePick
<1>6. ASSUME NEW s \in Scorers, EndRun(s) PROVE TypeOK'
  BY <1>6, RestingType DEF EndRun, table
<1>7. ASSUME NEW s \in Scorers, Fail(s) PROVE TypeOK'
  BY <1>7, RestingType DEF Fail, table
<1> QED
  BY <1>1, <1>2, <1>3, <1>4, <1>5, <1>6, <1>7 DEF ScorerNext

\* Every variable of the bonus has its type in every behaviour.
THEOREM BonusTypeCorrect == ASSUME BonusAssumption PROVE Spec => []TypeOK
<1>1. ASSUME Init PROVE TypeOK
  <2>1. now \in Nat /\ lockAt \in Nat /\ shown \in BOOLEAN /\ late \subseteq Users
    BY <1>1 DEF Init, BonusAssumption
  <2>2. picks \in Listed /\ points \in [Users -> [Categories -> Nat \union {Null}]]
    BY <1>1, RestingType DEF Init
  <2>3. outcome \in [Categories -> Refs \union {NoOutcome}]
    BY <1>1 DEF Init
  <2>4. request \in [Users -> Request \union {Idle}] /\ save \in [Scorers -> Seq(Entry) \union {Idle}]
    BY <1>1 DEF Init
  <2>5. run \in [Scorers -> Run] /\ clean \in [Scorers -> BOOLEAN]
    BY <1>1, RestingType DEF Init
  <2> QED
    BY <2>1, <2>2, <2>3, <2>4, <2>5 DEF TypeOK
<1>2. TypeOK /\ [Next]_vars => TypeOK'
  <2> SUFFICES ASSUME TypeOK, [Next]_vars PROVE TypeOK'
    OBVIOUS
  <2>1. CASE Tick
    BY <2>1 DEF Tick, TypeOK, table
  <2>2. CASE Restart
    BY <2>2, RestingType DEF Restart, TypeOK, table
  <2>3. ASSUME NEW t \in LockInputs, MoveLock(t) PROVE TypeOK'
    BY <2>3 DEF MoveLock, TypeOK, table, BonusAssumption
  <2>4. CASE UNCHANGED vars
    BY <2>4 DEF vars, TypeOK, table
  <2> QED
    BY <2>1, <2>2, <2>3, <2>4, PlayerTyped, ScorerTyped DEF Next
<1> QED
  BY <1>1, <1>2, PTL DEF Spec

-----------------------------------------------------------------------------
\* What a run holds while nobody else writes: the stored outcomes, and of each
\* pick it has still to score the stored ref; the picks it is past are fresh.
RunInv(s) ==
  /\ run[s].phase # "idle" => run[s].results = outcome
  /\ run[s].phase = "rows" =>
       \A u \in Users, c \in Categories :
         IF run[s].rows[u][c] = NoPick THEN Fresh(u, c)
         ELSE run[s].rows[u][c] = picks[u][c]

CleanInv == \A s \in Scorers : clean[s] => RunInv(s)

\* A thread whose run, and the table, stay as they are keeps its part.
LEMMA RunFrame ==
  ASSUME NEW s \in Scorers, RunInv(s), run'[s] = run[s], UNCHANGED table
  PROVE  RunInv(s)'
BY DEF RunInv, Fresh, table, Worth

LEMMA CleanInvNext ==
  ASSUME BonusAssumption, TypeOK, CleanInv, [Next]_vars
  PROVE  CleanInv'
<1>1. ASSUME UNCHANGED <<table, run, clean>> PROVE CleanInv'
  BY <1>1, RunFrame DEF CleanInv
<1>2. ASSUME Disturb PROVE CleanInv'
  BY <1>2 DEF Disturb, CleanInv
<1>3. ASSUME NEW s \in Scorers, UNCHANGED <<table, clean>>, run' = [run EXCEPT ![s] = Resting]
      PROVE  CleanInv'
  <2>1. RunInv(s)'
    BY <1>3 DEF TypeOK, RunInv, Resting
  <2>2. ASSUME NEW t \in Scorers, t # s, clean[t] PROVE RunInv(t)'
    BY <1>3, <2>2, RunFrame DEF CleanInv, TypeOK
  <2> QED
    BY <1>3, <2>1, <2>2 DEF CleanInv
<1>4. ASSUME NEW s \in Scorers, ReadResults(s) PROVE CleanInv'
  <2>1. RunInv(s)'
    BY <1>4 DEF ReadResults, TypeOK, RunInv, Resting, table
  <2>2. ASSUME NEW t \in Scorers, t # s, clean'[t] PROVE RunInv(t)'
    <3>1. clean[t] /\ run'[t] = run[t] /\ UNCHANGED table
      BY <1>4, <2>2 DEF ReadResults, TypeOK
    <3> QED
      BY <3>1, RunFrame DEF CleanInv
  <2> QED
    BY <2>1, <2>2 DEF CleanInv
<1>5. ASSUME NEW s \in Scorers, ReadPicks(s) PROVE CleanInv'
  <2>1. ASSUME clean[s] PROVE RunInv(s)'
    BY <1>5, <2>1 DEF CleanInv, ReadPicks, TypeOK, Run, RunInv, Fresh, table
  <2>2. ASSUME NEW t \in Scorers, t # s, clean[t] PROVE RunInv(t)'
    BY <1>5, <2>2, RunFrame DEF CleanInv, ReadPicks, TypeOK
  <2> QED
    BY <1>5, <2>1, <2>2 DEF CleanInv, ReadPicks
<1>6. ASSUME NEW s \in Scorers, NEW u \in Users, NEW c \in Categories, ScorePick(s, u, c)
      PROVE  CleanInv'
  <2>1. ASSUME NEW t \in Scorers, clean'[t] PROVE t = s /\ clean[s]
    BY <1>6, <2>1 DEF ScorePick, Wrote
  <2>2. ASSUME clean[s] PROVE RunInv(s)'
    <3>1. RunInv(s)
      BY <2>2 DEF CleanInv
    <3>2. /\ run'[s].phase = "rows" /\ run[s].phase = "rows"
          /\ run'[s].results = run[s].results
          /\ run'[s].rows = [run[s].rows EXCEPT ![u][c] = NoPick]
      BY <1>6 DEF ScorePick, TypeOK, Run
    <3>3. run[s].rows \in Listed
      BY DEF TypeOK, Run
    <3>4. points'[u][c] = Worth(c, picks[u][c], outcome[c])
      BY <1>6, <3>1, <3>2 DEF ScorePick, TypeOK, RunInv, PointsSet
    <3>5. Fresh(u, c)'
      BY <1>6, <3>4 DEF Fresh, ScorePick, Worth
    <3>6. ASSUME NEW v \in Users, NEW d \in Categories, v # u \/ d # c
          PROVE  run'[s].rows[v][d] = run[s].rows[v][d] /\ (Fresh(v, d)' <=> Fresh(v, d))
      BY <1>6, <3>2, <3>3, <3>6 DEF ScorePick, TypeOK, Fresh, Worth, Listed
    <3>7. run'[s].rows[u][c] = NoPick
      BY <3>2, <3>3 DEF Listed
    <3>8. run'[s].results = outcome'
      BY <1>6, <3>1, <3>2 DEF ScorePick, RunInv
    <3>9. ASSUME NEW v \in Users, NEW d \in Categories
          PROVE  IF run'[s].rows[v][d] = NoPick THEN Fresh(v, d)'
                 ELSE run'[s].rows[v][d] = picks'[v][d]
      <4>1. CASE v = u /\ d = c
        BY <4>1, <3>5, <3>7
      <4>2. CASE v # u \/ d # c
        <5>1. run'[s].rows[v][d] = run[s].rows[v][d] /\ (Fresh(v, d)' <=> Fresh(v, d))
          BY <4>2, <3>6
        <5>2. picks'[v][d] = picks[v][d]
          BY <1>6 DEF ScorePick
        <5> QED
          BY <5>1, <5>2, <3>1, <3>2 DEF RunInv
      <4> QED
        BY <4>1, <4>2
    <3> QED
      BY <3>8, <3>9 DEF RunInv
  <2> QED
    BY <2>1, <2>2 DEF CleanInv
<1>7. ASSUME Restart PROVE CleanInv'
  BY <1>7 DEF Restart, CleanInv, RunInv, Resting
<1> QED
  BY <1>1, <1>2, <1>3, <1>4, <1>5, <1>6, <1>7
  DEF Next, Tick, PlayerNext, ScorerNext, MoveLock, CheckPicks, StorePicks, DropPicks,
      Reveal, StartSave, SaveOutcome, EndRun, Fail, vars

\* A bonus-score run nobody else wrote during leaves every pick with the points
\* of the stored outcomes.
THEOREM BonusRunRestores == ASSUME BonusAssumption PROVE Spec => []RunRestores
<1>1. Init => CleanInv
  BY DEF Init, CleanInv
<1>2. TypeOK /\ CleanInv /\ [Next]_vars => CleanInv'
  BY CleanInvNext
<1>3. TypeOK /\ CleanInv => RunRestores
  BY DEF CleanInv, RunInv, RunRestores, RunDone, NoPicks
<1> QED
  BY <1>1, <1>2, <1>3, BonusTypeCorrect, PTL DEF Spec

-----------------------------------------------------------------------------
(* The lock and the reveal.  Both read bonus_lock_at, so they part only where *)
(* a submission is on its way as the lock closes, by the clock or by an       *)
(* admin's move: late holds whose it is from the reveal on.                   *)

PicksInv ==
  shown => lockAt <= now /\ \A u \in Users : request[u] # Idle => u \in late

LEMMA PicksInvNext ==
  ASSUME BonusAssumption, TypeOK, TypeOK', PicksInv, [Next]_vars
  PROVE  /\ PicksInv'
         /\ shown /\ shown' => \A u \in Users : picks'[u] # picks[u] => u \in late
<1> USE DEF PicksInv
<1>0. now \in Nat /\ lockAt \in Nat /\ now' \in Nat /\ lockAt' \in Nat
  BY DEF TypeOK
<1>1. CASE Tick
  BY <1>0, <1>1 DEF Tick, table
<1>2. ASSUME NEW u \in Users, NEW sub \in Submissions, CheckPicks(u, sub)
      PROVE  PicksInv' /\ UNCHANGED picks
  <2>1. ~shown /\ UNCHANGED <<shown, picks>>
    BY <1>0, <1>2 DEF CheckPicks, Locked, table
  <2> QED
    BY <2>1
<1>3. ASSUME NEW u \in Users, StorePicks(u) \/ DropPicks(u)
      PROVE  /\ PicksInv'
             /\ shown => \A v \in Users : picks'[v] # picks[v] => v \in late
  <2>1. /\ request[u] # Idle /\ request' = [request EXCEPT ![u] = Idle]
        /\ late' = late \ {u} /\ UNCHANGED <<now, lockAt, shown>>
    BY <1>3 DEF StorePicks, DropPicks
  <2>2. \A v \in Users \ {u} : picks'[v] = picks[v] /\ request'[v] = request[v]
    BY <1>3, <2>1 DEF StorePicks, DropPicks, table, TypeOK, Listed
  <2>3. request'[u] = Idle
    BY <2>1 DEF TypeOK
  <2> QED
    BY <2>1, <2>2, <2>3
<1>4. CASE Reveal
  BY <1>0, <1>4 DEF Reveal, table
<1>5. ASSUME NEW t \in LockInputs, MoveLock(t) PROVE PicksInv' /\ UNCHANGED picks
  BY <1>0, <1>5 DEF MoveLock, table
<1>6. ASSUME ScorerNext \/ UNCHANGED vars PROVE PicksInv' /\ UNCHANGED picks
  <2>1. UNCHANGED <<now, lockAt, picks, request, shown, late>>
    BY <1>6 DEF ScorerNext, StartSave, SaveOutcome, ReadResults, ReadPicks, ScorePick, EndRun, Fail,
                table, vars
  <2> QED
    BY <2>1
<1>7. CASE Restart
  BY <1>7 DEF Restart, table
<1> QED
  BY <1>1, <1>2, <1>3, <1>4, <1>5, <1>6, <1>7 DEF Next, PlayerNext

\* However long a submission takes and however an admin moves bonus_lock_at,
\* what was revealed stays, but for the one submission a user may have had past
\* the lock at the reveal: the window of the check-then-write is one request per
\* user wide, and closes with it.
THEOREM BonusPicksStay == ASSUME BonusAssumption PROVE Spec => ShownPicksStay
<1>1. Init => PicksInv
  BY DEF Init, PicksInv
<1>2. TypeOK /\ TypeOK' /\ PicksInv /\ [Next]_vars =>
        /\ PicksInv'
        /\ shown /\ shown' => \A u \in Users : picks'[u] # picks[u] => u \in late
  BY PicksInvNext
<1> QED
  BY <1>1, <1>2, BonusTypeCorrect, PTL DEF Spec, ShownPicksStay

=============================================================================
