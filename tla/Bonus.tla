-------------------------------- MODULE Bonus --------------------------------
(***************************************************************************)
(* Tournament bonus: the players' award picks, the lock that closes and    *)
(* reveals them, the admin's outcomes, and the bonus-score job that turns  *)
(* picks and outcomes into points (backend/internal/bonus,                 *)
(* httpapi/bonus_handler.go, httpapi/admin_bonus_handler.go,               *)
(* jobs/bonus_score.go, settings).                                         *)
(*                                                                         *)
(* The lock is a setting, read by every request and changed by an admin at *)
(* any time.  Only a player's submission is a transaction: outcomes are    *)
(* saved one statement per category, and points are set one statement per  *)
(* pick, from lists read at the start of the run.                          *)
(***************************************************************************)
EXTENDS Integers, Sequences

CONSTANTS
  Users,
  Awards,         \* Awards[c]: the points of category c (Points)
  Refs,           \* teams and players
  Submissions,    \* bodies of PUT bonus: functions from categories to refs
  Outcomes,       \* bodies of PUT bonus results: sequences of entries
  Scorers,        \* threads that save outcomes or score: handlers and jobs
  LockAt0,        \* BONUS_LOCK_AT
  LockInputs,     \* where an admin may move the lock
  Latency,        \* how long a submission may sit between check and commit
  MaxTime,        \* bound of the clock
  Idle, NoPick, NoOutcome, Null

Categories == DOMAIN Awards
Entry == [category : Categories, ref : Refs]

ASSUME BonusAssumption ==
  /\ Awards \in [Categories -> Nat \ {0}]
  /\ Submissions \subseteq UNION {[C -> Refs] : C \in SUBSET Categories}
  /\ Outcomes \subseteq Seq(Entry) /\ <<>> \notin Outcomes
  /\ LockAt0 \in Nat /\ LockInputs \subseteq Nat
  /\ Latency \in Nat /\ MaxTime \in Nat
  /\ NoPick \notin Refs /\ NoOutcome \notin Refs /\ Null \notin Nat
  /\ Idle \notin Seq(Entry)

VARIABLES
  now,
  lockAt,      \* setting bonus_lock_at
  picks,       \* picks[u][c]: bonus_predictions.ref_id
  points,      \* points[u][c]: bonus_predictions.points
  outcome,     \* table bonus_results
  request,     \* request[u]: a submission that passed its checks
  save,        \* save[s]: entries a PUT bonus results has still to write
  run,         \* run[s]: a bonus-score run
  \* History, read by properties only:
  shown,       \* the picks have been revealed under the lock now in force
  late,        \* whose submission was on its way when they were revealed
  clean        \* clean[s]: nobody else wrote since s's run read the outcomes

table == <<picks, points, outcome>>
vars  == <<now, lockAt, table, request, save, run, shown, late, clean>>

-----------------------------------------------------------------------------
Listed == [Users -> [Categories -> Refs \union {NoPick}]]
Request == [picks : Submissions, at : Nat]
Run == [phase : {"idle", "results", "rows"},
        results : [Categories -> Refs \union {NoOutcome}], rows : Listed]

NoPicks == [u \in Users |-> [c \in Categories |-> NoPick]]
Resting == [phase |-> "idle", results |-> [c \in Categories |-> NoOutcome],
            rows |-> NoPicks]

\* A thread other than s wrote picks, points or outcomes.
Wrote(s) == clean' = [t \in Scorers |-> t = s /\ clean[t]]
Disturb  == clean' = [t \in Scorers |-> FALSE]

Init ==
  /\ now = 0 /\ lockAt = LockAt0
  /\ picks = NoPicks
  /\ points = [u \in Users |-> [c \in Categories |-> Null]]
  /\ outcome = [c \in Categories |-> NoOutcome]
  /\ request = [u \in Users |-> Idle]
  /\ save = [s \in Scorers |-> Idle]
  /\ run = [s \in Scorers |-> Resting]
  /\ shown = FALSE /\ late = {}
  /\ clean = [s \in Scorers |-> FALSE]

Tick ==
  /\ now < MaxTime
  /\ \A u \in Users : request[u] # Idle => now < request[u].at + Latency
  /\ now' = now + 1
  /\ UNCHANGED <<lockAt, table, request, save, run, shown, late, clean>>

-----------------------------------------------------------------------------
(* Players. *)

MutLockedAfter == now > lockAt

Locked == now >= lockAt

\* PutBonus up to its last validation.
CheckPicks(u, sub) ==
  /\ request[u] = Idle
  /\ ~Locked
  /\ request' = [request EXCEPT ![u] = [picks |-> sub, at |-> now]]
  /\ UNCHANGED <<now, lockAt, table, save, run, shown, late, clean>>

MutReplaced(old, sub) == sub

\* A category the submission leaves out keeps its pick.
Upserted(old, sub) ==
  [c \in Categories |-> IF c \in DOMAIN sub THEN sub[c] ELSE old[c]]

\* UpsertBonusPredictions: every pick of the submission or none; points stay.
StorePicks(u) ==
  /\ request[u] # Idle
  /\ picks' = [picks EXCEPT ![u] = Upserted(@, request[u].picks)]
  /\ request' = [request EXCEPT ![u] = Idle]
  /\ late' = late \ {u}
  /\ Disturb
  /\ UNCHANGED <<now, lockAt, points, outcome, save, run, shown>>

\* The transaction rolls back.
DropPicks(u) ==
  /\ request[u] # Idle
  /\ request' = [request EXCEPT ![u] = Idle]
  /\ late' = late \ {u}
  /\ UNCHANGED <<now, lockAt, table, save, run, shown, clean>>

\* GetAllBonusPredictions: the privacy gate and the list.
Reveal ==
  /\ now >= lockAt
  /\ shown' = TRUE
  /\ late' = IF shown THEN late ELSE {u \in Users : request[u] # Idle}
  /\ UNCHANGED <<now, lockAt, table, request, save, run, clean>>

\* PutAdminSettings of bonus_lock_at.  Moved into the future, it reopens the
\* picks to their owners.
MoveLock(t) ==
  /\ lockAt' = t
  /\ shown' = (shown /\ now >= t)
  /\ late' = IF now >= t THEN late ELSE {}
  /\ UNCHANGED <<now, table, request, save, run, clean>>

-----------------------------------------------------------------------------
(* Outcomes and points. *)

\* PutBonusResults, all entries validated.
StartSave(s, entries) ==
  /\ save[s] = Idle /\ run[s].phase = "idle"
  /\ save' = [save EXCEPT ![s] = entries]
  /\ UNCHANGED <<now, lockAt, table, request, run, shown, late, clean>>

\* UpsertBonusResult of the next entry.
SaveOutcome(s) ==
  /\ save[s] \notin {Idle, <<>>}
  /\ outcome' = [outcome EXCEPT ![Head(save[s]).category] = Head(save[s]).ref]
  /\ save' = [save EXCEPT ![s] = Tail(save[s])]
  /\ Disturb
  /\ UNCHANGED <<now, lockAt, picks, points, request, run, shown, late>>

\* BonusScore.Run, ListBonusResults: after the last entry of a save, by a manual
\* trigger, or at the end of a recompute run.
ReadResults(s) ==
  /\ save[s] \in {Idle, <<>>} /\ run[s].phase = "idle"
  /\ save' = [save EXCEPT ![s] = Idle]
  /\ run' = [run EXCEPT ![s] = [Resting EXCEPT !.phase = "results", !.results = outcome]]
  /\ clean' = [clean EXCEPT ![s] = TRUE]
  /\ UNCHANGED <<now, lockAt, table, request, shown, late>>

\* ListAllBonusPredictions.
ReadPicks(s) ==
  /\ run[s].phase = "results"
  /\ run' = [run EXCEPT ![s] = [@ EXCEPT !.phase = "rows", !.rows = picks]]
  /\ UNCHANGED <<now, lockAt, table, request, save, shown, late, clean>>

\* Score.
Worth(c, pick, result) == IF pick = result THEN Awards[c] ELSE 0

MutSetHitsOnly(s, u, c) ==
  IF Worth(c, run[s].rows[u][c], run[s].results[c]) > 0
  THEN Worth(c, run[s].rows[u][c], run[s].results[c])
  ELSE points[u][c]

\* What a run sets for one listed pick: an absolute value, from the lists.
PointsSet(s, u, c) == Worth(c, run[s].rows[u][c], run[s].results[c])

\* SetBonusPredictionPoints.
ScorePick(s, u, c) ==
  /\ run[s].phase = "rows" /\ run[s].rows[u][c] # NoPick
  /\ points' = [points EXCEPT ![u][c] = PointsSet(s, u, c)]
  /\ run' = [run EXCEPT ![s].rows[u][c] = NoPick]
  /\ Wrote(s)
  /\ UNCHANGED <<now, lockAt, picks, outcome, request, save, shown, late>>

RunDone(s) == run[s].phase = "rows" /\ run[s].rows = NoPicks

EndRun(s) ==
  /\ RunDone(s)
  /\ run' = [run EXCEPT ![s] = Resting]
  /\ UNCHANGED <<now, lockAt, table, request, save, shown, late, clean>>

\* A statement fails: 500; outcomes and points already written stay.
Fail(s) ==
  /\ save[s] # Idle \/ run[s].phase # "idle"
  /\ save' = [save EXCEPT ![s] = Idle]
  /\ run' = [run EXCEPT ![s] = Resting]
  /\ UNCHANGED <<now, lockAt, table, request, shown, late, clean>>

\* The backend process dies and restarts.
Restart ==
  /\ \/ \E u \in Users : request[u] # Idle
     \/ \E s \in Scorers : save[s] # Idle \/ run[s].phase # "idle"
  /\ request' = [u \in Users |-> Idle]
  /\ late' = {}
  /\ save' = [s \in Scorers |-> Idle]
  /\ run' = [s \in Scorers |-> Resting]
  /\ UNCHANGED <<now, lockAt, table, shown, clean>>

PlayerNext ==
  \/ \E u \in Users : \/ \E sub \in Submissions : CheckPicks(u, sub)
                      \/ StorePicks(u) \/ DropPicks(u)
  \/ Reveal

ScorerNext ==
  \E s \in Scorers : \/ \E entries \in Outcomes : StartSave(s, entries)
                     \/ SaveOutcome(s) \/ ReadResults(s) \/ ReadPicks(s)
                     \/ \E u \in Users, c \in Categories : ScorePick(s, u, c)
                     \/ EndRun(s) \/ Fail(s)

Next == \/ Tick \/ PlayerNext \/ ScorerNext \/ Restart
        \/ \E t \in LockInputs : MoveLock(t)

Spec == Init /\ [][Next]_vars

-----------------------------------------------------------------------------
(* Properties. *)

\* Every variable has its type.
TypeOK ==
  /\ now \in Nat /\ lockAt \in Nat
  /\ picks \in Listed
  /\ points \in [Users -> [Categories -> Nat \union {Null}]]
  /\ outcome \in [Categories -> Refs \union {NoOutcome}]
  /\ request \in [Users -> Request \union {Idle}]
  /\ save \in [Scorers -> Seq(Entry) \union {Idle}]
  /\ run \in [Scorers -> Run]
  /\ shown \in BOOLEAN /\ late \subseteq Users
  /\ clean \in [Scorers -> BOOLEAN]

\* A pick has the points its category pays for the stored outcome.
Fresh(u, c) ==
  picks[u][c] # NoPick => points[u][c] = Worth(c, picks[u][c], outcome[c])

\* A bonus-score run nobody else wrote during leaves every pick with the points
\* of the stored outcomes, whatever a failed save, an aborted run, an edited
\* pick or a corrected outcome had left before (bonus_score.go, the idempotent
\* SET; admin_bonus_handler.go, "run recompute").
RunRestores ==
  \A s \in Scorers : RunDone(s) /\ clean[s] => \A u \in Users, c \in Categories : Fresh(u, c)

\* Once the picks were revealed nobody changes theirs, however the lock is moved
\* about the present instant, but for a submission that had passed the lock
\* before the reveal and is stored after it (bonus_handler.go: the write lock and
\* the privacy gate are the same boundary).
ShownPicksStay ==
  [][shown /\ shown' => \A u \in Users : picks'[u] # picks[u] => u \in late]_vars

=============================================================================
