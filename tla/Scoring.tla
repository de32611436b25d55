------------------------------- MODULE Scoring -------------------------------
(***************************************************************************)
(* Match scoring: the pure engine of backend/internal/scoring, and the     *)
(* translation of an API match into the result it is scored against.       *)
(*                                                                         *)
(* A pick is a predicted scoreline with an optional shootout winner.  A    *)
(* result is a final scoreline, whether the match went to penalties and    *)
(* who won the shootout.  Whether the match was a knockout is passed       *)
(* beside the result, because the three callers of the engine take it from *)
(* different places (the API's stage, the stage read before the            *)
(* transaction, the stage stored with a final match).                      *)
(***************************************************************************)
EXTENDS Integers

CONSTANTS
  Teams,   \* the seeded teams
  NoTeam   \* a nil team id: no pick, no shootout winner, a slot still TBD

ASSUME NoTeamAssumption == NoTeam \notin Teams

TeamOrNone == Teams \union {NoTeam}

Pick   == [home : Nat, away : Nat, pen : TeamOrNone]
Result == [home : Nat, away : Nat, pens : BOOLEAN, winner : TeamOrNone]
Score  == [points : {0, 3, 5}, bonus : {0, 1}]

Zero == [points |-> 0, bonus |-> 0]

Sign(n) == IF n > 0 THEN 1 ELSE IF n < 0 THEN -1 ELSE 0

IsDraw(s) == s.home = s.away

\* The tier a scoreline earns: exact, right outcome, or nothing.
Tier(p, r) ==
  IF p.home = r.home /\ p.away = r.away THEN 5
  ELSE IF Sign(p.home - p.away) = Sign(r.home - r.away) THEN 3
  ELSE 0

CorrectShootout(p, r, knockout) ==
  /\ knockout /\ r.pens
  /\ p.pen # NoTeam /\ r.winner # NoTeam
  /\ p.pen = r.winner

MutPointsIncludeBonus(p, r, knockout) ==
  LET bonus == IF CorrectShootout(p, r, knockout) /\ IsDraw(p) THEN 1 ELSE 0
  IN  [points |-> Tier(p, r) + bonus, bonus |-> bonus]

MutNoAdvancementGate(p, r, knockout) ==
  [points |-> Tier(p, r),
   bonus  |-> IF CorrectShootout(p, r, knockout) /\ IsDraw(p) /\ Tier(p, r) > 0
              THEN 1 ELSE 0]

\* Both callers score FINAL matches only, so the engine's first test (a result
\* that is not final scores nothing) never fires.
Compute(p, r, knockout) ==
  LET shootout == CorrectShootout(p, r, knockout)
  IN  IF knockout /\ r.pens /\ IsDraw(p) /\ ~shootout
      THEN Zero
      ELSE [points |-> Tier(p, r),
            bonus  |-> IF shootout /\ IsDraw(p) /\ Tier(p, r) > 0 THEN 1 ELSE 0]

-----------------------------------------------------------------------------
(* What the results API says of a match, and what the ingest makes of it.   *)

Sides == {"HOME_TEAM", "AWAY_TEAM", "DRAW"}

\* An API match counts only when it is FINISHED and has a full-time scoreline.
Scoreable(a) == a.status = "FINISHED" /\ a.hasScore

\* The shootout winner is a team only when there was a shootout and the API
\* names a side.
PenaltyWinnerID(a, home, away) ==
  IF a.duration # "PENALTY_SHOOTOUT" THEN NoTeam
  ELSE IF a.side = "HOME_TEAM" THEN home
  ELSE IF a.side = "AWAY_TEAM" THEN away
  ELSE NoTeam

ToResult(a, home, away) ==
  [home   |-> a.home, away |-> a.away,
   pens   |-> a.duration = "PENALTY_SHOOTOUT",
   winner |-> PenaltyWinnerID(a, home, away)]

\* The ingest scores with the API's idea of the stage.
ApiKnockout(a) == a.stage # "GROUP_STAGE"

=============================================================================
