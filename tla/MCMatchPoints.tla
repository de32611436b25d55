---------------------------- MODULE MCMatchPoints ----------------------------
(* Small instances of MatchPoints for TLC.                                  *)
EXTENDS MatchPoints, TLC

CONSTANTS m1, m2, u1, u2, teamA, teamB

MCTeams == {teamA, teamB}

\* The dataset: m1 is a knockout kicking off at 1; m2 is free for CreateMatch.
SeedFixture == [kickoff |-> 1, home |-> teamA, away |-> teamB, stage |-> "knockout"]
MCSeed == [s \in {m1} |-> SeedFixture]

Draw11(t) == [home |-> 1, away |-> 1, pen |-> t]
Home10    == [home |-> 1, away |-> 0, pen |-> NoTeam]
MCPicks   == {Draw11(teamA), Home10}
OnePick   == {Draw11(teamA)}

Res(h, a, w) == [home |-> h, away |-> a, pens |-> w # NoTeam, winner |-> w]
MCResults == {Res(1, 1, teamA), Res(1, 0, NoTeam)}
OneResult == {Res(1, 1, teamA)}

Api(utc, h, a, side) ==
  [id |-> "x", utc |-> utc, homeTeam |-> teamA, awayTeam |-> teamB,
   status |-> "FINISHED", hasScore |-> TRUE, home |-> h, away |-> a, side |-> side,
   duration |-> IF h = a THEN "PENALTY_SHOOTOUT" ELSE "REGULAR", stage |-> "LAST_16"]
MCApi == {Api(1, 1, 1, "AWAY_TEAM")}
ApiRevised == MCApi \union {Api(1, 1, 0, "HOME_TEAM")}

\* The same fixture, entered again: an edit that moves nothing.
SameFixture == {SeedFixture}
\* An edit that moves the kickoff, and one that changes the stage too.
MovedFixtures == {[SeedFixture EXCEPT !.kickoff = 3],
                  [SeedFixture EXCEPT !.stage = "group"]}
MovedOnce == {[SeedFixture EXCEPT !.kickoff = 2, !.stage = "group"]}
ApiIdSet == {"x"}
=============================================================================
