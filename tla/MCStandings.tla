---------------------------- MODULE MCStandings ----------------------------
(* Small instances of Standings for TLC.                                    *)
EXTENDS Standings

CONSTANTS m1, m2, teamA, teamB

MCTeams == {teamA, teamB}
MCUsers == {1, 2}
MCMatches == {m1, m2}

P(h, a, t) == [home |-> h, away |-> a, pen |-> t]
R(h, a, w) == [home |-> h, away |-> a, pens |-> w # NoTeam, winner |-> w]
MCAwards == [runner_up |-> 20, golden_ball |-> 10, golden_boot |-> 10]

\* Both matches kick off on the last instant of week 0; a match may be moved to
\* the first of week 1, when week 0 is declared.
MCKickoffs == (m1 :> 1) @@ (m2 :> 1)
MCMoves == {2}

BoardPicks == {P(1, 1, teamB), P(2, 2, teamA)}
BoardResults == {R(1, 1, teamA), R(1, 0, NoTeam)}
BoardBonus == {{"runner_up"}, {"golden_ball", "golden_boot"}}

WeekPicks == {P(1, 0, NoTeam), P(2, 0, NoTeam)}
WeekResults == {R(1, 0, NoTeam)}

MCPicks == BoardPicks \union WeekPicks
MCResults == BoardResults \union WeekResults

-----------------------------------------------------------------------------
(* The boards and the weekly run, each with the inputs that matter to it: a   *)
(* behaviour is of one scene.                                                 *)
VARIABLE scene

Uses(P0, R0) ==
  /\ \A u \in Users, m \in Matches : picks'[u][m] \in P0 \union {NoPick}
  /\ \A m \in Matches : result'[m] \in R0 \union {NoResult}

MCInit == Init /\ scene \in {"boards", "weeks"}

MCNext ==
  /\ UNCHANGED scene
  /\ Next
  \* No week is declared, and nothing is read of the week after.
  /\ scene = "boards" => /\ UNCHANGED <<weekly, job>> /\ now' <= 1
                         /\ Uses(BoardPicks, BoardResults)
  \* Only m1 may be moved or deleted.
  /\ scene = "weeks" => /\ UNCHANGED <<hits, kickoff[m2]>>
                        /\ Uses(WeekPicks, WeekResults)

MCSpec == MCInit /\ [][MCNext]_<<vars, scene>>
=============================================================================
