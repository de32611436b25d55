----------------------------- MODULE MCPickClient -----------------------------
(* Small instances of PickClient for TLC.                                   *)
EXTENDS PickClient, TLC

CONSTANTS teamA

MCTeams == {teamA}
OnePick == {[home |-> 1, away |-> 1, pen |-> teamA]}

\* Fixture 1 is undecided and kicks off first: with pages of one match it keeps
\* fixture 2 off the first page until it locks.
MCKickoffs == (1 :> 1) @@ (2 :> 2)
MCMoves == {<<2, 3>>}
=============================================================================
