------------------------------ MODULE MCBonus ------------------------------
(* A small instance of Bonus for TLC: a team award and a player award.      *)
EXTENDS Bonus, TLC

CONSTANTS x, y

MCAwards == [winner |-> 30, golden_ball |-> 10]
MCSubmissions == {[winner |-> x, golden_ball |-> x], [winner |-> y]}
E1(c, r) == <<[category |-> c, ref |-> r]>>
MCOutcomes == {E1("winner", x) \o E1("golden_ball", x), E1("winner", y)}
=============================================================================
