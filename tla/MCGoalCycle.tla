------------------------------ MODULE MCGoalCycle ------------------------------
(* GoalCycle on small sets: the first process may have a runner and an audit. *)
EXTENDS GoalCycle, TLC
CONSTANTS r1, d1, r2, d2, p1, p2
Sym == Permutations(Reservation)
MCProcOf == [a \in Agent |-> IF a \in {r2, d2} THEN p2 ELSE p1]
=============================================================================
