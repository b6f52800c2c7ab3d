------------------------------- MODULE MCQueue --------------------------------
(* Queue for TLC: two creators, a remover and two pushers, and the scenarios  *)
(* of the runs.                                                               *)
EXTENDS Queue

CONSTANTS a1, a2, r, p1, p2

Scene(workers, names, faults, most, length, halts) ==
  [workers |-> workers, names |-> names, faults |-> faults,
   objects |-> most, tail |-> length, stops |-> halts]

\* Two topics without removals; one topic made again and again; two topics, one
\* of which is removed.
MCScenarios == {Scene({a1, p1, p2}, {"s", "t"}, TRUE, 3, 2, 1),
                Scene({a1, r, p1}, {"t"}, TRUE, 4, 1, 2),
                Scene({a1, r, p1}, {"s", "t"}, TRUE, 2, 2, 1)}
MCRestart == {Scene({a1, p1}, {"t"}, FALSE, 3, 1, 1)}
MCTwoCreators == {Scene({a1, a2, p1}, {"t"}, FALSE, 3, 1, 0)}
===============================================================================
