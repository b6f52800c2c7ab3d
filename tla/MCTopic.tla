------------------------------- MODULE MCTopic --------------------------------
(* Topic for TLC: a line with a recycle time of one tick and one without, and *)
(* the scenarios of the runs.                                                 *)
EXTENDS Topic

CONSTANTS w1, w2

MCRecycleOf == [n \in Names |-> IF n = "x" THEN 1 ELSE 0]

\* The lines stay and the process stops again and again.
Stops(push, crash, close) ==
  [lines |-> {"x", "y"}, kinds |-> {FALSE}, workers |-> {w1}, push |-> push,
   create |-> 0, remove |-> 0, crash |-> crash, close |-> close]

\* A line is created and some are removed.
Changes(names, push, kinds, workers, create, remove, crash, close) ==
  [lines |-> names, kinds |-> kinds, workers |-> workers, push |-> push,
   create |-> create, remove |-> remove, crash |-> crash, close |-> close]

MCScenarios ==
  {Stops(2, 2, 0), Stops(2, 1, 1),
   Changes({"x"}, 1, BOOLEAN, {w1, w2}, 1, 1, 1, 0),
   Changes({"x"}, 2, {FALSE}, {w1}, 1, 1, 1, 0),
   Changes({"x", "y"}, 1, {FALSE}, {w1}, 0, 2, 1, 0),
   Changes({"x"}, 1, {FALSE}, {w1, w2}, 1, 0, 1, 1)}
MCOldBackup == {Stops(2, 1, 0)}
MCTwoRemovers == {Changes({"x", "y"}, 0, {FALSE}, {w1, w2}, 0, 2, 0, 0)}
===============================================================================
