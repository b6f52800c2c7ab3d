------------------------------- MODULE MCCluster -------------------------------
(* Cluster for TLC: the scenarios of the run.                                 *)
EXTENDS Cluster

CONSTANTS i1, i2, i3

Scene(instances, agreed, ops, faults, stops) ==
  [instances |-> instances, agreed |-> agreed, ops |-> ops, faults |-> faults,
   stops |-> stops]

\* Two instances and a request that fails, without and with a stop; and three
\* instances, among which a change could go round for ever.
MCScenarios == {Scene({i1, i2}, FALSE, 3, 1, 0),
                Scene({i1, i2}, FALSE, 2, 1, 1),
                Scene({i1, i2, i3}, TRUE, 1, 0, 0)}
===============================================================================
