---- MODULE MCRollingUpgrade ----
(* Instances of the rolling upgrade for TLC.                               *)
EXTENDS RollingUpgrade

TwoMasters == {1, 2}
ThreeWorkers == {3, 4, 5}
AnyTask == Tasks \ {"schedulable"}
====
