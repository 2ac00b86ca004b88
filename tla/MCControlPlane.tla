---- MODULE MCControlPlane ----
(* Instances of the control-plane play for TLC.                            *)
EXTENDS ControlPlane

ThreeHosts == 1 .. 3
TwoHosts == 1 .. 2
====
