---- MODULE MCEtcdRole ----
(* Instances of the etcd role for TLC.                                     *)
EXTENDS EtcdRole

ThreeHosts == 1 .. 3
FourHosts == 1 .. 4

(* The hosts of the cluster that the inventory starts with.                *)
OnlyOne == {{1}}
OneOrThree == {{1}, 1 .. 3}

(* No address is part of another one.                                      *)
DistinctAddresses == [h \in Hosts |-> {h}]
====
