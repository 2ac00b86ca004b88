---- MODULE MCEtcdRemoveNode ----
(* Instances of the etcd cluster's life under both playbooks for TLC.      *)
EXTENDS EtcdRemoveNode

FourHosts == 1 .. 4

(* The hosts of the cluster that the inventory starts with.                *)
AnyFounding == {{}, {1}, 1 .. 3}

(* No address is part of another one.                                      *)
DistinctAddresses == [h \in Hosts |-> {h}]
====
