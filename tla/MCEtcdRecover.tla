---- MODULE MCEtcdRecover ----
(* Instances of the recovery of a broken etcd cluster for TLC.             *)
EXTENDS EtcdRecover

FiveHosts == 1 .. 5
SixHosts == 1 .. 6
Three == {1 .. 3}
Five == {1 .. 5}

(* No address is part of another one.                                      *)
DistinctAddresses == [h \in Hosts |-> {h}]
====
