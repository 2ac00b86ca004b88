---- MODULE MCInventoryBuilder ----
(* An instance of the inventory builder for TLC: two invocations.          *)
EXTENDS InventoryBuilder

JustAddresses == {Address(1), Address(2)}

OneDocument ==
    {[hosts |-> <<[name |-> 1, ip |-> 1], [name |-> 2, ip |-> 2]>>,
      etcd |-> {1}, control |-> {1}, node |-> {2}, rr |-> {}]}
====
