---------------------------- MODULE MCEtcdCerts ----------------------------
(* Instances of EtcdCerts for TLC.                                         *)
EXTENDS EtcdCerts

TwoFounders == <<"e1", "e2">>
ThreeFounders == <<"e1", "e2", "e3">>
AllHosts == {"e1", "e2", "e3", "w"}
SomeNodes == {"e2", "w"}        \* e1 and e3 are etcd hosts only
AllOrWorker == {AllHosts, {"w"}}
=============================================================================
