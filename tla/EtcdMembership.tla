--------------------------- MODULE EtcdMembership ---------------------------
(***************************************************************************)
(* What the playbooks promise about the etcd cluster, whatever they run    *)
(* into: the cluster is founded once, is never replaced by another one,    *)
(* and its member list changes by one host at a time and never to nothing. *)
(***************************************************************************)
EXTENDS FiniteSets

CONSTANT Hosts

VARIABLES
    founder,    \* the hosts the serving cluster was founded with, {} before
    roster      \* its member list

Init == founder \in SUBSET Hosts /\ roster = founder

Found(S) ==
    /\ founder = {} /\ S # {}
    /\ founder' = S
    /\ roster' = S

Join(h) ==
    /\ founder # {} /\ h \notin roster
    /\ roster' = roster \cup {h}
    /\ UNCHANGED founder

Leave(h) ==
    /\ h \in roster /\ roster # {h}
    /\ roster' = roster \ {h}
    /\ UNCHANGED founder

Next ==
    \/ \E S \in SUBSET Hosts : Found(S)
    \/ \E h \in Hosts : Join(h) \/ Leave(h)

Spec == Init /\ [][Next]_<<founder, roster>>
=============================================================================
