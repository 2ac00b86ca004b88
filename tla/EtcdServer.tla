----------------------------- MODULE EtcdServer -----------------------------
(***************************************************************************)
(* The etcd servers that the kubespray playbooks configure, start and      *)
(* query: what a server does with the environment file and the data        *)
(* directory it finds when systemd launches it, when it becomes ready, and *)
(* how the cluster answers `etcdctl member list`, `member add`, `member    *)
(* remove` and `endpoint health`.  etcd (v3.4.13, roles/download/defaults) *)
(* is a dependency, modelled from how roles/etcd uses it; the environment  *)
(* file and the systemd unit are the repository's own templates.           *)
(*                                                                         *)
(* A cluster is named by the set of hosts whose peer URLs it was           *)
(* bootstrapped with (etcd hashes that list into the cluster ID), so two   *)
(* hosts that bootstrap from different ETCD_INITIAL_CLUSTER lists are in   *)
(* different clusters and never replicate each other's data.               *)
(***************************************************************************)
EXTENDS Naturals, FiniteSets

CONSTANT Hosts      \* the machines an inventory may list, in inventory order

ASSUME HostsAssumption == Hosts \subseteq Nat /\ IsFiniteSet(Hosts)

VARIABLES
    conf,       \* conf[h]: /etc/etcd.env, [state, initial]
    enabled,    \* hosts whose etcd unit is installed and enabled
    proc,       \* proc[h]: the process, "down", "starting" or "ready"
    data,       \* data[h]: the cluster of the data directory, {} if it has none
    stale,      \* hosts whose data directory belongs to a removed member
    members,    \* members[c]: the member list of cluster c
    started     \* started[c]: members of c that have published client URLs

serverVars == <<conf, enabled, proc, data, stale, members, started>>

Clusters == SUBSET Hosts
NoData == {}
NoConf == [state |-> "none", initial |-> {}]

Conf == [state : {"none", "new", "existing"}, initial : SUBSET Hosts]

ServerTypeOK ==
    /\ conf \in [Hosts -> Conf]
    /\ enabled \subseteq Hosts
    /\ proc \in [Hosts -> {"down", "starting", "ready"}]
    /\ data \in [Hosts -> Clusters]
    /\ stale \subseteq Hosts
    /\ members \in [Clusters -> SUBSET Hosts]
    /\ started \in [Clusters -> SUBSET Hosts]

(* A cluster that nobody has changed yet has the members it is named by.   *)
ServerInit ==
    /\ conf = [h \in Hosts |-> NoConf]
    /\ enabled = {}
    /\ proc = [h \in Hosts |-> "down"]
    /\ data = [h \in Hosts |-> NoData]
    /\ stale = {}
    /\ members = [c \in Clusters |-> c]
    /\ started = [c \in Clusters |-> {}]

-----------------------------------------------------------------------------
(* What the cluster looks like from outside.                               *)

Live(c) == {h \in members[c] : /\ data[h] = c
                               /\ h \notin stale
                               /\ proc[h] # "down"}

HasQuorum(c) == 2 * Cardinality(Live(c)) > Cardinality(members[c])

Ready(h) == proc[h] = "ready"

(* The clusters that an etcdctl given the endpoints S may reach: a server  *)
(* opens its client port once it is ready, and the client takes any        *)
(* endpoint that answers.                                                  *)
Reachable(S) == {data[h] : h \in {x \in S : Ready(x)}}

(* `etcdctl endpoint --cluster status && endpoint --cluster health`        *)
(* contacts every member that has published client URLs, and every one of  *)
(* them must answer and commit a read.                                     *)
Healthy(c) ==
    /\ HasQuorum(c)
    /\ \A h \in started[c] \cap members[c] :
           Ready(h) /\ data[h] = c /\ h \notin stale

(* etcd's strict reconfiguration checks.  A member is added only if every  *)
(* member is connected and the started ones are a quorum of the enlarged   *)
(* cluster (one may grow to two); one is removed only if the started ones  *)
(* among the rest are a quorum of the rest, and, unless the member is      *)
(* down, so are the connected ones.                                        *)
Quorum(n) == n \div 2 + 1

StrictAdd(c) ==
    LET up == Cardinality(started[c] \cap members[c])
        n  == Cardinality(members[c]) + 1
    IN  /\ members[c] \subseteq Live(c)
        /\ up >= Quorum(n) \/ (up = 1 /\ n = 2)

StrictRemove(c, h) ==
    LET rest == members[c] \ {h}
    IN  /\ rest # {}
        /\ Cardinality(started[c] \cap rest) >= Quorum(Cardinality(rest))
        /\ h \in Live(c) => Cardinality(Live(c) \cap rest) >= Quorum(Cardinality(rest))

-----------------------------------------------------------------------------
(* What a launched server does.                                            *)

(* A server that would bootstrap asks the peers of its list whether its    *)
(* member has already been started in that very cluster.                   *)
AlreadyBootstrapped(h) ==
    LET c == conf[h].initial
    IN  /\ h \in started[c]
        /\ \E r \in c \ {h} : proc[r] # "down" /\ data[r] = c

(* The clusters host h may end up in when its server is launched: the one  *)
(* of its data directory if it has one, else the one it bootstraps (state  *)
(* new), else that of a peer whose member list is the configured one.      *)
Boot(h) ==
    IF data[h] # NoData
    THEN {data[h]} \ {c \in {data[h]} : h \in stale}
    ELSE LET c == conf[h].initial
         IN  {k \in Clusters :
                \/ /\ conf[h].state = "new"
                   /\ h \in c
                   /\ k = c
                   /\ ~AlreadyBootstrapped(h)
                \/ /\ conf[h].state = "existing"
                   /\ h \in c
                   /\ members[k] = c
                   /\ \E r \in c \ {h} :
                         proc[r] # "down" /\ data[r] = k /\ r \notin stale}

(* systemd starts the enabled unit and, because of Restart=always, starts  *)
(* it again whenever it has exited.                                        *)
Launch(h) ==
    /\ h \in enabled
    /\ proc[h] = "down"
    /\ \E c \in Boot(h) : data' = [data EXCEPT ![h] = c]
    /\ proc' = [proc EXCEPT ![h] = "starting"]
    /\ UNCHANGED <<conf, enabled, stale, members, started>>

(* A starting server becomes ready, and publishes its client URLs, as soon *)
(* as its cluster has a quorum.                                            *)
Publish(h) ==
    /\ proc[h] = "starting"
    /\ HasQuorum(data[h])
    /\ proc' = [proc EXCEPT ![h] = "ready"]
    /\ started' = [started EXCEPT ![data[h]] = @ \cup {h}]
    /\ UNCHANGED <<conf, enabled, data, stale, members>>

Crash(h) ==
    /\ proc[h] # "down"
    /\ proc' = [proc EXCEPT ![h] = "down"]
    /\ UNCHANGED <<conf, enabled, data, stale, members, started>>

(* `etcdctl member add`: the host gets a new member ID, so a data          *)
(* directory it still has from an earlier membership becomes stale.        *)
AddMember(c, h) ==
    /\ HasQuorum(c)
    /\ h \notin members[c]
    /\ StrictAdd(c)
    /\ members' = [members EXCEPT ![c] = @ \cup {h}]

(* `etcdctl member remove`: the removed server shuts itself down.          *)
RemoveMember(c, h) ==
    /\ HasQuorum(c)
    /\ h \in members[c]
    /\ StrictRemove(c, h)
    /\ members' = [members EXCEPT ![c] = @ \ {h}]
    /\ started' = [started EXCEPT ![c] = @ \ {h}]
    /\ stale' = IF data[h] = c THEN stale \cup {h} ELSE stale
    /\ proc' = IF data[h] = c THEN [proc EXCEPT ![h] = "down"] ELSE proc

(* An established, healthy cluster on the hosts S, as a completed run      *)
(* leaves it.                                                              *)
EstablishedInit(S) ==
    /\ conf = [h \in Hosts |->
                 IF h \in S THEN [state |-> "existing", initial |-> S] ELSE NoConf]
    /\ enabled = S
    /\ proc = [h \in Hosts |-> IF h \in S THEN "ready" ELSE "down"]
    /\ data = [h \in Hosts |-> IF h \in S THEN S ELSE NoData]
    /\ stale = {}
    /\ members = [c \in Clusters |-> c]
    /\ started = [c \in Clusters |-> IF c = S THEN S ELSE {}]
=============================================================================
