------------------------------ MODULE EtcdRole ------------------------------
(***************************************************************************)
(* The etcd role of the kubespray playbooks cluster.yml and                *)
(* upgrade-cluster.yml (roles/etcd/tasks/main.yml, configure.yml,          *)
(* join_etcd_member.yml, refresh_config.yml and the handlers), run again   *)
(* and again by an operator who adds hosts to the etcd group in between.   *)
(*                                                                         *)
(* Ansible runs a task on all hosts of the play before the next task, so   *)
(* one action is one task on all its hosts; between any two actions the    *)
(* servers move on their own (Launch, Publish, Crash of EtcdServer).  A    *)
(* failed task ends the play for every host (any_errors_fatal) and loses   *)
(* the registered facts and the notified handlers; Interrupt is a lost     *)
(* connection or a cancelled run, which does the same at any task.         *)
(***************************************************************************)
EXTENDS EtcdServer

CONSTANTS
    Foundings,      \* the hosts an established cluster may have, {} for none
    Matches,        \* Matches[h]: hosts whose address contains h's address
    HostTypes,      \* the values that hostType may have
    IgnoreAsserts,  \* ignore_assert_errors
    Interrupts,     \* runs may be cut off
    Careful,        \* the operator's care and luck: see CarefulStart
    MaxAdd,         \* bound: hosts added to the inventory at a time
    MaxRuns,        \* bound: runs of a playbook
    MaxCrashes      \* bound: crashes of a server

ASSUME RoleAssumption ==
    /\ Foundings \subseteq SUBSET Hosts
    /\ Matches \in [Hosts -> SUBSET Hosts]
    /\ \A h \in Hosts : h \in Matches[h]
    /\ HostTypes \subseteq BOOLEAN
    /\ {IgnoreAsserts, Interrupts, Careful} \subseteq BOOLEAN
    /\ {MaxAdd, MaxRuns, MaxCrashes} \subseteq Nat

VARIABLES
    hostType,   \* etcd_deployment_type = host: systemd waits for READY
    inv,        \* groups['etcd']
    pc,         \* the task the run is at
    healthy,    \* etcd_cluster_is_healthy.rc == 0
    inCluster,  \* hosts with etcd_member_in_cluster.rc == 0
    todo,       \* hosts whose first start is awaited, or that have yet to join
    notified,   \* hosts on which "restart etcd" is notified
    runs,       \* runs so far
    crashes,    \* crashes so far
    cutOff      \* some run has been cut off

factVars == <<healthy, inCluster, todo, notified>>
history == <<runs, crashes, cutOff>>
roleVars == <<hostType, inv, pc, factVars, history>>
vars == <<serverVars, roleVars>>

Tasks == {"health", "config", "enable", "start", "wait", "check", "add",
          "addconfig", "verify", "joinstart", "refresh", "reload", "up"}

RoleTypeOK ==
    /\ hostType \in HostTypes
    /\ inv \subseteq Hosts
    /\ pc \in Tasks \cup {"idle", "done"}
    /\ healthy \in BOOLEAN
    /\ inCluster \subseteq Hosts
    /\ todo \subseteq Hosts
    /\ notified \subseteq Hosts
    /\ runs \in 0 .. MaxRuns
    /\ crashes \in 0 .. MaxCrashes
    /\ cutOff \in BOOLEAN
    /\ pc \in {"add", "addconfig", "verify", "joinstart"} => todo # {}

RoleInit ==
    /\ hostType \in HostTypes
    /\ inv \in Foundings
    /\ EstablishedInit(inv)
    /\ pc = "idle"
    /\ healthy = FALSE
    /\ inCluster = {}
    /\ todo = {}
    /\ notified = {}
    /\ runs = 0
    /\ crashes = 0
    /\ cutOff = FALSE

-----------------------------------------------------------------------------
First(S) == CHOOSE h \in S : \A x \in S : h <= x

(* `etcdctl member list | grep <address of h>` on cluster c.               *)
Listed(c, h) == Matches[h] \cap members[c] # {}

Idle == pc \in {"idle", "done"}

(* Hosts of the group whose server has never been launched.               *)
Pending == {h \in inv : data[h] = NoData}

(* With Careful, the operator lists new hosts, and starts a run that has   *)
(* hosts to bring in, only while the cluster is healthy or before it has   *)
(* ever served, and no server fails while a host is pending.               *)
Unfounded == \A c \in Clusters : started[c] = {}
CarefulStart == (\E c \in Clusters : Healthy(c)) \/ Unfounded

(* No server has anything left to do: a task that waits with retries gives *)
(* up only then.                                                           *)
CanLaunch(h) == h \in enabled /\ proc[h] = "down" /\ Boot(h) # {}
CanPublish(h) == proc[h] = "starting" /\ HasQuorum(data[h])
Settled == \A h \in Hosts : ~CanLaunch(h) /\ ~CanPublish(h)

ForgetFacts == healthy' = FALSE /\ inCluster' = {} /\ todo' = {} /\ notified' = {}

Goto(t) == pc' = t /\ UNCHANGED <<hostType, inv, history>>

Abort == Goto("idle") /\ ForgetFacts /\ UNCHANGED serverVars

(* Wrong forms, each one edit away from the definition that follows it:    *)
(* TLC must find a property violated when it takes that definition's place.*)
ConfStateInverted == IF healthy THEN "new" ELSE "existing"

(* refresh_config.yml on the hosts S: the state is existing if the last    *)
(* health check succeeded, and a changed file notifies the restart.        *)
ConfState == IF healthy THEN "existing" ELSE "new"

WriteConf(S, peers) ==
    LET new == [state |-> ConfState, initial |-> peers]
    IN  /\ conf' = [h \in Hosts |-> IF h \in S THEN new ELSE conf[h]]
        /\ notified' = notified \cup {h \in S : conf[h] # new}
        /\ UNCHANGED <<enabled, proc, data, stale, members, started>>

-----------------------------------------------------------------------------
(* The operator.                                                           *)

AddHosts(S) ==
    /\ Idle
    /\ S # {} /\ S \cap inv = {} /\ Cardinality(S) <= MaxAdd
    /\ runs < MaxRuns
    /\ Careful => inv = {} \/ (CarefulStart /\ ~Unfounded)
    /\ inv' = inv \cup S
    /\ pc' = "idle"
    /\ UNCHANGED <<serverVars, hostType, factVars, history>>

StartRun ==
    /\ Idle
    /\ inv # {}
    /\ Careful /\ Pending # {} => CarefulStart
    /\ IgnoreAsserts \/ Cardinality(inv) % 2 = 1
    /\ runs < MaxRuns
    /\ runs' = runs + 1
    /\ pc' = "health"
    /\ UNCHANGED <<serverVars, hostType, inv, factVars, crashes, cutOff>>

Interrupt ==
    /\ Interrupts
    /\ ~Idle
    /\ pc' = "idle"
    /\ cutOff' = TRUE
    /\ ForgetFacts
    /\ UNCHANGED <<serverVars, hostType, inv, runs, crashes>>

-----------------------------------------------------------------------------
(* roles/etcd/tasks/configure.yml                                          *)

CheckHealth ==
    /\ pc = "health"
    /\ \/ healthy' = TRUE /\ \E c \in Reachable(inv) : Healthy(c)
       \/ healthy' = FALSE /\ (Reachable(inv) = {} \/ \E c \in Reachable(inv) : ~Healthy(c))
    /\ Goto("config")
    /\ UNCHANGED <<serverVars, inCluster, todo, notified>>

WriteConfig ==
    /\ pc = "config"
    /\ WriteConf(inv, inv)
    /\ Goto("enable")
    /\ UNCHANGED <<healthy, inCluster, todo>>

(* `state: started` asks systemd for a start only if the unit is neither   *)
(* active nor activating.  One that has been started before is always one  *)
(* of them, waiting to be restarted if its server fails (Restart=always).  *)
(* The start of the docker unit is done once its wrapper runs, that of the *)
(* host unit (Type=notify) once the server is ready.                       *)
EnsureRunning ==
    /\ pc = "enable"
    /\ todo' = IF hostType THEN inv \ enabled ELSE {}
    /\ enabled' = enabled \cup inv
    /\ Goto("start")
    /\ UNCHANGED <<conf, proc, data, stale, members, started, healthy, inCluster, notified>>

(* A start has succeeded if the server has been ready, whatever became of  *)
(* it; it fails if the server exits or is not ready in time.  The error is *)
(* ignored when the cluster was healthy.                                   *)
StartSucceeded(h) == h \in started[data[h]]
StartFailed(h) == ~StartSucceeded(h) /\ (Settled \/ (proc[h] = "down" /\ Boot(h) = {}))

StartReturns ==
    /\ pc = "start"
    /\ \A h \in todo : StartSucceeded(h) \/ (healthy /\ StartFailed(h))
    /\ todo' = {}
    /\ Goto("wait")
    /\ UNCHANGED <<serverVars, healthy, inCluster, notified>>

StartFails ==
    /\ pc = "start"
    /\ ~healthy
    /\ \E h \in todo : StartFailed(h)
    /\ Abort

WaitHealthyUnregistered ==
    /\ pc = "wait"
    /\ \E c \in Reachable(inv) : Healthy(c)
    /\ Goto("check")
    /\ UNCHANGED <<serverVars, factVars>>

WaitHealthy ==
    /\ pc = "wait"
    /\ \E c \in Reachable(inv) : Healthy(c)
    /\ healthy' = TRUE
    /\ Goto("check")
    /\ UNCHANGED <<serverVars, inCluster, todo, notified>>

WaitFails ==
    /\ pc = "wait"
    /\ Settled
    /\ \A c \in Reachable(inv) : ~Healthy(c)
    /\ Abort

ToJoinWhenUnhealthy(found) == IF ~healthy THEN inv \ found ELSE {}

(* The hosts for which the loop over join_etcd_member.yml runs.            *)
ToJoin(found) == IF healthy THEN inv \ found ELSE {}

(* Each host asks whichever endpoint answers it.  The loop over            *)
(* join_etcd_member.yml evaluates its conditions for all hosts here,       *)
(* before the first of them joins.                                         *)
CheckMembers ==
    /\ pc = "check"
    /\ inCluster' \in {S \in SUBSET inv :
           /\ \A h \in S : \E c \in Reachable(inv) : Listed(c, h)
           /\ \A h \in inv \ S : \/ Reachable(inv) = {}
                                 \/ \E c \in Reachable(inv) : ~Listed(c, h)}
    /\ todo' = ToJoin(inCluster')
    /\ Goto(IF todo' = {} THEN "refresh" ELSE "add")
    /\ UNCHANGED <<serverVars, healthy, notified>>

-----------------------------------------------------------------------------
(* roles/etcd/tasks/join_etcd_member.yml, for the first host left.         *)

AddSucceeds(c, h) ==
    \/ AddMember(c, h) /\ UNCHANGED <<conf, enabled, proc, data, stale, started>>
    \/ h \in members[c] /\ HasQuorum(c) /\ StrictAdd(c) /\ UNCHANGED serverVars
       \* "Peer URLs already exists"

JoinAdd ==
    /\ pc = "add"
    /\ \E c \in Reachable(inv) : AddSucceeds(c, First(todo))
    /\ Goto("addconfig")
    /\ UNCHANGED factVars

JoinAddFails ==
    /\ pc = "add"
    /\ Settled
    /\ \A c \in Reachable(inv) : ~(HasQuorum(c) /\ StrictAdd(c))
    /\ Abort

JoinConfigDefaultPeers ==
    /\ pc = "addconfig"
    /\ WriteConf({First(todo)}, inv)
    /\ Goto("verify")
    /\ UNCHANGED <<healthy, inCluster, todo>>

JoinConfig ==
    /\ pc = "addconfig"
    /\ WriteConf({First(todo)}, (inCluster \cap inv) \cup {First(todo)})
    /\ Goto("verify")
    /\ UNCHANGED <<healthy, inCluster, todo>>

JoinVerifyUnregistered ==
    /\ pc = "verify"
    /\ \E c \in Reachable(inv) : Listed(c, First(todo))
    /\ Goto("joinstart")
    /\ UNCHANGED <<serverVars, factVars>>

JoinVerify ==
    /\ pc = "verify"
    /\ \E c \in Reachable(inv) : Listed(c, First(todo))
    /\ inCluster' = inCluster \cup {First(todo)}
    /\ Goto("joinstart")
    /\ UNCHANGED <<serverVars, healthy, todo, notified>>

JoinVerifyFails ==
    /\ pc = "verify"
    /\ Reachable(inv) = {} \/ \E c \in Reachable(inv) : ~Listed(c, First(todo))
    /\ Abort

(* The unit has been enabled by EnsureRunning, so that this start task     *)
(* returns at once, also while the server exits and is restarted.          *)
JoinStart ==
    /\ pc = "joinstart"
    /\ todo' = todo \ {First(todo)}
    /\ Goto(IF todo' = {} THEN "refresh" ELSE "add")
    /\ UNCHANGED <<serverVars, healthy, inCluster, notified>>

-----------------------------------------------------------------------------
(* The end of roles/etcd/tasks/main.yml and the handlers.                  *)

RefreshConfig ==
    /\ pc = "refresh"
    /\ WriteConf(inv, inv)
    /\ Goto("reload")
    /\ UNCHANGED <<healthy, inCluster, todo>>

(* "reload etcd" restarts every notified server in the same task.          *)
Reload ==
    /\ pc = "reload"
    /\ proc' = [h \in Hosts |-> IF h \in notified THEN "down" ELSE proc[h]]
    /\ Goto("up")
    /\ UNCHANGED <<conf, enabled, data, stale, members, started, factVars>>

WaitUp ==
    /\ pc = "up"
    /\ \A h \in notified : Ready(h)
    /\ Goto("done")
    /\ ForgetFacts
    /\ UNCHANGED serverVars

WaitUpFails ==
    /\ pc = "up"
    /\ Settled
    /\ \E h \in notified : ~Ready(h)
    /\ Abort

Play ==
    \/ CheckHealth \/ WriteConfig \/ EnsureRunning \/ StartReturns \/ StartFails
    \/ WaitHealthy \/ WaitFails \/ CheckMembers
    \/ JoinAdd \/ JoinAddFails \/ JoinConfig \/ JoinVerify \/ JoinVerifyFails \/ JoinStart
    \/ RefreshConfig \/ Reload \/ WaitUp \/ WaitUpFails

ServerStep ==
    /\ \E h \in Hosts : Launch(h) \/ Publish(h)
    /\ UNCHANGED roleVars

CrashStep ==
    /\ crashes < MaxCrashes
    /\ Careful => Pending = {}
    /\ \E h \in Hosts : Crash(h)
    /\ crashes' = crashes + 1
    /\ UNCHANGED <<hostType, inv, pc, factVars, runs, cutOff>>

Next ==
    \/ \E S \in SUBSET Hosts : AddHosts(S)
    \/ StartRun
    \/ Interrupt
    \/ Play
    \/ ServerStep
    \/ CrashStep

Init == RoleInit

Spec == Init /\ [][Next]_vars

(* Tasks run one after the other until the play ends, systemd keeps        *)
(* restarting a server (Restart=always), and a server with a quorum elects *)
(* a leader; nobody has to start a run, and nothing has to fail.           *)
FairSpec == /\ Spec
            /\ WF_vars(Play)
            /\ \A h \in Hosts : WF_vars(UNCHANGED roleVars /\ (Launch(h) \/ Publish(h)))

-----------------------------------------------------------------------------
(* Properties.                                                             *)

(* Every variable has its type.                                            *)
TypeOK == ServerTypeOK /\ RoleTypeOK

(* All data directories belong to one cluster: no run of the role makes a  *)
(* host bootstrap a second cluster beside the one that is running          *)
(* (etcd.env.j2:5 chooses between new and existing).                       *)
OneCluster ==
    \A g, h \in Hosts : data[g] # NoData /\ data[h] # NoData => data[g] = data[h]

(* Once a cluster has served, no other cluster ever does: the API servers, *)
(* which are given every host of the group as an endpoint, never find an   *)
(* empty database instead of theirs (configure.yml:64-71 relies on a new   *)
(* server failing to start while the cluster is being scaled).             *)
OneServingCluster ==
    \A c, d \in Clusters : started[c] # {} /\ started[d] # {} => c = d

(* When a joining server that has no data yet is started, the peers in its *)
(* environment file are exactly the member list of the cluster that has    *)
(* just been enlarged, so etcd accepts it (join_etcd_member.yml:16-26      *)
(* computes the list from facts that each host registered earlier in the   *)
(* play).                                                                  *)
JoinConfigAgrees ==
    pc = "joinstart" /\ data[First(todo)] = NoData =>
        \A c \in Reachable(inv) : members[c] \subseteq inv => conf[First(todo)].initial = members[c]

(* A run that ends without an error leaves every host of the group in the  *)
(* member list of one cluster that has served (main.yml:62, "After etcd    *)
(* cluster is assembled").                                                 *)
DoneMeansMember ==
    pc = "done" => \E c \in Clusters : started[c] # {} /\ inv \subseteq members[c]

(* A run that ends without an error leaves every environment file in state *)
(* existing and with the whole group as peers (main.yml:62-64), whatever   *)
(* the first health check of that run said.                                *)
DoneMeansExisting ==
    pc = "done" => \A h \in inv : conf[h] = [state |-> "existing", initial |-> inv]

(* A run that is not disturbed, by itself being cut off or a server        *)
(* crashing, now or before, brings every host of the group into the        *)
(* cluster: each is eventually a started member.                           *)
Disturbed == cutOff \/ crashes > 0

JoinCompletes ==
    pc = "health" ~> \/ Disturbed
                     \/ \E c \in Clusters : inv \subseteq started[c] \cap members[c]
=============================================================================
