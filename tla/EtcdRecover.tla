---------------------------- MODULE EtcdRecover ----------------------------
(***************************************************************************)
(* recover-control-plane.yml on a cluster some of whose hosts are broken:  *)
(* the role recover_control_plane/etcd, which runs on the first host of    *)
(* the group and either strikes the broken members or, when it finds the   *)
(* quorum lost, replaces the cluster by a one-member restore of a          *)
(* snapshot, and then the etcd role of cluster.yml (EtcdRole), which       *)
(* joins the other hosts.  The operator moves the broken hosts to the      *)
(* group broken_etcd and lists replacements below the survivors            *)
(* (docs/recover-control-plane.md), and may run the playbook again.        *)
(***************************************************************************)
EXTENDS EtcdRole

VARIABLES
    broken,     \* groups['broken_etcd']
    hasQuorum,  \* the has_quorum fact
    left,       \* broken members the removal loop has left
    snapshot,   \* /tmp/snapshot.db: the cluster it was taken of, {} for none
    lineage     \* the clusters that carry the established cluster's database

recoverVars == <<broken, hasQuorum, left, snapshot>>
allVars == <<vars, recoverVars, lineage>>

RestoreTasks == {"save", "stop", "wipe", "restore", "unsave", "reconfigure", "restart"}
RecoverTasks == RestoreTasks \cup {"assess", "clean", "list", "strike"}

RecoverInit ==
    /\ RoleInit
    /\ broken = {} /\ left = {}
    /\ hasQuorum = FALSE
    /\ snapshot = NoData
    /\ lineage = {inv}

-----------------------------------------------------------------------------
Me == First(inv)        \* the play's only host, groups['etcd'][0]

Then(t) == Goto(t) /\ UNCHANGED factVars

ForgetRecovery == hasQuorum' = FALSE /\ left' = {} /\ UNCHANGED <<broken, snapshot, lineage>>

GiveUp == Abort /\ ForgetRecovery

(* The hosts B break for good, and the operator puts replacements S below  *)
(* the survivors.  A careful operator lists no more of them than have      *)
(* broken.  The assertions of cluster.yml (0020-verify-settings.yml:89)    *)
(* accept the group.                                                       *)
Break(B, S) ==
    /\ pc = "idle" /\ broken = {}
    /\ B # {} /\ B \subseteq inv /\ B # inv
    /\ Cardinality(S) <= MaxAdd
    /\ Careful => Cardinality(S) <= Cardinality(B)
    /\ IgnoreAsserts \/ Cardinality((inv \ B) \cup S) % 2 = 1
    /\ S \cap inv = {} /\ \A s \in S, h \in inv : h < s
    /\ broken' = B
    /\ inv' = (inv \ B) \cup S
    /\ enabled' = enabled \ B
    /\ proc' = [h \in Hosts |-> IF h \in B THEN "down" ELSE proc[h]]
    /\ pc' = "idle"
    /\ UNCHANGED <<conf, data, stale, members, started, hostType, factVars, history,
                   hasQuorum, left, snapshot, lineage>>

StartRecover ==
    /\ Idle /\ broken # {}
    /\ runs < MaxRuns
    /\ runs' = runs + 1
    /\ pc' = "assess"
    /\ UNCHANGED <<serverVars, hostType, inv, factVars, crashes, cutOff, recoverVars, lineage>>

-----------------------------------------------------------------------------
(* roles/recover_control_plane/etcd/tasks/main.yml                         *)

(* `etcdctl endpoint health` reads through each host of the group: it is   *)
(* healthy if its cluster can commit.                                      *)
SaysHealthy == {h \in inv : Ready(h) /\ h \notin stale /\ HasQuorum(data[h])}

(* Wrong forms of the definition that follows them, for mutation.          *)
QuorumFactAll == inv \subseteq SaysHealthy
QuorumFactAnswers == \E h \in inv : Ready(h)

(* The fact compares the lines of the output that say "is healthy" with    *)
(* those that say "is unhealthy".                                          *)
QuorumFact == Cardinality(SaysHealthy) >= Cardinality(inv \ SaysHealthy)

Assess ==
    /\ pc = "assess"
    /\ hasQuorum' = QuorumFact
    /\ Then(IF hasQuorum' THEN "clean" ELSE "save")
    /\ UNCHANGED <<serverVars, broken, left, snapshot, lineage>>

(* Deleting the broken hosts' data directories may fail, and may hit       *)
(* nothing.                                                                *)
CleanBroken ==
    /\ pc = "clean"
    /\ \E S \in SUBSET broken :
          data' = [h \in Hosts |-> IF h \in S THEN NoData ELSE data[h]]
    /\ Then("list")
    /\ UNCHANGED <<conf, enabled, proc, stale, members, started, recoverVars, lineage>>

(* A member is matched by its name, which it has once it has started.      *)
ListMembers ==
    /\ pc = "list"
    /\ \E c \in Reachable(inv) : left' = broken \cap members[c] \cap started[c]
    /\ Then("strike")
    /\ UNCHANGED <<serverVars, broken, hasQuorum, snapshot, lineage>>

ListMembersFails ==
    /\ pc = "list"
    /\ Reachable(inv) = {}
    /\ GiveUp

StrikeMember(h) ==
    /\ pc = "strike" /\ h \in left
    /\ \E c \in Reachable(inv) : RemoveMember(c, h)
    /\ left' = left \ {h}
    /\ Then("strike")
    /\ UNCHANGED <<conf, enabled, data, broken, hasQuorum, snapshot, lineage>>

(* The loop goes over all its items before a failed one fails the task.    *)
StrikeFails ==
    /\ pc = "strike" /\ left # {}
    /\ \A h \in left, c \in Reachable(inv) :
          ~(HasQuorum(c) /\ h \in members[c] /\ StrictRemove(c, h))
    /\ GiveUp

-----------------------------------------------------------------------------
(* roles/recover_control_plane/etcd/tasks/recover_lost_quorum.yml          *)

(* A server hands out a snapshot of its own database, with or without a    *)
(* quorum.                                                                 *)
SaveSnapshot ==
    /\ pc = "save" /\ Ready(Me)
    /\ snapshot' = data[Me]
    /\ Then("stop")
    /\ UNCHANGED <<serverVars, broken, hasQuorum, left, lineage>>

SaveSnapshotFailsIgnored ==
    /\ pc = "save" /\ ~Ready(Me)
    /\ Then("stop")
    /\ UNCHANGED <<serverVars, recoverVars, lineage>>

SaveSnapshotFails ==
    /\ pc = "save" /\ ~Ready(Me)
    /\ GiveUp

StopServer ==
    /\ pc = "stop"
    /\ enabled' = enabled \ {Me}
    /\ proc' = [proc EXCEPT ![Me] = "down"]
    /\ Then("wipe")
    /\ UNCHANGED <<conf, data, stale, members, started, recoverVars, lineage>>

RemoveDataDir ==
    /\ pc = "wipe"
    /\ data' = [data EXCEPT ![Me] = NoData]
    /\ stale' = stale \ {Me}
    /\ Then("restore")
    /\ UNCHANGED <<conf, enabled, proc, members, started, recoverVars, lineage>>

(* The restored cluster has one member, a fresh one.  Whoever still has    *)
(* data of a cluster of that name is none of its members.                  *)
RestoreSnapshot ==
    /\ pc = "restore"
    /\ LET c == {Me}
       IN  /\ data' = [data EXCEPT ![Me] = c]
           /\ stale' = stale \cup {h \in Hosts \ {Me} : data[h] = c}
           /\ members' = [members EXCEPT ![c] = c]
           /\ started' = [started EXCEPT ![c] = {}]
           /\ lineage' = IF snapshot \in lineage THEN lineage \cup {c} ELSE lineage \ {c}
    /\ Then("unsave")
    /\ UNCHANGED <<conf, enabled, proc, recoverVars>>

RemoveSnapshot ==
    /\ pc = "unsave"
    /\ snapshot' = NoData
    /\ Then("reconfigure")
    /\ UNCHANGED <<serverVars, broken, hasQuorum, left, lineage>>

Reconfigure ==
    /\ pc = "reconfigure"
    /\ conf' = [conf EXCEPT ![Me].initial = {Me}]
    /\ Then("restart")
    /\ UNCHANGED <<enabled, proc, data, stale, members, started, recoverVars, lineage>>

(* The unit is started, and the play goes on to cluster.yml once the start *)
(* has returned (Type=notify, or the minutes that the roles before etcd    *)
(* take).                                                                  *)
StartServer ==
    /\ pc = "restart" /\ Me \notin enabled
    /\ enabled' = enabled \cup {Me}
    /\ UNCHANGED <<conf, proc, data, stale, members, started, roleVars, recoverVars, lineage>>

(* cluster.yml is included.                                                *)
StartCluster ==
    /\ \/ pc = "restart" /\ Ready(Me)
       \/ pc = "strike" /\ left = {}
    /\ Then("health")
    /\ UNCHANGED <<serverVars, recoverVars, lineage>>

RecoverPlay ==
    \/ Assess \/ CleanBroken \/ ListMembers \/ ListMembersFails
    \/ \E h \in Hosts : StrikeMember(h)
    \/ StrikeFails
    \/ SaveSnapshot \/ SaveSnapshotFails \/ StopServer \/ RemoveDataDir \/ RestoreSnapshot
    \/ RemoveSnapshot \/ Reconfigure \/ StartServer \/ StartCluster

RecoverInterrupt ==
    /\ Interrupt
    /\ ForgetRecovery

RecoverNext ==
    \/ \E B, S \in SUBSET Hosts : Break(B, S)
    \/ StartRecover
    \/ RecoverPlay
    \/ RecoverInterrupt
    \/ Play /\ UNCHANGED <<recoverVars, lineage>>
    \/ (ServerStep \/ CrashStep) /\ UNCHANGED <<recoverVars, lineage>>

RecoverSpec == RecoverInit /\ [][RecoverNext]_allVars

(* As in EtcdRole: the tasks of a started run follow each other, systemd   *)
(* restarts servers, and servers with a quorum become ready.               *)
RecoverFairSpec ==
    /\ RecoverSpec
    /\ WF_allVars(RecoverPlay \/ (Play /\ UNCHANGED <<recoverVars, lineage>>))
    /\ \A h \in Hosts : WF_allVars(/\ Launch(h) \/ Publish(h)
                                  /\ UNCHANGED <<roleVars, recoverVars, lineage>>)

-----------------------------------------------------------------------------
(* Properties.                                                             *)

(* Wherever a run is cut off, and however often it is run again, the       *)
(* database of the established cluster is still on a disk that is not      *)
(* broken: in a data directory or in /tmp/snapshot.db                      *)
(* (recover_lost_quorum.yml deletes both in the course of its work).  It   *)
(* takes a Careful operator's luck: a server that crashes while a          *)
(* replacement waits to be brought in makes cluster.yml write files in     *)
(* state new, and the recovery after the next may then overwrite the only  *)
(* snapshot with one of an empty cluster.                                  *)
DataSurvives ==
    \/ snapshot \in lineage
    \/ \E h \in Hosts \ broken : data[h] \in lineage

(* A majority of the members is up and serves.                             *)
Serves(c) ==
    2 * Cardinality({h \in Live(c) : Ready(h)}) > Cardinality(members[c])

(* A cluster of which one host is left, or a majority.  Where several      *)
(* hosts but no majority are left, the playbook restores the snapshot on   *)
(* the first of them only, and the others keep a cluster that never has a  *)
(* quorum again (recover_lost_quorum.yml:18-30).                           *)
OneSurvives == \A F \in lineage : Cardinality(F \ broken) = 1
MajoritySurvives == \A F \in lineage : 2 * Cardinality(F \ broken) > Cardinality(F)

(* The playbook sets out to replace the cluster by a restored snapshot     *)
(* only when the cluster does not serve any more                           *)
(* (docs/recover-control-plane.md:31, main.yml:24-33): up to the first run *)
(* that is cut off or sees a crash, if one host or a majority is left.     *)
(* While the survivors are the majority, they outvote the replacements;    *)
(* after a run that was cut off, replacements that have not joined yet may *)
(* outvote a cluster that serves.                                          *)
Replaces == pc = "assess" /\ pc' = "save"

ServingKeptFirst ==
    [][Replaces /\ ~Disturbed /\ (OneSurvives \/ MajoritySurvives)
       => \A c \in lineage : started[c] # {} => ~Serves(c)]_allVars

(* A run that ends without an error leaves a cluster with the old          *)
(* database, in which every host of the group and no broken one is a       *)
(* member: for a single survivor whatever was cut off or crashed before,   *)
(* for a majority if nothing did.  It has a quorum, if nothing did.        *)
RecoveredCluster ==
    pc = "done" /\ (OneSurvives \/ (MajoritySurvives /\ ~Disturbed)) => \E c \in lineage :
        /\ inv \subseteq members[c] /\ members[c] \cap broken = {}
        /\ ~Disturbed => HasQuorum(c)

(* A run of the playbook that nothing disturbs, now or before, ends        *)
(* with the control plane's etcd serving on every host of the group        *)
(* ("When finished you should have a fully working control plane again",   *)
(* docs/recover-control-plane.md:27).                                      *)
RecoveryCompletes ==
    pc = "assess" ~> \/ Disturbed
                     \/ \E c \in lineage : Serves(c) /\ inv \subseteq Live(c) \cap started[c]
=============================================================================
