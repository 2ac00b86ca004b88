--------------------------- MODULE RollingUpgrade ---------------------------
(***************************************************************************)
(* The node plays of upgrade-cluster.yml: control-plane hosts one by one,  *)
(* then workers in batches; each batch is checked, cordoned, drained,      *)
(* upgraded and uncordoned (roles/upgrade/pre-upgrade, container-engine,   *)
(* kubernetes/node, kubernetes/control-plane, roles/upgrade/post-upgrade). *)
(* Meanwhile the scheduler places pods and an administrator cordons nodes  *)
(* for reasons of their own.                                               *)
(*                                                                         *)
(* One action is one task (or role) on the hosts of the batch.  A host on  *)
(* which a task fails ends the play for all of them (any_errors_fatal),    *)
(* except that hosts in the draining block run its rescue tasks first.     *)
(* The operator may run the playbook again, which starts from the facts of *)
(* the cluster, not from where the last run stopped.                       *)
(***************************************************************************)
EXTENDS Naturals, FiniteSets

CONSTANTS
    Masters,        \* kube_control_plane, in inventory order
    Workers,        \* kube_node without the control plane
    Serial,         \* serial: the size of a batch of workers
    MayFail,        \* the tasks that may fail
    Immutable,      \* kubeadm may fail with "field is immutable"
    Renamed,        \* hosts with a kube_override_hostname of their own
    Meddles,        \* the administrator does not wait for runs to end
    MaxRuns         \* bound: runs of the playbook

Nodes == Masters \cup Workers
Plays == {"masters", "workers"}
Tasks == {"ready", "schedulable", "cordon", "drain", "rescue", "node", "control", "uncordon"}

ASSUME UpgradeAssumption ==
    /\ Masters \subseteq Nat /\ Workers \subseteq Nat
    /\ IsFiniteSet(Masters) /\ IsFiniteSet(Workers)
    /\ Masters # {} /\ Masters \cap Workers = {}
    /\ Serial \in Nat \ {0}
    /\ MayFail \subseteq Tasks
    /\ Renamed \subseteq Nodes
    /\ {Immutable, Meddles} \subseteq BOOLEAN
    /\ MaxRuns \in Nat

VARIABLES
    kubelet,        \* kubelet[n]: version of engine and kubelet of node n
    apiserver,      \* apiserver[m]: version of the control plane on m
    unschedulable,  \* nodes with spec.unschedulable
    pods,           \* nodes that run pods a drain would evict
    admin,          \* nodes the administrator has cordoned
    pc,             \* the task the run is at
    play,           \* the play the run is at
    batch,          \* its current batch
    rest,           \* its hosts that no batch has taken yet
    needs,          \* hosts with needs_cordoning
    rescued,        \* hosts whose draining block failed
    runs,           \* runs so far
    failed          \* some run has failed or has been cut off

clusterVars == <<kubelet, apiserver, unschedulable, pods, admin>>
placeVars == <<play, batch, rest>>
factVars == <<needs, rescued>>
vars == <<clusterVars, pc, placeVars, factVars, runs, failed>>

Version == {"old", "new"}

TypeOK ==
    /\ kubelet \in [Nodes -> Version]
    /\ apiserver \in [Masters -> Version]
    /\ unschedulable \subseteq Nodes
    /\ pods \subseteq Nodes
    /\ admin \subseteq Nodes
    /\ pc \in Tasks \cup {"idle", "done"}
    /\ play \in Plays
    /\ batch \cup rest \subseteq IF play = "masters" THEN Masters ELSE Workers
    /\ needs \subseteq batch
    /\ rescued \subseteq needs
    /\ pc = "control" => play = "masters"
    /\ runs \in 0 .. MaxRuns
    /\ failed \in BOOLEAN

Init ==
    /\ kubelet = [n \in Nodes |-> "old"]
    /\ apiserver = [m \in Masters |-> "old"]
    /\ unschedulable = {} /\ admin = {}
    /\ pods \in SUBSET Nodes
    /\ pc = "idle"
    /\ play = "masters" /\ batch = {} /\ rest = {}
    /\ needs = {} /\ rescued = {}
    /\ runs = 0 /\ failed = FALSE

-----------------------------------------------------------------------------
(* The first k hosts of S in inventory order.                              *)
Before(h, S) == {x \in S : x < h}
Slice(k, S) == {h \in S : Cardinality(Before(h, S)) < k}

Idle == pc \in {"idle", "done"}

Goto(t) == pc' = t /\ UNCHANGED <<placeVars, runs, failed>>

(* The facts of a run are lost with it.                                    *)
Leave(end) ==
    /\ pc' = end
    /\ play' = "masters" /\ batch' = {} /\ rest' = {}
    /\ needs' = {} /\ rescued' = {}

EndRun == Leave("idle") /\ failed' = TRUE /\ UNCHANGED runs

(* A task fails on some hosts, possibly none.                              *)
Failures(task, S) == {F \in SUBSET S : F = {} \/ task \in MayFail}

Play(p, hosts, size) ==
    /\ play' = p
    /\ batch' = Slice(size, hosts)
    /\ rest' = hosts \ batch'
    /\ needs' = {} /\ rescued' = {}

StartRun ==
    /\ Idle
    /\ runs < MaxRuns
    /\ runs' = runs + 1
    /\ Play("masters", Masters, 1)
    /\ pc' = "ready"
    /\ UNCHANGED <<clusterVars, failed>>

Interrupt ==
    /\ ~Idle
    /\ EndRun
    /\ UNCHANGED clusterVars

-----------------------------------------------------------------------------
(* roles/upgrade/pre-upgrade/tasks/main.yml                                *)

(* The Ready condition of a node comes and goes; a query that fails is not *)
(* an error, and its empty output reads as a node that is not ready.       *)
CheckReady ==
    /\ pc = "ready"
    /\ needs' \in SUBSET batch
    /\ Goto("schedulable")
    /\ UNCHANGED <<clusterVars, rescued>>

(* Mutant: whether the node is cordoned already does not matter.           *)
CheckSchedulableIgnored ==
    pc = "schedulable" /\ Goto("cordon") /\ UNCHANGED <<clusterVars, needs, rescued>>

(* Here the empty output of a query that fails reads as a schedulable node.*)
CheckSchedulable ==
    /\ pc = "schedulable"
    /\ \E F \in Failures("schedulable", needs) :
          needs' = needs \ (unschedulable \ F)
    /\ Goto("cordon")
    /\ UNCHANGED <<clusterVars, rescued>>

Cordon ==
    /\ pc = "cordon"
    /\ \E F \in Failures("cordon", needs) :
          /\ unschedulable' = unschedulable \cup (needs \ F)
          /\ rescued' = F
          /\ Goto(IF F = {} THEN "drain" ELSE "rescue")
    /\ UNCHANGED <<kubelet, apiserver, pods, admin, needs>>

(* Mutant: no `until`, so that a failed drain goes unnoticed.              *)
DrainUnchecked ==
    /\ pc = "drain"
    /\ \E F \in Failures("drain", needs) :
          \E kept \in SUBSET F : pods' = pods \ (needs \ kept)
    /\ Goto("node")
    /\ UNCHANGED <<kubelet, apiserver, unschedulable, admin, needs, rescued>>

(* The drain is retried before it counts as failed; one that fails may     *)
(* have evicted everything or nothing.                                     *)
Drain ==
    /\ pc = "drain"
    /\ \E F \in Failures("drain", needs) :
          /\ \E kept \in SUBSET F : pods' = pods \ (needs \ kept)
          /\ rescued' = F
          /\ Goto(IF F = {} THEN "node" ELSE "rescue")
    /\ UNCHANGED <<kubelet, apiserver, unschedulable, admin, needs>>

(* The rescue uncordons by inventory name, which the API server does not   *)
(* know for a renamed host, and fails the host either way.  The other      *)
(* hosts of the batch are failed by any_errors_fatal.                      *)
Rescue ==
    /\ pc = "rescue"
    /\ \E F \in Failures("rescue", rescued) :
          unschedulable' = unschedulable \ (rescued \ (F \cup Renamed))
    /\ EndRun
    /\ UNCHANGED <<kubelet, apiserver, pods, admin>>

-----------------------------------------------------------------------------
(* The roles that upgrade the batch.                                       *)

(* Mutant: the control-plane role runs on every host of the cluster.       *)
UpgradeNodeAsMaster ==
    /\ pc = "node"
    /\ kubelet' = [n \in Nodes |-> IF n \in batch THEN "new" ELSE kubelet[n]]
    /\ Goto("control")
    /\ UNCHANGED <<apiserver, unschedulable, pods, admin, factVars>>

(* Mutant: without any_errors_fatal, the play goes on behind a failure.    *)
UpgradeNodeNotFatal ==
    /\ pc = "node"
    /\ \E F \in Failures("node", batch) :
          kubelet' = [n \in Nodes |-> IF n \in batch \ F THEN "new" ELSE kubelet[n]]
    /\ Goto(IF play = "masters" THEN "control" ELSE "uncordon")
    /\ UNCHANGED <<apiserver, unschedulable, pods, admin, factVars>>

(* container-engine and kubernetes/node restart engine and kubelet.        *)
UpgradeNode ==
    /\ pc = "node"
    /\ \E F \in Failures("node", batch) :
          /\ \E S \in SUBSET F :
                kubelet' = [n \in Nodes |-> IF n \in batch \ S THEN "new" ELSE kubelet[n]]
          /\ \/ F # {} /\ EndRun
             \/ F = {} /\ Goto(IF play = "masters" THEN "control" ELSE "uncordon")
                       /\ UNCHANGED factVars
    /\ UNCHANGED <<apiserver, unschedulable, pods, admin>>

(* `kubeadm upgrade apply` on the one master of the batch.  If its output  *)
(* has "field is immutable", its failure is not one of the task: the play  *)
(* goes on, however far kubeadm came.                                      *)
Tolerated(S) == {T \in SUBSET S : T = {} \/ Immutable}

UpgradeControlPlane ==
    /\ pc = "control"
    /\ \E F \in Failures("control", batch), T \in Tolerated(batch) :
          /\ \E S \in SUBSET (F \cup T) :
                apiserver' = [m \in Masters |-> IF m \in batch \ S THEN "new" ELSE apiserver[m]]
          /\ \/ F # {} /\ EndRun
             \/ F = {} /\ Goto("uncordon") /\ UNCHANGED factVars
    /\ UNCHANGED <<kubelet, unschedulable, pods, admin>>

(* Mutant: hosts that no batch has taken are forgotten with their play.    *)
NextBatchForgotten ==
    \/ /\ play = "masters" /\ Workers # {}
       /\ Play("workers", Workers, Serial)
       /\ pc' = "ready"
    \/ /\ play = "workers" \/ Workers = {}
       /\ Leave("done")

(* roles/upgrade/post-upgrade/tasks/main.yml, and what serial takes next.  *)
NextBatch ==
    \/ /\ rest # {}
       /\ Play(play, rest, IF play = "masters" THEN 1 ELSE Serial)
       /\ pc' = "ready"
    \/ /\ rest = {} /\ play = "masters" /\ Workers # {}
       /\ Play("workers", Workers, Serial)
       /\ pc' = "ready"
    \/ /\ rest = {} /\ (play = "workers" \/ Workers = {})
       /\ Leave("done")

(* Mutant: the fact that a node needs cordoning is lost behind the drain.  *)
UncordonSkipped ==
    /\ pc = "uncordon"
    /\ NextBatch
    /\ UNCHANGED <<clusterVars, runs, failed>>

Uncordon ==
    /\ pc = "uncordon"
    /\ \E F \in Failures("uncordon", needs) :
          /\ unschedulable' = unschedulable \ (needs \ F)
          /\ \/ F # {} /\ EndRun
             \/ F = {} /\ NextBatch /\ UNCHANGED <<runs, failed>>
    /\ UNCHANGED <<kubelet, apiserver, pods, admin>>

Run == \/ CheckReady \/ CheckSchedulable
       \/ Cordon \/ Drain \/ Rescue
       \/ UpgradeNode \/ UpgradeControlPlane \/ Uncordon

-----------------------------------------------------------------------------
(* The cluster and its administrator.                                      *)

Schedule(n) ==
    /\ n \notin unschedulable \cup pods
    /\ pods' = pods \cup {n}
    /\ UNCHANGED <<kubelet, apiserver, unschedulable, admin>>

AdminCordon(n) ==
    /\ Idle \/ Meddles
    /\ unschedulable' = unschedulable \cup {n}
    /\ admin' = admin \cup {n}
    /\ UNCHANGED <<kubelet, apiserver, pods>>

AdminUncordon(n) ==
    /\ Idle \/ Meddles
    /\ n \in admin
    /\ unschedulable' = unschedulable \ {n}
    /\ admin' = admin \ {n}
    /\ UNCHANGED <<kubelet, apiserver, pods>>

Environment ==
    /\ \E n \in Nodes : Schedule(n) \/ AdminCordon(n) \/ AdminUncordon(n)
    /\ UNCHANGED <<pc, placeVars, factVars, runs, failed>>

Next == StartRun \/ Interrupt \/ Run \/ Environment

Spec == Init /\ [][Next]_vars

(* The tasks of a run follow each other; nobody has to start one.          *)
FairSpec == Spec /\ WF_vars(Run)

-----------------------------------------------------------------------------
(* Properties.                                                             *)

(* No worker runs the new version before every API server does, also when  *)
(* runs fail and are repeated: "Handle upgrades to master components first *)
(* to maintain backwards compat" (upgrade-cluster.yml:88).                 *)
MastersFirst ==
    (\E w \in Workers : kubelet[w] = "new") => \A m \in Masters : apiserver[m] = "new"

(* When engine and kubelet of a node are restarted that the run has        *)
(* cordoned, no pod runs there that could have been evicted: the scheduler *)
(* cannot have put one back since the drain.                               *)
DrainedBeforeUpgrade == pc = "node" => pods \cap needs = {}

(* A cordon of the administrator outlives every run: the playbook         *)
(* uncordons only nodes that were schedulable when it came to them         *)
(* (post-upgrade/tasks/main.yml:5, pre-upgrade/tasks/main.yml:42).         *)
AdminCordonKept == admin \subseteq unschedulable

(* The playbook never takes more nodes out of service at a time than the   *)
(* batch it is working on; and if runs fail, each leaves at most its last  *)
(* batch out of service, however its hosts failed and whatever the rescue  *)
(* tasks could do (upgrade-cluster.yml:93, :124,                           *)
(* pre-upgrade/tasks/main.yml:71-95).                                      *)
CapacityKept ==
    /\ Cardinality(unschedulable \ admin) <= runs * Serial
    /\ ~failed => /\ unschedulable \ admin \subseteq batch
                  /\ play = "masters" => Cardinality(batch) <= 1
                  /\ Cardinality(batch) <= Serial \/ play = "masters"

(* A run that ends without an error has upgraded every kubelet and every   *)
(* API server, also those that an earlier run had left in the middle, and, *)
(* unless an earlier run failed, left no node cordoned but the             *)
(* administrator's (upgrade-cluster.yml:88-140).                           *)
DoneMeansUpgraded ==
    pc = "done" =>
        /\ \A n \in Nodes : kubelet[n] = "new"
        /\ \A m \in Masters : apiserver[m] = "new"
        /\ ~failed => unschedulable = admin

(* A run comes to a good end unless one of its tasks fails: with every     *)
(* node on the new version, however nodes come and go and pods are moved.  *)
UpgradeCompletes ==
    pc = "ready" ~> failed \/ (pc = "done" /\ \A n \in Nodes : kubelet[n] = "new")
=============================================================================
