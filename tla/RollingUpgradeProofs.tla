------------------------ MODULE RollingUpgradeProofs ------------------------
(***************************************************************************)
(* Proofs about the rolling upgrade (RollingUpgrade), for every set of     *)
(* masters and workers, every batch size and any number of runs.           *)
(***************************************************************************)
EXTENDS RollingUpgrade, FiniteSetTheorems, WellFoundedInduction, TLAPS

-----------------------------------------------------------------------------
(* Types.                                                                  *)

(* The facts of a batch are empty until the task that registers them.      *)
TypeInv ==
    /\ TypeOK
    /\ pc \in {"ready", "schedulable", "cordon"} => rescued = {}
    /\ Idle => play = "masters" /\ batch = {} /\ rest = {}

(* What a batch and the hosts behind it are taken from.                    *)
Hosted(p) == IF p = "masters" THEN Masters ELSE Workers

LEMMA PlayType ==
  ASSUME NEW p \in Plays, NEW hosts \in SUBSET Hosted(p), NEW size, Play(p, hosts, size)
  PROVE  /\ play' \in Plays
         /\ batch' \cup rest' = hosts /\ batch' \cup rest' \subseteq Hosted(play')
         /\ needs' = {} /\ rescued' = {}
BY DEF Play, Slice, Hosted

LEMMA TypeInit == Init => TypeInv
<1> SUFFICES ASSUME Init PROVE TypeInv
  OBVIOUS
<1>1. 0 \in 0 .. MaxRuns
  BY UpgradeAssumption
<1> QED
  BY <1>1 DEF Init, TypeInv, TypeOK, Idle, Plays, Version, Tasks

(* Every end of a run, and every change of the batch, keeps the types of   *)
(* the place and of the facts.                                             *)
Placed ==
    /\ play \in Plays
    /\ batch \cup rest \subseteq Hosted(play)
    /\ needs \subseteq batch
    /\ rescued \subseteq needs

LEMMA LeaveType ==
  ASSUME NEW end \in {"idle", "done"}, Leave(end)
  PROVE  /\ Placed' /\ Idle' /\ pc' = end
         /\ play' = "masters" /\ batch' = {} /\ rest' = {} /\ rescued' = {}
BY DEF Leave, Placed, Hosted, Plays, Idle

LEMMA NextBatchType ==
  ASSUME TypeInv, NextBatch
  PROVE  /\ Placed' /\ pc' \in {"ready", "done"} /\ rescued' = {}
         /\ pc' = "done" => play' = "masters" /\ batch' = {} /\ rest' = {}
<1>1. CASE rest # {} /\ Play(play, rest, IF play = "masters" THEN 1 ELSE Serial) /\ pc' = "ready"
  BY <1>1, PlayType DEF TypeInv, TypeOK, Hosted, Placed
<1>2. CASE Play("workers", Workers, Serial) /\ pc' = "ready"
  BY <1>2, PlayType DEF Hosted, Plays, Placed
<1>3. CASE Leave("done")
  BY <1>3, LeaveType
<1> QED
  BY <1>1, <1>2, <1>3 DEF NextBatch

(* A run that fails at a task.                                             *)
LEMMA EndRunType ==
  ASSUME TypeInv, EndRun,
         kubelet' \in [Nodes -> Version], apiserver' \in [Masters -> Version],
         unschedulable' \subseteq Nodes, pods' \subseteq Nodes, admin' \subseteq Nodes
  PROVE  TypeInv'
<1>1. /\ Placed' /\ Idle' /\ pc' = "idle"
      /\ play' = "masters" /\ batch' = {} /\ rest' = {} /\ rescued' = {}
  BY LeaveType DEF EndRun
<1>2. runs' \in 0 .. MaxRuns /\ failed' \in BOOLEAN
  BY DEF EndRun, TypeInv, TypeOK
<1> QED
  BY <1>1, <1>2 DEF TypeInv, TypeOK, Placed, Hosted, Tasks

LEMMA TypeStep == TypeInv /\ [Next]_vars => TypeInv'
<1> SUFFICES ASSUME TypeInv, [Next]_vars PROVE TypeInv'
  OBVIOUS
<1>0. TypeOK /\ Placed
  BY DEF TypeInv, TypeOK, Placed, Hosted
<1>1. CASE UNCHANGED vars
  BY <1>1 DEF vars, clusterVars, placeVars, factVars, TypeInv, TypeOK, Idle
<1>2. CASE StartRun
  <2>1. /\ Placed' /\ rescued' = {} /\ pc' = "ready"
    BY <1>2, PlayType DEF StartRun, Hosted, Plays, Placed
  <2>2. runs' \in 0 .. MaxRuns
    <3>1. MaxRuns \in Nat /\ runs \in 0 .. MaxRuns /\ runs < MaxRuns /\ runs' = runs + 1
      BY <1>0, <1>2, UpgradeAssumption DEF StartRun, TypeOK
    <3> QED
      BY <3>1
  <2> QED
    BY <1>0, <1>2, <2>1, <2>2 DEF StartRun, TypeInv, TypeOK, Placed, Hosted, Tasks, clusterVars, Idle
<1>3. CASE Interrupt
  BY <1>0, <1>3, EndRunType DEF Interrupt, clusterVars, TypeOK
<1>4. CASE CheckReady
  BY <1>0, <1>4 DEF CheckReady, Goto, TypeInv, TypeOK, clusterVars, placeVars, Tasks, Idle
<1>5. CASE CheckSchedulable
  BY <1>0, <1>5 DEF CheckSchedulable, Failures, Goto, TypeInv, TypeOK, clusterVars, placeVars, Tasks, Idle
<1>6. CASE Cordon
  <2>1. PICK F \in Failures("cordon", needs) :
            /\ unschedulable' = unschedulable \cup (needs \ F)
            /\ rescued' = F
            /\ Goto(IF F = {} THEN "drain" ELSE "rescue")
    BY <1>6 DEF Cordon
  <2>2. F \subseteq needs /\ needs \subseteq Nodes
    BY <1>0 DEF Failures, TypeOK, Nodes
  <2> QED
    BY <1>0, <1>6, <2>1, <2>2 DEF Cordon, Goto, TypeInv, TypeOK, placeVars, Tasks, Idle
<1>7. CASE Drain
  <2>1. PICK F \in Failures("drain", needs) :
            /\ \E kept \in SUBSET F : pods' = pods \ (needs \ kept)
            /\ rescued' = F
            /\ Goto(IF F = {} THEN "node" ELSE "rescue")
    BY <1>7 DEF Drain
  <2>2. F \subseteq needs
    BY DEF Failures
  <2> QED
    BY <1>0, <1>7, <2>1, <2>2 DEF Drain, Goto, TypeInv, TypeOK, placeVars, Tasks, Idle
<1>8. CASE Rescue
  BY <1>0, <1>8, EndRunType DEF Rescue, TypeOK
<1>9. CASE UpgradeNode
  <2>1. PICK F \in Failures("node", batch) :
            /\ \E S \in SUBSET F :
                  kubelet' = [n \in Nodes |-> IF n \in batch \ S THEN "new" ELSE kubelet[n]]
            /\ \/ F # {} /\ EndRun
               \/ F = {} /\ Goto(IF play = "masters" THEN "control" ELSE "uncordon")
                         /\ UNCHANGED factVars
    BY <1>9 DEF UpgradeNode
  <2>2. kubelet' \in [Nodes -> Version]
    BY <1>0, <2>1 DEF TypeOK, Version
  <2>3. CASE EndRun
    BY <1>0, <1>9, <2>2, <2>3, EndRunType DEF UpgradeNode, TypeOK
  <2>4. CASE Goto(IF play = "masters" THEN "control" ELSE "uncordon") /\ UNCHANGED factVars
    BY <1>0, <1>9, <2>2, <2>4 DEF UpgradeNode, Goto, TypeInv, TypeOK, placeVars, factVars, Tasks, Idle
  <2> QED
    BY <2>1, <2>3, <2>4
<1>10. CASE UpgradeControlPlane
  <2>1. PICK F \in Failures("control", batch), T \in Tolerated(batch) :
            /\ \E S \in SUBSET (F \cup T) :
                  apiserver' = [m \in Masters |-> IF m \in batch \ S THEN "new" ELSE apiserver[m]]
            /\ \/ F # {} /\ EndRun
               \/ F = {} /\ Goto("uncordon") /\ UNCHANGED factVars
    BY <1>10 DEF UpgradeControlPlane
  <2>2. apiserver' \in [Masters -> Version]
    BY <1>0, <2>1 DEF TypeOK, Version
  <2>3. CASE EndRun
    BY <1>0, <1>10, <2>2, <2>3, EndRunType DEF UpgradeControlPlane, TypeOK
  <2>4. CASE Goto("uncordon") /\ UNCHANGED factVars
    BY <1>0, <1>10, <2>2, <2>4 DEF UpgradeControlPlane, Goto, TypeInv, TypeOK, placeVars, factVars, Tasks, Idle
  <2> QED
    BY <2>1, <2>3, <2>4
<1>11. CASE Uncordon
  <2>1. PICK F \in Failures("uncordon", needs) :
            /\ unschedulable' = unschedulable \ (needs \ F)
            /\ \/ F # {} /\ EndRun
               \/ F = {} /\ NextBatch /\ UNCHANGED <<runs, failed>>
    BY <1>11 DEF Uncordon
  <2>2. CASE EndRun
    BY <1>0, <1>11, <2>1, <2>2, EndRunType DEF Uncordon, TypeOK
  <2>3. CASE NextBatch /\ UNCHANGED <<runs, failed>>
    <3>1. /\ Placed' /\ pc' \in {"ready", "done"} /\ rescued' = {}
          /\ pc' = "done" => play' = "masters" /\ batch' = {} /\ rest' = {}
      BY <2>3, NextBatchType
    <3> QED
      BY <1>0, <1>11, <2>1, <2>3, <3>1 DEF Uncordon, TypeInv, TypeOK, Placed, Hosted, Tasks, Idle
  <2> QED
    BY <2>1, <2>2, <2>3
<1>12. CASE Environment
  <2>1. PICK n \in Nodes : Schedule(n) \/ AdminCordon(n) \/ AdminUncordon(n)
    BY <1>12 DEF Environment
  <2>2. /\ kubelet' = kubelet /\ apiserver' = apiserver
        /\ unschedulable' \subseteq Nodes /\ pods' \subseteq Nodes /\ admin' \subseteq Nodes
    BY <1>0, <2>1 DEF Schedule, AdminCordon, AdminUncordon, TypeOK
  <2> QED
    BY <1>0, <1>12, <2>2 DEF Environment, placeVars, factVars, TypeInv, TypeOK, Idle
<1> QED
  BY <1>1, <1>2, <1>3, <1>4, <1>5, <1>6, <1>7, <1>8, <1>9, <1>10, <1>11, <1>12 DEF Next, Run

(* Every reachable state is well typed: the hosts with a fact are hosts of *)
(* the batch, the batch is of the play, and no host's facts outlive it     *)
(* (upgrade-cluster.yml:88-140).                                           *)
THEOREM TypeCorrect == Spec => []TypeOK
<1>1. TypeInv => TypeOK
  BY DEF TypeInv
<1> QED
  BY <1>1, TypeInit, TypeStep, PTL DEF Spec

-----------------------------------------------------------------------------
(* Cordons.  While the administrator waits for runs to end, the nodes in   *)
(* needs are not the administrator's, from the moment the run has asked    *)
(* which nodes are schedulable; and they stay cordoned from the cordon to  *)
(* the uncordon.                                                           *)
Asked == {"cordon", "drain", "rescue", "node", "control", "uncordon"}

CordonInv ==
    /\ AdminCordonKept
    /\ pc \in Asked => needs \cap admin = {}

DrainInv ==
    /\ pc \in {"drain", "node"} => needs \subseteq unschedulable
    /\ DrainedBeforeUpgrade

(* A query that answers does not overlook a cordon.                        *)
QueryAnswers == "schedulable" \notin MayFail

LEMMA CordonStep ==
  ASSUME ~Meddles, QueryAnswers
  PROVE  TypeInv /\ CordonInv /\ [Next]_vars => CordonInv'
<1> SUFFICES ASSUME TypeInv, CordonInv, [Next]_vars PROVE CordonInv'
  OBVIOUS
<1>0. admin \subseteq unschedulable /\ rescued \subseteq needs
  BY DEF TypeInv, TypeOK, CordonInv, AdminCordonKept
<1>1. CASE UNCHANGED vars
  BY <1>1 DEF vars, clusterVars, factVars, CordonInv, AdminCordonKept
<1>2. CASE StartRun
  BY <1>0, <1>2 DEF StartRun, clusterVars, CordonInv, AdminCordonKept, Asked
<1>3. CASE Interrupt
  BY <1>0, <1>3 DEF Interrupt, EndRun, Leave, clusterVars, CordonInv, AdminCordonKept, Asked
<1>4. CASE CheckReady
  BY <1>0, <1>4 DEF CheckReady, Goto, clusterVars, CordonInv, AdminCordonKept, Asked
<1>5. CASE CheckSchedulable
  <2>1. needs' = needs \ unschedulable
    BY <1>5 DEF CheckSchedulable, Failures, QueryAnswers
  <2> QED
    BY <1>0, <1>5, <2>1 DEF CheckSchedulable, Goto, clusterVars, CordonInv, AdminCordonKept, Asked
<1>6. CASE Cordon
  BY <1>0, <1>6 DEF Cordon, Failures, Goto, CordonInv, AdminCordonKept, Asked
<1>7. CASE Drain
  BY <1>0, <1>7 DEF Drain, Failures, Goto, CordonInv, AdminCordonKept, Asked
<1>8. CASE Rescue
  BY <1>0, <1>8 DEF Rescue, EndRun, Leave, CordonInv, AdminCordonKept, Asked
<1>9. CASE UpgradeNode
  BY <1>0, <1>9 DEF UpgradeNode, EndRun, Leave, Goto, factVars, CordonInv, AdminCordonKept, Asked
<1>10. CASE UpgradeControlPlane
  BY <1>0, <1>10 DEF UpgradeControlPlane, EndRun, Leave, Goto, factVars, CordonInv, AdminCordonKept, Asked
<1>11. CASE Uncordon
  <2>1. needs \cap admin = {} /\ admin' = admin
    BY <1>11 DEF Uncordon, CordonInv, Asked
  <2>2. admin' \subseteq unschedulable'
    BY <1>0, <1>11, <2>1 DEF Uncordon
  <2>3. pc' \in {"idle", "done", "ready"}
    BY <1>11 DEF Uncordon, EndRun, NextBatch, Leave
  <2> QED
    BY <2>2, <2>3 DEF CordonInv, AdminCordonKept, Asked
<1>12. CASE Environment
  <2>1. PICK n \in Nodes : Schedule(n) \/ AdminCordon(n) \/ AdminUncordon(n)
    BY <1>12 DEF Environment
  <2>2. CASE Schedule(n)
    BY <1>0, <1>12, <2>2 DEF Environment, Schedule, factVars, CordonInv, AdminCordonKept
  <2>3. CASE AdminCordon(n) \/ AdminUncordon(n)
    <3>1. Idle
      BY <2>3 DEF AdminCordon, AdminUncordon
    <3> QED
      BY <1>0, <1>12, <2>3, <3>1
      DEF Environment, AdminCordon, AdminUncordon, factVars, CordonInv, AdminCordonKept, Idle, Asked
  <2> QED
    BY <2>1, <2>2, <2>3
<1> QED
  BY <1>1, <1>2, <1>3, <1>4, <1>5, <1>6, <1>7, <1>8, <1>9, <1>10, <1>11, <1>12 DEF Next, Run

(* An administrator who waits for runs to end never loses a cordon to the  *)
(* playbook, provided the query of pre-upgrade/tasks/main.yml:36 answers:  *)
(* what is uncordoned at the end (post-upgrade/tasks/main.yml:5) was       *)
(* schedulable before.                                                     *)
THEOREM CordonsKept ==
  ASSUME ~Meddles, QueryAnswers
  PROVE  Spec => []AdminCordonKept
<1>1. Init => CordonInv
  BY DEF Init, CordonInv, AdminCordonKept, Asked
<1>2. TypeInv /\ CordonInv /\ [Next]_vars => CordonInv'
  BY CordonStep
<1>3. CordonInv => AdminCordonKept
  BY DEF CordonInv
<1> QED
  BY <1>1, <1>2, <1>3, TypeInit, TypeStep, PTL DEF Spec

LEMMA DrainStep ==
  ASSUME ~Meddles
  PROVE  DrainInv /\ [Next]_vars => DrainInv'
<1> SUFFICES ASSUME DrainInv, [Next]_vars PROVE DrainInv'
  OBVIOUS
<1>1. CASE UNCHANGED vars
  BY <1>1 DEF vars, clusterVars, factVars, DrainInv, DrainedBeforeUpgrade
<1>2. ASSUME pc' \notin {"drain", "node"} PROVE DrainInv'
  BY <1>2 DEF DrainInv, DrainedBeforeUpgrade
<1>3. CASE Cordon
  <2>1. CASE pc' = "drain"
    BY <1>3, <2>1 DEF Cordon, Goto, DrainInv, DrainedBeforeUpgrade
  <2> QED
    BY <1>2, <1>3, <2>1 DEF Cordon, Goto
<1>4. CASE Drain
  <2>1. CASE pc' = "node"
    BY <1>4, <2>1 DEF Drain, Goto, DrainInv, DrainedBeforeUpgrade
  <2> QED
    BY <1>2, <1>4, <2>1 DEF Drain, Goto
<1>5. CASE Environment
  <2>1. PICK n \in Nodes : Schedule(n) \/ AdminCordon(n) \/ AdminUncordon(n)
    BY <1>5 DEF Environment
  <2>2. CASE Schedule(n)
    BY <1>5, <2>2 DEF Environment, Schedule, factVars, DrainInv, DrainedBeforeUpgrade
  <2>3. CASE AdminCordon(n) \/ AdminUncordon(n)
    BY <1>2, <1>5, <2>3 DEF Environment, AdminCordon, AdminUncordon, Idle
  <2> QED
    BY <2>1, <2>2, <2>3
<1>6. CASE StartRun \/ Interrupt \/ CheckReady \/ CheckSchedulable \/ Rescue
  BY <1>2, <1>6 DEF StartRun, Interrupt, CheckReady, CheckSchedulable, Rescue, EndRun, Leave, Goto
<1>7. CASE UpgradeNode \/ UpgradeControlPlane \/ Uncordon
  BY <1>2, <1>7 DEF UpgradeNode, UpgradeControlPlane, Uncordon, EndRun, NextBatch, Leave, Goto
<1> QED
  BY <1>1, <1>3, <1>4, <1>5, <1>6, <1>7 DEF Next, Run

(* When engine and kubelet are restarted on nodes that the run has         *)
(* cordoned, no pod runs there that a drain would have evicted: what the   *)
(* drain has evicted is not scheduled there again                          *)
(* (pre-upgrade/tasks/main.yml:50-92).                                     *)
THEOREM Drained ==
  ASSUME ~Meddles
  PROVE  Spec => []DrainedBeforeUpgrade
<1>1. Init => DrainInv
  BY DEF Init, DrainInv, DrainedBeforeUpgrade
<1>2. DrainInv /\ [Next]_vars => DrainInv'
  BY DrainStep
<1>3. DrainInv => DrainedBeforeUpgrade
  BY DEF DrainInv
<1> QED
  BY <1>1, <1>2, <1>3, PTL DEF Spec

-----------------------------------------------------------------------------
(* Masters first.  The hosts of the masters' play that no batch has left   *)
(* behind are the only ones that may be old, and the workers' play starts  *)
(* when there are none.                                                    *)
Upgraded(S) == \A m \in S : apiserver[m] = "new"

OrderInv ==
    /\ MastersFirst
    /\ play = "workers" => Upgraded(Masters)
    /\ ~Idle /\ play = "masters" => Upgraded(Masters \ (batch \cup rest))
    /\ pc = "uncordon" /\ play = "masters" => Upgraded(batch)

LEMMA OrderStep ==
  ASSUME ~Immutable
  PROVE  TypeInv /\ OrderInv /\ [Next]_vars => OrderInv'
<1> SUFFICES ASSUME TypeInv, OrderInv, [Next]_vars PROVE OrderInv'
  OBVIOUS
<1>0. /\ play \in Plays /\ Masters \cap Workers = {}
      /\ batch \cup rest \subseteq IF play = "masters" THEN Masters ELSE Workers
      /\ pc = "control" => play = "masters"
  BY UpgradeAssumption DEF TypeInv, TypeOK
<1>1. CASE UNCHANGED vars
  BY <1>1 DEF vars, clusterVars, placeVars, OrderInv, MastersFirst, Upgraded, Idle
(* A run that ends forgets its place and changes no version back.          *)
<1>2. ASSUME Leave("idle") \/ Leave("done"), MastersFirst' PROVE OrderInv'
  BY <1>2 DEF Leave, OrderInv, Idle
<1>3. ASSUME UNCHANGED <<kubelet, apiserver>> PROVE MastersFirst' /\ (\A S : Upgraded(S)' = Upgraded(S))
  BY <1>3 DEF OrderInv, MastersFirst, Upgraded
<1>4. CASE StartRun
  <2>1. play' = "masters" /\ batch' \cup rest' = Masters /\ pc' = "ready"
    BY <1>4 DEF StartRun, Play, Slice
  <2> QED
    BY <1>3, <1>4, <2>1 DEF StartRun, clusterVars, OrderInv, Upgraded
<1>5. CASE Interrupt \/ Rescue
  BY <1>2, <1>3, <1>5 DEF Interrupt, Rescue, EndRun, clusterVars
<1>6. CASE CheckReady \/ CheckSchedulable \/ Cordon \/ Drain
  <2>1. UNCHANGED <<kubelet, apiserver, placeVars>> /\ ~Idle /\ pc' # "uncordon"
    BY <1>6 DEF CheckReady, CheckSchedulable, Cordon, Drain, Goto, clusterVars, Idle
  <2> QED
    BY <1>3, <2>1 DEF placeVars, OrderInv, Upgraded
<1>7. CASE UpgradeNode
  <2>1. apiserver' = apiserver
    BY <1>7 DEF UpgradeNode
  <2>2. MastersFirst'
    <3>1. CASE play = "masters"
      <4>1. \A w \in Workers : kubelet'[w] = kubelet[w]
        BY <1>0, <1>7, <3>1 DEF UpgradeNode, Nodes
      <4> QED
        BY <2>1, <4>1 DEF OrderInv, MastersFirst
    <3>2. CASE play = "workers"
      BY <2>1, <3>2 DEF OrderInv, MastersFirst, Upgraded
    <3> QED
      BY <1>0, <3>1, <3>2 DEF Plays
  <2>3. CASE EndRun
    BY <1>2, <2>2, <2>3 DEF EndRun
  <2>4. CASE Goto(IF play = "masters" THEN "control" ELSE "uncordon")
    BY <1>7, <2>1, <2>2, <2>4 DEF UpgradeNode, Goto, placeVars, OrderInv, Upgraded, Idle
  <2> QED
    BY <1>7, <2>3, <2>4 DEF UpgradeNode
<1>8. CASE UpgradeControlPlane
  <2>1. PICK F \in Failures("control", batch) :
            /\ \E S \in SUBSET F :
                  apiserver' = [m \in Masters |-> IF m \in batch \ S THEN "new" ELSE apiserver[m]]
            /\ \/ F # {} /\ EndRun
               \/ F = {} /\ Goto("uncordon") /\ UNCHANGED factVars
    BY <1>8 DEF UpgradeControlPlane, Tolerated
  <2>2. \A m \in Masters : apiserver[m] = "new" => apiserver'[m] = "new"
    BY <2>1
  <2>3. MastersFirst'
    BY <1>8, <2>2 DEF UpgradeControlPlane, OrderInv, MastersFirst
  <2>4. CASE EndRun
    BY <1>2, <2>3, <2>4 DEF EndRun
  <2>5. CASE F = {} /\ Goto("uncordon")
    <3>1. play' = "masters" /\ batch' = batch /\ rest' = rest /\ batch \subseteq Masters
      BY <1>0, <1>8, <2>5 DEF UpgradeControlPlane, Goto, placeVars
    <3>2. \A m \in batch : apiserver'[m] = "new"
      BY <2>1, <2>5, <3>1
    <3>3. \A m \in Masters \ (batch \cup rest) : apiserver'[m] = "new"
      BY <1>0, <1>8, <2>2, <2>5 DEF UpgradeControlPlane, OrderInv, Upgraded, Idle
    <3> QED
      BY <2>3, <3>1, <3>2, <3>3 DEF OrderInv, Upgraded
  <2> QED
    BY <2>1, <2>4, <2>5
<1>9. CASE Uncordon
  <2>1. UNCHANGED <<kubelet, apiserver>> /\ pc = "uncordon"
    BY <1>9 DEF Uncordon
  <2>2. play = "masters" => Upgraded(Masters \ rest)
    BY <2>1 DEF OrderInv, Upgraded, Idle
  <2>3. CASE EndRun \/ Leave("done")
    BY <1>2, <1>3, <2>1, <2>3 DEF EndRun
  <2>4. CASE rest # {} /\ Play(play, rest, IF play = "masters" THEN 1 ELSE Serial) /\ pc' = "ready"
    <3>1. play' = play /\ batch' \cup rest' = rest
      BY <1>0, <2>4, PlayType DEF Hosted, Play
    <3> QED
      BY <1>3, <2>1, <2>2, <2>4, <3>1 DEF OrderInv, Upgraded
  <2>5. CASE rest = {} /\ play = "masters" /\ Play("workers", Workers, Serial) /\ pc' = "ready"
    BY <1>3, <2>1, <2>2, <2>5 DEF Play, OrderInv, Upgraded
  <2> QED
    BY <1>9, <2>3, <2>4, <2>5 DEF Uncordon, NextBatch
<1>10. CASE Environment
  <2>1. UNCHANGED <<kubelet, apiserver>>
    BY <1>10 DEF Environment, Schedule, AdminCordon, AdminUncordon
  <2> QED
    BY <1>3, <1>10, <2>1 DEF Environment, placeVars, OrderInv, Upgraded, Idle
<1> QED
  BY <1>1, <1>4, <1>5, <1>6, <1>7, <1>8, <1>9, <1>10 DEF Next, Run

(* No worker is upgraded before every API server is, however many runs     *)
(* fail or are cut off, and wherever ("Handle upgrades to master           *)
(* components first to maintain backwards compat",                         *)
(* upgrade-cluster.yml:88), provided no `kubeadm upgrade apply` fails with *)
(* the error that kubeadm-upgrade.yml:27 and :46 let pass.                 *)
THEOREM MastersAreFirst ==
  ASSUME ~Immutable
  PROVE  Spec => []MastersFirst
<1>1. Init => OrderInv
  <2>1. ASSUME Init PROVE MastersFirst
    BY <2>1 DEF Init, MastersFirst, Nodes
  <2> QED
    BY <2>1 DEF Init, OrderInv, Idle
<1>2. OrderInv => MastersFirst
  BY DEF OrderInv
<1>3. TypeInv /\ OrderInv /\ [Next]_vars => OrderInv'
  BY OrderStep
<1> QED
  BY <1>1, <1>2, <1>3, TypeInit, TypeStep, PTL DEF Spec

-----------------------------------------------------------------------------
(* Capacity.                                                               *)

(* A finite set of numbers that is not empty has a greatest element: the   *)
(* one with the fewest elements above it.                                  *)
LEMMA Greatest ==
  ASSUME NEW S \in SUBSET Nat, IsFiniteSet(S), S # {}
  PROVE  \E m \in S : \A x \in S : x <= m
<1> DEFINE Above(x) == {y \in S : y > x}
           Counts == {Cardinality(Above(x)) : x \in S}
<1>1. \A x \in S : IsFiniteSet(Above(x)) /\ Cardinality(Above(x)) \in Nat
  <2> SUFFICES ASSUME NEW x \in S PROVE IsFiniteSet(Above(x)) /\ Cardinality(Above(x)) \in Nat
    OBVIOUS
  <2>1. Above(x) \in SUBSET S
    OBVIOUS
  <2>2. IsFiniteSet(Above(x))
    BY <2>1, FS_Subset
  <2> QED
    BY <2>2, FS_CardinalityType
<1>2. PICK n \in Counts : \A k \in Counts : ~(<<k, n>> \in OpToRel(<, Nat))
  <2>1. Counts \subseteq Nat /\ Counts # {}
    BY <1>1
  <2> QED
    BY <2>1, NatLessThanWellFounded, WFMin
<1>3. \A k \in Counts : ~(k < n)
  BY <1>1, <1>2 DEF OpToRel
<1>4. PICK m \in S : n = Cardinality(Above(m))
  OBVIOUS
<1>5. ASSUME NEW x \in S, x > m PROVE FALSE
  <2>0. x \in Nat /\ m \in Nat
    OBVIOUS
  <2>1. Above(x) \in SUBSET Above(m)
    <3> SUFFICES ASSUME NEW y \in S, y > x PROVE y > m
      OBVIOUS
    <3>1. y \in Nat
      OBVIOUS
    <3> QED
      BY <1>5, <2>0, <3>1
  <2>2. x \in Above(m) /\ x \notin Above(x)
    BY <1>5, <2>0
  <2>3. /\ Cardinality(Above(x)) <= Cardinality(Above(m))
        /\ Cardinality(Above(m)) = Cardinality(Above(x)) => Above(m) = Above(x)
    BY <1>1, <2>1, FS_Subset
  <2>4. Cardinality(Above(x)) < Cardinality(Above(m))
    <3>1. Above(m) # Above(x)
      BY <2>2
    <3>2. Cardinality(Above(m)) \in Nat /\ Cardinality(Above(x)) \in Nat
      BY <1>1
    <3> HIDE DEF Above
    <3> QED
      BY <2>3, <3>1, <3>2
  <2>5. Cardinality(Above(x)) \in Counts
    OBVIOUS
  <2> HIDE DEF Above, Counts
  <2> QED
    BY <1>3, <1>4, <2>4, <2>5
<1> QED
  BY <1>5

(* A batch has no more hosts than `serial` gives it.                       *)
LEMMA SliceSize ==
  ASSUME NEW S \in SUBSET Nat, IsFiniteSet(S), NEW k \in Nat
  PROVE  Cardinality(Slice(k, S)) <= k
<1> DEFINE B == Slice(k, S)
<1>1. B \in SUBSET S /\ B \in SUBSET Nat
  BY DEF Slice
<1>2. IsFiniteSet(B)
  BY <1>1, FS_Subset
<1>3. CASE B = {}
  BY <1>3, FS_EmptySet
<1>4. CASE B # {}
  <2>1. PICK m \in B : \A x \in B : x <= m
    <3> HIDE DEF B
    <3> QED
      BY <1>1, <1>2, <1>4, Greatest
  <2>2. B \ {m} \in SUBSET Before(m, S)
    BY <1>1, <2>1 DEF Before
  <2>3. Cardinality(Before(m, S)) < k
    BY <2>1 DEF Slice
  <2>4. Before(m, S) \in SUBSET S
    BY DEF Before
  <2>5. IsFiniteSet(Before(m, S))
    BY <2>4, FS_Subset
  <2>6. Cardinality(B \ {m}) <= Cardinality(Before(m, S))
    BY <2>2, <2>5, FS_Subset
  <2>7. Cardinality(B \ {m}) = Cardinality(B) - 1
    BY <1>2, <2>1, FS_RemoveElement
  <2>8. Cardinality(B) \in Nat /\ Cardinality(Before(m, S)) \in Nat
    BY <1>2, <2>5, FS_CardinalityType
  <2> HIDE DEF B
  <2>9. Cardinality(B) <= k
    BY <2>3, <2>6, <2>7, <2>8
  <2> QED
    BY <2>9 DEF B
<1> QED
  BY <1>3, <1>4

(* The size of the batch, whatever happened before.                        *)
SizeInv ==
    /\ play = "masters" => Cardinality(batch) <= 1
    /\ play = "workers" => Cardinality(batch) <= Serial

LEMMA PlaySize ==
  ASSUME NEW p \in Plays, NEW hosts \in SUBSET Hosted(p),
         Play(p, hosts, IF p = "masters" THEN 1 ELSE Serial)
  PROVE  SizeInv'
<1>1. IsFiniteSet(Hosted(p)) /\ Hosted(p) \subseteq Nat /\ Serial \in Nat
  BY UpgradeAssumption DEF Hosted
<1>2. hosts \in SUBSET Nat /\ IsFiniteSet(hosts)
  BY <1>1, FS_Subset
<1>3. /\ Cardinality(Slice(1, hosts)) <= 1
      /\ Cardinality(Slice(Serial, hosts)) <= Serial
  BY <1>1, <1>2, SliceSize
<1> QED
  BY <1>3 DEF Play, SizeInv, Plays

LEMMA SizeStep == TypeInv /\ SizeInv /\ [Next]_vars => SizeInv'
<1> SUFFICES ASSUME TypeInv, SizeInv, [Next]_vars PROVE SizeInv'
  OBVIOUS
<1>0. play \in Plays /\ rest \in SUBSET Hosted(play)
  BY DEF TypeInv, TypeOK, Hosted
<1>1. ASSUME UNCHANGED placeVars PROVE SizeInv'
  BY <1>1 DEF placeVars, SizeInv
<1>2. ASSUME NEW end, Leave(end) PROVE SizeInv'
  BY <1>2, FS_EmptySet DEF Leave, SizeInv
<1>3. CASE StartRun
  BY <1>3, PlaySize DEF StartRun, Hosted, Plays
<1>4. CASE NextBatch
  <2>1. CASE Play(play, rest, IF play = "masters" THEN 1 ELSE Serial)
    BY <1>0, <2>1, PlaySize
  <2>2. CASE Play("workers", Workers, Serial)
    BY <2>2, PlaySize DEF Hosted, Plays
  <2> QED
    BY <1>2, <1>4, <2>1, <2>2 DEF NextBatch
<1>5. CASE Interrupt \/ Rescue \/ UpgradeNode \/ UpgradeControlPlane \/ Uncordon
  BY <1>1, <1>2, <1>4, <1>5
  DEF Interrupt, Rescue, UpgradeNode, UpgradeControlPlane, Uncordon, EndRun, Goto
<1>6. CASE CheckReady \/ CheckSchedulable \/ Cordon \/ Drain \/ Environment \/ UNCHANGED vars
  BY <1>1, <1>6 DEF CheckReady, CheckSchedulable, Cordon, Drain, Environment, Goto, vars
<1> QED
  BY <1>3, <1>5, <1>6 DEF Next, Run

(* Until a run fails, the nodes that the playbook keeps out of service are *)
(* those it has found to need a cordon, from the cordon to the uncordon.   *)
OutOfService == IF pc \in {"drain", "rescue", "node", "control", "uncordon"} THEN needs ELSE {}

ServiceInv == ~failed => unschedulable \ admin \subseteq OutOfService

LEMMA ServiceStep == ServiceInv /\ [Next]_vars => ServiceInv'
<1> SUFFICES ASSUME ServiceInv, [Next]_vars PROVE ServiceInv'
  OBVIOUS
<1>1. CASE UNCHANGED vars
  BY <1>1 DEF vars, clusterVars, factVars, ServiceInv, OutOfService
<1>2. CASE StartRun
  BY <1>2 DEF StartRun, Idle, clusterVars, ServiceInv, OutOfService
<1>3. CASE Interrupt \/ Rescue
  BY <1>3 DEF Interrupt, Rescue, EndRun, ServiceInv
<1>4. CASE CheckReady \/ CheckSchedulable
  BY <1>4 DEF CheckReady, CheckSchedulable, Goto, clusterVars, ServiceInv, OutOfService
<1>5. CASE Cordon
  BY <1>5 DEF Cordon, Failures, Goto, ServiceInv, OutOfService
<1>6. CASE Drain
  BY <1>6 DEF Drain, Goto, ServiceInv, OutOfService
<1>7. CASE UpgradeNode
  BY <1>7 DEF UpgradeNode, EndRun, Goto, factVars, ServiceInv, OutOfService
<1>8. CASE UpgradeControlPlane
  BY <1>8 DEF UpgradeControlPlane, EndRun, Goto, factVars, ServiceInv, OutOfService
<1>9. CASE Uncordon
  <2>1. CASE EndRun
    BY <2>1 DEF EndRun, ServiceInv
  <2>2. CASE unschedulable' = unschedulable \ needs /\ NextBatch /\ UNCHANGED <<runs, failed>>
    BY <1>9, <2>2 DEF Uncordon, ServiceInv, OutOfService
  <2> QED
    BY <1>9, <2>1, <2>2 DEF Uncordon
<1>10. CASE Environment
  <2>1. PICK n \in Nodes : Schedule(n) \/ AdminCordon(n) \/ AdminUncordon(n)
    BY <1>10 DEF Environment
  <2>2. unschedulable' \ admin' \subseteq unschedulable \ admin
    BY <2>1 DEF Schedule, AdminCordon, AdminUncordon
  <2> QED
    BY <1>10, <2>2 DEF Environment, factVars, ServiceInv, OutOfService
<1> QED
  BY <1>1, <1>2, <1>3, <1>4, <1>5, <1>6, <1>7, <1>8, <1>9, <1>10 DEF Next, Run

(* Behind failures: what a run of the past has left out of service is at   *)
(* most one batch for each run, the present one not counted, which answers *)
(* for the nodes it has found to need a cordon.                            *)
Stranded == unschedulable \ admin
Past == IF Idle THEN runs ELSE runs - 1

StrandInv ==
    /\ ~Idle => runs >= 1
    /\ Cardinality(Stranded \ OutOfService) <= Past * Serial

LEMMA FewerStranded ==
  ASSUME TypeInv, NEW S \in SUBSET Nodes, NEW T \in SUBSET S
  PROVE  /\ IsFiniteSet(S) /\ IsFiniteSet(T)
         /\ Cardinality(S) \in Nat /\ Cardinality(T) \in Nat
         /\ Cardinality(T) <= Cardinality(S)
<1>1. IsFiniteSet(Nodes)
  BY UpgradeAssumption, FS_Union DEF Nodes
<1>2. IsFiniteSet(S)
  BY <1>1, FS_Subset
<1> QED
  BY <1>2, FS_Subset, FS_CardinalityType

(* At any time the stranded nodes fit into one batch for each run.         *)
LEMMA StrandedFit ==
  ASSUME TypeInv, SizeInv, StrandInv
  PROVE  Cardinality(Stranded) <= runs * Serial
<1> DEFINE Debt == Stranded \ OutOfService
           Own == Stranded \cap OutOfService
<1>1. /\ Stranded \in SUBSET Nodes /\ Debt \in SUBSET Stranded /\ Own \in SUBSET Stranded
      /\ batch \in SUBSET Nodes
      /\ runs \in Nat /\ Serial \in Nat /\ Serial >= 1
  BY UpgradeAssumption DEF TypeInv, TypeOK, Stranded, Nodes
<1>2. CASE Idle
  <2>1. OutOfService = {}
    BY <1>2 DEF OutOfService, Idle
  <2> QED
    BY <1>2, <2>1 DEF StrandInv, Past
<1>3. CASE ~Idle
  <2>1. Own \in SUBSET batch
    BY DEF OutOfService, TypeInv, TypeOK
  <2>2. /\ IsFiniteSet(Debt) /\ IsFiniteSet(Own)
        /\ Cardinality(Debt) \in Nat /\ Cardinality(Own) \in Nat
        /\ Cardinality(Stranded) \in Nat
    BY <1>1, FewerStranded
  <2>3. Cardinality(Own) <= Serial
    <3>1. Cardinality(Own) <= Cardinality(batch) /\ Cardinality(batch) \in Nat
      BY <1>1, <2>1, FewerStranded
    <3>2. Cardinality(batch) <= Serial
      BY <1>1, <3>1 DEF SizeInv, TypeInv, TypeOK, Plays
    <3> QED
      BY <1>1, <2>2, <3>1, <3>2
  <2>4. Cardinality(Stranded) = Cardinality(Debt) + Cardinality(Own)
    <3>1. Stranded = Debt \cup Own /\ Debt \cap Own = {}
      OBVIOUS
    <3>2. Cardinality(Debt \cup Own) = Cardinality(Debt) + Cardinality(Own)
      <4> HIDE DEF Debt, Own
      <4> QED
        BY <2>2, <3>1, FS_Union, FS_EmptySet
    <3> QED
      BY <3>1, <3>2
  <2>5. Cardinality(Debt) <= (runs - 1) * Serial
    BY <1>3 DEF StrandInv, Past
  <2>6. (runs - 1) * Serial + Serial = runs * Serial
    BY <1>1
  <2> HIDE DEF Debt, Own
  <2>7. (runs - 1) * Serial \in Int /\ runs * Serial \in Int
    BY <1>1
  <2> QED
    BY <1>1, <2>2, <2>3, <2>4, <2>5, <2>6, <2>7
<1> QED
  BY <1>2, <1>3

LEMMA StrandStep == TypeInv /\ SizeInv /\ StrandInv /\ [Next]_vars => StrandInv'
<1> SUFFICES ASSUME TypeInv, SizeInv, StrandInv, [Next]_vars PROVE StrandInv'
  OBVIOUS
<1>0. /\ unschedulable \subseteq Nodes /\ Stranded \in SUBSET Nodes
      /\ runs \in Nat /\ Serial \in Nat /\ Serial >= 1
      /\ runs * Serial \in Nat
  BY UpgradeAssumption DEF TypeInv, TypeOK, Stranded
<1>1. Cardinality(Stranded) <= runs * Serial
  BY StrandedFit
<1>2. ASSUME UNCHANGED <<runs, Past>>, ~Idle' => ~Idle,
             Stranded' \ OutOfService' \subseteq Stranded \ OutOfService
      PROVE  StrandInv'
  <2>1. Cardinality(Stranded' \ OutOfService') <= Cardinality(Stranded \ OutOfService)
    BY <1>0, <1>2, FewerStranded
  <2>2. /\ Cardinality(Stranded' \ OutOfService') \in Nat
        /\ Cardinality(Stranded \ OutOfService) \in Nat
    BY <1>0, <1>2, FewerStranded
  <2>3. Past * Serial \in Int
    BY <1>0 DEF Past
  <2>4. Cardinality(Stranded' \ OutOfService') <= Past * Serial
    BY <2>1, <2>2, <2>3 DEF StrandInv
  <2> QED
    BY <1>0, <1>2, <2>4 DEF StrandInv
<1>3. ASSUME Past' = runs, runs' \in Nat, runs' >= 1 \/ Idle', Stranded' \subseteq Stranded
      PROVE  StrandInv'
  <2>1. /\ Cardinality(Stranded' \ OutOfService') <= Cardinality(Stranded)
        /\ Cardinality(Stranded' \ OutOfService') \in Nat /\ Cardinality(Stranded) \in Nat
    BY <1>0, <1>3, FewerStranded
  <2>2. Cardinality(Stranded' \ OutOfService') <= runs * Serial
    BY <1>0, <1>1, <2>1
  <2> QED
    BY <1>3, <2>2 DEF StrandInv
<1>4. ASSUME ~Idle, EndRun, unschedulable' \subseteq unschedulable, admin' = admin PROVE StrandInv'
  <2>1. Idle' /\ runs' = runs /\ Past' = runs
    BY <1>4 DEF EndRun, Leave, Idle, Past
  <2> QED
    BY <1>0, <1>3, <1>4, <2>1 DEF Stranded
<1>5. CASE StartRun
  <2>1. runs' = runs + 1 /\ Past' = runs /\ Stranded' = Stranded
    <3>1. runs' = runs + 1 /\ ~Idle' /\ Stranded' = Stranded
      BY <1>5 DEF StartRun, clusterVars, Idle, Stranded
    <3> QED
      BY <1>0, <3>1 DEF Past
  <2> QED
    BY <1>0, <1>3, <2>1
<1>6. CASE Interrupt
  BY <1>4, <1>6 DEF Interrupt, clusterVars
<1>7. CASE CheckReady \/ CheckSchedulable
  BY <1>2, <1>7 DEF CheckReady, CheckSchedulable, Goto, clusterVars, Idle, Past, OutOfService, Stranded
<1>8. CASE Cordon
  <2>1. /\ UNCHANGED <<runs, admin, needs>> /\ pc = "cordon" /\ pc' \in {"drain", "rescue"}
        /\ unschedulable' \subseteq unschedulable \cup needs
    BY <1>8 DEF Cordon, Failures, Goto
  <2> QED
    BY <1>2, <2>1 DEF Idle, Past, OutOfService, Stranded
<1>9. CASE Drain
  <2>1. UNCHANGED <<runs, admin, needs, unschedulable>> /\ pc = "drain" /\ pc' \in {"node", "rescue"}
    BY <1>9 DEF Drain, Goto
  <2> QED
    BY <1>2, <2>1 DEF Idle, Past, OutOfService, Stranded
<1>10. CASE Rescue
  BY <1>4, <1>10 DEF Rescue, Idle
<1>11. CASE UpgradeNode \/ UpgradeControlPlane
  <2>1. UNCHANGED <<admin, unschedulable>> /\ pc \in {"node", "control"}
    BY <1>11 DEF UpgradeNode, UpgradeControlPlane
  <2>2. CASE EndRun
    BY <1>4, <2>1, <2>2 DEF Idle
  <2>3. CASE ~EndRun
    <3>1. UNCHANGED <<runs, needs>> /\ pc' \in {"control", "uncordon"}
      BY <1>11, <2>3 DEF UpgradeNode, UpgradeControlPlane, Goto, factVars
    <3> QED
      BY <1>2, <2>1, <3>1 DEF Idle, Past, OutOfService, Stranded
  <2> QED
    BY <2>2, <2>3
<1>12. CASE Uncordon
  <2>1. unschedulable' \subseteq unschedulable /\ admin' = admin /\ pc = "uncordon"
    BY <1>12 DEF Uncordon
  <2>2. CASE EndRun
    BY <1>4, <2>1, <2>2 DEF Idle
  <2>3. CASE unschedulable' = unschedulable \ needs /\ NextBatch /\ runs' = runs
    <3>1. CASE pc' = "done"
      BY <1>0, <1>3, <2>1, <2>3, <3>1 DEF Idle, Past, Stranded
    <3>2. CASE pc' = "ready"
      BY <1>2, <2>1, <2>3, <3>2 DEF Idle, Past, OutOfService, Stranded
    <3> QED
      BY <2>3, <3>1, <3>2 DEF NextBatch, Leave
  <2> QED
    BY <1>12, <2>2, <2>3 DEF Uncordon
<1>13. CASE Environment
  <2>1. PICK n \in Nodes : Schedule(n) \/ AdminCordon(n) \/ AdminUncordon(n)
    BY <1>13 DEF Environment
  <2>2. Stranded' \subseteq Stranded
    BY <2>1 DEF Schedule, AdminCordon, AdminUncordon, Stranded
  <2> QED
    BY <1>2, <1>13, <2>2 DEF Environment, factVars, Idle, Past, OutOfService
<1>14. CASE UNCHANGED vars
  BY <1>2, <1>14 DEF vars, clusterVars, factVars, Idle, Past, OutOfService, Stranded
<1> QED
  BY <1>5, <1>6, <1>7, <1>8, <1>9, <1>10, <1>11, <1>12, <1>13, <1>14 DEF Next, Run

LEMMA CapacityInit == Init => SizeInv /\ ServiceInv /\ StrandInv
<1> SUFFICES ASSUME Init PROVE SizeInv /\ ServiceInv /\ StrandInv
  OBVIOUS
<1>1. Stranded \ OutOfService = {} /\ Past = 0 /\ Idle /\ Serial \in Nat
  BY UpgradeAssumption DEF Init, Stranded, Past, Idle
<1> QED
  BY <1>1, FS_EmptySet DEF Init, SizeInv, ServiceInv, StrandInv

(* No more nodes are out of service at a time than `serial` allows, for    *)
(* masters one, whoever else cordons and uncordons nodes meanwhile and     *)
(* whether or not the queries answer; and after failures no more than that *)
(* for each run (upgrade-cluster.yml:93, :124).                            *)
THEOREM CapacityIsKept == Spec => []CapacityKept
<1>1. TypeInv /\ SizeInv /\ ServiceInv /\ StrandInv => CapacityKept
  <2> SUFFICES ASSUME TypeInv, SizeInv, ServiceInv, StrandInv PROVE CapacityKept
    OBVIOUS
  <2>1. Cardinality(unschedulable \ admin) <= runs * Serial
    BY StrandedFit DEF Stranded
  <2> QED
    BY <2>1 DEF TypeInv, TypeOK, SizeInv, ServiceInv, OutOfService, CapacityKept, Plays
<1> QED
  BY <1>1, CapacityInit, SizeStep, ServiceStep, StrandStep, TypeInit, TypeStep, PTL DEF Spec

-----------------------------------------------------------------------------
(* The good end.  The hosts that the batches of a play have left behind    *)
(* run the new kubelet, as does the batch behind its restart; a play that  *)
(* has no host left has upgraded all of its own.                           *)
Restarted(S) == \A n \in S : kubelet[n] = "new"

KubeletInv ==
    /\ play = "workers" => Restarted(Masters)
    /\ ~Idle => Restarted(Hosted(play) \ (batch \cup rest))
    /\ pc \in {"control", "uncordon"} => Restarted(batch)
    /\ pc = "done" => Restarted(Nodes)

LEMMA KubeletStep == TypeInv /\ KubeletInv /\ [Next]_vars => KubeletInv'
<1> SUFFICES ASSUME TypeInv, KubeletInv, [Next]_vars PROVE KubeletInv'
  OBVIOUS
<1>0. /\ play \in Plays /\ batch \cup rest \subseteq Hosted(play)
      /\ Nodes = Masters \cup Workers
  BY DEF TypeInv, TypeOK, Hosted, Nodes
<1>1. ASSUME Leave("idle") PROVE KubeletInv'
  BY <1>1 DEF Leave, KubeletInv, Idle
<1>2. ASSUME kubelet' = kubelet PROVE \A S : Restarted(S)' = Restarted(S)
  BY <1>2 DEF Restarted
<1>3. CASE StartRun
  <2>1. play' = "masters" /\ batch' \cup rest' = Masters /\ pc' = "ready"
    BY <1>3 DEF StartRun, Play, Slice
  <2> QED
    BY <2>1 DEF KubeletInv, Restarted, Hosted
<1>4. CASE Interrupt \/ Rescue
  BY <1>1, <1>4 DEF Interrupt, Rescue, EndRun
<1>5. CASE CheckReady \/ CheckSchedulable \/ Cordon \/ Drain
  <2>1. UNCHANGED <<kubelet, placeVars>> /\ ~Idle /\ pc' \notin {"control", "uncordon", "done"}
    BY <1>5 DEF CheckReady, CheckSchedulable, Cordon, Drain, Goto, clusterVars, Idle
  <2> QED
    BY <1>2, <2>1 DEF placeVars, KubeletInv
<1>6. CASE UpgradeNode
  <2>1. PICK F \in Failures("node", batch) :
            /\ \E S \in SUBSET F :
                  kubelet' = [n \in Nodes |-> IF n \in batch \ S THEN "new" ELSE kubelet[n]]
            /\ \/ F # {} /\ EndRun
               \/ F = {} /\ Goto(IF play = "masters" THEN "control" ELSE "uncordon")
    BY <1>6 DEF UpgradeNode
  <2>2. CASE EndRun
    BY <1>1, <2>2 DEF EndRun
  <2>3. CASE F = {} /\ Goto(IF play = "masters" THEN "control" ELSE "uncordon")
    <3>1. UNCHANGED placeVars /\ ~Idle /\ pc' \in {"control", "uncordon"}
      BY <1>6, <2>3 DEF UpgradeNode, Goto, Idle
    <3>2. \A n \in Nodes : kubelet'[n] = "new" <=> n \in batch \/ kubelet[n] = "new"
      BY <2>1, <2>3
    <3>3. Hosted(play) \subseteq Nodes /\ Masters \subseteq Nodes
      BY <1>0 DEF Hosted
    <3>4. Restarted(batch)' /\ \A S \in SUBSET Nodes : Restarted(S) => Restarted(S)'
      BY <1>0, <3>1, <3>2, <3>3 DEF Restarted, placeVars
    <3> QED
      BY <1>0, <3>1, <3>3, <3>4 DEF placeVars, KubeletInv
  <2> QED
    BY <2>1, <2>2, <2>3
<1>7. CASE UpgradeControlPlane
  <2>1. EndRun \/ (pc' = "uncordon" /\ UNCHANGED placeVars)
    BY <1>7 DEF UpgradeControlPlane, Goto
  <2>2. kubelet' = kubelet /\ pc = "control" /\ ~Idle
    BY <1>7 DEF UpgradeControlPlane, Idle
  <2> QED
    BY <1>1, <1>2, <2>1, <2>2 DEF EndRun, placeVars, KubeletInv
<1>8. CASE Uncordon
  <2>1. kubelet' = kubelet /\ pc = "uncordon" /\ ~Idle
    BY <1>8 DEF Uncordon, Idle
  <2>2. Restarted(Hosted(play) \ rest)
    BY <2>1 DEF KubeletInv, Restarted
  <2>3. CASE EndRun
    BY <1>1, <2>3 DEF EndRun
  <2>4. CASE rest # {} /\ Play(play, rest, IF play = "masters" THEN 1 ELSE Serial) /\ pc' = "ready"
    <3>1. play' = play /\ batch' \cup rest' = rest
      BY <1>0, <2>4, PlayType DEF Hosted, Play
    <3> QED
      BY <1>2, <2>1, <2>2, <2>4, <3>1 DEF KubeletInv
  <2>5. CASE rest = {} /\ play = "masters" /\ Play("workers", Workers, Serial) /\ pc' = "ready"
    <3>1. play' = "workers" /\ batch' \cup rest' = Workers
      BY <2>5 DEF Play, Slice
    <3> QED
      BY <1>2, <2>1, <2>2, <2>5, <3>1 DEF KubeletInv, Hosted, Restarted
  <2>6. CASE rest = {} /\ (play = "workers" \/ Workers = {}) /\ Leave("done")
    <3>1. Restarted(Nodes)
      BY <1>0, <2>2, <2>6 DEF KubeletInv, Hosted, Restarted, Plays
    <3> QED
      BY <1>2, <2>1, <2>6, <3>1 DEF Leave, KubeletInv, Idle
  <2> QED
    BY <1>8, <2>3, <2>4, <2>5, <2>6 DEF Uncordon, NextBatch
<1>9. CASE Environment \/ UNCHANGED vars
  <2>1. UNCHANGED <<kubelet, pc, placeVars>>
    BY <1>9 DEF Environment, Schedule, AdminCordon, AdminUncordon, vars, clusterVars
  <2> QED
    BY <1>2, <2>1 DEF placeVars, KubeletInv, Idle
<1> QED
  BY <1>3, <1>4, <1>5, <1>6, <1>7, <1>8, <1>9 DEF Next, Run

(* At the good end the API servers are new as well.                        *)
EndInv == pc = "done" => Upgraded(Masters)

LEMMA EndStep ==
  TypeInv /\ OrderInv /\ EndInv /\ [Next]_vars => EndInv'
<1> SUFFICES ASSUME TypeInv, OrderInv, EndInv, [Next]_vars, pc' = "done"
             PROVE  Upgraded(Masters)'
  BY DEF EndInv
<1>1. CASE Uncordon
  <2>1. pc = "uncordon" /\ apiserver' = apiserver /\ play \in Plays
    BY <1>1 DEF Uncordon, TypeInv, TypeOK
  <2>2. rest = {} /\ (play = "workers" \/ Workers = {})
    BY <1>1 DEF Uncordon, EndRun, NextBatch, Leave
  <2>3. CASE play = "workers"
    BY <2>1, <2>3 DEF OrderInv, Upgraded
  <2>4. CASE play = "masters"
    BY <2>1, <2>2, <2>4 DEF OrderInv, Upgraded, Idle
  <2> QED
    BY <2>1, <2>3, <2>4 DEF Plays
<1>2. CASE Environment \/ UNCHANGED vars
  <2>1. pc' = pc /\ apiserver' = apiserver
    BY <1>2 DEF Environment, Schedule, AdminCordon, AdminUncordon, vars, clusterVars
  <2> QED
    BY <2>1 DEF EndInv, Upgraded
<1>3. pc' # "done" \/ Uncordon \/ Environment \/ UNCHANGED vars
  BY DEF Next, Run, StartRun, Interrupt, CheckReady, CheckSchedulable, Cordon, Drain, Rescue,
         UpgradeNode, UpgradeControlPlane, EndRun, Leave, Goto
<1> QED
  BY <1>1, <1>2, <1>3

(* A run that ends without an error has upgraded every kubelet and every   *)
(* API server, also if earlier runs failed anywhere; and if none did,      *)
(* every node is cordoned or not as the administrator left it              *)
(* (post-upgrade/tasks/main.yml:5).                                        *)
THEOREM DoneIsUpgraded ==
  ASSUME ~Meddles, QueryAnswers, ~Immutable
  PROVE  Spec => []DoneMeansUpgraded
<1>1. Init => CordonInv /\ OrderInv /\ EndInv /\ KubeletInv
  <2>1. ASSUME Init PROVE MastersFirst
    BY <2>1 DEF Init, MastersFirst, Nodes
  <2> QED
    BY <2>1 DEF Init, CordonInv, AdminCordonKept, Asked, OrderInv, EndInv, KubeletInv, Idle
<1>2. TypeInv /\ CordonInv /\ [Next]_vars => CordonInv'
  BY CordonStep
<1>3. CordonInv /\ ServiceInv /\ EndInv /\ KubeletInv => DoneMeansUpgraded
  BY DEF CordonInv, AdminCordonKept, ServiceInv, OutOfService, EndInv, Upgraded, KubeletInv, Restarted,
         DoneMeansUpgraded
<1>4. TypeInv /\ OrderInv /\ [Next]_vars => OrderInv'
  BY OrderStep
<1> QED
  BY <1>1, <1>2, <1>3, <1>4, CapacityInit, ServiceStep, EndStep, KubeletStep, TypeInit, TypeStep,
     PTL DEF Spec
=============================================================================
