--------------------------- MODULE EtcdRoleProofs ---------------------------
(***************************************************************************)
(* Proofs about the etcd role, for every set of hosts, every inventory and *)
(* every setting of the constants.                                         *)
(***************************************************************************)
EXTENDS EtcdRole, FiniteSetTheorems, WellFoundedInduction, TLAPS

(* The loop takes a host that is on its list: a set of hosts that is not   *)
(* empty has a first one in inventory order.                               *)
LEMMA FirstIn ==
    ASSUME NEW S, S \subseteq Hosts, S # {}
    PROVE  First(S) \in S /\ \A x \in S : First(S) <= x
<1>1. S \subseteq Nat
  BY HostsAssumption
<1> DEFINE Less == {p \in Nat \X Nat : p[1] < p[2]}
<1>2. Less = OpToRel(<, Nat)
  BY Zenon DEF OpToRel
<1>3. PICK h \in S : \A x \in S : ~(<<x, h>> \in OpToRel(<, Nat))
  BY <1>1, NatLessThanWellFounded, WFMin, Zenon
<1>4. \A x \in S : ~(<<x, h>> \in Less)
  BY <1>2, <1>3, Zenon
<1>5. ASSUME NEW x \in S PROVE h <= x
  <2>1. x \in Nat /\ h \in Nat
    BY <1>1
  <2>2. x < h => <<x, h>> \in Less
    BY <2>1
  <2>3. ~(x < h)
    BY <2>2, <1>4, Zenon
  <2> QED
    BY <2>1, <2>3
<1> QED
  BY <1>5 DEF First

(* A server step keeps the types: a server is launched into a cluster that *)
(* Boot allows, and publishes in the cluster of its data directory.        *)
LEMMA ServerStepType ==
    ASSUME ServerTypeOK, NEW h \in Hosts, Launch(h) \/ Publish(h)
    PROVE  ServerTypeOK'
<1>1. CASE Launch(h)
  <2>1. Boot(h) \subseteq Clusters
    BY DEF Boot, ServerTypeOK, Clusters
  <2> QED
    BY <1>1, <2>1 DEF Launch, ServerTypeOK, Clusters
<1>2. CASE Publish(h)
  <2>1. data[h] \in Clusters
    BY DEF ServerTypeOK
  <2>2. started[data[h]] \cup {h} \subseteq Hosts
    BY <2>1 DEF ServerTypeOK
  <2> QED
    BY <1>2, <2>1, <2>2 DEF Publish, ServerTypeOK
<1> QED
  BY <1>1, <1>2

(* What is true of the data, wherever the run is: a playbook that includes  *)
(* the role has tasks of its own.                                          *)
DataOK ==
    /\ ServerTypeOK
    /\ hostType \in HostTypes
    /\ inv \subseteq Hosts
    /\ healthy \in BOOLEAN
    /\ inCluster \subseteq Hosts
    /\ todo \subseteq Hosts
    /\ notified \subseteq Hosts
    /\ runs \in 0 .. MaxRuns
    /\ crashes \in 0 .. MaxCrashes
    /\ cutOff \in BOOLEAN
    /\ pc \in {"add", "addconfig", "verify", "joinstart"} => todo # {}

(* refresh_config.yml writes well-formed environment files.                *)
LEMMA WriteConfType ==
    ASSUME DataOK, NEW S, NEW P, P \subseteq Hosts, S \subseteq Hosts, WriteConf(S, P)
    PROVE  ServerTypeOK' /\ notified' \subseteq Hosts
<1>1. [state |-> ConfState, initial |-> P] \in Conf
  BY DEF Conf, ConfState
<1> QED
  BY <1>1 DEF WriteConf, DataOK, ServerTypeOK

(* The established cluster, or none, and the operator's first inventory.   *)
LEMMA TypeInit == Init => TypeOK
<1> SUFFICES ASSUME Init PROVE TypeOK
  OBVIOUS
<1>0. MaxRuns \in Nat /\ MaxCrashes \in Nat /\ Foundings \subseteq SUBSET Hosts
  BY RoleAssumption
<1>1. inv \in Foundings /\ EstablishedInit(inv)
  BY DEF Init, RoleInit
<1>2. inv \subseteq Hosts
  BY <1>0, <1>1
<1>3. ServerTypeOK
  BY <1>1, <1>2 DEF EstablishedInit, ServerTypeOK, Conf, NoConf, Clusters, NoData
<1>4. runs \in 0 .. MaxRuns /\ crashes \in 0 .. MaxCrashes
  BY <1>0 DEF Init, RoleInit
<1>5. healthy \in BOOLEAN /\ cutOff \in BOOLEAN
  BY DEF Init, RoleInit
<1> QED
  BY <1>2, <1>3, <1>4, <1>5, Zenon DEF Init, RoleInit, TypeOK, RoleTypeOK

(* A task of the role, a step of the operator or of a server keeps that.   *)
LEMMA DataStep ==
    ASSUME DataOK, [Next]_vars
    PROVE  DataOK'
<1>0. MaxRuns \in Nat /\ MaxCrashes \in Nat
  BY RoleAssumption
<1>1. DataOK /\ ServerTypeOK
  BY DEF DataOK
<1>2. CASE UNCHANGED vars
  BY <1>1, <1>2 DEF vars, serverVars, roleVars, history, factVars, DataOK, ServerTypeOK
<1>3. ASSUME NEW S \in SUBSET Hosts, AddHosts(S) PROVE DataOK'
  BY <1>1, <1>3 DEF AddHosts, history, DataOK, ServerTypeOK, serverVars, factVars, Idle
<1>4. CASE StartRun
  <2>1. runs < MaxRuns /\ runs \in 0 .. MaxRuns
    BY <1>1, <1>4 DEF StartRun, DataOK
  <2>2. runs + 1 \in 0 .. MaxRuns
    BY <1>0, <2>1
  <2> QED
    BY <1>1, <1>4, <2>2 DEF StartRun, DataOK, ServerTypeOK, serverVars, factVars
<1>41. CASE Interrupt
  BY <1>1, <1>41 DEF Interrupt, ForgetFacts, DataOK, ServerTypeOK, serverVars
<1>5. ASSUME Abort PROVE DataOK'
  BY <1>1, <1>5 DEF Abort, Goto, history, ForgetFacts, DataOK, ServerTypeOK, serverVars
<1>6. CASE CheckHealth
  BY <1>1, <1>6 DEF CheckHealth, Goto, history, DataOK, ServerTypeOK, serverVars
<1>7. CASE WriteConfig
  <2>1. ServerTypeOK' /\ notified' \subseteq Hosts
    BY <1>1, <1>7, WriteConfType DEF WriteConfig, DataOK
  <2> QED
    BY <1>1, <1>7, <2>1 DEF WriteConfig, Goto, history, DataOK
<1>8. CASE EnsureRunning
  BY <1>1, <1>8 DEF EnsureRunning, Goto, history, DataOK, ServerTypeOK, factVars
<1>9. CASE StartReturns
  BY <1>1, <1>9 DEF StartReturns, Goto, history, DataOK, ServerTypeOK, serverVars, factVars
<1>10. CASE WaitHealthy
  BY <1>1, <1>10 DEF WaitHealthy, Goto, history, DataOK, ServerTypeOK, serverVars
<1>11. CASE CheckMembers
  <2>1. inCluster' \subseteq Hosts /\ todo' \subseteq Hosts
    BY <1>1, <1>11 DEF CheckMembers, ToJoin, DataOK
  <2> QED
    BY <1>1, <1>11, <2>1 DEF CheckMembers, Goto, history, DataOK, ServerTypeOK, serverVars
<1>12. ASSUME pc \in {"add", "addconfig", "verify", "joinstart"}
       PROVE  First(todo) \in todo /\ First(todo) \in Hosts
  BY <1>1, <1>12, FirstIn DEF DataOK
<1>13. CASE JoinAdd
  <2>1. PICK c \in Reachable(inv) : AddSucceeds(c, First(todo))
    BY <1>13 DEF JoinAdd
  <2>2. c \in Clusters
    BY <1>1, <2>1 DEF Reachable, DataOK, ServerTypeOK
  <2>3. members' \in [Clusters -> SUBSET Hosts]
    <3>1. First(todo) \in Hosts
      BY <1>12, <1>13 DEF JoinAdd
    <3> QED
      BY <1>1, <2>1, <2>2, <3>1 DEF AddSucceeds, AddMember, ServerTypeOK, serverVars
  <2>4. ServerTypeOK'
    BY <1>1, <2>1, <2>3 DEF AddSucceeds, ServerTypeOK, serverVars
  <2> QED
    BY <1>1, <1>13, <2>4 DEF JoinAdd, Goto, history, DataOK, factVars
<1>14. CASE JoinConfig
  <2>1. First(todo) \in Hosts
    BY <1>12, <1>14 DEF JoinConfig
  <2>2. ServerTypeOK' /\ notified' \subseteq Hosts
    BY <1>1, <1>14, <2>1, WriteConfType DEF JoinConfig, DataOK
  <2>3. pc = "addconfig" /\ pc' = "verify" /\ UNCHANGED <<hostType, inv, runs, crashes, cutOff, healthy, inCluster, todo>>
    BY <1>14 DEF JoinConfig, Goto, history
  <2> QED
    BY <1>1, <2>2, <2>3 DEF DataOK
<1>15. CASE JoinVerify
  <2>1. First(todo) \in Hosts
    BY <1>12, <1>15 DEF JoinVerify
  <2> QED
    BY <1>1, <1>15, <2>1 DEF JoinVerify, Goto, history, DataOK, ServerTypeOK, serverVars
<1>16. CASE JoinStart
  BY <1>1, <1>16 DEF JoinStart, Goto, history, DataOK, ServerTypeOK, serverVars
<1>17. CASE RefreshConfig
  <2>1. ServerTypeOK' /\ notified' \subseteq Hosts
    BY <1>1, <1>17, WriteConfType DEF RefreshConfig, DataOK
  <2> QED
    BY <1>1, <1>17, <2>1 DEF RefreshConfig, Goto, history, DataOK
<1>18. CASE Reload
  BY <1>1, <1>18 DEF Reload, Goto, history, DataOK, ServerTypeOK, factVars
<1>19. CASE WaitUp
  BY <1>1, <1>19 DEF WaitUp, Goto, history, ForgetFacts, DataOK, ServerTypeOK, serverVars
<1>20. CASE ServerStep
  <2>1. ServerTypeOK'
    BY <1>1, <1>20, ServerStepType DEF ServerStep
  <2> QED
    BY <1>1, <1>20, <2>1 DEF ServerStep, roleVars, history, factVars, DataOK
<1>21. CASE CrashStep
  BY <1>0, <1>1, <1>21 DEF CrashStep, Crash, factVars, DataOK, ServerTypeOK
<1> QED
  BY <1>2, <1>3, <1>4, <1>41, <1>5, <1>6, <1>7, <1>8, <1>9, <1>10, <1>11, <1>13, <1>14,
     <1>15, <1>16, <1>17, <1>18, <1>19, <1>20, <1>21
     DEF Next, Play, StartFails, WaitFails, JoinAddFails, JoinVerifyFails, WaitUpFails

(* Every state the role can reach is well typed, and the loop over         *)
(* join_etcd_member.yml never runs on an empty list.                       *)
THEOREM TypeCorrect == Spec => []TypeOK
<1>1. Init => TypeOK
  BY TypeInit
<1>2. TypeOK /\ [Next]_vars => TypeOK'
  <2> SUFFICES ASSUME TypeOK, [Next]_vars PROVE TypeOK'
    OBVIOUS
  <2>1. DataOK /\ pc \in Tasks \cup {"idle", "done"}
    BY DEF TypeOK, RoleTypeOK, DataOK
  <2>2. DataOK'
    BY <2>1, DataStep
  <2>3. pc' \in Tasks \cup {"idle", "done"}
    <3>1. CASE Play
      BY <3>1 DEF Play, CheckHealth, WriteConfig, EnsureRunning, StartReturns, StartFails, WaitHealthy,
                  WaitFails, CheckMembers, JoinAdd, JoinAddFails, JoinConfig, JoinVerify,
                  JoinVerifyFails, JoinStart, RefreshConfig, Reload, WaitUp,
                  WaitUpFails, Abort, Goto, Tasks
    <3>2. CASE ~Play
      BY <2>1, <3>2 DEF Next, AddHosts, StartRun, Interrupt, ServerStep, CrashStep, vars, roleVars, Tasks
    <3> QED
      BY <3>1, <3>2
  <2> QED
    BY <2>2, <2>3 DEF TypeOK, RoleTypeOK, DataOK
<1> QED
  BY <1>1, <1>2, PTL DEF Spec

-----------------------------------------------------------------------------
(* DoneMeansExisting is not inductive: it depends on the outcome of the    *)
(* second health check still being registered when the files are written   *)
(* for the last time, and on nobody writing them between then and the end. *)
Assembled == \A h \in inv : conf[h] = [state |-> "existing", initial |-> inv]

DoneInv ==
    /\ TypeOK
    /\ pc \in {"check", "add", "addconfig", "verify", "joinstart", "refresh"} => healthy
    /\ pc \in {"reload", "up", "done"} => Assembled

(* A run that ends without an error leaves every environment file in state *)
(* existing with the whole group as peers, whatever fails or is cut off    *)
(* before, and whatever earlier runs left behind.                          *)
THEOREM DoneExisting == Spec => []DoneMeansExisting
<1>1. Init => DoneInv
  <2> SUFFICES ASSUME Init, TypeOK PROVE DoneInv
    BY TypeInit
  <2> QED
    BY DEF Init, RoleInit, DoneInv
<1>2. DoneInv /\ TypeOK' /\ [Next]_vars => DoneInv'
  <2> SUFFICES ASSUME DoneInv, TypeOK', [Next]_vars PROVE DoneInv'
    OBVIOUS
  <2>1. ASSUME UNCHANGED <<inv, conf>>, pc' = pc, UNCHANGED healthy PROVE DoneInv'
    BY <2>1 DEF DoneInv, Assembled
  <2>2. ASSUME pc' \in {"idle", "health", "config", "enable", "start", "wait"} PROVE DoneInv'
    BY <2>2 DEF DoneInv
  <2>3. CASE UNCHANGED vars
    BY <2>1, <2>3 DEF vars, serverVars, roleVars, history, factVars
  <2>4. CASE WaitHealthy
    BY <2>4 DEF WaitHealthy, Goto, history, DoneInv
  <2>5. CASE CheckMembers
    BY <2>5 DEF CheckMembers, Goto, history, DoneInv
  <2>6. CASE JoinAdd \/ JoinConfig \/ JoinVerify \/ JoinStart
    BY <2>6 DEF JoinAdd, JoinConfig, JoinVerify, JoinStart, Goto, history, factVars, DoneInv
  <2>7. CASE RefreshConfig
    <3>1. ConfState = "existing"
      BY <2>7 DEF RefreshConfig, DoneInv, ConfState
    <3>2. inv \subseteq Hosts
      BY DEF DoneInv, TypeOK, RoleTypeOK
    <3>3. Assembled'
      BY <2>7, <3>1, <3>2 DEF RefreshConfig, WriteConf, Goto, history, Assembled
    <3> QED
      BY <2>7, <3>3 DEF RefreshConfig, Goto, history, DoneInv
  <2>8. CASE Reload \/ WaitUp
    BY <2>8 DEF Reload, WaitUp, Goto, history, serverVars, factVars, DoneInv, Assembled
  <2>9. CASE ServerStep \/ CrashStep
    BY <2>1, <2>9 DEF ServerStep, CrashStep, Launch, Publish, Crash, roleVars, history, factVars
  <2>10. CASE CheckHealth \/ WriteConfig \/ EnsureRunning \/ StartReturns
    BY <2>2, <2>10 DEF CheckHealth, WriteConfig, EnsureRunning, StartReturns, Goto, history
  <2>11. CASE Abort
    BY <2>2, <2>11 DEF Abort, Goto, history
  <2>12. CASE StartRun \/ Interrupt \/ \E S \in SUBSET Hosts : AddHosts(S)
    BY <2>2, <2>12 DEF StartRun, Interrupt, AddHosts
  <2> QED
    BY <2>3, <2>4, <2>5, <2>6, <2>7, <2>8, <2>9, <2>10, <2>11, <2>12
       DEF Next, Play, StartFails, WaitFails, JoinAddFails, JoinVerifyFails, WaitUpFails
<1>3. DoneInv => DoneMeansExisting
  BY DEF DoneInv, Assembled, DoneMeansExisting
<1> QED
  BY <1>1, <1>2, <1>3, TypeCorrect, PTL DEF Spec
-----------------------------------------------------------------------------
(* What the proofs about the playbooks that include the role need.         *)

(* The tasks between `member add` and the start of the new member, and     *)
(* those of the run that bring hosts in.                                   *)
JoinStarts == {"verify", "joinstart"}
LoopTasks == {"check", "add", "addconfig"} \cup JoinStarts

(* Every set of hosts is finite.                                            *)
LEMMA HostSets ==
  ASSUME NEW S, S \subseteq Hosts
  PROVE  IsFiniteSet(S) /\ Cardinality(S) \in Nat
BY HostsAssumption, FS_Subset, FS_CardinalityType

(* A quorum is not lost while no live member goes.                         *)
LEMMA QuorumStays ==
  ASSUME ServerTypeOK, ServerTypeOK', NEW c \in Clusters, HasQuorum(c),
         members'[c] = members[c], Live(c) \subseteq Live(c)'
  PROVE  HasQuorum(c)'
<1>1. /\ Live(c) \subseteq Hosts /\ members[c] \subseteq Hosts
      /\ Live(c)' \subseteq Hosts
  BY DEF Live, ServerTypeOK
<1>2. IsFiniteSet(Live(c)') /\ Cardinality(Live(c)') \in Nat /\ Cardinality(Live(c)) \in Nat
      /\ Cardinality(members[c]) \in Nat
  BY <1>1, HostSets
<1>3. Cardinality(Live(c)) <= Cardinality(Live(c)')
  BY <1>2, FS_Subset
<1>4. 2 * Cardinality(Live(c)) > Cardinality(members[c])
  BY DEF HasQuorum
<1>5. 2 * Cardinality(Live(c)') > Cardinality(members[c])
  BY <1>2, <1>3, <1>4
<1> QED
  BY <1>5 DEF HasQuorum
=============================================================================
