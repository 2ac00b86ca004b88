------------------------- MODULE EtcdRecoverProofs -------------------------
(***************************************************************************)
(* Proofs about the recovery of a broken etcd cluster (EtcdRecover), for   *)
(* every set of hosts, whichever of them break, and any number of runs,    *)
(* cut off or not, and of crashes.                                         *)
(*                                                                         *)
(* The cluster F is unbroken (Unbroken), or has a second survivor, whose   *)
(* data nothing touches (Another), or has one survivor, the first host of  *)
(* the group (Alone).  The last case is the hard one: there the playbook   *)
(* deletes the only data directory, and later runs may do so again.        *)
(* Regains adds what a run achieves for that survivor, and SmoothInv what  *)
(* undisturbed runs achieve for it or for a majority.                      *)
(***************************************************************************)
EXTENDS EtcdRecover, EtcdRoleProofs, FiniteSetTheorems, TLAPS

(* What is restored from the snapshot is a cluster of the first host.      *)
Restored == {Me}

Typed ==
    /\ DataOK
    /\ broken \subseteq Hosts /\ left \subseteq Hosts
    /\ snapshot \in Clusters

-----------------------------------------------------------------------------
(* The cluster F before hosts break: no playbook has anything to do.       *)
Unbroken(F) ==
    /\ inv = F /\ broken = {} /\ lineage = {F} /\ snapshot = NoData
    /\ enabled \subseteq F /\ todo = {} /\ stale = {} /\ left = {} /\ pc = "idle"
    /\ \A h \in Hosts :
          /\ data[h] = (IF h \in F THEN F ELSE NoData)
          /\ proc[h] # "down" => h \in F
    /\ \A c \in Clusters : members[c] = c /\ (c # F => started[c] = {})

(* A second survivor: nothing in the playbook touches its data.            *)
Another(F) ==
    /\ broken # {}
    /\ F \in lineage /\ F \notin {Restored, NoData} /\ inv # {}
    /\ \E h \in inv \ Restored : h \notin broken /\ data[h] = F

-----------------------------------------------------------------------------
(* One survivor, the first host of the group.  F has lost its quorum for   *)
(* good, so the playbook replaces it by a restored cluster; whenever it    *)
(* does so again, somebody else may come into a cluster of its own: a      *)
(* replacement whose environment file says "new" because a health check    *)
(* failed (CheckHealth).  It never serves, being outvoted: a run goes on   *)
(* to cluster.yml only if it has restored the cluster or if half of the    *)
(* group is healthy.  This is where a crash while a host is pending would  *)
(* do harm.                                                                *)
Sole(F) ==
    /\ inv \cap F = Restored /\ F # Restored
    /\ broken = F \ Restored
    /\ F \in lineage /\ lineage \subseteq {F, Restored}

(* Who has which data, and who is a member of what.                        *)
Group(F) ==
    /\ enabled \subseteq inv /\ todo \subseteq inv /\ left \subseteq broken
    /\ \A h \in Hosts : proc[h] # "down" => h \in inv /\ data[h] # NoData
    /\ \A h \in inv : data[h] \in {NoData, F, Restored, inv}
    /\ \A h \in inv \ Restored : data[h] # F
    /\ data[Me] = F => \A h \in inv \ Restored : data[h] = NoData
    /\ members[F] = F
    /\ inv # Restored => members[inv] = inv
    /\ members[Restored] \subseteq inv /\ started[Restored] \subseteq inv
    /\ \A h \in started[Restored] \ Restored : data[h] = Restored
    /\ Me \notin stale
    /\ \A h \in stale \cap inv : data[h] = Restored

(* The database is on the survivor or in the snapshot.                     *)
Saved ==
    /\ data[Me] = NoData => snapshot \in lineage
    /\ pc \in {"stop", "wipe", "restore"} => snapshot \in lineage
    /\ pc = "wipe" => Me \notin enabled /\ proc[Me] = "down"
    /\ \A h \in inv : data[h] = Restored => Restored \in lineage
    /\ pc \in {"unsave", "reconfigure", "restart"} =>
          data[Me] = Restored /\ members[Restored] = Restored

Holders == {h \in inv \ Restored : data[h] = Restored}
Outvoted == 2 * Cardinality(Holders) >= Cardinality(inv)

AllHealthy ==
    /\ Healthy(Restored)
    /\ Reachable(inv) = {Restored}
    /\ members[Restored] \cap stale = {}

(* The file a host would bootstrap a cluster of its own from.              *)
NewFile(h) == data[h] = NoData /\ conf[h].state = "new"

(* Whoever has, or may come to, a cluster of its own is outvoted.          *)
Outnumbered ==
    /\ \A h \in enabled : NewFile(h) => conf[h].initial = inv /\ Outvoted
    /\ pc = "enable" => \A h \in inv : NewFile(h) => conf[h].initial = inv /\ Outvoted
    /\ pc = "config" => Pending = {} \/ healthy \/ Outvoted
    /\ pc \in {"clean", "list", "strike", "health"} => Pending = {} \/ AllHealthy \/ Outvoted
    /\ pc \in LoopTasks \cup {"refresh"} => healthy
    /\ inv # Restored => \A h \in inv : data[h] = inv => Outvoted /\ ~Ready(h)

Alone(F) == Sole(F) /\ Group(F) /\ Saved /\ Outnumbered

RecoverInv == Typed /\ \E F \in Clusters : Unbroken(F) \/ Another(F) \/ Alone(F)

-----------------------------------------------------------------------------
LEMMA MeIn ==
  ASSUME Typed, inv # {}
  PROVE  Me \in inv /\ Me \in Hosts /\ \A h \in inv : Me <= h
BY FirstIn DEF Typed, DataOK, Me

LEMMA MeStays == inv' = inv => Me' = Me /\ Restored' = Restored
BY DEF Me, First, Restored

(* The recovery's own tasks keep the types.                                *)
LEMMA TypedRecover ==
  ASSUME Typed, inv # {}, StartRecover \/ RecoverPlay \/ RecoverInterrupt
  PROVE  Typed'
<1>0. DataOK /\ ServerTypeOK /\ Me \in Hosts
  BY MeIn DEF Typed, DataOK
<1>1. CASE StartRecover
  <2>1. MaxRuns \in Nat /\ runs \in 0 .. MaxRuns /\ runs < MaxRuns
    BY <1>0, <1>1, RoleAssumption DEF StartRecover, DataOK
  <2>2. runs + 1 \in 0 .. MaxRuns
    BY <2>1
  <2> QED
    BY <1>0, <1>1, <2>2 DEF StartRecover, Typed, DataOK, ServerTypeOK, serverVars, factVars, recoverVars
<1>2. ASSUME UNCHANGED <<hostType, inv, runs, crashes, cutOff, healthy, inCluster, todo, notified>>,
             pc' \in RecoverTasks \cup {"health"}, ServerTypeOK',
             broken' = broken, left' \subseteq Hosts, snapshot' \in Clusters
      PROVE  Typed'
  BY <1>0, <1>2 DEF Typed, DataOK, RecoverTasks, RestoreTasks
<1>3. CASE Assess \/ ListMembers \/ SaveSnapshot \/ RemoveSnapshot \/ StartCluster
  <2>1. left' \subseteq Hosts /\ snapshot' \in Clusters /\ broken' = broken
    BY <1>0, <1>3 DEF Assess, ListMembers, SaveSnapshot, RemoveSnapshot, StartCluster, Typed, recoverVars,
                      ServerTypeOK, Clusters, NoData
  <2>2. ServerTypeOK'
    BY <1>0, <1>3 DEF Assess, ListMembers, SaveSnapshot, RemoveSnapshot, StartCluster, serverVars, ServerTypeOK
  <2> QED
    BY <1>2, <1>3, <2>1, <2>2 DEF Assess, ListMembers, SaveSnapshot, RemoveSnapshot, StartCluster,
       Then, Goto, factVars, history, RecoverTasks, RestoreTasks
<1>4. CASE CleanBroken
  <2>1. ServerTypeOK'
    BY <1>0, <1>4 DEF CleanBroken, ServerTypeOK, Clusters, NoData
  <2> QED
    BY <1>2, <1>4, <2>1 DEF CleanBroken, Then, Goto, factVars, history, recoverVars, Typed, RecoverTasks
<1>5. ASSUME NEW h \in Hosts, StrikeMember(h) PROVE Typed'
  <2>0. PICK c \in Reachable(inv) : RemoveMember(c, h)
    BY <1>5 DEF StrikeMember
  <2>1. ServerTypeOK'
    <3>1. UNCHANGED <<conf, enabled, data>>
      BY <1>5 DEF StrikeMember
    <3>2. \A k \in Clusters : members[k] \ {h} \subseteq Hosts /\ started[k] \ {h} \subseteq Hosts
      BY <1>0 DEF ServerTypeOK
    <3>3. /\ members' \in [Clusters -> SUBSET Hosts] /\ started' \in [Clusters -> SUBSET Hosts]
          /\ stale' \subseteq Hosts /\ proc' \in [Hosts -> {"down", "starting", "ready"}]
      BY <1>0, <2>0, <3>2 DEF RemoveMember, ServerTypeOK
    <3> QED
      BY <1>0, <3>1, <3>3 DEF ServerTypeOK
  <2> QED
    BY <1>2, <1>5, <2>1 DEF StrikeMember, Then, Goto, factVars, history, Typed, RecoverTasks
<1>6. CASE GiveUp \/ RecoverInterrupt
  BY <1>0, <1>6 DEF GiveUp, Abort, RecoverInterrupt, Interrupt, Goto, ForgetFacts, ForgetRecovery,
                    Typed, DataOK, ServerTypeOK, serverVars, history
<1>7. CASE StopServer \/ RemoveDataDir \/ Reconfigure
  <2>1. [conf EXCEPT ![Me].initial = {Me}] \in [Hosts -> Conf]
    BY <1>0 DEF ServerTypeOK, Conf
  <2>2. ServerTypeOK'
    BY <1>0, <1>7, <2>1 DEF StopServer, RemoveDataDir, Reconfigure, ServerTypeOK, Clusters, NoData
  <2> QED
    BY <1>2, <1>7, <2>2 DEF StopServer, RemoveDataDir, Reconfigure, Then, Goto, factVars, history, recoverVars,
       Typed, RecoverTasks, RestoreTasks
<1>8. CASE RestoreSnapshot
  <2>1. {Me} \in Clusters
    BY <1>0 DEF Clusters
  <2>2. ServerTypeOK'
    BY <1>0, <1>8, <2>1 DEF RestoreSnapshot, ServerTypeOK, Clusters
  <2> QED
    BY <1>2, <1>8, <2>2 DEF RestoreSnapshot, Then, Goto, factVars, history, recoverVars,
       Typed, RecoverTasks, RestoreTasks
<1>9. CASE StartServer
  BY <1>0, <1>9 DEF StartServer, Typed, DataOK, ServerTypeOK, roleVars, factVars, history, recoverVars
<1> QED
  BY <1>1, <1>3, <1>4, <1>5, <1>6, <1>7, <1>8, <1>9
     DEF RecoverPlay, ListMembersFails, StrikeFails, SaveSnapshotFails

(* What is left of RecoverNext is the operator, or a step of EtcdRole.     *)
LEMMA TypedRole ==
  ASSUME Typed, [Next]_vars, UNCHANGED recoverVars
  PROVE  Typed'
BY DataStep DEF Typed, recoverVars

LEMMA TypedBreak ==
  ASSUME Typed, NEW B \in SUBSET Hosts, NEW S \in SUBSET Hosts, Break(B, S)
  PROVE  Typed'
BY DEF Break, Typed, DataOK, ServerTypeOK, factVars, history

-----------------------------------------------------------------------------
(* Before hosts break.                                                     *)
LEMMA UnbrokenInit == RecoverInit => RecoverInv
<1> SUFFICES ASSUME RecoverInit PROVE RecoverInv
  OBVIOUS
<1>1. TypeOK /\ EstablishedInit(inv) /\ inv \subseteq Hosts
  BY TypeInit DEF RecoverInit, Init, RoleInit, TypeOK, RoleTypeOK
<1>2. Typed
  BY <1>1 DEF RecoverInit, Typed, TypeOK, RoleTypeOK, DataOK, Clusters, NoData
<1>3. inv \in Clusters
  BY <1>1 DEF Clusters
<1>4. Unbroken(inv)
  BY <1>1 DEF RecoverInit, RoleInit, EstablishedInit, Unbroken, RecoverTasks, RestoreTasks, NoData, Idle
<1> QED
  BY <1>2, <1>3, <1>4 DEF RecoverInv

(* A server's step: everybody is a member already.                         *)
LEMMA UnbrokenStep ==
  ASSUME Typed, NEW F \in Clusters, Unbroken(F),
         ServerStep \/ CrashStep \/ UNCHANGED vars, UNCHANGED <<recoverVars, lineage>>
  PROVE  Unbroken(F)'
<1>0. ServerTypeOK /\ inv = F /\ F \subseteq Hosts
  BY DEF Typed, DataOK, Unbroken, Clusters
<1>1. CASE UNCHANGED vars
  BY <1>1 DEF Unbroken, vars, serverVars, roleVars, factVars, recoverVars
<1>2. CASE CrashStep
  <2>1. \A h \in Hosts : proc'[h] = proc[h] \/ proc'[h] = "down"
    BY <1>0, <1>2 DEF CrashStep, Crash, ServerTypeOK
  <2> QED
    BY <1>2, <2>1 DEF CrashStep, Crash, factVars, Unbroken, recoverVars
<1>3. ASSUME NEW h \in Hosts, Launch(h), UNCHANGED roleVars PROVE Unbroken(F)'
  <2>1. h \in F /\ data[h] = F
    BY <1>3 DEF Launch, Unbroken
  <2>2. data' = data
    <3>1. PICK k \in Boot(h) : data' = [data EXCEPT ![h] = k]
      BY <1>3 DEF Launch
    <3>2. k = data[h]
      BY <2>1, <3>1 DEF Boot, NoData
    <3> QED
      BY <1>0, <3>1, <3>2 DEF ServerTypeOK
  <2>3. \A g \in Hosts : proc'[g] # "down" => g \in F
    BY <1>0, <1>3, <2>1 DEF Launch, Unbroken, ServerTypeOK
  <2> QED
    BY <1>3, <2>2, <2>3 DEF Launch, Unbroken, roleVars, factVars, recoverVars
<1>4. ASSUME NEW h \in Hosts, Publish(h), UNCHANGED roleVars PROVE Unbroken(F)'
  <2>1. h \in F /\ data[h] = F
    BY <1>4 DEF Publish, Unbroken
  <2>2. \A c \in Clusters : c # F => started'[c] = started[c]
    BY <1>0, <1>4, <2>1 DEF Publish, ServerTypeOK
  <2>3. \A g \in Hosts : proc'[g] # "down" => g \in F
    BY <1>0, <1>4, <2>1 DEF Publish, Unbroken, ServerTypeOK
  <2> QED
    BY <1>4, <2>2, <2>3 DEF Publish, Unbroken, roleVars, factVars, recoverVars
<1> QED
  BY <1>1, <1>2, <1>3, <1>4 DEF ServerStep

(* While none has broken, no run of a playbook is on or starts.            *)
LEMMA UnbrokenIdle ==
  ASSUME broken = {}, pc = "idle"
  PROVE  ~StartRecover /\ ~RecoverPlay /\ ~RecoverInterrupt /\ ~Play
BY DEF StartRecover, RecoverPlay, Assess, CleanBroken, ListMembers, ListMembersFails, StrikeMember, StrikeFails,
       SaveSnapshot, SaveSnapshotFails, StopServer, RemoveDataDir, RestoreSnapshot, RemoveSnapshot,
       Reconfigure, StartServer, StartCluster, RecoverInterrupt, Interrupt, Idle,
       Play, CheckHealth, WriteConfig, EnsureRunning, StartReturns, StartFails, WaitHealthy, WaitFails,
       CheckMembers, JoinAdd, JoinAddFails, JoinConfig, JoinVerify, JoinVerifyFails, JoinStart,
       RefreshConfig, Reload, WaitUp, WaitUpFails

(* Hosts break: the survivor that comes first is alone, or it is not.      *)
LEMMA BreakStep ==
  ASSUME Typed, Typed', NEW F \in Clusters, Unbroken(F),
         NEW B \in SUBSET Hosts, NEW S \in SUBSET Hosts, Break(B, S)
  PROVE  Another(F)' \/ Alone(F)'
<1>0. /\ ServerTypeOK /\ inv = F /\ F \subseteq Hosts
      /\ broken' = B /\ B # {} /\ B \subseteq F /\ B # F /\ inv' = (F \ B) \cup S
      /\ S \cap F = {} /\ \A s \in S, h \in F : h < s
      /\ lineage' = {F} /\ F # NoData
  BY DEF Break, Typed, DataOK, Unbroken, Clusters, NoData
<1>1. Me' \in inv' /\ Me' \in Hosts /\ \A h \in inv' : Me' <= h
  BY <1>0, FirstIn DEF Typed, DataOK, Me
<1>2. Me' \in F \ B
  <2>1. PICK h \in F \ B : TRUE
    BY <1>0
  <2>2. Me' <= h
    BY <1>0, <1>1
  <2>3. h \in Nat /\ Me' \in Nat
    BY <1>0, <1>1, HostsAssumption
  <2>4. Me' \notin S
    BY <1>0, <2>1, <2>2, <2>3
  <2> QED
    BY <1>0, <1>1, <2>4
<1>3. UNCHANGED <<conf, data, stale, members, started, snapshot, left, todo>> /\ pc' = "idle"
  BY DEF Break, factVars
<1>4. CASE \E h \in F \ B : h # Me'
  <2>1. PICK h \in F \ B : h # Me'
    BY <1>4
  <2>2. data'[h] = F /\ h \in inv' \ Restored' /\ h \notin broken'
    BY <1>0, <1>3, <2>1 DEF Unbroken, Restored
  <2>3. F # Restored'
    BY <2>1 DEF Restored
  <2> QED
    BY <1>0, <2>2, <2>3 DEF Another
<1>5. CASE \A h \in F \ B : h = Me'
  <2>1. F \ B = {Me'} /\ F # {Me'}
    BY <1>0, <1>2, <1>5
  <2>2. Sole(F)'
    BY <1>0, <2>1 DEF Sole, Restored
  <2>3. \A h \in Hosts : data'[h] = (IF h \in F THEN F ELSE NoData)
    BY <1>3 DEF Unbroken
  <2>4. inv' \subseteq Hosts /\ \A h \in inv' : h \in F => h = Me'
    BY <1>0, <2>1
  <2>5. enabled' \subseteq {Me'} /\ \A h \in Hosts : proc'[h] # "down" => h = Me'
    BY <1>0, <2>1 DEF Break, Unbroken
  <2>6. inv' \in Clusters /\ Restored' \in Clusters /\ inv' # F /\ Restored' # F
    BY <1>0, <1>1, <2>1, <2>4 DEF Restored, Clusters
  <2>7. /\ members'[F] = F /\ members'[inv'] = inv' /\ members'[Restored'] = Restored'
        /\ started'[Restored'] = {} /\ stale' = {} /\ todo' = todo /\ left' = {}
    BY <1>3, <2>6 DEF Unbroken
  <2>8. todo' = {} /\ pc' = "idle"
    BY <1>3 DEF Unbroken, Break, Idle
  <2>9. Group(F)'
    <3>1. enabled' \subseteq inv' /\ \A h \in Hosts : proc'[h] # "down" => h \in inv' /\ data'[h] # NoData
      BY <1>0, <1>1, <1>2, <2>3, <2>5
    <3>2. \A h \in inv' : data'[h] \in {NoData, F, Restored', inv'}
      BY <2>3, <2>4
    <3>3. \A h \in inv' \ Restored' : data'[h] = NoData
      BY <2>3, <2>4 DEF Restored
    <3>4. Restored' \subseteq inv'
      BY <1>1 DEF Restored
    <3> QED
      BY <1>0, <2>7, <2>8, <3>1, <3>2, <3>3, <3>4 DEF Group
  <2>10. data'[Me'] = F /\ \A h \in inv' : data'[h] = F \/ data'[h] = NoData
    BY <1>1, <1>2, <2>3, <2>4
  <2>11. Saved'
    BY <1>0, <2>6, <2>8, <2>10 DEF Saved, Restored, NoData
  <2>12. Outnumbered'
    <3>1. \A h \in enabled' : data'[h] # NoData
      BY <1>0, <2>5, <2>10
    <3>2. inv' # NoData
      BY <1>1 DEF NoData
    <3> QED
      BY <2>6, <2>8, <2>10, <3>1, <3>2 DEF Outnumbered, LoopTasks, JoinStarts, NewFile
  <2> QED
    BY <2>2, <2>9, <2>11, <2>12 DEF Alone
<1> QED
  BY <1>4, <1>5

-----------------------------------------------------------------------------
(* Once hosts have broken, the group is what it is.                        *)
LEMMA GroupFixed ==
  ASSUME broken # {}, [RecoverNext]_allVars
  PROVE  inv' = inv /\ broken' = broken /\ Me' = Me /\ Restored' = Restored
<1>1. CASE Play
  BY <1>1, MeStays DEF allVars, vars, roleVars, recoverVars, RecoverNext, Play, CheckHealth, WriteConfig, EnsureRunning,
           StartReturns, StartFails, WaitHealthy, WaitFails, CheckMembers, JoinAdd, JoinAddFails,
           JoinConfig, JoinVerify, JoinVerifyFails, JoinStart, RefreshConfig,
           Reload, WaitUp, WaitUpFails, Abort, Goto, Break, StartRecover, RecoverPlay, RecoverInterrupt,
           Interrupt, ForgetRecovery, Assess, CleanBroken, ListMembers, ListMembersFails, StrikeMember,
           StrikeFails, SaveSnapshot, SaveSnapshotFails, StopServer, RemoveDataDir, RestoreSnapshot,
           RemoveSnapshot, Reconfigure, StartServer, StartCluster, GiveUp, Then, ServerStep, CrashStep
<1>2. CASE ~Play
  BY <1>2, MeStays DEF allVars, vars, roleVars, recoverVars, RecoverNext, Abort, Goto, Break, StartRecover,
           RecoverPlay, RecoverInterrupt,
           Interrupt, ForgetRecovery, Assess, CleanBroken, ListMembers, ListMembersFails, StrikeMember,
           StrikeFails, SaveSnapshot, SaveSnapshotFails, StopServer, RemoveDataDir, RestoreSnapshot,
           RemoveSnapshot, Reconfigure, StartServer, StartCluster, GiveUp, Then, ServerStep, CrashStep
<1> QED
  BY <1>1, <1>2

(* No task and no start changes the data of a survivor that is not the     *)
(* first host.                                                             *)
LEMMA SurvivorKeeps ==
  ASSUME Typed, broken # {}, [RecoverNext]_allVars,
         NEW h \in inv \ Restored, h \notin broken, data[h] # NoData
  PROVE  data'[h] = data[h]
<1>0. h \in Hosts /\ h # Me /\ ServerTypeOK
  BY DEF Typed, DataOK, Restored
<1>1. ASSUME data' = data PROVE data'[h] = data[h]
  BY <1>1
<1>2. CASE UNCHANGED allVars
  BY <1>2 DEF allVars, vars, serverVars
<1>3. CASE StartRecover \/ RecoverInterrupt
  BY <1>3 DEF StartRecover, RecoverInterrupt, Interrupt, serverVars
<1>4. CASE RecoverPlay
  BY <1>0, <1>4 DEF RecoverPlay, Assess, CleanBroken, ListMembers, ListMembersFails, StrikeMember,
           StrikeFails, SaveSnapshot, SaveSnapshotFails, StopServer, RemoveDataDir, RestoreSnapshot,
           RemoveSnapshot, Reconfigure, StartServer, StartCluster, GiveUp, Abort, serverVars, ServerTypeOK
<1>5. CASE Play
  <2>1. data' = data
    BY <1>5 DEF Play, CheckHealth, WriteConfig, WriteConf, EnsureRunning,
           StartReturns, StartFails, WaitHealthy, WaitFails, CheckMembers, JoinAdd, AddSucceeds, JoinAddFails,
           JoinConfig, JoinVerify, JoinVerifyFails, JoinStart, RefreshConfig,
           Reload, WaitUp, WaitUpFails, Abort, serverVars
  <2> QED
    BY <2>1
<1>6. CASE ServerStep
  <2>1. PICK g \in Hosts : Launch(g) \/ Publish(g)
    BY <1>6 DEF ServerStep
  <2>2. CASE Publish(g)
    BY <2>2 DEF Publish
  <2>3. CASE Launch(g)
    <3>1. PICK k \in Boot(g) : data' = [data EXCEPT ![g] = k]
      BY <2>3 DEF Launch
    <3>2. g = h => k = data[h]
      BY <3>1 DEF Boot
    <3> QED
      BY <1>0, <3>1, <3>2 DEF ServerTypeOK
  <2> QED
    BY <2>1, <2>2, <2>3
<1>7. CASE CrashStep
  BY <1>7 DEF CrashStep, Crash
<1> QED
  BY <1>2, <1>3, <1>4, <1>5, <1>6, <1>7 DEF RecoverNext, Break

LEMMA LineageKeeps ==
  ASSUME [RecoverNext]_allVars, NEW c \in lineage, c # Restored
  PROVE  c \in lineage'
BY DEF RecoverNext, allVars, Break, StartRecover, RecoverInterrupt, ForgetRecovery, RecoverPlay, Assess,
       CleanBroken, ListMembers, ListMembersFails, StrikeMember, StrikeFails, SaveSnapshot,
       SaveSnapshotFails, StopServer, RemoveDataDir, RestoreSnapshot, RemoveSnapshot, Reconfigure,
       StartServer, StartCluster, GiveUp, Restored

LEMMA AnotherStep ==
  ASSUME Typed, NEW F \in Clusters, Another(F), [RecoverNext]_allVars
  PROVE  Another(F)'
<1>1. PICK h \in inv \ Restored : h \notin broken /\ data[h] = F
  BY DEF Another
<1>2. data'[h] = F
  BY <1>1, SurvivorKeeps DEF Another
<1> QED
  BY <1>1, <1>2, GroupFixed, LineageKeeps DEF Another

-----------------------------------------------------------------------------
(* The sole survivor.                                                      *)
LEMMA AloneFacts ==
  ASSUME Typed, NEW F \in Clusters, Alone(F)
  PROVE  /\ ServerTypeOK /\ inv # {} /\ inv \subseteq Hosts
         /\ Me \in inv /\ Me \in Hosts /\ Me \in F
         /\ inv \in Clusters /\ Restored \in Clusters /\ NoData \in Clusters
         /\ F # NoData /\ Restored # NoData /\ inv # F /\ broken \cap inv = {}
         /\ members[Restored] \subseteq inv
         /\ \A h \in Hosts : data[h] \in Clusters
<1>1. ServerTypeOK /\ inv \subseteq Hosts
  BY DEF Typed, DataOK
<1>2. inv \cap F = {Me} /\ F # {Me} /\ broken = F \ {Me}
  BY DEF Alone, Sole, Restored
<1> QED
  BY <1>1, <1>2 DEF Alone, Group, Restored, NoData, Clusters, ServerTypeOK

(* A server that runs is one of the group's; F is the first host's alone.  *)
LEMMA AloneLive ==
  ASSUME Typed, NEW F \in Clusters, Alone(F), NEW c \in Clusters, NEW h \in Live(c)
  PROVE  h \in inv /\ data[h] = c /\ c \in {F, Restored, inv} /\ (c = F => h = Me)
<1>1. h \in Hosts /\ data[h] = c /\ proc[h] # "down"
  BY AloneFacts DEF Live, ServerTypeOK
<1> QED
  BY <1>1 DEF Alone, Group, Restored

(* No cluster but the restored one has a quorum.                           *)
LEMMA AloneQuorum ==
  ASSUME Typed, NEW F \in Clusters, Alone(F), NEW c \in Clusters, HasQuorum(c)
  PROVE  c = Restored
<1>0. /\ ServerTypeOK /\ inv \subseteq Hosts /\ Me \in F /\ F \subseteq Hosts /\ Restored \in Clusters
      /\ Live(c) \subseteq Hosts
  BY AloneFacts DEF Clusters, Live, ServerTypeOK
<1>1. Cardinality(members[c]) \in Nat /\ Cardinality(Live(c)) \in Nat
  BY <1>0, HostSets DEF ServerTypeOK
<1>2. 2 * Cardinality(Live(c)) > Cardinality(members[c])
  BY DEF HasQuorum
<1>3. Live(c) # {}
  BY <1>1, <1>2, FS_EmptySet
<1>4. c \in {F, Restored, inv}
  BY <1>3, AloneLive
<1>5. CASE c = F /\ c # Restored
  <2>1. Live(c) \subseteq {Me} /\ members[c] = F
    BY <1>5, AloneLive DEF Alone, Group
  <2>2. IsFiniteSet({Me}) /\ Cardinality({Me}) = 1
    BY FS_Singleton
  <2>3. Cardinality(Live(c)) <= 1
    BY <2>1, <2>2, FS_Subset
  <2>4. PICK g \in F : g # Me
    BY <1>0, <1>5 DEF Restored
  <2>5. {Me, g} \subseteq F /\ IsFiniteSet(F)
    BY <1>0, <2>4, HostSets
  <2>6. Cardinality({Me, g}) = 2
    <3>1. {Me, g} = {Me} \cup {g} /\ g \notin {Me}
      BY <2>4
    <3>2. Cardinality({Me} \cup {g}) = Cardinality({Me}) + 1
      BY <2>2, <3>1, FS_AddElement
    <3> QED
      BY <2>2, <3>1, <3>2
  <2>7. Cardinality(F) >= 2
    BY <2>5, <2>6, FS_Subset, HostSets
  <2> QED
    BY <1>0, <1>1, <1>2, <2>1, <2>3, <2>7, HostSets
<1>6. CASE c = inv /\ c # Restored
  <2>1. PICK h \in inv : data[h] = inv
    BY <1>3, <1>6, AloneLive
  <2>2. members[inv] = inv /\ 2 * Cardinality(Holders) >= Cardinality(inv)
    BY <1>6, <2>1 DEF Alone, Group, Outnumbered, Outvoted
  <2>3. Holders \subseteq inv /\ IsFiniteSet(inv)
    BY <1>0, HostSets DEF Holders
  <2>4. Live(inv) \subseteq inv \ Holders
    BY <1>6, AloneLive DEF Holders
  <2>5. inv \ Holders \subseteq Hosts
    BY <1>0
  <2>6. Cardinality(Live(inv)) <= Cardinality(inv \ Holders)
    BY <2>4, <2>5, HostSets, FS_Subset
  <2>7. inv \cap Holders = Holders
    BY <2>3
  <2>8. Cardinality(inv \ Holders) = Cardinality(inv) - Cardinality(Holders)
    BY <2>3, <2>7, FS_Difference
  <2>9. Cardinality(inv) \in Nat /\ Cardinality(Holders) \in Nat /\ Cardinality(Live(inv)) \in Nat
    BY <1>0, <1>1, <1>6, <2>3, HostSets
  <2> QED
    BY <1>2, <1>6, <2>2, <2>6, <2>8, <2>9
<1> QED
  BY <1>4, <1>5, <1>6

LEMMA AloneReady ==
  ASSUME Typed, NEW F \in Clusters, Alone(F), NEW h \in Hosts, Ready(h)
  PROVE  h \in inv /\ (data[h] = Restored \/ (h = Me /\ data[h] = F))
<1>1. proc[h] # "down"
  BY DEF Ready
<1>2. h \in inv /\ data[h] \in {F, Restored, inv}
  BY <1>1 DEF Alone, Group
<1>3. data[h] = F => h = Me
  BY <1>2 DEF Alone, Group, Restored
<1>4. data[h] = inv => inv = Restored
  BY <1>2 DEF Alone, Outnumbered
<1> QED
  BY <1>2, <1>3, <1>4

(* An outvoted host has somebody with the database beside it.              *)
LEMMA OutvotedHolder ==
  ASSUME Typed, NEW F \in Clusters, Alone(F), Outvoted
  PROVE  /\ \E h \in inv \ Restored : data[h] = Restored
         /\ inv # Restored /\ data[Me] # F
<1>0. inv # {} /\ inv \subseteq Hosts /\ Restored # NoData
  BY AloneFacts
<1>1. Cardinality(inv) \in Nat /\ Cardinality(inv) # 0
  BY <1>0, HostSets, FS_EmptySet
<1>2. Holders # {}
  BY <1>1, FS_EmptySet DEF Outvoted
<1>3. PICK h \in inv \ Restored : data[h] = Restored
  BY <1>2 DEF Holders
<1> QED
  BY <1>0, <1>3 DEF Alone, Group

(* If the health check finds half of the group healthy, the restored       *)
(* cluster is healthy, or half of the group besides the first host has its *)
(* data: whoever makes it unhealthy has.                                   *)
LEMMA AssessSays ==
  ASSUME Typed, NEW F \in Clusters, Alone(F), QuorumFact
  PROVE  AllHealthy \/ Outvoted
<1>0. /\ ServerTypeOK /\ inv \subseteq Hosts /\ inv # {} /\ Me \in inv /\ members[Restored] \subseteq inv
      /\ Restored \in Clusters /\ \A h \in Hosts : data[h] \in Clusters
  BY AloneFacts
<1> DEFINE SH == SaysHealthy
<1>1. SH \subseteq inv /\ IsFiniteSet(inv) /\ IsFiniteSet(SH)
  BY <1>0, HostSets DEF SaysHealthy
<1>2. \A h \in SH : Ready(h) /\ h \notin stale /\ data[h] = Restored /\ HasQuorum(Restored)
  BY <1>0, AloneQuorum DEF SaysHealthy
<1>3. Cardinality(inv) \in Nat /\ Cardinality(SH) \in Nat /\ Cardinality(inv) # 0
  BY <1>0, <1>1, HostSets, FS_EmptySet
<1>4. Cardinality(inv \ SH) = Cardinality(inv) - Cardinality(SH)
  <2>1. inv \cap SH = SH
    BY <1>1
  <2> QED
    BY <1>1, <2>1, FS_Difference
<1>5. 2 * Cardinality(SH) >= Cardinality(inv)
  BY <1>3, <1>4 DEF QuorumFact
<1>6. SH # {}
  BY <1>3, <1>5, FS_EmptySet
<1>7. PICK h \in SH : TRUE
  BY <1>6
<1>8. HasQuorum(Restored) /\ Restored \in Reachable(inv)
  BY <1>1, <1>2, <1>7 DEF Reachable
<1>9. \A g \in inv : Ready(g) => data[g] = Restored
  <2>1. data[Me] # F
    <3>1. h \in inv /\ data[h] = Restored /\ Restored \notin {NoData, F}
      BY <1>1, <1>2, <1>7, AloneFacts DEF Alone, Sole
    <3>2. data[Me] = F => h = Me \/ data[h] = NoData
      BY <3>1 DEF Alone, Group, Restored
    <3> QED
      BY <3>1, <3>2
  <2> QED
    BY <1>0, <2>1, AloneReady
<1>10. Reachable(inv) = {Restored}
  BY <1>8, <1>9 DEF Reachable
<1>11. CASE /\ \A x \in started[Restored] \cap members[Restored] :
                 Ready(x) /\ data[x] = Restored /\ x \notin stale
            /\ members[Restored] \cap stale = {}
  BY <1>8, <1>10, <1>11 DEF AllHealthy, Healthy
<1>12. ASSUME NEW x \in members[Restored], x \notin SH,
              x \in started[Restored] \/ x \in stale
       PROVE  Outvoted
  <2>1. x \in inv /\ x \in Hosts /\ (x # Me => data[x] = Restored)
    BY <1>0, <1>12 DEF Alone, Group, Restored
  <2>2. IsFiniteSet(Holders) /\ Cardinality(Holders) \in Nat
    BY <1>0, HostSets DEF Holders
  <2>3. SH \ {Me} \subseteq Holders
    BY <1>1, <1>2 DEF Holders, Restored
  <2>4. CASE x = Me
    <3>1. SH \subseteq Holders
      BY <1>12, <2>3, <2>4
    <3>2. Cardinality(SH) <= Cardinality(Holders)
      BY <2>2, <3>1, FS_Subset
    <3> QED
      BY <1>3, <1>5, <2>2, <3>2 DEF Outvoted
  <2>5. CASE x # Me
    <3>1. x \in Holders
      BY <2>1, <2>5 DEF Holders, Restored
    <3>2. (SH \ {Me}) \cup {x} \subseteq Holders /\ IsFiniteSet(SH \ {Me}) /\ x \notin SH \ {Me}
      BY <1>1, <1>12, <2>3, <3>1, FS_Subset
    <3>3. Cardinality((SH \ {Me}) \cup {x}) = Cardinality(SH \ {Me}) + 1
      BY <3>2, FS_AddElement
    <3>4. Cardinality((SH \ {Me}) \cup {x}) <= Cardinality(Holders)
      BY <2>2, <3>2, FS_Subset
    <3>5. Cardinality(SH \ {Me}) = (IF Me \in SH THEN Cardinality(SH) - 1 ELSE Cardinality(SH))
      BY <1>1, FS_RemoveElement
    <3> QED
      BY <1>3, <1>5, <2>2, <3>3, <3>4, <3>5 DEF Outvoted
  <2> QED
    BY <2>4, <2>5
<1> QED
  BY <1>2, <1>11, <1>12

(* A step that leaves the data and the member lists alone.                 *)
Calm ==
    /\ UNCHANGED <<inv, broken, lineage, data, stale, members, started>>
    /\ enabled' \subseteq inv /\ todo' \subseteq inv /\ left' \subseteq broken
    /\ \A h \in Hosts : proc'[h] = proc[h] \/ proc'[h] = "down"

LEMMA CalmKeeps ==
  ASSUME Typed, NEW F \in Clusters, Alone(F), Calm
  PROVE  /\ Sole(F)' /\ Group(F)'
         /\ Me' = Me /\ Restored' = Restored /\ Outvoted' = Outvoted /\ Pending' = Pending
         /\ inv # Restored => \A h \in inv : data[h] = inv => Outvoted /\ ~Ready(h)'
<1>1. Me' = Me /\ Restored' = Restored
  BY MeStays DEF Calm
<1>2. inv \subseteq Hosts
  BY AloneFacts
<1> QED
  BY <1>1, <1>2 DEF Calm, Alone, Sole, Group, Outvoted, Holders, Pending, Outnumbered, Ready

(* The tasks that change no environment file, and enable no server.        *)
LEMMA CalmOutnumbered ==
  ASSUME Typed, NEW F \in Clusters, Alone(F), Calm, UNCHANGED <<conf, enabled>>,
         pc' = "enable" => FALSE,
         pc' = "config" => Pending = {} \/ healthy' \/ Outvoted,
         pc' \in {"clean", "list", "strike", "health"} => Pending = {} \/ AllHealthy' \/ Outvoted,
         pc' \in LoopTasks \cup {"refresh"} => healthy'
  PROVE  Outnumbered'
BY CalmKeeps DEF Calm, Alone, Outnumbered, NewFile

LEMMA CalmSaved ==
  ASSUME Typed, NEW F \in Clusters, Alone(F), Calm, snapshot' = snapshot,
         pc' \notin RestoreTasks \/ pc' = "save"
  PROVE  Saved'
BY CalmKeeps DEF Calm, Alone, Saved, RestoreTasks

(* The tasks of cluster.yml that neither write files nor add a member.     *)
LEMMA AloneTasks ==
  ASSUME Typed, NEW F \in Clusters, Alone(F), UNCHANGED <<recoverVars, lineage>>,
         \/ CheckHealth \/ StartReturns \/ WaitHealthy \/ CheckMembers \/ JoinVerify \/ JoinStart
         \/ Reload \/ WaitUp \/ Abort
  PROVE  Alone(F)'
<1>0. /\ enabled \subseteq inv /\ todo \subseteq inv /\ left \subseteq broken
      /\ inv \subseteq Hosts /\ recoverVars' = recoverVars /\ lineage' = lineage
  BY AloneFacts DEF Alone, Group
<1>1. Calm /\ UNCHANGED <<conf, enabled>>
  BY <1>0 DEF Calm, CheckHealth, StartReturns, WaitHealthy, CheckMembers, JoinVerify, JoinStart, Reload, WaitUp,
              Abort, Goto, ForgetFacts, ToJoin, serverVars, factVars, recoverVars
<1>2. pc' \notin RestoreTasks \cup {"enable", "clean", "list", "strike", "health"}
  BY DEF CheckHealth, StartReturns, WaitHealthy, CheckMembers, JoinVerify, JoinStart, Reload, WaitUp,
         Abort, Goto, RestoreTasks
<1>3. ASSUME pc' = "config" PROVE Pending = {} \/ healthy' \/ Outvoted
  <2>1. CheckHealth
    BY <1>3 DEF StartReturns, WaitHealthy, CheckMembers, JoinVerify, JoinStart, Reload, WaitUp, Abort, Goto
  <2>2. AllHealthy => healthy'
    BY <2>1 DEF CheckHealth, AllHealthy
  <2> QED
    BY <2>1, <2>2 DEF CheckHealth, Alone, Outnumbered
<1>4. ASSUME pc' \in LoopTasks \cup {"refresh"} PROVE healthy'
  BY <1>4 DEF CheckHealth, StartReturns, WaitHealthy, CheckMembers, JoinVerify, JoinStart, Reload, WaitUp, Abort,
              Goto, factVars, LoopTasks, JoinStarts, Alone, Outnumbered
<1>5. Outnumbered'
  BY <1>1, <1>2, <1>3, <1>4, CalmOutnumbered
<1>6. Saved'
  BY <1>1, <1>2, CalmSaved DEF recoverVars
<1> QED
  BY <1>1, <1>5, <1>6, CalmKeeps DEF Alone

(* The files: "new" is written only where somebody outvotes it.            *)
LEMMA AloneFiles ==
  ASSUME Typed, NEW F \in Clusters, Alone(F), UNCHANGED <<recoverVars, lineage>>,
         WriteConfig \/ EnsureRunning \/ JoinConfig \/ RefreshConfig
  PROVE  Alone(F)'
<1>0. /\ enabled \subseteq inv /\ todo \subseteq inv /\ left \subseteq broken
      /\ inv \subseteq Hosts /\ recoverVars' = recoverVars /\ lineage' = lineage
  BY AloneFacts DEF Alone, Group
<1>1. Calm
  BY <1>0 DEF Calm, WriteConfig, EnsureRunning, JoinConfig, RefreshConfig, WriteConf, Goto, factVars, recoverVars
<1>2. pc' \in {"enable", "start", "verify", "reload"} /\ (pc' = "verify" => healthy')
  BY DEF WriteConfig, EnsureRunning, JoinConfig, RefreshConfig, Goto, Alone, Outnumbered, LoopTasks
<1>3. ASSUME NEW h \in inv, NewFile(h)', pc' = "enable" \/ h \in enabled'
      PROVE  conf'[h].initial = inv /\ Outvoted
  <2>1. h \in Hosts /\ data[h] = NoData /\ conf'[h].state = "new"
    BY <1>0, <1>1, <1>3 DEF NewFile, Calm
  <2>2. CASE WriteConfig
    <3>1. conf'[h] = [state |-> ConfState, initial |-> inv]
      BY <1>3, <2>1, <2>2 DEF WriteConfig, WriteConf
    <3>2. ~healthy /\ h \in Pending
      BY <1>3, <2>1, <3>1 DEF ConfState, Pending
    <3> QED
      BY <2>2, <3>1, <3>2 DEF WriteConfig, Alone, Outnumbered
  <2>3. CASE EnsureRunning
    BY <1>3, <2>1, <2>3 DEF EnsureRunning, Alone, Outnumbered, NewFile
  <2>4. CASE JoinConfig \/ RefreshConfig
    <3>1. healthy /\ h \in enabled
      BY <1>2, <1>3, <2>4 DEF JoinConfig, RefreshConfig, WriteConf, Goto, Alone, Outnumbered, LoopTasks
    <3>2. conf'[h] = conf[h]
      <4>1. ConfState = "existing"
        BY <3>1 DEF ConfState
      <4>2. PICK S, P : WriteConf(S, P)
        BY <2>4, Zenon DEF JoinConfig, RefreshConfig
      <4>3. conf'[h] = (IF h \in S THEN [state |-> "existing", initial |-> P] ELSE conf[h])
        BY <2>1, <4>1, <4>2 DEF WriteConf
      <4> QED
        BY <2>1, <4>3
    <3> QED
      BY <2>1, <3>1, <3>2 DEF Alone, Outnumbered, NewFile
  <2> QED
    BY <2>2, <2>3, <2>4
<1>4. inv' = inv /\ Outvoted' = Outvoted /\ enabled' \subseteq inv
  BY <1>1, CalmKeeps DEF Calm
<1>5. \A h \in inv : NewFile(h)' /\ (pc' = "enable" \/ h \in enabled') => conf'[h].initial = inv' /\ Outvoted'
  BY <1>3, <1>4
<1>6. Outnumbered'
  BY <1>1, <1>2, <1>4, <1>5, CalmKeeps DEF Outnumbered, LoopTasks, JoinStarts, Calm
<1>7. Saved'
  BY <1>1, <1>2, CalmSaved DEF recoverVars, RestoreTasks
<1> QED
  BY <1>1, <1>6, <1>7, CalmKeeps DEF Alone

(* A new member: nobody is added but to the restored cluster.              *)
LEMMA AloneJoinAdd ==
  ASSUME Typed, NEW F \in Clusters, Alone(F), UNCHANGED <<recoverVars, lineage>>, JoinAdd
  PROVE  Alone(F)'
<1>0. /\ enabled \subseteq inv /\ todo \subseteq inv /\ left \subseteq broken
      /\ inv \subseteq Hosts /\ recoverVars' = recoverVars /\ lineage' = lineage
      /\ ServerTypeOK /\ \A h \in Hosts : data[h] \in Clusters
      /\ Restored \in Clusters /\ inv \in Clusters /\ F # Restored
  BY AloneFacts DEF Alone, Group, Sole
<1>1. PICK c \in Reachable(inv) : AddSucceeds(c, First(todo))
  BY DEF JoinAdd
<1>2. /\ pc = "add" /\ pc' = "addconfig" /\ healthy' = healthy /\ inv' = inv /\ todo' = todo
      /\ UNCHANGED <<conf, enabled, proc, data, stale, started>>
  BY <1>1 DEF JoinAdd, AddSucceeds, Goto, factVars, serverVars
<1>3. First(todo) \in inv
  BY <1>0, <1>2, FirstIn DEF Typed, DataOK
<1>4. Me' = Me /\ Restored' = Restored
  BY <1>2, MeStays
<1>5. \A k \in Clusters : members'[k] = members[k] \/ (k = Restored /\ members'[k] = members[k] \cup {First(todo)})
  <2>1. CASE members' = members
    BY <2>1
  <2>2. CASE AddMember(c, First(todo))
    <3>1. c \in Clusters
      BY <1>0, <1>1 DEF Reachable
    <3>2. c = Restored
      BY <2>2, <3>1, AloneQuorum DEF AddMember
    <3> QED
      BY <1>0, <2>2, <3>2 DEF AddMember, ServerTypeOK
  <2> QED
    BY <1>1, <2>1, <2>2 DEF AddSucceeds, serverVars
<1>6. /\ members'[F] = F /\ (inv # Restored => members'[inv] = inv)
      /\ members'[Restored] \subseteq inv
  BY <1>0, <1>3, <1>5 DEF Alone, Group
<1>7. Sole(F)' /\ Group(F)'
  BY <1>0, <1>2, <1>4, <1>6 DEF Alone, Sole, Group, recoverVars
<1>8. Saved'
  BY <1>0, <1>2, <1>4 DEF Alone, Saved, recoverVars
<1>9. Outvoted' = Outvoted /\ \A h \in Hosts : (NewFile(h)' <=> NewFile(h)) /\ (Ready(h)' <=> Ready(h))
  BY <1>2, <1>4 DEF Outvoted, Holders, NewFile, Ready
<1>10. Outnumbered'
  BY <1>0, <1>2, <1>4, <1>9 DEF Alone, Outnumbered, LoopTasks
<1> QED
  BY <1>7, <1>8, <1>10 DEF Alone

LEMMA AlonePlay ==
  ASSUME Typed, NEW F \in Clusters, Alone(F), UNCHANGED <<recoverVars, lineage>>, Play
  PROVE  Alone(F)'
BY AloneTasks, AloneFiles, AloneJoinAdd
   DEF Play, StartFails, WaitFails, JoinAddFails, JoinVerifyFails, WaitUpFails

-----------------------------------------------------------------------------
(* The servers.                                                            *)

(* While no server exits, a healthy cluster stays healthy.                 *)
LEMMA HealthyStays ==
  ASSUME Typed, Typed', NEW F \in Clusters, Alone(F), AllHealthy,
         UNCHANGED <<inv, stale, members>>,
         \A h \in Hosts : proc[h] # "down" => data'[h] = data[h] /\ proc'[h] # "down",
         \A h \in Hosts : Ready(h) => Ready(h)',
         \A h \in inv : Ready(h)' => data'[h] = Restored,
         \A h \in started'[Restored] : h \in started[Restored] \/ (Ready(h)' /\ data'[h] = Restored)
  PROVE  AllHealthy'
<1>0. /\ ServerTypeOK /\ ServerTypeOK' /\ Restored \in Clusters /\ inv \subseteq Hosts
      /\ members[Restored] \subseteq inv /\ Me' = Me /\ Restored' = Restored
  BY AloneFacts, MeStays DEF Typed, DataOK
<1>1. HasQuorum(Restored)
  BY DEF AllHealthy, Healthy
<1>2. PICK c \in Clusters : c = Restored
  BY <1>0
<1>3. HasQuorum(c)'
  <2>1. Live(c) \subseteq Live(c)'
    BY <1>0, <1>2 DEF Live, ServerTypeOK
  <2> QED
    BY <1>0, <1>1, <1>2, <2>1, QuorumStays
<1>4. ASSUME NEW h \in started'[c] \cap members'[c]
      PROVE  Ready(h)' /\ data'[h] = c /\ h \notin stale'
  <2>1. h \in inv /\ h \in Hosts /\ h \in members[c] /\ h \notin stale
    BY <1>0, <1>2, <1>4 DEF AllHealthy
  <2>2. CASE h \in started[c]
    <3>1. Ready(h) /\ data[h] = c
      BY <1>2, <2>1, <2>2 DEF AllHealthy, Healthy
    <3> QED
      BY <2>1, <3>1 DEF Ready
  <2>3. CASE h \notin started[c]
    BY <1>2, <1>4, <2>1, <2>3
  <2> QED
    BY <2>2, <2>3
<1>5. Healthy(c)'
  BY <1>3, <1>4 DEF Healthy
<1>6. Reachable(inv)' = {c}
  <2>1. PICK h \in inv : Ready(h)
    BY DEF AllHealthy, Reachable
  <2>2. Ready(h)' /\ h \in inv'
    BY <1>0, <2>1
  <2> QED
    BY <1>2, <2>2 DEF Reachable
<1>7. Restored' = c /\ members'[c] \cap stale' = {}
  BY <1>0, <1>2 DEF AllHealthy
<1> QED
  BY <1>5, <1>6, <1>7, Zenon DEF AllHealthy

LEMMA AloneLaunch ==
  ASSUME Typed, Typed', NEW F \in Clusters, Alone(F), UNCHANGED <<recoverVars, lineage>>,
         NEW h \in Hosts, Launch(h), UNCHANGED roleVars
  PROVE  Alone(F)'
<1>0. /\ ServerTypeOK /\ inv \subseteq Hosts /\ Me \in inv /\ Me \in Hosts
      /\ inv \in Clusters /\ Restored \in Clusters /\ F # Restored /\ F # NoData /\ Restored # NoData
      /\ inv # F /\ inv # NoData /\ inv \cap F = {Me} /\ F \in lineage
  BY AloneFacts DEF Alone, Sole, Restored, NoData
<1>1. PICK k \in Boot(h) : data' = [data EXCEPT ![h] = k]
  BY DEF Launch
<1>2. /\ UNCHANGED <<conf, enabled, stale, members, started>>
      /\ h \in enabled /\ proc[h] = "down"
      /\ \A g \in Hosts : proc'[g] = (IF g = h THEN "starting" ELSE proc[g])
      /\ \A g \in Hosts : data'[g] = (IF g = h THEN k ELSE data[g])
  BY <1>0, <1>1 DEF Launch, ServerTypeOK
<1>3. /\ UNCHANGED <<inv, pc, healthy, todo, broken, left, snapshot, lineage>>
      /\ Me' = Me /\ Restored' = Restored /\ h \in inv
  BY <1>2, MeStays DEF roleVars, factVars, recoverVars, Alone, Group
<1>4. data[h] # NoData => k = data[h]
  BY <1>1 DEF Boot
<1>5. ASSUME data[h] = NoData
      PROVE  /\ data[Me] # F
             /\ \/ k = Restored /\ \E r \in inv : data[r] = Restored
                \/ k = inv /\ inv # Restored /\ Outvoted
  <2>1. CASE conf[h].state = "new" /\ k = conf[h].initial
    <3>1. k = inv /\ Outvoted
      BY <1>2, <1>5, <2>1 DEF Alone, Outnumbered, NewFile
    <3> QED
      BY <3>1, OutvotedHolder
  <2>2. CASE /\ h \in conf[h].initial /\ members[k] = conf[h].initial
             /\ \E r \in conf[h].initial \ {h} : proc[r] # "down" /\ data[r] = k /\ r \notin stale
    <3>1. PICK r \in members[k] \ {h} : proc[r] # "down" /\ data[r] = k
      BY <2>2
    <3>2. k \in Clusters /\ h \in members[k] /\ r \in Hosts
      BY <1>0, <1>1, <1>5, <2>2, <3>1 DEF Boot, ServerTypeOK
    <3>3. r \in inv /\ k \in {F, Restored, inv} /\ (k = F => r = Me)
      BY <3>1, <3>2 DEF Alone, Group, Restored
    <3>4. k # F
      <4>1. k = F => h \in F /\ h # Me
        BY <3>1, <3>2, <3>3 DEF Alone, Group
      <4> QED
        BY <1>0, <1>3, <4>1
    <3>5. k = inv /\ inv # Restored => Outvoted
      BY <3>1, <3>3 DEF Alone, Outnumbered
    <3>6. data[Me] # F
      BY <1>0, <3>1, <3>3, <3>4 DEF Alone, Group, Restored
    <3> QED
      BY <3>1, <3>3, <3>4, <3>5, <3>6
  <2> QED
    BY <1>1, <1>5, <2>1, <2>2 DEF Boot
<1>6. /\ \A g \in inv : data'[g] \in {NoData, F, Restored, inv}
      /\ \A g \in inv \ Restored : data'[g] # F
      /\ data'[Me] = F => \A g \in inv \ Restored : data'[g] = NoData
  <2>1. CASE data[h] # NoData
    BY <1>0, <1>2, <1>4, <2>1 DEF Alone, Group
  <2>2. CASE data[h] = NoData
    BY <1>0, <1>2, <1>5, <2>2 DEF Alone, Group
  <2> QED
    BY <2>1, <2>2
<1>7. k # NoData /\ \A g \in Hosts : data[g] # NoData => data'[g] = data[g]
  BY <1>0, <1>2, <1>4, <1>5
<1>8. Sole(F)' /\ Group(F)'
  <2>1. \A g \in Hosts : proc'[g] # "down" => g \in inv /\ data'[g] # NoData
    BY <1>2, <1>3, <1>7 DEF Alone, Group
  <2>2. \A g \in started[Restored] \ Restored : data'[g] = Restored
    BY <1>0, <1>7 DEF Alone, Group
  <2>3. \A g \in stale \cap inv : data'[g] = Restored
    BY <1>0, <1>7 DEF Alone, Group
  <2> QED
    BY <1>2, <1>3, <1>6, <2>1, <2>2, <2>3 DEF Alone, Sole, Group
<1>9. Saved'
  <2>1. data'[Me] = NoData => data[Me] = NoData
    BY <1>0, <1>7
  <2>2. \A g \in inv : data'[g] = Restored => \E r \in inv : data[r] = Restored
    BY <1>0, <1>2, <1>4, <1>5
  <2>3. data[Me] = Restored => data'[Me] = Restored
    BY <1>0, <1>7
  <2>4. pc = "wipe" => proc'[Me] = "down"
    BY <1>0, <1>2 DEF Alone, Saved
  <2> QED
    BY <1>2, <1>3, <2>1, <2>2, <2>3, <2>4 DEF Alone, Saved
<1>10. Outvoted => Outvoted'
  <2>1. Holders \subseteq Holders'
    BY <1>0, <1>3, <1>7 DEF Holders
  <2>2. Holders' \subseteq Hosts /\ Holders \subseteq Hosts
    BY <1>0, <1>3 DEF Holders
  <2>3. Cardinality(Holders) <= Cardinality(Holders')
    BY <2>1, <2>2, HostSets, FS_Subset
  <2>4. Cardinality(Holders) \in Nat /\ Cardinality(Holders') \in Nat /\ Cardinality(inv) \in Nat
    BY <1>0, <2>2, HostSets
  <2> QED
    BY <1>3, <2>3, <2>4 DEF Outvoted
<1>11. \A g \in Hosts : (Ready(g)' <=> Ready(g)) /\ (NewFile(g)' => NewFile(g))
  BY <1>2, <1>7 DEF Ready, NewFile
<1>12. Pending = {} => Pending' = {}
  BY <1>0, <1>3, <1>7 DEF Pending
<1>13. AllHealthy => AllHealthy'
  <2>1. \A g \in inv : Ready(g)' => data'[g] = Restored \/ ~AllHealthy
    <3>1. \A g \in inv : Ready(g) => data[g] \in Reachable(inv)
      BY DEF Reachable
    <3>2. \A g \in inv : Ready(g) => data'[g] = data[g]
      BY <1>0, <1>2 DEF Ready
    <3> QED
      BY <1>0, <1>11, <3>1, <3>2 DEF AllHealthy
  <2>2. \A g \in Hosts : proc[g] # "down" => data'[g] = data[g] /\ proc'[g] # "down"
    BY <1>2
  <2> QED
    BY <1>2, <1>3, <1>11, <2>1, <2>2, HealthyStays
<1>14. inv # Restored => \A g \in inv : data'[g] = inv => Outvoted /\ ~Ready(g)'
  <2>1. CASE data[h] # NoData
    BY <1>0, <1>2, <1>4, <1>11, <2>1 DEF Alone, Outnumbered
  <2>2. CASE data[h] = NoData
    BY <1>0, <1>2, <1>5, <1>11, <2>2 DEF Alone, Outnumbered, Ready
  <2> QED
    BY <2>1, <2>2
<1>15. Outnumbered'
  <2>1. \A g \in enabled' : NewFile(g)' => conf'[g].initial = inv' /\ Outvoted'
    BY <1>0, <1>2, <1>3, <1>10, <1>11 DEF Alone, Outnumbered, ServerTypeOK
  <2>2. pc' = "enable" => \A g \in inv' : NewFile(g)' => conf'[g].initial = inv' /\ Outvoted'
    BY <1>0, <1>2, <1>3, <1>10, <1>11 DEF Alone, Outnumbered
  <2>3. inv' # Restored' => \A g \in inv' : data'[g] = inv' => Outvoted' /\ ~Ready(g)'
    BY <1>3, <1>10, <1>14
  <2> QED
    BY <1>3, <1>10, <1>12, <1>13, <2>1, <2>2, <2>3 DEF Alone, Outnumbered
<1> QED
  BY <1>8, <1>9, <1>15 DEF Alone

LEMMA AlonePublish ==
  ASSUME Typed, Typed', NEW F \in Clusters, Alone(F), UNCHANGED <<recoverVars, lineage>>,
         NEW h \in Hosts, Publish(h), UNCHANGED roleVars
  PROVE  Alone(F)'
<1>0. /\ ServerTypeOK /\ inv \subseteq Hosts /\ Me \in inv /\ Me \in Hosts
      /\ Restored \in Clusters /\ data[h] \in Clusters
  BY AloneFacts
<1>1. data[h] = Restored
  BY <1>0, AloneQuorum DEF Publish
<1>2. /\ UNCHANGED <<conf, enabled, data, stale, members>>
      /\ proc[h] = "starting"
      /\ \A g \in Hosts : proc'[g] = (IF g = h THEN "ready" ELSE proc[g])
      /\ \A c \in Clusters : started'[c] = (IF c = Restored THEN started[c] \cup {h} ELSE started[c])
  BY <1>0, <1>1 DEF Publish, ServerTypeOK
<1>3. /\ UNCHANGED <<inv, pc, healthy, todo, broken, left, snapshot, lineage>>
      /\ Me' = Me /\ Restored' = Restored /\ h \in inv
  BY <1>2, MeStays DEF roleVars, factVars, recoverVars, Alone, Group
<1>4. started'[Restored] = started[Restored] \cup {h}
  BY <1>0, <1>2
<1>5. Sole(F)' /\ Group(F)'
  <2>1. \A g \in Hosts : proc'[g] # "down" => g \in inv /\ data[g] # NoData
    BY <1>2 DEF Alone, Group
  <2> QED
    BY <1>1, <1>2, <1>3, <1>4, <2>1 DEF Alone, Sole, Group
<1>6. Saved'
  <2>1. pc = "wipe" => proc'[Me] = "down"
    BY <1>0, <1>2 DEF Alone, Saved
  <2> QED
    BY <1>2, <1>3, <2>1 DEF Alone, Saved
<1>7. /\ Outvoted' = Outvoted /\ Pending' = Pending
      /\ \A g \in Hosts : (NewFile(g)' <=> NewFile(g)) /\ (Ready(g)' <=> Ready(g) \/ g = h)
  BY <1>2, <1>3 DEF Outvoted, Holders, Pending, NewFile, Ready
<1>8. AllHealthy => AllHealthy'
  <2>1. \A g \in inv : Ready(g)' => data'[g] = Restored \/ ~AllHealthy
    BY <1>0, <1>1, <1>2, <1>7 DEF AllHealthy, Reachable
  <2>2. \A g \in Hosts : proc[g] # "down" => data'[g] = data[g] /\ proc'[g] # "down"
    BY <1>2
  <2>3. \A g \in started'[Restored] : g \in started[Restored] \/ (Ready(g)' /\ data'[g] = Restored)
    BY <1>1, <1>2, <1>4, <1>7
  <2> QED
    BY <1>2, <1>3, <1>7, <2>1, <2>2, <2>3, HealthyStays
<1>9. Outnumbered'
  BY <1>0, <1>1, <1>2, <1>3, <1>7, <1>8 DEF Alone, Outnumbered, ServerTypeOK
<1> QED
  BY <1>5, <1>6, <1>9 DEF Alone

(* A crash, at a time when nobody is pending.                              *)
LEMMA AloneCrash ==
  ASSUME Careful, Typed, NEW F \in Clusters, Alone(F), UNCHANGED <<recoverVars, lineage>>, CrashStep
  PROVE  Alone(F)'
<1>0. ServerTypeOK /\ Me \in Hosts /\ enabled \subseteq inv /\ todo \subseteq inv /\ left \subseteq broken
  BY AloneFacts DEF Alone, Group
<1>1. PICK h \in Hosts : Crash(h)
  BY DEF CrashStep
<1>2. /\ UNCHANGED <<conf, enabled, data, stale, members, started, inv, pc, healthy, todo>>
      /\ \A g \in Hosts : proc'[g] = proc[g] \/ proc'[g] = "down"
      /\ Pending = {}
  BY <1>0, <1>1 DEF Crash, CrashStep, factVars, ServerTypeOK
<1>3. Calm
  BY <1>0, <1>2 DEF Calm, recoverVars
<1>4. Outnumbered'
  BY <1>2, <1>3, CalmKeeps DEF Alone, Outnumbered, NewFile
<1>5. Saved'
  BY <1>0, <1>2, <1>3, CalmKeeps DEF Alone, Saved, recoverVars
<1> QED
  BY <1>3, <1>4, <1>5, CalmKeeps DEF Alone

-----------------------------------------------------------------------------
(* The tasks of the recovery itself.                                       *)

(* Those that only look, save the database, stop the server or give up.    *)
LEMMA AloneLooks ==
  ASSUME Typed, NEW F \in Clusters, Alone(F),
         \/ StartRecover \/ RecoverInterrupt \/ GiveUp
         \/ Assess \/ ListMembers \/ SaveSnapshot \/ StopServer
  PROVE  Alone(F)'
<1>0. /\ ServerTypeOK /\ Me \in Hosts /\ Me \in inv
      /\ enabled \subseteq inv /\ todo \subseteq inv /\ left \subseteq broken /\ inv \subseteq Hosts
  BY AloneFacts DEF Alone, Group
<1>1. Calm /\ conf' = conf /\ enabled' \subseteq enabled
  <2>1. \A h \in Hosts : proc'[h] = proc[h] \/ proc'[h] = "down"
    BY <1>0 DEF StartRecover, RecoverInterrupt, Interrupt, GiveUp, Abort, Assess, ListMembers, SaveSnapshot,
                StopServer, serverVars, ServerTypeOK
  <2> QED
    BY <1>0, <2>1 DEF Calm, StartRecover, RecoverInterrupt, Interrupt, GiveUp, Abort, Goto, ForgetFacts,
          ForgetRecovery, Assess, ListMembers, SaveSnapshot, StopServer, Then, serverVars, factVars, recoverVars
<1>2. CASE Assess
  <2>1. AllHealthy' = AllHealthy /\ Pending' = Pending
    BY <1>2 DEF Assess, Then, Goto, serverVars, AllHealthy, Healthy, HasQuorum, Live, Ready, Reachable,
                Restored, Me, First, Pending
  <2>2. pc' \in {"clean", "save"} /\ (pc' = "clean" => QuorumFact)
    BY <1>2 DEF Assess, Then, Goto
  <2>3. Outnumbered'
    BY <1>1, <1>2, <2>1, <2>2, AssessSays, CalmOutnumbered DEF Assess, serverVars, LoopTasks, JoinStarts
  <2>4. Saved'
    BY <1>1, <1>2, <2>2, CalmSaved DEF Assess, RestoreTasks
  <2> QED
    BY <1>1, <2>3, <2>4, CalmKeeps DEF Alone
<1>3. CASE ListMembers
  <2>1. AllHealthy' = AllHealthy
    BY <1>3 DEF ListMembers, Then, Goto, serverVars, AllHealthy, Healthy, HasQuorum, Live, Ready, Reachable,
                Restored, Me, First
  <2>2. pc = "list" /\ pc' = "strike" /\ UNCHANGED <<conf, enabled, snapshot>>
    BY <1>3 DEF ListMembers, Then, Goto, serverVars
  <2>3. Outnumbered'
    BY <1>1, <2>1, <2>2, CalmOutnumbered DEF Alone, Outnumbered, LoopTasks, JoinStarts
  <2>4. Saved'
    BY <1>1, <2>2, CalmSaved DEF RestoreTasks
  <2> QED
    BY <1>1, <2>3, <2>4, CalmKeeps DEF Alone
<1>4. CASE StartRecover \/ RecoverInterrupt \/ GiveUp
  <2>1. pc' \in {"idle", "assess"} /\ UNCHANGED <<conf, enabled, snapshot>>
    BY <1>4 DEF StartRecover, RecoverInterrupt, Interrupt, GiveUp, Abort, Goto, ForgetRecovery, serverVars,
                recoverVars
  <2>2. Outnumbered'
    BY <1>1, <2>1, CalmOutnumbered DEF LoopTasks, JoinStarts
  <2>3. Saved'
    BY <1>1, <2>1, CalmSaved DEF RestoreTasks
  <2> QED
    BY <1>1, <2>2, <2>3, CalmKeeps DEF Alone
<1>5. CASE SaveSnapshot
  <2>1. data[Me] \in lineage
    <3>1. data[Me] = Restored \/ data[Me] = F
      BY <1>0, <1>5, AloneReady DEF SaveSnapshot
    <3> QED
      BY <1>0, <3>1 DEF Alone, Sole, Saved
  <2>2. pc' = "stop" /\ snapshot' = data[Me] /\ UNCHANGED <<conf, enabled>>
    BY <1>5 DEF SaveSnapshot, Then, Goto, serverVars
  <2>3. Outnumbered'
    BY <1>1, <2>2, CalmOutnumbered DEF LoopTasks, JoinStarts
  <2>4. Saved'
    BY <1>1, <2>1, <2>2, CalmKeeps DEF Calm, Alone, Saved
  <2> QED
    BY <1>1, <2>3, <2>4, CalmKeeps DEF Alone
<1>6. CASE StopServer
  <2>1. /\ pc = "stop" /\ pc' = "wipe" /\ snapshot' = snapshot
        /\ Me \notin enabled' /\ proc'[Me] = "down"
    BY <1>0, <1>6 DEF StopServer, Then, Goto, recoverVars, ServerTypeOK
  <2>2. Outnumbered'
    BY <1>1, <2>1, CalmKeeps DEF Calm, Alone, Outnumbered, NewFile, LoopTasks, JoinStarts
  <2>3. Saved'
    BY <1>1, <2>1, CalmKeeps DEF Calm, Alone, Saved
  <2> QED
    BY <1>1, <2>2, <2>3, CalmKeeps DEF Alone
<1> QED
  BY <1>2, <1>3, <1>4, <1>5, <1>6

(* The broken hosts' directories: none of theirs is looked at.             *)
LEMMA AloneClean ==
  ASSUME Typed, Typed', NEW F \in Clusters, Alone(F), CleanBroken
  PROVE  Alone(F)'
<1>0. /\ ServerTypeOK /\ inv \subseteq Hosts /\ broken \cap inv = {} /\ Me \in inv
      /\ members[Restored] \subseteq inv
  BY AloneFacts
<1>1. /\ pc = "clean" /\ pc' = "list"
      /\ UNCHANGED <<conf, enabled, proc, stale, members, started, inv, todo, broken, left, snapshot, lineage>>
      /\ Me' = Me /\ Restored' = Restored
  BY MeStays DEF CleanBroken, Then, Goto, factVars, recoverVars
<1>2. \A h \in inv : data'[h] = data[h]
  <2>1. PICK S \in SUBSET broken : data' = [h \in Hosts |-> IF h \in S THEN NoData ELSE data[h]]
    BY DEF CleanBroken
  <2> QED
    BY <1>0, <2>1
<1>3. /\ Outvoted' = Outvoted /\ Pending' = Pending
      /\ \A h \in inv : (NewFile(h)' <=> NewFile(h)) /\ (Ready(h)' <=> Ready(h))
  <2>1. Holders' = Holders
    BY <1>1, <1>2 DEF Holders
  <2> QED
    BY <1>1, <1>2, <2>1 DEF Outvoted, Pending, NewFile, Ready
<1>4. Sole(F)' /\ Group(F)'
  BY <1>0, <1>1, <1>2 DEF Alone, Sole, Group
<1>5. Saved'
  BY <1>0, <1>1, <1>2 DEF Alone, Saved
<1>6. AllHealthy => AllHealthy'
  <2>1. \A h \in inv : Ready(h)' => data'[h] = Restored \/ ~AllHealthy
    BY <1>2, <1>3 DEF AllHealthy, Reachable
  <2>2. \A h \in Hosts : proc[h] # "down" => data'[h] = data[h] /\ proc'[h] # "down"
    BY <1>1, <1>2 DEF Alone, Group
  <2>3. \A h \in Hosts : Ready(h) => Ready(h)'
    BY <1>1 DEF Ready
  <2> QED
    BY <1>1, <2>1, <2>2, <2>3, HealthyStays
<1>7. Outnumbered'
  BY <1>0, <1>1, <1>2, <1>3, <1>6 DEF Alone, Group, Outnumbered, LoopTasks, JoinStarts
<1> QED
  BY <1>4, <1>5, <1>7 DEF Alone

(* Broken members are never struck: the restored cluster, the only one     *)
(* with a quorum, has none.                                                *)
LEMMA AloneStrikesNobody ==
  ASSUME Typed, NEW F \in Clusters, Alone(F), NEW h
  PROVE  ~StrikeMember(h)
<1> SUFFICES ASSUME StrikeMember(h) PROVE FALSE
  OBVIOUS
<1>0. /\ broken \cap inv = {} /\ members[Restored] \subseteq inv /\ inv \subseteq Hosts
      /\ \A g \in Hosts : data[g] \in Clusters
  BY AloneFacts
<1>1. PICK c \in Reachable(inv) : RemoveMember(c, h)
  BY DEF StrikeMember
<1>2. c = Restored
  BY <1>0, <1>1, AloneQuorum DEF Reachable, RemoveMember
<1>3. h \in broken /\ h \in members[Restored]
  BY <1>1, <1>2 DEF StrikeMember, RemoveMember, Alone, Group
<1> QED
  BY <1>0, <1>3

(* recover_lost_quorum.yml from the removal of the data directory on.      *)
LEMMA AloneWipe ==
  ASSUME Typed, NEW F \in Clusters, Alone(F), RemoveDataDir
  PROVE  Alone(F)'
<1>0. ServerTypeOK /\ inv \subseteq Hosts /\ Me \in inv /\ Me \in Hosts /\ F # NoData
  BY AloneFacts
<1>1. /\ pc = "wipe" /\ pc' = "restore"
      /\ UNCHANGED <<conf, enabled, proc, members, started, inv, todo, broken, left, snapshot, lineage>>
      /\ Me' = Me /\ Restored' = Restored /\ stale' = stale \ {Me}
      /\ \A h \in Hosts : data'[h] = (IF h = Me THEN NoData ELSE data[h])
  BY <1>0, MeStays DEF RemoveDataDir, Then, Goto, factVars, recoverVars, ServerTypeOK
<1>2. Me \notin enabled /\ proc[Me] = "down" /\ snapshot \in lineage
  BY <1>1 DEF Alone, Saved
<1>3. Outvoted' = Outvoted
  <2>1. Holders' = Holders
    BY <1>0, <1>1 DEF Holders, Restored
  <2> QED
    BY <1>1, <2>1 DEF Outvoted
<1>4. Sole(F)'
  BY <1>1 DEF Alone, Sole
<1>5. Group(F)'
  <2>1. \A h \in Hosts : proc[h] # "down" => h # Me
    BY <1>2
  <2>2. \A h \in Hosts \ Restored : data'[h] = data[h]
    BY <1>1 DEF Restored
  <2> QED
    BY <1>0, <1>1, <2>1, <2>2 DEF Alone, Group
<1>6. Saved'
  BY <1>0, <1>1, <1>2 DEF Alone, Saved, Restored, NoData
<1>7. Outnumbered'
  <2>1. \A h \in enabled : NewFile(h)' => NewFile(h)
    BY <1>0, <1>1, <1>2 DEF NewFile, Alone, Group
  <2>2. \A h \in inv : data'[h] = inv => data[h] = inv
    BY <1>0, <1>1, AloneFacts DEF NoData
  <2> QED
    BY <1>1, <1>3, <2>1, <2>2 DEF Alone, Outnumbered, LoopTasks, JoinStarts, Ready
<1> QED
  BY <1>4, <1>5, <1>6, <1>7 DEF Alone

LEMMA AloneRestore ==
  ASSUME Typed, NEW F \in Clusters, Alone(F), RestoreSnapshot
  PROVE  Alone(F)'
<1>0. /\ ServerTypeOK /\ inv \subseteq Hosts /\ Me \in inv /\ Me \in Hosts
      /\ Restored \in Clusters /\ Restored # NoData /\ inv \in Clusters /\ F # Restored
  BY AloneFacts DEF Alone, Sole
<1>1. /\ pc = "restore" /\ pc' = "unsave"
      /\ UNCHANGED <<conf, enabled, proc, inv, todo, broken, left, snapshot>>
      /\ Me' = Me /\ Restored' = Restored
      /\ \A h \in Hosts : data'[h] = (IF h = Me THEN Restored ELSE data[h])
      /\ stale' = stale \cup {h \in Hosts \ {Me} : data[h] = Restored}
      /\ \A c \in Clusters : members'[c] = (IF c = Restored THEN Restored ELSE members[c])
      /\ started'[Restored] = {}
  BY <1>0, MeStays DEF RestoreSnapshot, Then, Goto, factVars, recoverVars, ServerTypeOK, Restored
<1>2. lineage' = lineage \cup {Restored}
  <2>1. snapshot \in lineage
    BY <1>1 DEF Alone, Saved
  <2> QED
    BY <2>1 DEF RestoreSnapshot, Restored
<1>3. Outvoted' = Outvoted
  <2>1. Holders' = Holders
    BY <1>0, <1>1 DEF Holders, Restored
  <2> QED
    BY <1>1, <2>1 DEF Outvoted
<1>4. Sole(F)'
  BY <1>1, <1>2 DEF Alone, Sole
<1>5. Group(F)'
  <2>1. members'[F] = F /\ (inv # Restored => members'[inv] = inv) /\ members'[Restored] = Restored
    BY <1>0, <1>1 DEF Alone, Group
  <2>2. \A h \in Hosts \ Restored : data'[h] = data[h]
    BY <1>1 DEF Restored
  <2>3. data'[Me] = Restored
    BY <1>0, <1>1
  <2>4. Me \notin stale' /\ \A h \in stale' \cap inv : data'[h] = Restored
    <3>1. Me \notin stale /\ \A h \in stale \cap inv : data[h] = Restored
      BY DEF Alone, Group
    <3> QED
      BY <1>0, <1>1, <3>1
  <2>5. \A h \in inv \ Restored : data'[h] # F
    BY <1>0, <2>2 DEF Alone, Group
  <2>6. \A h \in Hosts : proc[h] # "down" => h \in inv /\ data'[h] # NoData
    BY <1>0, <1>1 DEF Alone, Group
  <2>7. \A h \in inv : data'[h] \in {NoData, F, Restored, inv}
    BY <1>0, <1>1 DEF Alone, Group
  <2>8. Restored \subseteq inv /\ enabled \subseteq inv /\ todo \subseteq inv /\ left \subseteq broken
    BY <1>0 DEF Restored, Alone, Group
  <2> QED
    BY <1>0, <1>1, <2>1, <2>3, <2>4, <2>5, <2>6, <2>7, <2>8 DEF Group
<1>6. Saved'
  BY <1>0, <1>1, <1>2 DEF Saved
<1>7. Outnumbered'
  <2>1. \A h \in inv : NewFile(h)' => NewFile(h)
    BY <1>0, <1>1 DEF NewFile
  <2>2. inv # Restored => \A h \in inv : data'[h] = inv => data[h] = inv
    BY <1>0, <1>1
  <2>3. enabled \subseteq inv
    BY DEF Alone, Group
  <2> QED
    BY <1>1, <1>3, <2>1, <2>2, <2>3 DEF Alone, Outnumbered, LoopTasks, JoinStarts, Ready
<1> QED
  BY <1>4, <1>5, <1>6, <1>7 DEF Alone

LEMMA AloneStarts ==
  ASSUME Typed, NEW F \in Clusters, Alone(F), RemoveSnapshot \/ Reconfigure \/ StartServer
  PROVE  Alone(F)'
<1>0. /\ ServerTypeOK /\ inv \subseteq Hosts /\ Me \in inv /\ Me \in Hosts /\ Restored # NoData
      /\ enabled \subseteq inv /\ todo \subseteq inv /\ left \subseteq broken
  BY AloneFacts DEF Alone, Group
<1>1. /\ pc \in {"unsave", "reconfigure", "restart"} /\ pc' \in {"reconfigure", "restart"}
      /\ enabled' \subseteq enabled \cup {Me} /\ proc' = proc
      /\ \A h \in Hosts : h # Me => conf'[h] = conf[h]
  BY <1>0 DEF RemoveSnapshot, Reconfigure, StartServer, Then, Goto, serverVars, roleVars, factVars, recoverVars,
              ServerTypeOK
<1>2. Calm
  BY <1>0, <1>1 DEF Calm, RemoveSnapshot, Reconfigure, StartServer, Then, Goto, serverVars, roleVars, factVars,
                    recoverVars
<1>3. data[Me] = Restored /\ members[Restored] = Restored
  BY <1>1 DEF Alone, Saved
<1>4. Outnumbered'
  <2>1. \A h \in inv : NewFile(h)' => NewFile(h) /\ h # Me /\ conf'[h] = conf[h]
    BY <1>0, <1>1, <1>2, <1>3 DEF NewFile, Calm
  <2> QED
    BY <1>0, <1>1, <1>2, <2>1, CalmKeeps DEF Calm, Alone, Outnumbered, LoopTasks, JoinStarts
<1>5. Saved'
  BY <1>0, <1>1, <1>2, <1>3, CalmKeeps DEF Calm, Alone, Saved
<1> QED
  BY <1>2, <1>4, <1>5, CalmKeeps DEF Alone

(* cluster.yml finds the restored cluster healthy, or finds what the       *)
(* recovery has found.                                                     *)
LEMMA AloneCluster ==
  ASSUME Typed, NEW F \in Clusters, Alone(F), StartCluster
  PROVE  Alone(F)'
<1>0. /\ ServerTypeOK /\ inv \subseteq Hosts /\ Me \in inv /\ Me \in Hosts /\ Restored # NoData
      /\ enabled \subseteq inv /\ todo \subseteq inv /\ left \subseteq broken /\ F # Restored
  BY AloneFacts DEF Alone, Group, Sole
<1>1. pc' = "health" /\ UNCHANGED <<serverVars, inv, snapshot>>
  BY DEF StartCluster, Then, Goto, recoverVars
<1>2. Calm /\ UNCHANGED <<conf, enabled>>
  BY <1>0, <1>1 DEF Calm, StartCluster, Then, Goto, serverVars, factVars, recoverVars
<1>3. AllHealthy' = AllHealthy
  BY <1>1 DEF serverVars, AllHealthy, Healthy, HasQuorum, Live, Ready, Reachable, Restored, Me, First
<1>4. Pending = {} \/ AllHealthy \/ Outvoted
  <2>1. CASE pc = "strike"
    BY <2>1 DEF Alone, Outnumbered
  <2>2. CASE pc = "restart" /\ Ready(Me)
    <3>1. data[Me] = Restored /\ members[Restored] = {Me} /\ Me \notin stale
      BY <2>2 DEF Alone, Saved, Group, Restored
    <3>2. Live(Restored) = {Me}
      BY <2>2, <3>1 DEF Live, Ready
    <3>3. Cardinality({Me}) = 1
      BY FS_Singleton
    <3>4. HasQuorum(Restored)
      BY <3>1, <3>2, <3>3 DEF HasQuorum
    <3>5. Healthy(Restored)
      BY <2>2, <3>1, <3>4 DEF Healthy
    <3>6. \A h \in inv : Ready(h) => data[h] = Restored
      BY <1>0, <3>1, AloneReady
    <3>7. Reachable(inv) = {Restored}
      BY <1>0, <2>2, <3>6 DEF Reachable
    <3> QED
      BY <3>1, <3>5, <3>7 DEF AllHealthy
  <2> QED
    BY <2>1, <2>2 DEF StartCluster
<1>5. Outnumbered'
  BY <1>1, <1>2, <1>3, <1>4, CalmOutnumbered DEF LoopTasks, JoinStarts
<1>6. Saved'
  BY <1>1, <1>2, CalmSaved DEF RestoreTasks
<1> QED
  BY <1>2, <1>5, <1>6, CalmKeeps DEF Alone

LEMMA AloneRecover ==
  ASSUME Typed, Typed', NEW F \in Clusters, Alone(F), StartRecover \/ RecoverPlay \/ RecoverInterrupt
  PROVE  Alone(F)'
BY AloneLooks, AloneClean, AloneStrikesNobody, AloneWipe, AloneRestore, AloneStarts, AloneCluster
   DEF RecoverPlay, ListMembersFails, StrikeFails, SaveSnapshotFails

-----------------------------------------------------------------------------
(* The theorems.                                                           *)

(* Runs take place only once hosts have broken, and never with no host.    *)
Begun ==
    /\ broken = {} => pc = "idle"
    /\ broken # {} => inv # {}

LEMMA TypedStep ==
  ASSUME Typed, Begun, [RecoverNext]_allVars
  PROVE  Typed' /\ Begun'
<1>1. CASE UNCHANGED allVars
  <2>1. UNCHANGED vars /\ UNCHANGED recoverVars
    BY <1>1 DEF allVars
  <2> QED
    BY <2>1, TypedRole DEF Begun, vars, roleVars, recoverVars
<1>2. ASSUME NEW B \in SUBSET Hosts, NEW S \in SUBSET Hosts, Break(B, S) PROVE Typed' /\ Begun'
  BY <1>2, TypedBreak DEF Break, Begun
<1>3. CASE StartRecover \/ RecoverPlay \/ RecoverInterrupt
  <2>1. broken # {} /\ inv # {}
    BY <1>3, UnbrokenIdle DEF Begun
  <2>2. inv' = inv /\ broken' = broken
    BY <1>3, <2>1, GroupFixed DEF RecoverNext
  <2> QED
    BY <1>3, <2>1, <2>2, TypedRecover DEF Begun
<1>4. CASE (Play \/ ServerStep \/ CrashStep) /\ UNCHANGED <<recoverVars, lineage>>
  <2>1. Next
    BY <1>4 DEF Next
  <2>2. Typed'
    BY <1>4, <2>1, TypedRole
  <2>3. CASE broken # {}
    BY <1>4, <2>2, <2>3, GroupFixed DEF Begun, RecoverNext
  <2>4. CASE broken = {}
    BY <1>4, <2>2, <2>4, UnbrokenIdle DEF Begun, recoverVars, ServerStep, CrashStep, roleVars
  <2> QED
    BY <2>3, <2>4
<1> QED
  BY <1>1, <1>2, <1>3, <1>4 DEF RecoverNext

LEMMA TypedInit ==
  ASSUME RecoverInit
  PROVE  Typed /\ Begun
BY UnbrokenInit DEF RecoverInit, RoleInit, RecoverInv, Begun

(* Whoever runs the recovery, however often it is cut off, and whatever    *)
(* else fails, it leaves the data of every surviving host but the first of *)
(* the group alone (recover_lost_quorum.yml runs on groups['etcd'][0];     *)
(* cluster.yml's etcd role deletes no data directory).                     *)
SparesOthers ==
    broken # {} => \A h \in inv \ {Me} :
        h \notin broken /\ data[h] # NoData => data'[h] = data[h]

THEOREM OthersSpared == RecoverSpec => [][SparesOthers]_allVars
<1>1. ASSUME Typed, [RecoverNext]_allVars PROVE [SparesOthers]_allVars
  BY <1>1, SurvivorKeeps DEF SparesOthers, Restored
<1>2. RecoverSpec => [](Typed /\ Begun)
  BY TypedInit, TypedStep, PTL DEF RecoverSpec
<1> QED
  BY <1>1, <1>2, PTL DEF RecoverSpec

(* What is left without Careful of a sole survivor.                        *)
Lone(F) ==
    /\ broken # {} /\ F \ broken = Restored
    /\ lineage \subseteq {F, Restored}

SurvivorInv == Typed /\ Begun /\ \E F \in Clusters : Unbroken(F) \/ Another(F) \/ Lone(F)

LEMMA UnbrokenNext ==
  ASSUME Typed, Typed', NEW F \in Clusters, Unbroken(F), [RecoverNext]_allVars
  PROVE  Unbroken(F)' \/ Another(F)' \/ Alone(F)'
<1>1. ~StartRecover /\ ~RecoverPlay /\ ~RecoverInterrupt /\ ~Play
  BY UnbrokenIdle DEF Unbroken
<1> QED
  BY <1>1, UnbrokenStep, BreakStep DEF RecoverNext, allVars

LEMMA AloneBroken ==
  ASSUME Typed, NEW F \in Clusters, Alone(F)
  PROVE  broken # {} /\ Lone(F)
<1>1. Me \in F /\ F # {Me}
  BY AloneFacts DEF Alone, Sole, Restored
<1> QED
  BY <1>1 DEF Alone, Sole, Lone, Restored

LEMMA LoneStep ==
  ASSUME Typed, NEW F \in Clusters, Lone(F), [RecoverNext]_allVars
  PROVE  Lone(F)'
<1>1. inv' = inv /\ broken' = broken /\ Restored' = Restored
  BY GroupFixed DEF Lone
<1>2. lineage' \subseteq lineage \cup {Restored}
  BY DEF Lone, RecoverNext, allVars, Break, StartRecover, RecoverInterrupt, ForgetRecovery, RecoverPlay, Assess,
       CleanBroken, ListMembers, ListMembersFails, StrikeMember, StrikeFails, SaveSnapshot,
       SaveSnapshotFails, StopServer, RemoveDataDir, RestoreSnapshot, RemoveSnapshot, Reconfigure,
       StartServer, StartCluster, GiveUp, Restored
<1> QED
  BY <1>1, <1>2 DEF Lone

LEMMA UnbrokenSurvives ==
  ASSUME NEW F \in Clusters, Unbroken(F)
  PROVE  DataSurvives
<1>1. CASE F = NoData
  BY <1>1 DEF Unbroken, DataSurvives
<1>2. CASE F # NoData
  <2>1. PICK h \in F : h \in Hosts
    BY <1>2 DEF NoData, Clusters
  <2> QED
    BY <2>1 DEF Unbroken, DataSurvives
<1> QED
  BY <1>1, <1>2

LEMMA AnotherSurvives ==
  ASSUME Typed, NEW F \in Clusters, Another(F)
  PROVE  DataSurvives
BY DEF Another, DataSurvives, Typed, DataOK

(* If two hosts of the established cluster have not broken, its database   *)
(* is on one of their disks at every time, however the recovery is run,    *)
(* cut off and run again, and whatever crashes.                            *)
TwoSurvive == \E F \in lineage : Cardinality(F \ broken) > 1

THEOREM SecondSurvivor == RecoverSpec => [](TwoSurvive => DataSurvives)
<1>1. RecoverInit => SurvivorInv
  <2>1. ASSUME NEW F \in Clusters, Typed, Unbroken(F) \/ Another(F) \/ Alone(F)
        PROVE  Unbroken(F) \/ Another(F) \/ Lone(F)
    BY <2>1, AloneBroken
  <2> QED
    BY <2>1, UnbrokenInit, TypedInit DEF RecoverInv, SurvivorInv
<1>2. SurvivorInv /\ [RecoverNext]_allVars => SurvivorInv'
  <2> SUFFICES ASSUME SurvivorInv, [RecoverNext]_allVars PROVE SurvivorInv'
    OBVIOUS
  <2>1. Typed /\ Typed' /\ Begun'
    BY TypedStep DEF SurvivorInv
  <2>2. PICK F \in Clusters : Unbroken(F) \/ Another(F) \/ Lone(F)
    BY DEF SurvivorInv
  <2>3. Alone(F)' => Lone(F)'
    BY <2>1, AloneBroken, PTL
  <2>4. Unbroken(F)' \/ Another(F)' \/ Lone(F)'
    BY <2>1, <2>2, <2>3, UnbrokenNext, AnotherStep, LoneStep
  <2> QED
    BY <2>1, <2>4 DEF SurvivorInv
<1>3. SurvivorInv /\ TwoSurvive => DataSurvives
  <2> SUFFICES ASSUME SurvivorInv, TwoSurvive PROVE DataSurvives
    OBVIOUS
  <2>1. PICK F \in Clusters : Unbroken(F) \/ Another(F) \/ Lone(F)
    BY DEF SurvivorInv
  <2>2. CASE Unbroken(F)
    BY <2>2, UnbrokenSurvives
  <2>3. CASE Another(F)
    BY <2>3, AnotherSurvives DEF SurvivorInv
  <2>4. CASE Lone(F)
    <3>1. PICK G \in lineage : Cardinality(G \ broken) > 1
      BY DEF TwoSurvive
    <3>2. G \ broken = {Me} \/ G \ broken = {}
      BY <2>4, <3>1 DEF Lone, Restored
    <3>3. Cardinality({Me}) = 1 /\ Cardinality({}) = 0
      BY FS_Singleton, FS_EmptySet
    <3> QED
      BY <3>1, <3>2, <3>3
  <2> QED
    BY <2>1, <2>2, <2>3, <2>4
<1> QED
  BY <1>1, <1>2, <1>3, PTL DEF RecoverSpec

LEMMA AloneSurvives ==
  ASSUME Typed, NEW F \in Clusters, Alone(F)
  PROVE  DataSurvives
<1>0. Me \in inv /\ Me \in Hosts /\ inv \subseteq Hosts /\ broken \cap inv = {}
  BY AloneFacts
<1>1. data[Me] \in {NoData, F, Restored, inv}
  BY <1>0 DEF Alone, Group
<1>2. CASE data[Me] = inv /\ inv # Restored
  <2>1. PICK h \in inv \ Restored : data[h] = Restored
    BY <1>0, <1>2, OutvotedHolder DEF Alone, Outnumbered
  <2> QED
    BY <1>0, <2>1 DEF Alone, Saved, DataSurvives
<1> QED
  BY <1>0, <1>1, <1>2 DEF Alone, Sole, Saved, DataSurvives

LEMMA AloneSame ==
  ASSUME Typed, NEW F \in Clusters, Alone(F), UNCHANGED allVars
  PROVE  Alone(F)'
<1>1. UNCHANGED <<serverVars, inv, pc, healthy, todo, broken, left, snapshot, lineage>>
  BY DEF allVars, vars, roleVars, factVars, recoverVars
<1>2. Calm
  BY <1>1 DEF Calm, serverVars, Alone, Group
<1>3. AllHealthy' = AllHealthy
  BY <1>1 DEF serverVars, AllHealthy, Healthy, HasQuorum, Live, Ready, Reachable, Restored, Me, First
<1>4. Outnumbered'
  BY <1>1, <1>2, <1>3, CalmKeeps DEF serverVars, Alone, Outnumbered, NewFile
<1>5. Saved'
  BY <1>1, <1>2, CalmKeeps DEF serverVars, Alone, Saved
<1> QED
  BY <1>2, <1>4, <1>5, CalmKeeps DEF Alone

(* One survivor stays the only one.                                        *)
LEMMA AloneStep ==
  ASSUME Careful, Typed, Typed', NEW F \in Clusters, Alone(F), [RecoverNext]_allVars
  PROVE  Alone(F)'
<1>1. CASE UNCHANGED allVars
  BY <1>1, AloneSame
<1>2. CASE StartRecover \/ RecoverPlay \/ RecoverInterrupt
  BY <1>2, AloneRecover
<1>3. CASE Play /\ UNCHANGED <<recoverVars, lineage>>
  BY <1>3, AlonePlay
<1>4. CASE ServerStep /\ UNCHANGED <<recoverVars, lineage>>
  BY <1>4, AloneLaunch, AlonePublish DEF ServerStep
<1>5. CASE CrashStep /\ UNCHANGED <<recoverVars, lineage>>
  BY <1>5, AloneCrash
<1>6. \A B, S \in SUBSET Hosts : ~Break(B, S)
  BY AloneBroken DEF Break
<1> QED
  BY <1>1, <1>2, <1>3, <1>4, <1>5, <1>6 DEF RecoverNext

(* DataSurvives, for every set of hosts, any number of runs, cut off       *)
(* anywhere, and any number of crashes, as long as no server crashes while *)
(* a host waits to be brought in.                                          *)
THEOREM DatabaseSurvives ==
  ASSUME Careful
  PROVE  RecoverSpec => []DataSurvives
<1>1. RecoverInit => RecoverInv /\ Begun
  BY UnbrokenInit, TypedInit
<1>2. RecoverInv /\ Begun /\ [RecoverNext]_allVars => RecoverInv' /\ Begun'
  <2> SUFFICES ASSUME RecoverInv, Begun, [RecoverNext]_allVars PROVE RecoverInv' /\ Begun'
    OBVIOUS
  <2>1. Typed /\ Typed' /\ Begun'
    BY TypedStep DEF RecoverInv
  <2>2. PICK F \in Clusters : Unbroken(F) \/ Another(F) \/ Alone(F)
    BY DEF RecoverInv
  <2>3. Alone(F) => Alone(F)'
    BY <2>1, AloneStep
  <2>4. Unbroken(F)' \/ Another(F)' \/ Alone(F)'
    BY <2>1, <2>2, <2>3, UnbrokenNext, AnotherStep
  <2> QED
    BY <2>1, <2>4 DEF RecoverInv
<1>3. RecoverInv => DataSurvives
  BY UnbrokenSurvives, AnotherSurvives, AloneSurvives DEF RecoverInv
<1> QED
  BY <1>1, <1>2, <1>3, PTL DEF RecoverSpec

-----------------------------------------------------------------------------
(* What a run of cluster.yml achieves for a single survivor.               *)

(* No host's address is part of another host's.                            *)
Apart == \A h \in Hosts : Matches[h] = {h}

(* The endpoints lead to the restored cluster, since nobody else serves,   *)
(* and the loop over join_etcd_member.yml leaves no host out of it.        *)
Regains(F) ==
    /\ pc \in Tasks \cup {"clean", "list", "strike"} => data[Me] # F
    /\ pc \in LoopTasks \cup {"refresh", "reload", "up", "done"} => Restored \in lineage
    /\ pc \in {"add", "addconfig"} \cup JoinStarts => inv \ todo \subseteq members[Restored]
    /\ pc \in {"addconfig"} \cup JoinStarts => First(todo) \in members[Restored]
    /\ pc \in {"refresh", "reload", "up", "done"} => inv \subseteq members[Restored]

LEMMA SurvivorData ==
  ASSUME Typed, NEW F \in Clusters, Alone(F), Alone(F)', [RecoverNext]_allVars, data[Me] # F
  PROVE  data'[Me] # F
<1>0. /\ inv' = inv /\ broken' = broken /\ Me' = Me /\ Restored' = Restored
      /\ ServerTypeOK /\ Me \in inv /\ Me \in Hosts /\ F # NoData /\ F # Restored /\ inv # F
  BY AloneBroken, GroupFixed, AloneFacts DEF Alone, Sole
<1> SUFFICES ASSUME data'[Me] = F PROVE FALSE
  OBVIOUS
<1>1. \A h \in inv \ Restored : data'[h] = NoData
  BY <1>0 DEF Alone, Group
<1>2. data' # data
  OBVIOUS
<1>3. ~StartRecover /\ ~RecoverInterrupt /\ ~UNCHANGED allVars /\ ~CrashStep
  BY <1>2 DEF StartRecover, RecoverInterrupt, Interrupt, allVars, vars, serverVars, CrashStep, Crash
<1>4. ~Play
  BY <1>2 DEF Play, CheckHealth, WriteConfig, WriteConf, EnsureRunning,
           StartReturns, StartFails, WaitHealthy, WaitFails, CheckMembers, JoinAdd, AddSucceeds, JoinAddFails,
           JoinConfig, JoinVerify, JoinVerifyFails, JoinStart, RefreshConfig,
           Reload, WaitUp, WaitUpFails, Abort, serverVars
<1>5. ~RecoverPlay
  <2>1. ~CleanBroken
    <3>1. CleanBroken => data'[Me] \in {NoData, data[Me]}
      BY <1>0 DEF CleanBroken
    <3> QED
      BY <1>0, <3>1
  <2>2. ~RemoveDataDir /\ ~RestoreSnapshot
    BY <1>0 DEF RemoveDataDir, RestoreSnapshot, ServerTypeOK, Restored
  <2> QED
    BY <1>2, <2>1, <2>2 DEF RecoverPlay, Assess, ListMembers, ListMembersFails, StrikeMember,
           StrikeFails, SaveSnapshot, SaveSnapshotFails, StopServer, RemoveSnapshot, Reconfigure,
           StartServer, StartCluster, GiveUp, Abort, serverVars
<1>6. \A B, S \in SUBSET Hosts : ~Break(B, S)
  BY AloneBroken DEF Break
<1>7. ASSUME NEW h \in Hosts, Launch(h) PROVE FALSE
  <2>1. PICK k \in Boot(h) : data' = [data EXCEPT ![h] = k]
    BY <1>7 DEF Launch
  <2>2. h = Me /\ k = F
    BY <1>0, <2>1 DEF ServerTypeOK
  <2>3. data[Me] = NoData
    BY <2>1, <2>2 DEF Boot
  <2>4. CASE conf[Me].state = "new" /\ F = conf[Me].initial
    BY <1>0, <1>7, <2>2, <2>3, <2>4 DEF Launch, Alone, Outnumbered, NewFile
  <2>5. CASE /\ members[F] = conf[Me].initial
             /\ \E r \in conf[Me].initial \ {Me} : proc[r] # "down" /\ data[r] = F
    <3>1. PICK r \in members[F] \ {Me} : proc[r] # "down" /\ data[r] = F
      BY <2>5
    <3>2. r \in Hosts /\ r \in inv \ Restored
      BY <1>0, <3>1 DEF ServerTypeOK, Restored, Alone, Group
    <3> QED
      BY <3>1, <3>2 DEF Alone, Group
  <2> QED
    BY <2>1, <2>2, <2>3, <2>4, <2>5 DEF Boot
<1>8. ~ServerStep
  BY <1>2, <1>7 DEF ServerStep, Publish
<1> QED
  BY <1>3, <1>4, <1>5, <1>6, <1>8 DEF RecoverNext

(* Whoever answers belongs to the restored cluster.                        *)
LEMMA AnswersRestored ==
  ASSUME Typed, NEW F \in Clusters, Alone(F), data[Me] # F
  PROVE  Reachable(inv) \subseteq {Restored}
BY AloneFacts, AloneReady DEF Reachable

LEMMA AssessFinds ==
  ASSUME Typed, NEW F \in Clusters, Alone(F), QuorumFact
  PROVE  data[Me] # F
<1>1. CASE Outvoted
  BY <1>1, OutvotedHolder
<1>2. CASE AllHealthy
  <2>1. PICK h \in inv : data[h] = Restored
    BY <1>2 DEF AllHealthy, Reachable
  <2>2. Restored \notin {NoData, F}
    BY AloneFacts DEF Alone, Sole
  <2> QED
    BY <2>1, <2>2 DEF Alone, Group, Restored
<1> QED
  BY <1>1, <1>2, AssessSays

(* A member of the restored cluster stays one, until the cluster is        *)
(* replaced by another restore.                                            *)
LEMMA RestoredKeeps ==
  ASSUME Typed, NEW F \in Clusters, Alone(F), [RecoverNext]_allVars, pc # "restore"
  PROVE  /\ members[Restored] \subseteq members'[Restored]
         /\ Restored \in lineage => Restored \in lineage'
         /\ inv' = inv /\ Me' = Me /\ Restored' = Restored
<1>1. inv' = inv /\ Me' = Me /\ Restored' = Restored /\ \A B, S \in SUBSET Hosts : ~Break(B, S)
  BY AloneBroken, GroupFixed DEF Break
<1>2. ServerTypeOK /\ Restored \in Clusters
  BY AloneFacts
<1>3. Restored \in lineage => Restored \in lineage'
  BY <1>1 DEF RecoverNext, allVars, StartRecover, RecoverInterrupt, ForgetRecovery, RecoverPlay, Assess,
       CleanBroken, ListMembers, ListMembersFails, StrikeMember, StrikeFails, SaveSnapshot,
       SaveSnapshotFails, StopServer, RemoveDataDir, RestoreSnapshot, RemoveSnapshot, Reconfigure,
       StartServer, StartCluster, GiveUp
<1>4. \A h : ~StrikeMember(h)
  BY AloneStrikesNobody
<1>5. ASSUME JoinAdd PROVE members[Restored] \subseteq members'[Restored]
  BY <1>2, <1>5 DEF JoinAdd, AddSucceeds, AddMember, serverVars, ServerTypeOK
<1>6. ASSUME ~JoinAdd PROVE members[Restored] \subseteq members'[Restored]
  <2>1. members' = members
    BY <1>1, <1>4, <1>6 DEF RecoverNext, allVars, vars, serverVars, StartRecover, RecoverInterrupt, Interrupt,
       RecoverPlay, Assess, CleanBroken, ListMembers, ListMembersFails, StrikeFails, SaveSnapshot,
       SaveSnapshotFails, StopServer, RemoveDataDir, RestoreSnapshot, RemoveSnapshot, Reconfigure,
       StartServer, StartCluster, GiveUp, Abort, ServerStep, Launch, Publish, CrashStep, Crash,
       Play, CheckHealth, WriteConfig, WriteConf, EnsureRunning,
       StartReturns, StartFails, WaitHealthy, WaitFails, CheckMembers, JoinAddFails,
       JoinConfig, JoinVerify, JoinVerifyFails, JoinStart, RefreshConfig,
       Reload, WaitUp, WaitUpFails
  <2> QED
    BY <2>1
<1> QED
  BY <1>1, <1>3, <1>5, <1>6

LEMMA RegainsStep ==
  ASSUME Apart, Typed, Typed', NEW F \in Clusters, Alone(F), Alone(F)', Regains(F), [RecoverNext]_allVars
  PROVE  Regains(F)'
<1>0. /\ Me' = Me /\ Restored' = Restored /\ inv' = inv /\ inv # {} /\ inv \subseteq Hosts
      /\ Restored \in Clusters /\ members[Restored] \subseteq inv /\ F # Restored
      /\ \A B, S \in SUBSET Hosts : ~Break(B, S)
  BY AloneBroken, GroupFixed, AloneFacts DEF Alone, Sole, Break
<1>1. data[Me] # F => data'[Me] # F
  BY SurvivorData
<1>2. pc # "restore" => /\ members[Restored] \subseteq members'[Restored]
                        /\ Restored \in lineage => Restored \in lineage'
  BY RestoredKeeps
<1>3. CASE pc' \notin Tasks \cup {"clean", "list", "strike", "done"}
  BY <1>3 DEF Regains, Tasks, LoopTasks, JoinStarts
<1>4. ASSUME pc' = pc, todo' = todo, pc # "restore" PROVE Regains(F)'
  BY <1>0, <1>1, <1>2, <1>4 DEF Regains, First
<1>5. CASE Assess
  BY <1>0, <1>1, <1>5, AssessFinds DEF Assess, Then, Goto, Regains, Tasks, LoopTasks, JoinStarts
<1>6. CASE CleanBroken \/ ListMembers
  BY <1>0, <1>1, <1>6 DEF CleanBroken, ListMembers, Then, Goto, Regains, Tasks, LoopTasks, JoinStarts
<1>7. CASE StartCluster
  <2>1. data[Me] # F
    BY <1>0, <1>7 DEF StartCluster, Regains, Alone, Saved
  <2> QED
    BY <1>0, <1>1, <1>7, <2>1 DEF StartCluster, Then, Goto, Regains, Tasks, LoopTasks, JoinStarts
<1>8. CASE CheckHealth \/ WriteConfig \/ EnsureRunning \/ StartReturns
  BY <1>0, <1>1, <1>8 DEF CheckHealth, WriteConfig, EnsureRunning, StartReturns, Goto, Regains, Tasks, LoopTasks,
                    JoinStarts
<1>9. CASE WaitHealthy
  <2>1. data[Me] # F /\ pc = "wait" /\ pc' = "check"
    BY <1>9 DEF WaitHealthy, Goto, Regains, Tasks
  <2>2. PICK h \in inv : Ready(h) /\ data[h] = Restored
    BY <1>9, <2>1, AnswersRestored DEF WaitHealthy, Reachable
  <2>3. Restored \in lineage'
    BY <1>2, <2>1, <2>2 DEF Alone, Saved
  <2> QED
    BY <1>0, <1>1, <2>1, <2>3 DEF Regains, LoopTasks, JoinStarts
<1>10. CASE CheckMembers
  <2>1. pc = "check" /\ pc' = (IF todo' = {} THEN "refresh" ELSE "add") /\ healthy
    BY <1>10 DEF CheckMembers, Goto, Alone, Outnumbered, LoopTasks
  <2>2. todo' = inv \ inCluster' /\ \A h \in inCluster' : h \in inv /\ \E c \in Reachable(inv) : Listed(c, h)
    BY <1>10, <2>1 DEF CheckMembers, ToJoin
  <2>3. data[Me] # F /\ Restored \in lineage
    BY <2>1 DEF Regains, Tasks, LoopTasks
  <2>4. \A h \in inCluster' : h \in members[Restored]
    BY <1>0, <2>2, <2>3, AnswersRestored DEF Apart, Listed
  <2>5. inv \ todo' \subseteq members'[Restored]
    BY <1>2, <2>1, <2>2, <2>4
  <2> QED
    BY <1>0, <1>1, <1>2, <2>1, <2>3, <2>5 DEF Regains, LoopTasks, JoinStarts
<1>11. CASE JoinAdd
  <2>1. pc = "add" /\ pc' = "addconfig" /\ todo' = todo
    BY <1>11 DEF JoinAdd, Goto, factVars
  <2>2. data[Me] # F
    BY <2>1 DEF Regains, Tasks
  <2>3. AddSucceeds(Restored, First(todo))
    BY <1>11, <2>2, AnswersRestored DEF JoinAdd
  <2>4. First(todo) \in members'[Restored]
    BY <1>0, <2>3 DEF AddSucceeds, AddMember, serverVars, Typed, DataOK, ServerTypeOK
  <2> QED
    BY <1>0, <1>1, <1>2, <2>1, <2>2, <2>4 DEF Regains, LoopTasks, JoinStarts, First
<1>12. CASE JoinConfig \/ JoinVerify
  <2>1. pc \in {"addconfig", "verify"} /\ pc' \in {"verify", "joinstart"} /\ todo' = todo
    BY <1>12 DEF JoinConfig, JoinVerify, Goto
  <2> QED
    BY <1>0, <1>1, <1>2, <2>1 DEF Regains, Tasks, LoopTasks, JoinStarts, First
<1>13. CASE JoinStart
  <2>1. /\ pc = "joinstart" /\ pc' = (IF todo' = {} THEN "refresh" ELSE "add")
        /\ todo' = todo \ {First(todo)}
    BY <1>13 DEF JoinStart, Goto
  <2>2. inv \ todo' \subseteq members'[Restored]
    BY <1>2, <2>1 DEF Regains, JoinStarts
  <2> QED
    BY <1>0, <1>1, <1>2, <2>1, <2>2 DEF Regains, Tasks, LoopTasks, JoinStarts
<1>14. CASE RefreshConfig \/ Reload \/ WaitUp
  <2>1. pc \in {"refresh", "reload", "up"} /\ pc' \in {"reload", "up", "done"}
    BY <1>14 DEF RefreshConfig, Reload, WaitUp, Goto
  <2> QED
    BY <1>0, <1>1, <1>2, <2>1 DEF Regains, Tasks, LoopTasks, JoinStarts
<1>15. CASE UNCHANGED allVars \/ ServerStep \/ CrashStep
  <2>1. pc' = pc /\ todo' = todo
    BY <1>15 DEF allVars, vars, roleVars, factVars, ServerStep, CrashStep
  <2> QED
    BY <1>3, <1>4, <2>1 DEF Tasks
<1>16. CASE \/ StartRecover \/ RecoverInterrupt \/ SaveSnapshot \/ StopServer \/ RemoveDataDir \/ RestoreSnapshot
            \/ RemoveSnapshot \/ Reconfigure \/ StartServer \/ GiveUp \/ Abort
  BY <1>3, <1>16 DEF StartRecover, RecoverInterrupt, Interrupt, SaveSnapshot, StopServer, RemoveDataDir,
     RestoreSnapshot, RemoveSnapshot, Reconfigure, StartServer, GiveUp, Abort, Then, Goto, Tasks, roleVars
<1>17. \A h : ~StrikeMember(h)
  BY AloneStrikesNobody
<1> QED
  BY <1>0, <1>5, <1>6, <1>7, <1>8, <1>9, <1>10, <1>11, <1>12, <1>13, <1>14, <1>15, <1>16, <1>17
     DEF RecoverNext, RecoverPlay, Play, ListMembersFails, StrikeFails, SaveSnapshotFails, StartFails,
         WaitFails, JoinAddFails, JoinVerifyFails, WaitUpFails

-----------------------------------------------------------------------------
(* Runs that nothing disturbs.  Of one survivor or a majority, no run then *)
(* gives up: whatever a task waits for happens, because every server that  *)
(* is configured gets somewhere.                                           *)

(* Nobody has broken, and all serve.                                       *)
Intact(F) ==
    /\ Unbroken(F)
    /\ enabled = F /\ started[F] = F /\ notified = {}
    /\ \A h \in F : Ready(h)
    /\ \A h \in Hosts \ F : conf[h].state = "none"

(* Several survivors, but no majority: nothing is claimed.                 *)
Minority(F) ==
    /\ broken # {} /\ F \in lineage
    /\ Cardinality(F \ broken) > 1
    /\ 2 * Cardinality(F \ broken) <= Cardinality(F)

(* The hosts V have the data of W, and whoever runs has.                   *)
Runs(W, V) ==
    /\ W \in lineage /\ W # NoData /\ V # {} /\ V \subseteq inv
    /\ broken # {} /\ broken \cap inv = {} /\ stale \cap inv = {}
    /\ \A h \in Hosts : proc[h] # "down" => h \in inv /\ data[h] = W
    /\ \A h \in inv : data[h] \in {NoData, W}
    /\ \A h \in V : data[h] = W

(* They outvote the members that have gone, and, when the playbook counts  *)
(* the healthy hosts, the replacements; or there is one, and it does not.  *)
Strong(W, V) ==
    /\ 2 * Cardinality(V) > Cardinality(members[W])
    /\ pc \in {"idle", "assess"} => 2 * Cardinality(V) >= Cardinality(inv)

Weak(W, V) ==
    /\ pc \in {"idle", "assess"}
    /\ V = Restored /\ lineage = {W} /\ members[W] = W /\ Cardinality(W) > 1

(* Between the runs, and before cluster.yml does anything: V serves, and   *)
(* nobody else has been configured.                                        *)
Steady(W, V) ==
    /\ Runs(W, V)
    /\ pc \in {"idle", "done", "assess", "clean", "list", "strike", "health"}
    /\ enabled = V /\ notified = {}
    /\ \A h \in V : Ready(h)
    /\ \A h \in inv \ V : data[h] = NoData /\ conf[h].state = "none"
    /\ V \subseteq members[W] /\ members[W] \ V \subseteq broken /\ started[W] = members[W]
    /\ pc = "strike" => left = members[W] \ V
    /\ pc \in {"health", "done"} => members[W] = V
    /\ pc = "done" => V = inv
    /\ Strong(W, V) \/ Weak(W, V)

(* F is being replaced by the restored cluster.                            *)
Replacing(F) ==
    /\ pc \in RestoreTasks
    /\ broken # {} /\ broken \cap inv = {} /\ stale \cap inv = {}
    /\ F \in lineage /\ F \notin {NoData, Restored} /\ notified = {}
    /\ \A h \in Hosts \ {Me} : proc[h] = "down"
    /\ \A h \in inv \ {Me} : data[h] = NoData /\ conf[h].state = "none"
    /\ pc \in {"save", "stop"} => Ready(Me) /\ data[Me] = F
    /\ pc \in {"stop", "wipe", "restore"} => snapshot = F
    /\ pc \in {"wipe", "restore", "unsave", "reconfigure"} => enabled = {} /\ proc[Me] = "down"
    /\ pc \in {"unsave", "reconfigure", "restart"} =>
          /\ Restored \in lineage /\ data[Me] = Restored
          /\ members[Restored] = Restored /\ started[Restored] \subseteq Restored
    /\ enabled \subseteq {Me}
    /\ pc = "restart" /\ proc[Me] # "down" => enabled = {Me}
    /\ pc = "restart" /\ Ready(Me) => Me \in started[Restored]

(* Who is a member while cluster.yml brings the others in.                 *)
Joined(W, V) ==
    /\ V \subseteq members[W] /\ members[W] \subseteq inv /\ started[W] \subseteq members[W]
    /\ \A h \in inv : data[h] = W => h \in members[W]
    /\ \A h \in inv : Ready(h) => h \in started[W]
    /\ \A h \in V : Ready(h) \/ (pc = "up" /\ h \in notified)
    /\ enabled = (IF pc \in {"config", "enable"} THEN V ELSE inv)
    /\ notified \subseteq inv
    /\ IF pc = "config" THEN \A h \in inv \ V : conf[h].state = "none" ELSE inv \ V \subseteq notified

(* A member without data has the file that lets it in.                     *)
Admitted(W) ==
    pc # "config" => \A h \in inv : data[h] = NoData =>
        /\ conf[h].state = "existing"
        /\ h \in members[W] => conf[h].initial = members[W] \/ (pc = "addconfig" /\ h = First(todo))

(* The loop over join_etcd_member.yml.                                     *)
Looping(W, V) ==
    /\ pc \in {"config", "enable", "start", "wait", "check"} => members[W] = V
    /\ pc = "add" => inCluster = members[W] /\ todo = inv \ members[W]
    /\ pc \in {"addconfig", "verify"} =>
          /\ First(todo) \in members[W]
          /\ inCluster = members[W] \ {First(todo)} /\ todo = inv \ inCluster
    /\ pc = "joinstart" =>
          /\ First(todo) \in members[W]
          /\ inCluster = members[W] /\ todo \ {First(todo)} = inv \ members[W]
    /\ pc \in {"refresh", "reload", "up"} => members[W] = inv

Joining(W, V) ==
    /\ Runs(W, V) /\ healthy
    /\ pc \in Tasks \ {"health"}
    /\ Joined(W, V) /\ Admitted(W) /\ Looping(W, V)

SmoothInv ==
    \/ Disturbed
    \/ \E F \in Clusters : Intact(F) \/ Minority(F) \/ Replacing(F)
    \/ \E W, V \in Clusters : Steady(W, V) \/ Joining(W, V)

LEMMA DisturbedStays ==
  ASSUME Typed, [RecoverNext]_allVars, Disturbed
  PROVE  Disturbed'
<1>1. crashes \in Nat
  BY RoleAssumption DEF Typed, DataOK
<1>2. CASE CrashStep
  BY <1>1, <1>2 DEF CrashStep, Disturbed
<1>3. CASE RecoverInterrupt
  BY <1>3 DEF RecoverInterrupt, Interrupt, Disturbed
<1>4. CASE Play
  BY <1>4 DEF Disturbed, history, roleVars, Play, CheckHealth, WriteConfig, EnsureRunning,
           StartReturns, StartFails, WaitHealthy, WaitFails, CheckMembers, JoinAdd, JoinAddFails,
           JoinConfig, JoinVerify, JoinVerifyFails, JoinStart, RefreshConfig,
           Reload, WaitUp, WaitUpFails, Abort, Goto
<1>5. CASE RecoverPlay
  BY <1>5 DEF Disturbed, history, roleVars, RecoverPlay, Assess, CleanBroken, ListMembers, ListMembersFails,
           StrikeMember, StrikeFails, SaveSnapshot, SaveSnapshotFails, StopServer, RemoveDataDir,
           RestoreSnapshot, RemoveSnapshot, Reconfigure, StartServer, StartCluster, GiveUp, Abort, Then, Goto
<1>6. CASE StartRecover \/ ServerStep \/ UNCHANGED allVars
  BY <1>6 DEF Disturbed, StartRecover, ServerStep, allVars, vars, roleVars, history
<1>7. ASSUME NEW B \in SUBSET Hosts, NEW S \in SUBSET Hosts, Break(B, S) PROVE Disturbed'
  BY <1>7 DEF Disturbed, Break, history
<1> QED
  BY <1>2, <1>3, <1>4, <1>5, <1>6, <1>7 DEF RecoverNext

LEMMA SmoothInit == RecoverInit => SmoothInv
<1> SUFFICES ASSUME RecoverInit PROVE SmoothInv
  OBVIOUS
<1>1. TypeOK /\ EstablishedInit(inv) /\ inv \in Clusters
  BY TypeInit DEF RecoverInit, Init, RoleInit, TypeOK, RoleTypeOK, Clusters
<1>2. Unbroken(inv)
  BY <1>1 DEF RecoverInit, RoleInit, EstablishedInit, Unbroken, NoData
<1>3. Intact(inv)
  BY <1>1, <1>2 DEF RecoverInit, RoleInit, EstablishedInit, Intact, NoConf, Ready, Clusters
<1> QED
  BY <1>1, <1>3 DEF SmoothInv

(* No server has a step to make.                                           *)
LEMMA IntactServers ==
  ASSUME Typed, NEW F \in Clusters, Intact(F)
  PROVE  ~ServerStep
<1>1. ASSUME NEW h \in Hosts, Launch(h) \/ Publish(h) PROVE FALSE
  <2>1. h \in F
    BY <1>1 DEF Launch, Publish, Intact, Unbroken
  <2> QED
    BY <1>1, <2>1 DEF Launch, Publish, Intact, Ready
<1> QED
  BY <1>1 DEF ServerStep

LEMMA FirstSurvives ==
  ASSUME Typed, NEW F \in Clusters, Unbroken(F),
         NEW B \in SUBSET Hosts, NEW S \in SUBSET Hosts, Break(B, S)
  PROVE  Me' \in F \ B
<1>0. /\ inv = F /\ F \subseteq Hosts /\ B # F /\ B \subseteq F /\ inv' = (F \ B) \cup S
      /\ \A s \in S, h \in F : h < s
  BY DEF Break, Typed, DataOK, Unbroken, Clusters
<1>1. Me' \in inv' /\ Me' \in Hosts /\ \A h \in inv' : Me' <= h
  BY <1>0, FirstIn DEF Typed, DataOK, Me
<1>2. PICK h \in F \ B : TRUE
  BY <1>0
<1>3. Me' <= h
  BY <1>0, <1>1, <1>2
<1>4. h \in Nat /\ Me' \in Nat
  BY <1>0, <1>1, HostsAssumption
<1>5. Me' \notin S
  BY <1>0, <1>2, <1>3, <1>4
<1> QED
  BY <1>0, <1>1, <1>5

LEMMA OneHost ==
  ASSUME NEW S, IsFiniteSet(S), NEW h \in S
  PROVE  /\ Cardinality(S) \in Nat /\ Cardinality(S) >= 1
         /\ Cardinality(S) = 1 <=> S = {h}
<1>1. IsFiniteSet(S \ {h}) /\ Cardinality(S \ {h}) = Cardinality(S) - 1
  BY FS_RemoveElement
<1>2. Cardinality(S) \in Nat /\ Cardinality(S \ {h}) \in Nat
  BY <1>1, FS_CardinalityType
<1>3. Cardinality(S \ {h}) = 0 <=> S \ {h} = {}
  BY <1>1, FS_EmptySet
<1> QED
  BY <1>1, <1>2, <1>3

LEMMA IntactBreak ==
  ASSUME Careful, Typed, Typed', NEW F \in Clusters, Intact(F),
         NEW B \in SUBSET Hosts, NEW S \in SUBSET Hosts, Break(B, S)
  PROVE  SmoothInv'
<1>0. /\ ServerTypeOK /\ inv = F /\ F \subseteq Hosts /\ S \subseteq Hosts
      /\ broken' = B /\ B # {} /\ B \subseteq F /\ inv' = (F \ B) \cup S
      /\ S \cap F = {} /\ Cardinality(S) <= Cardinality(B)
      /\ UNCHANGED <<conf, data, stale, members, started, notified, left, lineage>> /\ pc' = "idle"
      /\ enabled' = F \ B
      /\ \A h \in Hosts : proc'[h] = (IF h \in B THEN "down" ELSE proc[h])
  BY DEF Break, Typed, DataOK, Intact, Unbroken, Clusters, factVars
<1>1. Me' \in F \ B
  BY FirstSurvives DEF Intact
<1> DEFINE V == F \ B
<1>2. IsFiniteSet(F) /\ IsFiniteSet(B) /\ IsFiniteSet(S) /\ IsFiniteSet(V) /\ V \in Clusters
  BY <1>0, HostSets DEF Clusters
<1>3. /\ Cardinality(V) \in Nat /\ Cardinality(V) >= 1 /\ (Cardinality(V) = 1 <=> V = {Me'})
      /\ Cardinality(F) \in Nat /\ Cardinality(B) \in Nat /\ Cardinality(B) # 0 /\ Cardinality(S) \in Nat
  <2>1. Me' \in V
    BY <1>1
  <2> HIDE DEF V
  <2> QED
    BY <1>0, <1>2, <2>1, OneHost, FS_CardinalityType, FS_EmptySet
<1>4. Cardinality(V) = Cardinality(F) - Cardinality(B)
  <2>1. F \cap B = B
    BY <1>0
  <2> QED
    BY <1>2, <2>1, FS_Difference
<1>5. Cardinality(inv') = Cardinality(V) + Cardinality(S)
  <2>1. V \cap S = {} /\ inv' = V \cup S
    BY <1>0
  <2>2. Cardinality(V \cup S) = Cardinality(V) + Cardinality(S) - Cardinality(V \cap S)
    BY <1>2, FS_Union
  <2> HIDE DEF V
  <2> QED
    BY <1>3, <2>1, <2>2, FS_EmptySet
<1>6. /\ lineage' = {F} /\ F # NoData /\ stale' = {} /\ members'[F] = F /\ started'[F] = F
      /\ \A h \in Hosts : data'[h] = (IF h \in F THEN F ELSE NoData)
      /\ \A h \in V : Ready(h)'
      /\ \A h \in Hosts : proc'[h] # "down" => h \in V
      /\ \A h \in Hosts \ F : conf'[h].state = "none"
      /\ notified' = {}
  BY <1>0 DEF Intact, Unbroken, Ready, NoData
<1>7. Runs(F, V)'
  <2>1. V # {} /\ V \subseteq inv' /\ inv' \subseteq Hosts /\ V \subseteq F /\ B \cap inv' = {}
    BY <1>0, <1>1
  <2> QED
    BY <1>0, <1>6, <2>1 DEF Runs
<1>8. CASE V = {Me'} \/ 2 * Cardinality(V) > Cardinality(F)
  <2>1. Strong(F, V)' \/ Weak(F, V)'
    <3>1. CASE V = {Me'}
      <4>1. Cardinality(F) > 1
        BY <1>3, <1>4, <3>1
      <4> QED
        BY <1>0, <1>6, <3>1, <4>1 DEF Weak, Restored
    <3>2. CASE 2 * Cardinality(V) > Cardinality(F)
      <4>1. 2 * Cardinality(V) >= Cardinality(inv')
        BY <1>0, <1>3, <1>4, <1>5, <3>2
      <4> QED
        BY <1>6, <3>2, <4>1 DEF Strong
    <3> QED
      BY <1>8, <3>1, <3>2
  <2>2. Steady(F, V)'
    <3>1. V \subseteq F /\ F \ V = B /\ \A h \in inv' \ V : h \in Hosts \ F
      BY <1>0
    <3> HIDE DEF V
    <3> QED
      BY <1>0, <1>6, <1>7, <2>1, <3>1 DEF Steady
  <2> QED
    BY <1>2, <2>2 DEF SmoothInv
<1>9. CASE ~(V = {Me'} \/ 2 * Cardinality(V) > Cardinality(F))
  <2>1. Cardinality(V) > 1 /\ 2 * Cardinality(V) <= Cardinality(F)
    BY <1>3, <1>9
  <2>2. Minority(F)'
    BY <1>0, <1>6, <2>1 DEF Minority
  <2> QED
    BY <2>2 DEF SmoothInv
<1> QED
  BY <1>8, <1>9

LEMMA MinorityStays ==
  ASSUME Typed, NEW F \in Clusters, Minority(F), [RecoverNext]_allVars
  PROVE  Minority(F)'
<1>1. broken' = broken
  BY GroupFixed DEF Minority
<1>2. F # Restored
  <2>1. F = Restored => F \ broken = F \/ F \ broken = {}
    BY DEF Restored
  <2>2. Cardinality({Me}) = 1 /\ Cardinality({}) = 0
    BY FS_Singleton, FS_EmptySet
  <2> QED
    BY <2>1, <2>2 DEF Minority, Restored
<1>3. F \in lineage'
  BY <1>2, LineageKeeps DEF Minority
<1> QED
  BY <1>1, <1>3 DEF Minority

-----------------------------------------------------------------------------
(* Between the runs.                                                       *)
LEMMA SteadyFacts ==
  ASSUME Typed, NEW W \in Clusters, NEW V \in Clusters, Steady(W, V)
  PROVE  /\ ServerTypeOK /\ inv \subseteq Hosts /\ V \subseteq inv /\ V # {} /\ Me \in inv /\ Me \in Hosts
         /\ Live(W) = V /\ Reachable(inv) = {W}
         /\ \A h \in inv : Ready(h) <=> h \in V
         /\ \A h \in Hosts : proc[h] # "down" => h \in V
<1>1. ServerTypeOK /\ inv \subseteq Hosts /\ V \subseteq inv /\ V # {}
  BY DEF Typed, DataOK, Steady, Runs
<1>2. \A h \in Hosts : proc[h] # "down" => h \in V
  BY DEF Steady, Runs
<1>3. Live(W) = V
  <2>1. \A h \in V : h \in members[W] /\ data[h] = W /\ h \notin stale /\ proc[h] # "down"
    BY DEF Steady, Runs, Ready
  <2>2. members[W] \subseteq Hosts
    BY <1>1 DEF ServerTypeOK
  <2> QED
    BY <1>2, <2>1, <2>2 DEF Live
<1>4. \A h \in inv : Ready(h) <=> h \in V
  BY <1>1, <1>2 DEF Steady, Ready
<1>5. Reachable(inv) = {W}
  BY <1>1, <1>4 DEF Reachable, Steady, Runs
<1>6. Me \in inv /\ Me \in Hosts
  BY <1>1, MeIn
<1> QED
  BY <1>1, <1>2, <1>3, <1>4, <1>5, <1>6

LEMMA SteadyServers ==
  ASSUME Typed, NEW W \in Clusters, NEW V \in Clusters, Steady(W, V)
  PROVE  ~ServerStep
<1>1. ASSUME NEW h \in Hosts, Launch(h) \/ Publish(h) PROVE FALSE
  <2>1. h \in V
    BY <1>1, SteadyFacts DEF Launch, Publish, Steady
  <2> QED
    BY <1>1, <2>1 DEF Launch, Publish, Steady, Ready
<1> QED
  BY <1>1 DEF ServerStep

(* A weak cluster does not serve, and the playbook sees it.                *)
LEMMA WeakQuorum ==
  ASSUME Typed, NEW W \in Clusters, NEW V \in Clusters, Steady(W, V), Weak(W, V)
  PROVE  ~HasQuorum(W) /\ ~Serves(W)
<1>1. Live(W) = {Me} /\ members[W] = W /\ Cardinality(W) > 1
  BY SteadyFacts DEF Weak, Restored
<1>2. Cardinality({Me}) = 1 /\ IsFiniteSet({Me})
  BY FS_Singleton
<1>3. Cardinality(W) \in Nat
  BY HostSets DEF Clusters
<1>4. ~HasQuorum(W)
  BY <1>1, <1>2, <1>3 DEF HasQuorum
<1>5. {h \in Live(W) : Ready(h)} \subseteq {Me}
  BY <1>1
<1>6. Cardinality({h \in Live(W) : Ready(h)}) <= 1 /\ Cardinality({h \in Live(W) : Ready(h)}) \in Nat
  BY <1>2, <1>5, FS_Subset, FS_CardinalityType
<1> QED
  BY <1>1, <1>4, <1>6, <1>3 DEF Serves

(* A strong cluster is found to have its quorum.                           *)
LEMMA StrongFact ==
  ASSUME Typed, NEW W \in Clusters, NEW V \in Clusters, Steady(W, V), Strong(W, V), pc = "assess"
  PROVE  QuorumFact
<1>0. /\ ServerTypeOK /\ inv \subseteq Hosts /\ V \subseteq inv /\ V # {} /\ Me \in inv
      /\ Live(W) = V /\ \A h \in inv : Ready(h) <=> h \in V
  BY SteadyFacts
<1>1. HasQuorum(W)
  BY <1>0 DEF Strong, HasQuorum
<1>2. SaysHealthy = V
  BY <1>0, <1>1 DEF SaysHealthy, Steady, Runs
<1>3. /\ Cardinality(V) \in Nat /\ Cardinality(inv) \in Nat
      /\ Cardinality(inv \ V) = Cardinality(inv) - Cardinality(V)
  <2>1. inv \cap V = V /\ V \subseteq Hosts
    BY <1>0
  <2>2. IsFiniteSet(inv) /\ Cardinality(inv) \in Nat /\ Cardinality(V) \in Nat
    BY <1>0, <2>1, HostSets
  <2>3. Cardinality(inv \ V) = Cardinality(inv) - Cardinality(inv \cap V)
    BY <2>2, FS_Difference
  <2> QED
    BY <2>1, <2>2, <2>3
<1> QED
  BY <1>2, <1>3 DEF QuorumFact, Strong

LEMMA SteadyAssess ==
  ASSUME Typed, NEW W \in Clusters, NEW V \in Clusters, Steady(W, V), Assess
  PROVE  Steady(W, V)' \/ Replacing(W)'
<1>0. /\ ServerTypeOK /\ inv \subseteq Hosts /\ V \subseteq inv /\ V # {} /\ Me \in inv
      /\ Live(W) = V /\ \A h \in inv : Ready(h) <=> h \in V
  BY SteadyFacts
<1>1. /\ pc = "assess" /\ pc' = (IF QuorumFact THEN "clean" ELSE "save")
      /\ UNCHANGED <<conf, enabled, proc, data, stale, members, started, inv, notified, broken, left,
                     snapshot, lineage>>
  BY DEF Assess, Then, Goto, serverVars, factVars
<1>2. Me' = Me /\ Restored' = Restored
  BY <1>1, MeStays
<1>3. CASE Strong(W, V)
  <2>1. QuorumFact
    BY <1>1, <1>3, StrongFact
  <2>2. Steady(W, V)'
    BY <1>1, <1>3, <2>1 DEF Steady, Runs, Strong, Ready
  <2> QED
    BY <2>2
<1>4. CASE Weak(W, V)
  <2>1. SaysHealthy = {}
    BY <1>0, <1>4, WeakQuorum DEF SaysHealthy, Steady, Runs
  <2>2. ~QuorumFact
    <3>1. Cardinality(inv) \in Nat /\ Cardinality(inv) # 0
      BY <1>0, HostSets, FS_EmptySet
    <3>2. Cardinality({}) = 0 /\ inv \ {} = inv
      BY FS_EmptySet
    <3> QED
      BY <2>1, <3>1, <3>2 DEF QuorumFact
  <2>3. V = {Me} /\ W # Restored
    <3>1. Cardinality({Me}) = 1
      BY FS_Singleton
    <3> QED
      BY <1>4, <3>1 DEF Weak, Restored
  <2>4. Replacing(W)'
    <3>1. \A h \in Hosts \ {Me} : proc[h] = "down"
      BY <2>3, SteadyFacts
    <3>2. Ready(Me) /\ data[Me] = W /\ enabled \subseteq {Me}
      BY <2>3 DEF Steady, Runs
    <3> QED
      BY <1>1, <1>2, <2>2, <2>3, <3>1, <3>2 DEF Steady, Runs, Replacing, Ready, RestoreTasks
  <2> QED
    BY <2>4
<1> QED
  BY <1>3, <1>4 DEF Steady

LEMMA SteadyStrike ==
  ASSUME Typed, NEW W \in Clusters, NEW V \in Clusters, Steady(W, V), NEW h \in Hosts, StrikeMember(h)
  PROVE  Steady(W, V)'
<1>0. /\ ServerTypeOK /\ inv \subseteq Hosts /\ V \subseteq inv /\ V # {} /\ Me \in inv
      /\ Live(W) = V /\ Reachable(inv) = {W}
  BY SteadyFacts
<1>1. /\ pc = "strike" /\ pc' = "strike" /\ h \in left /\ left' = left \ {h}
      /\ RemoveMember(W, h)
      /\ UNCHANGED <<conf, enabled, data, inv, notified, broken, snapshot, lineage>>
  BY <1>0 DEF StrikeMember, Then, Goto, factVars
<1>2. h \in members[W] \ V /\ h \in broken /\ h \notin inv
  BY <1>1 DEF Steady, Runs
<1>3. /\ members'[W] = members[W] \ {h} /\ started'[W] = started[W] \ {h}
      /\ stale' \subseteq stale \cup {h}
      /\ \A g \in Hosts : proc'[g] = proc[g] \/ (g = h /\ proc'[g] = "down")
  BY <1>0, <1>1 DEF RemoveMember, ServerTypeOK
<1>4. Runs(W, V)'
  BY <1>0, <1>1, <1>2, <1>3 DEF Steady, Runs
<1>5. Strong(W, V)'
  <2>1. members[W] \subseteq Hosts /\ IsFiniteSet(members[W]) /\ h \in members[W]
    BY <1>0, <1>2, HostSets DEF ServerTypeOK
  <2>2. Cardinality(members[W] \ {h}) = Cardinality(members[W]) - 1
    BY <2>1, FS_RemoveElement
  <2>3. Cardinality(V) \in Nat /\ Cardinality(members[W]) \in Nat
    BY <2>1, HostSets DEF Clusters
  <2>4. Strong(W, V)
    BY <1>1 DEF Steady, Weak
  <2> QED
    BY <1>1, <1>3, <2>2, <2>3, <2>4 DEF Strong
<1> QED
  BY <1>0, <1>1, <1>2, <1>3, <1>4, <1>5 DEF Steady, Ready

(* The broken members can be struck, one after the other.                  *)
LEMMA SteadyGoesOn ==
  ASSUME Typed, NEW W \in Clusters, NEW V \in Clusters, Steady(W, V)
  PROVE  ~ListMembersFails /\ ~StrikeFails /\ ~SaveSnapshotFails
<1>0. /\ ServerTypeOK /\ inv \subseteq Hosts /\ V \subseteq inv /\ V # {}
      /\ Live(W) = V /\ Reachable(inv) = {W}
  BY SteadyFacts
<1>1. ~ListMembersFails /\ ~SaveSnapshotFails
  BY <1>0 DEF ListMembersFails, SaveSnapshotFails, Steady
<1>2. ASSUME StrikeFails PROVE FALSE
  <2>1. pc = "strike"
    BY <1>2 DEF StrikeFails
  <2>2. PICK h \in left : ~(HasQuorum(W) /\ h \in members[W] /\ StrictRemove(W, h))
    BY <1>0, <1>2 DEF StrikeFails
  <2>3. h \in members[W] /\ h \notin V
    BY <2>1, <2>2 DEF Steady
  <2>4. HasQuorum(W)
    BY <1>0, <2>1 DEF Steady, Strong, Weak, HasQuorum
  <2> DEFINE rest == members[W] \ {h}
  <2>5. rest # {} /\ started[W] \cap rest = rest /\ h \notin Live(W)
    BY <1>0, <2>3 DEF Steady
  <2>6. Cardinality(rest) \in Nat /\ Cardinality(rest) # 0
    <3>1. rest \subseteq Hosts
      BY <1>0 DEF ServerTypeOK
    <3> HIDE DEF rest
    <3> QED
      BY <2>5, <3>1, HostSets, FS_EmptySet
  <2>7. Cardinality(rest) >= Quorum(Cardinality(rest))
    <3> HIDE DEF rest
    <3> QED
      BY <2>6 DEF Quorum
  <2>8. StrictRemove(W, h)
    BY <2>5, <2>7 DEF StrictRemove
  <2> QED
    BY <2>2, <2>3, <2>4, <2>8
<1> QED
  BY <1>1, <1>2

LEMMA SteadyLooks ==
  ASSUME Typed, NEW W \in Clusters, NEW V \in Clusters, Steady(W, V),
         CleanBroken \/ ListMembers \/ StartCluster \/ StartRecover
  PROVE  Steady(W, V)'
<1>0. /\ ServerTypeOK /\ inv \subseteq Hosts /\ V \subseteq inv /\ V # {}
      /\ Live(W) = V /\ Reachable(inv) = {W} /\ \A h \in Hosts : proc[h] # "down" => h \in V
  BY SteadyFacts
<1>1. CASE CleanBroken
  <2>1. /\ pc = "clean" /\ pc' = "list"
        /\ UNCHANGED <<conf, enabled, proc, stale, members, started, inv, notified, broken, left, snapshot, lineage>>
    BY <1>1 DEF CleanBroken, Then, Goto, factVars, recoverVars
  <2>2. \A h \in inv : data'[h] = data[h]
    <3>1. PICK S \in SUBSET broken : data' = [h \in Hosts |-> IF h \in S THEN NoData ELSE data[h]]
      BY <1>1 DEF CleanBroken
    <3> QED
      BY <1>0, <3>1 DEF Steady, Runs
  <2>3. Runs(W, V)'
    BY <1>0, <2>1, <2>2 DEF Steady, Runs
  <2> QED
    BY <1>0, <2>1, <2>2, <2>3 DEF Steady, Strong, Weak, Ready
<1>2. CASE ListMembers
  <2>1. /\ pc = "list" /\ pc' = "strike" /\ left' = broken \cap members[W] \cap started[W]
        /\ UNCHANGED <<conf, enabled, proc, data, stale, members, started, inv, notified, broken, lineage>>
    BY <1>0, <1>2 DEF ListMembers, Then, Goto, factVars, serverVars
  <2>2. left' = members[W] \ V
    BY <1>0, <2>1 DEF Steady, Runs
  <2> QED
    BY <2>1, <2>2 DEF Steady, Runs, Strong, Weak, Ready
<1>3. CASE StartCluster
  <2>1. /\ pc = "strike" /\ left = {} /\ pc' = "health"
        /\ UNCHANGED <<conf, enabled, proc, data, stale, members, started, inv, notified, broken, lineage>>
    BY <1>3 DEF StartCluster, Then, Goto, factVars, serverVars, recoverVars, Steady
  <2>2. members[W] = V
    BY <2>1 DEF Steady
  <2> QED
    BY <2>1, <2>2 DEF Steady, Runs, Strong, Weak, Ready
<1>4. CASE StartRecover
  <2>1. /\ pc \in {"idle", "done"} /\ pc' = "assess"
        /\ UNCHANGED <<conf, enabled, proc, data, stale, members, started, inv, notified, broken, lineage>>
    BY <1>4 DEF StartRecover, Idle, factVars, serverVars, recoverVars
  <2>2. Cardinality(V) \in Nat
    BY HostSets DEF Clusters
  <2>3. Restored' = Restored
    BY <2>1, MeStays
  <2>4. Strong(W, V)' \/ Weak(W, V)'
    <3>1. CASE pc = "idle"
      BY <2>1, <2>3, <3>1 DEF Steady, Strong, Weak
    <3>2. CASE pc = "done"
      BY <2>1, <2>2, <3>2 DEF Steady, Strong, Weak
    <3> QED
      BY <2>1, <3>1, <3>2
  <2> QED
    BY <2>1, <2>4 DEF Steady, Runs, Ready
<1> QED
  BY <1>1, <1>2, <1>3, <1>4

(* The health check of cluster.yml succeeds.                               *)
LEMMA SteadyHealth ==
  ASSUME Typed, NEW W \in Clusters, NEW V \in Clusters, Steady(W, V), CheckHealth, lineage' = lineage, broken' = broken
  PROVE  Joining(W, V)'
<1>0. /\ ServerTypeOK /\ inv \subseteq Hosts /\ V \subseteq inv /\ V # {}
      /\ Live(W) = V /\ Reachable(inv) = {W} /\ \A h \in inv : Ready(h) <=> h \in V
  BY SteadyFacts
<1>1. /\ pc = "health" /\ pc' = "config" /\ members[W] = V /\ started[W] = V
      /\ UNCHANGED <<conf, enabled, proc, data, stale, members, started, inv, notified>>
  BY DEF CheckHealth, Goto, serverVars, Steady
<1>2. Healthy(W)
  <2>1. HasQuorum(W)
    BY <1>0, <1>1 DEF HasQuorum, Steady, Strong, Weak
  <2> QED
    BY <1>0, <1>1, <2>1 DEF Healthy, Steady, Runs
<1>3. healthy'
  BY <1>0, <1>2 DEF CheckHealth
<1>4. Joined(W, V)'
  BY <1>0, <1>1 DEF Steady, Runs, Joined, Ready
<1>5. Runs(W, V)'
  BY <1>1 DEF Steady, Runs
<1> QED
  BY <1>1, <1>3, <1>4, <1>5 DEF Joining, Admitted, Looping, Tasks

LEMMA SteadyStep ==
  ASSUME Typed, NEW W \in Clusters, NEW V \in Clusters, Steady(W, V), [RecoverNext]_allVars
  PROVE  Steady(W, V)' \/ Replacing(W)' \/ Joining(W, V)' \/ Disturbed'
<1>0. /\ ~ServerStep /\ ~ListMembersFails /\ ~StrikeFails /\ ~SaveSnapshotFails
      /\ \A B, S \in SUBSET Hosts : ~Break(B, S)
  BY SteadyServers, SteadyGoesOn DEF Break, Steady, Runs
<1>1. pc \notin (Tasks \ {"health"}) \cup RestoreTasks
  BY DEF Steady, Tasks, RestoreTasks
<1>2. CASE UNCHANGED allVars
  <2>1. /\ UNCHANGED <<conf, enabled, proc, data, stale, members, started, inv, notified, broken, left, lineage, pc>>
        /\ Restored' = Restored
    BY <1>2, MeStays DEF allVars, vars, serverVars, roleVars, factVars, recoverVars
  <2> QED
    BY <2>1 DEF Steady, Runs, Strong, Weak, Ready
<1>3. CASE CrashStep \/ RecoverInterrupt
  <2>1. crashes \in Nat
    BY RoleAssumption DEF Typed, DataOK
  <2> QED
    BY <1>3, <2>1 DEF CrashStep, RecoverInterrupt, Interrupt, Disturbed
<1>4. CASE Play /\ UNCHANGED <<recoverVars, lineage>>
  <2>1. CheckHealth /\ lineage' = lineage /\ broken' = broken
    BY <1>1, <1>4 DEF Play, WriteConfig, EnsureRunning, StartReturns, StartFails, WaitHealthy, WaitFails,
       CheckMembers, JoinAdd, JoinAddFails, JoinConfig, JoinVerify, JoinVerifyFails, JoinStart,
       RefreshConfig, Reload, WaitUp, WaitUpFails, Tasks, recoverVars
  <2> QED
    BY <2>1, SteadyHealth
<1>5. CASE RecoverPlay
  <2>1. Assess \/ CleanBroken \/ ListMembers \/ StartCluster \/ \E h \in Hosts : StrikeMember(h)
    BY <1>0, <1>1, <1>5 DEF RecoverPlay, SaveSnapshot, StopServer, RemoveDataDir,
       RestoreSnapshot, RemoveSnapshot, Reconfigure, StartServer, RestoreTasks
  <2> QED
    BY <2>1, SteadyAssess, SteadyLooks, SteadyStrike
<1> QED
  BY <1>0, <1>2, <1>3, <1>4, <1>5, SteadyLooks DEF RecoverNext

-----------------------------------------------------------------------------
(* The replacement.                                                        *)
LEMMA ReplacingFacts ==
  ASSUME Typed, Begun, NEW F \in Clusters, Replacing(F), [RecoverNext]_allVars
  PROVE  /\ ServerTypeOK /\ inv \subseteq Hosts /\ Me \in inv /\ Me \in Hosts
         /\ Restored \in Clusters /\ Restored # NoData
         /\ inv' = inv /\ broken' = broken /\ Me' = Me /\ Restored' = Restored /\ F \in lineage'
<1>1. inv' = inv /\ broken' = broken /\ Me' = Me /\ Restored' = Restored
  BY GroupFixed DEF Replacing
<1>2. F \in lineage'
  BY LineageKeeps DEF Replacing
<1>3. Me \in inv /\ Me \in Hosts
  BY MeIn DEF Begun, Replacing
<1> QED
  BY <1>1, <1>2, <1>3 DEF Typed, DataOK, Restored, Clusters, NoData

LEMMA ReplacingTasks ==
  ASSUME Typed, Begun, NEW F \in Clusters, Replacing(F), [RecoverNext]_allVars,
         \/ SaveSnapshot \/ StopServer \/ RemoveDataDir \/ RestoreSnapshot \/ RemoveSnapshot \/ Reconfigure
         \/ StartServer
  PROVE  Replacing(F)'
<1>0. /\ ServerTypeOK /\ inv \subseteq Hosts /\ Restored \in Clusters /\ Restored # NoData /\ broken # {}
      /\ inv' = inv /\ broken' = broken /\ Me' = Me /\ Restored' = Restored /\ F \in lineage'
      /\ Me \in inv /\ Me \in Hosts /\ F # Restored
  BY ReplacingFacts DEF Begun, Replacing
<1>1. CASE SaveSnapshot
  <2>1. /\ pc = "save" /\ pc' = "stop" /\ snapshot' = data[Me] /\ notified' = notified
        /\ UNCHANGED <<conf, enabled, proc, data, stale>>
    BY <1>1 DEF SaveSnapshot, Then, Goto, factVars, serverVars
  <2> QED
    BY <1>0, <2>1 DEF Replacing, Ready, RestoreTasks
<1>2. CASE StopServer
  <2>1. /\ pc = "stop" /\ pc' = "wipe" /\ snapshot' = snapshot /\ notified' = notified
        /\ UNCHANGED <<conf, data, stale>> /\ enabled' = enabled \ {Me}
        /\ \A h \in Hosts : proc'[h] = (IF h = Me THEN "down" ELSE proc[h])
    BY <1>0, <1>2 DEF StopServer, Then, Goto, factVars, recoverVars, ServerTypeOK
  <2> QED
    BY <1>0, <2>1 DEF Replacing, RestoreTasks
<1>3. CASE RemoveDataDir
  <2>1. /\ pc = "wipe" /\ pc' = "restore" /\ snapshot' = snapshot /\ notified' = notified
        /\ UNCHANGED <<conf, enabled, proc>> /\ stale' \subseteq stale
        /\ \A h \in Hosts : h # Me => data'[h] = data[h]
    BY <1>0, <1>3 DEF RemoveDataDir, Then, Goto, factVars, recoverVars, ServerTypeOK
  <2> QED
    BY <1>0, <2>1 DEF Replacing, RestoreTasks
<1>4. CASE RestoreSnapshot
  <2>1. /\ pc = "restore" /\ pc' = "unsave" /\ notified' = notified
        /\ UNCHANGED <<conf, enabled, proc>>
        /\ stale' = stale \cup {h \in Hosts \ {Me} : data[h] = Restored}
        /\ \A h \in Hosts : data'[h] = (IF h = Me THEN Restored ELSE data[h])
        /\ members'[Restored] = Restored /\ started'[Restored] = {}
    BY <1>0, <1>4 DEF RestoreSnapshot, Restored, Then, Goto, factVars, ServerTypeOK
  <2>2. Restored \in lineage'
    BY <1>4, <2>1 DEF RestoreSnapshot, Replacing, Restored
  <2>3. stale' \cap inv = {}
    BY <1>0, <2>1 DEF Replacing
  <2> QED
    BY <1>0, <2>1, <2>2, <2>3 DEF Replacing, RestoreTasks
<1>5. CASE RemoveSnapshot \/ Reconfigure
  <2>1. /\ pc \in {"unsave", "reconfigure"} /\ pc' \in {"reconfigure", "restart"} /\ notified' = notified
        /\ UNCHANGED <<enabled, proc, data, stale, members, started, lineage>>
        /\ \A h \in Hosts : h # Me => conf'[h] = conf[h]
    BY <1>0, <1>5 DEF RemoveSnapshot, Reconfigure, Then, Goto, factVars, serverVars, recoverVars, ServerTypeOK
  <2> QED
    BY <1>0, <2>1 DEF Replacing, RestoreTasks, Ready
<1>6. CASE StartServer
  <2>1. /\ pc = "restart" /\ pc' = "restart" /\ notified' = notified /\ enabled' = enabled \cup {Me}
        /\ UNCHANGED <<conf, proc, data, stale, members, started, lineage>>
    BY <1>6 DEF StartServer, roleVars, factVars, recoverVars
  <2> QED
    BY <1>0, <2>1 DEF Replacing, RestoreTasks, Ready
<1> QED
  BY <1>1, <1>2, <1>3, <1>4, <1>5, <1>6

(* The restored cluster starts, and is ready when cluster.yml begins.      *)
LEMMA ReplacingServers ==
  ASSUME Typed, Begun, NEW F \in Clusters, Replacing(F), [RecoverNext]_allVars,
         ServerStep, UNCHANGED <<recoverVars, lineage>>
  PROVE  Replacing(F)'
<1>0. /\ ServerTypeOK /\ inv \subseteq Hosts /\ Restored \in Clusters /\ Restored # NoData /\ broken # {}
      /\ inv' = inv /\ broken' = broken /\ Me' = Me /\ Restored' = Restored
      /\ Me \in inv /\ Me \in Hosts /\ F # Restored
      /\ UNCHANGED <<pc, notified, snapshot, lineage>>
  BY ReplacingFacts DEF Begun, Replacing, ServerStep, roleVars, factVars, recoverVars
<1>1. PICK h \in Hosts : Launch(h) \/ Publish(h)
  BY DEF ServerStep
<1>2. h = Me
  BY <1>1 DEF Launch, Publish, Replacing
<1>3. CASE Launch(h)
  <2>1. pc = "restart"
    BY <1>2, <1>3 DEF Launch, Replacing, RestoreTasks, Ready
  <2>2. data' = data
    <3>1. PICK k \in Boot(h) : data' = [data EXCEPT ![h] = k]
      BY <1>3 DEF Launch
    <3>2. k = data[h]
      BY <1>0, <1>2, <2>1, <3>1 DEF Boot, Replacing
    <3> QED
      BY <1>0, <3>1, <3>2 DEF ServerTypeOK
  <2>3. /\ UNCHANGED <<conf, enabled, stale, members, started>> /\ h \in enabled
        /\ \A g \in Hosts : proc'[g] = (IF g = h THEN "starting" ELSE proc[g])
    BY <1>0, <1>3 DEF Launch, ServerTypeOK
  <2> QED
    BY <1>0, <1>2, <2>1, <2>2, <2>3 DEF Replacing, RestoreTasks, Ready
<1>4. CASE Publish(h)
  <2>1. pc = "restart" /\ proc[Me] = "starting"
    BY <1>2, <1>4 DEF Publish, Replacing, RestoreTasks, Ready
  <2>2. data[Me] = Restored
    BY <2>1 DEF Replacing
  <2>3. /\ UNCHANGED <<conf, enabled, data, stale, members>>
        /\ \A g \in Hosts : proc'[g] = (IF g = Me THEN "ready" ELSE proc[g])
        /\ started'[Restored] = started[Restored] \cup {Me}
    BY <1>0, <1>2, <1>4, <2>2 DEF Publish, ServerTypeOK
  <2> QED
    BY <1>0, <2>1, <2>3 DEF Replacing, RestoreTasks, Ready, Restored
<1> QED
  BY <1>1, <1>3, <1>4

LEMMA ReplacingCluster ==
  ASSUME Typed, Begun, NEW F \in Clusters, Replacing(F), [RecoverNext]_allVars, StartCluster
  PROVE  Steady(Restored, Restored)'
<1>0. /\ ServerTypeOK /\ inv \subseteq Hosts /\ Restored \in Clusters /\ Restored # NoData /\ broken # {}
      /\ inv' = inv /\ broken' = broken /\ Me' = Me /\ Restored' = Restored
      /\ Me \in inv /\ Me \in Hosts
  BY ReplacingFacts DEF Begun, Replacing
<1>1. /\ pc = "restart" /\ Ready(Me) /\ pc' = "health"
      /\ UNCHANGED <<conf, enabled, proc, data, stale, members, started, notified, lineage>>
  BY DEF StartCluster, Then, Goto, factVars, serverVars, Replacing, RestoreTasks
<1>2. /\ Restored \in lineage /\ data[Me] = Restored /\ members[Restored] = Restored
      /\ started[Restored] = Restored /\ enabled = Restored /\ notified = {}
      /\ \A h \in Hosts \ {Me} : proc[h] = "down"
      /\ \A h \in inv \ {Me} : data[h] = NoData /\ conf[h].state = "none"
      /\ stale \cap inv = {} /\ broken \cap inv = {}
  BY <1>1 DEF Replacing, Ready, Restored
<1>3. Strong(Restored, Restored)'
  <2>1. Cardinality({Me}) = 1
    BY FS_Singleton
  <2> QED
    BY <1>0, <1>1, <1>2, <2>1 DEF Strong, Restored
<1>4. Runs(Restored, Restored)'
  BY <1>0, <1>1, <1>2 DEF Runs, Restored
<1> QED
  BY <1>0, <1>1, <1>2, <1>3, <1>4 DEF Steady, Restored, Ready

LEMMA ReplacingStep ==
  ASSUME Typed, Begun, NEW F \in Clusters, Replacing(F), [RecoverNext]_allVars
  PROVE  Replacing(F)' \/ Steady(Restored, Restored)' \/ Disturbed'
<1>0. \A B, S \in SUBSET Hosts : ~Break(B, S)
  BY DEF Break, Replacing
<1>1. pc \in RestoreTasks
  BY DEF Replacing
<1>2. CASE UNCHANGED allVars
  <2>1. /\ UNCHANGED <<conf, enabled, proc, data, stale, members, started, inv, notified, broken, snapshot,
                       lineage, pc>>
        /\ Restored' = Restored /\ Me' = Me
    BY <1>2, MeStays DEF allVars, vars, serverVars, roleVars, factVars, recoverVars
  <2> QED
    BY <2>1 DEF Replacing, Ready
<1>3. CASE CrashStep \/ RecoverInterrupt
  <2>1. crashes \in Nat
    BY RoleAssumption DEF Typed, DataOK
  <2> QED
    BY <1>3, <2>1 DEF CrashStep, RecoverInterrupt, Interrupt, Disturbed
<1>4. ~Play /\ ~StartRecover
  BY <1>1 DEF Play, CheckHealth, WriteConfig, EnsureRunning, StartReturns, StartFails, WaitHealthy, WaitFails,
     CheckMembers, JoinAdd, JoinAddFails, JoinConfig, JoinVerify, JoinVerifyFails, JoinStart,
     RefreshConfig, Reload, WaitUp, WaitUpFails, RestoreTasks, StartRecover, Idle
<1>5. CASE RecoverPlay
  <2>1. ~SaveSnapshotFails
    BY DEF SaveSnapshotFails, Replacing
  <2> QED
    BY <1>1, <1>5, <2>1, ReplacingTasks, ReplacingCluster DEF RecoverPlay, Assess, CleanBroken, ListMembers,
       ListMembersFails, StrikeMember, StrikeFails, RestoreTasks
<1>6. CASE ServerStep /\ UNCHANGED <<recoverVars, lineage>>
  BY <1>6, ReplacingServers
<1> QED
  BY <1>0, <1>2, <1>3, <1>4, <1>5, <1>6 DEF RecoverNext

-----------------------------------------------------------------------------
(* cluster.yml brings the other hosts in.                                  *)
LEMMA JoiningFacts ==
  ASSUME Typed, NEW W \in Clusters, NEW V \in Clusters, Joining(W, V)
  PROVE  /\ ServerTypeOK /\ inv \subseteq Hosts /\ V \subseteq inv /\ V # {} /\ W # NoData
         /\ enabled \subseteq inv /\ members[W] \subseteq inv /\ members[W] \subseteq Hosts
         /\ pc \notin {"reload", "up"} => Reachable(inv) = {W}
         /\ pc \in {"add", "addconfig", "verify", "joinstart"} => First(todo) \in todo /\ First(todo) \in inv
<1>1. ServerTypeOK /\ inv \subseteq Hosts /\ todo \subseteq Hosts
  BY DEF Typed, DataOK
<1>2. /\ V \subseteq inv /\ V # {} /\ W # NoData /\ enabled \subseteq inv /\ members[W] \subseteq inv
  BY DEF Joining, Runs, Joined
<1>3. ASSUME pc \notin {"reload", "up"} PROVE Reachable(inv) = {W}
  <2>1. \A h \in V : Ready(h) /\ data[h] = W
    BY <1>3 DEF Joining, Joined, Runs
  <2>2. \A h \in inv : Ready(h) => data[h] = W
    BY <1>1 DEF Joining, Runs, Ready
  <2> QED
    BY <1>2, <2>1, <2>2 DEF Reachable
<1>4. ASSUME pc \in {"add", "addconfig", "verify", "joinstart"} PROVE First(todo) \in todo /\ First(todo) \in inv
  <2>1. First(todo) \in todo
    BY <1>1, <1>4, FirstIn DEF Typed, DataOK
  <2> QED
    BY <1>2, <1>4, <2>1 DEF Joining, Looping
<1> QED
  BY <1>1, <1>2, <1>3, <1>4

(* Where nothing is left to try, every member has come up.                 *)
LEMMA SettledJoined ==
  ASSUME Typed, NEW W \in Clusters, NEW V \in Clusters, Joining(W, V), Settled,
         pc \notin {"config", "enable", "addconfig"}
  PROVE  /\ HasQuorum(W) /\ Live(W) = members[W] /\ started[W] = members[W]
         /\ \A h \in members[W] : Ready(h) /\ data[h] = W /\ h \notin stale
<1>0. /\ ServerTypeOK /\ inv \subseteq Hosts /\ V \subseteq inv /\ V # {} /\ W # NoData
      /\ members[W] \subseteq inv /\ enabled = inv /\ stale \cap inv = {} /\ V \subseteq members[W]
      /\ \A h \in inv : data[h] \in {NoData, W}
  BY JoiningFacts DEF Joining, Joined, Runs
<1>1. ASSUME NEW h \in inv, data[h] = W PROVE proc[h] # "down"
  <2>1. h \in Hosts /\ h \notin stale
    BY <1>0
  <2>2. Boot(h) = {W}
    BY <1>0, <1>1, <2>1 DEF Boot
  <2> QED
    BY <1>0, <2>1, <2>2 DEF Settled, CanLaunch
<1>2. PICK r \in V : r \in members[W] /\ r \in inv /\ data[r] = W /\ proc[r] # "down" /\ r \notin stale
  BY <1>0, <1>1 DEF Joining, Runs
<1>3. ASSUME NEW h \in members[W] PROVE data[h] = W
  <2> SUFFICES ASSUME data[h] = NoData PROVE FALSE
    BY <1>0
  <2>1. conf[h].state = "existing" /\ conf[h].initial = members[W] /\ h \in Hosts /\ h \in inv
    BY <1>0 DEF Joining, Admitted
  <2>2. r \in conf[h].initial \ {h}
    BY <1>0, <1>2, <2>1
  <2>3. W \in Boot(h)
    BY <1>2, <2>1, <2>2 DEF Boot
  <2>4. proc[h] = "down"
    BY <1>0, <2>1 DEF Joining, Runs
  <2> QED
    BY <1>0, <2>1, <2>3, <2>4 DEF Settled, CanLaunch
<1>4. Live(W) = members[W]
  BY <1>0, <1>1, <1>3 DEF Live
<1>5. Cardinality(members[W]) \in Nat /\ Cardinality(members[W]) # 0
  BY <1>0, HostSets, FS_EmptySet
<1>6. HasQuorum(W)
  BY <1>4, <1>5 DEF HasQuorum
<1>7. ASSUME NEW h \in members[W] PROVE Ready(h)
  <2>1. h \in Hosts /\ proc[h] # "down" /\ data[h] = W
    BY <1>0, <1>1, <1>3
  <2>2. proc[h] # "starting"
    BY <1>6, <2>1 DEF Settled, CanPublish
  <2> QED
    BY <1>0, <2>1, <2>2 DEF ServerTypeOK, Ready
<1>8. started[W] = members[W]
  BY <1>0, <1>7 DEF Joining, Joined
<1> QED
  BY <1>0, <1>3, <1>4, <1>6, <1>7, <1>8

(* No task gives up.                                                       *)
LEMMA JoiningGoesOn ==
  ASSUME Apart, Typed, NEW W \in Clusters, NEW V \in Clusters, Joining(W, V)
  PROVE  /\ ~StartFails /\ ~WaitFails /\ ~JoinAddFails /\ ~JoinVerifyFails /\ ~WaitUpFails
<1>0. /\ ServerTypeOK /\ inv \subseteq Hosts /\ V \subseteq inv /\ V # {} /\ members[W] \subseteq Hosts
      /\ V \subseteq members[W]
      /\ pc \notin {"reload", "up"} => Reachable(inv) = {W}
  BY JoiningFacts DEF Joining, Joined
<1>1. ~StartFails
  BY DEF StartFails, Joining
<1>2. ASSUME WaitFails PROVE FALSE
  BY <1>0, <1>2, SettledJoined DEF WaitFails, Healthy
<1>3. ASSUME JoinAddFails PROVE FALSE
  <2>1. HasQuorum(W) /\ ~StrictAdd(W) /\ Live(W) = members[W] /\ started[W] = members[W]
    BY <1>0, <1>3, SettledJoined DEF JoinAddFails
  <2>2. members[W] \cap members[W] = members[W] /\ Cardinality(members[W]) \in Nat
        /\ Cardinality(members[W]) # 0
    BY <1>0, HostSets, FS_EmptySet
  <2>3. \A n \in Nat : n = 0 \/ n >= Quorum(n + 1) \/ (n = 1 /\ n + 1 = 2)
    BY DEF Quorum
  <2> QED
    BY <2>1, <2>2, <2>3 DEF StrictAdd
<1>4. ASSUME JoinVerifyFails PROVE FALSE
  <2>1. First(todo) \in members[W] /\ Reachable(inv) = {W}
    BY <1>0, <1>4 DEF JoinVerifyFails, Joining, Looping
  <2>2. Listed(W, First(todo))
    BY <1>0, <2>1 DEF Listed, Apart
  <2> QED
    BY <1>4, <2>1, <2>2 DEF JoinVerifyFails
<1>5. ASSUME WaitUpFails PROVE FALSE
  BY <1>5, SettledJoined DEF WaitUpFails, Joining, Joined, Looping
<1> QED
  BY <1>1, <1>2, <1>3, <1>4, <1>5

LEMMA JoiningServers ==
  ASSUME Typed, NEW W \in Clusters, NEW V \in Clusters, Joining(W, V),
         ServerStep, UNCHANGED <<recoverVars, lineage>>
  PROVE  Joining(W, V)'
<1>0. /\ ServerTypeOK /\ inv \subseteq Hosts /\ V \subseteq inv /\ W # NoData /\ enabled \subseteq inv
      /\ UNCHANGED <<inv, pc, healthy, inCluster, todo, notified, broken, lineage>>
  BY JoiningFacts DEF ServerStep, roleVars, factVars, recoverVars
<1>1. PICK h \in Hosts : Launch(h) \/ Publish(h)
  BY DEF ServerStep
<1>2. CASE Launch(h)
  <2>1. PICK k \in Boot(h) : data' = [data EXCEPT ![h] = k]
    BY <1>2 DEF Launch
  <2>2. /\ UNCHANGED <<conf, enabled, stale, members, started>> /\ h \in enabled /\ h \in inv
        /\ proc[h] = "down"
        /\ \A g \in Hosts : proc'[g] = (IF g = h THEN "starting" ELSE proc[g])
        /\ \A g \in Hosts : data'[g] = (IF g = h THEN k ELSE data[g])
    BY <1>0, <1>2, <2>1 DEF Launch, ServerTypeOK
  <2>3. k = W /\ h \in members[W]
    <3>1. CASE data[h] # NoData
      <4>1. k = data[h]
        BY <2>1, <3>1 DEF Boot
      <4> QED
        BY <2>2, <3>1, <4>1 DEF Joining, Runs, Joined
    <3>2. CASE data[h] = NoData
      <4>1. h \notin V
        BY <1>0, <3>2 DEF Joining, Runs
      <4>2. conf[h].state = "existing"
        BY <2>2, <3>2, <4>1 DEF Joining, Joined, Admitted
      <4>3. /\ k \in Clusters /\ h \in conf[h].initial /\ members[k] = conf[h].initial
            /\ \E r \in conf[h].initial \ {h} : proc[r] # "down" /\ data[r] = k /\ r \notin stale
        BY <2>1, <3>2, <4>2 DEF Boot
      <4>4. PICK r \in members[k] : proc[r] # "down" /\ data[r] = k
        BY <4>3
      <4>5. r \in Hosts
        BY <1>0, <4>3 DEF ServerTypeOK
      <4>6. k = W
        BY <4>4, <4>5 DEF Joining, Runs
      <4> QED
        BY <4>3, <4>6
    <3> QED
      BY <3>1, <3>2
  <2>4. \A g \in Hosts : (Ready(g)' <=> Ready(g)) /\ (data'[g] = NoData => data[g] = NoData)
    BY <1>0, <2>2, <2>3 DEF Ready
  <2>5. Runs(W, V)'
    BY <1>0, <2>2, <2>3 DEF Joining, Runs
  <2>6. Joined(W, V)'
    BY <1>0, <2>2, <2>3, <2>4 DEF Joining, Joined
  <2>7. Admitted(W)'
    BY <1>0, <2>2, <2>4 DEF Joining, Admitted
  <2>8. Looping(W, V)'
    BY <1>0, <2>2 DEF Joining, Looping
  <2> QED
    BY <1>0, <2>5, <2>6, <2>7, <2>8 DEF Joining
<1>3. CASE Publish(h)
  <2>1. h \in inv /\ data[h] = W /\ proc[h] = "starting"
    BY <1>3 DEF Publish, Joining, Runs
  <2>2. /\ UNCHANGED <<conf, enabled, data, stale, members>>
        /\ started'[W] = started[W] \cup {h}
        /\ \A g \in Hosts : proc'[g] = (IF g = h THEN "ready" ELSE proc[g])
    BY <1>0, <1>3, <2>1 DEF Publish, ServerTypeOK
  <2>3. \A g \in Hosts : Ready(g)' <=> Ready(g) \/ g = h
    BY <2>2 DEF Ready
  <2>4. Runs(W, V)'
    BY <1>0, <2>1, <2>2 DEF Joining, Runs
  <2>5. Joined(W, V)'
    BY <1>0, <2>1, <2>2, <2>3 DEF Joining, Joined
  <2>6. Admitted(W)' /\ Looping(W, V)'
    BY <1>0, <2>2 DEF Joining, Admitted, Looping
  <2> QED
    BY <1>0, <2>4, <2>5, <2>6 DEF Joining
<1> QED
  BY <1>1, <1>2, <1>3

(* The tasks that change no environment file and no member list.           *)
LEMMA JoiningTasks ==
  ASSUME Apart, Typed, NEW W \in Clusters, NEW V \in Clusters, Joining(W, V),
         UNCHANGED <<recoverVars, lineage>>,
         EnsureRunning \/ StartReturns \/ WaitHealthy \/ CheckMembers \/ JoinVerify \/ JoinStart \/ Reload
  PROVE  Joining(W, V)'
<1>0. /\ ServerTypeOK /\ inv \subseteq Hosts /\ V \subseteq inv /\ enabled \subseteq inv
      /\ members[W] \subseteq inv
      /\ pc \notin {"reload", "up"} => Reachable(inv) = {W}
      /\ broken' = broken /\ lineage' = lineage
      /\ pc \in {"add", "addconfig", "verify", "joinstart"} => First(todo) \in todo /\ First(todo) \in inv
  BY JoiningFacts DEF recoverVars
<1>1. CASE EnsureRunning
  <2>1. /\ pc = "enable" /\ pc' = "start" /\ enabled' = inv
        /\ UNCHANGED <<conf, proc, data, stale, members, started, inv, healthy, inCluster, notified>>
    BY <1>0, <1>1 DEF EnsureRunning, Goto
  <2> QED
    BY <1>0, <2>1 DEF Joining, Runs, Joined, Admitted, Looping, Ready, Tasks
<1>2. CASE StartReturns \/ WaitHealthy
  <2>1. /\ pc \in {"start", "wait"} /\ pc' \in {"wait", "check"} /\ healthy'
        /\ UNCHANGED <<conf, enabled, proc, data, stale, members, started, inv, inCluster, notified>>
    BY <1>2 DEF StartReturns, WaitHealthy, Goto, serverVars, Joining
  <2> QED
    BY <1>0, <2>1 DEF Joining, Runs, Joined, Admitted, Looping, Ready, Tasks
<1>3. CASE CheckMembers
  <2>1. /\ pc = "check" /\ pc' = (IF todo' = {} THEN "refresh" ELSE "add") /\ healthy
        /\ UNCHANGED <<conf, enabled, proc, data, stale, members, started, inv, healthy, notified>>
    BY <1>3 DEF CheckMembers, Goto, serverVars, Joining
  <2>2. Reachable(inv) = {W} /\ \A h \in inv : Listed(W, h) <=> h \in members[W]
    BY <1>0, <2>1 DEF Listed, Apart
  <2>3. inCluster' = members[W]
    <3>1. /\ inCluster' \subseteq inv
          /\ \A h \in inCluster' : Listed(W, h)
          /\ \A h \in inv \ inCluster' : ~Listed(W, h)
      BY <1>3, <2>2 DEF CheckMembers
    <3> QED
      BY <1>0, <2>2, <3>1
  <2>4. todo' = inv \ members[W]
    BY <1>3, <2>1, <2>3 DEF CheckMembers, ToJoin
  <2> QED
    BY <1>0, <2>1, <2>3, <2>4 DEF Joining, Runs, Joined, Admitted, Looping, Ready, Tasks
<1>4. CASE JoinVerify
  <2>1. /\ pc = "verify" /\ pc' = "joinstart" /\ inCluster' = inCluster \cup {First(todo)}
        /\ UNCHANGED <<conf, enabled, proc, data, stale, members, started, inv, healthy, todo, notified>>
    BY <1>4 DEF JoinVerify, Goto, serverVars
  <2>2. First(todo') = First(todo)
    BY <2>1
  <2>3. Looping(W, V)'
    <3>1. inCluster' = members[W] /\ todo \ {First(todo)} = inv \ members[W] /\ First(todo) \in members[W]
      BY <1>0, <2>1 DEF Joining, Looping
    <3> QED
      BY <2>1, <2>2, <3>1 DEF Looping
  <2> QED
    BY <1>0, <2>1, <2>2, <2>3 DEF Joining, Runs, Joined, Admitted, Ready, Tasks
<1>5. CASE JoinStart
  <2>1. /\ pc = "joinstart" /\ todo' = todo \ {First(todo)} /\ pc' = (IF todo' = {} THEN "refresh" ELSE "add")
        /\ UNCHANGED <<conf, enabled, proc, data, stale, members, started, inv, healthy, inCluster, notified>>
    BY <1>5 DEF JoinStart, Goto, serverVars
  <2>2. todo' = inv \ members[W] /\ inCluster = members[W]
    BY <2>1 DEF Joining, Looping
  <2>3. Looping(W, V)'
    BY <1>0, <2>1, <2>2 DEF Looping
  <2> QED
    BY <1>0, <2>1, <2>3 DEF Joining, Runs, Joined, Admitted, Ready, Tasks
<1>6. CASE Reload
  <2>1. /\ pc = "reload" /\ pc' = "up"
        /\ UNCHANGED <<conf, enabled, data, stale, members, started, inv, healthy, inCluster, todo, notified>>
        /\ \A h \in Hosts : proc'[h] = (IF h \in notified THEN "down" ELSE proc[h])
    BY <1>6 DEF Reload, Goto, factVars
  <2> QED
    BY <1>0, <2>1 DEF Joining, Runs, Joined, Admitted, Looping, Ready, Tasks
<1> QED
  BY <1>1, <1>2, <1>3, <1>4, <1>5, <1>6

(* The environment files.                                                  *)
LEMMA JoiningFiles ==
  ASSUME Typed, NEW W \in Clusters, NEW V \in Clusters, Joining(W, V),
         UNCHANGED <<recoverVars, lineage>>, WriteConfig \/ JoinConfig \/ RefreshConfig
  PROVE  Joining(W, V)'
<1>0. /\ ServerTypeOK /\ inv \subseteq Hosts /\ V \subseteq inv
      /\ members[W] \subseteq inv /\ W # NoData /\ ConfState = "existing"
      /\ broken' = broken /\ lineage' = lineage
      /\ pc \in {"add", "addconfig", "verify", "joinstart"} => First(todo) \in todo /\ First(todo) \in inv
  BY JoiningFacts DEF recoverVars, Joining, ConfState
<1>1. ASSUME NEW S \in SUBSET inv, NEW P, WriteConf(S, P)
      PROVE  /\ UNCHANGED <<enabled, proc, data, stale, members, started>>
             /\ \A h \in Hosts : conf'[h] = (IF h \in S THEN [state |-> "existing", initial |-> P] ELSE conf[h])
             /\ notified \subseteq notified' /\ (notified \subseteq inv => notified' \subseteq inv)
             /\ \A h \in S : conf[h].state # "existing" => h \in notified'
  <2>1. \A h \in S : conf[h].state # "existing" => conf[h] # [state |-> "existing", initial |-> P]
    OBVIOUS
  <2> QED
    BY <1>0, <1>1, <2>1 DEF WriteConf
<1>2. CASE WriteConfig \/ RefreshConfig
  <2>1. /\ pc \in {"config", "refresh"} /\ pc' = (IF pc = "config" THEN "enable" ELSE "reload")
        /\ UNCHANGED <<inv, healthy, inCluster, todo>> /\ WriteConf(inv, inv)
    BY <1>2 DEF WriteConfig, RefreshConfig, Goto
  <2>2. /\ UNCHANGED <<enabled, proc, data, stale, members, started>>
        /\ \A h \in inv : conf'[h].state = "existing" /\ conf'[h].initial = inv
        /\ notified \subseteq notified' /\ (notified \subseteq inv => notified' \subseteq inv)
        /\ \A h \in inv : conf[h].state # "existing" => h \in notified'
    <3>1. inv \in SUBSET inv
      OBVIOUS
    <3>2. /\ UNCHANGED <<enabled, proc, data, stale, members, started>>
          /\ \A h \in Hosts : conf'[h] = (IF h \in inv THEN [state |-> "existing", initial |-> inv] ELSE conf[h])
          /\ notified \subseteq notified' /\ (notified \subseteq inv => notified' \subseteq inv)
          /\ \A h \in inv : conf[h].state # "existing" => h \in notified'
      BY <1>1, <2>1, <3>1
    <3>3. \A h \in inv : conf'[h] = [state |-> "existing", initial |-> inv]
      BY <1>0, <3>2
    <3> QED
      BY <3>2, <3>3
  <2>3. Admitted(W)'
    <3>1. pc = "config" => \A h \in members[W] : data[h] # NoData
      BY <1>0 DEF Joining, Looping, Runs
    <3>2. pc = "refresh" => members[W] = inv
      BY DEF Joining, Looping
    <3> QED
      BY <2>1, <2>2, <3>1, <3>2 DEF Admitted
  <2>4. Joined(W, V)'
    BY <1>0, <2>1, <2>2 DEF Joining, Joined, Ready
  <2>5. Looping(W, V)'
    BY <2>1, <2>2 DEF Joining, Looping
  <2>6. Runs(W, V)'
    BY <1>0, <2>1, <2>2 DEF Joining, Runs
  <2> QED
    BY <2>1, <2>3, <2>4, <2>5, <2>6 DEF Joining, Tasks
<1>3. CASE JoinConfig
  <2> DEFINE g == First(todo)
  <2>1. /\ pc = "addconfig" /\ pc' = "verify" /\ UNCHANGED <<inv, healthy, inCluster, todo>>
        /\ WriteConf({g}, (inCluster \cap inv) \cup {g}) /\ First(todo') = g
    BY <1>3 DEF JoinConfig, Goto
  <2>2. g \in inv /\ g \in members[W] /\ inCluster = members[W] \ {g}
    BY <1>0, <2>1 DEF Joining, Looping
  <2>3. (inCluster \cap inv) \cup {g} = members[W]
    BY <1>0, <2>2
  <2>4. WriteConf({g}, members[W])
    BY <2>1, <2>3
  <2>5. /\ UNCHANGED <<enabled, proc, data, stale, members, started>>
        /\ \A h \in Hosts : conf'[h] = (IF h = g THEN [state |-> "existing", initial |-> members[W]] ELSE conf[h])
        /\ notified \subseteq notified' /\ (notified \subseteq inv => notified' \subseteq inv)
    <3>1. {g} \in SUBSET inv
      BY <2>2
    <3> HIDE DEF g
    <3> QED
      BY <1>1, <2>4, <3>1
  <2> HIDE DEF g
  <2>6. Admitted(W)'
    <3>1. \A h \in inv : data[h] = NoData => conf[h].state = "existing"
      BY <2>1 DEF Joining, Admitted
    <3>2. \A h \in members[W] : data[h] = NoData /\ h # g => conf[h].initial = members[W]
      BY <1>0, <2>1 DEF Joining, Admitted, g
    <3> QED
      BY <1>0, <2>1, <2>5, <3>1, <3>2 DEF Admitted
  <2>7. Joined(W, V)'
    BY <1>0, <2>1, <2>5 DEF Joining, Joined, Ready
  <2>8. Looping(W, V)'
    BY <2>1, <2>5 DEF Joining, Looping, g
  <2>9. Runs(W, V)'
    BY <1>0, <2>1, <2>5 DEF Joining, Runs
  <2> QED
    BY <2>1, <2>6, <2>7, <2>8, <2>9 DEF Joining, Tasks
<1> QED
  BY <1>2, <1>3

(* A member is added when all others have come up.                         *)
LEMMA JoiningAdd ==
  ASSUME Typed, NEW W \in Clusters, NEW V \in Clusters, Joining(W, V),
         UNCHANGED <<recoverVars, lineage>>, JoinAdd
  PROVE  Joining(W, V)'
<1>0. /\ ServerTypeOK /\ inv \subseteq Hosts /\ V \subseteq inv /\ members[W] \subseteq inv /\ W # NoData
      /\ broken' = broken /\ lineage' = lineage
  BY JoiningFacts DEF recoverVars
<1> DEFINE g == First(todo)
<1>1. /\ pc = "add" /\ pc' = "addconfig" /\ UNCHANGED <<inv, healthy, inCluster, todo, notified>>
      /\ First(todo') = g
  BY DEF JoinAdd, Goto, factVars
<1>2. /\ Reachable(inv) = {W} /\ g \in inv /\ g \in todo
      /\ inCluster = members[W] /\ todo = inv \ members[W]
  BY <1>1, JoiningFacts DEF Joining, Looping
<1>3. /\ UNCHANGED <<conf, enabled, proc, data, stale, started>>
      /\ members'[W] = members[W] \cup {g}
      /\ members[W] \subseteq Live(W)
  BY <1>0, <1>2 DEF JoinAdd, AddSucceeds, AddMember, StrictAdd, ServerTypeOK
<1> HIDE DEF g
<1>4. \A h \in members[W] : data[h] # NoData
  BY <1>0, <1>3 DEF Live
<1>5. Admitted(W)'
  <2>1. \A h \in inv : data[h] = NoData => conf[h].state = "existing"
    BY <1>1 DEF Joining, Admitted
  <2> QED
    BY <1>1, <1>3, <1>4, <2>1 DEF Admitted
<1>6. Joined(W, V)'
  BY <1>0, <1>1, <1>2, <1>3 DEF Joining, Joined, Ready
<1>7. Looping(W, V)'
  <2>1. inCluster = members'[W] \ {g} /\ todo = inv \ inCluster
    BY <1>2, <1>3
  <2> QED
    BY <1>1, <1>3, <2>1 DEF Looping
<1>8. Runs(W, V)'
  BY <1>0, <1>1, <1>3 DEF Joining, Runs
<1> QED
  BY <1>1, <1>5, <1>6, <1>7, <1>8 DEF Joining, Tasks

(* The last task leaves every host of the group serving.                   *)
LEMMA JoiningEnds ==
  ASSUME Typed, NEW W \in Clusters, NEW V \in Clusters, Joining(W, V),
         UNCHANGED <<recoverVars, lineage>>, WaitUp
  PROVE  Steady(W, inv)'
<1>0. /\ ServerTypeOK /\ inv \subseteq Hosts /\ V \subseteq inv /\ V # {} /\ inv # {}
      /\ broken' = broken /\ lineage' = lineage
  BY JoiningFacts DEF recoverVars
<1>1. /\ pc = "up" /\ pc' = "done" /\ notified' = {} /\ inv' = inv
      /\ UNCHANGED <<conf, enabled, proc, data, stale, members, started>>
      /\ \A h \in notified : Ready(h)
  BY DEF WaitUp, Goto, ForgetFacts, serverVars
<1>2. members[W] = inv /\ enabled = inv
  BY <1>1 DEF Joining, Looping, Joined
<1>3. \A h \in inv : Ready(h)
  BY <1>1 DEF Joining, Joined
<1>4. \A h \in inv : data[h] = W
  BY <1>0, <1>3 DEF Joining, Runs, Ready
<1>5. started[W] = inv
  BY <1>0, <1>2, <1>3 DEF Joining, Joined
<1>6. Strong(W, inv)'
  <2>1. Cardinality(inv) \in Nat /\ Cardinality(inv) # 0
    BY <1>0, HostSets, FS_EmptySet
  <2> QED
    BY <1>1, <1>2, <2>1 DEF Strong
<1>7. Runs(W, inv)'
  BY <1>0, <1>1, <1>4 DEF Joining, Runs
<1> QED
  BY <1>1, <1>2, <1>3, <1>5, <1>6, <1>7 DEF Steady, Ready

LEMMA JoiningStep ==
  ASSUME Apart, Typed, NEW W \in Clusters, NEW V \in Clusters, Joining(W, V), [RecoverNext]_allVars
  PROVE  Joining(W, V)' \/ Steady(W, inv)' \/ Disturbed'
<1>0. \A B, S \in SUBSET Hosts : ~Break(B, S)
  BY DEF Break, Joining, Runs
<1>1. pc \in Tasks \ {"health"}
  BY DEF Joining
<1>2. CASE UNCHANGED allVars
  <2>1. UNCHANGED <<conf, enabled, proc, data, stale, members, started, inv, healthy, inCluster, todo, notified,
                    broken, lineage, pc>>
    BY <1>2 DEF allVars, vars, serverVars, roleVars, factVars, recoverVars
  <2> QED
    BY <2>1 DEF Joining, Runs, Joined, Admitted, Looping, Ready
<1>3. CASE CrashStep \/ RecoverInterrupt
  <2>1. crashes \in Nat
    BY RoleAssumption DEF Typed, DataOK
  <2> QED
    BY <1>3, <2>1 DEF CrashStep, RecoverInterrupt, Interrupt, Disturbed
<1>4. ~StartRecover
  BY <1>1 DEF StartRecover, Idle, Tasks
<1>5. ~RecoverPlay
  BY <1>1 DEF RecoverPlay, Assess, CleanBroken, ListMembers, ListMembersFails, StrikeMember, StrikeFails,
     SaveSnapshot, SaveSnapshotFails, StopServer, RemoveDataDir, RestoreSnapshot, RemoveSnapshot, Reconfigure,
     StartServer, StartCluster, Tasks
<1>6. CASE Play /\ UNCHANGED <<recoverVars, lineage>>
  <2>1. ~CheckHealth
    BY <1>1 DEF CheckHealth
  <2> QED
    BY <1>6, <2>1, JoiningGoesOn, JoiningTasks, JoiningFiles, JoiningAdd, JoiningEnds DEF Play
<1>7. CASE ServerStep /\ UNCHANGED <<recoverVars, lineage>>
  BY <1>7, JoiningServers
<1> QED
  BY <1>0, <1>2, <1>3, <1>4, <1>5, <1>6, <1>7 DEF RecoverNext

-----------------------------------------------------------------------------
LEMMA SmoothStep ==
  ASSUME Careful, Apart, Typed, Typed', Begun, SmoothInv, [RecoverNext]_allVars
  PROVE  SmoothInv'
<1>1. CASE Disturbed
  BY <1>1, DisturbedStays DEF SmoothInv
<1>2. ASSUME NEW F \in Clusters, Intact(F) PROVE SmoothInv'
  <2>1. ~StartRecover /\ ~RecoverPlay /\ ~RecoverInterrupt /\ ~Play /\ ~ServerStep
    BY <1>2, UnbrokenIdle, IntactServers DEF Intact, Unbroken
  <2>2. CASE UNCHANGED allVars
    <3>1. /\ UNCHANGED <<conf, enabled, proc, data, stale, members, started, inv, todo, notified,
                         broken, left, snapshot, lineage, pc>>
      BY <2>2 DEF allVars, vars, serverVars, roleVars, factVars, recoverVars
    <3>2. Intact(F)'
      BY <1>2, <3>1 DEF Intact, Unbroken, Ready
    <3> QED
      BY <3>2 DEF SmoothInv
  <2>3. CASE CrashStep
    <3>1. crashes \in Nat
      BY RoleAssumption DEF Typed, DataOK
    <3> QED
      BY <2>3, <3>1 DEF CrashStep, Disturbed, SmoothInv
  <2> QED
    BY <1>2, <2>1, <2>2, <2>3, IntactBreak DEF RecoverNext
<1>3. ASSUME NEW F \in Clusters, Minority(F) PROVE SmoothInv'
  BY <1>3, MinorityStays DEF SmoothInv
<1>4. ASSUME NEW F \in Clusters, Replacing(F) PROVE SmoothInv'
  <2>1. Restored \in Clusters /\ Restored' = Restored
    BY <1>4, ReplacingFacts
  <2>2. Replacing(F)' \/ Steady(Restored, Restored)' \/ Disturbed'
    BY <1>4, ReplacingStep
  <2> QED
    BY <2>1, <2>2 DEF SmoothInv
<1>5. ASSUME NEW W \in Clusters, NEW V \in Clusters, Steady(W, V) PROVE SmoothInv'
  BY <1>5, SteadyStep DEF SmoothInv
<1>6. ASSUME NEW W \in Clusters, NEW V \in Clusters, Joining(W, V) PROVE SmoothInv'
  <2>1. inv \in Clusters /\ inv' = inv
    BY <1>6, GroupFixed DEF Typed, DataOK, Clusters, Joining, Runs
  <2>2. Joining(W, V)' \/ Steady(W, inv)' \/ Disturbed'
    BY <1>6, JoiningStep
  <2> QED
    BY <2>1, <2>2 DEF SmoothInv
<1> QED
  BY <1>1, <1>2, <1>3, <1>4, <1>5, <1>6 DEF SmoothInv

-----------------------------------------------------------------------------
(* What a run that ends leaves behind.                                     *)

(* Of F more than one host is left, or none.                               *)
Several(F) ==
    /\ broken # {} /\ F \in lineage /\ F # Restored
    /\ Cardinality(F \ broken) # 1

RegainInv ==
    \E F \in Clusters : Unbroken(F) \/ Several(F) \/ (Alone(F) /\ Regains(F))

LEMMA SeveralStep ==
  ASSUME NEW F \in Clusters, Several(F), [RecoverNext]_allVars
  PROVE  Several(F)'
BY GroupFixed, LineageKeeps DEF Several

LEMMA RegainBreak ==
  ASSUME Typed, Typed', NEW F \in Clusters, Unbroken(F),
         NEW B \in SUBSET Hosts, NEW S \in SUBSET Hosts, Break(B, S)
  PROVE  RegainInv'
<1>1. Another(F)' \/ Alone(F)'
  BY BreakStep
<1>2. pc' = "idle" /\ data' = data /\ lineage' = lineage /\ broken' = B
  BY DEF Break
<1>3. CASE Alone(F)'
  BY <1>2, <1>3 DEF RegainInv, Regains, Tasks, LoopTasks, JoinStarts
<1>4. CASE Another(F)'
  <2>1. PICK h \in inv' \ Restored' : h \notin B /\ data[h] = F
    BY <1>2, <1>4 DEF Another
  <2>2. h \in F \ B /\ h # Me'
    BY <1>4, <2>1 DEF Another, Unbroken, Typed, DataOK, Restored, NoData
  <2>3. IsFiniteSet(F \ B)
    <3>1. F \ B \subseteq Hosts
      BY DEF Clusters
    <3> QED
      BY <3>1, HostSets
  <2>4. Me' \in F \ B
    BY FirstSurvives
  <2>5. Cardinality(F \ B) # 1
    BY <2>2, <2>3, <2>4, OneHost
  <2> QED
    BY <1>2, <1>4, <2>5 DEF RegainInv, Several, Another
<1> QED
  BY <1>1, <1>3, <1>4

LEMMA RegainStep ==
  ASSUME Careful, Apart, Typed, Typed', RegainInv, [RecoverNext]_allVars
  PROVE  RegainInv'
<1>1. ASSUME NEW F \in Clusters, Unbroken(F) PROVE RegainInv'
  <2>1. ~StartRecover /\ ~RecoverPlay /\ ~RecoverInterrupt /\ ~Play
    BY <1>1, UnbrokenIdle DEF Unbroken
  <2>2. CASE \E B, S \in SUBSET Hosts : Break(B, S)
    BY <1>1, <2>2, RegainBreak
  <2>3. CASE ~\E B, S \in SUBSET Hosts : Break(B, S)
    <3>1. Unbroken(F)'
      BY <1>1, <2>1, <2>3, UnbrokenStep DEF RecoverNext, allVars
    <3> QED
      BY <3>1 DEF RegainInv
  <2> QED
    BY <2>2, <2>3
<1>2. ASSUME NEW F \in Clusters, Several(F) PROVE RegainInv'
  BY <1>2, SeveralStep DEF RegainInv
<1>3. ASSUME NEW F \in Clusters, Alone(F), Regains(F) PROVE RegainInv'
  <2>1. Alone(F)'
    BY <1>3, AloneStep
  <2>2. Regains(F)'
    BY <1>3, <2>1, RegainsStep
  <2> QED
    BY <2>1, <2>2 DEF RegainInv
<1> QED
  BY <1>1, <1>2, <1>3 DEF RegainInv

(* An undisturbed run that ends has brought every host in.                 *)
LEMMA SmoothEnd ==
  ASSUME Typed, SmoothInv, pc = "done", ~Disturbed, OneSurvives \/ MajoritySurvives
  PROVE  \E c \in lineage :
           inv \subseteq members[c] /\ members[c] \cap broken = {} /\ HasQuorum(c)
<1>1. \A F \in Clusters : ~Intact(F) /\ ~Replacing(F)
  BY DEF Intact, Unbroken, Replacing, RestoreTasks
<1>2. \A F \in Clusters : ~Minority(F)
  <2> SUFFICES ASSUME NEW F \in Clusters, Minority(F) PROVE FALSE
    OBVIOUS
  <2>1. /\ F \in lineage /\ Cardinality(F \ broken) > 1
        /\ 2 * Cardinality(F \ broken) <= Cardinality(F)
    BY DEF Minority
  <2>2. F \ broken \subseteq Hosts /\ F \subseteq Hosts
    BY DEF Clusters
  <2>3. Cardinality(F \ broken) \in Nat /\ Cardinality(F) \in Nat
    BY <2>2, HostSets
  <2> QED
    BY <2>1, <2>3 DEF OneSurvives, MajoritySurvives
<1>3. \A W, V \in Clusters : ~Joining(W, V)
  BY DEF Joining, Tasks, LoopTasks, JoinStarts
<1>4. PICK W, V \in Clusters : Steady(W, V)
  BY <1>1, <1>2, <1>3 DEF SmoothInv
<1>5. V = inv /\ members[W] = inv /\ W \in lineage /\ broken \cap inv = {}
  BY <1>4 DEF Steady, Runs
<1>6. Strong(W, V)
  BY <1>4 DEF Steady, Weak
<1>7. HasQuorum(W)
  BY <1>4, <1>6, SteadyFacts DEF Strong, HasQuorum
<1> QED
  BY <1>5, <1>7

(* Whatever has been cut off or has crashed, the only survivor's cluster   *)
(* has every host.                                                         *)
LEMMA RegainEnd ==
  ASSUME Typed, RegainInv, pc = "done", OneSurvives
  PROVE  \E c \in lineage : inv \subseteq members[c] /\ members[c] \cap broken = {}
<1>1. PICK F \in Clusters : Alone(F) /\ Regains(F)
  BY DEF RegainInv, Unbroken, Several, OneSurvives
<1>2. Restored \in lineage /\ inv \subseteq members[Restored]
  BY <1>1 DEF Regains
<1>3. members[Restored] \subseteq inv /\ broken \cap inv = {}
  BY <1>1, AloneFacts
<1> QED
  BY <1>2, <1>3

(* Only a cluster that has lost its quorum is replaced.                    *)
LEMMA SmoothReplaces ==
  ASSUME Typed, SmoothInv, [RecoverNext]_allVars, Replaces, ~Disturbed,
         OneSurvives \/ MajoritySurvives
  PROVE  \A c \in lineage : ~Serves(c)
<1>1. Assess /\ ~QuorumFact
  BY DEF Replaces, RecoverNext, allVars, vars, roleVars, Break, StartRecover, RecoverInterrupt, Interrupt,
     RecoverPlay, Assess, CleanBroken, ListMembers, ListMembersFails, StrikeMember, StrikeFails, SaveSnapshot,
     SaveSnapshotFails, StopServer, RemoveDataDir, RestoreSnapshot, RemoveSnapshot, Reconfigure,
     StartServer, StartCluster, GiveUp, Abort, Then, Goto, ServerStep, CrashStep,
     Play, CheckHealth, WriteConfig, EnsureRunning,
     StartReturns, StartFails, WaitHealthy, WaitFails, CheckMembers, JoinAdd, JoinAddFails,
     JoinConfig, JoinVerify, JoinVerifyFails, JoinStart, RefreshConfig,
     Reload, WaitUp, WaitUpFails
<1>2. \A F \in Clusters : ~Intact(F) /\ ~Replacing(F)
  BY <1>1 DEF Assess, Intact, Unbroken, Replacing, RestoreTasks
<1>3. \A F \in Clusters : ~Minority(F)
  <2> SUFFICES ASSUME NEW F \in Clusters, Minority(F) PROVE FALSE
    OBVIOUS
  <2>1. /\ F \in lineage /\ Cardinality(F \ broken) > 1
        /\ 2 * Cardinality(F \ broken) <= Cardinality(F)
    BY DEF Minority
  <2>2. F \ broken \subseteq Hosts /\ F \subseteq Hosts
    BY DEF Clusters
  <2>3. Cardinality(F \ broken) \in Nat /\ Cardinality(F) \in Nat
    BY <2>2, HostSets
  <2> QED
    BY <2>1, <2>3 DEF OneSurvives, MajoritySurvives
<1>4. \A W, V \in Clusters : ~Joining(W, V)
  BY <1>1 DEF Assess, Joining, Tasks, LoopTasks, JoinStarts
<1>5. PICK W, V \in Clusters : Steady(W, V)
  BY <1>2, <1>3, <1>4 DEF SmoothInv
<1>6. ~Strong(W, V)
  BY <1>1, <1>5, StrongFact DEF Assess
<1>7. Weak(W, V)
  BY <1>5, <1>6 DEF Steady
<1> QED
  BY <1>5, <1>7, WeakQuorum DEF Weak

-----------------------------------------------------------------------------
LEMMA SmoothAlways ==
  ASSUME Careful, Apart
  PROVE  RecoverSpec => [](Typed /\ Begun /\ SmoothInv)
<1>1. RecoverInit => Typed /\ Begun /\ SmoothInv
  BY TypedInit, SmoothInit
<1>2. Typed /\ Begun /\ SmoothInv /\ [RecoverNext]_allVars => (Typed /\ Begun /\ SmoothInv)'
  BY TypedStep, SmoothStep
<1> QED
  BY <1>1, <1>2, PTL DEF RecoverSpec

LEMMA RegainAlways ==
  ASSUME Careful, Apart
  PROVE  RecoverSpec => [](Typed /\ Begun /\ RegainInv)
<1>1. RecoverInit => Typed /\ Begun /\ RegainInv
  <2> SUFFICES ASSUME RecoverInit PROVE RegainInv
    BY TypedInit
  <2>1. PICK F \in Clusters : Unbroken(F) \/ Another(F) \/ Alone(F)
    BY UnbrokenInit DEF RecoverInv
  <2>2. broken = {}
    BY DEF RecoverInit
  <2>3. Unbroken(F)
    BY <2>1, <2>2, TypedInit, AloneBroken DEF Another
  <2> QED
    BY <2>3 DEF RegainInv
<1>2. Typed /\ Begun /\ RegainInv /\ [RecoverNext]_allVars => (Typed /\ Begun /\ RegainInv)'
  BY TypedStep, RegainStep
<1> QED
  BY <1>1, <1>2, PTL DEF RecoverSpec

(* No run that nothing has disturbed sets out to replace a cluster that    *)
(* serves, if one host of it or a majority is left (main.yml:24-33).       *)
THEOREM ServedFirst ==
  ASSUME Careful, Apart
  PROVE  RecoverSpec => ServingKeptFirst
<1>1. Typed /\ SmoothInv /\ [RecoverNext]_allVars
        => [Replaces /\ ~Disturbed /\ (OneSurvives \/ MajoritySurvives)
            => \A c \in lineage : started[c] # {} => ~Serves(c)]_allVars
  BY SmoothReplaces
<1> QED
  BY <1>1, SmoothAlways, PTL DEF RecoverSpec, ServingKeptFirst

(* A run of recover-control-plane.yml that ends without an error leaves    *)
(* the hosts of the group, and no broken one, members of a cluster with    *)
(* the old database: where one host was left, however many runs were cut   *)
(* off or saw crashes; where a majority was, if none was and none did, and *)
(* the cluster then has a quorum (docs/recover-control-plane.md:27).       *)
THEOREM RecoversTheCluster ==
  ASSUME Careful, Apart
  PROVE  RecoverSpec => []RecoveredCluster
<1>1. Typed /\ SmoothInv /\ RegainInv => RecoveredCluster
  <2> SUFFICES ASSUME Typed, SmoothInv, RegainInv, pc = "done",
                      OneSurvives \/ (MajoritySurvives /\ ~Disturbed)
               PROVE  \E c \in lineage : /\ inv \subseteq members[c] /\ members[c] \cap broken = {}
                                         /\ ~Disturbed => HasQuorum(c)
    BY DEF RecoveredCluster
  <2>1. CASE ~Disturbed
    BY <2>1, SmoothEnd
  <2>2. CASE Disturbed
    BY <2>2, RegainEnd
  <2> QED
    BY <2>1, <2>2
<1> QED
  BY <1>1, SmoothAlways, RegainAlways, PTL
=============================================================================
