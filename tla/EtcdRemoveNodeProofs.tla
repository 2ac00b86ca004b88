------------------------ MODULE EtcdRemoveNodeProofs ------------------------
(***************************************************************************)
(* Proofs about the life of an etcd cluster under cluster.yml and          *)
(* remove-node.yml (EtcdRemoveNode), for every set of hosts, any number of *)
(* runs and crashes and any reset_nodes.  OnlyTargetRemoved is for every   *)
(* operator; the rest is for one who is careful, on hosts whose addresses  *)
(* are no part of each other.                                              *)
(***************************************************************************)
EXTENDS EtcdRemoveNode, EtcdRoleProofs, FiniteSetTheorems, TLAPS

(* No address is part of another one: grep finds the host's own line.      *)
DistinctAddresses == \A h \in Hosts : Matches[h] = {h}

(* The ID that is to be removed is of the host the playbook was given.     *)
TargetInv ==
    /\ members = [c \in Clusters |-> members[c]]
    /\ target \subseteq Hosts
    /\ pc = "remove" => ids \subseteq target

LEMMA AddMemberGrows ==
  ASSUME members = [c \in Clusters |-> members[c]], NEW k, NEW h, AddMember(k, h)
  PROVE  /\ \A c \in Clusters : members[c] \subseteq members'[c]
         /\ members' = [c \in Clusters |-> members'[c]]
BY DEF AddMember

(* The only task of the etcd role that changes member lists is `member     *)
(* add`.                                                                   *)
LEMMA RoleGrows ==
  ASSUME members = [c \in Clusters |-> members[c]], Next
  PROVE  /\ \A c \in Clusters : members[c] \subseteq members'[c]
         /\ members' = [c \in Clusters |-> members'[c]]
<1>1. ASSUME members' = members
      PROVE  /\ \A c \in Clusters : members[c] \subseteq members'[c]
             /\ members' = [c \in Clusters |-> members'[c]]
  BY <1>1
<1>2. CASE JoinAdd
  <2>1. members' = members \/ \E k : AddMember(k, First(todo))
    BY <1>2 DEF JoinAdd, AddSucceeds, serverVars
  <2> QED
    BY <1>1, <2>1, AddMemberGrows
<1>3. CASE \/ CheckHealth \/ WriteConfig \/ EnsureRunning \/ StartReturns \/ StartFails
           \/ WaitHealthy \/ WaitFails \/ CheckMembers \/ JoinAddFails \/ JoinConfig
           \/ JoinVerify \/ JoinVerifyFails \/ JoinStart
           \/ RefreshConfig \/ Reload \/ WaitUp \/ WaitUpFails
  <2>1. members' = members
    BY <1>3 DEF CheckHealth, WriteConfig, EnsureRunning, StartReturns, StartFails, WaitHealthy,
                WaitFails, CheckMembers, JoinAddFails, JoinConfig, JoinVerify, JoinVerifyFails,
                JoinStart, RefreshConfig, Reload, WaitUp, WaitUpFails,
                WriteConf, Abort, serverVars
  <2> QED
    BY <1>1, <2>1
<1>4. CASE (\E S \in SUBSET Hosts : AddHosts(S)) \/ StartRun \/ Interrupt \/ ServerStep \/ CrashStep
  <2>1. members' = members
    BY <1>4 DEF AddHosts, StartRun, Interrupt, ServerStep, CrashStep, Launch, Publish, Crash, serverVars
  <2> QED
    BY <1>1, <2>1
<1> QED
  BY <1>2, <1>3, <1>4 DEF Next, Play

(* The etcd role never comes to the tasks of the other playbook.           *)
LEMMA RoleStays ==
  ASSUME Next
  PROVE  /\ pc' \in RemoveTasks => pc' = pc
         /\ Play => pc' \notin RemoveTasks
<1>1. CASE Play
  BY <1>1 DEF Play, CheckHealth, WriteConfig, EnsureRunning, StartReturns, StartFails, WaitHealthy,
              WaitFails, CheckMembers, JoinAdd, JoinAddFails, JoinConfig, JoinVerify,
              JoinVerifyFails, JoinStart, RefreshConfig, Reload, WaitUp,
              WaitUpFails, Abort, Goto, RemoveTasks
<1>2. CASE ~Play /\ ((\E S \in SUBSET Hosts : AddHosts(S)) \/ StartRun \/ Interrupt \/ ServerStep \/ CrashStep)
  BY <1>2 DEF AddHosts, StartRun, Interrupt, ServerStep, CrashStep, roleVars, RemoveTasks
<1> QED
  BY <1>1, <1>2 DEF Next

LEMMA TargetInit == LifeInit => TargetInv
BY DEF LifeInit, RoleInit, EstablishedInit, TargetInv

(* What a step of either playbook may do to member lists, and that the     *)
(* lookup finds the target or nothing.                                     *)
LEMMA LifeStep ==
  ASSUME DistinctAddresses, TargetInv, LifeNext
  PROVE  /\ TargetInv'
         /\ \A c \in Clusters : members[c] \ members'[c] \subseteq target
<1>1. CASE Next /\ UNCHANGED removeVars
  <2>1. target' = target /\ ids' = ids
    BY <1>1 DEF removeVars
  <2>2. /\ \A c \in Clusters : members[c] \subseteq members'[c]
        /\ members' = [c \in Clusters |-> members'[c]]
    BY <1>1, RoleGrows DEF TargetInv
  <2>3. pc' = "remove" => pc = "remove"
    BY <1>1, RoleStays DEF RemoveTasks
  <2> QED
    BY <2>1, <2>2, <2>3 DEF TargetInv
<1>2. ASSUME members' = members, target' \subseteq Hosts, pc' # "remove"
      PROVE  /\ TargetInv'
             /\ \A c \in Clusters : members[c] \ members'[c] \subseteq target
  BY <1>2 DEF TargetInv
<1>3. ASSUME NEW h \in Hosts, StartRemove(h)
      PROVE  /\ TargetInv'
             /\ \A c \in Clusters : members[c] \ members'[c] \subseteq target
  BY <1>2, <1>3 DEF StartRemove, serverVars
<1>4. CASE Lookup
  <2>1. members' = members /\ target' = target
    BY <1>4 DEF Lookup, serverVars
  <2>2. UNION {Matches[h] : h \in target} \subseteq target
    BY DEF DistinctAddresses, TargetInv
  <2>3. ids' \subseteq target
    BY <1>4, <2>2 DEF Lookup
  <2> QED
    BY <2>1, <2>3 DEF TargetInv
<1>5. CASE RemoveFound
  <2>1. target' = target /\ pc' # "remove" /\ ids \subseteq target
    BY <1>5 DEF RemoveFound, removeVars, Goto, TargetInv
  <2>2. CASE members' = members
    BY <1>2, <2>1, <2>2 DEF TargetInv
  <2>3. ASSUME NEW h \in ids, RemoveMember(data[First(inv)], h)
        PROVE  /\ TargetInv'
               /\ \A c \in Clusters : members[c] \ members'[c] \subseteq target
    <3>1. members' = [members EXCEPT ![data[First(inv)]] = @ \ {h}]
      BY <2>3 DEF RemoveMember
    <3>2. members = [c \in Clusters |-> members[c]]
      BY DEF TargetInv
    <3>3. /\ members' = [c \in Clusters |-> members'[c]]
          /\ \A c \in Clusters : members[c] \ members'[c] \subseteq {h}
      BY <3>1, <3>2
    <3> QED
      BY <2>1, <3>3 DEF TargetInv
  <2> QED
    BY <1>5, <2>2, <2>3 DEF RemoveFound, serverVars
<1>6. CASE RemoveFails
  BY <1>2, <1>6 DEF RemoveFails, GiveUp, Abort, Goto, serverVars
<1>7. CASE Reset
  BY <1>2, <1>7 DEF Reset, Goto, serverVars, removeVars, TargetInv
<1>8. CASE RemoveInterrupt \/ StrikeFromInventory
  BY <1>2, <1>8 DEF RemoveInterrupt, Interrupt, StrikeFromInventory, serverVars
<1> QED
  BY <1>1, <1>3, <1>4, <1>5, <1>6, <1>7, <1>8 DEF LifeNext, RemovePlay, Next

(* Where no address is part of another one, neither playbook ever removes  *)
(* a member other than that of the host it was given, whatever is cut off, *)
(* crashes, or fails, and also if the lookup on the first host fails       *)
(* (remove-etcd-node/tasks/main.yml:27-47).                                *)
THEOREM OnlyTargetRemoved ==
  ASSUME DistinctAddresses
  PROVE  LifeSpec => RemovesOnlyTarget
<1>1. TargetInv /\ [LifeNext]_allVars => TargetInv'
  <2>1. TargetInv /\ UNCHANGED allVars => TargetInv'
    BY DEF allVars, vars, serverVars, roleVars, removeVars, TargetInv
  <2> QED
    BY <2>1, LifeStep
<1>2. TargetInv /\ [LifeNext]_allVars =>
         [\A c \in Clusters : members[c] \ members'[c] \subseteq target]_allVars
  BY LifeStep
<1> QED
  BY TargetInit, <1>1, <1>2, PTL DEF LifeSpec, RemovesOnlyTarget

-----------------------------------------------------------------------------
(* There is one cluster.  The properties of cluster.yml and remove-node.yml *)
(* follow from an invariant about G, the hosts that the cluster is or will *)
(* be founded with, which this section states and proves for a careful     *)
(* operator.                                                               *)

Founded(G) == G # NoData /\ started[G] \cap members[G] # {}

(* No server runs or has data in another cluster, nor would one without    *)
(* data found one.  Until the cluster has served, the group is G.          *)
ServersInv(G) ==
    /\ \A h \in Hosts : data[h] \in {NoData, G}
    /\ \A h \in Hosts : proc[h] # "down" => data[h] = G /\ G # NoData /\ h \notin stale
    /\ \A h \in Hosts : Ready(h) => h \in started[G]
    /\ \A h \in stale : data[h] # NoData
    /\ \A h \in Hosts : data[h] = NoData /\ conf[h].state = "new" /\ h \in conf[h].initial
                           => conf[h].initial = G
    /\ \A c \in Clusters : c # G => started[c] = {} /\ members[c] = c
    /\ members[G] \subseteq inv
    /\ \/ Founded(G)
       \/ /\ started[G] = {} /\ members[G] = G /\ inv = G
          /\ \A h \in Hosts : data[h] # NoData => h \in G

JoinTasks == {"add", "addconfig", "verify", "joinstart"}

(* A run that finds hosts without data either founds the cluster or knows  *)
(* that it is healthy, and follows its member list while they join.        *)
TaskInv(G) ==
    /\ pc = "health" => Pending = {} \/ inv = G \/ (Healthy(G) /\ Founded(G))
    /\ pc = "config" => Pending = {} \/ inv = G \/ healthy
    /\ pc \in {"check", "refresh"} \cup JoinTasks => healthy
    /\ pc \in {"check", "refresh", "reload", "up", "done"} \cup JoinTasks => Founded(G)
    /\ pc = "check" /\ Pending # {} => \E h \in inv : Ready(h)
    /\ pc \in JoinTasks => todo \subseteq inv /\ inv \ todo \subseteq members[G]
    /\ pc \in JoinTasks \ {"add"} => First(todo) \in members[G]
    /\ pc \in {"refresh", "reload", "up", "done"} => inv \subseteq members[G]
    /\ pc \in {"add", "joinstart"} /\ Pending # {} => members[G] = inCluster
    /\ pc \in {"addconfig", "verify"} /\ Pending # {} => members[G] = inCluster \cup {First(todo)}
    /\ pc \in {"verify", "joinstart"} /\ Pending # {} => conf[First(todo)].initial = members[G]

(* The first host answers while another one is removed, so the lookup is   *)
(* right.                                                                  *)
RemoveInv(G) ==
    /\ pc \in RemoveTasks =>
          Ready(First(inv)) /\ \E h \in inv : h # First(inv) /\ target = {h}
    /\ pc = "remove" => ids = target \cap members[G]
    /\ pc \in {"reset", "removed"} => target \cap members[G] = {}

LifeInv == DataOK /\ \E G \in Clusters : ServersInv(G) /\ TaskInv(G) /\ RemoveInv(G)

(* Quorums.                                                                *)
LEMMA QuorumLives ==
  ASSUME ServerTypeOK, NEW c \in Clusters, HasQuorum(c)
  PROVE  Live(c) # {}
<1>1. Cardinality(members[c]) \in Nat
  BY HostSets DEF ServerTypeOK
<1>2. Live(c) = {} => Cardinality(Live(c)) = 0
  BY FS_EmptySet
<1> QED
  BY <1>1, <1>2 DEF HasQuorum

(* A member leaves only where a started one stays.                         *)
LEMMA StrictLeaves ==
  ASSUME ServerTypeOK, NEW c \in Clusters, NEW h, StrictRemove(c, h)
  PROVE  started[c] \cap (members[c] \ {h}) # {}
<1> DEFINE rest == members[c] \ {h}
<1>1. rest \subseteq Hosts
  BY DEF ServerTypeOK
<1>2. Cardinality(rest) \in Nat
  BY <1>1, HostSets
<1>3. Quorum(Cardinality(rest)) >= 1
  BY <1>2 DEF Quorum
<1>4. Cardinality(started[c] \cap rest) >= Quorum(Cardinality(rest))
  BY DEF StrictRemove
<1>5. Cardinality(started[c] \cap rest) # 0
  BY <1>2, <1>3, <1>4 DEF Quorum
<1> QED
  BY <1>5, FS_EmptySet

(* There is no quorum but in the one cluster.                              *)
LEMMA QuorumIsOfOne ==
  ASSUME ServerTypeOK, NEW G \in Clusters, ServersInv(G), NEW c \in Clusters, HasQuorum(c)
  PROVE  c = G
<1>1. PICK h \in Live(c) : TRUE
  BY QuorumLives
<1>2. h \in Hosts /\ proc[h] # "down" /\ data[h] = c
  BY <1>1 DEF Live, ServerTypeOK
<1> QED
  BY <1>2 DEF ServersInv

(* Every endpoint that answers is of the one cluster.                      *)
LEMMA ReachesOne ==
  ASSUME DataOK, NEW G \in Clusters, ServersInv(G)
  PROVE  /\ \A c \in Reachable(inv) : c = G /\ Founded(G)
         /\ (\E h \in inv : Ready(h)) => Reachable(inv) = {G}
<1>1. ASSUME NEW h \in inv, Ready(h) PROVE data[h] = G /\ Founded(G)
  BY <1>1 DEF ServersInv, DataOK, Ready
<1> QED
  BY <1>1 DEF Reachable

-----------------------------------------------------------------------------
(* What each kind of step does to the servers.                             *)

(* Servers stop, and nothing else happens to them.                         *)
LEMMA ServersStop ==
  ASSUME NEW G \in Clusters, ServersInv(G),
         UNCHANGED <<conf, data, stale, members, started, inv>>,
         \A h \in Hosts : proc'[h] \in {proc[h], "down"}
  PROVE  ServersInv(G)'
BY DEF ServersInv, Founded, Ready

(* Environment files are written that found no second cluster.             *)
LEMMA ServersConfigured ==
  ASSUME NEW G \in Clusters, ServersInv(G), NEW S, NEW P, WriteConf(S, P), inv' = inv,
         healthy \/ P = G \/ \A h \in S : data[h] # NoData
  PROVE  ServersInv(G)'
<1>1. UNCHANGED <<proc, data, stale, members, started>>
  BY DEF WriteConf
<1>2. ASSUME NEW h \in Hosts, data[h] = NoData, conf'[h].state = "new", h \in conf'[h].initial
      PROVE  conf'[h].initial = G
  <2>1. CASE h \in S
    <3>1. conf'[h] = [state |-> ConfState, initial |-> P]
      BY <2>1 DEF WriteConf
    <3> QED
      BY <1>2, <2>1, <3>1 DEF ConfState
  <2>2. CASE h \notin S
    BY <1>2, <2>2 DEF WriteConf, ServersInv
  <2> QED
    BY <2>1, <2>2
<1> QED
  BY <1>1, <1>2 DEF ServersInv, Founded, Ready

(* A server is launched into the one cluster.                              *)
LEMMA BootsOne ==
  ASSUME ServerTypeOK, NEW G \in Clusters, ServersInv(G), NEW h \in Hosts, NEW c \in Boot(h)
  PROVE  /\ c = G /\ G # NoData /\ h \notin stale
         /\ started[G] = {} => h \in G
<1>1. CASE data[h] # NoData
  <2>1. c = data[h] /\ h \notin stale
    BY <1>1 DEF Boot
  <2> QED
    BY <1>1, <2>1 DEF ServersInv, Founded
<1>2. CASE data[h] = NoData
  <2>1. h \notin stale
    BY <1>2 DEF ServersInv
  <2>2. CASE conf[h].state = "new" /\ h \in conf[h].initial /\ c = conf[h].initial
    <3>1. c = G /\ h \in G
      BY <1>2, <2>2 DEF ServersInv
    <3> QED
      BY <2>1, <3>1 DEF NoData
  <2>3. CASE /\ h \in conf[h].initial /\ c \in Clusters /\ members[c] = conf[h].initial
             /\ \E r \in conf[h].initial \ {h} : proc[r] # "down" /\ data[r] = c /\ r \notin stale
    <3>1. PICK r \in conf[h].initial : proc[r] # "down" /\ data[r] = c
      BY <2>3
    <3>2. r \in Hosts
      BY <3>1 DEF ServerTypeOK, Conf
    <3>3. c = G /\ G # NoData
      BY <3>1, <3>2 DEF ServersInv
    <3>4. started[G] = {} => members[G] = G
      BY DEF ServersInv, Founded
    <3> QED
      BY <2>1, <2>3, <3>3, <3>4
  <2> QED
    BY <1>2, <2>2, <2>3 DEF Boot
<1> QED
  BY <1>1, <1>2

LEMMA ServersLaunch ==
  ASSUME ServerTypeOK, NEW G \in Clusters, ServersInv(G), NEW h \in Hosts, Launch(h), inv' = inv
  PROVE  ServersInv(G)'
<1>1. /\ proc[h] = "down" /\ proc' = [proc EXCEPT ![h] = "starting"]
      /\ UNCHANGED <<conf, stale, members, started>>
  BY DEF Launch
<1>2. data' = [data EXCEPT ![h] = G] /\ G # NoData /\ h \notin stale /\ (started[G] = {} => h \in G)
  BY BootsOne DEF Launch
<1>3. \A x \in Hosts : Ready(x)' => Ready(x)
  BY <1>1 DEF ServerTypeOK, Ready
<1>4. \A x \in Hosts : x # h => data'[x] = data[x] /\ proc'[x] = proc[x]
  BY <1>1, <1>2 DEF ServerTypeOK
<1>5. data'[h] = G
  BY <1>2 DEF ServerTypeOK
<1>6. stale \subseteq Hosts
  BY DEF ServerTypeOK
<1> QED
  BY <1>1, <1>2, <1>3, <1>4, <1>5, <1>6 DEF ServersInv, Founded

LEMMA ServersPublish ==
  ASSUME ServerTypeOK, NEW G \in Clusters, ServersInv(G), NEW h \in Hosts, Publish(h), inv' = inv
  PROVE  ServersInv(G)'
<1>1. data[h] = G /\ G # NoData
  BY DEF Publish, ServersInv
<1>2. /\ proc' = [proc EXCEPT ![h] = "ready"] /\ started' = [started EXCEPT ![G] = @ \cup {h}]
      /\ UNCHANGED <<conf, data, stale, members>> /\ proc[h] = "starting"
  BY <1>1 DEF Publish
<1>3. started'[G] = started[G] \cup {h} /\ \A c \in Clusters : c # G => started'[c] = started[c]
  BY <1>2 DEF ServerTypeOK
<1>4. \A x \in Hosts : x # h => proc'[x] = proc[x]
  BY <1>2 DEF ServerTypeOK
<1>5. \A x \in Hosts : proc'[x] # "down" => proc[x] # "down"
  BY <1>2, <1>4
<1>6. \A x \in Hosts : Ready(x)' => x \in started'[G]
  BY <1>2, <1>3, <1>4 DEF ServersInv, Ready
<1>7. Founded(G)'
  BY <1>1, <1>2, <1>3 DEF ServersInv, Founded
<1> QED
  BY <1>2, <1>3, <1>5, <1>6, <1>7 DEF ServersInv

(* A host of the group becomes a member of the cluster that serves.        *)
LEMMA ServersAdd ==
  ASSUME ServerTypeOK, NEW G \in Clusters, ServersInv(G), NEW h \in inv,
         members' = [members EXCEPT ![G] = @ \cup {h}], Founded(G),
         UNCHANGED <<conf, proc, data, stale, started, inv>>
  PROVE  ServersInv(G)' /\ members'[G] = members[G] \cup {h}
<1>1. members'[G] = members[G] \cup {h} /\ \A c \in Clusters : c # G => members'[c] = members[c]
  BY DEF ServerTypeOK
<1>2. Founded(G)'
  BY <1>1 DEF Founded
<1> QED
  BY <1>1, <1>2 DEF ServersInv, Ready

LEMMA ServersRemove ==
  ASSUME ServerTypeOK, NEW G \in Clusters, ServersInv(G), NEW h \in Hosts, RemoveMember(G, h),
         UNCHANGED <<conf, data, inv>>
  PROVE  /\ ServersInv(G)' /\ Founded(G)
         /\ h \in members[G] /\ members[G] # {h} /\ members'[G] = members[G] \ {h}
         /\ \A x \in Hosts : x # h => proc'[x] = proc[x]
<1>1. /\ members' = [members EXCEPT ![G] = @ \ {h}] /\ started' = [started EXCEPT ![G] = @ \ {h}]
      /\ stale' = IF data[h] = G THEN stale \cup {h} ELSE stale
      /\ proc' = IF data[h] = G THEN [proc EXCEPT ![h] = "down"] ELSE proc
      /\ StrictRemove(G, h) /\ h \in members[G]
  BY DEF RemoveMember
<1>2. /\ members'[G] = members[G] \ {h} /\ started'[G] = started[G] \ {h}
      /\ \A c \in Clusters : c # G => members'[c] = members[c] /\ started'[c] = started[c]
  BY <1>1 DEF ServerTypeOK
<1>3. started[G] \cap (members[G] \ {h}) # {}
  BY <1>1, StrictLeaves
<1>8. G # NoData
  <2>1. PICK x \in Live(G) : TRUE
    BY QuorumLives DEF RemoveMember
  <2>2. x \in Hosts /\ proc[x] # "down"
    BY <2>1 DEF Live, ServerTypeOK
  <2> QED
    BY <2>2 DEF ServersInv
<1>4. Founded(G)' /\ Founded(G) /\ members[G] # {h}
  BY <1>2, <1>3, <1>8 DEF Founded
<1>5. \A x \in Hosts : x # h => proc'[x] = proc[x] /\ (x \in stale' => x \in stale)
  BY <1>1 DEF ServerTypeOK
<1>6. proc'[h] = "down"
  BY <1>1 DEF ServerTypeOK, ServersInv
<1>7. \A x \in stale' : data[x] # NoData
  <2>1. data[h] = G => data[h] # NoData \/ G = NoData
    OBVIOUS
  <2> QED
    BY <1>1, <1>8, <2>1 DEF ServersInv
<1> QED
  BY <1>1, <1>2, <1>4, <1>5, <1>6, <1>7 DEF ServersInv, Ready

-----------------------------------------------------------------------------
(* The tasks of cluster.yml keep the invariant.                            *)

(* How the member list of the one cluster may change.                      *)
Change(G) ==
    /\ Founded(G) => Founded(G)'
    /\ \/ members'[G] = members[G]
       \/ Founded(G) /\ \E h \in Hosts :
             \/ h \notin members[G] /\ members'[G] = members[G] \cup {h}
             \/ h \in members[G] /\ members[G] # {h} /\ members'[G] = members[G] \ {h}

LEMMA NoChange == ASSUME NEW G, UNCHANGED <<members, started>> PROVE Change(G)
BY DEF Change, Founded

(* Nothing is asked of the tasks between the first file and the second     *)
(* health check, nor of a run that is over.                                *)
LEMMA FreeTasks ==
  ASSUME NEW G, pc' \in {"idle", "enable", "start", "wait"}
  PROVE  TaskInv(G)' /\ RemoveInv(G)'
BY DEF TaskInv, RemoveInv, JoinTasks, RemoveTasks

LEMMA TaskEnds ==
  ASSUME NEW G \in Clusters, ServersInv(G), Abort
  PROVE  ServersInv(G)' /\ TaskInv(G)' /\ Change(G)
BY ServersStop, NoChange, FreeTasks DEF Abort, Goto, serverVars

(* configure.yml, up to the second health check.                           *)
LEMMA ConfigureStep ==
  ASSUME DataOK, NEW G \in Clusters, ServersInv(G), TaskInv(G),
         CheckHealth \/ WriteConfig \/ EnsureRunning \/ StartReturns \/ WaitHealthy
  PROVE  ServersInv(G)' /\ TaskInv(G)' /\ Change(G)
<1>0. ServerTypeOK
  BY DEF DataOK
<1>1. CASE CheckHealth
  <2>1. /\ UNCHANGED <<serverVars, inv>> /\ pc' = "config" /\ pc = "health"
        /\ \/ healthy' = TRUE
           \/ Reachable(inv) = {} \/ \E c \in Reachable(inv) : ~Healthy(c)
    BY <1>1 DEF CheckHealth, Goto
  <2>2. ASSUME Healthy(G), Founded(G) PROVE healthy' = TRUE
    <3>1. PICK h \in members[G] : Ready(h)
      BY <2>2 DEF Founded, Healthy
    <3>2. h \in inv
      BY <3>1 DEF ServersInv
    <3>3. Reachable(inv) = {G}
      BY <3>1, <3>2, ReachesOne
    <3> QED
      BY <2>1, <2>2, <3>3
  <2>3. Pending' = {} \/ inv' = G \/ healthy'
    BY <2>1, <2>2 DEF TaskInv, Pending, serverVars
  <2>4. TaskInv(G)'
    BY <2>1, <2>3 DEF TaskInv, JoinTasks
  <2> QED
    BY <2>1, <2>4, ServersStop, NoChange DEF serverVars
<1>2. CASE WriteConfig
  <2>1. WriteConf(inv, inv) /\ inv' = inv /\ pc' = "enable" /\ pc = "config"
    BY <1>2 DEF WriteConfig, Goto
  <2>2. healthy \/ inv = G \/ \A h \in inv : data[h] # NoData
    BY <2>1 DEF TaskInv, Pending
  <2>3. ServersInv(G)'
    BY <2>1, <2>2, ServersConfigured
  <2> QED
    BY <2>1, <2>3, NoChange, FreeTasks DEF WriteConf
<1>3. CASE EnsureRunning \/ StartReturns
  BY <1>3, ServersStop, NoChange, FreeTasks DEF EnsureRunning, StartReturns, Goto, serverVars
<1>4. CASE WaitHealthy
  <2>1. UNCHANGED <<serverVars, inv>> /\ pc' = "check" /\ healthy' = TRUE
    BY <1>4 DEF WaitHealthy, Goto
  <2>2. Founded(G) /\ \E h \in inv : Ready(h)
    BY <1>4, ReachesOne DEF WaitHealthy, Reachable
  <2>3. TaskInv(G)'
    BY <2>1, <2>2 DEF TaskInv, JoinTasks, Founded, Ready, serverVars
  <2> QED
    BY <2>1, <2>3, ServersStop, NoChange DEF serverVars
<1> QED
  BY <1>1, <1>2, <1>3, <1>4

(* The loop over join_etcd_member.yml.                                     *)
LEMMA CheckMembersStep ==
  ASSUME DistinctAddresses, DataOK, NEW G \in Clusters, ServersInv(G), TaskInv(G), CheckMembers
  PROVE  ServersInv(G)' /\ TaskInv(G)' /\ Change(G)
<1>1. /\ UNCHANGED <<serverVars, inv, healthy>> /\ pc = "check"
      /\ inCluster' \subseteq inv
      /\ \A h \in inCluster' : \E c \in Reachable(inv) : Listed(c, h)
      /\ \A h \in inv \ inCluster' : \/ Reachable(inv) = {}
                                     \/ \E c \in Reachable(inv) : ~Listed(c, h)
      /\ todo' = ToJoin(inCluster')
      /\ pc' = IF todo' = {} THEN "refresh" ELSE "add"
  BY DEF CheckMembers, Goto
<1>2. \A h \in inv : Listed(G, h) <=> h \in members[G]
  BY DEF DistinctAddresses, DataOK, Listed
<1>3. healthy /\ Founded(G) /\ todo' = inv \ inCluster'
  BY <1>1 DEF TaskInv, ToJoin
<1>4. inCluster' \subseteq members[G]
  BY <1>1, <1>2, ReachesOne
<1>5. ASSUME Pending # {} PROVE members[G] = inCluster'
  <2>1. Reachable(inv) = {G}
    BY <1>1, <1>5, ReachesOne DEF TaskInv
  <2>2. \A h \in inv \ inCluster' : h \notin members[G]
    BY <1>1, <1>2, <2>1
  <2>3. members[G] \subseteq inv
    BY DEF ServersInv
  <2> QED
    BY <1>4, <2>2, <2>3
<1>6. Pending' = Pending /\ members' = members /\ (Founded(G) <=> Founded(G)')
  BY <1>1 DEF Pending, serverVars, Founded
<1>7. TaskInv(G)'
  BY <1>1, <1>3, <1>4, <1>5, <1>6 DEF TaskInv, JoinTasks
<1> QED
  BY <1>1, <1>7, ServersStop, NoChange DEF serverVars

LEMMA JoinStep ==
  ASSUME DataOK, NEW G \in Clusters, ServersInv(G), TaskInv(G),
         JoinAdd \/ JoinConfig \/ JoinVerify \/ JoinStart
  PROVE  ServersInv(G)' /\ TaskInv(G)' /\ Change(G)
<1> DEFINE f == First(todo)
<1>0. /\ ServerTypeOK /\ pc \in JoinTasks /\ healthy /\ Founded(G)
      /\ todo \subseteq inv /\ f \in todo /\ f \in inv /\ f \in Hosts
      /\ inv \ todo \subseteq members[G] /\ members[G] \subseteq inv
  <2>1. pc \in JoinTasks
    BY DEF JoinAdd, JoinConfig, JoinVerify, JoinStart, JoinTasks
  <2>2. todo # {} /\ todo \subseteq Hosts
    BY <2>1 DEF DataOK, JoinTasks
  <2> QED
    BY <2>1, <2>2, FirstIn DEF DataOK, TaskInv, ServersInv
<1>1. CASE JoinAdd
  <2>1. /\ UNCHANGED <<conf, enabled, proc, data, stale, started, inv, healthy, inCluster, todo>>
        /\ pc = "add" /\ pc' = "addconfig"
        /\ \E c \in Reachable(inv) : AddSucceeds(c, f)
    BY <1>1 DEF JoinAdd, AddSucceeds, Goto, factVars, serverVars
  <2>2. AddSucceeds(G, f)
    BY <2>1, ReachesOne
  <2>3. members'[G] = members[G] \cup {f} /\ ServersInv(G)'
    <3>1. CASE AddMember(G, f)
      <4>1. members' = [members EXCEPT ![G] = @ \cup {f}]
        BY <3>1 DEF AddMember
      <4> QED
        BY <1>0, <2>1, <4>1, ServersAdd
    <3>2. CASE f \in members[G] /\ UNCHANGED serverVars
      <4>1. ServersInv(G)'
        BY <2>1, <3>2, ServersStop DEF serverVars
      <4> QED
        BY <3>2, <4>1 DEF serverVars
    <3> QED
      BY <2>2, <3>1, <3>2 DEF AddSucceeds
  <2>4. Pending' = Pending /\ Founded(G)'
    BY <1>0, <2>1, <2>3 DEF Pending, Founded
  <2>5. TaskInv(G)'
    <3>1. Pending # {} => members'[G] = inCluster \cup {f}
      BY <2>1, <2>3 DEF TaskInv
    <3> QED
      BY <1>0, <2>1, <2>3, <2>4, <3>1 DEF TaskInv, JoinTasks
  <2>6. Change(G)
    <3>1. f \in members[G] => members'[G] = members[G]
      BY <2>3
    <3> QED
      BY <1>0, <2>3, <2>4, <3>1 DEF Change
  <2> QED
    BY <2>3, <2>5, <2>6
<1>2. CASE JoinConfig
  <2>1. /\ WriteConf({f}, (inCluster \cap inv) \cup {f})
        /\ UNCHANGED <<inv, healthy, inCluster, todo>> /\ pc = "addconfig" /\ pc' = "verify"
    BY <1>2 DEF JoinConfig, Goto
  <2>2. ServersInv(G)'
    BY <1>0, <2>1, ServersConfigured
  <2>3. conf'[f].initial = (inCluster \cap inv) \cup {f} /\ UNCHANGED <<members, started, data>>
    BY <1>0, <2>1 DEF WriteConf
  <2>4. Pending # {} => members[G] = inCluster \cup {f}
    BY <2>1 DEF TaskInv
  <2>5. inCluster \cup {f} = members[G] => (inCluster \cap inv) \cup {f} = members[G]
    BY <1>0
  <2>6. f \in members[G]
    BY <1>0, <2>1 DEF TaskInv, JoinTasks
  <2>7. Pending' = Pending /\ Founded(G)'
    BY <1>0, <2>1, <2>3 DEF Pending, Founded
  <2>8. TaskInv(G)'
    BY <1>0, <2>1, <2>3, <2>4, <2>5, <2>6, <2>7 DEF TaskInv, JoinTasks
  <2> QED
    BY <2>2, <2>3, <2>8, NoChange
<1>3. CASE JoinVerify
  <2>1. /\ UNCHANGED <<serverVars, inv, healthy, todo>> /\ pc = "verify" /\ pc' = "joinstart"
        /\ inCluster' = inCluster \cup {f}
    BY <1>3 DEF JoinVerify, Goto
  <2>2. Pending' = Pending /\ Founded(G)'
    BY <1>0, <2>1 DEF Pending, Founded, serverVars
  <2>3. TaskInv(G)'
    BY <1>0, <2>1, <2>2 DEF TaskInv, JoinTasks, serverVars
  <2> QED
    BY <2>1, <2>3, ServersStop, NoChange DEF serverVars
<1>4. CASE JoinStart
  <2>1. /\ UNCHANGED <<serverVars, inv, healthy, inCluster>> /\ pc = "joinstart"
        /\ todo' = todo \ {f} /\ pc' = IF todo' = {} THEN "refresh" ELSE "add"
    BY <1>4 DEF JoinStart, Goto
  <2>2. Pending' = Pending /\ Founded(G)' /\ f \in members[G]
    BY <1>0, <2>1 DEF Pending, Founded, serverVars, TaskInv, JoinTasks
  <2>3. inv \ todo' \subseteq members[G]
    BY <1>0, <2>1, <2>2
  <2>4. Pending # {} => members[G] = inCluster
    BY <2>1 DEF TaskInv
  <2>5. TaskInv(G)'
    BY <1>0, <2>1, <2>2, <2>3, <2>4 DEF TaskInv, JoinTasks, serverVars
  <2> QED
    BY <2>1, <2>5, ServersStop, NoChange DEF serverVars
<1> QED
  BY <1>1, <1>2, <1>3, <1>4

(* The end of the role.                                                    *)
LEMMA LastTasksStep ==
  ASSUME DataOK, NEW G \in Clusters, ServersInv(G), TaskInv(G), RefreshConfig \/ Reload \/ WaitUp
  PROVE  ServersInv(G)' /\ TaskInv(G)' /\ Change(G)
<1>1. ServersInv(G)'
  <2>1. CASE RefreshConfig
    BY <2>1, ServersConfigured DEF RefreshConfig, Goto, TaskInv
  <2>2. CASE Reload \/ WaitUp
    BY <2>2, ServersStop DEF Reload, WaitUp, Goto, serverVars
  <2> QED
    BY <2>1, <2>2
<1>2. /\ UNCHANGED <<members, started, inv>>
      /\ pc \in {"refresh", "reload", "up"} /\ pc' \in {"reload", "up", "done"}
  BY DEF RefreshConfig, Reload, WaitUp, WriteConf, Goto, serverVars
<1>3. TaskInv(G)'
  BY <1>2 DEF TaskInv, JoinTasks, Founded
<1> QED
  BY <1>1, <1>2, <1>3, NoChange

LEMMA PlayStep ==
  ASSUME DistinctAddresses, DataOK, NEW G \in Clusters, ServersInv(G), TaskInv(G), Play
  PROVE  ServersInv(G)' /\ TaskInv(G)' /\ RemoveInv(G)' /\ Change(G)
<1>1. ServersInv(G)' /\ TaskInv(G)' /\ Change(G)
  BY ConfigureStep, CheckMembersStep, JoinStep, LastTasksStep, TaskEnds
     DEF Play, StartFails, WaitFails, JoinAddFails, JoinVerifyFails, WaitUpFails
<1>2. pc' \notin RemoveTasks
  BY RoleStays DEF Next
<1> QED
  BY <1>1, <1>2 DEF RemoveInv, RemoveTasks

-----------------------------------------------------------------------------
(* So do the servers and the operator.                                     *)

(* What keeps the invariant of a run that stands still.                    *)
LEMMA TasksStand ==
  ASSUME DataOK, NEW G \in Clusters, TaskInv(G), RemoveInv(G),
         UNCHANGED <<conf, members, inv, pc, healthy, inCluster, todo, removeVars>>,
         started[G] \subseteq started'[G],
         Pending' \subseteq Pending,
         Pending # {} /\ Healthy(G) => Healthy(G)',
         Pending # {} \/ pc \in RemoveTasks => \A h \in Hosts : Ready(h) => Ready(h)'
  PROVE  TaskInv(G)' /\ RemoveInv(G)' /\ Change(G)
<1>1. Founded(G) => Founded(G)'
  BY DEF Founded
<1>2. inv \subseteq Hosts
  BY DEF DataOK
<1>3. TaskInv(G)'
  <2>1. \A h \in inv : Pending # {} /\ Ready(h) => Ready(h)'
    BY <1>2
  <2> QED
    BY <1>1, <2>1 DEF TaskInv
<1>4. RemoveInv(G)'
  <2>1. pc \in RemoveTasks => First(inv) \in Hosts
    BY <1>2, FirstIn DEF RemoveInv
  <2>2. pc \in RemoveTasks => Ready(First(inv))'
    BY <2>1 DEF RemoveInv, Ready
  <2> QED
    BY <2>2 DEF RemoveInv, removeVars
<1> QED
  BY <1>1, <1>3, <1>4 DEF Change

LEMMA ServersMove ==
  ASSUME DataOK, DataOK', NEW G \in Clusters, ServersInv(G), TaskInv(G), RemoveInv(G),
         ServerStep, UNCHANGED removeVars
  PROVE  ServersInv(G)' /\ TaskInv(G)' /\ RemoveInv(G)' /\ Change(G)
<1>0. ServerTypeOK /\ ServerTypeOK'
  BY DEF DataOK
<1>1. UNCHANGED <<inv, pc, healthy, inCluster, todo>>
  BY DEF ServerStep, roleVars, factVars
<1>2. PICK h \in Hosts : Launch(h) \/ Publish(h)
  BY DEF ServerStep
<1>3. CASE Launch(h)
  <2>1. /\ UNCHANGED <<conf, stale, members, started>>
        /\ proc[h] = "down" /\ proc' = [proc EXCEPT ![h] = "starting"]
    BY <1>3 DEF Launch
  <2>2. data' = [data EXCEPT ![h] = G] /\ G # NoData
    BY <1>0, <1>3, BootsOne DEF Launch
  <2>3. \A x \in Hosts : x # h => proc'[x] = proc[x] /\ data'[x] = data[x]
    BY <1>0, <2>1, <2>2 DEF ServerTypeOK
  <2>4. Pending' \subseteq Pending
    BY <1>0, <1>1, <2>2 DEF ServerTypeOK, DataOK, Pending
  <2>5. \A x \in Hosts : Ready(x) => Ready(x)'
    BY <2>1, <2>3 DEF Ready
  <2>6. ASSUME Healthy(G) PROVE Healthy(G)'
    <3>1. Live(G) \subseteq Live(G)'
      BY <1>0, <2>1, <2>3 DEF Live, ServerTypeOK
    <3>2. HasQuorum(G)'
      BY <1>0, <2>1, <2>6, <3>1, QuorumStays DEF Healthy
    <3>3. \A x \in started[G] \cap members[G] : x \in Hosts /\ x # h
      BY <1>0, <2>1, <2>6 DEF Healthy, ServerTypeOK, Ready
    <3> QED
      BY <2>1, <2>3, <2>5, <2>6, <3>2, <3>3 DEF Healthy
  <2>7. ServersInv(G)'
    BY <1>0, <1>1, <1>3, ServersLaunch
  <2> QED
    BY <1>1, <2>1, <2>4, <2>5, <2>6, <2>7, TasksStand
<1>4. CASE Publish(h)
  <2>1. data[h] = G /\ h \notin stale /\ proc[h] = "starting"
    BY <1>4 DEF Publish, ServersInv
  <2>2. /\ UNCHANGED <<conf, data, stale, members>>
        /\ proc' = [proc EXCEPT ![h] = "ready"] /\ started' = [started EXCEPT ![G] = @ \cup {h}]
    BY <1>4, <2>1 DEF Publish
  <2>3. started'[G] = started[G] \cup {h}
    BY <1>0, <2>2 DEF ServerTypeOK
  <2>4. \A x \in Hosts : Ready(x) => Ready(x)'
    BY <1>0, <2>1, <2>2 DEF ServerTypeOK, Ready
  <2>5. Ready(h)' /\ Pending' = Pending
    BY <1>0, <1>1, <2>2 DEF ServerTypeOK, Ready, Pending
  <2>6. ASSUME Healthy(G) PROVE Healthy(G)'
    <3>1. \A x \in Hosts : proc[x] # "down" => proc'[x] # "down"
      BY <1>0, <2>2 DEF ServerTypeOK
    <3>2. Live(G) \subseteq Live(G)'
      BY <1>0, <2>2, <3>1 DEF Live, ServerTypeOK
    <3>3. HasQuorum(G)'
      BY <1>0, <2>2, <2>6, <3>2, QuorumStays DEF Healthy
    <3>4. \A x \in started[G] : x \in Hosts
      BY <1>0 DEF ServerTypeOK
    <3> QED
      BY <2>1, <2>2, <2>3, <2>4, <2>5, <2>6, <3>3, <3>4 DEF Healthy
  <2>7. ServersInv(G)'
    BY <1>0, <1>1, <1>4, ServersPublish
  <2> QED
    BY <1>1, <2>2, <2>3, <2>4, <2>5, <2>6, <2>7, TasksStand
<1> QED
  BY <1>2, <1>3, <1>4

(* With a careful operator no server fails while a host has no data yet,   *)
(* or while one is removed.                                                *)
LEMMA ServerFails ==
  ASSUME Careful, DataOK, NEW G \in Clusters, ServersInv(G), TaskInv(G), RemoveInv(G),
         CrashStep, pc \notin RemoveTasks, UNCHANGED removeVars
  PROVE  ServersInv(G)' /\ TaskInv(G)' /\ RemoveInv(G)' /\ Change(G)
<1>1. /\ UNCHANGED <<conf, data, stale, members, started, inv, pc, healthy, inCluster, todo>>
      /\ Pending = {}
      /\ \E h \in Hosts : proc' = [proc EXCEPT ![h] = "down"]
  BY DEF CrashStep, Crash, factVars
<1>2. \A h \in Hosts : proc'[h] \in {proc[h], "down"}
  BY <1>1 DEF DataOK, ServerTypeOK
<1>3. Pending' = Pending
  BY <1>1 DEF Pending
<1> QED
  BY <1>1, <1>2, <1>3, ServersStop, TasksStand

LEMMA InterruptStep ==
  ASSUME NEW G \in Clusters, ServersInv(G), Interrupt
  PROVE  ServersInv(G)' /\ TaskInv(G)' /\ RemoveInv(G)' /\ Change(G)
BY ServersStop, FreeTasks, NoChange DEF Interrupt, serverVars

(* A cluster that is healthy is the one, and has served or is only to be   *)
(* founded.                                                                *)
LEMMA CarefulStarts ==
  ASSUME DataOK, NEW G \in Clusters, ServersInv(G), CarefulStart
  PROVE  inv = G \/ (Healthy(G) /\ Founded(G))
<1>1. ASSUME NEW c \in Clusters, Healthy(c) PROVE c = G
  BY <1>1, QuorumIsOfOne DEF Healthy, DataOK
<1>2. Founded(G) \/ inv = G
  BY DEF ServersInv
<1>3. Unfounded => inv = G
  BY <1>2 DEF Unfounded, Founded
<1> QED
  BY <1>1, <1>2, <1>3 DEF CarefulStart

LEMMA StartRunStep ==
  ASSUME Careful, DataOK, NEW G \in Clusters, ServersInv(G), StartRun
  PROVE  ServersInv(G)' /\ TaskInv(G)' /\ RemoveInv(G)' /\ Change(G)
<1>1. UNCHANGED <<serverVars, inv>> /\ pc' = "health" /\ (Pending # {} => CarefulStart)
  BY DEF StartRun
<1>2. Pending = {} \/ inv = G \/ (Healthy(G) /\ Founded(G))
  BY <1>1, CarefulStarts
<1>3. TaskInv(G)'
  BY <1>1, <1>2 DEF TaskInv, JoinTasks, Pending, Healthy, HasQuorum, Live, Ready, Founded, serverVars
<1> QED
  BY <1>1, <1>3, ServersStop, NoChange DEF RemoveInv, RemoveTasks, serverVars

(* The first hosts of the group are those that found the cluster; any more *)
(* come once it has served.                                                *)
LEMMA AddHostsStep ==
  ASSUME Careful, DataOK, NEW G \in Clusters, ServersInv(G), NEW S \in SUBSET Hosts, AddHosts(S)
  PROVE  /\ UNCHANGED serverVars
         /\ \/ /\ inv = {} /\ started = [c \in Clusters |-> {}]
               /\ S \in Clusters /\ ServersInv(S)' /\ TaskInv(S)' /\ RemoveInv(S)'
            \/ ServersInv(G)' /\ TaskInv(G)' /\ RemoveInv(G)'
<1>1. UNCHANGED serverVars /\ pc' = "idle" /\ inv' = inv \cup S /\ S # {}
  BY DEF AddHosts
<1>2. CASE inv = {}
  <2>1. G = {} /\ started[G] = {}
    BY <1>2 DEF ServersInv, Founded
  <2>2. \A c \in Clusters : started[c] = {} /\ members[c] = c
    BY <2>1 DEF ServersInv, Founded
  <2>3. \A h \in Hosts : data[h] = NoData /\ proc[h] = "down"
    BY <2>1 DEF ServersInv, NoData
  <2>4. \A h \in Hosts : conf[h].state = "new" => h \notin conf[h].initial
    BY <2>1, <2>3 DEF ServersInv
  <2>5. started = [c \in Clusters |-> {}]
    BY <2>2 DEF DataOK, ServerTypeOK
  <2>6. S \in Clusters
    BY DEF Clusters
  <2>7. stale = {}
    BY <2>3 DEF ServersInv, DataOK, ServerTypeOK
  <2>8. ServersInv(S)'
    BY <1>1, <1>2, <2>2, <2>3, <2>4, <2>6, <2>7 DEF ServersInv, Founded, Ready, serverVars
  <2> QED
    BY <1>1, <1>2, <2>5, <2>6, <2>8, FreeTasks
<1>3. CASE inv # {}
  <2>1. \E c \in Clusters : started[c] # {}
    BY <1>3 DEF AddHosts, Unfounded
  <2>2. Founded(G)
    BY <2>1 DEF ServersInv
  <2>3. ServersInv(G)'
    BY <1>1, <2>2 DEF ServersInv, Founded, Ready, serverVars
  <2> QED
    BY <1>1, <2>3, FreeTasks
<1> QED
  BY <1>2, <1>3

-----------------------------------------------------------------------------
(* And so does remove-node.yml.                                            *)

LEMMA StartRemoveStep ==
  ASSUME Careful, DataOK, NEW G \in Clusters, ServersInv(G), NEW h \in Hosts, StartRemove(h)
  PROVE  DataOK' /\ ServersInv(G)' /\ TaskInv(G)' /\ RemoveInv(G)' /\ Change(G)
<1>1. /\ UNCHANGED <<serverVars, inv, hostType, factVars, crashes, cutOff>> /\ pc' = "lookup"
      /\ Ready(First(inv)) /\ h \in inv /\ h # First(inv) /\ target' = {h}
      /\ runs < MaxRuns /\ runs' = runs + 1
  BY DEF StartRemove
<1>2. DataOK'
  <2>1. MaxRuns \in Nat /\ runs \in 0 .. MaxRuns
    BY RoleAssumption DEF DataOK
  <2>2. runs' \in 0 .. MaxRuns
    BY <1>1, <2>1
  <2> QED
    BY <1>1, <2>2 DEF DataOK, ServerTypeOK, serverVars, factVars
<1>3. TaskInv(G)'
  BY <1>1 DEF TaskInv, JoinTasks
<1>4. RemoveInv(G)'
  BY <1>1 DEF RemoveInv, RemoveTasks, Ready, serverVars
<1> QED
  BY <1>1, <1>2, <1>3, <1>4, ServersStop, NoChange DEF serverVars

LEMMA LookupStep ==
  ASSUME DistinctAddresses, DataOK, NEW G \in Clusters, ServersInv(G), RemoveInv(G), Lookup
  PROVE  DataOK' /\ ServersInv(G)' /\ TaskInv(G)' /\ RemoveInv(G)' /\ Change(G)
<1>1. /\ UNCHANGED <<serverVars, inv, hostType, history, factVars, target>>
      /\ pc = "lookup" /\ pc' = "remove"
  BY DEF Lookup, Goto
<1>2. /\ Ready(First(inv)) /\ First(inv) \in Hosts
      /\ \E h \in inv : h # First(inv) /\ target = {h}
  BY <1>1, FirstIn DEF RemoveInv, RemoveTasks, DataOK
<1>3. data[First(inv)] = G
  BY <1>2 DEF ServersInv, Ready
<1>4. UNION {Matches[h] : h \in target} = target
  <2>1. target \subseteq Hosts
    BY <1>2 DEF DataOK
  <2> QED
    BY <2>1 DEF DistinctAddresses
<1>5. ids' = target \cap members[G]
  <2>1. ids' = (UNION {Matches[h] : h \in target}) \cap members[data[First(inv)]]
    BY <1>2 DEF Lookup
  <2> QED
    BY <1>3, <1>4, <2>1, Zenon
<1>6. RemoveInv(G)'
  BY <1>1, <1>2, <1>5 DEF RemoveInv, Ready, serverVars
<1>7. DataOK' /\ TaskInv(G)'
  BY <1>1 DEF DataOK, ServerTypeOK, TaskInv, JoinTasks, serverVars, factVars, history
<1> QED
  BY <1>1, <1>6, <1>7, ServersStop, NoChange DEF serverVars

(* What the lookup has found is removed: there is nothing else to find.    *)
LEMMA RemoveFoundStep ==
  ASSUME DataOK, NEW G \in Clusters, ServersInv(G), RemoveInv(G), RemoveFound
  PROVE  DataOK' /\ ServersInv(G)' /\ TaskInv(G)' /\ RemoveInv(G)' /\ Change(G)
<1>1. /\ UNCHANGED <<inv, hostType, history, factVars, removeVars, conf, enabled, data>>
      /\ pc = "remove" /\ pc' = "reset"
  BY DEF RemoveFound, Goto, serverVars
<1>2. PICK h \in inv : h # First(inv) /\ target = {h}
  BY <1>1 DEF RemoveInv, RemoveTasks
<1>3. /\ Ready(First(inv)) /\ First(inv) \in Hosts /\ h \in Hosts
      /\ ids = target \cap members[G]
  BY <1>1, <1>2, FirstIn DEF RemoveInv, RemoveTasks, DataOK
<1>4. data[First(inv)] = G
  BY <1>3 DEF ServersInv, Ready
<1>5. TaskInv(G)'
  BY <1>1 DEF TaskInv, JoinTasks
<1>6. CASE ids = {} /\ UNCHANGED serverVars
  <2>1. RemoveInv(G)'
    BY <1>1, <1>2, <1>3, <1>6 DEF RemoveInv, removeVars, serverVars, Ready
  <2>2. DataOK'
    BY <1>1, <1>6 DEF DataOK, ServerTypeOK, factVars, history, serverVars
  <2> QED
    BY <1>1, <1>5, <1>6, <2>1, <2>2, ServersStop, NoChange DEF serverVars
<1>7. CASE RemoveMember(G, h)
  <2>1. /\ ServersInv(G)' /\ Founded(G)
        /\ h \in members[G] /\ members[G] # {h} /\ members'[G] = members[G] \ {h}
        /\ \A x \in Hosts : x # h => proc'[x] = proc[x]
    BY <1>1, <1>3, <1>7, ServersRemove DEF DataOK
  <2>2. proc'[First(inv)] = proc[First(inv)]
    BY <1>2, <1>3, <2>1
  <2>3. RemoveInv(G)'
    BY <1>1, <1>2, <1>3, <2>1, <2>2 DEF RemoveInv, removeVars, Ready
  <2>4. Founded(G)'
    BY <1>7, <2>1, StrictLeaves DEF RemoveMember, Founded, DataOK, ServerTypeOK
  <2>5. ServerTypeOK'
    BY <1>1, <1>3, <1>7 DEF RemoveMember, DataOK, ServerTypeOK
  <2>6. DataOK'
    BY <1>1, <2>5 DEF DataOK, factVars, history
  <2> QED
    BY <1>3, <1>5, <2>1, <2>3, <2>4, <2>6 DEF Change
<1> QED
  <2>1. ASSUME NEW x \in ids, ids = {x}, RemoveMember(data[First(inv)], x)
        PROVE  RemoveMember(G, h)
    BY <1>2, <1>3, <1>4, <2>1
  <2> QED
    BY <1>6, <1>7, <2>1 DEF RemoveFound

(* The reset hits no member.                                               *)
LEMMA ResetStep ==
  ASSUME DataOK, NEW G \in Clusters, ServersInv(G), RemoveInv(G), Reset
  PROVE  DataOK' /\ ServersInv(G)' /\ TaskInv(G)' /\ RemoveInv(G)' /\ Change(G)
<1>1. /\ UNCHANGED <<inv, hostType, history, factVars, removeVars, members, started>>
      /\ pc = "reset" /\ pc' = "removed"
      /\ \/ UNCHANGED <<conf, enabled, proc, data, stale>>
         \/ /\ conf' = [h \in Hosts |-> IF h \in target THEN NoConf ELSE conf[h]]
            /\ enabled' = enabled \ target
            /\ proc' = [h \in Hosts |-> IF h \in target THEN "down" ELSE proc[h]]
            /\ data' = [h \in Hosts |-> IF h \in target THEN NoData ELSE data[h]]
            /\ stale' = stale \ target
  BY DEF Reset, Goto, serverVars
<1>2. PICK h \in inv : h # First(inv) /\ target = {h}
  BY <1>1 DEF RemoveInv, RemoveTasks
<1>3. Ready(First(inv)) /\ First(inv) \in Hosts
  BY <1>1, <1>2, FirstIn DEF RemoveInv, RemoveTasks, DataOK
<1>4. ServerTypeOK'
  <2>1. NoConf \in Conf /\ NoData \in Clusters
    BY DEF NoConf, Conf, NoData, Clusters
  <2>2. ServerTypeOK
    BY DEF DataOK
  <2>3. /\ conf' \in [Hosts -> Conf] /\ data' \in [Hosts -> Clusters]
        /\ proc' \in [Hosts -> {"down", "starting", "ready"}]
    BY <1>1, <2>1, <2>2 DEF ServerTypeOK
  <2> QED
    BY <1>1, <2>2, <2>3 DEF ServerTypeOK
<1>5. DataOK'
  BY <1>1, <1>4 DEF DataOK, factVars, history
<1>6. ServersInv(G)'
  <2>1. CASE UNCHANGED <<conf, proc, data, stale>>
    BY <1>1, <2>1, ServersStop
  <2>2. CASE /\ conf' = [x \in Hosts |-> IF x \in target THEN NoConf ELSE conf[x]]
             /\ proc' = [x \in Hosts |-> IF x \in target THEN "down" ELSE proc[x]]
             /\ data' = [x \in Hosts |-> IF x \in target THEN NoData ELSE data[x]]
             /\ stale' = stale \ target
    <3>1. \A x \in Hosts : IF x \in target
                           THEN conf'[x].state = "none" /\ proc'[x] = "down" /\ data'[x] = NoData
                           ELSE conf'[x] = conf[x] /\ proc'[x] = proc[x] /\ data'[x] = data[x]
      BY <2>2 DEF NoConf
    <3>2. stale \subseteq Hosts
      BY DEF DataOK, ServerTypeOK
    <3>3. Founded(G)'
      BY <1>1, <1>3 DEF ServersInv, Founded
    <3> QED
      BY <1>1, <2>2, <3>1, <3>2, <3>3 DEF ServersInv, Ready
  <2> QED
    BY <1>1, <2>1, <2>2
<1>7. RemoveInv(G)'
  <2>1. proc'[First(inv)] = proc[First(inv)]
    BY <1>1, <1>2, <1>3
  <2> QED
    BY <1>1, <1>2, <1>3, <2>1 DEF RemoveInv, removeVars, Ready
<1> QED
  BY <1>1, <1>5, <1>6, <1>7, NoChange DEF TaskInv, JoinTasks

LEMMA StrikeStep ==
  ASSUME DataOK, NEW G \in Clusters, ServersInv(G), RemoveInv(G), StrikeFromInventory
  PROVE  DataOK' /\ ServersInv(G)' /\ TaskInv(G)' /\ RemoveInv(G)' /\ Change(G)
<1>1. /\ UNCHANGED <<serverVars, hostType, factVars, history>>
      /\ pc = "removed" /\ pc' = "idle" /\ inv' = inv \ target
  BY DEF StrikeFromInventory
<1>2. target \cap members[G] = {} /\ Ready(First(inv)) /\ First(inv) \in Hosts
  BY <1>1, FirstIn DEF RemoveInv, RemoveTasks, DataOK
<1>3. Founded(G)
  BY <1>2 DEF ServersInv
<1>4. ServersInv(G)'
  BY <1>1, <1>2, <1>3 DEF ServersInv, Founded, Ready, serverVars
<1>5. DataOK'
  BY <1>1 DEF DataOK, ServerTypeOK, serverVars, factVars, history
<1> QED
  BY <1>1, <1>4, <1>5, FreeTasks, NoChange DEF serverVars

(* A failed task ends the play, and a run may be cut off.                  *)
LEMMA RemoveStops ==
  ASSUME DataOK, NEW G \in Clusters, ServersInv(G), RemoveFails \/ RemoveInterrupt
  PROVE  DataOK' /\ ServersInv(G)' /\ TaskInv(G)' /\ RemoveInv(G)' /\ Change(G)
<1>1. CASE RemoveFails
  <2>1. Abort
    BY <1>1 DEF RemoveFails, GiveUp
  <2>2. DataOK'
    BY <2>1 DEF Abort, Goto, history, ForgetFacts, DataOK, ServerTypeOK, serverVars
  <2> QED
    BY <2>1, <2>2, TaskEnds, FreeTasks DEF Abort, Goto
<1>2. CASE RemoveInterrupt
  BY <1>2, DataStep, InterruptStep DEF RemoveInterrupt, Next
<1> QED
  BY <1>1, <1>2

-----------------------------------------------------------------------------
(* The invariant holds at first and is kept by every step.                 *)

LEMMA LifeStarts == LifeInit => DataOK /\ ServersInv(inv) /\ TaskInv(inv) /\ RemoveInv(inv)
<1> SUFFICES ASSUME LifeInit PROVE DataOK /\ ServersInv(inv) /\ TaskInv(inv) /\ RemoveInv(inv)
  OBVIOUS
<1>1. RoleInit /\ EstablishedInit(inv) /\ pc = "idle" /\ todo = {}
  BY DEF LifeInit, RoleInit
<1>2. DataOK
  BY <1>1, TypeInit DEF Init, TypeOK, RoleTypeOK, DataOK
<1>3. inv \in Clusters
  BY <1>2 DEF DataOK, Clusters
<1>4. /\ stale = {}
      /\ \A c \in Clusters : members[c] = c /\ started[c] = IF c = inv THEN inv ELSE {}
      /\ \A h \in Hosts : IF h \in inv
                          THEN conf[h].state = "existing" /\ proc[h] = "ready" /\ data[h] = inv
                          ELSE conf[h].state = "none" /\ proc[h] = "down" /\ data[h] = {}
  BY <1>1 DEF EstablishedInit, NoConf, NoData
<1>5. ServersInv(inv)
  <2>1. started[inv] = inv /\ members[inv] = inv
    BY <1>3, <1>4
  <2>2. Founded(inv) \/ inv = {}
    BY <2>1 DEF Founded, NoData
  <2>3. \A h \in Hosts : h \in inv => inv # {}
    OBVIOUS
  <2> QED
    BY <1>3, <1>4, <2>1, <2>2, <2>3 DEF ServersInv, Ready, NoData
<1> QED
  BY <1>1, <1>2, <1>5 DEF TaskInv, RemoveInv, JoinTasks, RemoveTasks

(* The cluster stays the one it is, or its first hosts are listed.         *)
LEMMA OneOrAnother ==
  ASSUME Careful, DistinctAddresses, DataOK,
         NEW G \in Clusters, ServersInv(G), TaskInv(G), RemoveInv(G), LifeNext
  PROVE  /\ DataOK'
         /\ \/ ServersInv(G)' /\ TaskInv(G)' /\ RemoveInv(G)' /\ Change(G)
            \/ /\ UNCHANGED serverVars /\ started = [c \in Clusters |-> {}]
               /\ \E S \in Clusters : ServersInv(S)' /\ TaskInv(S)' /\ RemoveInv(S)'
<1>1. CASE /\ \/ \E S \in SUBSET Hosts : AddHosts(S)
              \/ StartRun \/ Interrupt \/ Play \/ ServerStep
              \/ CrashStep /\ pc \notin RemoveTasks
           /\ UNCHANGED removeVars
  <2>1. DataOK'
    BY <1>1, DataStep DEF Next
  <2>2. ASSUME NEW S \in SUBSET Hosts, AddHosts(S)
        PROVE  \/ ServersInv(G)' /\ TaskInv(G)' /\ RemoveInv(G)' /\ Change(G)
               \/ /\ UNCHANGED serverVars /\ started = [c \in Clusters |-> {}]
                  /\ \E T \in Clusters : ServersInv(T)' /\ TaskInv(T)' /\ RemoveInv(T)'
    BY <2>2, AddHostsStep, NoChange DEF serverVars
  <2>3. CASE StartRun
    BY <2>1, <2>3, StartRunStep
  <2>4. CASE Interrupt
    BY <2>1, <2>4, InterruptStep
  <2>5. CASE Play
    BY <2>1, <2>5, PlayStep
  <2>6. CASE ServerStep
    BY <1>1, <2>1, <2>6, ServersMove
  <2>7. CASE CrashStep /\ pc \notin RemoveTasks
    BY <1>1, <2>1, <2>7, ServerFails
  <2> QED
    BY <1>1, <2>1, <2>2, <2>3, <2>4, <2>5, <2>6, <2>7
<1>2. CASE \E h \in Hosts : StartRemove(h)
  BY <1>2, StartRemoveStep
<1>3. CASE Lookup \/ RemoveFound \/ Reset
  BY <1>3, LookupStep, RemoveFoundStep, ResetStep
<1>4. CASE RemoveFails \/ RemoveInterrupt \/ StrikeFromInventory
  BY <1>4, RemoveStops, StrikeStep
<1> QED
  BY <1>1, <1>2, <1>3, <1>4 DEF LifeNext, RemovePlay

LEMMA LifeKept ==
  ASSUME Careful, DistinctAddresses, LifeInv, [LifeNext]_allVars
  PROVE  LifeInv'
<1>1. PICK G \in Clusters : ServersInv(G) /\ TaskInv(G) /\ RemoveInv(G)
  BY DEF LifeInv
<1>2. DataOK
  BY DEF LifeInv
<1>3. CASE LifeNext
  BY <1>1, <1>2, <1>3, OneOrAnother DEF LifeInv
<1>4. CASE UNCHANGED allVars
  <2>1. UNCHANGED vars /\ UNCHANGED removeVars
    BY <1>4 DEF allVars
  <2>2. UNCHANGED <<conf, enabled, proc, data, stale, members, started, hostType, inv, pc, healthy,
                    inCluster, todo, notified, runs, crashes, cutOff, target, ids>>
    BY <2>1 DEF vars, serverVars, roleVars, factVars, history, removeVars
  <2>3. DataOK'
    BY <1>2, <2>2 DEF DataOK, ServerTypeOK
  <2>4. ServersInv(G)' /\ TaskInv(G)' /\ RemoveInv(G)'
    BY <1>1, <2>2 DEF ServersInv, TaskInv, RemoveInv, Founded, Ready, Pending, Healthy, HasQuorum, Live
  <2> QED
    BY <2>3, <2>4 DEF LifeInv
<1> QED
  BY <1>3, <1>4

LEMMA LifeAlways ==
  ASSUME Careful, DistinctAddresses
  PROVE  LifeSpec => []LifeInv
<1>1. LifeInit => LifeInv
  BY LifeStarts DEF LifeInv, DataOK, Clusters
<1>2. LifeInv /\ [LifeNext]_allVars => LifeInv'
  BY LifeKept
<1> QED
  BY <1>1, <1>2, PTL DEF LifeSpec

-----------------------------------------------------------------------------
(* What it says of the runs of both playbooks, where no address is part of *)
(* another one and the operator is careful: any hosts, whatever cluster    *)
(* was there first, both deployments, a removed host reset or not, any     *)
(* number of runs, of cuts and of failing servers.                         *)

(* No run makes a host bootstrap a second cluster beside the one that is   *)
(* running (etcd.env.j2:5 chooses between new and existing).               *)
THEOREM NoSecondCluster ==
  ASSUME Careful, DistinctAddresses
  PROVE  LifeSpec => []OneCluster
<1>1. LifeInv => OneCluster
  BY DEF LifeInv, ServersInv, OneCluster
<1> QED
  BY <1>1, LifeAlways, PTL

(* A joining server is started with the member list of the cluster it      *)
(* joins as its peers, although join_etcd_member.yml:16-26 computes it     *)
(* from what each host has found out before the first of them joined.      *)
THEOREM JoinPeersAgree ==
  ASSUME Careful, DistinctAddresses
  PROVE  LifeSpec => []JoinConfigAgrees
<1>1. LifeInv => JoinConfigAgrees
  <2> SUFFICES ASSUME LifeInv, pc = "joinstart", data[First(todo)] = NoData,
                      NEW c \in Reachable(inv)
               PROVE  conf[First(todo)].initial = members[c]
    BY DEF JoinConfigAgrees
  <2>1. PICK G \in Clusters : ServersInv(G) /\ TaskInv(G)
    BY DEF LifeInv
  <2>2. DataOK
    BY DEF LifeInv
  <2>3. First(todo) \in todo /\ todo \subseteq inv
    BY <2>1, <2>2, FirstIn DEF DataOK, TaskInv, JoinTasks
  <2>4. Pending # {}
    BY <2>3 DEF Pending
  <2>5. conf[First(todo)].initial = members[G]
    BY <2>1, <2>4 DEF TaskInv
  <2> QED
    BY <2>1, <2>2, <2>5, ReachesOne
<1> QED
  BY <1>1, LifeAlways, PTL

(* A run that ends without an error leaves every host of the group in the  *)
(* member list of the cluster that serves (main.yml:62).                   *)
THEOREM DoneMember ==
  ASSUME Careful, DistinctAddresses
  PROVE  LifeSpec => []DoneMeansMember
<1>1. LifeInv => DoneMeansMember
  BY DEF LifeInv, TaskInv, Founded, DoneMeansMember
<1> QED
  BY <1>1, LifeAlways, PTL

(* When remove-node.yml has ended without an error, its host is no member  *)
(* of the cluster that serves (docs/nodes.md, "Removing an etcd node").    *)
THEOREM RemovedGone ==
  ASSUME Careful, DistinctAddresses
  PROVE  LifeSpec => []RemovedIsGone
<1>1. LifeInv => RemovedIsGone
  BY DEF LifeInv, ServersInv, RemoveInv, RemovedIsGone
<1> QED
  BY <1>1, LifeAlways, PTL

(* Only the reset comes to the end of remove-node.yml.                     *)
LEMMA ResetIsLast ==
  ASSUME LifeNext, pc = "reset", pc' = "removed"
  PROVE  Reset
BY RoleStays DEF LifeNext, RemovePlay, StartRemove, Idle, Lookup, RemoveFound, RemoveFails,
                 RemoveInterrupt, Interrupt, StrikeFromInventory, RemoveTasks, Next

(* The reset of roles/reset, which deletes a member's data, never costs    *)
(* the cluster its quorum.                                                 *)
THEOREM ResetSparesQuorum ==
  ASSUME Careful, DistinctAddresses
  PROVE  LifeSpec => ResetKeepsQuorum
<1>1. ASSUME LifeInv, LifeInv', [LifeNext]_allVars, pc = "reset", pc' = "removed",
             NEW c \in Clusters, HasQuorum(c)
      PROVE  HasQuorum(c)'
  <2>1. PICK G \in Clusters : ServersInv(G) /\ RemoveInv(G)
    BY <1>1 DEF LifeInv
  <2>2. ServerTypeOK /\ ServerTypeOK'
    BY <1>1 DEF LifeInv, DataOK
  <2>3. c = G
    BY <1>1, <2>1, <2>2, QuorumIsOfOne
  <2>4. members[c] \cap target = {}
    BY <1>1, <2>1, <2>3 DEF RemoveInv
  <2>5. Reset
    BY <1>1, ResetIsLast DEF allVars, vars, roleVars
  <2>6. \A h \in members[c] : data'[h] = data[h] /\ proc'[h] = proc[h]
    BY <2>2, <2>4, <2>5 DEF Reset, ServerTypeOK, serverVars
  <2>7. members' = members /\ stale' \subseteq stale
    BY <2>5 DEF Reset, serverVars
  <2>8. Live(c) \subseteq Live(c)'
    BY <2>6, <2>7 DEF Live
  <2> QED
    BY <1>1, <2>2, <2>7, <2>8, QuorumStays
<1>2. LifeInv /\ LifeInv' /\ [LifeNext]_allVars =>
        [pc = "reset" /\ pc' = "removed" =>
            \A c \in Clusters : HasQuorum(c) => HasQuorum(c)']_allVars
  BY <1>1
<1> QED
  BY <1>2, LifeAlways, PTL DEF LifeSpec, ResetKeepsQuorum

(* What clients see of the one cluster, its member list and the servers    *)
(* that have started: nothing before it has served.                        *)
LEMMA Seen ==
  ASSUME NEW G \in Clusters, NEW list, NEW up, NEW f,
         f = UNION {c \in Clusters : up[c] # {}},
         \A c \in Clusters : c # G => up[c] = {} /\ list[c] = c,
         \/ G # {} /\ up[G] \cap list[G] # {}
         \/ up[G] = {} /\ list[G] = G
  PROVE  IF G # {} /\ up[G] \cap list[G] # {}
         THEN f = G
         ELSE f = {} /\ list[f] = {} /\ list[G] = G
<1>1. CASE G # {} /\ up[G] \cap list[G] # {}
  <2>1. {c \in Clusters : up[c] # {}} = {G}
    BY <1>1
  <2> QED
    BY <1>1, <2>1
<1>2. CASE ~(G # {} /\ up[G] \cap list[G] # {})
  <2>1. {c \in Clusters : up[c] # {}} = {} /\ list[G] = G
    BY <1>2
  <2>2. f = {}
    BY <2>1
  <2>3. {} \in Clusters
    BY DEF Clusters
  <2>4. list[{}] = {}
    BY <2>1, <2>3
  <2> QED
    BY <1>2, <2>1, <2>2, <2>4
<1> QED
  BY <1>1, <1>2

LEMMA SeenNow ==
  ASSUME NEW G \in Clusters, ServersInv(G)
  PROVE  IF Founded(G) THEN founder = G ELSE founder = {} /\ members[founder] = {} /\ members[G] = G
BY Seen DEF founder, ServersInv, Founded, NoData

LEMMA SeenNext ==
  ASSUME NEW G \in Clusters, ServersInv(G)'
  PROVE  IF Founded(G)' THEN founder' = G
         ELSE founder' = {} /\ members'[founder'] = {} /\ members'[G] = G
BY Seen DEF founder, ServersInv, Founded, NoData

(* Seen from its clients, the cluster changes by one member at a time and  *)
(* is never replaced by another one: every step of both playbooks, of the  *)
(* operator and of the servers is a step of EtcdMembership or none.        *)
THEOREM LifeImplementsMembership ==
  ASSUME Careful, DistinctAddresses
  PROVE  LifeSpec => ImplementsMembership
<1>1. LifeInit => Abstract!Init
  <2> SUFFICES ASSUME LifeInit PROVE Abstract!Init
    OBVIOUS
  <2>1. DataOK /\ ServersInv(inv) /\ inv \in Clusters
    BY LifeStarts DEF DataOK, Clusters
  <2>2. members[inv] = inv
    BY <2>1 DEF LifeInit, RoleInit, EstablishedInit
  <2> QED
    BY <2>1, <2>2, SeenNow DEF Abstract!Init, Clusters
<1>2. ASSUME LifeInv, [LifeNext]_allVars
      PROVE  [Abstract!Next]_<<founder, members[founder]>>
  <2>1. PICK G \in Clusters : ServersInv(G) /\ TaskInv(G) /\ RemoveInv(G)
    BY <1>2 DEF LifeInv
  <2>2. DataOK
    BY <1>2 DEF LifeInv
  <2>3. ASSUME UNCHANGED serverVars PROVE UNCHANGED <<founder, members[founder]>>
    BY <2>3 DEF serverVars, founder
  <2>4. ASSUME DataOK', ServersInv(G)', Change(G)
        PROVE  [Abstract!Next]_<<founder, members[founder]>>
    <3>1. /\ Founded(G)' => founder' = G /\ members'[founder'] = members'[G]
          /\ ~Founded(G)' => founder' = {} /\ members'[founder'] = {} /\ members'[G] = G
      BY <2>4, SeenNext
    <3>2. CASE ~Founded(G)
      <4>1. founder = {} /\ members[founder] = {} /\ members'[G] = G
        BY <2>1, <2>4, <3>2, SeenNow DEF Change
      <4>2. CASE ~Founded(G)'
        BY <3>1, <4>1, <4>2
      <4>3. CASE Founded(G)'
        <5>1. Abstract!Found(G)
          BY <3>1, <4>1, <4>3 DEF Abstract!Found, Founded, NoData
        <5> QED
          BY <5>1 DEF Abstract!Next, Clusters
      <4> QED
        BY <4>2, <4>3
    <3>3. CASE Founded(G)
      <4>1. /\ founder = G /\ founder' = G /\ G # {}
            /\ members[founder] = members[G] /\ members'[founder'] = members'[G]
        BY <2>1, <2>4, <3>1, <3>3, SeenNow DEF Change, Founded, NoData
      <4>2. CASE members'[G] = members[G]
        BY <4>1, <4>2
      <4>3. ASSUME NEW h \in Hosts, h \notin members[G], members'[G] = members[G] \cup {h}
            PROVE  Abstract!Join(h)
        BY <4>1, <4>3 DEF Abstract!Join
      <4>4. ASSUME NEW h \in Hosts, h \in members[G], members[G] # {h},
                   members'[G] = members[G] \ {h}
            PROVE  Abstract!Leave(h)
        BY <4>1, <4>4 DEF Abstract!Leave
      <4> QED
        BY <2>4, <4>2, <4>3, <4>4 DEF Change, Abstract!Next
    <3> QED
      BY <3>2, <3>3
  <2>5. CASE LifeNext
    BY <2>1, <2>2, <2>3, <2>4, <2>5, OneOrAnother
  <2>6. CASE UNCHANGED allVars
    BY <2>3, <2>6 DEF allVars, vars
  <2> QED
    BY <1>2, <2>5, <2>6
<1> QED
  BY <1>1, <1>2, LifeAlways, PTL DEF LifeSpec, ImplementsMembership, Abstract!Spec
=============================================================================
