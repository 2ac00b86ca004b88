------------------------- MODULE ControlPlaneProofs -------------------------
(***************************************************************************)
(* Proofs about the control-plane play (ControlPlane), for every set of    *)
(* hosts, every number of attempts and any number of runs.                 *)
(***************************************************************************)
EXTENDS ControlPlane, TLAPS

(* Which hosts are in the cluster at each point of a run, as far as its    *)
(* facts tell.                                                             *)
Started == {"sans", "regenerate", "init"}
Between == {"token", "upload", "parse"}

FactsRight ==
    pc \in Started \cup Between \cup {"join"} /\ clean => alreadyRun \subseteq joined

BeforeInit ==
    pc \in Started => joined \cap masters \subseteq alreadyRun

InitTurn ==
    pc = "init" => todo = {first} /\ first \notin alreadyRun

AfterInit ==
    pc \in Between =>
        /\ joined \cap masters \subseteq alreadyRun \cup {first}
        /\ first \in alreadyRun \cup joined

JoinTurn ==
    pc = "join" =>
        /\ todo \subseteq masters
        /\ joined \cap todo = {}
        /\ masters \ (todo \cup gaveUp) \subseteq alreadyRun \cup joined

MemberInv ==
    /\ first \in masters
    /\ joined \subseteq kubeletConfig
    /\ pc = "stat" /\ clean => kubeletConfig \cap masters \subseteq joined
    /\ FactsRight
    /\ BeforeInit
    /\ InitTurn
    /\ AfterInit
    /\ JoinTurn
    /\ pc # "join" => gaveUp = {}
    /\ DoneMeansJoined

LEMMA MemberInit == Init => MemberInv
  BY DEF Init, MemberInv, FactsRight, BeforeInit, InitTurn, AfterInit, JoinTurn,
         Started, Between, DoneMeansJoined

LEMMA MemberStep == MemberInv /\ [Next]_vars => MemberInv'
<1> SUFFICES ASSUME MemberInv, [Next]_vars PROVE MemberInv'
  OBVIOUS
<1> USE DEF MemberInv, FactsRight, BeforeInit, InitTurn, AfterInit, JoinTurn,
            Started, Between, DoneMeansJoined
<1>1. CASE UNCHANGED vars
  BY <1>1 DEF vars, inventoryVars, fileVars, clusterVars, factVars, loopVars, historyVars
<1>2. ASSUME NEW M \in SUBSET Hosts, NEW f \in Hosts, StartRun(M, f) PROVE MemberInv'
  BY <1>2 DEF StartRun, Idle, fileVars, loopVars
<1>3. CASE Interrupt
  BY <1>3 DEF Interrupt, Leave, inventoryVars, fileVars, clusterVars, factVars
<1>4. CASE Expire
  BY <1>4 DEF Expire, Idle, inventoryVars, fileVars, factVars, loopVars, historyVars
<1>5. ASSUME NEW h \in Hosts, RemoveNode(h) PROVE MemberInv'
  BY <1>5 DEF RemoveNode, Wiped, Idle, factVars, loopVars, historyVars
<1>6. CASE CheckAlreadyRun
  BY <1>6 DEF CheckAlreadyRun, Goto, inventoryVars, fileVars, clusterVars, loopVars, historyVars
<1>7. CASE DropCertificates
  BY <1>7 DEF DropCertificates, Goto, inventoryVars, clusterVars, loopVars, historyVars
<1>8. CASE Regenerate
  <2>1. todo' = ToInit /\ ToInit \subseteq {first} /\ (ToInit = {} => first \in alreadyRun)
    BY <1>8 DEF Regenerate, Loop, ToInit
  <2>2. ToInit # {} => ToInit = {first} /\ first \notin alreadyRun
    BY DEF ToInit
  <2> QED
    BY <1>8, <2>1, <2>2 DEF Regenerate, Loop, inventoryVars, clusterVars, factVars, historyVars
<1>9. CASE RegenerateFails
  BY <1>9 DEF RegenerateFails, Leave, inventoryVars, clusterVars, factVars
<1>10. CASE CreateToken
  BY <1>10 DEF CreateToken, Goto, inventoryVars, fileVars, clusterVars, factVars, loopVars, historyVars
<1>11. CASE CreateTokenFails
  BY <1>11 DEF CreateTokenFails, Leave, inventoryVars, fileVars, clusterVars, factVars
<1>12. CASE UploadCerts
  BY <1>12 DEF UploadCerts, Goto, inventoryVars, fileVars, factVars, loopVars, historyVars
<1>13. CASE ParseKey
  <2>1. todo' = ToJoin /\ ToJoin = (masters \ alreadyRun) \ {first}
    BY <1>13 DEF ParseKey, Loop, ToJoin
  <2> QED
    BY <1>13, <2>1 DEF ParseKey, Loop, inventoryVars, fileVars, clusterVars, historyVars
<1>14. ASSUME NEW h \in Hosts, InitHost(h) PROVE MemberInv'
  <2>1. h = first /\ todo' = {}
    BY <1>14 DEF InitHost, Turn, Served
  <2>2. joined' = joined \cup {h} /\ kubeletConfig' = kubeletConfig \cup {h}
    BY <1>14 DEF InitHost, InitTo, InitPhases
  <2> QED
    BY <1>14, <2>1, <2>2 DEF InitHost, Served, inventoryVars, historyVars
<1>15. ASSUME NEW h \in Hosts, NEW k \in 0 .. InitPhases - 1, InitFails(h, k) PROVE MemberInv'
  <2>1. joined' = joined /\ kubeletConfig \subseteq kubeletConfig'
    BY <1>15 DEF InitFails, InitTo, InitPhases
  <2>2. h = first
    BY <1>15 DEF InitFails, Turn
  <2> QED
    BY <1>15, <2>1, <2>2 DEF InitFails, Retry, inventoryVars, factVars, historyVars
<1>16. ASSUME NEW h \in Hosts, JoinHost(h) PROVE MemberInv'
  <2>1. h \in todo /\ joined' = joined \cup {h} /\ h \in kubeletConfig'
        /\ kubeletConfig \subseteq kubeletConfig' \cup {h}
    BY <1>16 DEF JoinHost, JoinTo, JoinPhases, Turn
  <2> QED
    BY <1>16, <2>1 DEF JoinHost, Served, inventoryVars, factVars, historyVars
<1>17. ASSUME NEW h \in Hosts, NEW k \in 0 .. JoinPhases - 1, JoinFails(h, k) PROVE MemberInv'
  <2>1. h \in todo /\ joined' = joined /\ kubeletConfig \subseteq kubeletConfig' \cup {h}
    BY <1>17 DEF JoinFails, JoinTo, JoinPhases, Turn
  <2> QED
    BY <1>17, <2>1 DEF JoinFails, Retry, inventoryVars, factVars, historyVars
<1> QED
  BY <1>1, <1>2, <1>3, <1>4, <1>5, <1>6, <1>7, <1>8, <1>9, <1>10, <1>11, <1>12, <1>13, <1>14,
     <1>15, <1>16, <1>17 DEF Next, Setup

(* A run that began with no host half set up and ended without an error    *)
(* has every host of the group in the cluster.                             *)
THEOREM CleanRunJoins == Spec => []DoneMeansJoined
<1>1. MemberInv => DoneMeansJoined
  BY DEF MemberInv
<1> QED
  BY <1>1, MemberInit, MemberStep, PTL DEF Spec

LEMMA RunKeepsMembers == MemberInv /\ [Next]_vars => [~Idle => joined \subseteq joined']_vars
<1> SUFFICES ASSUME MemberInv, Next, ~Idle PROVE joined \subseteq joined'
  BY DEF vars
<1>1. ASSUME NEW h \in Hosts, JoinHost(h) PROVE joined \subseteq joined'
  BY <1>1 DEF JoinHost, JoinTo, JoinPhases
<1>2. ASSUME NEW h \in Hosts, NEW k \in 0 .. JoinPhases - 1, JoinFails(h, k) PROVE joined \subseteq joined'
  BY <1>2 DEF JoinFails, JoinTo, JoinPhases, Turn, MemberInv, JoinTurn
<1>3. ASSUME NEW h \in Hosts, InitHost(h) PROVE joined \subseteq joined'
  BY <1>3 DEF InitHost, InitTo, InitPhases
<1>4. ASSUME NEW h \in Hosts, NEW k \in 0 .. InitPhases - 1, InitFails(h, k) PROVE joined \subseteq joined'
  BY <1>4 DEF InitFails, InitTo, InitPhases
<1>5. CASE CheckAlreadyRun \/ DropCertificates \/ Regenerate \/ RegenerateFails
           \/ CreateToken \/ CreateTokenFails \/ UploadCerts \/ ParseKey \/ Interrupt
  BY <1>5 DEF CheckAlreadyRun, DropCertificates, Regenerate, RegenerateFails, CreateToken,
              CreateTokenFails, UploadCerts, ParseKey, Interrupt, clusterVars
<1> QED
  BY <1>1, <1>2, <1>3, <1>4, <1>5 DEF Next, Setup, StartRun, RemoveNode, Expire

(* No step of a run takes a host out of the cluster: a reset only ever     *)
(* hits a host that has not finished joining.                              *)
THEOREM RunsKeepMembers == Spec => ResetKeepsMembers
  BY MemberInit, MemberStep, RunKeepsMembers, PTL DEF Spec, ResetKeepsMembers

-----------------------------------------------------------------------------
(* Types.                                                                  *)

(* An authority is only made in the init task, and once in a run.          *)
CasBound ==
    /\ cas <= runs
    /\ pc \in {"stat", "sans", "regenerate"} => cas < runs
    /\ pc = "init" => todo = {first} /\ (cas < runs \/ ca[first] # 0)

TypeInv ==
    /\ TypeOK
    /\ CasBound
    /\ pc \notin {"init", "join"} => gaveUp = {}
    /\ pc = "stat" => renew = {}

LEMMA TypeInit == Init => TypeInv
<1> SUFFICES ASSUME Init PROVE TypeInv
  OBVIOUS
<1>1. Tries \in Nat \ {0} /\ MaxRuns \in Nat
  BY ControlPlaneAssumption
<1>2. clusterInfo \in BOOLEAN /\ clean \in BOOLEAN /\ disturbed \in BOOLEAN
  BY Zenon DEF Init
<1>3. secret \in [ca : 0 .. MaxRuns, key : Keys]
  BY <1>1 DEF Init, NoSecret, NoKey, Keys
<1>4. ca \in [Hosts -> 0 .. MaxRuns] /\ tried \in [Hosts -> 0 .. Tries - 1]
      /\ sans \in [Hosts -> SUBSET Hosts]
  BY <1>1 DEF Init, Untried
<1>5. CasBound
  BY DEF Init, CasBound
<1> QED
  BY <1>1, <1>2, <1>3, <1>4, <1>5 DEF Init, TypeInv, TypeOK, NoKey, Keys, Tasks

(* What kubeadm does to a host keeps the types of files and cluster.       *)
LEMMA InitToType ==
  ASSUME TypeOK, pc = "init", CasBound,
         NEW h \in Hosts, h = first, NEW k \in 0 .. InitPhases, InitTo(h, k)
  PROVE  /\ kubeletConfig' \subseteq Hosts /\ manifests' \subseteq Hosts /\ joined' \subseteq Hosts
         /\ config' \subseteq Hosts /\ clusterInfo' \in BOOLEAN
         /\ ca' \in [Hosts -> 0 .. MaxRuns] /\ cas' \in 0 .. MaxRuns /\ cas' <= runs
         /\ cas' < runs \/ ca'[first] # 0
         /\ sans' \in [Hosts -> SUBSET Hosts]
         /\ secret' \in [ca : 0 .. MaxRuns, key : Keys]
<1>1. MaxRuns \in Nat
  BY ControlPlaneAssumption
<1>2. runs \in 0 .. MaxRuns /\ cas \in 0 .. MaxRuns /\ ca \in [Hosts -> 0 .. MaxRuns]
  BY DEF TypeOK
<1>3. cas' \in 0 .. MaxRuns /\ cas' <= runs
  BY <1>1, <1>2 DEF InitTo, CasBound
<1>4. ca' \in [Hosts -> 0 .. MaxRuns] /\ (cas' < runs \/ ca'[first] # 0)
  BY <1>1, <1>2, <1>3 DEF InitTo, CasBound
<1>5. kubeletConfig' \subseteq Hosts /\ manifests' \subseteq Hosts /\ joined' \subseteq Hosts
      /\ config' \subseteq Hosts
  BY DEF InitTo, TypeOK
<1>6. clusterInfo' \in BOOLEAN
  BY Zenon DEF InitTo, TypeOK
<1>7. sans' \in [Hosts -> SUBSET Hosts]
  BY DEF InitTo, TypeOK
<1>8. secret' \in [ca : 0 .. MaxRuns, key : Keys]
  BY <1>4 DEF InitTo, TypeOK, Keys
<1> QED
  BY <1>3, <1>4, <1>5, <1>6, <1>7, <1>8

LEMMA JoinToType ==
  ASSUME TypeOK, NEW h \in Hosts, NEW k \in 0 .. JoinPhases, JoinTo(h, k)
  PROVE  /\ kubeletConfig' \subseteq Hosts /\ manifests' \subseteq Hosts /\ joined' \subseteq Hosts
         /\ ca' \in [Hosts -> 0 .. MaxRuns]
         /\ sans' \in [Hosts -> SUBSET Hosts]
<1>1. MaxRuns \in Nat
  BY ControlPlaneAssumption
<1>2. ca' \in [Hosts -> 0 .. MaxRuns]
  BY <1>1 DEF JoinTo, TypeOK
<1>3. sans' \in [Hosts -> SUBSET Hosts]
  BY DEF JoinTo, TypeOK
<1>4. kubeletConfig' \subseteq Hosts /\ manifests' \subseteq Hosts /\ joined' \subseteq Hosts
  BY DEF JoinTo, TypeOK
<1> QED
  BY <1>2, <1>3, <1>4

(* What happens to the loop of a task when it is done with a host.         *)
LEMMA ServedType ==
  ASSUME TypeOK, NEW h \in Hosts, h \in todo,
         NEW b \in {"token", "done"}, Served(h, b)
  PROVE  /\ masters' = masters /\ first' = first /\ runs' = runs
         /\ clean' = clean /\ disturbed' = disturbed
         /\ todo' = todo \ {h}
         /\ tried' \in [Hosts -> 0 .. Tries - 1]
         /\ gaveUp' \subseteq masters \ todo'
         /\ todo' # {} => pc' = pc
         /\ todo' = {} => pc' \in {b, "idle"} /\ gaveUp' = {}
<1>1. Tries \in Nat \ {0}
  BY ControlPlaneAssumption
<1> QED
  BY <1>1 DEF Served, TypeOK, inventoryVars, historyVars

LEMMA RetryType ==
  ASSUME TypeOK, NEW h \in Hosts, h \in todo, NEW could \in BOOLEAN, Retry(h, could)
  PROVE  /\ masters' = masters /\ first' = first /\ runs' = runs
         /\ clean' = clean /\ disturbed' \in BOOLEAN
         /\ todo' \in {todo, todo \ {h}}
         /\ tried' \in [Hosts -> 0 .. Tries - 1]
         /\ gaveUp' \subseteq masters \ todo'
         /\ todo' # {} => pc' = pc
         /\ todo' = {} => pc' = "idle" /\ gaveUp' = {}
<1>1. Tries \in Nat \ {0}
  BY ControlPlaneAssumption
<1>2. CASE tried[h] + 1 < Tries
  BY <1>1, <1>2 DEF Retry, TypeOK, inventoryVars, historyVars
<1>3. CASE ~(tried[h] + 1 < Tries)
  <2>1. disturbed' \in BOOLEAN
    BY <1>3, Zenon DEF Retry, TypeOK
  <2> QED
    BY <1>1, <1>3, <2>1 DEF Retry, TypeOK, inventoryVars
<1> QED
  BY <1>2, <1>3

LEMMA TypeStep == TypeInv /\ [Next]_vars => TypeInv'
<1> SUFFICES ASSUME TypeInv, [Next]_vars PROVE TypeInv'
  OBVIOUS
<1>0. MaxRuns \in Nat
  BY ControlPlaneAssumption
<1> USE DEF TypeInv, CasBound
<1>1. CASE UNCHANGED vars
  BY <1>1 DEF vars, inventoryVars, fileVars, clusterVars, factVars, loopVars, historyVars, TypeOK
<1>2. ASSUME NEW M \in SUBSET Hosts, NEW f \in Hosts, StartRun(M, f) PROVE TypeInv'
  <2>1. clean' \in BOOLEAN /\ disturbed' \in BOOLEAN
    BY <1>2, Zenon DEF StartRun
  <2>2. secret' \in [ca : 0 .. MaxRuns, key : Keys]
    BY <1>0, <1>2 DEF StartRun, TypeOK, Keys, NoSecret
  <2>3. runs' \in 0 .. MaxRuns /\ cas' = cas /\ cas < runs' /\ cas <= runs'
    BY <1>0, <1>2 DEF StartRun, TypeOK, Idle
  <2> QED
    BY <1>0, <1>2, <2>1, <2>2, <2>3 DEF StartRun, TypeOK, Idle, Tasks, Keys, NoKey, fileVars, loopVars
<1>3. ASSUME Leave("idle", TRUE) \/ Leave("idle", FALSE),
             UNCHANGED <<kubeletConfig, ca, manifests, clusterVars, factVars>>,
             sans' \in [Hosts -> SUBSET Hosts]
      PROVE  TypeInv'
  <2>1. disturbed' \in BOOLEAN
    BY <1>3, Zenon DEF Leave, TypeOK
  <2>2. Untried \in [Hosts -> 0 .. Tries - 1]
    BY ControlPlaneAssumption DEF Untried
  <2> QED
    BY <1>0, <1>3, <2>1, <2>2 DEF Leave, TypeOK, inventoryVars, clusterVars, factVars
<1>4. CASE Interrupt
  BY <1>3, <1>4 DEF Interrupt, TypeOK, fileVars
<1>5. CASE Expire
  BY <1>0, <1>5 DEF Expire, TypeOK, NoSecret, NoKey, Keys, inventoryVars, fileVars, factVars,
                    loopVars, historyVars
<1>6. ASSUME NEW h \in Hosts, RemoveNode(h) PROVE TypeInv'
  BY <1>0, <1>6 DEF RemoveNode, Wiped, Idle, TypeOK, factVars, loopVars, historyVars
<1>7. CASE CheckAlreadyRun
  BY <1>0, <1>7 DEF CheckAlreadyRun, Goto, TypeOK, Tasks, inventoryVars, fileVars, clusterVars,
                    loopVars, historyVars
<1>8. CASE DropCertificates
  BY <1>0, <1>8 DEF DropCertificates, Goto, TypeOK, Tasks, inventoryVars, clusterVars, loopVars,
                    historyVars
<1>9. Renewed \in [Hosts -> SUBSET Hosts]
  BY DEF Renewed, TypeOK
<1>10. CASE Regenerate
  <2>1. todo' = ToInit /\ ToInit \subseteq masters \ alreadyRun /\ ToInit \subseteq {first}
    BY <1>10 DEF Regenerate, Loop, ToInit
  <2> QED
    BY <1>0, <1>9, <1>10, <2>1 DEF Regenerate, Loop, TypeOK, Tasks, inventoryVars, clusterVars,
                                   factVars, historyVars
<1>11. CASE RegenerateFails
  BY <1>3, <1>9, <1>11 DEF RegenerateFails
<1>12. CASE CreateToken
  BY <1>0, <1>12 DEF CreateToken, Goto, TypeOK, Tasks, inventoryVars, fileVars, clusterVars,
                     factVars, loopVars, historyVars
<1>13. CASE CreateTokenFails
  BY <1>3, <1>13 DEF CreateTokenFails, TypeOK, fileVars
<1>14. CASE UploadCerts
  BY <1>0, <1>14 DEF UploadCerts, Goto, TypeOK, Tasks, Keys, inventoryVars, fileVars, factVars,
                     loopVars, historyVars
<1>15. CASE ParseKey
  <2>1. todo' = ToJoin /\ ToJoin \subseteq masters \ alreadyRun
    BY <1>15 DEF ParseKey, Loop, ToJoin
  <2> QED
    BY <1>0, <1>15, <2>1 DEF ParseKey, ParsedKey, Loop, TypeOK, Tasks, Keys, inventoryVars,
                             fileVars, clusterVars, historyVars
<1>16. ASSUME NEW h \in Hosts, InitHost(h) PROVE TypeInv'
  <2>1. h \in todo /\ h = first /\ TypeOK /\ CasBound /\ pc = "init"
    BY <1>16 DEF InitHost, Turn
  <2>2. InitPhases \in 0 .. InitPhases /\ InitTo(h, InitPhases) /\ Served(h, "token")
    BY <1>16 DEF InitHost, InitPhases
  <2>3. certKey' \in Keys /\ alreadyRun' = alreadyRun /\ renew' = renew
    BY <1>16 DEF InitHost, Keys
  <2>4. todo' = {}
    BY <2>1, <2>2, ServedType
  <2> QED
    BY <1>0, <2>1, <2>2, <2>3, <2>4, InitToType, ServedType DEF TypeOK, Tasks
<1>17. ASSUME NEW h \in Hosts, NEW k \in 0 .. InitPhases - 1, InitFails(h, k) PROVE TypeInv'
  <2>1. h \in todo /\ h = first /\ TypeOK /\ CasBound /\ pc = "init"
    BY <1>17 DEF InitFails, Turn
  <2>2. k \in 0 .. InitPhases /\ InitTo(h, k)
    BY <1>17 DEF InitFails, InitPhases
  <2>4. Retry(h, TRUE)
    BY <1>17, Zenon DEF InitFails
  <2>5. /\ masters' = masters /\ first' = first /\ runs' = runs
        /\ clean' = clean /\ disturbed' \in BOOLEAN
        /\ todo' \in {todo, todo \ {h}}
        /\ tried' \in [Hosts -> 0 .. Tries - 1]
        /\ gaveUp' \subseteq masters \ todo'
        /\ todo' # {} => pc' = pc
        /\ todo' = {} => pc' = "idle" /\ gaveUp' = {}
    BY <2>1, <2>4, RetryType, Zenon
  <2>3. certKey' = certKey /\ alreadyRun' = alreadyRun /\ renew' = renew
    BY <1>17 DEF InitFails, factVars
  <2> QED
    BY <1>0, <2>1, <2>2, <2>3, <2>5, InitToType DEF TypeOK, Tasks
<1>18. ASSUME NEW h \in Hosts, JoinHost(h) PROVE TypeInv'
  <2>1. h \in todo /\ TypeOK /\ pc = "join"
    BY <1>18 DEF JoinHost, Turn
  <2>2. JoinPhases \in 0 .. JoinPhases /\ JoinTo(h, JoinPhases) /\ Served(h, "done")
    BY <1>18 DEF JoinHost, JoinPhases
  <2>3. UNCHANGED <<config, clusterInfo, secret, cas, alreadyRun, renew, certKey>>
    BY <1>18 DEF JoinHost, factVars
  <2> QED
    BY <1>0, <2>1, <2>2, <2>3, JoinToType, ServedType DEF TypeOK, Tasks
<1>19. ASSUME NEW h \in Hosts, NEW k \in 0 .. JoinPhases - 1, JoinFails(h, k) PROVE TypeInv'
  <2>1. h \in todo /\ TypeOK /\ pc = "join"
    BY <1>19 DEF JoinFails, Turn
  <2>2. k \in 0 .. JoinPhases /\ JoinTo(h, k)
    BY <1>19 DEF JoinFails, JoinPhases
  <2>3. UNCHANGED <<config, clusterInfo, secret, cas, alreadyRun, renew, certKey>>
    BY <1>19 DEF JoinFails, factVars
  <2>4. Retry(h, JoinReach = JoinPhases)
    BY <1>19, Zenon DEF JoinFails
  <2>5. /\ masters' = masters /\ first' = first /\ runs' = runs
        /\ clean' = clean /\ disturbed' \in BOOLEAN
        /\ todo' \in {todo, todo \ {h}}
        /\ tried' \in [Hosts -> 0 .. Tries - 1]
        /\ gaveUp' \subseteq masters \ todo'
        /\ todo' # {} => pc' = pc
        /\ todo' = {} => pc' = "idle" /\ gaveUp' = {}
    BY <2>1, <2>4, RetryType, Zenon
  <2> QED
    BY <1>0, <2>1, <2>2, <2>3, <2>5, JoinToType DEF TypeOK, Tasks
<1> QED
  BY <1>1, <1>2, <1>4, <1>5, <1>6, <1>7, <1>8, <1>10, <1>11, <1>12, <1>13, <1>14, <1>15, <1>16,
     <1>17, <1>18, <1>19 DEF Next, Setup

(* Every reachable state is well typed, and no more authorities are made   *)
(* than there were runs.                                                   *)
THEOREM TypeCorrect == Spec => []TypeOK
<1>1. TypeInv => TypeOK
  BY DEF TypeInv
<1> QED
  BY <1>1, TypeInit, TypeStep, PTL DEF Spec

-----------------------------------------------------------------------------
(* One authority.  No API server runs before the first host's does, and    *)
(* the host in front is always one with a kubelet configuration once an    *)
(* API server runs: the initialisation, which makes an authority where     *)
(* there is none, then has nothing to do.                                  *)

FirstServes ==
    /\ joined \subseteq manifests \cap kubeletConfig
    /\ manifests # {} => first \in manifests
    /\ first \in manifests => first \in kubeletConfig

InitAlone ==
    /\ pc \in {"sans", "regenerate"} => alreadyRun = kubeletConfig \cap masters
    /\ pc = "init" => todo = {first} /\ manifests \subseteq {first}

JoinGetsAuthority ==
    /\ pc \in {"parse", "join"} => secret.ca = ca[first]
    /\ pc = "join" => first \notin todo

AuthorityInv ==
    /\ FirstServes
    /\ InitAlone
    /\ JoinGetsAuthority
    /\ OneAuthority

LEMMA AuthorityInit == Init => AuthorityInv
  BY DEF Init, AuthorityInv, FirstServes, InitAlone, JoinGetsAuthority, OneAuthority

LEMMA AuthorityStep ==
  TypeInv /\ AuthorityInv /\ [Next]_vars => AuthorityInv'
<1> SUFFICES ASSUME TypeOK, AuthorityInv, [Next]_vars PROVE AuthorityInv'
  BY DEF TypeInv
<1>0. ca \in [Hosts -> 0 .. MaxRuns] /\ first \in masters /\ masters \subseteq Hosts
      /\ manifests \subseteq Hosts
  BY DEF TypeOK
<1> USE DEF AuthorityInv, FirstServes, InitAlone, JoinGetsAuthority, OneAuthority
<1>1. CASE UNCHANGED vars
  BY <1>1 DEF vars, inventoryVars, fileVars, clusterVars, factVars, loopVars, historyVars
<1>2. ASSUME NEW M \in SUBSET Hosts, NEW f \in Hosts, StartRun(M, f) PROVE AuthorityInv'
  BY <1>2 DEF StartRun, fileVars, loopVars
<1>3. CASE Interrupt
  BY <1>3 DEF Interrupt, Leave, inventoryVars, fileVars, clusterVars, factVars
<1>4. CASE Expire
  BY <1>4 DEF Expire, Idle, inventoryVars, fileVars, factVars, loopVars, historyVars
<1>5. ASSUME NEW h \in Hosts, RemoveNode(h) PROVE AuthorityInv'
  BY <1>0, <1>5 DEF RemoveNode, Wiped, Idle, factVars, loopVars, historyVars
<1>6. CASE CheckAlreadyRun
  BY <1>6 DEF CheckAlreadyRun, Goto, inventoryVars, fileVars, clusterVars, loopVars, historyVars
<1>7. CASE DropCertificates
  BY <1>7 DEF DropCertificates, Goto, inventoryVars, clusterVars, loopVars, historyVars
<1>8. CASE Regenerate
  <2>1. todo' = ToInit /\ ToInit \subseteq {first}
    BY <1>8 DEF Regenerate, Loop, ToInit
  <2>2. ToInit # {} => ToInit = {first} /\ first \notin alreadyRun
    BY DEF ToInit
  <2>3. first \notin alreadyRun => manifests = {}
    BY <1>0, <1>8 DEF Regenerate
  <2> QED
    BY <1>8, <2>1, <2>2, <2>3 DEF Regenerate, Loop, inventoryVars, clusterVars, factVars, historyVars
<1>9. CASE RegenerateFails
  BY <1>9 DEF RegenerateFails, Leave, inventoryVars, clusterVars, factVars
<1>10. CASE CreateToken
  BY <1>10 DEF CreateToken, Goto, inventoryVars, fileVars, clusterVars, factVars, loopVars, historyVars
<1>11. CASE CreateTokenFails
  BY <1>11 DEF CreateTokenFails, Leave, inventoryVars, fileVars, clusterVars, factVars
<1>12. CASE UploadCerts
  <2>1. secret'.ca = ca[first]
    BY <1>12 DEF UploadCerts
  <2> QED
    BY <1>12, <2>1 DEF UploadCerts, Goto, inventoryVars, fileVars, factVars, loopVars, historyVars
<1>13. CASE ParseKey
  <2>1. todo' = ToJoin /\ first \notin ToJoin
    BY <1>13 DEF ParseKey, Loop, ToJoin
  <2> QED
    BY <1>13, <2>1 DEF ParseKey, Loop, inventoryVars, fileVars, clusterVars, historyVars
<1>14. ASSUME NEW h \in Hosts, NEW k \in 0 .. InitPhases, pc = "init", h \in todo, InitTo(h, k),
              first' = first
       PROVE  /\ FirstServes'
              /\ manifests' \subseteq {first}
              /\ OneAuthority'
  <2>1. h = first
    BY <1>14
  <2>2. manifests' \subseteq {first} /\ (first \in manifests' => first \in kubeletConfig')
    BY <1>14, <2>1 DEF InitTo
  <2>3. joined' \subseteq manifests' \cap kubeletConfig'
    BY <1>14 DEF InitTo, InitPhases
  <2> QED
    BY <1>14, <2>1, <2>2, <2>3
<1>15. ASSUME NEW h \in Hosts, InitHost(h) PROVE AuthorityInv'
  <2>1. h \in todo /\ pc = "init" /\ todo' = todo \ {h} /\ first' = first
    BY <1>15 DEF InitHost, Turn, Served, inventoryVars
  <2>2. InitPhases \in 0 .. InitPhases /\ InitTo(h, InitPhases)
    BY <1>15 DEF InitHost, InitPhases
  <2>3. pc' \in {"token", "idle"}
    BY <1>15, <2>1 DEF InitHost, Served
  <2> QED
    BY <1>14, <2>1, <2>2, <2>3
<1>16. ASSUME NEW h \in Hosts, NEW k \in 0 .. InitPhases - 1, InitFails(h, k) PROVE AuthorityInv'
  <2>1. h \in todo /\ pc = "init" /\ first' = first
    BY <1>16 DEF InitFails, Turn, Retry, inventoryVars
  <2>2. k \in 0 .. InitPhases /\ InitTo(h, k)
    BY <1>16 DEF InitFails, InitPhases
  <2>3. pc' = "idle" \/ (pc' = pc /\ todo' = todo)
    BY <1>16, <2>1 DEF InitFails, Retry, inventoryVars
  <2> QED
    BY <1>14, <2>1, <2>2, <2>3
<1>17. ASSUME NEW h \in Hosts, NEW k \in 0 .. JoinPhases, pc = "join", h \in todo,
              k <= JoinReach, JoinTo(h, k), first' = first, secret' = secret
       PROVE  /\ FirstServes'
              /\ secret'.ca = ca'[first]
              /\ OneAuthority'
  <2>1. h # first
    BY <1>17
  <2>2. ca'[first] = ca[first] /\ \A g \in Hosts \ {h} : ca'[g] = ca[g]
    BY <1>0, <1>17, <2>1 DEF JoinTo
  <2>3. k >= 1 => first \in manifests /\ ca'[h] = secret.ca
    BY <1>0, <1>17 DEF JoinTo, JoinReach
  <2>4. manifests \ {h} \subseteq manifests' /\ manifests' \subseteq manifests \cup {h}
        /\ (h \in manifests' => k >= 2)
    BY <1>17 DEF JoinTo, Resets
  <2>5. first \in manifests' <=> first \in manifests
    BY <2>1, <2>4
  <2>6. joined' \subseteq manifests' \cap kubeletConfig'
    BY <1>17 DEF JoinTo, Resets, JoinPhases
  <2>7. first \in manifests' => first \in kubeletConfig'
    BY <1>17, <2>1, <2>5 DEF JoinTo
  <2>8. OneAuthority'
    BY <1>0, <1>17, <2>1, <2>2, <2>3, <2>4
  <2> QED
    BY <1>17, <2>2, <2>3, <2>4, <2>5, <2>6, <2>7, <2>8
<1>18. ASSUME NEW h \in Hosts, JoinHost(h) PROVE AuthorityInv'
  <2>1. h \in todo /\ pc = "join" /\ todo' = todo \ {h} /\ first' = first /\ secret' = secret
    BY <1>18 DEF JoinHost, Turn, Served, inventoryVars
  <2>2. JoinPhases \in 0 .. JoinPhases /\ JoinTo(h, JoinPhases) /\ JoinPhases <= JoinReach
    BY <1>18 DEF JoinHost, JoinPhases
  <2>3. pc' \in {"join", "done", "idle"}
    BY <1>18, <2>1 DEF JoinHost, Served
  <2> QED
    BY <1>17, <2>1, <2>2, <2>3
<1>19. ASSUME NEW h \in Hosts, NEW k \in 0 .. JoinPhases - 1, JoinFails(h, k) PROVE AuthorityInv'
  <2>1. h \in todo /\ pc = "join" /\ first' = first /\ secret' = secret
    BY <1>19 DEF JoinFails, Turn, Retry, inventoryVars
  <2>2. k \in 0 .. JoinPhases /\ JoinTo(h, k) /\ k <= JoinReach
    BY <1>19 DEF JoinFails, JoinPhases
  <2>3. pc' \in {"join", "idle"} /\ todo' \subseteq todo
    BY <1>19, <2>1 DEF JoinFails, Retry
  <2> QED
    BY <1>17, <2>1, <2>2, <2>3
<1> QED
  BY <1>1, <1>2, <1>3, <1>4, <1>5, <1>6, <1>7, <1>8, <1>9, <1>10, <1>11, <1>12, <1>13, <1>15,
     <1>16, <1>18, <1>19 DEF Next, Setup

(* All API servers trust one authority, whichever host of the cluster the  *)
(* operator puts in front and wherever runs fail.                          *)
THEOREM AuthorityUnique == Spec => []OneAuthority
<1>1. AuthorityInv => OneAuthority
  BY DEF AuthorityInv
<1>2. TypeInv /\ AuthorityInv /\ [Next]_vars => (TypeInv /\ AuthorityInv)'
  BY TypeStep, AuthorityStep
<1> QED
  BY <1>1, <1>2, TypeInit, AuthorityInit, PTL DEF Spec

-----------------------------------------------------------------------------
(* Certificates.  Once the old certificates have been made anew, the hosts *)
(* that were set up before name the whole group, because init and join     *)
(* only touch the others; and what a loop has left behind it names at      *)
(* least itself.                                                           *)
Covered(S) == \A h \in S : masters \subseteq sans[h]
SelfNamed(S) == \A h \in S : h \in sans[h]

CertInv ==
    /\ pc = "regenerate" => Covered(alreadyRun \ renew)
    /\ pc \in {"init", "join", "done"} \cup Between => Covered(alreadyRun)
    /\ pc \in Between => SelfNamed({first})
    /\ pc = "join" => SelfNamed(masters \ (todo \cup gaveUp))
    /\ pc = "done" => SelfNamed(masters)

LEMMA CertStep == TypeInv /\ CertInv /\ [Next]_vars => CertInv'
<1> SUFFICES ASSUME TypeInv, CertInv, [Next]_vars PROVE CertInv'
  OBVIOUS
<1>0. /\ masters \subseteq Hosts /\ first \in masters /\ alreadyRun \subseteq Hosts
      /\ sans \in [Hosts -> SUBSET Hosts]
      /\ todo \subseteq masters \ alreadyRun
      /\ pc \notin {"init", "join"} => gaveUp = {}
      /\ pc = "init" => todo = {first}
  BY DEF TypeInv, TypeOK, CasBound
<1>1. ASSUME pc' \in {"idle", "stat", "sans"} PROVE CertInv'
  BY <1>1 DEF CertInv, Between
<1>2. CASE UNCHANGED vars
  BY <1>2 DEF vars, inventoryVars, fileVars, factVars, loopVars, CertInv, Covered, SelfNamed
<1>3. CASE Interrupt \/ RegenerateFails \/ CreateTokenFails \/ CheckAlreadyRun
           \/ (\E M \in SUBSET Hosts, f \in Hosts : StartRun(M, f))
           \/ (\E h \in Hosts : RemoveNode(h))
  BY <1>1, <1>3 DEF Interrupt, RegenerateFails, CreateTokenFails, CheckAlreadyRun, StartRun,
                    RemoveNode, Leave, Goto
<1>4. CASE Expire
  BY <1>4 DEF Expire, inventoryVars, fileVars, factVars, loopVars, CertInv, Covered, SelfNamed
<1>5. CASE DropCertificates
  <2>1. /\ pc' = "regenerate" /\ masters' = masters /\ alreadyRun' = alreadyRun
        /\ renew' = {h \in alreadyRun : NeedRenew(h)}
        /\ sans' = [h \in Hosts |-> IF h \in renew' THEN {} ELSE sans[h]]
    BY <1>5 DEF DropCertificates, Goto, inventoryVars
  <2>2. \A h \in alreadyRun \ renew' : masters \subseteq sans'[h]
    BY <1>0, <2>1 DEF NeedRenew
  <2> QED
    BY <2>1, <2>2 DEF CertInv, Covered, Between
<1>6. CASE Regenerate
  <2>1. /\ pc = "regenerate" /\ masters' = masters /\ first' = first /\ alreadyRun' = alreadyRun
        /\ sans' = Renewed /\ \A h \in renew : ca[h] # 0
        /\ pc' = IF ToInit = {} THEN "token" ELSE "init"
    BY <1>6 DEF Regenerate, Loop, inventoryVars, factVars
  <2>2. \A h \in alreadyRun : masters \subseteq sans'[h]
    BY <1>0, <2>1 DEF CertInv, Covered, Renewed
  <2>3. ToInit = {} => first \in sans'[first]
    BY <1>0, <2>2 DEF ToInit
  <2> QED
    BY <2>1, <2>2, <2>3 DEF CertInv, Covered, SelfNamed, Between
<1>7. CASE CreateToken \/ UploadCerts
  <2>1. pc \in Between /\ pc' \in Between /\ UNCHANGED <<masters, first, alreadyRun, sans>>
    BY <1>7 DEF CreateToken, UploadCerts, Goto, Between, inventoryVars, fileVars, factVars
  <2> QED
    BY <2>1 DEF CertInv, Covered, SelfNamed, Between
<1>8. CASE ParseKey
  <2>1. /\ pc = "parse" /\ UNCHANGED <<masters, first, alreadyRun, sans, gaveUp>>
        /\ todo' = ToJoin /\ pc' = IF ToJoin = {} THEN "done" ELSE "join"
    BY <1>8 DEF ParseKey, Loop, inventoryVars, fileVars
  <2>2. Covered(alreadyRun) /\ first \in sans[first]
    BY <2>1 DEF CertInv, SelfNamed, Between
  <2>3. \A h \in masters \ ToJoin : h \in sans[h]
    BY <2>2 DEF ToJoin, Covered
  <2> QED
    BY <2>1, <2>2, <2>3 DEF CertInv, Covered, SelfNamed, Between
<1>9. ASSUME NEW h \in Hosts, InitHost(h) PROVE CertInv'
  <2>1. /\ h = first /\ first \notin alreadyRun /\ todo' = {}
        /\ UNCHANGED <<masters, first, alreadyRun>>
        /\ sans' = [sans EXCEPT ![h] = masters] /\ pc' \in {"token", "idle"}
    BY <1>0, <1>9 DEF InitHost, InitTo, InitPhases, Turn, Served, inventoryVars
  <2>2. Covered(alreadyRun)
    BY <1>9 DEF InitHost, CertInv
  <2>3. \A x \in alreadyRun : masters \subseteq sans'[x]
    BY <1>0, <2>1, <2>2 DEF Covered
  <2>4. first \in sans'[first]
    BY <1>0, <2>1
  <2> QED
    BY <2>1, <2>3, <2>4 DEF CertInv, Covered, SelfNamed, Between
<1>10. ASSUME NEW h \in Hosts, NEW k \in 0 .. InitPhases - 1, InitFails(h, k) PROVE CertInv'
  <2>1. /\ h = first /\ first \notin alreadyRun /\ pc = "init" /\ pc' \in {"init", "idle"}
        /\ UNCHANGED <<masters, first, alreadyRun>>
        /\ sans' \in {sans, [sans EXCEPT ![h] = masters]}
    BY <1>0, <1>10 DEF InitFails, InitTo, Turn, Retry, inventoryVars, factVars
  <2>2. \A x \in alreadyRun : masters \subseteq sans'[x]
    BY <1>0, <2>1 DEF CertInv, Covered
  <2> QED
    BY <2>1, <2>2 DEF CertInv, Covered, Between
<1>11. ASSUME NEW h \in todo, pc = "join", UNCHANGED <<masters, alreadyRun>>,
              NEW names \in SUBSET Hosts, sans' \in {sans, [sans EXCEPT ![h] = names]}
       PROVE  /\ Covered(alreadyRun)'
              /\ \A x \in masters \ (todo \cup gaveUp) : x \in sans'[x]
  <2>1. h \in Hosts /\ h \notin alreadyRun
    BY <1>0
  <2>2. \A x \in Hosts \ {h} : sans'[x] = sans[x]
    BY <1>0, <1>11, <2>1
  <2> QED
    BY <1>0, <1>11, <2>1, <2>2 DEF CertInv, Covered, SelfNamed
<1>12. ASSUME NEW h \in Hosts, JoinHost(h) PROVE CertInv'
  <2>1. /\ pc = "join" /\ h \in todo /\ UNCHANGED <<masters, first, alreadyRun>>
        /\ sans' = [sans EXCEPT ![h] = config \cup {h}]
        /\ todo' = todo \ {h}
        /\ todo' # {} => pc' = pc /\ gaveUp' = gaveUp
        /\ todo' = {} => pc' = IF gaveUp = {} THEN "done" ELSE "idle"
    BY <1>12 DEF JoinHost, JoinTo, JoinPhases, Turn, Served, inventoryVars, factVars
  <2>2. config \cup {h} \in SUBSET Hosts
    BY DEF TypeInv, TypeOK
  <2>3. /\ Covered(alreadyRun)'
        /\ \A x \in masters \ (todo \cup gaveUp) : x \in sans'[x]
    BY <1>11, <2>1, <2>2
  <2>4. h \in sans'[h]
    BY <1>0, <2>1
  <2>5. CASE todo' # {}
    BY <2>1, <2>3, <2>4, <2>5 DEF CertInv, SelfNamed, Between
  <2>6. CASE todo' = {} /\ gaveUp = {}
    BY <2>1, <2>3, <2>4, <2>6 DEF CertInv, SelfNamed, Between
  <2>7. CASE todo' = {} /\ gaveUp # {}
    BY <1>1, <2>1, <2>7
  <2> QED
    BY <2>5, <2>6, <2>7
<1>13. ASSUME NEW h \in Hosts, NEW k \in 0 .. JoinPhases - 1, JoinFails(h, k) PROVE CertInv'
  <2>1. /\ pc = "join" /\ h \in todo /\ UNCHANGED <<masters, first, alreadyRun>>
        /\ pc' = "idle" \/ (pc' = "join" /\ todo \cup gaveUp \subseteq todo' \cup gaveUp')
    BY <1>13 DEF JoinFails, Turn, Retry, inventoryVars, factVars
  <2>2. config \cup {h} \in SUBSET Hosts /\ {} \in SUBSET Hosts
    BY DEF TypeInv, TypeOK
  <2>3. \/ sans' \in {sans, [sans EXCEPT ![h] = config \cup {h}]}
        \/ sans' \in {sans, [sans EXCEPT ![h] = {}]}
    BY <1>13 DEF JoinFails, JoinTo
  <2>4. /\ Covered(alreadyRun)'
        /\ \A x \in masters \ (todo \cup gaveUp) : x \in sans'[x]
    BY <1>11, <2>1, <2>2, <2>3
  <2> QED
    BY <1>1, <2>1, <2>4 DEF CertInv, SelfNamed, Between
<1> QED
  BY <1>2, <1>3, <1>4, <1>5, <1>6, <1>7, <1>8, <1>9, <1>10, <1>12, <1>13 DEF Next, Setup

(* A run that ended without an error leaves every host that was set up     *)
(* before it with a certificate for the whole group, whatever an earlier   *)
(* run was doing when it was cut off, and every other host with one that   *)
(* names the host (kubeadm-setup.yml:86-123).                              *)
THEOREM CertificatesAreRight == Spec => []CertificatesCover
<1>1. Init => CertInv
  BY DEF Init, CertInv, Between
<1>2. CertInv => CertificatesCover
  BY DEF CertInv, Covered, SelfNamed, CertificatesCover
<1> QED
  BY <1>1, <1>2, CertStep, TypeInit, TypeStep, PTL DEF Spec
=============================================================================
