---------------------------- MODULE ControlPlane ----------------------------
(***************************************************************************)
(* The control-plane play of cluster.yml (the role                         *)
(* kubernetes/control-plane: kubeadm-setup.yml, kubeadm-secondary.yml): the *)
(* first host of the group is initialised, the others join it.  Which      *)
(* hosts need either is read off one file, /var/lib/kubelet/config.yaml,   *)
(* at the start of the run, while kubeadm writes that file long before it  *)
(* has finished.                                                           *)
(*                                                                         *)
(* kubeadm is not part of the repository: its init, join and reset are     *)
(* modelled by their phases, an attempt that fails leaves what the phases  *)
(* it reached have done.  The etcd cluster below the API servers is taken  *)
(* to be up (EtcdRole), and all API servers share it.                      *)
(***************************************************************************)
EXTENDS Naturals, FiniteSets

CONSTANTS
    Hosts,
    Tries,      \* attempts at a kubeadm command: 1 + retries
    MaxRuns     \* bound: runs of the playbook

ASSUME ControlPlaneAssumption ==
    /\ IsFiniteSet(Hosts)
    /\ Tries \in Nat \ {0}
    /\ MaxRuns \in Nat

VARIABLES
    masters,        \* groups['kube_control_plane']
    first,          \* its first host
    kubeletConfig,  \* hosts with /var/lib/kubelet/config.yaml
    ca,             \* ca[h]: the certificate authority in h's kube_cert_dir, 0 for none
    sans,           \* sans[h]: the hosts apiserver.crt of h names, {} without one
    manifests,      \* hosts with static pod manifests: an API server runs
    joined,         \* hosts on which kubeadm init or join has run to its end
    config,         \* the certificate SANs in ConfigMap kubeadm-config, {} without one
    clusterInfo,    \* ConfigMap cluster-info, which discovery by token reads
    secret,         \* Secret kubeadm-certs: the authority in it and its key
    cas,            \* authorities made so far
    pc,             \* the task the run is at
    alreadyRun,     \* hosts with kubeadm_already_run.stat.exists
    renew,          \* hosts whose apiserver_sans_check has changed
    certKey,        \* the kubeadm_certificate_key fact
    todo,           \* hosts the init or join task still has to do
    tried,          \* attempts at each host that have failed
    gaveUp,         \* hosts of the task on which all attempts have failed
    runs,           \* runs so far
    clean,          \* no host of the group was half set up when the run began
    disturbed       \* the run was cut off, or kubeadm failed without a reason

inventoryVars == <<masters, first>>
fileVars == <<kubeletConfig, ca, sans, manifests>>
clusterVars == <<joined, config, clusterInfo, secret, cas>>
factVars == <<alreadyRun, renew, certKey>>
loopVars == <<todo, tried, gaveUp>>
historyVars == <<runs, clean, disturbed>>
vars == <<inventoryVars, fileVars, clusterVars, pc, factVars, loopVars, historyVars>>

Tasks == {"stat", "sans", "regenerate", "init", "token", "upload", "parse", "join"}

NoKey == "none"
Keys == {NoKey, "stale", "init", "upload"}
NoSecret == [ca |-> 0, key |-> NoKey]

TypeOK ==
    /\ masters \subseteq Hosts /\ first \in masters
    /\ kubeletConfig \subseteq Hosts /\ manifests \subseteq Hosts
    /\ joined \subseteq Hosts /\ config \subseteq Hosts /\ alreadyRun \subseteq Hosts
    /\ ca \in [Hosts -> 0 .. MaxRuns]
    /\ sans \in [Hosts -> SUBSET Hosts]
    /\ clusterInfo \in BOOLEAN
    /\ secret \in [ca : 0 .. MaxRuns, key : Keys]
    /\ cas \in 0 .. MaxRuns
    /\ pc \in Tasks \cup {"idle", "done"}
    /\ renew \subseteq alreadyRun
    /\ certKey \in Keys
    /\ todo \subseteq masters \ alreadyRun
    /\ todo # {} <=> pc \in {"init", "join"}
    /\ tried \in [Hosts -> 0 .. Tries - 1]
    /\ gaveUp \subseteq masters \ todo
    /\ runs \in 0 .. MaxRuns
    /\ clean \in BOOLEAN /\ disturbed \in BOOLEAN

Untried == [h \in Hosts |-> 0]

Init ==
    /\ masters \in SUBSET Hosts /\ first \in masters
    /\ kubeletConfig = {} /\ manifests = {} /\ joined = {} /\ config = {}
    /\ ca = [h \in Hosts |-> 0] /\ sans = [h \in Hosts |-> {}]
    /\ clusterInfo = FALSE /\ secret = NoSecret /\ cas = 0
    /\ pc = "idle"
    /\ alreadyRun = {} /\ renew = {} /\ certKey = NoKey
    /\ todo = {} /\ tried = Untried /\ gaveUp = {}
    /\ runs = 0 /\ clean = TRUE /\ disturbed = FALSE

-----------------------------------------------------------------------------
(* Runs and the operator.                                                  *)

Idle == pc \in {"idle", "done"}

Leave(end, upset) ==
    /\ pc' = end
    /\ todo' = {} /\ tried' = Untried /\ gaveUp' = {}
    /\ disturbed' = (disturbed \/ upset)
    /\ UNCHANGED <<inventoryVars, runs, clean>>

Goto(t) == pc' = t /\ UNCHANGED <<inventoryVars, historyVars>>

(* Start the loop of task t over the hosts S, or go on with the task       *)
(* behind it.                                                              *)
Loop(t, S, behind) ==
    /\ pc' = IF S = {} THEN behind ELSE t
    /\ todo' = S
    /\ UNCHANGED <<inventoryVars, tried, gaveUp, historyVars>>

(* The loop is done with host h.  A host on which the task has failed ends *)
(* the play, when the others have had their turn (any_errors_fatal).       *)
Served(h, behind) ==
    /\ todo' = todo \ {h}
    /\ tried' = [tried EXCEPT ![h] = 0]
    /\ IF todo' # {} THEN UNCHANGED <<pc, gaveUp>>
       ELSE /\ pc' = IF gaveUp = {} THEN behind ELSE "idle"
            /\ gaveUp' = {}
    /\ UNCHANGED <<inventoryVars, historyVars>>

(* The operator appends hosts M to the group, or puts another host f in    *)
(* front, which must be one of the cluster (docs/nodes.md:5, :109), and    *)
(* runs cluster.yml.  The facts and the certificate key of an earlier run  *)
(* are lost.                                                               *)
StartRun(M, f) ==
    /\ Idle
    /\ runs < MaxRuns
    /\ masters' = masters \cup M
    /\ f = first \/ f \in masters \cap joined
    /\ first' = f
    /\ pc' = "stat"
    /\ runs' = runs + 1
    /\ clean' = (kubeletConfig \cap masters' \subseteq joined)
    /\ disturbed' = FALSE
    /\ secret' = IF secret = NoSecret THEN secret ELSE [secret EXCEPT !.key = "stale"]
    /\ alreadyRun' = {} /\ renew' = {} /\ certKey' = NoKey
    /\ UNCHANGED <<fileVars, joined, config, clusterInfo, cas, loopVars>>

Interrupt ==
    /\ ~Idle
    /\ Leave("idle", TRUE)
    /\ UNCHANGED <<fileVars, clusterVars, factVars>>

(* The secret with the certificates lives for two hours.                   *)
Expire ==
    /\ Idle
    /\ secret # NoSecret
    /\ secret' = NoSecret
    /\ UNCHANGED <<inventoryVars, fileVars, joined, config, clusterInfo, cas, pc, factVars, loopVars, historyVars>>

(* kubeadm reset: the files of host h are gone.                            *)
Wiped(h) ==
    /\ kubeletConfig' = kubeletConfig \ {h}
    /\ manifests' = manifests \ {h}
    /\ ca' = [ca EXCEPT ![h] = 0]
    /\ sans' = [sans EXCEPT ![h] = {}]
    /\ joined' = joined \ {h}

(* remove-node.yml on a host behind the first one; the operator may leave  *)
(* it in the inventory.                                                    *)
RemoveNode(h) ==
    /\ Idle
    /\ first \in manifests
    /\ h \in masters \ {first}
    /\ Wiped(h)
    /\ masters' \in {masters, masters \ {h}}
    /\ pc' = "idle"
    /\ UNCHANGED <<first, config, clusterInfo, secret, cas, factVars, loopVars, historyVars>>

-----------------------------------------------------------------------------
(* kubeadm-setup.yml                                                       *)

(* "Check if kubeadm has already run".                                     *)
CheckAlreadyRun ==
    /\ pc = "stat"
    /\ alreadyRun' = kubeletConfig \cap masters
    /\ Goto("sans")
    /\ UNCHANGED <<fileVars, clusterVars, renew, certKey, loopVars>>

(* Mutant: nothing to check, nothing to renew.                             *)
NeedRenewExisting(h) == sans[h] # {} /\ ~(masters \subseteq sans[h])

(* "Check if apiserver.crt contains all needed SANs": a certificate that   *)
(* is not there matches none of them.                                      *)
NeedRenew(h) == ~(masters \subseteq sans[h])

(* The check and "regenerate apiserver cert 1/2", which deletes the old    *)
(* certificate and key.                                                    *)
DropCertificates ==
    /\ pc = "sans"
    /\ renew' = {h \in alreadyRun : NeedRenew(h)}
    /\ sans' = [h \in Hosts |-> IF h \in renew' THEN {} ELSE sans[h]]
    /\ Goto("regenerate")
    /\ UNCHANGED <<kubeletConfig, ca, manifests, clusterVars, alreadyRun, certKey, loopVars>>

(* Mutant: every host without the file is initialised.                     *)
ToInitAll == masters \ alreadyRun

(* "Initialize first master" is skipped on every other host.               *)
ToInit == {h \in masters : h = first /\ h \notin alreadyRun}

(* "regenerate apiserver cert 2/2": kubeadm init phase certs apiserver,    *)
(* with the authority on the host.                                         *)
Renewed == [h \in Hosts |-> IF h \in renew /\ ca[h] # 0 THEN masters ELSE sans[h]]

Regenerate ==
    /\ pc = "regenerate"
    /\ \A h \in renew : ca[h] # 0
    /\ sans' = Renewed
    /\ Loop("init", ToInit, "token")
    /\ UNCHANGED <<kubeletConfig, ca, manifests, clusterVars, factVars>>

RegenerateFails ==
    /\ pc = "regenerate"
    /\ \E h \in renew : ca[h] = 0
    /\ sans' = Renewed
    /\ Leave("idle", FALSE)
    /\ UNCHANGED <<kubeletConfig, ca, manifests, clusterVars, factVars>>

(* The phases of kubeadm init: 1 kubelet-start, 2 certs, 3 kubeconfig and  *)
(* control-plane, 4 upload-config, 5 upload-certs, 6 bootstrap-token and   *)
(* what follows.  An authority that is there is used again.                *)
InitPhases == 6

InitTo(h, k) ==
    /\ kubeletConfig' = IF k >= 1 THEN kubeletConfig \cup {h} ELSE kubeletConfig
    /\ cas' = IF k >= 2 /\ ca[h] = 0 THEN cas + 1 ELSE cas
    /\ ca' = IF k >= 2 /\ ca[h] = 0 THEN [ca EXCEPT ![h] = cas'] ELSE ca
    /\ sans' = IF k >= 2 THEN [sans EXCEPT ![h] = masters] ELSE sans
    /\ manifests' = IF k >= 3 THEN manifests \cup {h} ELSE manifests
    /\ config' = IF k >= 4 THEN masters ELSE config
    /\ secret' = IF k >= 5 THEN [ca |-> ca'[h], key |-> "init"] ELSE secret
    /\ clusterInfo' = (clusterInfo \/ k >= 6)
    /\ joined' = IF k >= 6 THEN joined \cup {h} ELSE joined

(* Attempts at one host follow each other.                                 *)
Turn(h) == h \in todo /\ \A g \in todo \ {h} : tried[g] = 0

(* "Initialize first master" and "set kubeadm certificate key".            *)
InitHost(h) ==
    /\ pc = "init" /\ Turn(h)
    /\ InitTo(h, InitPhases)
    /\ certKey' = "init"
    /\ Served(h, "token")
    /\ UNCHANGED <<alreadyRun, renew>>

(* One more attempt at host h, until there have been Tries of them.  An    *)
(* attempt that could have succeeded has failed for reasons outside the    *)
(* run.                                                                    *)
Retry(h, could) ==
    IF tried[h] + 1 < Tries
    THEN /\ tried' = [tried EXCEPT ![h] = @ + 1]
         /\ UNCHANGED <<inventoryVars, pc, todo, gaveUp, historyVars>>
    ELSE /\ todo' = todo \ {h}
         /\ tried' = [tried EXCEPT ![h] = 0]
         /\ pc' = IF todo' = {} THEN "idle" ELSE pc
         /\ gaveUp' = IF todo' = {} THEN {} ELSE gaveUp \cup {h}
         /\ disturbed' = (disturbed \/ could)
         /\ UNCHANGED <<inventoryVars, runs, clean>>

InitFails(h, k) ==
    /\ pc = "init" /\ Turn(h)
    /\ k < InitPhases
    /\ InitTo(h, k)
    /\ Retry(h, TRUE)
    /\ UNCHANGED factVars

(* "Create kubeadm token for joining nodes", by the API server of the      *)
(* first host.                                                             *)
CreateToken ==
    /\ pc = "token"
    /\ first \in manifests
    /\ Goto("upload")
    /\ UNCHANGED <<fileVars, clusterVars, factVars, loopVars>>

CreateTokenFails ==
    /\ pc = "token"
    /\ first \notin manifests
    /\ Leave("idle", FALSE)
    /\ UNCHANGED <<fileVars, clusterVars, factVars>>

-----------------------------------------------------------------------------
(* kubeadm-secondary.yml                                                   *)

(* "Upload certificates so they are fresh and not expired", under a new    *)
(* key, in every run.                                                      *)
UploadCerts ==
    /\ pc = "upload"
    /\ secret' = [ca |-> ca[first], key |-> "upload"]
    /\ Goto("parse")
    /\ UNCHANGED <<fileVars, joined, config, clusterInfo, cas, factVars, loopVars>>

(* Mutant: what the task's name says.                                      *)
ParsedKeyIfNotSet == IF certKey = NoKey THEN "upload" ELSE certKey

(* "Parse certificate key if not set": it is set whether or not it was.    *)
ParsedKey == "upload"

(* Mutant: the others join whether or not they have.                       *)
ToJoinAll == masters \ {first}

(* Mutant: a host with an API server has joined.                           *)
ToJoinServing == {h \in masters \ alreadyRun : h # first /\ h \notin manifests}

(* The hosts "Joining control plane node to the cluster." is for.          *)
ToJoin == {h \in masters \ alreadyRun : h # first}

(* Key, configuration and the wait for the first API server.               *)
ParseKey ==
    /\ pc = "parse"
    /\ first \in manifests
    /\ certKey' = ParsedKey
    /\ Loop("join", ToJoin, "done")
    /\ UNCHANGED <<fileVars, clusterVars, alreadyRun, renew>>

(* The phases of kubeadm join: 1 certificates, 2 kubeconfig and            *)
(* control-plane, 3 kubelet-start, 4 control-plane-join.  It gets no       *)
(* further than what it finds in the cluster.                              *)
JoinPhases == 4

JoinReach ==
    IF first \in manifests /\ clusterInfo /\ config # {} /\ secret.key = certKey
    THEN JoinPhases ELSE 0

(* An attempt on a host with an API server manifest resets the host first. *)
Resets(h) == h \in manifests

JoinTo(h, k) ==
    LET rest(S) == IF Resets(h) THEN S \ {h} ELSE S
        upTo(p, S) == IF k >= p THEN S \cup {h} ELSE rest(S)
    IN  /\ ca' = IF k >= 1 THEN [ca EXCEPT ![h] = secret.ca]
                 ELSE IF Resets(h) THEN [ca EXCEPT ![h] = 0] ELSE ca
        /\ sans' = IF k >= 1 THEN [sans EXCEPT ![h] = config \cup {h}]
                   ELSE IF Resets(h) THEN [sans EXCEPT ![h] = {}] ELSE sans
        /\ manifests' = upTo(2, manifests)
        /\ kubeletConfig' = upTo(3, kubeletConfig)
        /\ joined' = upTo(4, joined)

(* throttle: 1 -- one host at a time.                                      *)
JoinHost(h) ==
    /\ pc = "join" /\ Turn(h)
    /\ JoinReach = JoinPhases
    /\ JoinTo(h, JoinPhases)
    /\ Served(h, "done")
    /\ UNCHANGED <<config, clusterInfo, secret, cas, factVars>>

JoinFails(h, k) ==
    /\ pc = "join" /\ Turn(h)
    /\ k < JoinPhases /\ k <= JoinReach
    /\ JoinTo(h, k)
    /\ Retry(h, JoinReach = JoinPhases)
    /\ UNCHANGED <<config, clusterInfo, secret, cas, factVars>>

-----------------------------------------------------------------------------
Setup ==
    \/ CheckAlreadyRun \/ DropCertificates \/ Regenerate \/ RegenerateFails
    \/ CreateToken \/ CreateTokenFails \/ UploadCerts \/ ParseKey
    \/ \E h \in Hosts :
          \/ InitHost(h) \/ JoinHost(h)
          \/ \E k \in 0 .. InitPhases - 1 : InitFails(h, k)
          \/ \E k \in 0 .. JoinPhases - 1 : JoinFails(h, k)

Next ==
    \/ Setup \/ Interrupt \/ Expire
    \/ \E M \in SUBSET Hosts, f \in Hosts : StartRun(M, f)
    \/ \E h \in Hosts : RemoveNode(h)

Spec == Init /\ [][Next]_vars

(* Ansible goes on to the next task, and gives up after Tries attempts.    *)
FairSpec == Spec /\ WF_vars(Setup)

-----------------------------------------------------------------------------
(* All API servers trust one authority: nothing initialises a second       *)
(* cluster on top of the first one's database (kubeadm-setup.yml:137),     *)
(* whichever host the operator puts in front.                              *)
OneAuthority ==
    \A g, h \in manifests : ca[g] = ca[h]

(* A run only ever resets a host that has not finished joining: no set-up  *)
(* step takes a member out (kubeadm-secondary.yml:54, :68).                *)
ResetKeepsMembers ==
    [][~Idle => joined \subseteq joined']_vars

(* A run that began with no host half set up and ended without an error    *)
(* has every host of the group in the cluster, retries included.           *)
DoneMeansJoined ==
    pc = "done" /\ clean => masters \subseteq joined

(* A run that ended without an error leaves every host that was set up     *)
(* before it with a certificate for the whole group, whatever an earlier   *)
(* run was doing when it was cut off; a new host's names at least itself   *)
(* (kubeadm-setup.yml:86-123).                                             *)
CertificatesCover ==
    pc = "done" =>
        /\ \A h \in alreadyRun : masters \subseteq sans[h]
        /\ \A h \in masters : h \in sans[h]

(* A run that finds no half set-up host and is not disturbed gets to its   *)
(* end: the key, the token and the secret of the run fit, whatever is left *)
(* of earlier ones.                                                        *)
SetupCompletes ==
    pc = "stat" /\ clean ~> pc = "done" \/ disturbed

(* What "kubeadm | Check if kubeadm has already run" (kubeadm-setup.yml:13) *)
(* takes the file for: where it is, there is nothing left to do.           *)
DoneMeansInCluster ==
    pc = "done" => masters \subseteq joined
=============================================================================
