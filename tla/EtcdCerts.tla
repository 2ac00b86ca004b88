------------------------------ MODULE EtcdCerts ------------------------------
(***************************************************************************)
(* The certificates of etcd (roles/etcd/tasks/check_certs.yml and          *)
(* gen_certs_script.yml, in both plays of cluster.yml and in scale.yml):   *)
(* the first host of the group makes them, for itself and for all others,  *)
(* and what is in its directory is the reference for every directory.  A   *)
(* new authority is made whenever that host has no key of one.             *)
(*                                                                         *)
(* A pair is a certificate with its key.  member[h] stands for the four    *)
(* files of an etcd host, member-h and admin-h, which are made and copied  *)
(* together, node[n] for the two of a Kubernetes host.                     *)
(***************************************************************************)
EXTENDS Naturals, Sequences, FiniteSets, Functions

CONSTANTS
    Hosts,
    Nodes,          \* those in k8s_cluster
    Founders,       \* the etcd group of the first run, a sequence
    Limits,         \* hosts that a run may be limited to
    MaxRuns,        \* bound: runs of a playbook
    MaxCuts,        \* bound: runs that are cut off
    MaxLost         \* bound: hosts removed or replaced

ASSUME CertsAssumption ==
    /\ IsFiniteSet(Hosts)
    /\ Nodes \subseteq Hosts
    /\ Founders \in Seq(Hosts) /\ Founders # <<>>
    /\ \A i, j \in DOMAIN Founders : Founders[i] = Founders[j] => i = j
    /\ Limits \subseteq SUBSET Hosts
    /\ {MaxRuns, MaxCuts, MaxLost} \subseteq Nat

VARIABLES
    group,          \* groups['etcd'], in its order
    force,          \* force_etcd_cert_refresh
    dir,            \* dir[h]: etcd_cert_dir of h
    scripts,        \* hosts with make-ssl-etcd.sh and openssl.conf
    launched,       \* the authority and pair a running server was started with
    pc,             \* the task the run is at
    play,           \* "etcd" or "k8s"
    limit,          \* --limit
    seen,           \* etcdcert_master: the first host's directory when checked
    requires,       \* hosts with etcd_member_requires_sync
    sync,           \* hosts with sync_certs
    changed,        \* hosts with etcd_secret_changed
    notified,       \* hosts with the handler that sets it pending
    made,           \* pairs are numbered by the generation that made them
    cas,            \* authorities that have left the directory they were made in
    ready,          \* history: etcd hosts of a run that ended well, and not lost since
    runs, cuts, lost

operatorVars == <<group, force, limit, runs, cuts, lost, ready>>
factVars == <<seen, requires, sync, changed, notified>>
certVars == <<dir, scripts, made, cas>>
vars == <<operatorVars, factVars, certVars, launched, pc, play>>

First == group[1]
EtcdHosts == Range(group)

Absent == [by |-> 0, no |-> 0]
Torn(no) == [by |-> 0, no |-> no]   \* a certificate with the key of another
Pair == [by : Nat, no : Nat]

Directory == [ca : Nat, key : Nat, member : [Hosts -> Pair], node : [Nodes -> Pair]]
NoDirectory == [ca |-> 0, key |-> 0, member |-> [h \in Hosts |-> Absent],
                node |-> [n \in Nodes |-> Absent]]
Stopped == [ca |-> 0, pair |-> Absent]

Tasks == {"check", "generate", "members", "nodes", "tar", "configure", "restart", "end"}

TypeOK ==
    /\ group \in Seq(Hosts) /\ group # <<>>
    /\ \A i, j \in DOMAIN group : group[i] = group[j] => i = j
    /\ force \in BOOLEAN
    /\ dir \in [Hosts -> Directory]
    /\ scripts \subseteq Hosts
    /\ launched \in [Hosts -> [ca : Nat, pair : Pair]]
    /\ pc \in Tasks \cup {"idle", "done", "failed", "cut"}
    /\ play \in {"etcd", "k8s"}
    /\ limit \subseteq Hosts
    /\ seen \in Directory
    /\ requires \subseteq Hosts /\ sync \subseteq Hosts
    /\ changed \subseteq Hosts /\ notified \subseteq Hosts
    /\ made \in Nat /\ cas \in Nat
    /\ ready \subseteq Hosts
    /\ runs \in 0 .. MaxRuns /\ cuts \in 0 .. MaxCuts /\ lost \in 0 .. MaxLost

Init ==
    /\ group = Founders /\ force \in BOOLEAN
    /\ dir = [h \in Hosts |-> NoDirectory]
    /\ scripts = {} /\ launched = [h \in Hosts |-> Stopped]
    /\ pc = "idle" /\ play = "etcd" /\ limit = {}
    /\ seen = NoDirectory /\ requires = {} /\ sync = {} /\ changed = {} /\ notified = {}
    /\ made = 0 /\ cas = 0
    /\ ready = {} /\ runs = 0 /\ cuts = 0 /\ lost = 0

-----------------------------------------------------------------------------
(* The operator, between runs.                                             *)

Idle == pc \in {"idle", "done", "failed", "cut"}

(* docs/nodes.md:141: a new host comes to the end of the group; one that   *)
(* is a Kubernetes host already has to be removed first.                   *)
AddHost(h) ==
    /\ Idle /\ h \notin EtcdHosts \cup Nodes
    /\ group' = Append(group, h)
    /\ pc' = "idle"
    /\ UNCHANGED <<force, limit, runs, cuts, lost, ready, factVars, certVars, launched, play>>

(* The group without its i-th host.                                        *)
Without(i) == [j \in 1 .. Len(group) - 1 |-> IF j < i THEN group[j] ELSE group[j + 1]]

(* A host that has been set up may be put first (docs/nodes.md:11,         *)
(* docs/recover-control-plane.md:7).                                       *)
MoveFirst(i) ==
    /\ Idle /\ i \in DOMAIN group \ {1} /\ group[i] \in ready
    /\ group' = [j \in DOMAIN group |-> IF j = 1 THEN group[i] ELSE Without(i)[j - 1]]
    /\ pc' = "idle"
    /\ UNCHANGED <<force, limit, runs, cuts, lost, ready, factVars, certVars, launched, play>>

Wiped(h) == [dir EXCEPT ![h] = NoDirectory]

Lose(i) ==
    /\ Idle /\ lost < MaxLost
    /\ Len(group) > 1 /\ i \in DOMAIN group /\ Without(i)[1] \in ready
    /\ lost' = lost + 1
    /\ ready' = ready \ {group[i]}
    /\ scripts' = scripts \ {group[i]}
    /\ launched' = [launched EXCEPT ![group[i]] = Stopped]
    /\ pc' = "idle"
    /\ UNCHANGED <<force, limit, runs, cuts, factVars, made, cas, play>>

(* remove-node.yml, whose reset deletes the directory and the script.      *)
RemoveHost(i) ==
    /\ Lose(i)
    /\ group' = Without(i)
    /\ dir' = Wiped(group[i])

(* A broken host is replaced under its name, behind the surviving ones;    *)
(* recover-control-plane.yml deletes its certificates on the first host.   *)
RecoverHost(i) ==
    LET h == group[i]
        first == Without(i)[1]
    IN  /\ Lose(i)
        /\ group' = Append(Without(i), h)
        /\ dir' = [Wiped(h) EXCEPT
               ![first].member = [@ EXCEPT ![h] = Absent],
               ![first].node = [n \in Nodes |-> IF n = h THEN Absent ELSE @[n]]]

(* cluster.yml, or scale.yml with a limit in which no etcd host is.  A     *)
(* play without hosts is skipped.                                          *)
PlayHosts == limit \cap (IF play = "etcd" THEN EtcdHosts ELSE Nodes)

StartRun(l) ==
    /\ Idle /\ runs < MaxRuns
    /\ runs' = runs + 1
    /\ limit' = l
    /\ play' = IF l \cap EtcdHosts # {} THEN "etcd" ELSE "k8s"
    /\ l \cap (EtcdHosts \cup Nodes) # {}
    /\ pc' = "check"
    /\ UNCHANGED <<group, force, cuts, lost, ready, factVars, certVars, launched>>

Goto(t) == pc' = t /\ UNCHANGED <<operatorVars, play>>

(* Facts and pending handlers do not outlive the run.                      *)
Forget == /\ seen' = NoDirectory
          /\ requires' = {} /\ sync' = {} /\ changed' = {} /\ notified' = {}

-----------------------------------------------------------------------------
(* check_certs.yml.                                                        *)

(* gen_master_certs and gen_node_certs: what is not on the first host, of  *)
(* which an earlier task has registered the files.                         *)
MembersToMakeWithCa(first) == {h \in EtcdHosts : force \/ first.ca = 0}
MembersToMake(first) == {h \in EtcdHosts : force \/ first.member[h] = Absent}
NodesToMake(first) == {n \in Nodes : force \/ first.node[n] = Absent}
GenMembers == MembersToMake(seen)
GenNodes == NodesToMake(seen)
GenCerts == force \/ seen.ca = 0 \/ GenMembers # {} \/ GenNodes # {}

(* A host's own pair and its authority must be those of the first host.    *)
(* (The result for Kubernetes hosts is not used: they are always synced.)  *)
RequiresSync(h, first) ==
    \/ dir[h].ca = 0 \/ dir[h].member[h] = Absent
    \/ dir[h].ca # first.ca \/ dir[h].member[h] # first.member[h]

(* etcd_member_requires_sync is never set back to false.                   *)
CheckCerts ==
    /\ pc = "check"
    /\ seen' = dir[First]
    /\ requires' = requires \cup {h \in PlayHosts \cap EtcdHosts : RequiresSync(h, dir[First])}
    /\ sync' = (sync \ PlayHosts) \cup
               (PlayHosts \cap (requires' \cup MembersToMake(dir[First]) \cup NodesToMake(dir[First])))
    /\ changed' = changed \ PlayHosts
    /\ Goto("generate")
    /\ UNCHANGED <<notified, certVars, launched>>

-----------------------------------------------------------------------------
(* gen_certs_script.yml.                                                   *)

Master == dir[First]
New(auth) == [by |-> auth, no |-> made + 1]

(* The script reuses the authority of which it finds the key, and fails if *)
(* it finds no certificate for it, or another one's.                       *)
Authority == IF Master.key = 0 THEN cas + 1 ELSE Master.key
CanSign == Master.key = 0 \/ Master.ca = Master.key

(* Tasks that run once do so for the first host of the play, which in that *)
(* of k8s_cluster may be any: only if it is the first etcd host are the    *)
(* configuration and the script written, and those of an earlier run are   *)
(* used otherwise.                                                         *)
Leader == IF play = "etcd" /\ First \in PlayHosts THEN First ELSE CHOOSE h \in PlayHosts : TRUE
WritesScript == GenCerts /\ Leader = First
HasScript == First \in scripts \cup (IF WritesScript THEN {First} ELSE {})

(* The first host's directory when the pairs of M and N are in place.      *)
Installed(M, N, auth) ==
    [ca |-> auth, key |-> auth,
     member |-> [h \in Hosts |-> IF h \in M THEN New(auth) ELSE Master.member[h]],
     node |-> [n \in Nodes |-> IF n \in N THEN New(auth) ELSE Master.node[n]]]

(* What the copies are of and where they go: the pairs of all members to   *)
(* the members that are out of step, the pairs of all nodes to all members *)
(* whatever sync_certs is, and to a Kubernetes host its own pair, packed   *)
(* with the authority's certificate.                                       *)
SyncedEtcd == (sync \cap PlayHosts \cap EtcdHosts) \ {First}
HasMembers == Master.ca # 0 /\ Master.key # 0 /\ \A g \in EtcdHosts : Master.member[g] # Absent
NodeCopies == (PlayHosts \cap EtcdHosts) \ {First}
HasNodes(S) == \A n \in S : Master.node[n] # Absent
TarTargetsSync == (sync \cap PlayHosts \cap Nodes) \ EtcdHosts
TarTargets == (PlayHosts \cap Nodes) \ EtcdHosts

(* slurp and tar fail if a file is missing, as the script does.            *)
Blocked ==
    \/ pc = "generate" /\ GenCerts /\ ~(HasScript /\ CanSign)
    \/ pc = "members" /\ SyncedEtcd # {} /\ ~HasMembers
    \/ pc = "nodes" /\ NodeCopies # {} /\ ~HasNodes(Nodes)
    \/ pc = "tar" /\ TarTargets # {} /\ ~(Master.ca # 0 /\ HasNodes(TarTargets))

TaskFails ==
    /\ Blocked
    /\ Goto("failed") /\ Forget
    /\ UNCHANGED <<certVars, launched>>

(* Only the host for which the script runs is notified.                    *)
Generate ==
    /\ pc = "generate" /\ GenCerts /\ ~Blocked
    /\ dir' = [dir EXCEPT ![First] = Installed(GenMembers, GenNodes, Authority)]
    /\ scripts' = scripts \cup (IF WritesScript THEN {First} ELSE {})
    /\ made' = made + 1
    /\ cas' = IF Master.key = 0 THEN cas + 1 ELSE cas
    /\ notified' = notified \cup {Leader}
    /\ Goto("members")
    /\ UNCHANGED <<seen, requires, sync, changed, launched>>

GenerateSkipped ==
    /\ pc = "generate" /\ ~GenCerts
    /\ Goto("members")
    /\ UNCHANGED <<factVars, certVars, launched>>

WithMembersNoKey(d) ==
    [d EXCEPT !.ca = Master.ca,
              !.member = [g \in Hosts |-> IF g \in EtcdHosts THEN Master.member[g] ELSE @[g]]]
WithMembers(d) ==
    [d EXCEPT !.ca = Master.ca, !.key = Master.key,
              !.member = [g \in Hosts |-> IF g \in EtcdHosts THEN Master.member[g] ELSE @[g]]]
WithNodes(d, S) == [d EXCEPT !.node = [n \in Nodes |-> IF n \in S THEN Master.node[n] ELSE @[n]]]

(* A task that writes to directories of some hosts.                        *)
Copy(new, next) ==
    /\ ~Blocked
    /\ dir' = [h \in Hosts |-> IF h \in DOMAIN new THEN new[h] ELSE dir[h]]
    /\ Goto(next)
    /\ UNCHANGED <<scripts, made, cas, factVars, launched>>

(* "Write etcd member and admin certs to other etcd nodes"                 *)
SyncMembers == pc = "members" /\ Copy([h \in SyncedEtcd |-> WithMembers(dir[h])], "nodes")

(* "Write node certs to other etcd nodes"                                  *)
SyncNodes == pc = "nodes" /\ Copy([h \in NodeCopies |-> WithNodes(dir[h], Nodes)], "tar")

(* "Copy certs on nodes"                                                   *)
CopyToNodes ==
    /\ pc = "tar"
    /\ Copy([h \in TarTargets |-> [WithNodes(dir[h], {h}) EXCEPT !.ca = Master.ca]],
            IF play = "etcd" THEN "configure" ELSE "end")

-----------------------------------------------------------------------------
(* The rest of the role, as far as it depends on certificates.             *)

Current(h) == [ca |-> dir[h].ca, pair |-> dir[h].member[h]]

(* configure.yml starts what does not run, and goes on if all members      *)
(* accept each other's certificates and the admin's.  A server reads its   *)
(* pair again for every connection, but its authority only when it starts. *)
Started == [h \in Hosts |-> IF h \in EtcdHosts /\ launched[h] = Stopped THEN Current(h) ELSE launched[h]]
Accepted == \A g, h \in EtcdHosts : dir[h].member[h].by = Started[g].ca /\ Started[g].ca # 0

Configure ==
    /\ pc = "configure"
    /\ launched' = Started
    /\ IF Accepted THEN Goto("restart") /\ UNCHANGED factVars ELSE Goto("failed") /\ Forget
    /\ UNCHANGED certVars

(* "Restart etcd if certs changed", by the fact: the handler that sets it  *)
(* runs behind this task.                                                  *)
RestartIfChanged ==
    /\ pc = "restart"
    /\ launched' = [h \in Hosts |-> IF h \in EtcdHosts \cap changed THEN Current(h) ELSE launched[h]]
    /\ Goto("end")
    /\ UNCHANGED <<factVars, certVars>>

(* The handlers run at the end of the play.                                *)
EndPlay ==
    /\ pc = "end"
    /\ IF play = "etcd" /\ limit \cap Nodes # {}
       THEN /\ pc' = "check" /\ play' = "k8s"
            /\ changed' = changed \cup notified /\ notified' = {}
            /\ UNCHANGED <<operatorVars, seen, requires, sync>>
       ELSE /\ pc' = "done"
            /\ ready' = IF EtcdHosts \subseteq limit THEN ready \cup EtcdHosts ELSE ready
            /\ Forget
            /\ UNCHANGED <<group, force, limit, runs, cuts, lost, play>>
    /\ UNCHANGED <<certVars, launched>>

-----------------------------------------------------------------------------
(* Runs that are cut off, by a lost connection or a host that goes down:   *)
(* between two tasks, or within one that moves or copies files.            *)

Cut == /\ cuts < MaxCuts /\ cuts' = cuts + 1
       /\ pc' = "cut"
       /\ Forget
       /\ UNCHANGED <<group, force, limit, runs, lost, ready, play, launched>>

Interrupt == ~Idle /\ Cut /\ UNCHANGED certVars

(* One file of a pair is new; one that does not differ is not written.     *)
Half(old, new) == IF old \in {Absent, new} THEN old ELSE Torn(new.no)

(* `mv *.pem` takes admin*, ca-key.pem, ca.pem, member* and node* in this  *)
(* order; the admin pairs, k of the two files of a new authority, the      *)
(* members M and the nodes N have been moved, and of the nodes H one file. *)
GenerateCut(k, M, N, H) ==
    LET auth == Authority
    IN  /\ GenCerts /\ ~Blocked
        /\ M # {} \/ N \cup H # {} => k = 2
        /\ N \cup H # {} => M = GenMembers
        /\ Master.key # 0 => k = 2
        /\ dir' = [dir EXCEPT ![First] =
               [ca     |-> IF k = 2 THEN auth ELSE Master.ca,
                key    |-> IF k > 0 THEN auth ELSE Master.key,
                member |-> [h \in Hosts |-> IF h \in M THEN New(auth)
                                            ELSE IF h \in GenMembers THEN Half(Master.member[h], New(auth))
                                            ELSE Master.member[h]],
                node   |-> [n \in Nodes |-> IF n \in N THEN New(auth)
                                            ELSE IF n \in H THEN Half(Master.node[n], New(auth))
                                            ELSE Master.node[n]]]]
        /\ scripts' = scripts \cup (IF WritesScript THEN {First} ELSE {})
        /\ made' = made + 1
        /\ cas' = IF Master.key = 0 /\ k > 0 THEN cas + 1 ELSE cas
        /\ Cut

(* Each host has come to its point of the loop over ca.pem, ca-key.pem and *)
(* the members in the order of the group.                                  *)
CopiedTo(d, point) ==
    [d EXCEPT !.ca = IF point >= 1 THEN Master.ca ELSE @,
              !.key = IF point >= 2 THEN Master.key ELSE @,
              !.member = [g \in Hosts |->
                  IF \E i \in DOMAIN group : group[i] = g /\ point >= 2 + 2 * i THEN Master.member[g]
                  ELSE IF \E i \in DOMAIN group : group[i] = g /\ point = 1 + 2 * i
                       THEN Half(@[g], Master.member[g])
                  ELSE @[g]]]

CutCopy(new) ==
    /\ ~Blocked
    /\ dir' = [h \in Hosts |-> IF h \in DOMAIN new THEN new[h] ELSE dir[h]]
    /\ UNCHANGED <<scripts, made, cas>>
    /\ Cut

SyncMembersCut(point) == CutCopy([h \in SyncedEtcd |-> CopiedTo(dir[h], point[h])])

(* Each host has the pairs of some nodes, and one file of one more.        *)
SyncNodesCut(whole, half) ==
    CutCopy([h \in NodeCopies |-> [dir[h] EXCEPT !.node = [n \in Nodes |->
            IF n \in whole[h] THEN Master.node[n]
            ELSE IF n \in half[h] THEN Half(@[n], Master.node[n]) ELSE @[n]]]])

CopyToNodesCut(unpacked, half) ==
    CutCopy([h \in unpacked |-> [dir[h] EXCEPT !.ca = Master.ca,
            !.node[h] = IF h \in half THEN Half(@, Master.node[h]) ELSE @]])

CutOff ==
    \/ Interrupt
    \/ /\ pc = "generate"
       /\ \E k \in 0 .. 2, M \in SUBSET GenMembers, N, H \in SUBSET GenNodes :
             Cardinality(H) <= 1 /\ N \cap H = {} /\ GenerateCut(k, M, N, H)
    \/ /\ pc = "members"
       /\ \E point \in [SyncedEtcd -> 1 .. 2 * Len(group) + 1] : SyncMembersCut(point)
    \/ /\ pc = "nodes"
       /\ \E whole, half \in [NodeCopies -> SUBSET Nodes] :
             (\A h \in NodeCopies : Cardinality(half[h]) <= 1) /\ SyncNodesCut(whole, half)
    \/ /\ pc = "tar"
       /\ \E unpacked \in SUBSET TarTargets : \E half \in SUBSET unpacked : CopyToNodesCut(unpacked, half)

Operate ==
    \/ \E h \in Hosts : AddHost(h)
    \/ \E i \in DOMAIN group : MoveFirst(i) \/ RemoveHost(i) \/ RecoverHost(i)
    \/ \E l \in Limits : StartRun(l)

Play ==
    \/ CheckCerts \/ Generate \/ GenerateSkipped \/ SyncMembers \/ SyncNodes \/ CopyToNodes
    \/ TaskFails \/ Configure \/ RestartIfChanged \/ EndPlay

Next == Operate \/ Play \/ CutOff

Spec == Init /\ [][Next]_vars

-----------------------------------------------------------------------------
(* Properties.                                                             *)

(* The authority is made once.  An operator who puts only hosts first that *)
(* a whole run has served never makes a second one, wherever runs are cut  *)
(* off, because the key comes to every etcd host before the certificates   *)
(* by which the next run sees that the host needs nothing                  *)
(* (gen_certs_script.yml:64).                                              *)
AuthorityMadeOnce == cas <= 1

(* At the end of a run that met no error its hosts hold whole pairs of one *)
(* authority, whatever earlier runs have left where: an etcd host its own  *)
(* pair (check_certs.yml:108), and a Kubernetes host its own, unless the   *)
(* first host had received one file only of that pair before it became the *)
(* first: check_certs.yml:88 looks for the files and does not read them.   *)
Holds(h, pair, auth) == dir[h].ca = auth /\ pair.by = auth /\ auth # 0

DoneMeansTrusted ==
    pc = "done" =>
        /\ \A h \in limit \cap EtcdHosts : Holds(h, dir[h].member[h], Master.ca)
        /\ \A n \in limit \cap (Nodes \ EtcdHosts) :
              \/ Holds(n, dir[n].node[n], Master.ca)
              \/ ~force /\ \E no \in 1 .. made : Master.node[n] = Torn(no)

(* Whatever is left of a run that was cut off, the next one goes through:  *)
(* it comes to no error but for the want of the script, or of the          *)
(* certificate that belongs to the authority's key, or for a pair of which *)
(* the first host has received one file only before it became the first.   *)
FailsOnlyForKey ==
    pc = "failed" =>
        \/ Master.key # Master.ca
        \/ First \notin scripts
        \/ ~force /\ \E h \in EtcdHosts, no \in 1 .. made : Master.member[h] = Torn(no)

(* "Restart etcd if certs changed" (roles/etcd/tasks/main.yml:48): behind  *)
(* that task no server of the play is left that was started with another   *)
(* pair or authority than its directory holds.                             *)
RestartedIfChanged ==
    pc = "end" /\ play = "etcd" =>
        \A h \in EtcdHosts \cap PlayHosts : launched[h] = Current(h)
=============================================================================
