---------------------------- MODULE AwsInventory ----------------------------
(***************************************************************************)
(* contrib/aws_inventory/kubespray-aws-inventory.py, the dynamic inventory *)
(* of a cluster on EC2: one query per group, one after the other, while    *)
(* instances are started, stopped and tagged.  One action is one query.    *)
(*                                                                         *)
(* An instance is listed by a DNS name that its address determines; the    *)
(* public one changes whenever the instance is started again, and is ""    *)
(* (here NoAddress) when it has none.                                      *)
(***************************************************************************)
EXTENDS Naturals, FiniteSets

CONSTANTS
    Instances,      \* EC2 instances of the region
    Clustered,      \* those with the tag of CLUSTER_NAME
    Roles,          \* values of the tag kubespray-role: the groups it contains
    Addresses,
    NoAddress,
    MaxChanges      \* bound: changes to instances

AwsGroups == {"kube_control_plane", "kube_node", "etcd"}

ASSUME AwsAssumption ==
    /\ Clustered \subseteq Instances
    /\ Roles \subseteq SUBSET AwsGroups /\ Roles # {}
    /\ NoAddress \notin Addresses
    /\ MaxChanges \in Nat

VARIABLES
    ec2,        \* the instances
    public,     \* vpc_visibility = public: addresses change and may be missing
    scope,      \* all instances, or the Clustered ones if CLUSTER_NAME is set
    asked,      \* queries made so far, 3 at the end of a report
    hosts,      \* hosts[g]: the names listed for g, and entered in hostvars
    ever,       \* history: what was true at some instant of the report
    always,     \*   and at every instant
    changes     \* changes so far

reportVars == <<asked, hosts>>
settingVars == <<public, scope>>
awsVars == <<ec2, settingVars, reportVars, ever, always, changes>>

Instance == [running: BOOLEAN, role: Roles, address: Addresses \cup {NoAddress}]

AwsTypeOK ==
    /\ ec2 \in [Instances -> Instance]
    /\ public \in BOOLEAN
    /\ scope \in {Instances, Clustered}
    /\ asked \in 0 .. 3
    /\ hosts \in [AwsGroups -> SUBSET (Addresses \cup {NoAddress})]
    /\ changes \in 0 .. MaxChanges

-----------------------------------------------------------------------------
(* The filters of ec2.instances.filter.                                    *)
MatchesStopped(i, g) == i \in scope /\ g \in ec2[i].role
Matches(i, g) == i \in scope /\ ec2[i].running /\ g \in ec2[i].role

InGroup(g) == {ec2[i].address : i \in {x \in Instances : Matches(x, g)}}

(* What a report should say: which running hosts are in which groups.      *)
Current == UNION {{ec2[i].address} \X ec2[i].role : i \in {x \in scope : ec2[x].running}}

Order == <<"kube_control_plane", "kube_node", "etcd">>

(* search_tags begins.                                                     *)
BeginSearch ==
    /\ asked = 3
    /\ asked' = 0
    /\ hosts' = [g \in AwsGroups |-> {}]
    /\ ever' = Current /\ always' = Current
    /\ UNCHANGED <<ec2, settingVars, changes>>

(* One turn of its loop.                                                   *)
SearchGroup ==
    /\ asked < 3
    /\ hosts' = [hosts EXCEPT ![Order[asked + 1]] = InGroup(Order[asked + 1])]
    /\ asked' = asked + 1
    /\ UNCHANGED <<ec2, settingVars, ever, always, changes>>

-----------------------------------------------------------------------------
(* EC2.                                                                    *)

Change(i, new) ==
    /\ changes < MaxChanges /\ changes' = changes + 1
    /\ ec2' = [ec2 EXCEPT ![i] = new]
    /\ UNCHANGED <<settingVars, reportVars>>
    /\ ever' = ever \cup Current'
    /\ always' = always \cap Current'

Stop(i) ==
    /\ ec2[i].running
    /\ Change(i, [ec2[i] EXCEPT !.running = FALSE, !.address = IF public THEN NoAddress ELSE @])

InUseByOther(i) == {ec2[j].address : j \in Instances \ {i}}

Start(i) ==
    /\ ~ec2[i].running
    /\ \E a \in IF public THEN {NoAddress} \cup (Addresses \ InUseByOther(i)) ELSE {ec2[i].address} :
          Change(i, [ec2[i] EXCEPT !.running = TRUE, !.address = a])

Retag(i, r) ==
    /\ ec2[i].role # r
    /\ Change(i, [ec2[i] EXCEPT !.role = r])

AwsIdle ==
    /\ asked = 3
    /\ hosts = [g \in AwsGroups |-> {}]
    /\ ever = {} /\ always = {}
    /\ changes = 0

AwsInit ==
    /\ public \in BOOLEAN
    /\ scope \in {Instances, Clustered}
    /\ ec2 \in [Instances -> {x \in Instance : (x.address = NoAddress) = (public /\ ~x.running)}]
    /\ \A i, j \in Instances : ec2[i].address = ec2[j].address => i = j \/ ec2[i].address = NoAddress
    /\ AwsIdle

AwsNext ==
    \/ BeginSearch \/ SearchGroup
    \/ \E i \in Instances : Stop(i) \/ Start(i) \/ \E r \in Roles : Retag(i, r)

AwsSpec == AwsInit /\ [][AwsNext]_awsVars

-----------------------------------------------------------------------------
(* Properties.                                                             *)

(* Although its queries are made at different moments (line 38), a report  *)
(* never says of a host what was true at no moment of it, and always says  *)
(* what was true at every moment of it.                                    *)
AwsReport ==
    LET said == UNION {hosts[g] \X {g} : g \in AwsGroups}
    IN  /\ said \subseteq ever
        /\ asked = 3 => always \subseteq said
=============================================================================
