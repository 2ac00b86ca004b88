# Verification of the cluster playbooks

The repository is the infrastructure of a Kubernetes platform: a kubespray tree
that builds and maintains the clusters (`prev/gitops/ansible/kubespray`), the
manifests and charts that are deployed on them, delivery templates, Terraform
resources and one small .NET service.  Its own core logic, the code that decides
something in several steps and on several machines and that leaves a cluster
behind when it is cut off half way, is in the playbooks and the scripts beside
them.  This directory models these, checks the models with TLC and proves
theorems about ten of the modules with TLAPS, the etcd cluster's first of all.

All paths below are relative to `prev/gitops/ansible/kubespray` unless they
start with another directory of the repository's top level (`fm/`, `prev/`,
`terraform/`).

1. [Inventory](#1-inventory)
2. [Modules and code](#2-modules-and-code)
3. [What the runs check](#3-what-the-runs-check)
4. [Disagreements with the documentation](#4-disagreements-with-the-documentation)
5. [Proofs](#5-proofs)
6. [Assumptions about code that is not in the repository](#6-assumptions-about-code-that-is-not-in-the-repository)
7. [Not modelled](#7-not-modelled)
8. [Plan](#8-plan)

## 1. Inventory

| component | state | operations | talks to |
|---|---|---|---|
| inventory builder, `contrib/inventory_builder/inventory.py` | the inventory file | add addresses, ranges and named hosts, delete, load | writes the groups every playbook reads |
| etcd role, `roles/etcd` | environment file, unit and data directory per host; facts of the run; the member list, which is etcd's | configure, start, join one member at a time, refresh, restart | `etcdctl` and systemd on every host; every other play needs the cluster |
| remove-node, `remove-node.yml`, `roles/remove-node`, `roles/reset` | the host being removed, the member ID it looked up | look up, remove, reset | `etcdctl` on the first host of the group, then the reset of another one |
| recovery, `recover-control-plane.yml`, `roles/recover_control_plane` | the `has_quorum` fact, `/tmp/snapshot.db` | assess, strike broken members, or snapshot, wipe, restore; then `cluster.yml` | etcd, and the etcd role behind it |
| control plane, `roles/kubernetes/control-plane` | kubelet configuration, certificates and static pods per host; ConfigMaps and the certificate Secret in the cluster; facts and retries of the run | renew certificates, `kubeadm init`, token, upload, `kubeadm join` | kubeadm on every host, API server of the first one |
| upgrade, `upgrade-cluster.yml`, `roles/upgrade` | versions, cordons and pods per node; the batch and its facts | ready and schedulable checks, cordon, drain, rescue, upgrade, uncordon | scheduler and administrator, who act on the same nodes meanwhile |
| etcd certificates, `roles/etcd/tasks/check_certs.yml`, `gen_certs_script.yml` | a directory of pairs per host, the authority's key among them; facts and handlers of the run | check, generate on the first host, copy to the others, restart | openssl on the first host; the servers, which load what is in the directory |
| terraform inventory, `contrib/terraform/terraform.py` | none; reads the state files | `--list`, `--hostfile`, `--host` | `terraform apply`, which writes the files it reads |
| AWS inventory, `contrib/aws_inventory` | none; asks EC2 | `--list` | EC2, where instances start, stop and get tags meanwhile |
| kube module, `library/kube.py` | none; the objects are the API server's | `present`, `latest`, `reloaded`, `stopped`, `absent`, repeated by `retries` | kubectl; other clients of the API server |
| OpenStack clean-up, `scripts/openstack-cleanup` | none; the resources are the cloud's | one pass over five kinds of resources, started by every pipeline | jobs that create and destroy in the same project |
| rules synchronisation, `prev/gitops/monitoring/kube-prometheus-stack/hack/sync_prometheus_rules.py` | the templates it writes | fetch, insert conditions and labels, write | the repositories it fetches from |
| worker join, download cache, host preparation, network plugins and applications | files of one host, some copied from another | see [7](#7-not-modelled) | |
| reference-data service, pipeline templates, ArgoCD applications, charts, Terraform resources | none of their own, or declarative | see [7](#7-not-modelled) | |

The parts meet through the inventory (groups and their order: `groups['etcd'][0]`
and `groups['kube_control_plane'][0]` do the work that is done once), through the
disks of the hosts (a later run starts from what an earlier one left), and
through the running cluster.  None of them keeps a record of how far a run got:
every run infers that from one file, one exit code or one flag.

What makes them hard:

* **Partial failure.**  A failed task ends the play on all hosts
  (`any_errors_fatal`), a lost connection ends it at any task, and registered
  facts and notified handlers go with it.  The next run must do the right thing
  with whatever is there.
* **Inference from stale or coarse evidence.**  `etcd_cluster_is_healthy` stands
  for "there is a cluster", `/var/lib/kubelet/config.yaml` for "kubeadm has
  already run", `spec.unschedulable` for "somebody else has cordoned this node",
  a count of healthy endpoints for "the cluster has a quorum".
* **Others move.**  systemd restarts etcd (`Restart=always`), etcd elects and
  refuses, the scheduler places pods, an administrator cordons nodes.
* **Order.**  Members must join one after the other, masters must be upgraded
  before workers, an authority must exist once.

What makes each component correct: the etcd role never founds a second cluster
beside one that serves, and brings every host in; removal takes out exactly the
host it was given; recovery never discards the last copy of the database, nor a
cluster that still serves; the control plane has one certificate authority and
no member is reset; the upgrade keeps capacity, order and the administrator's
cordons; the builder's inventory is one that `cluster.yml` accepts; there is one
etcd authority, and after a clean run every host holds whole pairs of it; the
reporting programs say nothing that was never true while they looked, and all
that was true throughout; a task of the kube module that succeeds has done what
it was asked for; the clean-up takes nothing young and leaves nothing behind;
every alert gets its own condition.

The hazards, each at its line and with the properties that address it, are
listed in `PROJECT.json`.

## 2. Modules and code

### The etcd cluster

`EtcdServer` is what the playbooks act on: per host the environment file
(`conf`, from `templates/etcd.env.j2`), the enabled unit, the process and the
cluster its data directory belongs to; per cluster the member list and the
members that have published their client URLs.  A cluster is named by the set of
hosts it was bootstrapped with, because etcd hashes exactly that list into the
cluster ID.  Its actions (`Launch`, `Publish`, `Crash`) and `AddMember`,
`RemoveMember` with the strict reconfiguration rules model etcd, see
[6](#6-assumptions-about-code-that-is-not-in-the-repository).

`EtcdRole` extends it by the role.  Ansible runs one task on all hosts before the
next one, so one action is one task (with its `_Fails` counterpart where it may
fail), and `pc` names the task the run is at:

| `pc` | action | code |
|---|---|---|
| `health` | `CheckHealth` | `configure.yml:2`, first health check |
| `config` | `WriteConfig` | `configure.yml:42`, `refresh_config.yml` |
| `enable`, `start` | `EnsureRunning`, `StartReturns`, `StartFails` | `configure.yml:64` |
| `wait` | `WaitHealthy`, `WaitFails` | `configure.yml:82` |
| `check` | `CheckMembers` | `configure.yml:122`, and the conditions of the loop at `:160` |
| `add` .. `joinstart` | `JoinAdd`, `JoinConfig`, `JoinVerify`, `JoinStart` and failures | `join_etcd_member.yml` |
| `refresh`, `reload`, `up` | `RefreshConfig`, `Reload`, `WaitUp`, `WaitUpFails` | `main.yml:62`, handlers |

Between two tasks any server may launch, publish or crash, and `Interrupt` ends
the run.  The operator's part is `AddHosts` and `StartRun`.  `Careful` is the
assumption under which the documentation's procedure works at all: hosts are
added while the cluster is healthy (or before it exists), no server fails
while a host that has never been a member is listed, and a host is removed
while the first one of the group, which is asked for its ID, serves.  `hostType` is the
deployment type: the unit of the host deployment is `Type=notify`, so its start
waits for readiness; docker's does not.  That is a start which really takes place:
`service: state=started` returns at once for a unit that is active or that systemd is
restarting.  So `EnsureRunning` waits only for units that were not enabled, and
`JoinStart` for nothing: its unit was enabled by `configure.yml:64`, and if the
server exits because it is no member yet, that task has ignored it.

`EtcdRemoveNode` extends `EtcdRole` by `remove-node.yml` on an etcd host: look up
the ID on the first host, remove, reset, strike from the inventory.  Both
playbooks take turns on one cluster.  `EtcdMembership` is what both together
promise, as a specification of its own with two variables: a cluster is founded
once, is never replaced, and changes by one member at a time.
`EtcdRemoveNode` implements it: `founder` is the cluster that has served,
`roster` its member list.

`EtcdRecover` extends `EtcdRole` by `recover-control-plane.yml`: `Break` is the
disaster and the operator's new inventory, `Assess` the quorum fact, then either
`CleanBroken`, `ListMembers`, `StrikeMember`, or the seven tasks of
`recover_lost_quorum.yml`, and at last the etcd role of `cluster.yml`, unchanged.
`lineage` is a history variable: the clusters that carry the old database.

`EtcdCerts` is about the same hosts but another state, and stands alone:
`dir[h]` is the certificate directory of `h`, with the authority's certificate
(`ca`) and key, a pair per etcd host (`member`, for the four files member-h and
admin-h, which always go together) and a pair per Kubernetes host (`node`).  A
pair is the authority that signed it and the generation it was made in; a torn
pair (`Torn`) is a certificate with the key of another generation.  `CheckCerts`
is `check_certs.yml`, `Generate` the script, `SyncMembers`, `SyncNodes` and
`CopyToNodes` the three copies, `Configure` and `RestartIfChanged` what the
role does with the result.  The handlers run in `EndPlay`.  Every task may be
cut off between its files: `GenerateCut` inside the `mv *.pem` of the script, which
takes the files in the order of the glob, the others inside their loops.
`ready` is a history variable: the etcd hosts a whole run has served, of which the operator
takes the first host of the group; `RemoveHost` and `RecoverHost` are
`remove-node.yml` and the replacement of a broken host.

### The Kubernetes nodes

`ControlPlane` is the play on `kube_control_plane`.  Files per host:
`kubeletConfig`, `ca`, `sans`, `manifests`.  In the cluster: `joined`, `config`
(the SANs in ConfigMap kubeadm-config), `clusterInfo`, `secret` (which authority,
under which key), `cas` (authorities made so far).  Facts: `alreadyRun`,
`renew`, `certKey`.  Loops over hosts with retries: `todo`, `tried`, `gaveUp`.
History: `clean` (no host was half set up when the run began) and `disturbed`.
`kubeadm init` is six phases and `kubeadm join` four; an attempt that fails has
done the phases up to any of them, and the next attempt or the next run starts
from there.  The operator may append hosts, put another joined host first
(`docs/nodes.md:5`, `:109`), remove a node, or cut the run off; the certificate
Secret expires between runs.

`RollingUpgrade` is the two node plays of `upgrade-cluster.yml`: masters in
batches of one, workers in batches of `serial`, each batch through the tasks of
`pre-upgrade`, the upgrade roles and `post-upgrade`.  A task fails on any subset
of its hosts; a failure inside the draining block runs `Rescue` first.  Pods are
scheduled and nodes cordoned by others at any time or, with `Meddles = FALSE`,
cordoned by the administrator only between runs.  `Immutable` is whether `kubeadm upgrade apply`
may fail with "field is immutable" in its output, which the task lets pass
(`kubeadm-upgrade.yml:27`), however far kubeadm came.

### The programs that run on their own

They share no state with the playbooks or with each other.  `Tools` extends all
six of them; its variable `tool` says whose behaviour this one is, and one run
checks them together.

`InventoryBuilder` is one action per invocation.  An argument is an address, a
range, a name with an address, or a deletion by name or by address; a host name
is the number it ends in.  The operators follow the methods of the script
(`ExistsIp`, `DeleteHost`, `DeleteHostByIp`, `AddToGroup`, `PurgeInvalidHosts`,
`BuildHostnames`, `EtcdCount`, `KubeControlPlane`, `CalicoRr`, `KubeNode`, `Build`).

`TerraformInventory` reads one state file per action, in two passes: the first
collects the floating IPs, the second yields the hosts, and Terraform may write
a file between any two reads.  `Flatten` and the prefix operators are the two
formats of attributes; `tfEver` and `tfAlways` collect what was true at some and
at every moment of the query.

`AwsInventory` makes its three queries one after the other while instances
change; `ever` and `always` are again what was true meanwhile.

`KubeModule` is one kubectl call per action, and within a call one object at a
time, which other clients and lost connections may interrupt.  `gone` and `made`
are the objects seen absent, or as in their file, at some instant of the attempt;
`blind` records that an answer of `kubectl get` hid an object.

`OpenstackCleanup` goes through the kinds in the order of `main.py`, listing
and deleting one resource per action; the cloud refuses what is in use, which
ends the run, and deletes servers in the background.

`RulesSync` inserts the blocks of a group at positions that earlier insertions
have moved, and writes one template per group.

The `MC*` modules only hold the sets the configurations use.  Definitions marked
"Mutant" or "wrong form" are one plausible edit away from the one they stand
before; each property is shown to fail when one of them takes that place, so
that none holds by the shape of the model.  `PROJECT.json` maps every definition
to the lines it stands for.

## 3. What the runs check

`tlc -config <cfg> <module>` in this directory; times are for two workers.

| run (cfg) | instance | states, time | shows |
|---|---|---|---|
| `EtcdRole_ends` | 4 hosts; one- or three-member cluster, up to 2 hosts added at a time; both deployments; 2 runs, 1 crash, interruptions; not careful; fair | 173k, 40 s | an undisturbed run brings all hosts in |
| `EtcdRemoveNode_life` | 4 hosts; empty, one- or three-member cluster; docker; 3 runs of either playbook, up to 3 hosts added at a time, 1 crash, interruptions; careful | 368k, 110 s | one cluster, a joiner's peers are the member list, a clean end means members and state `existing`; only the target is removed and it is gone, quorum survives the reset; refinement of `EtcdMembership` |
| `EtcdRecover_runs` | 5 hosts; three members, up to two broken; 2 runs, 1 crash, interruptions; fair | 93k, 40 s | the database is never lost, a run that ends has every host in a cluster with it, a serving cluster is kept in undisturbed histories, recovery completes |
| `RollingUpgrade_runs` | 2 masters, 3 workers, serial 2, one renamed host; all tasks may fail but the query; `Immutable`, `Meddles` FALSE; 2 runs; fair | 610k, 45 s | order, drain, capacity, cordons, completion |
| `Tools_runs` | builder: all command lines of up to 4 out of 10 arguments, thresholds 5 and 6; terraform: 2 state files, 2 applies; AWS: 2 instances, 2 changes; kube: 3 objects, 12 tasks, 2 attempts, 2 faults, 1 change by others; clean-up: 8 resources, up to hour 4; rules: every group of up to 4 rules; fair | 148k, 60 s | what each of the six programs promises |
| `EtcdCerts_runs` | 4 hosts, two founders, one host that is only a worker; 3 runs on all hosts or the worker; 1 cut, 1 host lost | 362k, 70 s | one authority, whole pairs after a clean run, no error but for named reasons |
| `ControlPlane_runs` | 3 hosts, 2 attempts, 3 runs; kubeadm fails in any phase; fair | 58k, 10 s | one authority, members are never reset, certificates cover the group, clean runs complete |
| `EtcdRole_split`, `EtcdCerts_restart`, `EtcdRecover_minority`, `InventoryBuilder_again`, `ControlPlane_rerun` | smallest that show it | seconds | the violations of section 4 |

Deadlock is not checked: every system stops when its runs are used up.

### The properties

*EtcdRole.*  `OneCluster`: all data directories belong to one cluster.
`OneServingCluster`: once one cluster has served, no other ever does
(for a careful operator it is part of `ImplementsMembership`).
`JoinConfigAgrees`: the peers a new joiner is configured with are the member
list at that moment, although they are computed from facts registered host by
host earlier in the play.  `DoneMeansMember`, `DoneMeansExisting`: what a clean
end guarantees, whatever the first health check said.  `JoinCompletes`
(liveness): a run that nothing disturbs makes every host of the group a started
member, for either deployment and from whatever earlier runs have left.

The type invariants of `EtcdRole` and `EtcdCerts` are proved (section 5) and in no run.

*EtcdRemoveNode.*  `RemovedIsGone`, `RemovesOnlyTarget` (action property, over
both playbooks), `ResetKeepsQuorum`, `ImplementsMembership`.

*EtcdRecover.*  `DataSurvives`: at every step, also between the deletion of the
data directory and the restore, some disk holds the old database (for a `Careful`
operator, section 5).
`RecoveredCluster`: a run that ends without an error leaves every host of the group, and
no broken one, a member of a cluster with the old database.  If one host has survived, that is
so whatever was cut off or crashed before; if a majority has, if nothing was, and then the cluster also
has a quorum.  `ServingKeptFirst`: until a run is disturbed, the cluster is only replaced when it
does not serve; again if one host or a majority has survived.  `RecoveryCompletes`: an
undisturbed run ends with etcd serving on every host.  Where several hosts but no
majority survive, these three do not hold (section 4); in the three-member cluster of `EtcdRecover_runs`
there is no such case.  The first two are also proved, with those hypotheses spelled out (section 5).

*RollingUpgrade.*  `MastersFirst` across failed and repeated runs,
`DrainedBeforeUpgrade` against a scheduler that moves between any two tasks,
`AdminCordonKept`, `CapacityKept`, `DoneMeansUpgraded` (every kubelet and every API
server is new after a run without an error, whatever earlier ones left in the middle),
`UpgradeCompletes`.  `AdminCordonKept` is about an administrator who waits for runs
to end; the cordons of `DoneMeansUpgraded` are claimed until a run fails.  `CapacityKept`
bounds what is out of service by the batch until then, and by one batch for each run after.

*EtcdCerts.*  `AuthorityMadeOnce`: whichever host that a whole run has served is
put first, and wherever runs are cut off, no second authority comes up.
`DoneMeansTrusted`: after a run without an error every host it passed holds its
own whole pair under the first host's authority, but for a node pair that is torn
on the first host (section 5).  `FailsOnlyForKey`: the
next run gets through whatever a run that was cut off has left, but for a key
whose certificate was not moved, a host without the script, and a pair
of which a host had received one file when it became the first.  TLC
finds it violated when either of the first two is dropped; the third needs a
fourth run, one more than the bound of the shipped instance.

*InventoryBuilder.*  `RolesSound`: odd etcd, roles apart above the thresholds, and,
where the thresholds leave hosts for all (`HostsForAll`), a host for every role: the
environment may set others, and with `SCALE_THRESHOLD=3` three hosts are all of etcd and
the control plane is empty.  `EveryAddressListed`: nothing that is added is dropped,
nothing is listed twice; the first for command lines whose names are apart from each
other and from all generated ones, and that delete by address (`Clear`).

*TerraformInventory, AwsInventory.*  `TfReport`, `AwsReport`: a report that is put
together at several moments says nothing that was never true in between and all
that was true throughout.  The first excepts hosts of one name, where the later one
overwrites the other.

*KubeModule.*  `SuccessMeansDone`, object by object.  It excepts `blind`
answers: `exists()` (`library/kube.py:264`) takes an error for absence, so
that `absent` may report success for an object that is there.

*OpenstackCleanup.*  `OrphansGo`: what jobs left behind goes at last, although any refusal ends a run; a router's port, which
users may not delete, keeps the kinds behind ports.

*RulesSync.*  `EveryAlertWrapped`, for the groups the insertions are made for
(`Plain`): with a recording rule behind an alert, or two alerts of one key, it
is violated.

*ControlPlane.*  `OneAuthority`, `DoneMeansJoined`, `CertificatesCover`,
`ResetKeepsMembers` (the reset that precedes every join attempt hits no host
that was in the cluster), `SetupCompletes`.

### Bounds

Hosts: three members is the smallest cluster that survives a failure and the
size the docs recommend; a fourth is what joins or returns; recovery needs two
to break and two to replace them.  Runs: the hazards are about what the *next*
run makes of an unfinished one, so two runs are the minimum, and three (where
affordable) also let a repaired state be disturbed again.  In
`EtcdRole_ends` two joiners beside three members need a fifth host: with one,
`JoinCompletes` also holds from both clusters without a crash (232k states) and
from three members with one (97k).  Crashes: one, because
it can hit any host at any step; two in a three-member cluster take the quorum,
which interruptions behind `member add` reach already.  Attempts: the code makes
4 at a kubeadm command, the model 2; every attempt but the last is treated alike,
so a second one is enough for "failed, then retried".  Thresholds of the builder:
scaled from 50 and 200 to 5 and 6, which leave hosts for all (`HostsForAll`), as the defaults do.
The builder's command lines of four arguments reach
both sides of both thresholds.
One invocation of the builder is enough for its invariants because the file of
an earlier one never has an effect (section 4).  Addresses: none is a part of
another one (`DistinctAddresses`), see the hazard at
`roles/remove-node/remove-etcd-node/tasks/main.yml:28`.

Certificates: the first run founds, the second is cut off or follows a change of
the group, the third must cope; with a fourth run (2.46 million states), or with a second host
lost (921 thousand), the same properties hold.  One cut is enough for a run that starts from a half-done one.
State files, instances: with two applies or changes, something can be true only
between two reads and something else only outside them.  Kube: an
attempt that fails half-way, and a second one that another client precedes.
Clean-up: an hour of age with creations up to hour 2 leaves
young and old resources at one time, and two hours to finish.

### Fairness

Liveness is checked under weak fairness of three kinds of step, and nothing else.
The tasks of a started run follow each other: Ansible waits for nobody between
tasks, every task has a bounded number of retries, and a task that can neither
succeed nor fail yet is simply not enabled.  systemd launches an enabled server
that can boot: the unit has `Restart=always`.  A launched server with a quorum
becomes ready: etcd elects a leader.  Nobody has to start a run, add a host or
cordon a node, and no failure, crash or interruption is ever forced.  A task that
waits (`StartReturns`, `WaitHealthy`, `JoinAdd`, ...) gives up only when
`Settled`: no server has anything left to do, or, for a start, when the server exits.  The code gives up after a number
of seconds; with a real clock it may give up earlier, which the model covers by
`Interrupt`.

`Tools` assumes three things for `OrphansGo` only: every pipeline starts the
clean-up again (`.gitlab-ci/terraform.yml:195`) and its loops go on, a server
whose deletion was accepted goes, and the clock ticks.

## 4. Disagreements with the documentation

Five runs end in a counterexample to what a document, comment or message of the
repository says.

* **A second cluster while scaling** (`EtcdRole_split`, `OneServingCluster`).
  `configure.yml:64` relies on new servers failing to start while the cluster is
  scaled.  In a one-member cluster, `member add` for the second host takes the
  quorum until that host has started.  A run cut off there leaves a cluster that
  fails the health check of the next run, which therefore writes state `new` for
  hosts that have never been members; they bootstrap a cluster of the same name
  with an empty database, and pass the health check at `:82` with it.
* **Nobody is restarted for new certificates** (`EtcdCerts_restart`,
  `RestartedIfChanged`).  "Restart etcd if certs changed" (`main.yml:48`) asks a fact
  that a handler sets at the end of the play, behind this task, and that the next
  play of the role sets back (`check_certs.yml:15`).  The servers go on with the
  authority they loaded when they were started; their own pair etcd reads again
  for every connection, so that the omission matters when the authority changes.
* **More than one survivor, and no quorum** (`EtcdRecover_minority`, `RecoveryCompletes`).
  "At least one functional node" is all `docs/recover-control-plane.md:18` asks for, and
  "when finished you should have a fully working control plane again" (`:27`).  With two of five
  members left, the snapshot is restored on the first of them only
  (`recover-control-plane.yml:15`, `recover_lost_quorum.yml:18-30`).  The second goes on with the data
  directory of the old cluster; it never has a quorum again, cannot be a member of the
  new one, and the run fails although nothing disturbs it.
* **Adding a host forgets the others** (`InventoryBuilder_again`,
  `AdditionKeepsHosts`).  `yaml.load_all` returns a generator of documents; the
  groups are not found in it, and the configuration is rebuilt from nothing.
  The help text promises "Add another host after initial creation".
* **A half set-up host is skipped for good** (`ControlPlane_rerun`,
  `DoneMeansInCluster`).  "Check if kubeadm has already run" looks for a file that
  kubeadm writes long before it has finished; after a failure behind it the host
  is left out of every later run, which ends without an error.

More were seen with TLC while the models were written and are kept as
notes to the hazards: a node that a failed run has cordoned counts as cordoned
by somebody else, so that the repeated run upgrades it undrained and leaves it
cordoned (`roles/upgrade/pre-upgrade/tasks/main.yml:42`); an administrator who cordons a node during the run
is overruled at its end (`:42`); a kubeadm failure with "field is immutable" lets the upgrade
go on to the workers, whatever it left of the API server
(`roles/kubernetes/control-plane/tasks/kubeadm-upgrade.yml:27`); the failed lookup of a member ID is
ignored, so that `remove-node.yml` wipes the host and succeeds while the cluster still counts it
(`remove-etcd-node/tasks/main.yml:30`); `grep` matches an address that is part of another one, so
that removing a listed host that is no member removes another one (`:28`); the query for a cordon
reads as "not cordoned" when it fails (`roles/upgrade/pre-upgrade/tasks/main.yml:36`); a generated
host name replaces the same name given on the command line (`inventory.py:218`); of
several files one that names a missing object makes `absent` succeed without deleting the
others (`library/kube.py:264`); ages are compared in local time with UTC
(`scripts/openstack-cleanup/main.py:24`); an authority's key without its
certificate, which makes every later run of `make-ssl-etcd.sh` fail (`:63`); a snapshot that is overwritten
by a later run of the recovery although it is the only copy, after a crash
(`roles/recover_control_plane/etcd/tasks/recover_lost_quorum.yml`, see `DatabaseSurvives` in section 5);
and a cluster that serves but is replaced nevertheless, because `has_quorum` compares healthy
with unhealthy hosts of the *inventory group*: behind a first recovery that was cut off, the
replacements are listed but are no members, outvote the restored cluster, and have it stopped, wiped and
restored once more (`roles/recover_control_plane/etcd/tasks/main.yml:26`, see `ServingKeptFirst`).
Two survivors of five and three replacements may even end without an error and with
an empty database: the health check of `cluster.yml` may be answered by the second survivor, the replacements are then
given files that say `new`, found a cluster of their own, and are the majority that a
second run finds (seen with eight hosts and two runs).

## 5. Proofs

`tlapm <module>`; no obligation is left open or assumed.  The theorems hold for
every value of the constants that satisfies the `ASSUME` of the module (finite
sets of hosts, natural bounds), hence for any number of hosts, runs, attempts and
crashes.

`EtcdRoleProofs`

* `TypeCorrect`: `Spec => []TypeOK`.  The part that is not mere typing is that
  the join loop never stands at a task with an empty list.
* `DoneExisting`: `Spec => []DoneMeansExisting`.  The conclusion is about the end
  of the run only, so the invariant `DoneInv` carries it back: from `check` to
  `refresh` the fact `healthy` is true, because the role registers the second
  health check under the name of the first one and gets past it only if it
  succeeds; from `reload` on every environment file is the assembled one
  (`Assembled`), because no task in between writes one.

`ControlPlaneProofs`

* `TypeCorrect`: typing, and with it `CasBound` (authorities made so far are no
  more than runs, fewer before the run's `init`), which is what bounds `cas`, and
  that `init` and `join` never stand at an empty list.
* `RunsKeepMembers`: `Spec => ResetKeepsMembers`, no step of a run takes a host
  out of `joined`.  It rests on `MemberInv`, the main inductive invariant: what
  was joined has its kubelet configuration (so the stat at the start of the run
  puts it into `alreadyRun`, `FactsRight`), and what the loops have left is not in
  `alreadyRun` (`InitTurn`, `JoinTurn`).
* `CleanRunJoins`: `Spec => []DoneMeansJoined`, from `MemberInv` too: in a clean
  run the hosts with a kubelet configuration are joined or have been served by a
  loop of this run, and a loop that gave up on a host does not lead to `done`.
* `AuthorityUnique`: `Spec => []OneAuthority`, from `AuthorityInv`: where an API
  server runs, the first host's does, and it has its kubelet configuration, so
  that nobody is initialised beside it (`FirstServes`, `InitAlone`); and the
  Secret the others join with holds the authority of the first host
  (`JoinGetsAuthority`).

* `CertificatesAreRight`: `Spec => []CertificatesCover`, from `CertInv`: from the
  renewal on, the first host and those renewed have a certificate that covers the group
  (`Covered`), and whoever is still to join gets one that names it (`SelfNamed`).

`EtcdRemoveNodeProofs`, all over both playbooks

* `OnlyTargetRemoved`: `LifeSpec => RemovesOnlyTarget`, also for a careless
  operator.  `TargetInv` ties the ID in the fact to the
  host it was looked up for until it is used.  The hypothesis `DistinctAddresses`
  is what `grep` needs.
* `NoSecondCluster`, `JoinPeersAgree`, `DoneMember`, `RemovedGone`, `ResetSparesQuorum`:
  `OneCluster`, `JoinConfigAgrees`, `DoneMeansMember`, `RemovedIsGone` and
  `ResetKeepsQuorum`, under `Careful` and `DistinctAddresses`.  They share `LifeInv`, which speaks of
  one cluster `G`, the hosts the cluster is or will be founded with: no server
  has data of another one, and a file that says `new`, on a host without data, lists
  `G` (`ServersInv`); a run that finds hosts without
  data either founds `G` or knows that it is healthy, and what it has registered
  is the member list until its next `member add` (`TaskInv`); the first host of the group
  answers while another one is removed, so that the ID is right (`RemoveInv`).  `Careful`
  is needed because the fact `healthy` is all that separates joining from founding:
  without it TLC finds two clusters (`EtcdRole_split`).
* `LifeImplementsMembership`: `LifeSpec => ImplementsMembership`, the refinement.  Its
  initial states map to initial states, and every step is one of `EtcdMembership` or leaves
  `founder` and `roster` alone; by `LifeInv` only `G` serves, so that `founder`
  never changes again, and the member list of `G` changes by one host in
  `JoinAdd` and `Remove` only.

`EtcdCertsProofs`

* `CertsTypeCorrect`: typing, and that the group is never empty and names no
  host twice, however it is reordered.
* `MadeOnce`: `Spec => []AuthorityMadeOnce`.  That there is one authority is not
  inductive: nothing in it says that the next first host has the key.  `KeyInv`
  follows the key instead: a member's pair is only where the key is, which is
  why a host that needs no copy has it (`MemberKey`); behind the
  copy of the members all etcd hosts of the run have it (`KeysCome`); so every
  host that may be put first has it (`ReadyKey`), and while there is an
  authority, the first host does (`Counted`).  No step of a run, cut off or not,
  takes a key away (`KeysKept`).

* `DoneTrusted`: `Spec => []DoneMeansTrusted`.  `TrustInv` follows the files through
  both plays: behind the script the first host has all of them (`Complete`),
  an etcd host for which nothing is made or copied is in step with it
  (`EtcdPlay`, `InStep`), and behind the second check its pair is a whole one of the only
  authority (`Trusted`, by `MadeOnce`).  `Numbers` bounds what may be torn.  Looking for this
  invariant showed that the property had been stated too strongly: a host that received
  one file of a node pair before it became the first one
  distributes the torn pair, which no check looks into, unless `force` is set.  The
  property now makes this exception.
* `GoesThrough`: `AllOrNoEtcd => (Spec => []FailsOnlyForKey)`.  The hypothesis is
  that a run is limited to all the etcd hosts or to none, as `cluster.yml` and
  `scale.yml` are used (`docs/nodes.md`); a server that is left out of a run
  keeps what it was launched with.

`EtcdRecoverProofs`, for any cluster, whichever of its hosts break, any number of
runs, cut off anywhere, and of crashes

* `DatabaseSurvives`: `RecoverSpec => []DataSurvives`, under `Careful`.  `RecoverInv` distinguishes
  three situations.  Before the disaster (`Unbroken`) the playbook has nothing to
  do.  With a second survivor (`Another`) there is a disk that no task touches.  With one
  survivor (`Alone`), the first host of the group, the playbook deletes the only
  data directory, and a later run may do so again.  Then the database is on
  that disk or in the snapshot (`Saved`), and the snapshot is taken of the database only as long as
  nobody else's data can be restored in its place: a replacement may
  found an empty cluster of its own, but it never serves and never
  wins the count of `has_quorum` (`Outnumbered`, `Outvoted`).
  `Careful` is needed, as TLC shows with four runs and a crash: when the restored member
  crashes during the health check of `cluster.yml`, the replacements are given files that
  say `new`, found a cluster with it in their list, and a later run overwrites the
  only snapshot with the empty database.
* `SecondSurvivor`: `RecoverSpec => [](TwoSurvive => DataSurvives)`, and `OthersSpared`:
  `RecoverSpec => [][SparesOthers]_allVars`, both without `Careful`: no step takes the
  data of a survivor other than the first host of the group.
* `RecoversTheCluster`: `RecoverSpec => []RecoveredCluster`, and `ServedFirst`:
  `RecoverSpec => ServingKeptFirst`, under `Careful` and `Apart` (no host's address is part of another
  one's, which `grep` in the join loop needs).  Two invariants are behind them.  `Regains`
  adds to `Alone` what a run achieves for the only survivor, wherever earlier
  ones were cut off: whoever answers belongs to the restored cluster (`AnswersRestored`), so that a host is passed
  over by the loop only if it is a member of it, and one that is added is added to it.
  `SmoothInv` is about runs that nothing has disturbed, and says where all servers are: before
  the disaster (`Intact`), between the runs and up to `cluster.yml` (`Steady`), during the restore (`Replacing`)
  and in the join loop (`Joining`).  From it, no task of such a run can fail
  (`SteadyGoesOn`, `JoiningGoesOn`), because every server that has been configured gets
  somewhere; so a run never leaves half a member behind, and a later one starts from the
  same situation.  The survivors are as strong at the count of `has_quorum` as
  in their cluster (`Strong`, `StrongFact`), or there is one, which is too weak for both (`Weak`,
  `WeakQuorum`).  A minority of several is left out (`Minority`).  Looking for `SmoothInv` showed that
  the two properties had been stated too strongly: they hold of three members, but of five
  TLC refutes them, by the disagreement of section 4.

`InventoryProofs`.  The builder, for any command lines, documents, number of invocations
and thresholds.  `build_hostnames` is a fold over the command line, and the fold over a
range is inside it.  What a fold computes for every input needs induction, which the
library offers for an operator parameter only; the first section derives it for a
set of numbers (`Induction`) and shows which values a fold goes through (`FoldSteps`).

* `BuilderTypeCorrect`: `BuilderSpec => []BuilderTypeOK`.  No argument puts two hosts of
  one name or one address on the list (`Fit`, `TakeIs`), deletions included, so neither does a command line
  (`HostnamesIs`); and `load` lists every host that a group of the document names (`LoadedIs`).
* `RolesAreSound`: `BuilderSpec => []RolesSound`, by counting names (`Sizes`) and the three
  cases of the thresholds (`RolesFit`).  Nothing is assumed of the thresholds and the number of
  control hosts but that they are natural numbers; that no role is left without hosts is
  stated, and true, only where they satisfy `HostsForAll`.
* `AddressesAreListed`: `BuilderSpec => []EveryAddressListed`.  Once listed, an address
  stays, because no name that is taken later replaces its host: the names so far are generated ones
  below the next number or given ones (`Numbered`), and those given are apart from each
  other and beyond all that are generated up to the end (`NamesBeyond`), which is what `Clear`
  asks of the command line and the script does not.

The Terraform inventory, for any files, orders, queries and number of writes between them.

* `TfTypeCorrect`: `TfSpec => []TfTypeOK`.
* `TfReportIsTrue`: `TfSpec => []TfReport`.  The parsers find in the flat attributes
  what the nested ones say (`FlattenPaths`, `ParsedIs`).  The two passes are folds:
  the floating IPs of a file are put over those of earlier ones (`FipsIs`), and its hosts are
  appended at their floating IPs (`YieldedIs`).  `TfInv` then has one part for each
  thing a report is made of: what the files say lies between `tfAlways` and `tfEver`
  (`WatchInv`); a floating IP that was read was there, and where a file that was read gave none,
  no address but the host's own can have been right all along (`IpsInv`); a host that was yielded is
  right, and nothing is missing of the files that were read (`NodesInv`).
  `ContentsAssumption` is what the parsers take for granted of the attributes: those they read
  are there, in the shape they read, and a floating IP is not empty.  `IdsAssumption` is what Terraform promises: resources have ids
  of their own, a host and its floating IPs do not move to another file, and an address
  that a host has of its own is not at another time a floating one of it.

`ToolsProofs`

* `KubeTypeCorrect`, and `SuccessIsDone`: `KubeSpec => []SuccessMeansDone`.  `KubeInv`
  says for each place of an attempt which objects have been seen: what kubectl has
  passed without an error is in `made` (`Applying`) or `gone` (`Deleting`), an answer
  of `kubectl get` that is not blind was true when it was given (`Asking`), and
  both sets hold only what was so (`Seen`).
* `AwsTypeCorrect`, and `ReportIsTrue`: `AwsSpec => []AwsReport`.  The present lies between
  `always` and `ever` (`Watched`); each query adds what is true at its moment, hence all of
  `always` for its group (`Found`) and nothing outside `ever` (`AwsSaid`).
* `CleanTypeCorrect`: `CleanSpec => []CleanTypeOK`.
* `RulesTypeCorrect`, and `AlertsAreWrapped`: `RulesSpec => []EveryAlertWrapped`, for any alerts,
  keys and charts.  That a file is made by the two functions from its
  rules is the invariant (`FilesMade`, with one file for each name, `OneFileEach`); what they
  make of a plain group is shown insertion by insertion.  `add_custom_labels` keeps
  two indices, into the text and into the rules; after each line they stand at the
  same alert (`LabelsUpTo`).  `add_rules_conditions` goes key by key, and in one key
  from each alert it finds to the next (`Stretch`): it wraps the one alert of
  the key with its labels, and nothing else (`WrapBlock`, `WrapOne`), so that after all
  keys the text is `Flat`, one block for each rule.  `RulesAssumption` says what holds
  of `alert_condition_map`: no key twice, none empty.
* `ToolsAreTheirOwn`: `ToolSpec => BuilderSpec /\ TfSpec /\ AwsSpec /\ KubeSpec /\
  CleanSpec /\ RulesSpec`, so that what is proved of each program holds of the specification
  the run checks, and `ToolTypeCorrect`: `ToolSpec => []ToolTypeOK`.

`RollingUpgradeProofs`

* `TypeCorrect`: typing; `TypeInv` adds that the facts of a batch are empty until
  the task that registers them, and that nothing of a run outlives it.
* `MastersAreFirst`: `~Immutable => (Spec => []MastersFirst)`, from `OrderInv`: in the masters'
  play only the hosts of the batch and those behind it may still be old, at the
  uncordon the batch is new as well (which a failure that the task lets pass would
  refute, hence `~Immutable`), and hence all are when the workers' play
  begins; no step takes a version back, so a later run starts no worse.
* `CordonsKept`: `Spec => []AdminCordonKept`, from `CordonInv`: from the query on,
  no host the run will uncordon is one of the administrator's.  Two hypotheses
  are necessary and explicit: the administrator waits for runs to end
  (`~Meddles`), and the query answers (`QueryAnswers`).
* `Drained`: `Spec => []DrainedBeforeUpgrade`, from `DrainInv`: what has been
  drained is cordoned, so that the scheduler has put nothing back; under
  `~Meddles`, because an administrator who uncordons a node during its drain
  does bring pods back.
* `CapacityIsKept`: `Spec => []CapacityKept`, without any hypothesis.  `SizeInv` bounds
  the batch, by `SliceSize` (a batch is no larger than `serial`) and `Greatest`;
  `ServiceInv` says that until a run fails only hosts of the batch are
  out of service; `StrandInv`, with the finite sets counted in `StrandedFit`, that behind
  failures each past run has left at most one batch.
* `DoneIsUpgraded`: `Spec => []DoneMeansUpgraded`, under the hypotheses of
  `CordonsKept` and `~Immutable`, from `OrderInv`, `KubeletInv` (the same of the kubelets
  of both plays), `CordonInv` and `EndInv`, by which what a batch has left
  behind is upgraded and as the administrator wants it.

TLC confirmed each of these strengthenings as an invariant of the run before it
was proved; `RecoverInv` also with runs and crashes that never end, for three and four
hosts, `Regains` and `SmoothInv` for four and six, `TfInv` with all state files of `Tools_runs`.

Only model-checked:

* Liveness (`JoinCompletes`, `RecoveryCompletes`, `UpgradeCompletes`,
  `SetupCompletes`, `OrphansGo`): it rests on fairness and ENABLED, which TLAPS does
  not handle.

Every safety property that a passing run checks is stated by one of the theorems above.

## 6. Assumptions about code that is not in the repository

*etcd 3.4.13* (the version of `roles/download/defaults`).  A server with a data
directory goes on with it; one without bootstraps the configured list if the
state is `new`, unless a peer knows its member as started, and otherwise joins a
cluster whose member list equals the configured one.  `member add` wants every
member connected and a quorum of the enlarged cluster started, except when one
grows to two; `member remove` the corresponding quorum of the rest.  `endpoint
health` is a linearizable read.  A restored snapshot is a new one-member cluster.
`etcdctl` asks any endpoint that answers.

*Ansible.*  One task on all hosts before the next; `any_errors_fatal` ends the
play after the task; `rescue` runs for the failed hosts first; a loop goes over
all its items before it fails; the retries at one host with `throttle: 1` follow
each other; facts and handlers do not outlive the run.

*kubeadm.*  Phases in the order of its documentation; an authority that is there
is used again; `join` needs cluster-info, kubeadm-config and the Secret under the
key it was given; `reset` deletes the files of the host.

*openssl and etcd's TLS.*  The script's commands make a pair of what they are given or
fail; `mv` with several files takes them in the order of the shell's glob, each at
once.  An etcd server loads its authority when it starts and its pair for
every connection.  Handlers run at the end of a play.

*kubectl, EC2, OpenStack, Terraform.*  A kubectl call works on one object after the
other, goes on after an error and reports it at the end; deleting what is named
and not there is an error unless `--ignore-not-found` is given.  A query of EC2 is answered from one instant.
OpenStack refuses to delete what something uses, deletes servers
in the background, and deleting what is gone is no error.  Terraform replaces a
state file as a whole.

*ruamel.yaml.*  `load_all` returns a generator; comparing its documents with the
string `'all'` is false for each.

*Kubernetes.*  The scheduler may place pods on every schedulable node; a drain
evicts what it may, and one that fails may have evicted anything; an unknown node
name is an error.

## 7. Not modelled

Of the modelled components: the etcd-events cluster (the same tasks again), etcd
on the kubeadm control plane, backups before a refresh; the tasks of the recovery
that act on Kubernetes nodes rather than etcd; a fixed `kubeadm_token`, taints,
kubeconfig rewrites and renewal timers of the control plane; "pause" prompts and
`upgrade_node_fail_if_drain_fails: false` of the upgrade; the printing commands,
`USE_REAL_HOSTNAME` and file formats of the builder; file permissions and the
host's trust store of the certificates; attributes that the terraform inventory only
passes on, and the node labels of the AWS one; `--wait`, `--recursive` and log levels
of the kube module; the dry run of the clean-up; the string replacements, the header and
the escaping of braces of the rules.

Inputs on which these programs stop with an exception are left out of the
instances: a Packet host to which a floating IP belongs (`terraform.py:354` looks up an
attribute it does not have).  An EC2 instance without a public DNS name is
listed as the host `''` (`kubespray-aws-inventory.py:60`); the model has it, as `NoAddress`.

Components left out, with the reason (also in `PROJECT.json`):

* *Worker join*: below.
* *Download cache*: most of it is paths, checksums and commands; what is left is
  `download_run_once`, a file made on one host and copied to the others, idempotent
  by its checksum.
* *Host preparation*, *network plugins*, *applications*, *reset of a node*:
  idempotent straight lines on one host, or manifests handed to controllers.
* *Dashboards, download hashes, branch clean-up* (`hack/sync_grafana_dashboards.py`,
  `scripts/download_hash.py`, `scripts/gitlab-branch-cleanup`): one pass over a list with a
  request each, and fixed replacements of strings; no step depends on another.
* *Reference-data service* (`fm/reference-data`): read-only queries; nothing in
  the repository writes the tables, so there is no transition.
* *Pipelines, ArgoCD applications, Helm charts, Terraform resources, monitoring*:
  declarative, vendored or both; whatever happens is done by external controllers.
* *Other cluster set-ups* (`prev/gitops/ansible/rancher-cluster`,
  `prev/gitops/ansible/k8_configurations`): short straight-line playbooks for one
  machine or one namespace.

## 8. Plan

1. Done: the etcd modules (`EtcdServer`, `EtcdRole`, `EtcdRemoveNode`,
   `EtcdMembership`, `EtcdRecover`, `EtcdCerts`), `RollingUpgrade`, `ControlPlane`,
   and the programs (`InventoryBuilder`, `TerraformInventory`, `AwsInventory`,
   `KubeModule`, `OpenstackCleanup`, `RulesSync`, together in `Tools`); the proofs
   of section 5.
2. Modules to add: `WorkerJoin` (join under a timeout, and the rescue that ignores
   preflight errors); the download of a file by one host for all.
3. Liveness stays with TLC (section 5).
