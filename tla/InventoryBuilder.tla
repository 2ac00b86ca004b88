-------------------------- MODULE InventoryBuilder --------------------------
(***************************************************************************)
(* contrib/inventory_builder/inventory.py: turns a list of addresses into  *)
(* the inventory that every other playbook starts from, and writes it to   *)
(* CONFIG_FILE.  One action is one invocation of the script.               *)
(*                                                                         *)
(* A host name is the number it ends in (get_host_id); the generated names *)
(* node1, node2, ... are 1, 2, ...  Of a host's options only the address   *)
(* matters: ansible_host and access_ip never decide anything.              *)
(***************************************************************************)
EXTENDS Naturals, Sequences, FiniteSets, SequencesExt

CONSTANTS
    Arguments,          \* what may stand on a command line
    MaxArguments,       \* bound: arguments of an invocation
    MaxRuns,            \* bound: invocations
    Documents,          \* JSON documents for `load`
    ControlHosts,       \* KUBE_CONTROL_HOSTS
    ScaleThreshold,     \* SCALE_THRESHOLD
    MassiveThreshold    \* MASSIVE_SCALE_THRESHOLD

(* The last three are whatever the environment says.                       *)
ASSUME BuilderAssumption ==
    {MaxArguments, MaxRuns, ControlHosts, ScaleThreshold, MassiveThreshold} \subseteq Nat

Host == [name : Nat, ip : Nat]

VARIABLES
    file,       \* CONFIG_FILE
    argv,       \* the arguments of the last invocation
    runs        \* invocations so far

builderVars == <<file, argv, runs>>

Nothing == [hosts |-> <<>>, etcd |-> {}, control |-> {}, node |-> {}, rr |-> {}]

(* An argument is an address, a range of them, a name with an address, or  *)
(* a host to delete.                                                       *)
Address(a)     == [op |-> "address", ip |-> a]
Span(a, b)     == [op |-> "range", from |-> a, to |-> b]
Named(n, a)    == [op |-> "named", name |-> n, ip |-> a]
DeleteName(n)  == [op |-> "deleteName", name |-> n]
DeleteIp(a)    == [op |-> "deleteIp", ip |-> a]

(* load_file lists every host of a group under all as well.                *)
ASSUME InputAssumption ==
    /\ Arguments \subseteq    [op : {"address", "deleteIp"}, ip : Nat]
                        \cup [op : {"range"}, from : Nat, to : Nat]
                        \cup [op : {"named"}, name : Nat, ip : Nat]
                        \cup [op : {"deleteName"}, name : Nat]
    /\ \A doc \in Documents :
          /\ doc.hosts \in Seq(Host)
          /\ doc = [hosts |-> doc.hosts, etcd |-> doc.etcd, control |-> doc.control,
                    node |-> doc.node, rr |-> doc.rr]
          /\ \A group \in {doc.etcd, doc.control, doc.node, doc.rr} :
                \A name \in group : \E i \in DOMAIN doc.hosts : doc.hosts[i].name = name

Names(hosts) == {hosts[i].name : i \in DOMAIN hosts}
Ips(hosts)   == {hosts[i].ip : i \in DOMAIN hosts}
First(k, hosts) == {hosts[i].name : i \in {j \in DOMAIN hosts : j <= k}}

-----------------------------------------------------------------------------
(* Wrong forms of the definition that follows them, for mutation.          *)
PutAppends(hosts, h) == Append(hosts, h)

(* all_hosts[name] = options: an OrderedDict keeps the place of a key.     *)
Put(hosts, h) ==
    IF h.name \in Names(hosts)
    THEN [i \in DOMAIN hosts |-> IF hosts[i].name = h.name THEN h ELSE hosts[i]]
    ELSE Append(hosts, h)

(* range2ips; a range that runs backwards is empty.                        *)
Expand(arg) ==
    IF arg.op # "range" THEN <<arg>>
    ELSE IF arg.from > arg.to THEN <<>>
    ELSE [i \in 1 .. (arg.to - arg.from + 1) |-> Address(arg.from + i - 1)]

(* The loaded configuration is a generator over the documents of the file  *)
(* (yaml.load_all).  ensure_required_groups looks for "all" among them,    *)
(* finds none that equals it, and starts with an empty configuration.      *)
Loaded == Nothing

HighestId(hosts) == CHOOSE k \in Names(hosts) \cup {0} : \A n \in Names(hosts) : n <= k

(* exists_ip                                                               *)
ExistsIp(hosts, ip) == ip \in Ips(hosts)

AddAddressSameId(b, ip) ==
    IF ExistsIp(b.hosts, ip) THEN b
    ELSE [b EXCEPT !.hosts = Put(@, [name |-> b.next, ip |-> ip])]

AddAddress(b, ip) ==
    IF ExistsIp(b.hosts, ip) THEN b
    ELSE [hosts |-> Put(b.hosts, [name |-> b.next, ip |-> ip]), next |-> b.next + 1]

(* The test for an existing name looks for the whole argument, commas and  *)
(* all, and never finds it.                                                *)
AddNamed(b, name, ip) ==
    IF ExistsIp(b.hosts, ip) THEN b
    ELSE [b EXCEPT !.hosts = Put(@, [name |-> name, ip |-> ip])]

(* A host to delete that does not exist is passed over.                    *)
DeleteHost(b, name)   == [b EXCEPT !.hosts = RemoveFirstMatch(@, LAMBDA h : h.name = name)]
DeleteHostByIp(b, ip) == [b EXCEPT !.hosts = RemoveFirstMatch(@, LAMBDA h : h.ip = ip)]

(* One argument of build_hostnames.                                        *)
Take(b, arg) ==
    CASE arg.op = "address"    -> AddAddress(b, arg.ip)
      [] arg.op = "named"      -> AddNamed(b, arg.name, arg.ip)
      [] arg.op = "deleteName" -> DeleteHost(b, arg.name)
      [] arg.op = "deleteIp"   -> DeleteHostByIp(b, arg.ip)

TakeAll(b, arg) == FoldLeft(Take, b, Expand(arg))

Hostnames(hosts, args) ==
    FoldLeft(TakeAll, [hosts |-> hosts, next |-> HighestId(hosts) + 1], args)
BuildHostnames(hosts, args) == Hostnames(hosts, args).hosts

EtcdCount(n) == IF n >= 3 THEN 3 ELSE 1

(* set_kube_control_plane: at scale, the hosts after those of etcd.        *)
KubeControlPlane(hosts) ==
    LET n == Len(hosts) k == EtcdCount(n)
    IN  IF n >= ScaleThreshold THEN First(k + ControlHosts, hosts) \ First(k, hosts)
                               ELSE First(ControlHosts, hosts)

KubeNodeSpare(hosts, etcd, control) ==
    Names(hosts) \ IF Len(hosts) >= ScaleThreshold THEN etcd \cup control ELSE {}

(* set_kube_node                                                           *)
KubeNode(hosts, etcd, control) ==
    Names(hosts) \ ((IF Len(hosts) >= ScaleThreshold THEN etcd ELSE {})
                    \cup (IF Len(hosts) >= MassiveThreshold THEN control ELSE {}))

(* set_calico_rr.  Its conflict checks look for the host among the keys of *)
(* a group, which are "hosts", and skip none.                              *)
CalicoRr(hosts) == IF Len(hosts) >= ScaleThreshold THEN First(EtcdCount(Len(hosts)), hosts) ELSE {}

(* purge_invalid_hosts: no name of a host is that of a role.               *)
PurgeInvalidHosts(group, hosts) == group \cap Names(hosts)

(* add_host_to_group, for what is left of a group and what comes to it.    *)
AddToGroup(group, hosts, new) == PurgeInvalidHosts(group, hosts) \cup new

(* The rest of __init__.                                                   *)
Build(config, args) ==
    LET hosts   == BuildHostnames(config.hosts, args)
        etcd    == AddToGroup(config.etcd, hosts, First(EtcdCount(Len(hosts)), hosts))
        control == AddToGroup(config.control, hosts, KubeControlPlane(hosts))
    IN  [hosts   |-> hosts,
         etcd    |-> etcd,
         control |-> control,
         node    |-> AddToGroup(config.node, hosts, KubeNode(hosts, etcd, control)),
         rr      |-> AddToGroup(config.rr, hosts, CalicoRr(hosts))]

(* `inventory.py <arguments>`                                              *)
Run(args) ==
    /\ runs < MaxRuns
    /\ file' = Build(Loaded, args)
    /\ argv' = args
    /\ runs' = runs + 1

(* `inventory.py load <document>`: a document names the hosts of groups.   *)
Load(doc) ==
    /\ runs < MaxRuns
    /\ file' = [doc EXCEPT !.hosts = FoldLeft(Put, Loaded.hosts, @)]
    /\ argv' = <<>>
    /\ runs' = runs + 1

BuilderInit ==
    /\ file = Nothing
    /\ argv = <<>>
    /\ runs = 0

BuilderNext ==
    \/ \E args \in SeqOf(Arguments, MaxArguments) : args # <<>> /\ Run(args)
    \/ \E doc \in Documents : Load(doc)

BuilderSpec == BuilderInit /\ [][BuilderNext]_builderVars

-----------------------------------------------------------------------------
(* Properties.                                                             *)

(* The inventory is well formed: no name occurs twice, and every group     *)
(* consists of listed hosts.                                               *)
BuilderTypeOK ==
    /\ Cardinality(Names(file.hosts)) = Len(file.hosts)
    /\ file.etcd \cup file.control \cup file.node \cup file.rr \subseteq Names(file.hosts)
    /\ argv \in Seq(Arguments) /\ Len(argv) <= MaxArguments
    /\ runs \in 0 .. MaxRuns

Built == argv # <<>> /\ file.hosts # <<>>

(* At a threshold that is reached there are hosts left for every role, as  *)
(* with the defaults, 2, 50 and 200: with SCALE_THRESHOLD=3, three hosts   *)
(* are all of etcd and the control plane has none (inventory.py:107).      *)
HostsForAll ==
    ControlHosts > 0 /\ ScaleThreshold > 3 /\ MassiveThreshold > 3 + ControlHosts

(* Whatever is added, skipped or deleted, and on either side of the two    *)
(* thresholds: etcd has an odd number of hosts, as cluster.yml asserts     *)
(* (0020-verify-settings.yml:89); "Separate ETCD role if # of nodes >= 50" *)
(* and "Separate K8s control-plane and ETCD if # of nodes >= 200"          *)
(* (inventory.py:411), the route reflectors being those of etcd; and       *)
(* unless the thresholds are set too low for it, there is a host for the   *)
(* control plane and one for pods.                                         *)
RolesSound ==
    Built =>
        /\ Cardinality(file.etcd) % 2 = 1
        /\ Len(file.hosts) >= ScaleThreshold =>
              (file.etcd \cup file.rr) \cap (file.control \cup file.node) = {}
        /\ Len(file.hosts) >= MassiveThreshold => file.control \cap file.node = {}
        /\ HostsForAll => file.control # {} /\ file.node # {}

(* The arguments name hosts apart from each other and from the generated   *)
(* names, and delete by address only.                                      *)
Clear(args) ==
    /\ \A i, j \in DOMAIN args :
          args[i].op = "named" /\ args[j].op = "named" /\ i # j => args[i].name # args[j].name
    /\ \A i \in DOMAIN args :
          /\ args[i].op = "named" => args[i].name >= Hostnames(Loaded.hosts, args).next
          /\ args[i].op # "deleteName"

Mentioned(args, ops) ==
    {arg.ip : arg \in {x \in UNION {Range(Expand(args[i])) : i \in DOMAIN args} : x.op \in ops}}

(* Every address that the arguments add and do not delete is listed, under *)
(* whatever name, and no address is listed twice: exists_ip is asked       *)
(* before a host is added, with or without a name (inventory.py:161-227).  *)
EveryAddressListed ==
    argv # <<>> =>
    /\ Cardinality(Ips(file.hosts)) = Len(file.hosts)
    /\ Clear(argv) =>
        Mentioned(argv, {"address", "named"}) \ Mentioned(argv, {"deleteIp"}) \subseteq Ips(file.hosts)

(* "Add another host after initial creation: inventory.py 10.10.1.5"       *)
(* (inventory.py:399): an invocation that deletes nothing keeps the hosts  *)
(* that were there.                                                        *)
AdditionKeepsHosts ==
    [][argv' # <<>> /\ \A i \in DOMAIN argv' : argv'[i].op \in {"address", "range"}
          => Ips(file.hosts) \subseteq Ips(file'.hosts)]_builderVars
=============================================================================
