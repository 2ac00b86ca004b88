------------------------------- MODULE MCTools -------------------------------
(* Instances of the programs that run on their own, for TLC.               *)
EXTENDS Tools

(* contrib/inventory_builder                                               *)
SomeArguments ==
    {Address(1), Address(2), Span(1, 4), Span(2, 6), Span(3, 2),
     Named(51, 2), Named(51, 7), Named(52, 8), DeleteName(1), DeleteIp(2)}

OneDocument ==
    {[hosts |-> <<[name |-> 1, ip |-> 1], [name |-> 2, ip |-> 2]>>,
      etcd |-> {1}, control |-> {1}, node |-> {2}, rr |-> {}]}

(* contrib/terraform: an instance that gets a floating IP, is made anew,   *)
(* or shares its name with one of another file; a host of Packet.          *)
Resource(type, scalar, map, list) ==
    [type |-> type, attrs |-> [scalar |-> scalar, map |-> map, list |-> list]]
Vm(name, id, ip, metadata) ==
    Resource(InstanceType, [name |-> name, id |-> id, access_ip_v4 |-> ip, access_ip_v6 |-> "v6"],
             [metadata |-> metadata], <<>>)
Fip(id, ip) == Resource(FipType, [instance_id |-> id, floating_ip |-> ip], <<>>, <<>>)
Packet(name, id, ip, tags) ==
    Resource(PacketType, [hostname |-> name, id |-> id], <<>>,
             [network |-> <<{<<"address", ip>>}, {<<"address", "v6">>}>>,
              tags |-> [i \in DOMAIN tags |-> {<<"random", tags[i]>>}]])
Network == Resource("openstack_networking_network_v2", [id |-> "n"], <<>>, <<>>)

Private == [kubespray_groups |-> {"etcd", "kube_node", ""}, use_access_ip |-> "0"]
Version6 == [prefer_ipv6 |-> "1"]

Version4(resources) == [version |-> 4, resources |-> resources]
SomeContents ==
    [main  |-> {Version4(<<Vm("m1", "1", "a1", Private)>>),
                Version4(<<Network, Vm("m1", "1", "a1", Private), Fip("1", "f1")>>),
                Version4(<<Vm("m1", "2", "a2", Version6), Fip("2", "f1")>>)},
     other |-> {Version4(<<Packet("p1", "3", "a3", <<"etcd", "kube_node">>)>>),
                Version4(<<Vm("m1", "4", "a4", Version6), Vm("m2", "5", "a5", Version6)>>),
                Version4(<<Vm("m2", "5", "a5", Version6)>>),
                [version |-> 2, resources |-> <<>>]}]
BothWalks == {<<"main", "other">>, <<"other", "main">>}
SomeQueries == {<<"list">>, <<"hostfile">>, <<"host", "m1">>, <<"host", "p1">>}

(* contrib/aws_inventory                                                   *)
SomeRoles == {{"kube_control_plane", "etcd"}, {"kube_node"}, {}}

(* library/kube.py: every way to name objects, and every refusal.          *)
ToDo(state, files, name, options) ==
    [state |-> state, files |-> files, resource |-> files = {} /\ "no resource" \notin options,
     ns |-> {"o1", "o2"}, name |-> name,
     label |-> "label" \in options, all |-> "all" \in options, force |-> "force" \in options]
SomeTasks ==
    {ToDo("present", {"o1", "o2"}, {}, {}), ToDo("reloaded", {"o3"}, {}, {"force"}),
     ToDo("latest", {}, {"o1"}, {}), ToDo("stopped", {}, {"o1"}, {}),
     ToDo("absent", {"o1", "o2"}, {}, {}), ToDo("absent", {"o1", "o2"}, {}, {"force"}),
     ToDo("absent", {}, {"o1"}, {"force"}), ToDo("absent", {}, {"o1"}, {"label"}),
     ToDo("absent", {}, {"o1"}, {"no resource"}), ToDo("absent", {}, {}, {"label"}),
     ToDo("absent", {}, {}, {"all"}), ToDo("absent", {}, {}, {"label", "all"})}

(* scripts/openstack-cleanup: a network with a server and a router.        *)
SomeResources == {"ext", "default", "net", "sub", "grp", "srv", "p", "rp"}
GivenResources == {"ext", "default"}
KindOf == [r \in SomeResources |->
    CASE r \in {"ext", "net"}     -> "network"
      [] r = "sub"                -> "subnet"
      [] r \in {"default", "grp"} -> "security group"
      [] r = "srv"                -> "server"
      [] OTHER                    -> "port"]
UsesOf == [r \in SomeResources |->
    CASE r = "sub" -> {"net"}
      [] r = "srv" -> {"p"}
      [] r = "p"   -> {"sub", "grp"}
      [] r = "rp"  -> {"sub"}
      [] OTHER     -> {}]

(* hack/sync_prometheus_rules.py: every group of up to four rules.         *)
SomeKeys == <<"down", "absent", "late">>
SomeAlerts == [down |-> {"down"}, downAgain |-> {"down"}, absent |-> {"absent"},
               late |-> {"late"}, other |-> {}]
Group(name, rules) == [name |-> name, rules |-> rules]
SomeRules ==
    SeqOf({Alert("down"), Alert("absent"), Alert("late"), Alert("other"), Recording}, 4)
        \cup {<<Alert("downAgain"), Alert("down")>>}
SomeCharts ==
    <<{<<Group("g", rules)>> : rules \in SomeRules},
      {<<Group("h", <<Alert("down"), Alert("other")>>), Group("g", <<>>)>>}>>
=============================================================================
