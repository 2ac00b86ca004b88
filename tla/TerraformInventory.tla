------------------------- MODULE TerraformInventory -------------------------
(***************************************************************************)
(* contrib/terraform/terraform.py, the dynamic inventory of a cluster that *)
(* Terraform has made: it walks over every .tfstate file below a root,     *)
(* first for the floating IPs and then, in a second pass, for the hosts,   *)
(* while `terraform apply` may write the files.  One action is the reading *)
(* of one file; the generators of the second pass run only while the       *)
(* output is put together, which the order of the actions reflects.        *)
(*                                                                         *)
(* Attributes that are only passed on to the output are left out, and so   *)
(* are the groups that repeat an attribute (os_flavor=...).                *)
(***************************************************************************)
EXTENDS Naturals, Sequences, FiniteSets, SequencesExt

CONSTANTS
    Walks,          \* orders in which the files may be walked over
    Contents,       \* Contents[f]: what file f may hold
    Queries,        \* the command lines: --list, --hostfile, --host NAME
    MaxApplies      \* bound: files written

InstanceType == "openstack_compute_instance_v2"
FipType      == "openstack_compute_floatingip_associate_v2"
PacketType   == "packet_device"
HostTypes    == {InstanceType, PacketType}

ASSUME TfAssumption ==
    /\ DOMAIN Contents # {} /\ \A f \in DOMAIN Contents : Contents[f] # {}
    /\ Walks \subseteq Seq(DOMAIN Contents) /\ Walks # {}
    /\ \A w \in Walks : Range(w) = DOMAIN Contents /\ Len(w) = Cardinality(DOMAIN Contents)
    /\ \A q \in Queries : q \in {<<"list">>, <<"hostfile">>} \/ q = <<"host", q[2]>>
    /\ Queries # {} /\ MaxApplies \in Nat

VARIABLES
    tfstate,    \* tfstate[f]: version and resources of file f
    query,      \* the command line
    walk,       \* the order of the files
    pass,       \* "ips", "hosts", "done", or "failed" by an exception
    place,      \* files read in this pass
    ips,        \* instances and their floating IPs
    nodes,      \* the hosts yielded so far
    tfEver,     \* history: facts at some instant of the query
    tfAlways,   \*   and at every instant
    applies     \* files written so far

queryVars == <<query, walk, pass, place, ips, nodes>>
tfVars == <<tfstate, queryVars, tfEver, tfAlways, applies>>

-----------------------------------------------------------------------------
(* Attributes are a set of paths with their values.  Those of version 4    *)
(* are nested and brought to this form, which version 3 has on disk; an    *)
(* item of a list is a dictionary, or a string under a random number.      *)
Items(k, list) ==
    {<<<<k, "#">>, "count">> : i \in DOMAIN list}
    \cup (UNION {{<<<<k, i, p[1]>>, p[2]>> : p \in list[i]} : i \in DOMAIN list})
Flatten(a) ==
    {<<<<k>>, a.scalar[k]>> : k \in DOMAIN a.scalar}
    \cup (UNION {{<<<<k, "%">>, "count">>} \cup {<<<<k, j>>, a.map[k][j]>> : j \in DOMAIN a.map[k]}
                 : k \in DOMAIN a.map})
    \cup (UNION {Items(k, a.list[k]) : k \in DOMAIN a.list})

Has(src, path) == \E p \in src : p[1] = path
Attr(src, path) == (CHOOSE p \in src : p[1] = path)[2]

(* _parse_prefix leaves out the length of a list, but not that of a map.   *)
ParsePrefixCounts(src, key) == {p \in src : Len(p[1]) > 1 /\ p[1][1] = key}
ParsePrefix(src, key) == {p \in src : Len(p[1]) > 1 /\ p[1][1] = key /\ p[1] # <<key, "#">>}
ParseList(src, key) == {p[2] : p \in ParsePrefix(src, key)}

(* The items of a comma-separated list; without one, the empty string.     *)
KubesprayGroups(src) ==
    LET path == <<"metadata", "kubespray_groups">>
    IN  IF Has(src, path) THEN Attr(src, path) ELSE {""}

(* access: access_ip, "" where there is none.                              *)
OpenstackHost(src) ==
    [name     |-> Attr(src, <<"name">>),
     id       |-> Attr(src, <<"id">>),
     ssh      |-> IF <<<<"metadata", "prefer_ipv6">>, "1">> \in src
                  THEN Attr(src, <<"access_ip_v6">>) ELSE Attr(src, <<"access_ip_v4">>),
     access   |-> Attr(src, <<"access_ip_v4">>),
     metadata |-> ParsePrefix(src, "metadata"),
     groups   |-> KubesprayGroups(src) \cup {"publicly_routable"}]

PacketDevice(src) ==
    [name |-> Attr(src, <<"hostname">>), id |-> Attr(src, <<"id">>),
     ssh |-> Attr(src, <<"network", 1, "address">>), access |-> "",
     metadata |-> {}, groups |-> ParseList(src, "tags")]

Parsed(r) == IF r.type = InstanceType THEN OpenstackHost(Flatten(r.attrs))
                                      ELSE PacketDevice(Flatten(r.attrs))

(* query_list: Ansible knows no group without a name.                      *)
GroupName(g) == IF g = "" THEN "all" ELSE g
Members(h) == {GroupName(g) : g \in h.groups}

(* iterips, into a dictionary.                                             *)
FipPair(r) == <<r.attrs.scalar.instance_id, r.attrs.scalar.floating_ip>>
PutIp(found, r) ==
    IF r.type = FipType THEN {p \in found : p[1] # FipPair(r)[1]} \cup {FipPair(r)} ELSE found

(* iter_host_ips, for a host of which it has the metadata.                 *)
WithFip(h) ==
    IF \E p \in ips : p[1] = h.id
    THEN LET ip == (CHOOSE p \in ips : p[1] = h.id)[2] IN [h EXCEPT !.ssh = ip, !.access = ip]
    ELSE h
Updated(h) == IF <<<<"metadata", "use_access_ip">>, "0">> \in h.metadata
              THEN [WithFip(h) EXCEPT !.access = ""] ELSE WithFip(h)

(* One turn of the loops over hosts.  iterhosts passes over what there is  *)
(* no parser for.  No host is updated unless there is a floating IP        *)
(* somewhere; then a host of Packet, which has no metadata, is a KeyError. *)
(* --host stops at the first host of its name.                             *)
Yield(b, r) ==
    LET h == Parsed(r)
    IN  CASE b.end # "hosts" \/ r.type \notin HostTypes -> b
          [] b.end = "hosts" /\ ips # {} /\ r.type = PacketType -> [b EXCEPT !.end = "failed"]
          [] OTHER -> [nodes |-> Append(b.nodes, IF ips # {} THEN Updated(h) ELSE h),
                       end   |-> IF query = <<"host", h.name>> THEN "done" ELSE "hosts"]

-----------------------------------------------------------------------------
(* What the files say, taken from the nested attributes.                   *)
Hosts(state) == {r \in Range(state.resources) : r.type \in HostTypes}
Fips(state)  == FoldLeft(PutIp, {}, state.resources)
HostsNow == UNION {Hosts(tfstate[f]) : f \in DOMAIN Contents}
FipsNow  == UNION {Fips(tfstate[f]) : f \in DOMAIN Contents}

Metadata(r) == IF "metadata" \in DOMAIN r.attrs.map THEN r.attrs.map.metadata ELSE <<>>
OwnAddress(r) ==
    IF r.type = PacketType THEN (CHOOSE p \in r.attrs.list.network[1] : p[1] = "address")[2]
    ELSE IF "prefer_ipv6" \in DOMAIN Metadata(r) /\ Metadata(r).prefer_ipv6 = "1"
         THEN r.attrs.scalar.access_ip_v6 ELSE r.attrs.scalar.access_ip_v4
MemberOf(r) ==
    IF r.type = PacketType THEN {GroupName(p[2]) : p \in UNION Range(r.attrs.list.tags)}
    ELSE {"publicly_routable"} \cup {GroupName(g) : g \in IF "kubespray_groups" \in DOMAIN Metadata(r)
                                                         THEN Metadata(r).kubespray_groups ELSE {""}}

Id(r) == r.attrs.scalar.id

(* What the parsers take for granted of the files.                         *)
FileStates == UNION {Contents[f] : f \in DOMAIN Contents}
TfResources == UNION {Range(s.resources) : s \in FileStates}

InstanceAttrs(r) == {"name", "id", "access_ip_v4", "access_ip_v6"} \subseteq DOMAIN r.attrs.scalar
PacketAttrs(r) ==
    /\ {"hostname", "id"} \subseteq DOMAIN r.attrs.scalar
    /\ {"network", "tags"} \subseteq DOMAIN r.attrs.list /\ "tags" \notin DOMAIN r.attrs.map
    /\ 1 \in DOMAIN r.attrs.list.network
    /\ \E p \in r.attrs.list.network[1] : p[1] = "address"
    /\ \A p, q \in r.attrs.list.network[1] : p[1] = "address" /\ q[1] = "address" => p = q
FipAttrs(r) == {"instance_id", "floating_ip"} \subseteq DOMAIN r.attrs.scalar /\ r.attrs.scalar.floating_ip # ""

ASSUME ContentsAssumption ==
    /\ \A s \in FileStates : s.resources \in Seq(TfResources)
    /\ \A r \in TfResources :
          /\ r.type = InstanceType => InstanceAttrs(r)
          /\ r.type = PacketType => PacketAttrs(r)
          /\ r.type = FipType => FipAttrs(r)

(* What Terraform and its providers promise: no two resources are one      *)
(* host, a host and its floating IPs keep to their files, and an address   *)
(* that a host has of its own while that can change is never a floating    *)
(* one of it.                                                              *)
HostIds(f) == {Id(r) : r \in UNION {Hosts(s) : s \in Contents[f]}}
FipPairs == {FipPair(r) : r \in {x \in TfResources : x.type = FipType}}
FipIds(f) == {FipPair(r)[1] : r \in {x \in UNION {Range(s.resources) : s \in Contents[f]} : x.type = FipType}}

ASSUME IdsAssumption ==
    /\ \A s \in FileStates : \A r, q \in Hosts(s) : Id(r) = Id(q) => r = q
    /\ \A f, g \in DOMAIN Contents :
          HostIds(f) \cap HostIds(g) # {} \/ FipIds(f) \cap FipIds(g) # {} => f = g
    /\ \A r, q \in UNION {Hosts(s) : s \in FileStates} :
          Id(r) = Id(q) => OwnAddress(r) = OwnAddress(q) \/ <<Id(r), OwnAddress(r)>> \notin FipPairs

FloatingFacts == {<<p[1], "address", p[2]>> : p \in FipsNow}
OwnFacts(hosts) == {<<Id(r), "address", OwnAddress(r)>> : r \in hosts}
GroupFacts == UNION {{<<Id(r), "group", g>> : g \in MemberOf(r)} : r \in HostsNow}

(* A host may be reached at its own address or at its floating IP, and     *)
(* should be reached at the latter.                                        *)
Possible == GroupFacts \cup OwnFacts(HostsNow) \cup FloatingFacts
Right == GroupFacts \cup {x \in FloatingFacts : \E r \in HostsNow : Id(r) = x[1]}
                    \cup OwnFacts({r \in HostsNow : \A p \in FipsNow : p[1] # Id(r)})

-----------------------------------------------------------------------------
(* terraform.py is started.                                                *)
BeginQuery ==
    /\ pass \in {"done", "failed"}
    /\ pass' = "ips" /\ place' = 0
    /\ ips' = {} /\ nodes' = <<>>
    /\ tfEver' = Possible /\ tfAlways' = Right
    /\ UNCHANGED <<tfstate, query, walk, applies>>

Reading == tfstate[walk[place + 1]]
LastFile == place + 1 = Len(walk)

(* iterresources: another version of the file is an exception.             *)
ReadUnsupported ==
    /\ pass \in {"ips", "hosts"}
    /\ Reading.version \notin {3, 4}
    /\ pass' = "failed"
    /\ UNCHANGED <<tfstate, query, walk, place, ips, nodes, tfEver, tfAlways, applies>>

ReadIps ==
    /\ pass = "ips" /\ Reading.version \in {3, 4}
    /\ ips' = FoldLeft(PutIp, ips, Reading.resources)
    /\ pass' = IF LastFile THEN "hosts" ELSE "ips"
    /\ place' = IF LastFile THEN 0 ELSE place + 1
    /\ UNCHANGED <<tfstate, query, walk, nodes, tfEver, tfAlways, applies>>

ReadHosts ==
    LET b == FoldLeft(Yield, [nodes |-> nodes, end |-> "hosts"], Reading.resources)
    IN  /\ pass = "hosts" /\ Reading.version \in {3, 4}
        /\ nodes' = b.nodes
        /\ pass' = IF LastFile /\ b.end = "hosts" THEN "done" ELSE b.end
        /\ place' = IF LastFile THEN 0 ELSE place + 1
        /\ UNCHANGED <<tfstate, query, walk, ips, tfEver, tfAlways, applies>>

(* `terraform apply` writes a file.                                        *)
Apply(f, state) ==
    /\ applies < MaxApplies /\ applies' = applies + 1
    /\ tfstate[f] # state
    /\ tfstate' = [tfstate EXCEPT ![f] = state]
    /\ UNCHANGED queryVars
    /\ tfEver' = tfEver \cup Possible'
    /\ tfAlways' = tfAlways \cap Right'

TfIdle ==
    /\ query \in Queries
    /\ walk \in Walks
    /\ pass = "done" /\ place = 0
    /\ ips = {} /\ nodes = <<>>
    /\ tfEver = {} /\ tfAlways = {}
    /\ applies = 0

TfInit ==
    /\ tfstate \in {s \in [DOMAIN Contents -> UNION {Contents[f] : f \in DOMAIN Contents}] :
                      \A f \in DOMAIN Contents : s[f] \in Contents[f]}
    /\ TfIdle

TfNext ==
    \/ BeginQuery \/ ReadUnsupported \/ ReadIps \/ ReadHosts
    \/ \E f \in DOMAIN Contents : \E state \in Contents[f] : Apply(f, state)

TfSpec == TfInit /\ [][TfNext]_tfVars

-----------------------------------------------------------------------------
(* The output.                                                             *)

(* query_host, query_hostfile and the hostvars of query_list, where the    *)
(* last host of a name wins.                                               *)
Output ==
    CASE query[1] = "host"     -> {h \in Range(nodes) : h.name = query[2]}
      [] query[1] = "hostfile" -> Range(nodes)
      [] query[1] = "list"     -> {nodes[i] : i \in {j \in DOMAIN nodes :
                                     \A k \in DOMAIN nodes : nodes[k].name = nodes[j].name => k <= j}}

Said == {<<h.id, "address", h.ssh>> : h \in Output}
        \cup IF query[1] = "list" THEN UNION {{<<h.id, "group", g>> : g \in Members(h)} : h \in Range(nodes)}
             ELSE {}

(* Properties.                                                             *)

TfTypeOK ==
    /\ \A f \in DOMAIN Contents : tfstate[f] \in Contents[f]
    /\ query \in Queries /\ walk \in Walks
    /\ pass \in {"ips", "hosts", "done", "failed"}
    /\ place \in 0 .. Len(walk) - 1
    /\ applies \in 0 .. MaxApplies

(* Although the floating IPs are read in one pass over the files and the   *)
(* hosts in another (terraform.py:435), and Terraform writes in between,   *)
(* an output gives a host no address and no group that it never had, and   *)
(* gives every host that was there all the time the address and the groups *)
(* that it had all the time -- unless two hosts have the same name.        *)
(* A host that has a floating IP but is told not to use it among the nodes *)
(* (use_access_ip = 0, contrib/terraform/openstack/README.md) does not.    *)
Asked(x) ==
    \/ query[1] = "list"
    \/ x[2] = "address" /\ (query[1] = "host" => \E h \in Output : h.id = x[1])

TfReport ==
    pass = "done" /\ (\A i, j \in DOMAIN nodes : nodes[i].name = nodes[j].name => i = j) =>
        /\ Said \subseteq tfEver
        /\ {x \in tfAlways : Asked(x)} \subseteq Said
        /\ \A h \in Output : <<<<"metadata", "use_access_ip">>, "0">> \in h.metadata
                             => \A p \in ips : p[2] # h.access
=============================================================================
