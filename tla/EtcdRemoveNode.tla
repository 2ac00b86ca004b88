--------------------------- MODULE EtcdRemoveNode ---------------------------
(***************************************************************************)
(* The life of an etcd cluster under both playbooks that change it: the    *)
(* etcd role of cluster.yml (EtcdRole) and remove-node.yml, which removes  *)
(* the member of one host (roles/remove-node/remove-etcd-node) and resets  *)
(* the host (roles/reset), after which the operator strikes it from the    *)
(* inventory (docs/nodes.md, "Removing an etcd node").                     *)
(***************************************************************************)
EXTENDS EtcdRole

CONSTANT ResetNodes     \* reset_nodes: FALSE for a host that is not online

ASSUME RemoveAssumption == ResetNodes \in BOOLEAN

VARIABLES
    target,     \* the host given as -e node=, {} for none
    ids         \* etcd_member_id.stdout: the members whose lines matched

removeVars == <<target, ids>>
allVars == <<vars, removeVars>>

RemoveTasks == {"lookup", "remove", "reset", "removed"}

LifeInit == RoleInit /\ target = {} /\ ids = {}

-----------------------------------------------------------------------------
GiveUp == Abort /\ target' = {} /\ ids' = {}

(* The first host of the group cannot be removed (remove-node.yml:39).     *)
(* With Careful, the operator sees to it that it serves: there the lookup  *)
(* asks, and ignores that there is no answer.                              *)
StartRemove(h) ==
    /\ Idle
    /\ h \in inv /\ h # First(inv)
    /\ runs < MaxRuns
    /\ Careful => CarefulStart /\ Ready(First(inv))
    /\ runs' = runs + 1
    /\ pc' = "lookup"
    /\ target' = {h}
    /\ UNCHANGED <<serverVars, hostType, inv, factVars, crashes, cutOff, ids>>

(* Wrong forms of the definition that follows them, for mutation.          *)
LookupOnTarget ==
    /\ pc = "lookup"
    /\ ids' = UNION {Matches[h] \cap members[data[h]] : h \in {x \in target : Ready(x)}}
    /\ Goto("remove")
    /\ UNCHANGED <<serverVars, factVars, target>>

LookupFirstLine ==
    /\ pc = "lookup"
    /\ ids' = IF Ready(First(inv)) THEN {First(members[data[First(inv)]])} ELSE {}
    /\ Goto("remove")
    /\ UNCHANGED <<serverVars, factVars, target>>

(* `etcdctl member list | grep <ip> | cut -d, -f1` on the first host of    *)
(* the group; its failure is ignored and reads as no member.               *)
Lookup ==
    /\ pc = "lookup"
    /\ ids' = IF Ready(First(inv))
              THEN (UNION {Matches[h] : h \in target}) \cap members[data[First(inv)]]
              ELSE {}
    /\ Goto("remove")
    /\ UNCHANGED <<serverVars, factVars, target>>

RemoveSkipped ==
    /\ pc = "remove"
    /\ Goto("reset")
    /\ UNCHANGED <<serverVars, factVars, removeVars>>

(* `etcdctl member remove` takes exactly one ID; without any, the task is  *)
(* skipped.                                                                *)
RemoveFound ==
    /\ pc = "remove"
    /\ \/ ids = {} /\ UNCHANGED serverVars
       \/ /\ Ready(First(inv))
          /\ \E h \in ids : ids = {h} /\ RemoveMember(data[First(inv)], h)
          /\ UNCHANGED <<conf, enabled, data>>
    /\ Goto("reset")
    /\ UNCHANGED <<factVars, removeVars>>

RemoveFails ==
    /\ pc = "remove"
    /\ ids # {}
    /\ \/ ~Ready(First(inv))
       \/ Cardinality(ids) > 1
       \/ \E h \in ids : LET c == data[First(inv)]
                         IN  ~(HasQuorum(c) /\ h \in members[c] /\ StrictRemove(c, h))
    /\ GiveUp

(* roles/reset stops the services and deletes unit, environment file and   *)
(* data directory; with reset_nodes=false the host is left as it is.       *)
Reset ==
    /\ pc = "reset"
    /\ IF ResetNodes
       THEN /\ conf' = [h \in Hosts |-> IF h \in target THEN NoConf ELSE conf[h]]
            /\ enabled' = enabled \ target
            /\ proc' = [h \in Hosts |-> IF h \in target THEN "down" ELSE proc[h]]
            /\ data' = [h \in Hosts |-> IF h \in target THEN NoData ELSE data[h]]
            /\ stale' = stale \ target
            /\ UNCHANGED <<members, started>>
       ELSE UNCHANGED serverVars
    /\ Goto("removed")
    /\ UNCHANGED <<factVars, removeVars>>

StrikeFromInventory ==
    /\ pc = "removed"
    /\ inv' = inv \ target
    /\ pc' = "idle"
    /\ target' = {} /\ ids' = {}
    /\ UNCHANGED <<serverVars, hostType, factVars, history>>

RemovePlay == Lookup \/ RemoveFound \/ RemoveFails \/ Reset

RemoveInterrupt ==
    /\ Interrupts
    /\ pc \in {"lookup", "remove", "reset"}
    /\ Interrupt
    /\ target' = {} /\ ids' = {}

LifeNext ==
    \/ /\ \/ \E S \in SUBSET Hosts : AddHosts(S)
          \/ StartRun
          \/ Interrupt /\ pc \in Tasks
          \/ Play
          \/ ServerStep
          \/ CrashStep /\ (Careful => pc \notin RemoveTasks)
       /\ UNCHANGED removeVars
    \/ \E h \in Hosts : StartRemove(h)
    \/ RemovePlay
    \/ RemoveInterrupt
    \/ StrikeFromInventory

LifeSpec == LifeInit /\ [][LifeNext]_allVars

-----------------------------------------------------------------------------
(* Properties.                                                             *)

(* When the playbook has ended without an error, the host it was given is  *)
(* no member of any cluster that has served: the operator may shut it down *)
(* without the cluster counting it in its quorum (docs/nodes.md, "Removing *)
(* an etcd node", steps 1 and 5).                                          *)
RemovedIsGone ==
    pc = "removed" =>
        \A c \in Clusters : started[c] # {} => members[c] \cap target = {}

(* The only member a playbook ever removes is that of the host it was      *)
(* given, also when it is run again after it was cut off                   *)
(* (remove-etcd-node/tasks/main.yml:27-47).                                *)
RemovesOnlyTarget ==
    [][\A c \in Clusters : members[c] \ members'[c] \subseteq target]_allVars

(* Removing a host never costs the cluster its quorum: the reset, which    *)
(* stops the server and deletes its data, does not hit a voting member     *)
(* that the remaining ones cannot spare.                                   *)
ResetKeepsQuorum ==
    [][pc = "reset" /\ pc' = "removed" =>
          \A c \in Clusters : HasQuorum(c) => HasQuorum(c)']_allVars

(* The cluster this specification implements: see EtcdMembership.          *)
founder == UNION {c \in Clusters : started[c] # {}}
Abstract == INSTANCE EtcdMembership WITH roster <- members[founder]

(* Seen from its clients, the cluster changes by one member at a time and  *)
(* is never replaced by another one, whatever runs are cut off.            *)
ImplementsMembership == Abstract!Spec
=============================================================================
