-------------------------- MODULE OpenstackCleanup --------------------------
(***************************************************************************)
(* scripts/openstack-cleanup/main.py, which every CI pipeline starts       *)
(* (.gitlab-ci/terraform.yml:195) to delete what cancelled jobs have left  *)
(* in the OpenStack project, while other jobs create and destroy there.    *)
(*                                                                         *)
(* The cloud is modelled from what the script meets: deleting a server     *)
(* only starts its deletion, deleting what something else uses is refused  *)
(* with an exception, and deleting what is gone already is no error.       *)
(***************************************************************************)
EXTENDS Naturals, Sequences, FiniteSets

(* The order of the loops of main; the first form is wrong, for mutation.  *)
KindsReversed == <<"network", "subnet", "port", "security group", "server">>
Kinds == <<"server", "security group", "port", "subnet", "network">>

CONSTANTS
    Resources,      \* what jobs may create, and what is there from the start
    Given,          \* the latter
    Kind,           \* Kind[r]: one of Kinds
    Uses,           \* Uses[r]: resources that r needs
    Protected,      \* the default security group and the router's networks
    RouterPorts,    \* ports by which a router uses a subnet
    Hours,          \* --hours
    UtcOffset,      \* hours by which the local clock is ahead of UTC
    LastCreation,   \* bound: no job creates anything after this hour
    LastHour        \* bound: the clock stops

ASSUME CleanupAssumption ==
    /\ Given \subseteq Resources /\ Protected \subseteq Given
    /\ Kind \in [Resources -> {"server", "security group", "port", "subnet", "network"}]
    /\ Uses \in [Resources -> SUBSET Resources]
    /\ RouterPorts \subseteq {r \in Resources : Kind[r] = "port"}
    /\ {Hours, UtcOffset, LastCreation, LastHour} \subseteq Nat

VARIABLES
    cloud,      \* what exists
    created,    \* created_at, in UTC
    dying,      \* servers that are being deleted
    now,        \* the hour, in UTC
    stage,      \* index in Kinds of what the script is at, 0 between runs
    todo,       \* listed, and not come to yet
    oldest      \* oldest_allowed of this run

cleanVars == <<cloud, created, dying, now, stage, todo, oldest>>

CleanTypeOK ==
    /\ cloud \subseteq Resources
    /\ created \in [Resources -> 0 .. LastHour]
    /\ dying \subseteq cloud
    /\ now \in 0 .. LastHour
    /\ stage \in 0 .. Len(Kinds)
    /\ todo \subseteq Resources
    /\ oldest \in Nat

-----------------------------------------------------------------------------
InUse(r) == \E x \in cloud : r \in Uses[x]

(* What the cloud refuses to delete.  A port may be taken from its server, *)
(* but a router's port is not for users to delete.                         *)
Refused(r) == IF Kind[r] = "port" THEN r \in RouterPorts ELSE InUse(r)

(* fn_if_old; main makes the exception for external networks itself.  The  *)
(* creation time is in UTC, but datetime.now() is not.                     *)
Expired(r) == r \notin Protected /\ created[r] + Hours < oldest

(* A run begins.                                                           *)
BeginCleanup ==
    /\ stage = 0
    /\ stage' = 1
    /\ todo' = {r \in cloud : Kind[r] = Kinds[1]}
    /\ oldest' = now + UtcOffset
    /\ UNCHANGED <<cloud, created, dying, now>>

(* The next kind is listed when the one before is through.                 *)
NextKind ==
    /\ stage > 0 /\ todo = {}
    /\ stage' = (stage + 1) % (Len(Kinds) + 1)
    /\ todo' = {r \in cloud : stage' > 0 /\ Kind[r] = Kinds[stage']}
    /\ UNCHANGED <<cloud, created, dying, now, oldest>>

SkipOne(r) ==
    /\ r \in todo /\ ~Expired(r)
    /\ todo' = todo \ {r}
    /\ UNCHANGED <<cloud, created, dying, now, stage, oldest>>

DeleteOldServer(r) ==
    /\ r \in todo /\ Expired(r) /\ Kind[r] = "server"
    /\ todo' = todo \ {r}
    /\ dying' = dying \cup ({r} \cap cloud)
    /\ UNCHANGED <<cloud, created, now, stage, oldest>>

(* A port that is deleted under a server leaves the server behind.         *)
DeleteOld(r) ==
    /\ r \in todo /\ Expired(r) /\ Kind[r] # "server"
    /\ r \notin cloud \/ ~Refused(r)
    /\ todo' = todo \ {r}
    /\ cloud' = cloud \ {r}
    /\ UNCHANGED <<created, dying, now, stage, oldest>>

(* The exception of a refused deletion ends the run.                       *)
DeleteRefusedEnds(r) ==
    /\ r \in todo /\ Expired(r) /\ Kind[r] # "server"
    /\ r \in cloud /\ Refused(r)
    /\ stage' = 0
    /\ todo' = {}
    /\ UNCHANGED <<cloud, created, dying, now, oldest>>

Script == \/ BeginCleanup \/ NextKind
          \/ \E r \in Resources : \/ SkipOne(r) \/ DeleteOldServer(r)
                                  \/ DeleteOld(r) \/ DeleteRefusedEnds(r)

-----------------------------------------------------------------------------
(* The cloud and its other users.                                          *)

(* What goes with a server: the ports that were made for it.               *)
OwnPorts(r) == {p \in Uses[r] : Kind[p] = "port"}

ServerGone(r) ==
    /\ r \in dying
    /\ cloud' = cloud \ ({r} \cup OwnPorts(r))
    /\ dying' = dying \ {r}
    /\ UNCHANGED <<created, now, stage, todo, oldest>>

(* A job creates each of its resources once; a server brings its ports,    *)
(* and a router gets one.                                                  *)
ByItself(r) == r \notin Given /\ (Kind[r] = "port" => r \in RouterPorts)

Create(r) ==
    LET new == {r} \cup OwnPorts(r)
    IN  /\ ByItself(r) /\ created[r] = 0
        /\ now > 0 /\ now <= LastCreation
        /\ UNION {Uses[x] : x \in new} \subseteq cloud \cup new
        /\ cloud' = cloud \cup new
        /\ created' = [x \in Resources |-> IF x \in new THEN now ELSE created[x]]
        /\ UNCHANGED <<dying, now, stage, todo, oldest>>

(* `terraform destroy` of a job that is still there to run it.             *)
Destroy(r) ==
    /\ r \in cloud /\ ByItself(r) /\ ~InUse(r)
    /\ cloud' = cloud \ ({r} \cup OwnPorts(r))
    /\ dying' = dying \ {r}
    /\ UNCHANGED <<created, now, stage, todo, oldest>>

Tick ==
    /\ now < LastHour
    /\ now' = now + 1
    /\ UNCHANGED <<cloud, created, dying, stage, todo, oldest>>

CleanInit ==
    /\ cloud = Given
    /\ created = [r \in Resources |-> 0]
    /\ dying = {}
    /\ now = 0
    /\ stage = 0
    /\ todo = {}
    /\ oldest = 0

CleanNext ==
    \/ Script
    \/ \E r \in Resources : ServerGone(r) \/ Create(r) \/ Destroy(r)
    \/ Tick

CleanSpec == CleanInit /\ [][CleanNext]_cleanVars

-----------------------------------------------------------------------------
(* Properties.                                                             *)

(* Whatever jobs leave behind goes, although a deletion may be refused     *)
(* while a server is still on its way out, and every refusal ends the run: *)
(* the refused kind is come to again.  Only a router's port, which the     *)
(* script can neither delete nor pass, keeps what is listed behind it.     *)
Routed == cloud \cap RouterPorts # {}

OrphansGo ==
    <>[](\A r \in cloud : r \in Given \/ (Routed /\ Kind[r] \notin {"server", "security group"}))
=============================================================================
