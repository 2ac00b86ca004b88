----------------------------- MODULE ToolsProofs -----------------------------
(***************************************************************************)
(* Proofs about the programs that run on their own: library/kube.py        *)
(* (KubeModule), for any objects, tasks, retries and cut-off calls; the    *)
(* inventory of EC2 instances (AwsInventory), for any instances, tags,     *)
(* addresses and number of changes; the clean-up of the OpenStack project  *)
(* (OpenstackCleanup), for any resources, uses among them, age limit and   *)
(* duration; and the synchronisation of the alerting rules (RulesSync),    *)
(* for any alerts, keys and groups of any length.  InventoryProofs has the *)
(* other two.  At the end all six are put together, as Tools does.         *)
(***************************************************************************)
EXTENDS Tools, InventoryProofs

-----------------------------------------------------------------------------
(* The kube module.                                                        *)

(* What an attempt knows: the history is up to date while it runs, and     *)
(* whatever the running kubectl has passed without an error is done.       *)
Seen == kpc \notin Ended => Holding("absent") \subseteq gone /\ Holding("file") \subseteq made

Applying ==
    kpc = "apply" => Applies(args) /\ (rc \/ args.files \subseteq made \cup left)

Deleting ==
    kpc = "delete" => args.state = "absent" /\ (rc \/ Target(args) \subseteq gone \cup left)

Asking == kpc \in {"get", "call"} => ~Applies(args)

KubeInv ==
    /\ KubeTypeOK
    /\ Seen
    /\ Applying
    /\ Deleting
    /\ Asking
    /\ SuccessMeansDone

-----------------------------------------------------------------------------
(* Operators.                                                              *)

LEMMA TaskType ==
  ASSUME NEW t \in TaskArgs
  PROVE  /\ t.state \in States /\ t.files \subseteq Objects /\ t.ns \subseteq Objects
         /\ t.name \subseteq Objects
         /\ t.label \in BOOLEAN /\ t.all \in BOOLEAN
<1>1. t \in Args
  BY KubeAssumption
<1> QED
  BY <1>1 DEF Args

(* A call is about objects of the cluster, and an exists() looks at least  *)
(* where the delete() behind it would.                                     *)
LEMMA TargetSought ==
  ASSUME NEW t \in TaskArgs
  PROVE  Target(t) \subseteq Sought(t) /\ Sought(t) \subseteq Objects
<1>1. t.files \subseteq Objects /\ t.ns \subseteq Objects /\ t.name \subseteq Objects
  BY TaskType
<1> QED
  BY <1>1 DEF Target, Sought, Selects

LEMMA AttemptType == 1 \in 1 .. Attempts /\ Attempts \in Nat
<1>1. Attempts \in Nat \ {0}
  BY KubeAssumption
<1> QED
  BY <1>1

-----------------------------------------------------------------------------
(* The ends of an attempt.                                                 *)

(* The next attempt begins from nothing; giving up keeps the types.        *)
LEMMA FailStep ==
  ASSUME KubeInv, Fail, faults' \in 0 .. MaxFaults, meddling' \in 0 .. MaxMeddling
  PROVE  KubeInv'
<1>0. KubeTypeOK /\ Attempts \in Nat
  BY AttemptType DEF KubeInv
<1>1. CASE attempt < Attempts
  <2>1. /\ kpc' = "main" /\ attempt' = attempt + 1 /\ left' = {} /\ rc' = FALSE
        /\ blind' = FALSE /\ args' = args /\ objs' = objs
        /\ gone' = Holding("absent") /\ made' = Holding("file")
    BY <1>1 DEF Fail
  <2>2. attempt + 1 \in 1 .. Attempts
    BY <1>0, <1>1 DEF KubeTypeOK
  <2>3. KubeTypeOK'
    BY <1>0, <2>1, <2>2 DEF KubeTypeOK, Holding
  <2>4. Seen'
    BY <2>1 DEF Seen, Holding
  <2> QED
    BY <2>1, <2>3, <2>4 DEF KubeInv, Applying, Deleting, Asking, SuccessMeansDone
<1>2. CASE ~(attempt < Attempts)
  <2>1. /\ kpc' = "failed" /\ left' = {} /\ args' = args /\ rc' = rc /\ attempt' = attempt
        /\ blind' = blind /\ objs' = objs /\ gone' = gone /\ made' = made
    BY <1>2 DEF Fail, seenVars
  <2>2. KubeTypeOK'
    BY <1>0, <2>1 DEF KubeTypeOK, Ended
  <2> QED
    BY <2>1, <2>2 DEF KubeInv, Seen, Ended, Applying, Deleting, Asking, SuccessMeansDone
<1> QED
  BY <1>1, <1>2

(* A success is one if the history says so at that moment.                 *)
LEMMA SucceedStep ==
  ASSUME KubeInv, Succeed, blind' \in BOOLEAN, UNCHANGED <<objs, seenVars>>,
         faults' \in 0 .. MaxFaults, meddling' \in 0 .. MaxMeddling,
         Applies(args) => args.files \subseteq made,
         args.state = "absent" /\ ~blind' => Target(args) \subseteq gone
  PROVE  KubeInv'
<1>1. /\ kpc' = "ok" /\ left' = {} /\ args' = args /\ rc' = rc /\ attempt' = attempt
      /\ objs' = objs /\ gone' = gone /\ made' = made
  BY DEF Succeed, seenVars
<1>2. KubeTypeOK'
  BY <1>1 DEF KubeInv, KubeTypeOK, Ended
<1>3. SuccessMeansDone'
  BY <1>1 DEF SuccessMeansDone, Applies, Target, Selects
<1> QED
  BY <1>1, <1>2, <1>3 DEF KubeInv, Seen, Ended, Applying, Deleting, Asking

(* A kubectl call that goes on to its next object: what it passes without  *)
(* an error is in the history.                                             *)
LEMMA NextObject ==
  ASSUME KubeInv, kpc \in {"apply", "delete"}, NEW o \in left,
         left' = left \ {o}, UNCHANGED <<args, kpc, attempt, blind, meddling>>,
         objs' \in [Objects -> {"absent", "other", "file"}],
         gone' \subseteq Objects, made' \subseteq Objects, rc' \in BOOLEAN,
         faults' \in 0 .. MaxFaults,
         gone \subseteq gone', made \subseteq made', rc => rc', Seen',
         kpc = "apply" => rc' \/ o \in made',
         kpc = "delete" => rc' \/ o \in gone'
  PROVE  KubeInv'
<1>1. KubeTypeOK'
  BY DEF KubeInv, KubeTypeOK
<1>2. Applying'
  BY DEF KubeInv, Applying, Applies
<1>3. Deleting'
  <2>1. Target(args)' = Target(args)
    BY DEF Target, Selects
  <2> QED
    BY <2>1 DEF KubeInv, Deleting
<1> QED
  BY <1>1, <1>2, <1>3 DEF KubeInv, Asking, SuccessMeansDone

(* Whatever changes objects and is observed keeps the history up to date.  *)
LEMMA Observed ==
  ASSUME KubeInv, Observe, objs' \in [Objects -> {"absent", "other", "file"}]
  PROVE  /\ Holding("absent")' \subseteq gone' /\ Holding("file")' \subseteq made'
         /\ gone \subseteq gone' /\ made \subseteq made'
         /\ gone' \subseteq Objects /\ made' \subseteq Objects
BY DEF KubeInv, KubeTypeOK, Observe, Holding

-----------------------------------------------------------------------------
(* The invariant.                                                          *)

LEMMA KubeInvInit == KubeInit => KubeInv
<1> SUFFICES ASSUME KubeInit PROVE KubeInv
  OBVIOUS
<1>1. 0 \in 0 .. MaxFaults /\ 0 \in 0 .. MaxMeddling
  BY KubeAssumption
<1>2. KubeTypeOK
  BY <1>1, AttemptType DEF KubeInit, KubeIdle, KubeTypeOK, Ended
<1> QED
  BY <1>2 DEF KubeInit, KubeIdle, KubeInv, Seen, Applying, Deleting, Asking,
              SuccessMeansDone, Ended

LEMMA KubeInvStep == KubeInv /\ [KubeNext]_kubeVars => KubeInv'
<1> SUFFICES ASSUME KubeInv, [KubeNext]_kubeVars PROVE KubeInv'
  OBVIOUS
<1>0. KubeTypeOK /\ MaxFaults \in Nat /\ MaxMeddling \in Nat
  BY KubeAssumption DEF KubeInv
<1>1. ASSUME NEW t \in TaskArgs, StartTask(t) PROVE KubeInv'
  <2>1. /\ args' = t /\ kpc' = "main" /\ attempt' = 1 /\ left' = {} /\ rc' = FALSE
        /\ blind' = FALSE /\ objs' = objs /\ faults' = faults /\ meddling' = meddling
        /\ gone' = Holding("absent") /\ made' = Holding("file")
    BY <1>1 DEF StartTask
  <2>2. KubeTypeOK'
    BY <1>0, <2>1, AttemptType DEF KubeTypeOK, Holding
  <2>3. Seen'
    BY <2>1 DEF Seen, Holding
  <2> QED
    BY <2>1, <2>2, <2>3 DEF KubeInv, Applying, Deleting, Asking, SuccessMeansDone
<1>2. CASE Dispatch
  <2>0. faults' \in 0 .. MaxFaults /\ meddling' \in 0 .. MaxMeddling /\ kpc = "main"
    BY <1>0, <1>2 DEF Dispatch, KubeTypeOK
  <2>1. CASE /\ Applies(args) /\ args.files # {}
             /\ kpc' = "apply" /\ left' = args.files
             /\ UNCHANGED <<args, rc, attempt, blind, objs, seenVars>>
    <3>1. args.files \subseteq Objects
      BY <1>0, TaskType DEF KubeTypeOK
    <3>2. KubeTypeOK'
      BY <1>0, <2>0, <2>1, <3>1 DEF KubeTypeOK, seenVars
    <3>3. Seen'
      BY <2>0, <2>1 DEF KubeInv, Seen, Ended, Holding, seenVars
    <3>4. Applying'
      BY <2>1 DEF Applying, Applies, seenVars
    <3> QED
      BY <2>1, <3>2, <3>3, <3>4 DEF KubeInv, Deleting, Asking, SuccessMeansDone
  <2>2. CASE /\ ~Applies(args)
             /\ kpc' \in {"get", "call"}
             /\ UNCHANGED <<args, left, rc, attempt, blind, objs, seenVars>>
    <3>1. KubeTypeOK'
      BY <1>0, <2>0, <2>2 DEF KubeTypeOK, seenVars
    <3>2. Seen'
      BY <2>0, <2>2 DEF KubeInv, Seen, Ended, Holding, seenVars
    <3>3. Asking'
      BY <2>2 DEF Asking, Applies
    <3> QED
      BY <2>2, <3>1, <3>2, <3>3 DEF KubeInv, Applying, Deleting, SuccessMeansDone
  <2>3. CASE Fail
    BY <2>0, <2>3, FailStep
  <2> QED
    BY <1>2, <2>1, <2>2, <2>3 DEF Dispatch
<1>3. CASE GetFails
  <2>1. faults' \in 0 .. MaxFaults /\ meddling' \in 0 .. MaxMeddling
    BY <1>0, <1>3 DEF GetFails, KubeTypeOK
  <2>2. blind' = TRUE /\ Succeed /\ UNCHANGED <<objs, seenVars>> /\ ~Applies(args)
    BY <1>3 DEF GetFails, KubeInv, Asking
  <2> QED
    BY <2>1, <2>2, SucceedStep
<1>4. CASE GetAnswers
  <2>0. /\ faults' \in 0 .. MaxFaults /\ meddling' \in 0 .. MaxMeddling
        /\ kpc = "get" /\ ~Applies(args) /\ UNCHANGED <<objs, seenVars>>
    BY <1>0, <1>4 DEF GetAnswers, KubeTypeOK, KubeInv, Asking
  <2>1. CASE kpc' = "call" /\ UNCHANGED <<args, left, rc, attempt, blind>>
    <3>1. KubeTypeOK'
      BY <1>0, <2>0, <2>1 DEF KubeTypeOK, seenVars
    <3>2. Seen'
      BY <2>0, <2>1 DEF KubeInv, Seen, Ended, Holding, seenVars
    <3> QED
      BY <2>0, <2>1, <3>1, <3>2
      DEF KubeInv, Applying, Deleting, Asking, Applies, SuccessMeansDone
  <2>2. CASE blind' = (Sought(args) \ Holding("absent") # {}) /\ Succeed
    <3>1. Target(args) \subseteq Sought(args)
      BY <1>0, TargetSought DEF KubeTypeOK
    <3>2. Holding("absent") \subseteq gone
      BY <2>0 DEF KubeInv, Seen, Ended
    <3>3. ~blind' => Target(args) \subseteq gone
      BY <2>2, <3>1, <3>2
    <3>4. blind' \in BOOLEAN
      BY <2>2
    <3> QED
      BY <2>0, <2>2, <3>3, <3>4, SucceedStep
  <2> QED
    BY <1>4, <2>1, <2>2 DEF GetAnswers
<1>5. CASE CallDelete
  <2>0. /\ faults' \in 0 .. MaxFaults /\ meddling' \in 0 .. MaxMeddling
        /\ kpc = "call" /\ args.state = "absent"
    BY <1>0, <1>5 DEF CallDelete, KubeTypeOK
  <2>1. CASE Fail
    BY <2>0, <2>1, FailStep
  <2>2. CASE /\ kpc' = "delete"
             /\ left' \in {Target(args), Target(args) \ Holding("absent")}
             /\ UNCHANGED <<args, rc, attempt, blind, objs, seenVars>>
    <3>1. Target(args) \subseteq Objects
      BY <1>0, TargetSought DEF KubeTypeOK
    <3>2. Holding("absent") \subseteq gone
      BY <2>0 DEF KubeInv, Seen, Ended
    <3>3. KubeTypeOK'
      BY <1>0, <2>0, <2>2, <3>1 DEF KubeTypeOK, seenVars
    <3>4. Seen'
      BY <2>0, <2>2 DEF KubeInv, Seen, Ended, Holding, seenVars
    <3>5. Target(args)' = Target(args)
      BY <2>2 DEF Target, Selects
    <3>6. Deleting'
      BY <2>0, <2>2, <3>2, <3>5 DEF Deleting, seenVars
    <3> QED
      BY <2>2, <3>3, <3>4, <3>6 DEF KubeInv, Applying, Asking, SuccessMeansDone
  <2> QED
    BY <1>5, <2>1, <2>2 DEF CallDelete
<1>6. CASE CallStop
  <2>1. Fail /\ faults' \in 0 .. MaxFaults /\ meddling' \in 0 .. MaxMeddling
    BY <1>0, <1>6 DEF CallStop, KubeTypeOK
  <2> QED
    BY <2>1, FailStep
<1>7. CASE CallEnds
  <2>0. faults' \in 0 .. MaxFaults /\ meddling' \in 0 .. MaxMeddling
    BY <1>0, <1>7 DEF CallEnds, KubeTypeOK
  <2>1. CASE Fail
    BY <2>0, <2>1, FailStep
  <2>2. CASE ~rc /\ Succeed /\ UNCHANGED <<blind, objs, seenVars>>
    <3>1. kpc \in {"apply", "delete"} /\ left = {} /\ blind' \in BOOLEAN
      BY <1>0, <1>7, <2>2 DEF CallEnds, KubeTypeOK
    <3>2. CASE kpc = "apply"
      <4>1. Applies(args) /\ args.files \subseteq made
        BY <2>2, <3>1, <3>2 DEF KubeInv, Applying
      <4>2. args.state # "absent"
        BY <4>1 DEF Applies
      <4> QED
        BY <2>0, <2>2, <3>1, <4>1, <4>2, SucceedStep
    <3>3. CASE kpc = "delete"
      <4>1. args.state = "absent" /\ Target(args) \subseteq gone
        BY <2>2, <3>1, <3>3 DEF KubeInv, Deleting
      <4>2. ~Applies(args)
        BY <4>1 DEF Applies
      <4> QED
        BY <2>0, <2>2, <3>1, <4>1, <4>2, SucceedStep
    <3> QED
      BY <3>1, <3>2, <3>3
  <2> QED
    BY <1>7, <2>1, <2>2 DEF CallEnds
<1>8. ASSUME NEW o \in Objects, ApplyOne(o) PROVE KubeInv'
  <2>1. /\ kpc = "apply" /\ o \in left /\ left' = left \ {o} /\ Observe
        /\ objs' = [objs EXCEPT ![o] = "file"] /\ rc' = rc /\ faults' = faults
        /\ UNCHANGED <<args, kpc, attempt, blind, meddling>>
    BY <1>8 DEF ApplyOne
  <2>2. objs' \in [Objects -> {"absent", "other", "file"}] /\ objs'[o] = "file"
    BY <1>0, <2>1 DEF KubeTypeOK
  <2>3. /\ Seen' /\ o \in made' /\ gone \subseteq gone' /\ made \subseteq made'
        /\ gone' \subseteq Objects /\ made' \subseteq Objects
    BY <2>1, <2>2, Observed DEF Seen, Observe
  <2>4. faults' \in 0 .. MaxFaults /\ rc' \in BOOLEAN
    BY <1>0, <2>1 DEF KubeTypeOK
  <2> QED
    BY <2>1, <2>2, <2>3, <2>4, NextObject
<1>9. ASSUME NEW o \in Objects, DeleteOne(o) PROVE KubeInv'
  <2>1. /\ kpc = "delete" /\ o \in left /\ left' = left \ {o} /\ Observe
        /\ objs' = [objs EXCEPT ![o] = "absent"] /\ faults' = faults
        /\ UNCHANGED <<args, kpc, attempt, blind, meddling>>
    BY <1>9 DEF DeleteOne
  <2>2. objs' \in [Objects -> {"absent", "other", "file"}] /\ objs'[o] = "absent"
    BY <1>0, <2>1 DEF KubeTypeOK
  <2>3. /\ Seen' /\ o \in gone' /\ gone \subseteq gone' /\ made \subseteq made'
        /\ gone' \subseteq Objects /\ made' \subseteq Objects
    BY <2>1, <2>2, Observed DEF Seen, Observe
  <2>4. rc' \in BOOLEAN /\ (rc => rc')
    BY <1>9 DEF DeleteOne
  <2>5. faults' \in 0 .. MaxFaults
    BY <1>0, <2>1 DEF KubeTypeOK
  <2> QED
    BY <2>1, <2>2, <2>3, <2>4, <2>5, NextObject
<1>10. ASSUME NEW o \in Objects, OneFails(o) PROVE KubeInv'
  <2>1. /\ kpc \in {"apply", "delete"} /\ o \in left /\ left' = left \ {o}
        /\ rc' = TRUE /\ faults < MaxFaults /\ faults' = faults + 1
        /\ UNCHANGED <<args, kpc, attempt, blind, meddling>>
        /\ objs' = objs /\ gone' = gone /\ made' = made
    BY <1>10 DEF OneFails, seenVars
  <2>2. faults' \in 0 .. MaxFaults
    BY <1>0, <2>1 DEF KubeTypeOK
  <2>3. Seen'
    BY <2>1 DEF KubeInv, Seen, Ended, Holding
  <2>4. objs \in [Objects -> {"absent", "other", "file"}] /\ gone \subseteq Objects /\ made \subseteq Objects
    BY <1>0 DEF KubeTypeOK
  <2> QED
    BY <2>1, <2>2, <2>3, <2>4, NextObject
<1>11. ASSUME NEW o \in Objects, NEW v \in {"absent", "other"}, Meddle(o, v) PROVE KubeInv'
  <2>1. /\ meddling < MaxMeddling /\ meddling' = meddling + 1 /\ faults' = faults
        /\ objs' = [objs EXCEPT ![o] = v] /\ Observe
        /\ args' = args /\ kpc' = kpc /\ left' = left /\ rc' = rc
        /\ attempt' = attempt /\ blind' = blind
    BY <1>11 DEF Meddle, taskVars
  <2>2. objs' \in [Objects -> {"absent", "other", "file"}] /\ meddling' \in 0 .. MaxMeddling
    BY <1>0, <2>1 DEF KubeTypeOK
  <2>3. /\ Seen' /\ gone \subseteq gone' /\ made \subseteq made'
        /\ gone' \subseteq Objects /\ made' \subseteq Objects
    BY <2>1, <2>2, Observed DEF Seen
  <2>4. KubeTypeOK'
    BY <1>0, <2>1, <2>2, <2>3 DEF KubeTypeOK
  <2>5. Target(args)' = Target(args) /\ Applies(args)' = Applies(args)
    BY <2>1 DEF Target, Selects, Applies
  <2>6. Applying' /\ Deleting' /\ Asking' /\ SuccessMeansDone'
    BY <2>1, <2>3, <2>5 DEF KubeInv, Applying, Deleting, Asking, SuccessMeansDone
  <2> QED
    BY <2>3, <2>4, <2>6 DEF KubeInv
<1>12. CASE UNCHANGED kubeVars
  BY <1>12 DEF kubeVars, taskVars, seenVars, KubeInv, KubeTypeOK, Seen, Holding, Applying,
               Deleting, Asking, Applies, SuccessMeansDone, Target, Selects
<1> QED
  BY <1>1, <1>2, <1>3, <1>4, <1>5, <1>6, <1>7, <1>8, <1>9, <1>10, <1>11, <1>12
  DEF KubeNext, Task

-----------------------------------------------------------------------------
(* Type correctness: attempts stay within the task's retries, and kubectl  *)
(* works on objects of the cluster (library/kube.py).                      *)
THEOREM KubeTypeCorrect == KubeSpec => []KubeTypeOK
<1>1. KubeInv => KubeTypeOK
  BY DEF KubeInv
<1> QED
  BY KubeInvInit, KubeInvStep, <1>1, PTL DEF KubeSpec

(* A task that reports success did what its state asks for, whatever other *)
(* clients do between the calls of kubectl and however many attempts fail  *)
(* half-way, unless exists() (kube.py:264) took an error for absence.      *)
THEOREM SuccessIsDone == KubeSpec => []SuccessMeansDone
<1>1. KubeInv => SuccessMeansDone
  BY DEF KubeInv
<1> QED
  BY KubeInvInit, KubeInvStep, <1>1, PTL DEF KubeSpec

-----------------------------------------------------------------------------
(* The inventory of EC2 instances.                                         *)

ListedNames == Addresses \cup {NoAddress}

(* What is true now has been seen while a report is made.                  *)
Watched == asked < 3 => Current \subseteq ever /\ always \subseteq Current

(* What the queries so far had to find, they have found.                   *)
Found == \A n \in 1 .. 3 : n <= asked =>
            \A h \in ListedNames : <<h, Order[n]>> \in always => h \in hosts[Order[n]]

AwsSaid == UNION {hosts[g] \X {g} : g \in AwsGroups}

AwsInv ==
    /\ AwsTypeOK
    /\ always \subseteq ListedNames \X AwsGroups
    /\ Watched
    /\ Found
    /\ AwsSaid \subseteq ever

-----------------------------------------------------------------------------
(* Groups are asked for once each, in the order of the loop (line 38).     *)
LEMMA OrderType ==
  /\ \A n \in 1 .. 3 : Order[n] \in AwsGroups
  /\ \A g \in AwsGroups : \E n \in 1 .. 3 : g = Order[n]
  /\ \A m, n \in 1 .. 3 : Order[m] = Order[n] => m = n
<1>1. /\ Order[1] = "kube_control_plane" /\ Order[2] = "kube_node" /\ Order[3] = "etcd"
  BY DEF Order
<1>2. \A n \in 1 .. 3 : n = 1 \/ n = 2 \/ n = 3
  OBVIOUS
<1>3. {1, 2, 3} \subseteq 1 .. 3
  OBVIOUS
<1> QED
  BY <1>1, <1>2, <1>3 DEF AwsGroups

(* What is true now, element by element.                                   *)
LEMMA CurrentMember ==
  ASSUME NEW h, NEW g
  PROVE  <<h, g>> \in Current <=>
            \E i \in scope : ec2[i].running /\ h = ec2[i].address /\ g \in ec2[i].role
<1>1. ASSUME <<h, g>> \in Current
      PROVE  \E i \in scope : ec2[i].running /\ h = ec2[i].address /\ g \in ec2[i].role
  <2>1. PICK i \in {x \in scope : ec2[x].running} : <<h, g>> \in {ec2[i].address} \X ec2[i].role
    BY <1>1 DEF Current
  <2> QED
    BY <2>1
<1>2. ASSUME NEW i \in scope, ec2[i].running, h = ec2[i].address, g \in ec2[i].role
      PROVE  <<h, g>> \in Current
  <2>1. <<h, g>> \in {ec2[i].address} \X ec2[i].role
    BY <1>2
  <2> QED
    BY <1>2, <2>1 DEF Current
<1> QED
  BY <1>1, <1>2

LEMMA ScopeType == AwsTypeOK => scope \subseteq Instances
BY AwsAssumption DEF AwsTypeOK

LEMMA CurrentType == AwsTypeOK => Current \subseteq ListedNames \X AwsGroups
<1> SUFFICES ASSUME AwsTypeOK, NEW x \in Current PROVE x \in ListedNames \X AwsGroups
  OBVIOUS
<1>1. PICK i \in {y \in scope : ec2[y].running} : x \in {ec2[i].address} \X ec2[i].role
  BY DEF Current
<1>2. ec2[i] \in Instance
  BY <1>1, ScopeType DEF AwsTypeOK
<1>3. ec2[i].address \in ListedNames /\ ec2[i].role \subseteq AwsGroups
  BY <1>2, AwsAssumption DEF Instance, ListedNames
<1> QED
  BY <1>1, <1>3

(* A query finds exactly what is true of its group at that moment.         *)
LEMMA QueryExact ==
  ASSUME AwsTypeOK, NEW g \in AwsGroups, NEW h
  PROVE  h \in InGroup(g) <=> <<h, g>> \in Current
<1>1. h \in InGroup(g) <=> \E i \in Instances : Matches(i, g) /\ h = ec2[i].address
  BY DEF InGroup
<1> QED
  BY <1>1, ScopeType, CurrentMember DEF Matches

LEMMA AwsSaidMember ==
  ASSUME NEW x
  PROVE  x \in AwsSaid <=> \E g \in AwsGroups : \E h \in hosts[g] : x = <<h, g>>
BY DEF AwsSaid

-----------------------------------------------------------------------------
LEMMA AwsInvInit == AwsInit => AwsInv
<1> SUFFICES ASSUME AwsInit PROVE AwsInv
  OBVIOUS
<1>1. /\ asked = 3 /\ hosts = [g \in AwsGroups |-> {}] /\ ever = {} /\ always = {} /\ changes = 0
  BY DEF AwsInit, AwsIdle
<1>2. AwsTypeOK
  <2>1. 0 \in 0 .. MaxChanges
    BY AwsAssumption
  <2>2. ec2 \in [Instances -> Instance]
    BY DEF AwsInit
  <2>3. public \in BOOLEAN /\ scope \in {Instances, Clustered}
    BY DEF AwsInit
  <2> QED
    BY <1>1, <2>1, <2>2, <2>3 DEF AwsTypeOK
<1>3. AwsSaid = {}
  BY <1>1 DEF AwsSaid
<1> QED
  BY <1>1, <1>2, <1>3 DEF AwsInv, Watched, Found

(* Instances that change during a report keep what it says right: history  *)
(* takes in the new state, and keeps only what is still true.              *)
LEMMA ChangeStep ==
  ASSUME AwsInv, NEW i \in Instances, NEW new \in Instance, Change(i, new)
  PROVE  AwsInv'
<1>1. /\ changes < MaxChanges /\ changes' = changes + 1 /\ ec2' = [ec2 EXCEPT ![i] = new]
      /\ public' = public /\ scope' = scope /\ asked' = asked /\ hosts' = hosts
      /\ ever' = ever \cup Current' /\ always' = always \cap Current'
  BY DEF Change, settingVars, reportVars
<1>2. AwsTypeOK'
  <2>1. changes' \in 0 .. MaxChanges
    BY <1>1, AwsAssumption DEF AwsInv, AwsTypeOK
  <2> QED
    BY <1>1, <2>1 DEF AwsInv, AwsTypeOK
<1>3. AwsSaid' = AwsSaid
  BY <1>1 DEF AwsSaid
<1>4. Watched'
  BY <1>1 DEF Watched
<1>5. Found'
  BY <1>1 DEF AwsInv, Found
<1> QED
  BY <1>1, <1>2, <1>3, <1>4, <1>5 DEF AwsInv

LEMMA AwsInvStep == AwsInv /\ [AwsNext]_awsVars => AwsInv'
<1> SUFFICES ASSUME AwsInv, [AwsNext]_awsVars PROVE AwsInv'
  OBVIOUS
<1>0. AwsTypeOK
  BY DEF AwsInv
<1>1. CASE BeginSearch
  <2>1. /\ asked' = 0 /\ hosts' = [g \in AwsGroups |-> {}]
        /\ ever' = Current /\ always' = Current
        /\ ec2' = ec2 /\ public' = public /\ scope' = scope /\ changes' = changes
    BY <1>1 DEF BeginSearch, settingVars
  <2>2. AwsTypeOK'
    BY <1>0, <2>1 DEF AwsTypeOK
  <2>3. Current' = Current
    BY <2>1 DEF Current
  <2>4. AwsSaid' = {}
    BY <2>1 DEF AwsSaid
  <2>5. Watched'
    BY <2>1, <2>3 DEF Watched
  <2>6. Found'
    BY <2>1 DEF Found
  <2>7. always' \subseteq ListedNames \X AwsGroups
    BY <1>0, <2>1, CurrentType
  <2> QED
    BY <2>2, <2>4, <2>5, <2>6, <2>7 DEF AwsInv
<1>2. CASE SearchGroup
  <2> DEFINE g == Order[asked + 1]
  <2>1. /\ asked < 3 /\ asked' = asked + 1 /\ hosts' = [hosts EXCEPT ![g] = InGroup(g)]
        /\ ec2' = ec2 /\ public' = public /\ scope' = scope /\ changes' = changes
        /\ ever' = ever /\ always' = always
    BY <1>2 DEF SearchGroup, settingVars
  <2>2. asked \in 0 .. 3 /\ asked + 1 \in 1 .. 3
    BY <1>0, <2>1 DEF AwsTypeOK
  <2>3. g \in AwsGroups /\ \A n \in 1 .. 3 : n <= asked => Order[n] # g
    BY <2>2, OrderType
  <2>4. InGroup(g) \subseteq ListedNames
    <3> SUFFICES ASSUME NEW h \in InGroup(g) PROVE h \in ListedNames
      OBVIOUS
    <3>1. <<h, g>> \in Current
      BY <1>0, <2>3, QueryExact
    <3> QED
      BY <1>0, <3>1, CurrentType
  <2>5. AwsTypeOK'
    <3>1. hosts \in [AwsGroups -> SUBSET ListedNames]
      BY <1>0 DEF AwsTypeOK, ListedNames
    <3>2. hosts' \in [AwsGroups -> SUBSET ListedNames]
      BY <2>1, <2>3, <2>4, <3>1
    <3> QED
      BY <1>0, <2>1, <2>2, <3>2 DEF AwsTypeOK, ListedNames
  <2>6. /\ hosts'[g] = InGroup(g)
        /\ \A k \in AwsGroups : k # g => hosts'[k] = hosts[k]
    BY <1>0, <2>1, <2>3 DEF AwsTypeOK
  <2>7. Current \subseteq ever /\ always \subseteq Current
    BY <2>1 DEF AwsInv, Watched
  <2>8. AwsSaid' \subseteq ever'
    <3> SUFFICES ASSUME NEW k \in AwsGroups, NEW h \in hosts'[k] PROVE <<h, k>> \in ever
      BY <2>1 DEF AwsSaid
    <3>1. CASE k = g
      BY <1>0, <2>3, <2>6, <2>7, <3>1, QueryExact
    <3>2. CASE k # g
      <4>1. <<h, k>> \in AwsSaid
        BY <2>6, <3>2 DEF AwsSaid
      <4> QED
        BY <4>1 DEF AwsInv
    <3> QED
      BY <3>1, <3>2
  <2>9. Found'
    <3> SUFFICES ASSUME NEW n \in 1 .. 3, n <= asked + 1, NEW h \in ListedNames, <<h, Order[n]>> \in always
                 PROVE  h \in hosts'[Order[n]]
      BY <2>1 DEF Found
    <3>1. CASE n = asked + 1
      <4>1. h \in InGroup(g)
        BY <1>0, <2>3, <2>7, <3>1, QueryExact
      <4> QED
        BY <2>6, <3>1, <4>1
    <3>2. CASE n # asked + 1
      <4>1. n <= asked
        BY <2>2, <3>2
      <4>2. h \in hosts[Order[n]] /\ Order[n] # g /\ Order[n] \in AwsGroups
        BY <2>3, <4>1, OrderType DEF AwsInv, Found
      <4> QED
        BY <2>6, <4>2
    <3> QED
      BY <3>1, <3>2
  <2>10. Watched'
    <3>1. Current' = Current
      BY <2>1 DEF Current
    <3> QED
      BY <2>1, <2>7, <3>1 DEF Watched
  <2> QED
    BY <2>1, <2>5, <2>8, <2>9, <2>10 DEF AwsInv
<1>3. ASSUME NEW i \in Instances, Stop(i) PROVE AwsInv'
  <2> DEFINE new == [ec2[i] EXCEPT !.running = FALSE, !.address = IF public THEN NoAddress ELSE @]
  <2>1. ec2[i] \in Instance
    BY <1>0 DEF AwsTypeOK
  <2>2. new \in Instance
    BY <2>1 DEF Instance
  <2> QED
    BY <1>3, <2>2, ChangeStep DEF Stop
<1>4. ASSUME NEW i \in Instances, Start(i) PROVE AwsInv'
  <2>1. PICK a \in IF public THEN {NoAddress} \cup (Addresses \ InUseByOther(i)) ELSE {ec2[i].address} :
           Change(i, [ec2[i] EXCEPT !.running = TRUE, !.address = a])
    BY <1>4 DEF Start
  <2>2. ec2[i] \in Instance
    BY <1>0 DEF AwsTypeOK
  <2>3. a \in Addresses \cup {NoAddress}
    BY <2>2 DEF Instance
  <2>4. [ec2[i] EXCEPT !.running = TRUE, !.address = a] \in Instance
    BY <2>2, <2>3 DEF Instance
  <2> QED
    BY <2>1, <2>4, ChangeStep
<1>5. ASSUME NEW i \in Instances, NEW r \in Roles, Retag(i, r) PROVE AwsInv'
  <2>1. ec2[i] \in Instance
    BY <1>0 DEF AwsTypeOK
  <2>2. [ec2[i] EXCEPT !.role = r] \in Instance
    BY <2>1 DEF Instance
  <2> QED
    BY <1>5, <2>2, ChangeStep DEF Retag
<1>6. CASE UNCHANGED awsVars
  BY <1>6 DEF awsVars, settingVars, reportVars, AwsInv, AwsTypeOK, Watched, Found, AwsSaid, Current
<1> QED
  BY <1>1, <1>2, <1>3, <1>4, <1>5, <1>6 DEF AwsNext

-----------------------------------------------------------------------------
(* Type correctness: whatever happens to instances, what a report lists    *)
(* are addresses under the three groups (kubespray-aws-inventory.py:33).   *)
THEOREM AwsTypeCorrect == AwsSpec => []AwsTypeOK
<1>1. AwsInv => AwsTypeOK
  BY DEF AwsInv
<1> QED
  BY AwsInvInit, AwsInvStep, <1>1, PTL DEF AwsSpec

(* Although its queries are made at different moments, a report says of no *)
(* host what was never true during it, and misses nothing that was true    *)
(* all along (kubespray-aws-inventory.py:38).                              *)
THEOREM ReportIsTrue == AwsSpec => []AwsReport
<1>1. AwsInv => AwsReport
  <2> SUFFICES ASSUME AwsInv PROVE AwsReport
    OBVIOUS
  <2>1. ASSUME asked = 3, NEW x \in always PROVE x \in AwsSaid
    <3>1. PICK h \in ListedNames, g \in AwsGroups : x = <<h, g>>
      BY <2>1 DEF AwsInv
    <3>2. PICK n \in 1 .. 3 : g = Order[n]
      BY OrderType
    <3>3. n <= asked
      BY <2>1
    <3>4. h \in hosts[g]
      BY <2>1, <3>1, <3>2, <3>3 DEF AwsInv, Found
    <3> QED
      BY <3>1, <3>4, AwsSaidMember
  <2> QED
    BY <2>1 DEF AwsInv, AwsReport, AwsSaid
<1> QED
  BY AwsInvInit, AwsInvStep, <1>1, PTL DEF AwsSpec

-----------------------------------------------------------------------------
(* The clean-up of the OpenStack project.                                  *)

(* Only servers take time to go.                                           *)
CleanInv ==
    /\ CleanTypeOK
    /\ \A r \in dying : Kind[r] = "server"

-----------------------------------------------------------------------------
LEMMA BoundsType == Hours \in Nat /\ UtcOffset \in Nat /\ LastHour \in Nat
BY CleanupAssumption

LEMMA ResourcesType == Given \subseteq Resources /\ Uses \in [Resources -> SUBSET Resources]
BY CleanupAssumption

LEMMA KindsType == Len(Kinds) = 5
BY DEF Kinds

(* What goes with a server is no server.                                   *)
LEMMA OwnPortsType ==
  ASSUME NEW r \in Resources
  PROVE  OwnPorts(r) \subseteq Resources /\ \A p \in OwnPorts(r) : Kind[p] = "port"
<1>1. Uses[r] \subseteq Resources
  BY ResourcesType
<1> QED
  BY <1>1 DEF OwnPorts

LEMMA CleanInvInit == CleanInit => CleanInv
<1> SUFFICES ASSUME CleanInit PROVE CleanInv
  OBVIOUS
<1>1. 0 \in 0 .. LastHour /\ 0 \in 0 .. Len(Kinds)
  BY BoundsType, KindsType
<1>2. created \in [Resources -> 0 .. LastHour]
  BY <1>1 DEF CleanInit
<1>3. CleanTypeOK
  BY <1>1, <1>2, ResourcesType DEF CleanInit, CleanTypeOK
<1> QED
  BY <1>3 DEF CleanInit, CleanInv

(* What the script does to the cloud, and to its own place.                *)
LEMMA ScriptStep == CleanInv /\ Script => CleanInv'
<1> SUFFICES ASSUME CleanInv, Script PROVE CleanInv'
  OBVIOUS
<1>0. CleanTypeOK /\ now \in Nat /\ LastHour \in Nat
  BY BoundsType DEF CleanInv, CleanTypeOK
<1>1. CASE BeginCleanup
  <2>1. /\ stage' = 1 /\ todo' = {r \in cloud : Kind[r] = Kinds[1]} /\ oldest' = now + UtcOffset
        /\ cloud' = cloud /\ created' = created /\ dying' = dying /\ now' = now
    BY <1>1 DEF BeginCleanup
  <2>2. oldest' \in Nat /\ stage' \in 0 .. Len(Kinds)
    BY <1>0, <2>1, BoundsType, KindsType
  <2>3. todo' \subseteq Resources
    BY <1>0, <2>1 DEF CleanTypeOK
  <2> QED
    BY <2>1, <2>2, <2>3 DEF CleanInv, CleanTypeOK
<1>2. CASE NextKind
  <2>1. /\ stage' = (stage + 1) % (Len(Kinds) + 1)
        /\ todo' = {r \in cloud : stage' > 0 /\ Kind[r] = Kinds[stage']}
        /\ cloud' = cloud /\ created' = created /\ dying' = dying /\ now' = now /\ oldest' = oldest
    BY <1>2 DEF NextKind
  <2>2. stage \in 0 .. 5
    BY <1>0, KindsType DEF CleanTypeOK
  <2>3. stage' = (stage + 1) % 6
    BY <2>1, KindsType
  <2>4. stage' \in 0 .. Len(Kinds)
    BY <2>2, <2>3, KindsType
  <2>5. todo' \subseteq Resources
    BY <1>0, <2>1 DEF CleanTypeOK
  <2> QED
    BY <2>1, <2>4, <2>5 DEF CleanInv, CleanTypeOK
<1>3. ASSUME NEW r \in Resources, SkipOne(r) PROVE CleanInv'
  BY <1>3 DEF SkipOne, CleanInv, CleanTypeOK
<1>4. ASSUME NEW r \in Resources, DeleteOldServer(r) PROVE CleanInv'
  BY <1>4 DEF DeleteOldServer, CleanInv, CleanTypeOK
<1>5. ASSUME NEW r \in Resources, DeleteOld(r) PROVE CleanInv'
  BY <1>5 DEF DeleteOld, CleanInv, CleanTypeOK
<1>6. ASSUME NEW r \in Resources, DeleteRefusedEnds(r) PROVE CleanInv'
  <2>1. 0 \in 0 .. Len(Kinds)
    BY KindsType
  <2> QED
    BY <1>6, <2>1 DEF DeleteRefusedEnds, CleanInv, CleanTypeOK
<1> QED
  BY <1>1, <1>2, <1>3, <1>4, <1>5, <1>6 DEF Script

LEMMA CleanInvStep == CleanInv /\ [CleanNext]_cleanVars => CleanInv'
<1> SUFFICES ASSUME CleanInv, [CleanNext]_cleanVars PROVE CleanInv'
  OBVIOUS
<1>0. CleanTypeOK
  BY DEF CleanInv
<1>1. CASE Script
  BY <1>1, ScriptStep
<1>2. ASSUME NEW r \in Resources, ServerGone(r) PROVE CleanInv'
  <2>1. /\ cloud' = cloud \ ({r} \cup OwnPorts(r)) /\ dying' = dying \ {r}
        /\ created' = created /\ now' = now /\ stage' = stage /\ todo' = todo /\ oldest' = oldest
    BY <1>2 DEF ServerGone
  <2>2. dying' \subseteq cloud'
    BY <1>0, <2>1, OwnPortsType DEF CleanInv, CleanTypeOK
  <2> QED
    BY <2>1, <2>2 DEF CleanInv, CleanTypeOK
<1>3. ASSUME NEW r \in Resources, Create(r) PROVE CleanInv'
  <2> DEFINE new == {r} \cup OwnPorts(r)
  <2>1. /\ cloud' = cloud \cup new
        /\ created' = [x \in Resources |-> IF x \in new THEN now ELSE created[x]]
        /\ dying' = dying /\ now' = now /\ stage' = stage /\ todo' = todo /\ oldest' = oldest
    BY <1>3 DEF Create
  <2>2. cloud' \subseteq Resources
    BY <1>0, <2>1, OwnPortsType DEF CleanTypeOK
  <2>3. created' \in [Resources -> 0 .. LastHour]
    BY <1>0, <2>1 DEF CleanTypeOK
  <2> QED
    BY <2>1, <2>2, <2>3 DEF CleanInv, CleanTypeOK
<1>4. ASSUME NEW r \in Resources, Destroy(r) PROVE CleanInv'
  <2>1. /\ cloud' = cloud \ ({r} \cup OwnPorts(r)) /\ dying' = dying \ {r}
        /\ created' = created /\ now' = now /\ stage' = stage /\ todo' = todo /\ oldest' = oldest
    BY <1>4 DEF Destroy
  <2>2. dying' \subseteq cloud'
    BY <1>0, <2>1, OwnPortsType DEF CleanInv, CleanTypeOK
  <2> QED
    BY <2>1, <2>2 DEF CleanInv, CleanTypeOK
<1>5. CASE Tick
  <2>1. /\ now < LastHour /\ now' = now + 1 /\ cloud' = cloud /\ created' = created
        /\ dying' = dying /\ stage' = stage /\ todo' = todo /\ oldest' = oldest
    BY <1>5 DEF Tick
  <2>2. now' \in 0 .. LastHour
    BY <1>0, <2>1, BoundsType DEF CleanInv, CleanTypeOK
  <2> QED
    BY <2>1, <2>2 DEF CleanInv, CleanTypeOK
<1>6. CASE UNCHANGED cleanVars
  BY <1>6 DEF cleanVars, CleanInv, CleanTypeOK
<1> QED
  BY <1>1, <1>2, <1>3, <1>4, <1>5, <1>6 DEF CleanNext

-----------------------------------------------------------------------------
(* Type correctness: only servers are on their way out, each run stays     *)
(* within the five kinds, and nothing is listed that is not a resource of  *)
(* the project (openstack-cleanup/main.py:27).                             *)
THEOREM CleanTypeCorrect == CleanSpec => []CleanTypeOK
<1>1. CleanInv => CleanTypeOK
  BY DEF CleanInv
<1> QED
  BY CleanInvInit, CleanInvStep, <1>1, PTL DEF CleanSpec

-----------------------------------------------------------------------------
(* The rules: texts.                                                       *)

(* What the lines of a template can be.                                    *)
Line == [line : {"alert", "record", "if", "end", "labels"}, of : DOMAIN BeginsWith \cup {"", "labels"}]
Text == Seq(Line)

LEMMA JoinIs ==
  ASSUME NEW p \in Text, NEW q \in Text
  PROVE  /\ p \o q \in Text
         /\ Len(p \o q) = Len(p) + Len(q)
         /\ Len(p) \in Nat /\ Len(q) \in Nat
         /\ \A i \in 1 .. Len(p) : (p \o q)[i] = p[i]
         /\ \A i \in 1 .. Len(q) : (p \o q)[Len(p) + i] = q[i]
         /\ Range(p \o q) = Range(p) \cup Range(q)
<1>1. Len(p) \in Nat /\ Len(q) \in Nat
  BY DEF Text
<1>2. /\ p \o q \in Seq(Line) /\ Len(p \o q) = Len(p) + Len(q)
      /\ \A i \in 1 .. Len(p) + Len(q) : (p \o q)[i] = IF i <= Len(p) THEN p[i] ELSE q[i - Len(p)]
  BY ConcatProperties DEF Text
<1>3. \A i \in 1 .. Len(p) : (p \o q)[i] = p[i]
  BY <1>1, <1>2
<1>4. ASSUME NEW i \in 1 .. Len(q) PROVE (p \o q)[Len(p) + i] = q[i]
  <2>1. Len(p) + i \in 1 .. Len(p) + Len(q) /\ ~(Len(p) + i <= Len(p)) /\ (Len(p) + i) - Len(p) = i
    BY <1>1
  <2> QED
    BY <1>2, <2>1
<1>5. Range(p \o q) = Range(p) \cup Range(q)
  BY RangeConcatenation DEF Text
<1> QED
  BY <1>1, <1>2, <1>3, <1>4, <1>5 DEF Text

LEMMA JoinLen ==
  ASSUME NEW p \in Text, NEW q \in Text
  PROVE  p \o q \in Text /\ Len(p \o q) = Len(p) + Len(q)
BY JoinIs

LEMMA JoinLines ==
  ASSUME NEW p \in Text, NEW q \in Text
  PROVE  /\ \A i \in 1 .. Len(p) : (p \o q)[i] = p[i]
         /\ \A i \in 1 .. Len(q) : (p \o q)[Len(p) + i] = q[i]
BY JoinIs

LEMMA TextType ==
  ASSUME NEW s \in Text
  PROVE  Len(s) \in Nat /\ DOMAIN s = 1 .. Len(s) /\ \A i \in 1 .. Len(s) : s[i] \in Line
BY DEF Text

(* A text can be cut anywhere, and Insert writes between the two parts.    *)
LEMMA Split ==
  ASSUME NEW s \in Text, NEW k \in 0 .. Len(s)
  PROVE  \E p, q \in Text : s = p \o q /\ Len(p) = k
<1> DEFINE p == SubSeq(s, 1, k)
           q == SubSeq(s, k + 1, Len(s))
<1>1. p \in Text /\ Len(p) = k /\ q \in Text /\ s \in Seq(Line)
  BY DEF Text
<1>2. 1 \in 1 .. Len(s) + 1 /\ k \in 1 - 1 .. Len(s) /\ Len(s) \in k .. Len(s)
  BY DEF Text
<1>3. p \o q = SubSeq(s, 1, Len(s))
  BY ONLY <1>1, <1>2, ConcatAdjacentSubSeq
<1>4. SubSeq(s, 1, Len(s)) = s
  BY SubSeqFull DEF Text
<1> QED
  BY <1>1, <1>3, <1>4

LEMMA InsertBetween ==
  ASSUME NEW p \in Text, NEW q \in Text, NEW t
  PROVE  Insert(p \o q, Len(p) + 1, t) = p \o t \o q
<1> DEFINE s == p \o q
           m == Len(p)
           n == Len(q)
<1>1. s \in Text /\ Len(s) = m + n /\ m \in Nat /\ n \in Nat
  BY JoinIs
<1>2. \A i \in 1 .. m : s[i] = p[i]
  BY JoinIs
<1>3. \A i \in 1 .. n : s[m + i] = q[i]
  BY JoinIs
<1> HIDE DEF s
<1>4. SubSeq(s, 1, m) = p
  <2>1. SubSeq(s, 1, m) \in Seq(Line) /\ Len(SubSeq(s, 1, m)) = m /\ \A i \in 1 .. m : SubSeq(s, 1, m)[i] = s[i]
    BY <1>1 DEF Text
  <2> QED
    BY <1>1, <1>2, <2>1, SeqEqual DEF Text
<1>5. SubSeq(s, m + 1, m + n) = q
  <2>1. /\ SubSeq(s, m + 1, m + n) \in Seq(Line) /\ Len(SubSeq(s, m + 1, m + n)) = n
        /\ \A i \in 1 .. n : SubSeq(s, m + 1, m + n)[i] = s[m + i]
    <3>1. \A i \in (m + 1) .. (m + n) : s[i] \in Line
      BY <1>1 DEF Text
    <3>2. \A i \in 1 .. (m + n) - (m + 1) + 1 : SubSeq(s, m + 1, m + n)[i] = s[(m + 1) + i - 1]
      BY <1>1, <3>1, SubSeqProperties
    <3>3. ASSUME NEW i \in 1 .. n PROVE SubSeq(s, m + 1, m + n)[i] = s[m + i]
      <4>1. i \in 1 .. (m + n) - (m + 1) + 1 /\ (m + 1) + i - 1 = m + i
        BY <1>1
      <4> QED
        BY <3>2, <4>1
    <3>4. SubSeq(s, m + 1, m + n) \in Seq(Line) /\ Len(SubSeq(s, m + 1, m + n)) = n
      BY <1>1, <3>1, SubSeqProperties
    <3> QED
      BY <3>3, <3>4
  <2> QED
    BY <1>1, <1>3, <2>1, SeqEqual DEF Text
<1>6. Insert(s, m + 1, t) = SubSeq(s, 1, (m + 1) - 1) \o t \o SubSeq(s, m + 1, Len(s))
  BY DEF Insert
<1>7. (m + 1) - 1 = m
  BY <1>1
<1> HIDE DEF m, n
<1>8. Insert(s, m + 1, t) = p \o t \o q
  BY ONLY <1>1, <1>4, <1>5, <1>6, <1>7
<1> QED
  BY <1>8 DEF s, m

LEMMA InsertIs ==
  ASSUME NEW s \in Text, NEW i \in 1 .. Len(s) + 1, NEW t \in Text
  PROVE  /\ Insert(s, i, t) \in Text
         /\ Len(Insert(s, i, t)) = Len(s) + Len(t)
         /\ Range(Insert(s, i, t)) = Range(s) \cup Range(t)
<1>1. Len(s) \in Nat /\ i - 1 \in 0 .. Len(s) /\ (i - 1) + 1 = i
  BY DEF Text
<1>2. PICK p \in Text, q \in Text : s = p \o q /\ Len(p) = i - 1
  BY <1>1, Split
<1>3. Insert(s, i, t) = (p \o t) \o q
  <2>1. Len(p) + 1 = i
    BY <1>1, <1>2
  <2>2. Insert(p \o q, Len(p) + 1, t) = (p \o t) \o q
    BY InsertBetween
  <2> QED
    BY <1>2, <2>1, <2>2
<1>4. p \o t \in Text /\ Len(p \o t) = Len(p) + Len(t) /\ Range(p \o t) = Range(p) \cup Range(t)
  BY JoinIs
<1>5. /\ (p \o t) \o q \in Text /\ Len((p \o t) \o q) = Len(p \o t) + Len(q)
      /\ Range((p \o t) \o q) = Range(p \o t) \cup Range(q)
  BY <1>4, JoinIs
<1>6. Len(s) = Len(p) + Len(q) /\ Range(s) = Range(p) \cup Range(q)
  BY <1>2, JoinIs
<1>7. Len(p) \in Nat /\ Len(q) \in Nat /\ Len(t) \in Nat
  BY DEF Text
<1> QED
  BY <1>3, <1>4, <1>5, <1>6, <1>7

LEMMA CutIs ==
  ASSUME NEW s \in Text, NEW k \in 0 .. Len(s)
  PROVE  /\ SubSeq(s, 1, k) \in Text /\ Len(SubSeq(s, 1, k)) = k
         /\ SubSeq(s, k + 1, Len(s)) \in Text
         /\ s = SubSeq(s, 1, k) \o SubSeq(s, k + 1, Len(s))
<1>1. s \in Seq(Line) /\ Len(s) \in Nat
  BY DEF Text
<1>2. SubSeq(s, 1, k) \in Text /\ Len(SubSeq(s, 1, k)) = k /\ SubSeq(s, k + 1, Len(s)) \in Text
  BY <1>1 DEF Text
<1>3. SubSeq(s, 1, Len(s)) = s
  BY <1>1, SubSeqFull
<1>4. 1 \in 1 .. Len(s) + 1 /\ k \in 1 - 1 .. Len(s) /\ Len(s) \in k .. Len(s)
  BY <1>1
<1>5. SubSeq(s, 1, k) \o SubSeq(s, k + 1, Len(s)) = SubSeq(s, 1, Len(s))
  BY ONLY <1>1, <1>4, ConcatAdjacentSubSeq
<1> QED
  BY <1>2, <1>3, <1>5

LEMMA PrefixIs ==
  ASSUME NEW s \in Text, NEW k \in 1 .. Len(s)
  PROVE  SubSeq(s, 1, k) = SubSeq(s, 1, k - 1) \o <<s[k]>>
<1>1. s \in Seq(Line) /\ Len(s) \in Nat
  BY DEF Text
<1>2. 1 \in 1 .. Len(s) /\ k \in 1 .. Len(s)
  BY <1>1
<1> QED
  BY ONLY <1>1, <1>2, SubSeqRecursiveSecond

LEMMA SuffixIs ==
  ASSUME NEW s \in Text, NEW k \in 1 .. Len(s)
  PROVE  SubSeq(s, k, Len(s)) = <<s[k]>> \o SubSeq(s, k + 1, Len(s))
<1>1. s \in Seq(Line) /\ Len(s) \in Nat
  BY DEF Text
<1>2. k \in 1 .. Len(s) /\ Len(s) \in k .. Len(s)
  BY <1>1
<1> QED
  BY ONLY <1>1, <1>2, SubSeqRecursiveFirst

LEMMA JoinAssociative ==
  ASSUME NEW p \in Text, NEW q \in Text, NEW r \in Text
  PROVE  (p \o q) \o r = p \o (q \o r)
BY ConcatAssociative DEF Text

(* A text with one block in the middle.                                    *)
Parts(s, p, b, q) ==
    /\ s \in Text /\ Len(s) = Len(p) + Len(b) + Len(q)
    /\ \A i \in 1 .. Len(p) : s[i] = p[i]
    /\ \A i \in 1 .. Len(b) : s[Len(p) + i] = b[i]
    /\ \A i \in 1 .. Len(q) : s[Len(p) + Len(b) + i] = q[i]

LEMMA ThreeParts ==
  ASSUME NEW p \in Text, NEW b \in Text, NEW q \in Text
  PROVE  Parts((p \o b) \o q, p, b, q)
<1> DEFINE s == (p \o b) \o q
<1> SUFFICES Parts(s, p, b, q)
  OBVIOUS
<1>1. Len(p) \in Nat /\ Len(b) \in Nat /\ Len(q) \in Nat
  BY TextType
<1> DEFINE f == p \o b
<1>2. f \in Text /\ Len(f) = Len(p) + Len(b)
  BY JoinLen
<1>3. /\ \A i \in 1 .. Len(p) : f[i] = p[i]
      /\ \A i \in 1 .. Len(b) : f[Len(p) + i] = b[i]
  BY JoinLines
<1> HIDE DEF f
<1>4. s = f \o q
  BY DEF f
<1> HIDE DEF s
<1>5. s \in Text /\ Len(s) = Len(f) + Len(q)
  BY ONLY q \in Text, <1>2, <1>4, JoinLen
<1>6. /\ \A i \in 1 .. Len(f) : s[i] = f[i]
      /\ \A i \in 1 .. Len(q) : s[Len(f) + i] = q[i]
  BY ONLY q \in Text, <1>2, <1>4, JoinLines
<1>7. \A i \in 1 .. Len(p) : s[i] = p[i]
  <2> SUFFICES ASSUME NEW i \in 1 .. Len(p) PROVE s[i] = p[i]
    OBVIOUS
  <2>1. i \in 1 .. Len(f)
    BY <1>1, <1>2
  <2> QED
    BY ONLY i \in 1 .. Len(p), <2>1, <1>3, <1>6
<1>8. \A i \in 1 .. Len(b) : s[Len(p) + i] = b[i]
  <2> SUFFICES ASSUME NEW i \in 1 .. Len(b) PROVE s[Len(p) + i] = b[i]
    OBVIOUS
  <2>1. Len(p) + i \in 1 .. Len(f)
    BY <1>1, <1>2
  <2> QED
    BY ONLY i \in 1 .. Len(b), <2>1, <1>3, <1>6
<1>9. \A i \in 1 .. Len(q) : s[Len(p) + Len(b) + i] = q[i]
  BY ONLY <1>2, <1>6
<1>10. Len(s) = Len(p) + Len(b) + Len(q)
  BY ONLY <1>2, <1>5
<1> QED
  BY ONLY <1>5, <1>7, <1>8, <1>9, <1>10 DEF Parts

LEMMA MinIs ==
  ASSUME NEW S \in SUBSET Nat, S # {}
  PROVE  Min(S) \in S /\ \A y \in S : Min(S) <= y
<1>1. Min(S) \in S
  BY LeastIn
<1>2. PICK x \in S : \A y \in S : x <= y
  <2> SUFFICES ASSUME \A x \in S : \E y \in S : ~(x <= y) PROVE FALSE
    OBVIOUS
  <2> DEFINE None == {m \in Nat : \A x \in 0 .. m : x \notin S}
  <2>1. 0 \in None
    OBVIOUS
  <2>2. ASSUME NEW m \in Nat, m \in None PROVE m + 1 \in None
    BY <2>2
  <2> HIDE DEF None
  <2>3. Nat \subseteq None
    BY <2>1, <2>2, Induction
  <2>4. PICK x \in S : x \in Nat
    OBVIOUS
  <2>5. x \in None
    BY <2>3, <2>4
  <2> QED
    BY <2>4, <2>5 DEF None
<1> QED
  BY <1>1, <1>2 DEF Min

LEMMA MinOf ==
  ASSUME NEW S \in SUBSET Nat, NEW x \in S, \A y \in S : x <= y
  PROVE  Min(S) = x
<1>1. Min(S) \in S /\ Min(S) <= x
  BY MinIs
<1>2. x <= Min(S) /\ x \in Nat /\ Min(S) \in Nat
  BY <1>1
<1> QED
  BY ONLY <1>1, <1>2

(* The lines that the script writes.                                       *)
LEMMA ThreeIs ==
  ASSUME NEW a \in Line, NEW b \in Line, NEW c \in Line
  PROVE  /\ <<a, b, c>> \in Text /\ Len(<<a, b, c>>) = 3
         /\ <<a, b, c>>[1] = a /\ <<a, b, c>>[2] = b /\ <<a, b, c>>[3] = c
BY DEF Text

LEMMA LinesIs ==
  /\ \A a \in DOMAIN BeginsWith : Alert(a) \in Line /\ If(a) \in Line /\ <<If(a)>> \in Text
  /\ EndIf \in Line /\ Recording \in Line /\ <<EndIf>> \in Text
  /\ Labels \in Text /\ Len(Labels) = 3
  /\ Range(ConditionMap) \subseteq DOMAIN BeginsWith
<1>1. \A a \in DOMAIN BeginsWith : Alert(a) \in Line /\ If(a) \in Line
  BY DEF Line, Alert, If
<1>2. EndIf \in Line /\ Recording \in Line
  BY DEF Line, EndIf, Recording
<1>3. Labels \in Text /\ Len(Labels) = 3
  <2>1. [line |-> "if", of |-> "labels"] \in Line /\ [line |-> "labels", of |-> ""] \in Line
    BY DEF Line
  <2> QED
    BY <1>2, <2>1, ThreeIs DEF Labels
<1>4. Range(ConditionMap) \subseteq DOMAIN BeginsWith
  BY RulesAssumption, RangeOfSeq
<1> QED
  BY <1>1, <1>2, <1>3, <1>4 DEF Text

(* A key's condition goes in at a place that is in the text, and takes     *)
(* nothing out, whatever the text looks like.                              *)
LEMMA WrapIs ==
  ASSUME NEW s \in Text, NEW key \in DOMAIN BeginsWith
  PROVE  Wrap(s, key) \in Text /\ Range(s) \subseteq Range(Wrap(s, key))
<1> DEFINE found == {i \in Alerts(s) : key \in BeginsWith[s[i].of]}
           index == Min(found)
           open  == Insert(s, index, <<If(key)>>)
           nexts == {Len(open) + 1} \cup {i \in Alerts(open) : i > index + 1}
           next  == Min(nexts)
           ends  == {e \in index + 2 .. next : \A i \in e .. next - 1 : open[i].line = "if"}
           end   == Min(ends)
<1>1. CASE found = {}
  BY <1>1 DEF Wrap
<1>2. CASE found # {}
  <2>1. found \subseteq 1 .. Len(s) /\ Len(s) \in Nat /\ found \subseteq Nat
    BY DEF Alerts, Text
  <2>2. index \in 1 .. Len(s)
    BY <1>2, <2>1, MinIs
  <2> HIDE DEF index
  <2>3. open \in Text /\ Len(open) = Len(s) + 1 /\ Range(s) \subseteq Range(open)
    <3>1. index \in 1 .. Len(s) + 1 /\ <<If(key)>> \in Text /\ Len(<<If(key)>>) = 1
      BY <2>1, <2>2, LinesIs
    <3> DEFINE t == <<If(key)>>
    <3> HIDE DEF t
    <3>2. t \in Text /\ Len(t) = 1
      BY <3>1 DEF t
    <3>3. /\ Insert(s, index, t) \in Text /\ Len(Insert(s, index, t)) = Len(s) + Len(t)
          /\ Range(Insert(s, index, t)) = Range(s) \cup Range(t)
      BY ONLY s \in Text, <3>1, <3>2, InsertIs
    <3> QED
      BY <3>2, <3>3 DEF t
  <2> HIDE DEF open
  <2>4. nexts \subseteq index + 2 .. Len(open) + 1 /\ nexts # {}
    <3>1. DOMAIN open = 1 .. Len(open)
      BY <2>3 DEF Text
    <3> QED
      BY <2>1, <2>2, <2>3, <3>1 DEF Alerts
  <2>5. next \in index + 2 .. Len(open) + 1
    <3>1. nexts \subseteq Nat
      BY <2>1, <2>2, <2>3, <2>4
    <3> HIDE DEF nexts
    <3> QED
      BY <2>4, <3>1, MinIs
  <2> HIDE DEF next
  <2>6. next \in ends /\ ends \subseteq Nat
    BY <2>1, <2>2, <2>3, <2>5
  <2>7. end \in 1 .. Len(open) + 1
    <3>1. ends \subseteq index + 2 .. next
      OBVIOUS
    <3> HIDE DEF ends
    <3>2. end \in ends
      <4>1. ends \in SUBSET Nat /\ ends # {}
        BY <2>6
      <4> QED
        BY ONLY <4>1, MinIs
    <3>3. end \in index + 2 .. next
      BY ONLY <3>1, <3>2
    <3>4. Len(open) \in Nat /\ index \in Nat /\ next \in Nat /\ next <= Len(open) + 1
      BY <2>1, <2>2, <2>3, <2>5
    <3> HIDE DEF end
    <3> QED
      BY ONLY <3>3, <3>4
  <2> HIDE DEF end
  <2>8. Insert(open, end, <<EndIf>>) \in Text /\ Range(open) \subseteq Range(Insert(open, end, <<EndIf>>))
    <3> DEFINE t == <<EndIf>>
    <3>1. t \in Text
      BY LinesIs
    <3> HIDE DEF t
    <3>2. Insert(open, end, t) \in Text /\ Range(Insert(open, end, t)) = Range(open) \cup Range(t)
      BY ONLY <2>3, <2>7, <3>1, InsertIs
    <3> QED
      BY <3>2 DEF t
  <2>9. Wrap(s, key) = Insert(open, end, <<EndIf>>)
    BY <1>2 DEF Wrap, open, end, next, index, ends, nexts
  <2> QED
    BY <2>3, <2>8, <2>9
<1> QED
  BY <1>1, <1>2

(* What add_custom_labels carries along for a group of n lines.            *)
Labelling(n) == {b \in [rules : Text, alert : Nat] :
                    Len(b.rules) = n + 3 * (IF b.alert >= 1 THEN b.alert - 1 ELSE 0)}

(* The position that an alert had among the rules, moved by the blocks     *)
(* before it, is still in the text.                                        *)
LEMMA LabelIs ==
  ASSUME NEW n \in Nat, NEW b \in Labelling(n), NEW i \in 1 .. n
  PROVE  LabelBefore(b, i) \in Labelling(n) /\ Range(b.rules) \subseteq Range(LabelBefore(b, i).rules)
<1>1. b.rules \in Text /\ b.alert \in Nat
  BY DEF Labelling
<1>2. Labels \in Text /\ Len(Labels) = 3
  BY LinesIs
<1>3. CASE b.alert >= 1
  <2> DEFINE at == i + 3 * (b.alert - 1)
             new == Insert(b.rules, at, Labels)
  <2>1. Len(b.rules) = n + 3 * (b.alert - 1)
    BY <1>3 DEF Labelling
  <2>2. at \in 1 .. Len(b.rules) + 1
    BY <1>1, <1>3, <2>1
  <2>3. LabelBefore(b, i) = [rules |-> new, alert |-> b.alert + 1]
    BY <1>2, <1>3 DEF LabelBefore
  <2> HIDE DEF at
  <2>4. new \in Text /\ Len(new) = Len(b.rules) + 3 /\ Range(b.rules) \subseteq Range(new)
    <3> DEFINE s == b.rules
    <3> HIDE DEF s
    <3>1. s \in Text /\ at \in 1 .. Len(s) + 1
      BY <1>1, <2>2 DEF s
    <3>2. /\ Insert(s, at, Labels) \in Text /\ Len(Insert(s, at, Labels)) = Len(s) + Len(Labels)
          /\ Range(Insert(s, at, Labels)) = Range(s) \cup Range(Labels)
      BY ONLY <1>2, <3>1, InsertIs
    <3> QED
      BY <1>2, <3>2 DEF s
  <2> HIDE DEF new
  <2>5. Len(new) = n + 3 * b.alert
    BY <1>1, <1>3, <2>1, <2>4
  <2> QED
    BY <1>1, <1>3, <2>3, <2>4, <2>5 DEF Labelling
<1>4. CASE ~(b.alert >= 1)
  <2>1. b.alert = 0 /\ Len(b.rules) = n
    BY <1>1, <1>4 DEF Labelling
  <2>2. LabelBefore(b, i) = [rules |-> b.rules, alert |-> 1]
    BY <1>4, <2>1 DEF LabelBefore
  <2> QED
    BY <1>1, <2>1, <2>2 DEF Labelling
<1> QED
  BY <1>3, <1>4

(* The texts that the lines of a group lead through: AddCustomLabels is    *)
(* the last of them.                                                       *)
LabelLine(rules, b, i) == IF i \in Alerts(rules) THEN LabelBefore(b, i) ELSE b

LEMMA LabelSteps ==
  ASSUME NEW rules \in Text
  PROVE  \E f \in [0 .. Len(rules) -> Labelling(Len(rules))] :
            /\ f[0] = [rules |-> rules, alert |-> 0]
            /\ \A k \in 1 .. Len(rules) : f[k] = LabelLine(rules, f[k - 1], k)
            /\ AddCustomLabels(rules) = IF f[Len(rules)].alert >= 1 THEN f[Len(rules)].rules \o Labels
                                                                    ELSE f[Len(rules)].rules
<1> DEFINE n == Len(rules)
           B == Labelling(n)
           b == [rules |-> rules, alert |-> 0]
           step == [p \in B \X (1 .. n) |-> LabelLine(rules, p[1], p[2])]
           s == [i \in DOMAIN rules |-> i]
           Is(g) == g = [t \in SUBSET DOMAIN s |->
                            IF t = {} THEN b ELSE LabelLine(rules, g[t \ {Max(t)}], s[Max(t)])]
           iter == CHOOSE g : Is(g)
<1>1. n \in Nat /\ DOMAIN s = 1 .. n /\ (\A k \in 1 .. n : s[k] = k) /\ b \in B
  BY DEF Text, Labelling
<1>2. step \in [B \X (1 .. n) -> B]
  BY <1>1, LabelIs DEF LabelLine
<1>3. \A x \in B : \A k \in 1 .. n : step[x, k] = LabelLine(rules, x, k)
  OBVIOUS
<1> HIDE DEF n, step, B
<1>4. \E g : Is(g)
  <2>1. PICK g \in [SUBSET (1 .. n) -> B] : Recurs(g, n, b, step)
    BY <1>1, <1>2, FoldExists
  <2>2. ASSUME NEW t \in SUBSET (1 .. n), t # {}
        PROVE  step[g[t \ {Max(t)}], Max(t)] = LabelLine(rules, g[t \ {Max(t)}], s[Max(t)])
    <3>1. Max(t) \in 1 .. n /\ g[t \ {Max(t)}] \in B
      BY <1>1, <2>2, GreatestIn
    <3> QED
      BY <1>1, <1>3, <3>1
  <2>3. Is(g)
    BY <1>1, <2>1, <2>2 DEF Recurs
  <2> HIDE DEF Is
  <2> QED
    BY <2>3
<1>5. Is(iter)
  <2> HIDE DEF Is
  <2> QED
    BY <1>4
<1>6. AddCustomLabels(rules) = IF iter[1 .. n].alert >= 1 THEN iter[1 .. n].rules \o Labels ELSE iter[1 .. n].rules
  BY <1>1 DEF AddCustomLabels, FoldLeftDomain, FoldLeft, MapThenFoldSet, LabelLine
<1> HIDE DEF iter
<1>7. Starts(iter, b)
  BY <1>5 DEF Starts
<1>8. Follows(iter, n, B, step)
  <2> SUFFICES ASSUME NEW t \in SUBSET (1 .. n), t # {}, iter[t \ {Max(t)}] \in B
               PROVE  iter[t] = step[iter[t \ {Max(t)}], Max(t)]
    BY DEF Follows
  <2>1. iter[t] = LabelLine(rules, iter[t \ {Max(t)}], s[Max(t)])
    BY <1>1, <1>5
  <2>2. Max(t) \in 1 .. n
    BY <1>1, GreatestIn
  <2> QED
    BY <1>1, <1>3, <2>1, <2>2
<1> HIDE DEF Is
<1>9. PICK f \in [0 .. n -> B] : Steps(f, n, b, step) /\ f[n] = iter[1 .. n]
  <2>1. Leads(n, B, b, step, iter[1 .. n])
    BY ONLY <1>1, <1>2, <1>7, <1>8, FoldSteps
  <2> QED
    BY <2>1 DEF Leads
<1>10. \A k \in 1 .. n : f[k] = LabelLine(rules, f[k - 1], k)
  <2> SUFFICES ASSUME NEW k \in 1 .. n PROVE f[k] = LabelLine(rules, f[k - 1], k)
    OBVIOUS
  <2>1. f[k - 1] \in B
    BY <1>1
  <2> QED
    BY <1>3, <1>9, <2>1 DEF Steps
<1>11. f[0] = b /\ f[n] = iter[1 .. n]
  BY <1>9 DEF Steps
<1> QED
  BY <1>6, <1>10, <1>11 DEF n, B

LEMMA KeysType ==
  /\ Len(ConditionMap) \in Nat /\ DOMAIN ConditionMap = 1 .. Len(ConditionMap)
  /\ \A k \in 1 .. Len(ConditionMap) : ConditionMap[k] \in DOMAIN BeginsWith /\ ConditionMap[k] \in Range(ConditionMap)
  /\ Range(ConditionMap) = {ConditionMap[k] : k \in 1 .. Len(ConditionMap)}
<1>1. ConditionMap \in Seq(DOMAIN BeginsWith)
  BY RulesAssumption
<1>2. Len(ConditionMap) \in Nat /\ DOMAIN ConditionMap = 1 .. Len(ConditionMap)
  BY <1>1, LenProperties
<1>3. Range(ConditionMap) = {ConditionMap[k] : k \in 1 .. Len(ConditionMap)}
  BY ONLY <1>1, RangeEquality
<1>4. \A k \in 1 .. Len(ConditionMap) : ConditionMap[k] \in DOMAIN BeginsWith
  BY ONLY <1>1, ElementOfSeq
<1> QED
  BY <1>2, <1>3, <1>4

(* The texts that the keys of alert_condition_map lead through.            *)
LEMMA WrapSteps ==
  ASSUME NEW b \in Text
  PROVE  \E f \in [0 .. Len(ConditionMap) -> Text] :
            /\ f[0] = b /\ f[Len(ConditionMap)] = AddRulesConditions(b)
            /\ \A k \in 1 .. Len(ConditionMap) : f[k] = Wrap(f[k - 1], ConditionMap[k])
<1> DEFINE s == ConditionMap
           n == Len(s)
           step == [p \in Text \X (1 .. n) |-> Wrap(p[1], s[p[2]])]
           Is(g) == g = [t \in SUBSET DOMAIN s |->
                            IF t = {} THEN b ELSE Wrap(g[t \ {Max(t)}], s[Max(t)])]
           iter == CHOOSE g : Is(g)
<1>1. n \in Nat /\ DOMAIN s = 1 .. n /\ \A k \in 1 .. n : s[k] \in DOMAIN BeginsWith
  BY KeysType
<1>2. step \in [Text \X (1 .. n) -> Text]
  BY <1>1, WrapIs
<1>3. \A x \in Text : \A k \in 1 .. n : step[x, k] = Wrap(x, s[k])
  OBVIOUS
<1> HIDE DEF n, step
<1>4. \E g : Is(g)
  <2>1. PICK g \in [SUBSET (1 .. n) -> Text] : Recurs(g, n, b, step)
    BY <1>1, <1>2, FoldExists
  <2>2. ASSUME NEW t \in SUBSET (1 .. n), t # {}
        PROVE  step[g[t \ {Max(t)}], Max(t)] = Wrap(g[t \ {Max(t)}], s[Max(t)])
    <3>1. Max(t) \in 1 .. n /\ g[t \ {Max(t)}] \in Text
      BY <1>1, <2>2, GreatestIn
    <3> QED
      BY <1>3, <3>1
  <2>3. Is(g)
    BY <1>1, <2>1, <2>2 DEF Recurs
  <2> HIDE DEF Is
  <2> QED
    BY <2>3
<1>5. Is(iter)
  <2> HIDE DEF Is
  <2> QED
    BY <1>4
<1>6. AddRulesConditions(b) = iter[1 .. n]
  BY <1>1 DEF AddRulesConditions, FoldLeft, MapThenFoldSet
<1> HIDE DEF iter
<1>7. Starts(iter, b)
  BY <1>5 DEF Starts
<1>8. Follows(iter, n, Text, step)
  <2> SUFFICES ASSUME NEW t \in SUBSET (1 .. n), t # {}, iter[t \ {Max(t)}] \in Text
               PROVE  iter[t] = step[iter[t \ {Max(t)}], Max(t)]
    BY DEF Follows
  <2>1. iter[t] = Wrap(iter[t \ {Max(t)}], s[Max(t)])
    BY <1>1, <1>5
  <2>2. Max(t) \in 1 .. n
    BY <1>1, GreatestIn
  <2> QED
    BY <1>3, <2>1, <2>2
<1> HIDE DEF Is
<1>9. PICK f \in [0 .. n -> Text] : Steps(f, n, b, step) /\ f[n] = iter[1 .. n]
  <2>1. Leads(n, Text, b, step, iter[1 .. n])
    BY ONLY <1>1, b \in Text, <1>2, <1>7, <1>8, FoldSteps
  <2> QED
    BY <2>1 DEF Leads
<1>10. \A k \in 1 .. n : f[k] = Wrap(f[k - 1], s[k])
  <2> SUFFICES ASSUME NEW k \in 1 .. n PROVE f[k] = Wrap(f[k - 1], s[k])
    OBVIOUS
  <2>1. f[k - 1] \in Text
    BY <1>1
  <2> QED
    BY <1>3, <1>9, <2>1 DEF Steps
<1>11. f[0] = b /\ f[n] = iter[1 .. n]
  BY <1>9 DEF Steps
<1> QED
  BY <1>6, <1>10, <1>11 DEF n

-----------------------------------------------------------------------------
(* The rules: the template as it should be, when the conditions of some    *)
(* keys are in and those of the others are still to come.                  *)
Body(rule) == IF rule.line = "alert" THEN <<rule>> \o Labels ELSE <<rule>>
BlockFor(rule, keys) ==
    IF rule.of \in keys THEN <<If(rule.of)>> \o Body(rule) \o <<EndIf>> ELSE Body(rule)

(* flat[k]: the blocks of the first k rules, one after the other.          *)
Flat(flat, rules, keys) ==
    /\ flat \in [0 .. Len(rules) -> Text]
    /\ flat[0] = <<>>
    /\ \A k \in 1 .. Len(rules) : flat[k] = flat[k - 1] \o BlockFor(rules[k], keys)

LEMMA RuleIs ==
  ASSUME NEW rule \in Rules
  PROVE  /\ rule \in Line /\ rule.line \in {"alert", "record"}
         /\ rule.line = "alert" => rule.of \in DOMAIN BeginsWith
         /\ rule.line = "record" => rule.of = "" /\ rule.of \notin Range(ConditionMap)
<1>1. CASE \E a \in DOMAIN BeginsWith : rule = Alert(a)
  <2>1. PICK a \in DOMAIN BeginsWith : rule = Alert(a)
    BY <1>1
  <2>2. rule \in Line
    BY <2>1, LinesIs
  <2>3. rule.line = "alert" /\ rule.of = a
    BY <2>1 DEF Alert
  <2> QED
    BY <2>2, <2>3
<1>2. CASE rule = Recording
  BY <1>2, LinesIs, RulesAssumption DEF Recording
<1> QED
  BY <1>1, <1>2 DEF Rules

LEMMA RulesText ==
  ASSUME NEW rules \in Seq(Rules)
  PROVE  /\ rules \in Text /\ Len(rules) \in Nat /\ DOMAIN rules = 1 .. Len(rules)
         /\ \A k \in 1 .. Len(rules) : rules[k] \in Rules
         /\ Alerts(rules) = {k \in 1 .. Len(rules) : rules[k].line = "alert"}
<1>1. Rules \subseteq Line
  BY RuleIs
<1>2. rules \in Text
  BY <1>1, SeqMonotonic DEF Text
<1>3. Len(rules) \in Nat /\ DOMAIN rules = 1 .. Len(rules)
  BY LenProperties
<1>4. \A k \in 1 .. Len(rules) : rules[k] \in Rules
  BY ElementOfSeq
<1> QED
  BY <1>2, <1>3, <1>4 DEF Alerts

LEMMA SingleIs ==
  ASSUME NEW a \in Line
  PROVE  <<a>> \in Text /\ Len(<<a>>) = 1 /\ <<a>>[1] = a
BY DEF Text

LEMMA BodyIs ==
  ASSUME NEW rule \in Rules
  PROVE  /\ Body(rule) \in Text
         /\ Len(Body(rule)) = IF rule.line = "alert" THEN 4 ELSE 1
         /\ Body(rule)[1] = rule
         /\ \A i \in 1 .. Len(Body(rule)) : i # 1 => Body(rule)[i].line # "alert"
         /\ rule.line = "alert" => Body(rule)[4] = EndIf
<1>1. rule \in Line /\ <<rule>> \in Text /\ Len(<<rule>>) = 1 /\ <<rule>>[1] = rule
  BY RuleIs, SingleIs
<1>2. CASE rule.line # "alert"
  BY <1>1, <1>2 DEF Body
<1>3. CASE rule.line = "alert"
  <2> DEFINE p == <<rule>>
             body == p \o Labels
  <2>1. p \in Text /\ Len(p) = 1 /\ p[1] = rule
    BY <1>1
  <2>2. Labels \in Text /\ Len(Labels) = 3
    BY LinesIs
  <2>3. Labels[1].line = "if" /\ Labels[2].line = "labels" /\ Labels[3].line = "end" /\ Labels[3] = EndIf
    <3> DEFINE a == [line |-> "if", of |-> "labels"]
               b == [line |-> "labels", of |-> ""]
    <3>1. a \in Line /\ b \in Line /\ a.line = "if" /\ b.line = "labels"
      BY DEF Line
    <3>2. EndIf \in Line /\ EndIf.line = "end"
      BY LinesIs DEF EndIf
    <3>3. Labels = <<a, b, EndIf>>
      BY DEF Labels
    <3> HIDE DEF a, b
    <3> QED
      BY <3>1, <3>2, <3>3, ThreeIs
  <2> HIDE DEF p
  <2>4. /\ body \in Text /\ Len(body) = 1 + 3 /\ \A i \in 1 .. 1 : body[i] = p[i]
        /\ \A i \in 1 .. 3 : body[1 + i] = Labels[i]
    <3>1. /\ p \o Labels \in Text /\ Len(p \o Labels) = Len(p) + Len(Labels)
          /\ \A i \in 1 .. Len(p) : (p \o Labels)[i] = p[i]
          /\ \A i \in 1 .. Len(Labels) : (p \o Labels)[Len(p) + i] = Labels[i]
      BY ONLY <2>1, <2>2, JoinIs
    <3> HIDE DEF body
    <3> QED
      BY ONLY <2>1, <2>2, <3>1 DEF body
  <2>5. body[1] = rule /\ body[2] = Labels[1] /\ body[3] = Labels[2] /\ body[4] = Labels[3]
    <3> HIDE DEF body
    <3>1. body[1 + 1] = Labels[1] /\ body[1 + 2] = Labels[2] /\ body[1 + 3] = Labels[3]
      BY <2>4
    <3> QED
      BY <2>1, <2>4, <3>1
  <2>6. Body(rule) = body
    BY <1>3 DEF Body, p
  <2> HIDE DEF body
  <2>7. \A i \in 1 .. Len(body) : i # 1 => body[i].line # "alert"
    <3>1. body[2].line # "alert" /\ body[3].line # "alert" /\ body[4].line # "alert"
      BY <2>3, <2>5
    <3> QED
      BY <2>4, <3>1
  <2>8. Len(body) = 4 /\ body \in Text /\ body[1] = rule /\ body[4] = EndIf
    BY <2>3, <2>4, <2>5
  <2> QED
    BY ONLY <1>3, <2>6, <2>7, <2>8
<1> QED
  BY <1>2, <1>3

(* What may follow a block: an alert, wrapped or not.                      *)
Opens(s) ==
    /\ Len(s) >= 1
    /\ s[1].line = "alert" \/ (s[1].line = "if" /\ Len(s) >= 2 /\ s[2].line = "alert")

LEMMA BlockIs ==
  ASSUME NEW rule \in Rules, NEW keys \in SUBSET Range(ConditionMap)
  PROVE  /\ BlockFor(rule, keys) \in Text
         /\ \A i \in 1 .. Len(BlockFor(rule, keys)) :
               BlockFor(rule, keys)[i].line = "alert" => BlockFor(rule, keys)[i] = rule
         /\ rule.line = "alert" => Opens(BlockFor(rule, keys))
<1> DEFINE body == Body(rule)
<1>1. /\ body \in Text /\ Len(body) \in {1, 4} /\ body[1] = rule
      /\ \A i \in 1 .. Len(body) : i # 1 => body[i].line # "alert"
  BY BodyIs
<1> HIDE DEF body
<1>2. CASE rule.of \notin keys
  <2>1. BlockFor(rule, keys) = body
    BY <1>2 DEF BlockFor, body
  <2>2. rule.line = "alert" => Opens(body)
    BY <1>1 DEF Opens
  <2> QED
    BY <1>1, <2>1, <2>2
<1>3. CASE rule.of \in keys
  <2> DEFINE p == <<If(rule.of)>>
             q == <<EndIf>>
             front == p \o body
             block == front \o q
  <2>1. /\ p \in Text /\ Len(p) = 1 /\ p[1].line = "if"
        /\ q \in Text /\ Len(q) = 1 /\ q[1].line = "end"
    <3>1. If(rule.of) \in Line /\ If(rule.of).line = "if" /\ EndIf \in Line /\ EndIf.line = "end"
      BY <1>3, LinesIs DEF If, EndIf
    <3> QED
      BY <3>1, SingleIs
  <2>2. BlockFor(rule, keys) = block
    BY <1>3 DEF BlockFor, body
  <2> HIDE DEF p, q
  <2>3. /\ front \in Text /\ Len(front) = Len(p) + Len(body)
        /\ \A i \in 1 .. Len(p) : front[i] = p[i]
        /\ \A i \in 1 .. Len(body) : front[Len(p) + i] = body[i]
    BY ONLY <1>1, <2>1, JoinIs
  <2> HIDE DEF front
  <2>4. /\ block \in Text /\ Len(block) = Len(front) + Len(q)
        /\ \A i \in 1 .. Len(front) : block[i] = front[i]
        /\ \A i \in 1 .. Len(q) : block[Len(front) + i] = q[i]
    BY ONLY <2>1, <2>3, JoinIs
  <2> HIDE DEF block
  <2>5. /\ Len(block) = Len(body) + 2 /\ block[1] = p[1] /\ block[Len(body) + 2] = q[1]
        /\ \A i \in 1 .. Len(body) : block[i + 1] = body[i]
    <3>1. Len(body) \in {1, 4}
      BY <1>1
    <3>2. Len(front) = Len(body) + 1 /\ Len(p) = 1 /\ Len(q) = 1
      BY <1>1, <2>1, <2>3
    <3>3. block[1] = p[1]
      BY <2>3, <2>4, <3>1, <3>2
    <3>4. block[Len(front) + 1] = q[1]
      BY <2>4, <3>2
    <3>5. ASSUME NEW i \in 1 .. Len(body) PROVE block[i + 1] = body[i]
      <4>1. i + 1 \in 1 .. Len(front) /\ 1 + i = i + 1
        BY <3>1, <3>2
      <4> QED
        BY <2>3, <2>4, <3>2, <4>1
    <3> QED
      BY <2>4, <3>1, <3>2, <3>3, <3>4, <3>5
  <2>6. ASSUME NEW i \in 1 .. Len(block), block[i].line = "alert" PROVE block[i] = rule
    <3>1. i # 1 /\ i # Len(body) + 2
      BY <2>1, <2>5, <2>6
    <3>2. i - 1 \in 1 .. Len(body) /\ (i - 1) + 1 = i
      BY <1>1, <2>5, <3>1
    <3>3. block[i] = body[i - 1]
      BY <2>5, <3>2
    <3> QED
      BY <1>1, <2>6, <3>2, <3>3
  <2>7. rule.line = "alert" => Opens(block)
    <3>1. 1 \in 1 .. Len(body) /\ Len(block) >= 2
      BY <1>1, <2>5
    <3>2. block[1 + 1] = rule
      BY <1>1, <2>5, <3>1
    <3> QED
      BY <2>1, <2>5, <3>1, <3>2 DEF Opens
  <2> QED
    BY <2>2, <2>4, <2>6, <2>7
<1> QED
  BY <1>2, <1>3

LEMMA FlatExists ==
  ASSUME NEW rules \in Seq(Rules), NEW keys \in SUBSET Range(ConditionMap)
  PROVE  \E flat : Flat(flat, rules, keys)
<1> DEFINE n == Len(rules)
           step == [p \in Text \X (1 .. n) |-> p[1] \o BlockFor(rules[p[2]], keys)]
<1>1. n \in Nat /\ \A k \in 1 .. n : BlockFor(rules[k], keys) \in Text
  BY RulesText, BlockIs
<1>2. step \in [Text \X (1 .. n) -> Text]
  BY <1>1, JoinIs
<1>3. \A x \in Text : \A k \in 1 .. n : step[x, k] = x \o BlockFor(rules[k], keys)
  OBVIOUS
<1>4. <<>> \in Text
  BY DEF Text
<1> HIDE DEF n, step
<1>5. PICK g \in [SUBSET (1 .. n) -> Text] : Recurs(g, n, <<>>, step)
  BY <1>1, <1>2, <1>4, FoldExists
<1>6. Starts(g, <<>>)
  BY <1>5 DEF Recurs, Starts
<1>7. Follows(g, n, Text, step)
  BY <1>5 DEF Recurs, Follows
<1>8. Leads(n, Text, <<>>, step, g[1 .. n])
  BY ONLY <1>1, <1>2, <1>4, <1>6, <1>7, FoldSteps
<1>9. PICK f \in [0 .. n -> Text] : Steps(f, n, <<>>, step)
  BY <1>8 DEF Leads
<1>10. ASSUME NEW k \in 1 .. n PROVE f[k] = f[k - 1] \o BlockFor(rules[k], keys)
  <2>1. f[k - 1] \in Text
    BY <1>1
  <2> QED
    BY <1>3, <1>9, <2>1 DEF Steps
<1>11. Flat(f, rules, keys)
  BY <1>9, <1>10 DEF Flat, Steps, n
<1> QED
  BY <1>11

(* Two such texts agree as far as the blocks do.                           *)
LEMMA FlatAgree ==
  ASSUME NEW rules \in Seq(Rules), NEW f, NEW h, NEW keys, NEW more, NEW m \in 0 .. Len(rules),
         Flat(f, rules, keys), Flat(h, rules, more),
         \A k \in 1 .. m : BlockFor(rules[k], keys) = BlockFor(rules[k], more)
  PROVE  f[m] = h[m]
<1> DEFINE S == {k \in Nat : k <= m => f[k] = h[k]}
<1>1. Len(rules) \in Nat
  BY RulesText
<1>2. 0 \in S
  BY DEF Flat
<1>3. ASSUME NEW k \in Nat, k \in S PROVE k + 1 \in S
  <2> SUFFICES ASSUME k + 1 <= m PROVE f[k + 1] = h[k + 1]
    OBVIOUS
  <2>1. k + 1 \in 1 .. Len(rules) /\ k + 1 \in 1 .. m /\ (k + 1) - 1 = k /\ f[k] = h[k]
    BY <1>1, <1>3
  <2>2. f[k + 1] = f[k] \o BlockFor(rules[k + 1], keys) /\ h[k + 1] = h[k] \o BlockFor(rules[k + 1], more)
    BY <2>1 DEF Flat
  <2> QED
    BY <2>1, <2>2
<1> HIDE DEF S
<1>4. m \in S
  BY <1>1, <1>2, <1>3, Induction
<1> QED
  BY <1>1, <1>4 DEF S

(* The last of them is the text that FlattenSeq makes of the blocks.       *)
LEMMA FlattenSteps ==
  ASSUME NEW seqs, Len(seqs) \in Nat \ {0}, NEW flat \in [0 .. Len(seqs) -> Text], flat[0] = <<>>,
         \A k \in 1 .. Len(seqs) : flat[k] = flat[k - 1] \o seqs[k] /\ seqs[k] \in Text
  PROVE  FlattenSeq(seqs) = flat[Len(seqs)]
<1> DEFINE n == Len(seqs)
           Is(g) == g = [i \in 1 .. n |-> IF i = 1 THEN seqs[i] ELSE g[i - 1] \o seqs[i]]
           flatten == CHOOSE g : Is(g)
<1>1. n \in Nat /\ n # 0
  OBVIOUS
<1>4. \A k \in 1 .. n : flat[k] = flat[k - 1] \o seqs[k] /\ seqs[k] \in Text
  OBVIOUS
<1>5. FlattenSeq(seqs) = flatten[n]
  BY DEF FlattenSeq
<1>6. \A s \in Text : <<>> \o s = s
  BY ConcatEmptySeq DEF Text
<1> HIDE DEF n
<1>2. 1 \in 1 .. n /\ flat[1] = seqs[1]
  <2>1. 1 \in 1 .. n /\ 1 - 1 = 0
    BY <1>1
  <2>2. flat[1] = flat[1 - 1] \o seqs[1] /\ seqs[1] \in Text
    BY <1>4, <2>1
  <2>3. flat[1] = <<>> \o seqs[1]
    BY <2>1, <2>2
  <2> QED
    BY <1>6, <2>1, <2>2, <2>3
<1>7. Is([i \in 1 .. n |-> flat[i]])
  <2> DEFINE g == [i \in 1 .. n |-> flat[i]]
  <2>1. ASSUME NEW i \in 1 .. n
        PROVE  g[i] = IF i = 1 THEN seqs[i] ELSE g[i - 1] \o seqs[i]
    <3>1. CASE i = 1
      BY <1>2, <3>1
    <3>2. CASE i # 1
      <4>1. i - 1 \in 1 .. n
        BY <1>1, <2>1, <3>2
      <4> QED
        BY <1>4, <2>1, <3>2, <4>1
    <3> QED
      BY <3>1, <3>2
  <2> QED
    BY <2>1
<1>8. Is(flatten)
  <2> HIDE DEF Is
  <2> QED
    BY <1>7
<1> HIDE DEF flatten
<1>9. \A i \in 1 .. n : flatten[i] = IF i = 1 THEN seqs[i] ELSE flatten[i - 1] \o seqs[i]
  BY <1>8
<1> HIDE DEF Is
<1> DEFINE S == {k \in Nat : k + 1 <= n => flatten[k + 1] = flat[k + 1]}
<1>10. 0 \in S
  BY <1>2, <1>9
<1>11. ASSUME NEW k \in Nat, k \in S PROVE k + 1 \in S
  <2> SUFFICES ASSUME (k + 1) + 1 <= n PROVE flatten[(k + 1) + 1] = flat[(k + 1) + 1]
    OBVIOUS
  <2> DEFINE m == (k + 1) + 1
  <2>1. m \in 1 .. n /\ m # 1 /\ m - 1 = k + 1 /\ flatten[k + 1] = flat[k + 1]
    BY <1>1, <1>11
  <2> HIDE DEF m
  <2>2. flatten[m] = flatten[m - 1] \o seqs[m] /\ flat[m] = flat[m - 1] \o seqs[m]
    BY <1>4, <1>9, <2>1
  <2> QED
    BY <2>1, <2>2 DEF m
<1> HIDE DEF S
<1>12. \A k \in Nat : k \in S
  BY <1>10, <1>11, Induction
<1>13. flatten[n] = flat[n]
  <2>1. n - 1 \in Nat /\ (n - 1) + 1 = n /\ n <= n
    BY <1>1
  <2>2. n - 1 \in S
    BY <1>12, <2>1
  <2> QED
    BY <2>1, <2>2 DEF S
<1> QED
  BY <1>5, <1>13 DEF n

LEMMA FlattenIs ==
  ASSUME NEW rules \in Seq(Rules), NEW flat, Flat(flat, rules, Range(ConditionMap))
  PROVE  FlattenSeq([i \in DOMAIN rules |-> Block(rules[i])]) = flat[Len(rules)]
<1> DEFINE seqs == [i \in DOMAIN rules |-> Block(rules[i])]
<1>1. Len(rules) \in Nat /\ DOMAIN rules = 1 .. Len(rules) /\ \A k \in 1 .. Len(rules) : rules[k] \in Rules
  BY RulesText
<1>2. Len(seqs) = Len(rules)
  BY <1>1
<1>3. \A k \in 1 .. Len(rules) : seqs[k] = BlockFor(rules[k], Range(ConditionMap))
  BY <1>1 DEF Block, BlockFor, Body
<1>4. Len(rules) = 0 => seqs = <<>>
  BY <1>1
<1> HIDE DEF seqs
<1>5. \A k \in 1 .. Len(rules) : seqs[k] \in Text
  BY <1>1, <1>3, BlockIs
<1>6. CASE Len(rules) = 0
  BY <1>2, <1>4, <1>6 DEF FlattenSeq, Flat, seqs
<1>7. CASE Len(rules) # 0
  <2>1. /\ flat \in [0 .. Len(seqs) -> Text] /\ flat[0] = <<>>
        /\ \A k \in 1 .. Len(seqs) : flat[k] = flat[k - 1] \o seqs[k] /\ seqs[k] \in Text
    BY <1>2, <1>3, <1>5 DEF Flat
  <2>2. FlattenSeq(seqs) = flat[Len(seqs)]
    BY <1>1, <1>2, <1>7, <2>1, FlattenSteps
  <2> QED
    BY <1>2, <2>2 DEF seqs
<1> QED
  BY <1>6, <1>7

-----------------------------------------------------------------------------
(* The rules: add_custom_labels.                                           *)

(* After k lines: no alert yet, or the last line was one, its block is     *)
(* still to come, and all before have theirs.                              *)
LabelsUpTo(rules, flat, b, k) ==
    \/ /\ b.alert = 0 /\ b.rules = rules /\ flat[k] = SubSeq(rules, 1, k)
    \/ /\ b.alert >= 1 /\ k >= 1 /\ rules[k].line = "alert"
       /\ b.rules = flat[k - 1] \o SubSeq(rules, k, Len(rules))
       /\ Len(flat[k - 1]) = k - 1 + 3 * (b.alert - 1)

(* The block goes behind the line a.                                       *)
LEMMA LabelNext ==
  ASSUME NEW front \in Text, NEW a \in Text, Len(a) = 1, NEW q \in Text
  PROVE  /\ Insert(front \o (a \o q), Len(front) + 2, Labels) = (front \o (a \o Labels)) \o q
         /\ Len(front \o (a \o Labels)) = Len(front) + 4
<1>1. Labels \in Text /\ Len(Labels) = 3
  BY LinesIs
<1>2. Len(front) \in Nat
  BY DEF Text
<1> DEFINE p == front \o a
<1>3. p \in Text /\ Len(p) = Len(front) + 1
  <2>1. front \o a \in Text /\ Len(front \o a) = Len(front) + Len(a)
    BY JoinLen
  <2> HIDE DEF p
  <2>2. p \in Text /\ Len(p) = Len(front) + Len(a)
    BY ONLY <2>1 DEF p
  <2> QED
    BY <2>2
<1>4. front \o (a \o q) = p \o q /\ front \o (a \o Labels) = p \o Labels
  BY <1>1, JoinAssociative
<1> HIDE DEF p
<1>5. Insert(p \o q, Len(p) + 1, Labels) = (p \o Labels) \o q
  BY <1>1, <1>3, InsertBetween
<1>6. Len(p \o Labels) = Len(p) + Len(Labels)
  BY <1>1, <1>3, JoinIs
<1>7. Len(p) + 1 = Len(front) + 2
  BY <1>2, <1>3
<1>8. Len(p \o Labels) = Len(front) + 4
  BY <1>1, <1>2, <1>3, <1>6
<1> QED
  BY <1>4, <1>5, <1>7, <1>8

(* What the next line does to it.                                          *)
LEMMA LabelledStep ==
  ASSUME NEW rules \in Seq(Rules), NEW flat, Flat(flat, rules, {}),
         NEW k \in 1 .. Len(rules), NEW b \in Labelling(Len(rules)),
         rules[k].line # "alert" => k - 1 < 1 \/ rules[k - 1].line # "alert",
         LabelsUpTo(rules, flat, b, k - 1)
  PROVE  LabelsUpTo(rules, flat, LabelLine(rules, b, k), k)
<1> DEFINE n == Len(rules)
<1>1. /\ rules \in Text /\ n \in Nat /\ rules[k] \in Rules /\ rules[k] \in Line /\ <<rules[k]>> \in Text
      /\ Alerts(rules) = {i \in 1 .. n : rules[i].line = "alert"}
  BY RulesText, RuleIs, SingleIs
<1>2. k \in 1 .. n /\ k - 1 \in 0 .. n /\ (k - 1) + 1 = k /\ k >= 1
  BY <1>1
<1>0. \A i \in 1 .. n : flat[i] = flat[i - 1] \o Body(rules[i]) /\ flat[i - 1] \in Text
  BY <1>1 DEF Flat, BlockFor
<1>3. flat[k] = flat[k - 1] \o Body(rules[k]) /\ flat[k - 1] \in Text
  BY <1>0, <1>2
<1>4. b.alert \in Nat
  BY DEF Labelling
<1>5. CASE rules[k].line # "alert"
  <2>1. LabelLine(rules, b, k) = b
    BY <1>1, <1>5 DEF LabelLine
  <2>2. b.alert = 0 /\ b.rules = rules /\ flat[k - 1] = SubSeq(rules, 1, k - 1)
    <3>1. ~(k - 1 >= 1 /\ rules[k - 1].line = "alert")
      BY <1>2, <1>5
    <3> QED
      BY ONLY <3>1, LabelsUpTo(rules, flat, b, k - 1) DEF LabelsUpTo
  <2>3. flat[k] = SubSeq(rules, 1, k - 1) \o <<rules[k]>>
    BY <1>3, <1>5, <2>2 DEF Body
  <2>4. SubSeq(rules, 1, k) = SubSeq(rules, 1, k - 1) \o <<rules[k]>>
    BY ONLY <1>1, <1>2, PrefixIs
  <2> QED
    BY <2>1, <2>2, <2>3, <2>4 DEF LabelsUpTo
<1>6. CASE rules[k].line = "alert" /\ b.alert = 0
  <2>1. b.rules = rules /\ flat[k - 1] = SubSeq(rules, 1, k - 1)
    BY ONLY <1>6, LabelsUpTo(rules, flat, b, k - 1) DEF LabelsUpTo
  <2>2. LabelLine(rules, b, k) = [rules |-> rules, alert |-> 1]
    BY <1>1, <1>2, <1>6, <2>1 DEF LabelLine, LabelBefore
  <2>3. /\ Len(SubSeq(rules, 1, k - 1)) = k - 1
        /\ rules = SubSeq(rules, 1, k - 1) \o SubSeq(rules, (k - 1) + 1, Len(rules))
    BY ONLY <1>1, <1>2, CutIs
  <2>4. Len(flat[k - 1]) = k - 1 + 3 * (1 - 1)
    BY <1>2, <2>1, <2>3
  <2>5. rules = flat[k - 1] \o SubSeq(rules, k, Len(rules))
    BY ONLY <1>2, <2>1, <2>3
  <2> DEFINE c == LabelLine(rules, b, k)
  <2> HIDE DEF c
  <2>6. c.rules = rules /\ c.alert = 1
    BY ONLY <2>2 DEF c
  <2>7. c.alert >= 1 /\ Len(flat[k - 1]) = k - 1 + 3 * (c.alert - 1)
    BY ONLY <2>4, <2>6
  <2>8. LabelsUpTo(rules, flat, c, k)
    BY ONLY <1>2, <1>6, <2>5, <2>6, <2>7 DEF LabelsUpTo
  <2> QED
    BY ONLY <2>8 DEF c
<1>7. CASE rules[k].line = "alert" /\ b.alert # 0
  <2>1. /\ b.alert >= 1 /\ k - 1 >= 1 /\ rules[k - 1].line = "alert"
        /\ b.rules = flat[(k - 1) - 1] \o SubSeq(rules, k - 1, Len(rules))
        /\ Len(flat[(k - 1) - 1]) = (k - 1) - 1 + 3 * (b.alert - 1)
    BY ONLY <1>7, LabelsUpTo(rules, flat, b, k - 1) DEF LabelsUpTo
  <2> DEFINE a == <<rules[k - 1]>>
             front == flat[(k - 1) - 1]
             q == SubSeq(rules, k, Len(rules))
             c == LabelLine(rules, b, k)
  <2>2. k - 1 \in 1 .. n /\ rules[k - 1] \in Rules /\ rules[k - 1] \in Line
    <3>1. k - 1 >= 1
      BY <2>1
    <3>2. k - 1 \in 1 .. n
      BY ONLY <1>1, <1>2, <3>1
    <3>3. rules[k - 1] \in Rules
      BY ONLY rules \in Seq(Rules), <3>2, RulesText
    <3> QED
      BY ONLY <3>2, <3>3, RuleIs
  <2>3. a \in Text /\ Len(a) = 1
    BY <2>2, SingleIs
  <2>4. Body(rules[k - 1]) = a \o Labels
    BY ONLY <2>1 DEF Body
  <2>5. front \in Text /\ flat[k - 1] = front \o Body(rules[k - 1])
    BY <1>0, <2>2
  <2>6. q \in Text /\ SubSeq(rules, k - 1, Len(rules)) = a \o q
    <3>1. SubSeq(rules, k - 1, Len(rules)) = <<rules[k - 1]>> \o SubSeq(rules, (k - 1) + 1, Len(rules))
      BY ONLY <1>1, <2>2, SuffixIs
    <3>2. SubSeq(rules, (k - 1) + 1, Len(rules)) \in Text
      BY ONLY <1>1, <1>2, CutIs
    <3> QED
      BY ONLY <1>2, <3>1, <3>2
  <2>7. b.rules = front \o (a \o q) /\ Len(front) = (k - 1) - 1 + 3 * (b.alert - 1)
    BY ONLY <2>1, <2>6
  <2> HIDE DEF a, front, q
  <2>8. /\ Insert(front \o (a \o q), Len(front) + 2, Labels) = (front \o (a \o Labels)) \o q
        /\ Len(front \o (a \o Labels)) = Len(front) + 4
    BY ONLY <2>3, <2>5, <2>6, LabelNext
  <2>9. flat[k - 1] = front \o (a \o Labels)
    BY ONLY <2>4, <2>5
  <2>10. Len(Labels) = 3
    BY LinesIs
  <2>11. k \in Nat /\ k + Len(Labels) * (b.alert - 1) = Len(front) + 2
    <3>1. Len(Labels) * (b.alert - 1) = 3 * (b.alert - 1)
      BY ONLY <2>10
    <3>2. Len(front) = (k - 1) - 1 + 3 * (b.alert - 1)
      BY ONLY <2>7
    <3>3. k \in Nat
      BY <1>1
    <3> DEFINE x == Len(Labels) * (b.alert - 1)
    <3> HIDE DEF x
    <3>4. x = 3 * (b.alert - 1)
      BY ONLY <3>1 DEF x
    <3>5. k + x = Len(front) + 2
      BY ONLY <1>4, <3>2, <3>3, <3>4
    <3> QED
      BY ONLY <3>3, <3>5 DEF x
  <2>12. c = [rules |-> Insert(b.rules, k + Len(Labels) * (b.alert - 1), Labels), alert |-> b.alert + 1]
    BY <1>1, <1>2, <1>7, <2>1 DEF LabelLine, LabelBefore
  <2> HIDE DEF c
  <2>13. c.rules = flat[k - 1] \o q /\ c.alert = b.alert + 1
    BY ONLY <2>7, <2>8, <2>9, <2>11, <2>12
  <2>14. c.alert >= 1 /\ Len(flat[k - 1]) = k - 1 + 3 * (c.alert - 1)
    <3>1. Len(flat[k - 1]) = Len(front) + 4
      BY ONLY <2>8, <2>9
    <3>2. Len(front) = (k - 1) - 1 + 3 * (b.alert - 1) /\ k \in Nat /\ c.alert = b.alert + 1
      BY ONLY <2>7, <2>11, <2>13
    <3> QED
      BY ONLY <1>4, <3>1, <3>2
  <2>15. LabelsUpTo(rules, flat, c, k)
    BY ONLY <1>2, <1>7, <2>13, <2>14 DEF LabelsUpTo, q
  <2> QED
    BY ONLY <2>15 DEF c
<1> QED
  BY <1>5, <1>6, <1>7

(* Where no recording rule follows an alert, every alert has its block     *)
(* behind it, and there is no other.                                       *)
LEMMA LabelsAreIn ==
  ASSUME NEW rules \in Seq(Rules), NEW flat, Flat(flat, rules, {}),
         \A i \in Alerts(rules) : \A j \in i .. Len(rules) : j \in Alerts(rules)
  PROVE  AddCustomLabels(rules) = flat[Len(rules)]
<1> DEFINE n == Len(rules)
<1>1. /\ rules \in Text /\ n \in Nat /\ Alerts(rules) = {i \in 1 .. n : rules[i].line = "alert"}
  BY RulesText
<1>2. PICK f \in [0 .. n -> Labelling(n)] :
         /\ f[0] = [rules |-> rules, alert |-> 0]
         /\ \A k \in 1 .. n : f[k] = LabelLine(rules, f[k - 1], k)
         /\ AddCustomLabels(rules) = IF f[n].alert >= 1 THEN f[n].rules \o Labels ELSE f[n].rules
  BY <1>1, LabelSteps
<1> DEFINE S == {k \in Nat : k <= n => LabelsUpTo(rules, flat, f[k], k)}
<1>3. 0 \in S
  <2>1. SubSeq(rules, 1, 0) = <<>>
    BY SubSeqEmpty
  <2>2. f[0].alert = 0 /\ f[0].rules = rules /\ flat[0] = <<>>
    BY <1>2 DEF Flat
  <2>3. LabelsUpTo(rules, flat, f[0], 0)
    BY ONLY <2>1, <2>2 DEF LabelsUpTo
  <2> QED
    BY <2>3
<1>4. ASSUME NEW k \in Nat, k \in S PROVE k + 1 \in S
  <2> SUFFICES ASSUME k + 1 <= n PROVE LabelsUpTo(rules, flat, f[k + 1], k + 1)
    OBVIOUS
  <2> DEFINE m == k + 1
  <2>1. m \in 1 .. n /\ m - 1 = k /\ LabelsUpTo(rules, flat, f[k], k) /\ f[k] \in Labelling(n)
    BY <1>1, <1>2, <1>4
  <2>2. rules[m].line # "alert" => m - 1 < 1 \/ rules[m - 1].line # "alert"
    <3> SUFFICES ASSUME m - 1 >= 1, rules[m - 1].line = "alert" PROVE rules[m].line = "alert"
      BY <2>1
    <3>1. m - 1 \in Alerts(rules) /\ m \in m - 1 .. n
      BY <1>1, <2>1
    <3>2. m \in Alerts(rules)
      BY <3>1
    <3> QED
      BY <1>1, <3>2
  <2> HIDE DEF m
  <2>3. LabelsUpTo(rules, flat, LabelLine(rules, f[k], m), m)
    BY <2>1, <2>2, LabelledStep
  <2>4. f[m] = LabelLine(rules, f[k], m)
    BY <1>2, <2>1
  <2> QED
    BY <2>3, <2>4 DEF m
<1> HIDE DEF S
<1>5. n \in S
  BY <1>1, <1>3, <1>4, Induction
<1>6. LabelsUpTo(rules, flat, f[n], n)
  BY <1>1, <1>5 DEF S
<1>7. f[n].alert \in Nat
  BY <1>1, <1>2 DEF Labelling
<1>8. CASE f[n].alert = 0
  <2>1. f[n].rules = rules /\ flat[n] = SubSeq(rules, 1, n)
    BY ONLY <1>6, <1>8 DEF LabelsUpTo
  <2>2. SubSeq(rules, 1, n) = rules
    BY ONLY rules \in Seq(Rules), SubSeqFull
  <2>3. ~(f[n].alert >= 1)
    BY <1>8
  <2> QED
    BY ONLY <1>2, <2>1, <2>2, <2>3
<1>9. CASE f[n].alert # 0
  <2>1. /\ n >= 1 /\ rules[n].line = "alert" /\ f[n].rules = flat[n - 1] \o SubSeq(rules, n, n)
    BY ONLY <1>6, <1>9 DEF LabelsUpTo
  <2>2. n \in 1 .. n /\ n \in 0 .. n /\ n - 1 \in 0 .. n
    BY <1>1, <2>1
  <2>3. rules[n] \in Rules /\ rules[n] \in Line /\ <<rules[n]>> \in Text
    <3>1. rules[n] \in Rules
      BY ONLY rules \in Seq(Rules), <2>2, RulesText
    <3> QED
      BY ONLY <3>1, RuleIs, SingleIs
  <2>4. SubSeq(rules, n, n) = <<rules[n]>>
    <3>1. SubSeq(rules, n, n) = <<rules[n]>> \o SubSeq(rules, n + 1, n)
      BY ONLY <1>1, <2>2, SuffixIs
    <3>2. SubSeq(rules, n + 1, n) = <<>>
      BY <1>1, SubSeqEmpty
    <3>3. <<rules[n]>> \o <<>> = <<rules[n]>>
      BY <2>3, ConcatEmptySeq DEF Text
    <3> QED
      BY <3>1, <3>2, <3>3
  <2>5. flat[n] = flat[n - 1] \o (<<rules[n]>> \o Labels) /\ flat[n - 1] \in Text
    <3>1. flat[n] = flat[n - 1] \o Body(rules[n]) /\ flat[n - 1] \in Text
      BY <2>2 DEF Flat, BlockFor
    <3> QED
      BY ONLY <2>1, <3>1 DEF Body
  <2>6. (flat[n - 1] \o <<rules[n]>>) \o Labels = flat[n - 1] \o (<<rules[n]>> \o Labels)
    BY <2>3, <2>5, LinesIs, JoinAssociative
  <2>7. f[n].alert >= 1
    BY ONLY <1>7, <1>9
  <2> QED
    BY ONLY <1>2, <2>1, <2>4, <2>5, <2>6, <2>7
<1> QED
  BY <1>8, <1>9

-----------------------------------------------------------------------------
(* The rules: add_rules_conditions, one key at a time.                     *)

(* The first alert of the key is that of the block, and the block ends     *)
(* with the line in front of the next alert or of the next's {{- if }}.    *)
LEMMA WrapBlock ==
  ASSUME NEW p \in Text, NEW q \in Text, NEW r \in Rules, r.line = "alert",
         NEW key \in DOMAIN BeginsWith, key \in BeginsWith[r.of],
         \A i \in 1 .. Len(p) : p[i].line = "alert" => key \notin BeginsWith[p[i].of],
         \A i \in 1 .. Len(q) : q[i].line = "alert" => key \notin BeginsWith[q[i].of],
         q = <<>> \/ Opens(q)
  PROVE  Wrap((p \o Body(r)) \o q, key) = (p \o (<<If(key)>> \o Body(r) \o <<EndIf>>)) \o q
<1> DEFINE b == Body(r)
           s == (p \o b) \o q
           m == Len(p)
           begin == <<If(key)>>
           finish == <<EndIf>>
<1>1. /\ b \in Text /\ Len(b) = 4 /\ b[1] = r /\ b[4] = EndIf
      /\ \A i \in 1 .. Len(b) : i # 1 => b[i].line # "alert"
  BY BodyIs
<1>2. m \in Nat /\ Len(q) \in Nat
  BY TextType
<1>3. begin \in Text /\ Len(begin) = 1 /\ begin[1].line = "if"
  <2>1. If(key) \in Line /\ If(key).line = "if"
    BY LinesIs DEF If
  <2> QED
    BY <2>1, SingleIs
<1>4. finish \in Text
  BY LinesIs
<1>5. b[4].line = "end"
  <2>1. EndIf.line = "end"
    BY DEF EndIf
  <2> QED
    BY ONLY <1>1, <2>1
<1> HIDE DEF b, begin, finish
<1>6. /\ s \in Text /\ Len(s) = m + 4 + Len(q)
      /\ \A i \in 1 .. m : s[i] = p[i]
      /\ \A i \in 1 .. 4 : s[m + i] = b[i]
      /\ \A i \in 1 .. Len(q) : s[m + 4 + i] = q[i]
  <2>1. /\ s \in Text /\ Len(s) = Len(p) + Len(b) + Len(q)
        /\ \A i \in 1 .. Len(p) : s[i] = p[i]
        /\ \A i \in 1 .. Len(b) : s[Len(p) + i] = b[i]
        /\ \A i \in 1 .. Len(q) : s[Len(p) + Len(b) + i] = q[i]
    <3> HIDE DEF s
    <3>1. s = (p \o b) \o q
      BY DEF s
    <3>2. b \in Text
      BY <1>1
    <3>3. Parts((p \o b) \o q, p, b, q)
      BY ONLY p \in Text, q \in Text, <3>2, ThreeParts
    <3> QED
      BY ONLY <3>1, <3>3 DEF Parts
  <2> HIDE DEF s
  <2> QED
    BY ONLY <1>1, <2>1
<1> DEFINE found == {i \in Alerts(s) : key \in BeginsWith[s[i].of]}
           index == Min(found)
           open  == Insert(s, index, begin)
           nexts == {Len(open) + 1} \cup {i \in Alerts(open) : i > index + 1}
           next  == Min(nexts)
           ends  == {e \in index + 2 .. next : \A i \in e .. next - 1 : open[i].line = "if"}
           end   == Min(ends)
<1>7. s = p \o (b \o q)
  BY <1>1, JoinAssociative
<1> HIDE DEF s
<1>8. DOMAIN s = 1 .. m + 4 + Len(q)
  BY <1>6, TextType
<1>9. found = {m + 1}
  <2>1. m + 1 \in found
    <3>1. m + 1 \in 1 .. m + 4 + Len(q) /\ s[m + 1] = r
      BY <1>1, <1>2, <1>6
    <3> QED
      BY <1>8, <3>1 DEF Alerts
  <2>2. ASSUME NEW i \in found PROVE i = m + 1
    <3>1. i \in 1 .. m + 4 + Len(q) /\ s[i].line = "alert" /\ key \in BeginsWith[s[i].of]
      BY <1>8 DEF Alerts
    <3>2. CASE i <= m
      <4>1. i \in 1 .. m
        BY <1>2, <3>1, <3>2
      <4>2. s[i] = p[i]
        BY ONLY <1>6, <4>1
      <4> QED
        BY <3>1, <4>1, <4>2
    <3>3. CASE i > m + 4
      <4> DEFINE j == i - (m + 4)
      <4>1. j \in 1 .. Len(q) /\ m + 4 + j = i
        BY <1>2, <3>1, <3>3
      <4> HIDE DEF j
      <4>2. s[i] = q[j]
        BY ONLY <1>6, <4>1
      <4> QED
        BY <3>1, <4>1, <4>2
    <3>4. CASE i > m + 1 /\ i <= m + 4
      <4> DEFINE j == i - m
      <4>1. j \in 1 .. 4 /\ j # 1 /\ m + j = i
        BY <1>2, <3>1, <3>4
      <4> HIDE DEF j
      <4>2. s[i] = b[j]
        BY ONLY <1>6, <4>1
      <4> QED
        BY <1>1, <3>1, <4>1, <4>2
    <3> QED
      BY <1>2, <3>1, <3>2, <3>3, <3>4
  <2> QED
    BY <2>1, <2>2
<1>10. index = m + 1
  <2>1. {m + 1} \in SUBSET Nat /\ \A y \in {m + 1} : m + 1 <= y
    BY <1>2
  <2> HIDE DEF found
  <2> QED
    BY <1>9, <2>1, MinOf
<1>11. Wrap(s, key) = Insert(open, end, finish)
  BY <1>9 DEF Wrap, begin, finish
<1> HIDE DEF index, found
<1> DEFINE front == (p \o begin) \o b
<1>12. open = front \o q /\ front \in Text
  <2>1. b \o q \in Text
    BY <1>1, JoinLen
  <2>2. Insert(p \o (b \o q), m + 1, begin) = (p \o begin) \o (b \o q)
    BY ONLY p \in Text, <2>1, InsertBetween
  <2>3. p \o begin \in Text
    BY <1>3, JoinLen
  <2>4. (p \o begin) \o (b \o q) = front \o q
    BY <1>1, <2>3, JoinAssociative
  <2>5. front \in Text
    BY <1>1, <2>3, JoinLen
  <2> QED
    BY <1>7, <1>10, <2>2, <2>4, <2>5
<1>13. /\ Len(front) = m + 5
       /\ \A i \in 1 .. 4 : front[m + 1 + i] = b[i]
  <2>1. /\ front \in Text /\ Len(front) = Len(p) + Len(begin) + Len(b)
        /\ \A i \in 1 .. Len(p) : front[i] = p[i]
        /\ \A i \in 1 .. Len(begin) : front[Len(p) + i] = begin[i]
        /\ \A i \in 1 .. Len(b) : front[Len(p) + Len(begin) + i] = b[i]
    <3> HIDE DEF front
    <3>1. front = (p \o begin) \o b
      BY DEF front
    <3>2. b \in Text /\ begin \in Text
      BY <1>1, <1>3
    <3>3. Parts((p \o begin) \o b, p, begin, b)
      BY ONLY p \in Text, <3>2, ThreeParts
    <3> QED
      BY ONLY <3>1, <3>3 DEF Parts
  <2> HIDE DEF front
  <2>2. Len(front) = m + 1 + 4
    BY ONLY <1>1, <1>3, <2>1
  <2> QED
    BY ONLY <1>1, <1>2, <1>3, <2>1, <2>2
<1> HIDE DEF front, open
<1>14. /\ open \in Text /\ Len(open) = m + 5 + Len(q) /\ DOMAIN open = 1 .. m + 5 + Len(q)
       /\ \A i \in 1 .. 4 : open[m + 1 + i] = b[i]
       /\ \A i \in 1 .. Len(q) : open[m + 5 + i] = q[i]
  <2>1. open \in Text /\ Len(open) = Len(front) + Len(q)
    BY ONLY q \in Text, <1>12, JoinLen
  <2>2. /\ \A i \in 1 .. Len(front) : open[i] = front[i]
        /\ \A i \in 1 .. Len(q) : open[Len(front) + i] = q[i]
    BY ONLY q \in Text, <1>12, JoinLines
  <2>3. Len(open) = m + 5 + Len(q) /\ DOMAIN open = 1 .. m + 5 + Len(q)
    BY <1>13, <2>1, TextType
  <2>4. \A i \in 1 .. Len(q) : open[m + 5 + i] = q[i]
    BY ONLY <1>13, <2>2
  <2>5. ASSUME NEW i \in 1 .. 4 PROVE open[m + 1 + i] = b[i]
    <3>1. m + 1 + i \in 1 .. Len(front)
      BY <1>2, <1>13
    <3> QED
      BY ONLY i \in 1 .. 4, <1>13, <2>2, <3>1
  <2> QED
    BY <2>1, <2>3, <2>4, <2>5
<1>15. open[m + 5].line = "end"
  <2>1. m + 1 + 4 = m + 5 /\ 4 \in 1 .. 4
    BY <1>2
  <2>2. open[m + 1 + 4] = b[4]
    BY ONLY <1>14, <2>1
  <2> QED
    BY ONLY <1>5, <2>1, <2>2
<1>16. nexts \in SUBSET Nat /\ \A y \in nexts : m + 6 <= y
  <2> SUFFICES ASSUME NEW y \in nexts PROVE y \in Nat /\ m + 6 <= y
    OBVIOUS
  <2>1. CASE y = Len(open) + 1
    BY <1>2, <1>14, <2>1
  <2>2. CASE y # Len(open) + 1
    <3>1. y \in 1 .. m + 5 + Len(q) /\ open[y].line = "alert" /\ y > m + 2
      BY <1>10, <1>14, <2>2 DEF Alerts
    <3>2. CASE y <= m + 5
      <4> DEFINE j == y - (m + 1)
      <4>1. j \in 1 .. 4 /\ j # 1 /\ m + 1 + j = y
        BY <1>2, <3>1, <3>2
      <4> HIDE DEF j
      <4>2. open[y] = b[j]
        BY ONLY <1>14, <4>1
      <4> QED
        BY <1>1, <3>1, <4>1, <4>2
    <3> QED
      BY <1>2, <3>1, <3>2
  <2> QED
    BY <2>1, <2>2
<1>17. next = m + 6 \/ (next = m + 7 /\ open[m + 6].line = "if")
  <2>1. CASE Len(q) = 0
    <3>1. m + 6 \in nexts
      BY <1>2, <1>14, <2>1
    <3> HIDE DEF nexts
    <3> QED
      BY <1>16, <3>1, MinOf
  <2>2. CASE Len(q) # 0 /\ q[1].line = "alert"
    <3>1. open[m + 6].line = "alert"
      <4>1. 1 \in 1 .. Len(q) /\ m + 5 + 1 = m + 6
        BY <1>2, <2>2
      <4> QED
        BY ONLY <1>14, <2>2, <4>1
    <3>2. m + 6 \in Alerts(open) /\ m + 6 > index + 1
      BY <1>2, <1>10, <1>14, <2>2, <3>1 DEF Alerts
    <3>3. m + 6 \in nexts
      BY <3>2
    <3> HIDE DEF nexts
    <3> QED
      BY <1>16, <3>3, MinOf
  <2>3. CASE q[1].line = "if" /\ Len(q) >= 2 /\ q[2].line = "alert"
    <3>1. open[m + 6].line = "if" /\ open[m + 7].line = "alert"
      <4>1. 1 \in 1 .. Len(q) /\ m + 5 + 1 = m + 6 /\ 2 \in 1 .. Len(q) /\ m + 5 + 2 = m + 7
        BY <1>2, <2>3
      <4> QED
        BY ONLY <1>14, <2>3, <4>1
    <3>2. m + 7 \in Alerts(open) /\ m + 7 > index + 1
      BY <1>2, <1>10, <1>14, <2>3, <3>1 DEF Alerts
    <3>3. m + 7 \in nexts
      BY <3>2
    <3>4. m + 6 \notin nexts
      BY <1>2, <1>14, <2>3, <3>1 DEF Alerts
    <3> HIDE DEF nexts
    <3>5. \A y \in nexts : m + 7 <= y
      BY <1>2, <1>16, <3>4
    <3> QED
      BY <1>16, <3>1, <3>3, <3>5, MinOf
  <2>4. q = <<>> => Len(q) = 0
    OBVIOUS
  <2> QED
    BY <1>2, <2>1, <2>2, <2>3, <2>4 DEF Opens
<1> HIDE DEF next, nexts
<1>18. end = m + 6
  <2>1. m + 6 \in ends
    BY <1>2, <1>10, <1>17
  <2>2. ASSUME NEW e \in ends PROVE e \in Nat /\ m + 6 <= e
    <3>1. e \in m + 3 .. next /\ \A i \in e .. next - 1 : open[i].line = "if"
      BY <1>2, <1>10
    <3>2. CASE e < m + 6
      <4>1. m + 5 \in e .. next - 1
        BY <1>2, <1>17, <3>1, <3>2
      <4> QED
        BY <1>15, <3>1, <4>1
    <3> QED
      BY <1>2, <1>17, <3>1, <3>2
  <2> HIDE DEF ends
  <2> QED
    BY <2>1, <2>2, MinOf
<1> HIDE DEF end, ends
<1>19. Insert(front \o q, Len(front) + 1, finish) = (front \o finish) \o q
  BY ONLY q \in Text, <1>12, InsertBetween
<1>20. Len(front) + 1 = m + 6
  BY <1>2, <1>13
<1>21. front \o finish = p \o ((begin \o b) \o finish)
  <2>1. front = p \o (begin \o b)
    BY <1>1, <1>3, JoinAssociative DEF front
  <2>2. begin \o b \in Text
    BY <1>1, <1>3, JoinLen
  <2> QED
    BY <1>4, <2>1, <2>2, JoinAssociative
<1>22. Wrap(s, key) = (p \o ((begin \o b) \o finish)) \o q
  BY ONLY <1>11, <1>12, <1>18, <1>19, <1>20, <1>21
<1> QED
  BY <1>22 DEF s, b, begin, finish

(* A stretch of the template, from behind block m to block e, in two texts *)
(* that agree there.                                                       *)
Stretch(q, f, h, rules, m, e) ==
    /\ q \in Text
    /\ f[e] = f[m] \o q /\ h[e] = h[m] \o q
    /\ (q = <<>> /\ e = m) \/ m + 1 \notin Alerts(rules) \/ Opens(q)
    /\ \A i \in 1 .. Len(q) : q[i].line = "alert" => \E k \in m + 1 .. e : q[i] = rules[k]

LEMMA OpensOn ==
  ASSUME NEW p \in Text, NEW q \in Text, Opens(p)
  PROVE  Opens(p \o q)
<1>1. Len(p \o q) = Len(p) + Len(q) /\ Len(p) \in Nat /\ Len(q) \in Nat
  BY JoinLen, TextType
<1>2. \A i \in 1 .. Len(p) : (p \o q)[i] = p[i]
  BY JoinLines
<1>3. 1 \in 1 .. Len(p) /\ (Len(p) >= 2 => 2 \in 1 .. Len(p))
  BY <1>1 DEF Opens
<1>4. (p \o q)[1] = p[1] /\ (Len(p) >= 2 => (p \o q)[2] = p[2])
  BY ONLY <1>2, <1>3
<1>5. Len(p \o q) >= 1 /\ (Len(p) >= 2 => Len(p \o q) >= 2)
  BY ONLY <1>1, <1>3
<1> QED
  BY ONLY <1>4, <1>5, Opens(p) DEF Opens

LEMMA StretchStep ==
  ASSUME NEW rules \in Seq(Rules), NEW keys \in SUBSET Range(ConditionMap), NEW more, NEW f, NEW h,
         Flat(f, rules, keys), Flat(h, rules, more),
         NEW m \in Nat, NEW e \in m + 1 .. Len(rules),
         BlockFor(rules[e], keys) = BlockFor(rules[e], more),
         NEW q, Stretch(q, f, h, rules, m, e - 1)
  PROVE  \E t : Stretch(t, f, h, rules, m, e)
<1> DEFINE b == BlockFor(rules[e], keys)
           t == q \o b
<1>1. /\ Len(rules) \in Nat /\ e \in 1 .. Len(rules) /\ rules[e] \in Rules /\ m \in 0 .. Len(rules)
      /\ Alerts(rules) = {k \in 1 .. Len(rules) : rules[k].line = "alert"}
  BY RulesText
<1>2. /\ b \in Text
      /\ \A i \in 1 .. Len(b) : b[i].line = "alert" => b[i] = rules[e]
      /\ rules[e].line = "alert" => Opens(b)
  BY <1>1, BlockIs
<1>3. f[e] = f[e - 1] \o b /\ h[e] = h[e - 1] \o b
  BY <1>1 DEF Flat
<1>4. f[m] \in Text /\ h[m] \in Text
  BY <1>1 DEF Flat
<1>5. /\ q \in Text /\ f[e - 1] = f[m] \o q /\ h[e - 1] = h[m] \o q
      /\ (q = <<>> /\ e - 1 = m) \/ m + 1 \notin Alerts(rules) \/ Opens(q)
      /\ \A i \in 1 .. Len(q) : q[i].line = "alert" => \E k \in m + 1 .. e - 1 : q[i] = rules[k]
  BY DEF Stretch
<1> HIDE DEF b
<1>6. t \in Text /\ f[e] = f[m] \o t /\ h[e] = h[m] \o t
  <2>1. q \in Text /\ b \in Text
    BY <1>2, <1>5
  <2>2. t \in Text
    BY ONLY <2>1, JoinLen
  <2>3. (f[m] \o q) \o b = f[m] \o (q \o b)
    BY ONLY <1>4, <2>1, JoinAssociative
  <2>4. (h[m] \o q) \o b = h[m] \o (q \o b)
    BY ONLY <1>4, <2>1, JoinAssociative
  <2>5. f[e] = (f[m] \o q) \o b /\ h[e] = (h[m] \o q) \o b
    BY ONLY <1>3, <1>5
  <2> QED
    BY ONLY <2>2, <2>3, <2>4, <2>5
<1>7. m + 1 \notin Alerts(rules) \/ Opens(t)
  <2>1. CASE Opens(q)
    BY ONLY <1>2, <1>5, <2>1, OpensOn
  <2>2. CASE q = <<>> /\ e - 1 = m
    <3>1. t = b
      BY <1>2, <2>2, ConcatEmptySeq DEF Text
    <3>2. m + 1 = e
      BY <1>1, <2>2
    <3>3. m + 1 \in Alerts(rules) => rules[e].line = "alert"
      BY ONLY <1>1, <3>2
    <3> QED
      BY ONLY <1>2, <3>1, <3>3
  <2> QED
    BY ONLY <1>5, <2>1, <2>2
<1>8. ASSUME NEW i \in 1 .. Len(t), t[i].line = "alert" PROVE \E k \in m + 1 .. e : t[i] = rules[k]
  <2>1. Len(q) \in Nat /\ Len(b) \in Nat /\ Len(t) = Len(q) + Len(b)
    BY <1>2, <1>5, TextType, JoinLen
  <2>2. /\ \A j \in 1 .. Len(q) : t[j] = q[j]
        /\ \A j \in 1 .. Len(b) : t[Len(q) + j] = b[j]
    BY <1>2, <1>5, JoinLines
  <2> HIDE DEF t
  <2>3. CASE i <= Len(q)
    <3>1. i \in 1 .. Len(q)
      BY <2>1, <2>3
    <3>2. t[i] = q[i]
      BY ONLY <2>2, <3>1
    <3>3. PICK k \in m + 1 .. e - 1 : q[i] = rules[k]
      BY <1>5, <1>8, <3>1, <3>2
    <3>4. k \in m + 1 .. e
      BY <1>1
    <3> QED
      BY <3>2, <3>3, <3>4
  <2>4. CASE i > Len(q)
    <3> DEFINE j == i - Len(q)
    <3>1. j \in 1 .. Len(b) /\ Len(q) + j = i
      BY <2>1, <2>4
    <3> HIDE DEF j
    <3>2. t[i] = b[j]
      BY ONLY <2>2, <3>1
    <3>3. t[i] = rules[e] /\ e \in m + 1 .. e
      BY <1>1, <1>2, <1>8, <3>1, <3>2
    <3> QED
      BY <3>3
  <2> QED
    BY <2>1, <2>3, <2>4
<1> HIDE DEF t
<1>9. Stretch(t, f, h, rules, m, e)
  BY ONLY <1>6, <1>7, <1>8 DEF Stretch
<1> QED
  BY <1>9

LEMMA StretchIs ==
  ASSUME NEW rules \in Seq(Rules), NEW keys \in SUBSET Range(ConditionMap), NEW more, NEW f, NEW h,
         Flat(f, rules, keys), Flat(h, rules, more),
         NEW e \in 0 .. Len(rules), NEW m \in 0 .. e,
         \A k \in m + 1 .. e : BlockFor(rules[k], keys) = BlockFor(rules[k], more)
  PROVE  \E q : Stretch(q, f, h, rules, m, e)
<1> DEFINE Good(k) == \E q : Stretch(q, f, h, rules, m, m + k)
           S == {k \in Nat : m + k <= e => Good(k)}
<1>1. Len(rules) \in Nat /\ m \in Nat /\ e \in Nat /\ m \in 0 .. Len(rules) /\ m + 0 = m
  BY RulesText
<1>2. Good(0)
  <2>1. f[m] \in Text /\ h[m] \in Text
    BY <1>1 DEF Flat
  <2>2. f[m] \o <<>> = f[m] /\ h[m] \o <<>> = h[m] /\ <<>> \in Text /\ Len(<<>>) = 0
    BY <2>1, ConcatEmptySeq DEF Text
  <2>3. Stretch(<<>>, f, h, rules, m, m)
    BY <2>2 DEF Stretch
  <2> QED
    BY <1>1, <2>3
<1>3. ASSUME NEW k \in Nat, k \in S PROVE k + 1 \in S
  <2> SUFFICES ASSUME m + (k + 1) <= e PROVE Good(k + 1)
    OBVIOUS
  <2> DEFINE j == m + (k + 1)
  <2>1. j \in m + 1 .. Len(rules) /\ j \in m + 1 .. e /\ j - 1 = m + k /\ Good(k)
    BY <1>1, <1>3
  <2> HIDE DEF j
  <2>2. PICK q : Stretch(q, f, h, rules, m, j - 1)
    BY <2>1
  <2>3. BlockFor(rules[j], keys) = BlockFor(rules[j], more)
    BY <2>1
  <2>4. \E t : Stretch(t, f, h, rules, m, j)
    BY ONLY rules \in Seq(Rules), keys \in SUBSET Range(ConditionMap), Flat(f, rules, keys),
            Flat(h, rules, more), <1>1, <2>1, <2>2, <2>3, StretchStep
  <2> QED
    BY <2>4 DEF j
<1> HIDE DEF Good
<1>4. 0 \in S
  BY <1>2
<1> HIDE DEF S
<1>5. e - m \in S
  <2>1. e - m \in Nat
    BY <1>1
  <2> QED
    BY <1>3, <1>4, <2>1, Induction
<1>6. e - m \in Nat /\ m + (e - m) = e
  BY <1>1
<1>7. Good(e - m)
  BY <1>5, <1>6 DEF S
<1> QED
  BY <1>6, <1>7 DEF Good

(* An alert of a plain group is looked up by its own key only.             *)
LEMMA OwnKey ==
  ASSUME NEW rules \in Seq(Rules), Plain(rules), NEW key \in Range(ConditionMap),
         NEW k \in 1 .. Len(rules)
  PROVE  /\ rules[k].line = "alert" /\ rules[k].of # key => key \notin BeginsWith[rules[k].of]
         /\ rules[k].of = key => rules[k].line = "alert" /\ key \in BeginsWith[rules[k].of]
<1>1. rules[k] \in Rules /\ Alerts(rules) = {i \in 1 .. Len(rules) : rules[i].line = "alert"}
  BY RulesText
<1>2. /\ rules[k].line \in {"alert", "record"}
      /\ rules[k].line = "record" => rules[k].of \notin Range(ConditionMap)
  BY <1>1, RuleIs
<1>3. rules[k].line = "alert" => BeginsWith[rules[k].of] \subseteq {rules[k].of}
  BY <1>1 DEF Plain
<1>4. key \in BeginsWith[key]
  BY RulesAssumption
<1> QED
  BY <1>2, <1>3, <1>4

(* One more key of the map: its alert is looked for in the whole text, and *)
(* its block is the only one that changes.                                 *)
LEMMA WrapOne ==
  ASSUME NEW rules \in Seq(Rules), Plain(rules),
         NEW keys \in SUBSET Range(ConditionMap), NEW key \in Range(ConditionMap), key \notin keys,
         NEW f, NEW h, Flat(f, rules, keys), Flat(h, rules, keys \cup {key})
  PROVE  Wrap(f[Len(rules)], key) = h[Len(rules)]
<1> DEFINE n == Len(rules)
           more == keys \cup {key}
<1>1. /\ n \in Nat /\ \A k \in 1 .. n : rules[k] \in Rules
      /\ Alerts(rules) = {i \in 1 .. n : rules[i].line = "alert"}
  BY RulesText
<1>2. /\ f \in [0 .. n -> Text] /\ f[0] = <<>> /\ h \in [0 .. n -> Text] /\ h[0] = <<>>
      /\ \A k \in 1 .. n : f[k] = f[k - 1] \o BlockFor(rules[k], keys)
      /\ \A k \in 1 .. n : h[k] = h[k - 1] \o BlockFor(rules[k], more)
  BY DEF Flat
<1>3. key \in DOMAIN BeginsWith
  BY LinesIs
<1>4. \A s \in Text : <<>> \o s = s
  BY ConcatEmptySeq DEF Text
<1>5. \A k \in 1 .. n : rules[k].of # key => BlockFor(rules[k], keys) = BlockFor(rules[k], more)
  <2> SUFFICES ASSUME NEW k \in 1 .. n, rules[k].of # key
               PROVE  BlockFor(rules[k], keys) = BlockFor(rules[k], more)
    OBVIOUS
  <2>1. rules[k].of \in keys <=> rules[k].of \in more
    OBVIOUS
  <2> HIDE DEF more
  <2> QED
    BY ONLY <2>1 DEF BlockFor
<1>6. \A k \in 1 .. n : rules[k].line = "alert" /\ rules[k].of # key => key \notin BeginsWith[rules[k].of]
  BY OwnKey
<1>7. Flat(f, rules, keys) /\ Flat(h, rules, more)
  OBVIOUS
<1> HIDE DEF n, more
<1>8. CASE \A k \in 1 .. n : rules[k].of # key
  <2>1. \A k \in 1 .. n : BlockFor(rules[k], keys) = BlockFor(rules[k], more)
    BY ONLY <1>5, <1>8
  <2>2. n \in 0 .. n /\ 0 \in 0 .. n /\ 0 + 1 = 1
    BY <1>1
  <2>3. f[n] = h[n]
    BY <1>7, <2>1, <2>2, FlatAgree DEF n
  <2>4. PICK q : Stretch(q, f, h, rules, 0, n)
    BY <1>7, <2>1, <2>2, StretchIs DEF n
  <2>5. /\ q \in Text /\ f[n] = f[0] \o q
        /\ \A i \in 1 .. Len(q) : q[i].line = "alert" => \E k \in 0 + 1 .. n : q[i] = rules[k]
    BY ONLY <2>4 DEF Stretch
  <2>6. f[n] = q
    BY ONLY <1>2, <1>4, <2>5
  <2>7. {i \in Alerts(q) : key \in BeginsWith[q[i].of]} = {}
    <3> SUFFICES ASSUME NEW i \in Alerts(q), key \in BeginsWith[q[i].of] PROVE FALSE
      OBVIOUS
    <3>1. i \in 1 .. Len(q) /\ q[i].line = "alert"
      BY <2>5, TextType DEF Alerts
    <3>2. PICK k \in 1 .. n : q[i] = rules[k]
      BY ONLY <2>2, <2>5, <3>1
    <3> QED
      BY ONLY <1>6, <1>8, <3>1, <3>2, key \in BeginsWith[q[i].of]
  <2>8. Wrap(q, key) = q
    BY <2>7 DEF Wrap
  <2> QED
    BY <2>3, <2>6, <2>8 DEF n
<1>9. ASSUME NEW i \in 1 .. n, rules[i].of = key PROVE Wrap(f[n], key) = h[n]
  <2> DEFINE r == rules[i]
             body == Body(r)
  <2>1. r \in Rules /\ r.line = "alert" /\ key \in BeginsWith[r.of]
    BY <1>1, <1>9, OwnKey DEF n
  <2>2. \A k \in 1 .. n : k # i => rules[k].of # key
    <3> SUFFICES ASSUME NEW k \in 1 .. n, rules[k].of = key PROVE k = i
      OBVIOUS
    <3>1. k \in Alerts(rules) /\ i \in Alerts(rules)
      BY <1>1, <1>9, OwnKey DEF n
    <3> QED
      BY <1>9, <3>1 DEF Plain
  <2>3. /\ i - 1 \in 0 .. n /\ i \in 0 .. n /\ n \in 0 .. n /\ i \in 0 .. n /\ 0 \in 0 .. i - 1
        /\ \A k \in 1 .. i - 1 : k \in 1 .. n /\ k # i
        /\ \A k \in i + 1 .. n : k \in 1 .. n /\ k # i
    BY <1>1
  <2>4. \A k \in 1 .. i - 1 : BlockFor(rules[k], keys) = BlockFor(rules[k], more)
    BY ONLY <1>5, <2>2, <2>3
  <2>5. \A k \in i + 1 .. n : BlockFor(rules[k], keys) = BlockFor(rules[k], more)
    BY ONLY <1>5, <2>2, <2>3
  <2>6. f[i - 1] = h[i - 1]
    BY <1>7, <2>3, <2>4, FlatAgree DEF n
  <2>7. PICK p : Stretch(p, f, h, rules, 0, i - 1)
    <3>1. \A k \in 0 + 1 .. i - 1 : BlockFor(rules[k], keys) = BlockFor(rules[k], more)
      BY <2>4
    <3>2. i - 1 \in 0 .. Len(rules)
      BY ONLY <2>3 DEF n
    <3> QED
      BY ONLY rules \in Seq(Rules), keys \in SUBSET Range(ConditionMap), <1>7, <2>3, <3>1, <3>2, StretchIs
  <2>8. PICK q : Stretch(q, f, h, rules, i, n)
    <3>1. n \in 0 .. Len(rules)
      BY ONLY <2>3 DEF n
    <3> QED
      BY ONLY rules \in Seq(Rules), keys \in SUBSET Range(ConditionMap), <1>7, <2>3, <2>5, <3>1, StretchIs
  <2>9. /\ p \in Text /\ f[i - 1] = p
        /\ \A j \in 1 .. Len(p) : p[j].line = "alert" => key \notin BeginsWith[p[j].of]
    <3>1. /\ p \in Text /\ f[i - 1] = f[0] \o p
          /\ \A j \in 1 .. Len(p) : p[j].line = "alert" => \E k \in 0 + 1 .. i - 1 : p[j] = rules[k]
      BY ONLY <2>7 DEF Stretch
    <3>2. f[i - 1] = p
      BY ONLY <1>2, <1>4, <3>1
    <3>3. ASSUME NEW j \in 1 .. Len(p), p[j].line = "alert" PROVE key \notin BeginsWith[p[j].of]
      <4>1. PICK k \in 0 + 1 .. i - 1 : p[j] = rules[k]
        BY ONLY <3>1, <3>3
      <4>2. k \in 1 .. i - 1
        BY <4>1
      <4> QED
        BY ONLY <1>6, <2>2, <2>3, <3>3, <4>1, <4>2
    <3> QED
      BY ONLY <3>1, <3>2, <3>3
  <2>10. /\ q \in Text /\ f[n] = f[i] \o q /\ h[n] = h[i] \o q
         /\ \A j \in 1 .. Len(q) : q[j].line = "alert" => key \notin BeginsWith[q[j].of]
    <3>1. /\ q \in Text /\ f[n] = f[i] \o q /\ h[n] = h[i] \o q
          /\ \A j \in 1 .. Len(q) : q[j].line = "alert" => \E k \in i + 1 .. n : q[j] = rules[k]
      BY ONLY <2>8 DEF Stretch
    <3>2. ASSUME NEW j \in 1 .. Len(q), q[j].line = "alert" PROVE key \notin BeginsWith[q[j].of]
      <4>1. PICK k \in i + 1 .. n : q[j] = rules[k]
        BY ONLY <3>1, <3>2
      <4> QED
        BY ONLY <1>6, <2>2, <2>3, <3>2, <4>1
    <3> QED
      BY ONLY <3>1, <3>2
  <2>11. q = <<>> \/ Opens(q)
    <3>1. (q = <<>> /\ n = i) \/ i + 1 \notin Alerts(rules) \/ Opens(q)
      BY ONLY <2>8 DEF Stretch
    <3>2. CASE n = i
      <4>1. Len(f[n]) = Len(f[i]) + Len(q) /\ Len(q) \in Nat /\ Len(f[i]) \in Nat
        BY <1>2, <2>3, <2>10, JoinLen, TextType
      <4>2. Len(q) = 0
        BY ONLY <3>2, <4>1
      <4> QED
        BY ONLY <2>10, <4>2, EmptySeq DEF Text
    <3>3. CASE n # i
      <4>1. i \in Alerts(rules) /\ i + 1 \in i .. Len(rules)
        BY <1>1, <2>1, <3>3 DEF n
      <4>2. i + 1 \in Alerts(rules)
        BY ONLY <4>1, Plain(rules) DEF Plain
      <4> QED
        BY ONLY <3>1, <3>3, <4>2
    <3> QED
      BY ONLY <3>2, <3>3
  <2>12. BlockFor(r, keys) = body /\ BlockFor(r, more) = <<If(key)>> \o body \o <<EndIf>>
    BY <1>9 DEF BlockFor, more
  <2>13. f[i] = p \o body /\ h[i] = p \o (<<If(key)>> \o body \o <<EndIf>>)
    BY ONLY <1>2, <2>6, <2>9, <2>12, i \in 1 .. n
  <2>14. Wrap((p \o body) \o q, key) = (p \o (<<If(key)>> \o body \o <<EndIf>>)) \o q
    BY ONLY <1>3, <2>1, <2>9, <2>10, <2>11, WrapBlock
  <2> QED
    BY ONLY <2>10, <2>13, <2>14
<1> QED
  BY <1>8, <1>9 DEF n

(* The first k keys of the map.                                            *)
FirstKeys(k) == {ConditionMap[j] : j \in 1 .. k}

(* The keys are gone through in the order of the map, whatever the order   *)
(* of the alerts.                                                          *)
LEMMA ConditionsAreIn ==
  ASSUME NEW rules \in Seq(Rules), Plain(rules), NEW f, Flat(f, rules, {}),
         NEW h, Flat(h, rules, Range(ConditionMap))
  PROVE  AddRulesConditions(f[Len(rules)]) = h[Len(rules)]
<1> DEFINE n == Len(rules)
           m == Len(ConditionMap)
<1>1. n \in Nat /\ m \in Nat /\ f[n] \in Text
  BY RulesText, KeysType DEF Flat
<1>2. PICK w \in [0 .. m -> Text] :
         /\ w[0] = f[n] /\ w[m] = AddRulesConditions(f[n])
         /\ \A k \in 1 .. m : w[k] = Wrap(w[k - 1], ConditionMap[k])
  BY <1>1, WrapSteps
<1> DEFINE Good(k) == \A t : Flat(t, rules, FirstKeys(k)) => w[k] = t[n]
           S == {k \in Nat : k <= m => Good(k)}
<1>3. Good(0)
  <2>0. FirstKeys(0) = {}
    BY DEF FirstKeys
  <2> SUFFICES ASSUME NEW t, Flat(t, rules, {}) PROVE w[0] = t[n]
    BY <2>0
  <2>1. n \in 0 .. n
    BY <1>1
  <2>2. f[n] = t[n]
    BY ONLY rules \in Seq(Rules), Flat(f, rules, {}), Flat(t, rules, {}), <2>1, FlatAgree
  <2> QED
    BY <1>2, <2>2
<1>4. ASSUME NEW k \in Nat, k \in S PROVE k + 1 \in S
  <2> SUFFICES ASSUME k + 1 <= m, NEW t, Flat(t, rules, FirstKeys(k + 1)) PROVE w[k + 1] = t[n]
    OBVIOUS
  <2> DEFINE key == ConditionMap[k + 1]
             keys == FirstKeys(k)
  <2>1. k + 1 \in 1 .. m /\ (k + 1) - 1 = k /\ Good(k)
    BY <1>1, <1>4
  <2>2. key \in Range(ConditionMap) /\ keys \in SUBSET Range(ConditionMap)
    BY <1>1, <2>1, KeysType DEF FirstKeys
  <2>3. key \notin keys
    <3> SUFFICES ASSUME NEW j \in 1 .. k, ConditionMap[j] = key PROVE FALSE
      BY DEF FirstKeys
    <3>1. j \in DOMAIN ConditionMap /\ k + 1 \in DOMAIN ConditionMap /\ j # k + 1
      BY <1>1, <2>1, KeysType
    <3> QED
      BY ONLY <3>1, ConditionMap[j] = key, RulesAssumption DEF key
  <2>4. FirstKeys(k + 1) = keys \cup {key}
    <3>1. 1 .. k + 1 = (1 .. k) \cup {k + 1}
      OBVIOUS
    <3> QED
      BY <3>1 DEF FirstKeys
  <2>5. PICK g : Flat(g, rules, keys)
    BY <2>2, FlatExists
  <2>6. w[k] = g[n]
    BY <2>1, <2>5
  <2>7. w[k + 1] = Wrap(w[k], key)
    BY <1>2, <2>1
  <2> HIDE DEF key, keys
  <2>8. Flat(t, rules, keys \cup {key})
    BY <2>4
  <2>9. Wrap(g[n], key) = t[n]
    BY ONLY rules \in Seq(Rules), Plain(rules), <2>2, <2>3, <2>5, <2>8, WrapOne
  <2> QED
    BY ONLY <2>6, <2>7, <2>9
<1> HIDE DEF Good
<1>5. 0 \in S
  BY <1>3
<1> HIDE DEF S
<1>6. m \in S
  BY <1>1, <1>4, <1>5, Induction
<1>7. Good(m)
  BY <1>1, <1>6 DEF S
<1>8. FirstKeys(m) = Range(ConditionMap)
  BY KeysType DEF FirstKeys
<1>9. w[m] = h[n]
  BY <1>7, <1>8 DEF Good
<1> QED
  BY <1>2, <1>9

(* Both scripts together: the text of a plain group is the one it should   *)
(* be.                                                                     *)
LEMMA PlainTemplate ==
  ASSUME NEW rules \in Seq(Rules), Plain(rules)
  PROVE  AddRulesConditions(AddCustomLabels(rules)) = FlattenSeq([i \in DOMAIN rules |-> Block(rules[i])])
<1>1. PICK f : Flat(f, rules, {})
  BY FlatExists
<1>2. PICK h : Flat(h, rules, Range(ConditionMap))
  BY FlatExists
<1>3. AddCustomLabels(rules) = f[Len(rules)]
  BY <1>1, LabelsAreIn DEF Plain
<1>4. AddRulesConditions(f[Len(rules)]) = h[Len(rules)]
  BY <1>1, <1>2, ConditionsAreIn
<1>5. FlattenSeq([i \in DOMAIN rules |-> Block(rules[i])]) = h[Len(rules)]
  BY <1>2, FlattenIs
<1> QED
  BY <1>3, <1>4, <1>5

(* No line of the rules is lost, whatever the group looks like.            *)
LEMMA LinesStay ==
  ASSUME NEW rules \in Seq(Rules)
  PROVE  Range(rules) \subseteq Range(AddRulesConditions(AddCustomLabels(rules)))
<1> DEFINE n == Len(rules)
           m == Len(ConditionMap)
           b == AddCustomLabels(rules)
<1>1. rules \in Text /\ n \in Nat /\ m \in Nat
  BY RulesText, KeysType
<1>2. PICK f \in [0 .. n -> Labelling(n)] :
         /\ f[0] = [rules |-> rules, alert |-> 0]
         /\ \A k \in 1 .. n : f[k] = LabelLine(rules, f[k - 1], k)
         /\ b = IF f[n].alert >= 1 THEN f[n].rules \o Labels ELSE f[n].rules
  BY <1>1, LabelSteps
<1> HIDE DEF b
<1> DEFINE S == {k \in Nat : k <= n => Range(rules) \subseteq Range(f[k].rules)}
<1>3. 0 \in S
  BY <1>2
<1>4. ASSUME NEW k \in Nat, k \in S PROVE k + 1 \in S
  <2> SUFFICES ASSUME k + 1 <= n PROVE Range(rules) \subseteq Range(f[k + 1].rules)
    OBVIOUS
  <2>0. k \in 0 .. n /\ k <= n
    BY <1>1
  <2>1. k + 1 \in 1 .. n /\ (k + 1) - 1 = k /\ f[k] \in Labelling(n) /\ Range(rules) \subseteq Range(f[k].rules)
    <3>1. k + 1 \in 1 .. n /\ (k + 1) - 1 = k
      BY <1>1
    <3>2. f[k] \in Labelling(n)
      BY ONLY f \in [0 .. n -> Labelling(n)], <2>0
    <3>3. Range(rules) \subseteq Range(f[k].rules)
      BY ONLY k \in S, <2>0
    <3> QED
      BY ONLY <3>1, <3>2, <3>3
  <2>2. f[k + 1] = LabelLine(rules, f[k], k + 1)
    BY <1>2, <2>1
  <2>3. Range(f[k].rules) \subseteq Range(LabelBefore(f[k], k + 1).rules)
    BY <1>1, <2>1, LabelIs
  <2>4. LabelLine(rules, f[k], k + 1) \in {f[k], LabelBefore(f[k], k + 1)}
    BY DEF LabelLine
  <2> HIDE DEF n, m
  <2> QED
    BY ONLY <2>1, <2>2, <2>3, <2>4
<1> HIDE DEF S
<1>5. n \in S
  BY <1>1, <1>3, <1>4, Induction
<1>6. Range(rules) \subseteq Range(f[n].rules) /\ f[n].rules \in Text
  BY <1>1, <1>2, <1>5 DEF S, Labelling
<1>7. b \in Text /\ Range(rules) \subseteq Range(b)
  <2>1. f[n].rules \o Labels \in Text /\ Range(f[n].rules \o Labels) = Range(f[n].rules) \cup Range(Labels)
    BY <1>6, LinesIs, JoinIs
  <2> QED
    BY <1>2, <1>6, <2>1
<1>8. PICK w \in [0 .. m -> Text] :
         /\ w[0] = b /\ w[m] = AddRulesConditions(b)
         /\ \A k \in 1 .. m : w[k] = Wrap(w[k - 1], ConditionMap[k])
  BY <1>7, WrapSteps
<1> DEFINE T == {k \in Nat : k <= m => Range(rules) \subseteq Range(w[k])}
<1>9. 0 \in T
  BY <1>7, <1>8
<1>10. ASSUME NEW k \in Nat, k \in T PROVE k + 1 \in T
  <2> SUFFICES ASSUME k + 1 <= m PROVE Range(rules) \subseteq Range(w[k + 1])
    OBVIOUS
  <2>1. k + 1 \in 1 .. m /\ (k + 1) - 1 = k /\ w[k] \in Text /\ Range(rules) \subseteq Range(w[k])
    BY <1>1, <1>8, <1>10
  <2>2. w[k + 1] = Wrap(w[k], ConditionMap[k + 1]) /\ ConditionMap[k + 1] \in DOMAIN BeginsWith
    BY <1>8, <2>1, KeysType
  <2>3. Range(w[k]) \subseteq Range(Wrap(w[k], ConditionMap[k + 1]))
    BY <2>1, <2>2, WrapIs
  <2> QED
    BY <2>1, <2>2, <2>3
<1> HIDE DEF T
<1>11. m \in T
  BY <1>1, <1>9, <1>10, Induction
<1> QED
  BY <1>1, <1>8, <1>11 DEF T, b

-----------------------------------------------------------------------------
(* The rules: the script.                                                  *)

(* Every file of the disk is the template of the rules that it was made    *)
(* of, and there is one for each name.                                     *)
FilesMade ==
    \A t \in templates :
        t.rules \in Seq(Rules) /\ t.lines = AddRulesConditions(AddCustomLabels(t.rules))

OneFileEach == \A t, u \in templates : t.name = u.name => t = u

RulesInv ==
    /\ chart \in 0 .. Len(Offered) + 1
    /\ syncs \in 0 .. MaxSyncs
    /\ pending \in Seq(Groups)
    /\ IsFiniteSet(templates)
    /\ FilesMade
    /\ OneFileEach

LEMMA ChartsType ==
  /\ Len(Offered) \in Nat /\ DOMAIN Offered = 1 .. Len(Offered) /\ MaxSyncs \in Nat
  /\ \A i \in DOMAIN Offered : Offered[i] \subseteq Seq(Groups)
<1>1. Offered \in Seq(SUBSET Seq(Groups))
  BY ChartsAssumption
<1>2. Len(Offered) \in Nat /\ DOMAIN Offered = 1 .. Len(Offered)
  BY ONLY <1>1, LenProperties
<1>3. \A i \in 1 .. Len(Offered) : Offered[i] \in SUBSET Seq(Groups)
  BY ONLY <1>1, ElementOfSeq
<1> QED
  BY <1>2, <1>3, RulesAssumption

LEMMA RulesInvInit == RulesInit => RulesInv
<1> SUFFICES ASSUME RulesInit PROVE RulesInv
  OBVIOUS
<1>1. chart \in 0 .. Len(Offered) + 1 /\ syncs \in 0 .. MaxSyncs
  BY ChartsType DEF RulesInit
<1>2. pending \in Seq(Groups)
  BY DEF RulesInit
<1>3. templates = {} /\ IsFiniteSet(templates)
  BY FS_EmptySet DEF RulesInit
<1> QED
  BY <1>1, <1>2, <1>3 DEF RulesInv, FilesMade, OneFileEach

LEMMA FilesStay ==
  ASSUME FilesMade, OneFileEach, IsFiniteSet(templates), templates' = templates
  PROVE  FilesMade' /\ OneFileEach' /\ IsFiniteSet(templates')
BY DEF FilesMade, OneFileEach

LEMMA RulesInvStep == RulesInv /\ [RulesNext]_rulesVars => RulesInv'
<1> SUFFICES ASSUME RulesInv, [RulesNext]_rulesVars PROVE RulesInv'
  OBVIOUS
<1>0. /\ chart \in 0 .. Len(Offered) + 1 /\ syncs \in 0 .. MaxSyncs /\ pending \in Seq(Groups)
      /\ IsFiniteSet(templates) /\ FilesMade /\ OneFileEach
  BY DEF RulesInv
<1>1. CASE BeginSync
  <2>1. chart' \in 0 .. Len(Offered) + 1 /\ syncs' \in 0 .. MaxSyncs
    BY <1>0, <1>1, ChartsType DEF BeginSync
  <2>2. pending' \in Seq(Groups) /\ templates' = templates
    BY <1>1 DEF BeginSync
  <2> QED
    BY <1>0, <2>1, <2>2, FilesStay DEF RulesInv
<1>2. ASSUME NEW i \in DOMAIN Offered, NEW groups \in Offered[i], FetchChart(groups), i = chart PROVE RulesInv'
  <2>1. chart' \in 0 .. Len(Offered) + 1 /\ syncs' = syncs
    BY <1>0, <1>2, ChartsType DEF FetchChart
  <2>2. pending' \in Seq(Groups) /\ templates' = templates
    BY <1>2, ChartsType DEF FetchChart
  <2> QED
    BY <1>0, <2>1, <2>2, FilesStay DEF RulesInv
<1>3. CASE SkipChart \/ SyncRaises \/ Finish
  <2>1. chart' \in 0 .. Len(Offered) + 1 /\ syncs' = syncs
    BY <1>0, <1>3, ChartsType DEF SkipChart, SyncRaises, Finish
  <2>2. pending' = pending /\ templates' = templates
    BY <1>3 DEF SkipChart, SyncRaises, Finish
  <2> QED
    BY <1>0, <2>1, <2>2, FilesStay DEF RulesInv
<1>4. CASE WriteGroup
  <2> DEFINE group == Head(pending)
             written == [name |-> group.name, rules |-> group.rules,
                      lines |-> AddRulesConditions(AddCustomLabels(group.rules))]
             kept == {t \in templates : t.name # group.name}
  <2>1. pending' \in Seq(Groups) /\ group \in Groups
    BY <1>0, <1>4, HeadTailProperties DEF WriteGroup
  <2>2. group.rules \in Seq(Rules)
    BY <2>1 DEF Groups
  <2>3. templates' = kept \cup {written} /\ chart' = chart /\ syncs' = syncs
    BY <1>4 DEF WriteGroup
  <2>4. written.name = group.name /\ written.rules \in Seq(Rules)
        /\ written.lines = AddRulesConditions(AddCustomLabels(written.rules))
    BY <2>2
  <2> HIDE DEF written
  <2>5. IsFiniteSet(templates')
    <3>1. IsFiniteSet(kept)
      BY <1>0, FS_Subset
    <3> QED
      BY <2>3, <3>1, FS_AddElement
  <2>6. FilesMade'
    BY ONLY <1>0, <2>3, <2>4 DEF FilesMade
  <2>7. OneFileEach'
    BY ONLY <1>0, <2>3, <2>4 DEF OneFileEach
  <2> QED
    BY ONLY <1>0, <2>1, <2>3, <2>5, <2>6, <2>7 DEF RulesInv
<1>5. CASE UNCHANGED rulesVars
  BY <1>0, <1>5, FilesStay DEF rulesVars, RulesInv
<1> QED
  BY <1>1, <1>2, <1>3, <1>4, <1>5 DEF RulesNext

LEMMA RulesInvTyped == RulesInv => RulesTypeOK
<1> SUFFICES ASSUME RulesInv PROVE RulesTypeOK
  OBVIOUS
<1>1. \A t \in templates : Range(t.rules) \subseteq Range(t.lines)
  BY LinesStay DEF RulesInv, FilesMade
<1> DEFINE names == {t.name : t \in templates}
           name == [t \in templates |-> t.name]
<1>2. IsFiniteSet(templates)
  BY DEF RulesInv
<1>3. /\ name \in [templates -> names]
      /\ \A t, u \in templates : name[t] = name[u] => t = u
      /\ \A x \in names : \E t \in templates : name[t] = x
  BY DEF RulesInv, OneFileEach
<1> HIDE DEF names, name
<1>4. name \in Bijection(templates, names)
  BY ONLY <1>3 DEF Bijection, Injection, Surjection, IsInjective
<1>5. ExistsBijection(templates, names)
  BY ONLY <1>4 DEF ExistsBijection
<1>6. Cardinality(names) = Cardinality(templates)
  BY ONLY <1>2, <1>5, FS_Bijection
<1> QED
  BY <1>1, <1>6 DEF RulesInv, RulesTypeOK, names

LEMMA RulesInvWrapped == RulesInv => EveryAlertWrapped
BY PlainTemplate DEF RulesInv, FilesMade, EveryAlertWrapped

(* Type correctness: the charts are gone through in order, a file keeps    *)
(* every line of its rules, and no two files have one name                 *)
(* (sync_prometheus_rules.py:261).                                         *)
THEOREM RulesTypeCorrect == RulesSpec => []RulesTypeOK
BY RulesInvInit, RulesInvStep, RulesInvTyped, PTL DEF RulesSpec

(* Whatever alerts and keys there are, however long the groups and in      *)
(* whatever order both stand: each alert of a plain group comes out under  *)
(* its own condition and no other, with one block of labels behind it, and *)
(* each {{- if }} is closed in front of the next alert                     *)
(* (sync_prometheus_rules.py:208-261).                                     *)
THEOREM AlertsAreWrapped == RulesSpec => []EveryAlertWrapped
BY RulesInvInit, RulesInvStep, RulesInvWrapped, PTL DEF RulesSpec

-----------------------------------------------------------------------------
(* The programs together.                                                  *)

(* The state of a program that does not run is one it could begin in.      *)
LEMMA OthersInit == (NoTerraform => TfInit) /\ (NoAws => AwsInit) /\ (NoKube => KubeInit)
<1>1. ASSUME NoTerraform PROVE TfInit
  <2>1. ASSUME NEW f \in DOMAIN Contents PROVE tfstate[f] \in Contents[f]
    <3>1. Contents[f] # {}
      BY TfAssumption
    <3>2. (CHOOSE state \in Contents[f] : TRUE) \in Contents[f]
      BY <3>1
    <3> QED
      BY <1>1, <3>2 DEF NoTerraform
  <2>2. tfstate = [f \in DOMAIN Contents |-> tfstate[f]]
    BY <1>1 DEF NoTerraform
  <2>3. tfstate \in [DOMAIN Contents -> UNION {Contents[f] : f \in DOMAIN Contents}]
    BY <2>1, <2>2
  <2> QED
    BY <1>1, <2>1, <2>3 DEF NoTerraform, TfInit
<1>2. ASSUME NoAws PROVE AwsInit
  <2>1. (CHOOSE r \in Roles : TRUE) \in SUBSET AwsGroups
    BY AwsAssumption
  <2> DEFINE idle == [running |-> FALSE, role |-> CHOOSE r \in Roles : TRUE, address |-> NoAddress]
  <2>2. (CHOOSE r \in Roles : TRUE) \in Roles
    BY AwsAssumption
  <2>3. idle \in Instance /\ idle.address = NoAddress /\ ~idle.running
    BY <2>2 DEF Instance
  <2>4. ec2 = [i \in Instances |-> idle] /\ public = TRUE /\ scope = Instances /\ AwsIdle
    BY <1>2 DEF NoAws
  <2> HIDE DEF idle
  <2> QED
    BY <2>3, <2>4 DEF AwsInit
<1>3. ASSUME NoKube PROVE KubeInit
  <2>1. (CHOOSE t \in TaskArgs : TRUE) \in TaskArgs
    BY KubeAssumption
  <2> QED
    BY <1>3, <2>1 DEF NoKube, KubeInit
<1> QED
  BY <1>1, <1>2, <1>3

LEMMA ToolInitIs ==
  ToolInit => /\ BuilderInit /\ TfInit /\ AwsInit /\ KubeInit /\ CleanInit /\ RulesInit
              /\ tool \in {"builder", "terraform", "aws", "kube", "cleanup", "rules"}
BY OthersInit DEF ToolInit

LEMMA ToolStepIs ==
  [ToolNext]_toolVars =>
      /\ [BuilderNext]_builderVars /\ [TfNext]_tfVars /\ [AwsNext]_awsVars
      /\ [KubeNext]_kubeVars /\ [CleanNext]_cleanVars /\ [RulesNext]_rulesVars
      /\ UNCHANGED tool
<1> SUFFICES ASSUME [ToolNext]_toolVars
             PROVE  /\ [BuilderNext]_builderVars /\ [TfNext]_tfVars /\ [AwsNext]_awsVars
                    /\ [KubeNext]_kubeVars /\ [CleanNext]_cleanVars /\ [RulesNext]_rulesVars
                    /\ UNCHANGED tool
  OBVIOUS
<1>1. CASE ToolNext
  BY <1>1 DEF ToolNext, Cleanup
<1>2. CASE UNCHANGED toolVars
  BY <1>2 DEF toolVars
<1> QED
  BY <1>1, <1>2

(* What the programs do together is what each may do on its own: each      *)
(* specification is kept, whichever of them runs, and with it every        *)
(* theorem about it.                                                       *)
THEOREM ToolsAreTheirOwn ==
  ToolSpec => BuilderSpec /\ TfSpec /\ AwsSpec /\ KubeSpec /\ CleanSpec /\ RulesSpec
BY ToolInitIs, ToolStepIs, PTL DEF ToolSpec, BuilderSpec, TfSpec, AwsSpec, KubeSpec, CleanSpec, RulesSpec

(* The types of all the programs, whichever of them runs.                  *)
THEOREM ToolTypeCorrect == ToolSpec => []ToolTypeOK
<1> DEFINE Tool == tool \in {"builder", "terraform", "aws", "kube", "cleanup", "rules"}
<1>1. ToolInit => Tool
  BY ToolInitIs
<1>2. Tool /\ [ToolNext]_toolVars => Tool'
  BY ToolStepIs
<1> HIDE DEF Tool
<1>3. ToolSpec => []Tool
  BY <1>1, <1>2, PTL DEF ToolSpec
<1>4. Tool /\ BuilderTypeOK /\ TfTypeOK /\ AwsTypeOK /\ KubeTypeOK /\ CleanTypeOK /\ RulesTypeOK => ToolTypeOK
  BY DEF Tool, ToolTypeOK
<1> QED
  BY <1>3, <1>4, ToolsAreTheirOwn, BuilderTypeCorrect, TfTypeCorrect, AwsTypeCorrect, KubeTypeCorrect,
     CleanTypeCorrect, RulesTypeCorrect, PTL
=============================================================================
