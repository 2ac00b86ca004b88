----------------------------- MODULE KubeModule -----------------------------
(***************************************************************************)
(* library/kube.py, the Ansible module that hands manifests and resource   *)
(* names to kubectl, in a task that Ansible repeats until it succeeds.     *)
(*                                                                         *)
(* One action is one kubectl call, or kubectl's work on one object: other  *)
(* clients of the API server change objects between any two of them.  Of   *)
(* the options only those that decide which objects a call is about, or    *)
(* whether it is refused, are kept.                                        *)
(***************************************************************************)
EXTENDS Naturals, FiniteSets

CONSTANTS
    Objects,        \* the objects that a cluster may hold
    Labelled,       \* those that the label selector of a task matches
    TaskArgs,       \* the arguments of the tasks that may be run
    Attempts,       \* one more than `retries` of the task
    MaxFaults,      \* bound: kubectl calls that the API server cuts off
    MaxMeddling     \* bound: changes by other clients

States == {"present", "absent", "latest", "reloaded", "stopped"}

(* ns: the objects of the task's namespace; name: the object of the given  *)
(* name and resource, or {}.                                               *)
Args == [state: States, files: SUBSET Objects, resource: BOOLEAN, ns: SUBSET Objects,
         name: SUBSET Objects, label: BOOLEAN, all: BOOLEAN, force: BOOLEAN]

ASSUME KubeAssumption ==
    /\ IsFiniteSet(Objects)
    /\ Labelled \subseteq Objects
    /\ TaskArgs \subseteq Args /\ TaskArgs # {}
    /\ \A t \in TaskArgs : \A o, p \in t.name : o = p
    /\ Attempts \in Nat \ {0}
    /\ {MaxFaults, MaxMeddling} \subseteq Nat

VARIABLES
    objs,       \* what the API server holds: nothing, some version, the file's
    args,       \* module.params of the task that runs, or ran last
    kpc,        \* where the task is
    left,       \* objects the running kubectl has not come to yet
    rc,         \* whether the running kubectl has met an error
    attempt,    \* attempts at the task so far
    blind,      \* the answer of `kubectl get` hid an object that was there
    gone,       \* objects seen absent at some instant of this attempt
    made,       \* objects as in their file at some instant of it
    faults,     \* calls cut off so far
    meddling    \* changes by other clients so far

taskVars == <<args, kpc, left, rc, attempt, blind>>
seenVars == <<gone, made>>
kubeVars == <<objs, taskVars, seenVars, faults, meddling>>

Ended == {"idle", "ok", "failed"}

KubeTypeOK ==
    /\ objs \in [Objects -> {"absent", "other", "file"}]
    /\ args \in TaskArgs
    /\ kpc \in {"main", "get", "apply", "call", "delete"} \cup Ended
    /\ left \subseteq Objects
    /\ rc \in BOOLEAN
    /\ attempt \in 1 .. Attempts
    /\ blind \in BOOLEAN
    /\ gone \subseteq Objects
    /\ made \subseteq Objects
    /\ faults \in 0 .. MaxFaults
    /\ meddling \in 0 .. MaxMeddling

-----------------------------------------------------------------------------
Holding(v) == {o \in Objects : objs[o] = v}

(* The history of the attempt, after a step.                               *)
Observe == /\ gone' = gone \cup {o \in Objects : objs'[o] = "absent"}
           /\ made' = made \cup {o \in Objects : objs'[o] = "file"}

(* What the arguments of a call select when it looks at the objects S.     *)
SelectsIgnoringName(t, S) == IF t.files # {} THEN t.files
                             ELSE IF t.label THEN S \cap Labelled ELSE S
Selects(t, S) ==
    IF t.files # {} THEN t.files
    ELSE IF t.name # {} THEN t.name
    ELSE IF t.label THEN S \cap Labelled
    ELSE S

(* An object that is asked for by file or name and not found is an error.  *)
ByName(t) == t.files # {} \/ t.name # {}

(* `all` makes get look into every namespace, but delete only takes every  *)
(* object of its own.                                                      *)
Sought(t) == Selects(t, IF t.all THEN Objects ELSE t.ns)
Target(t) == Selects(t, t.ns)

(* Combinations of name, selector and all that kubectl rejects.            *)
GetRefused(t) == t.files = {} /\ t.name # {} /\ (t.label \/ t.all)
DeleteRefused(t) ==
    t.files = {} /\ \/ t.name # {} /\ (t.label \/ t.all)
                    \/ t.label /\ t.all
                    \/ t.name = {} /\ ~t.label /\ ~t.all

Applies(t) == t.state \in {"present", "latest", "reloaded"}

-----------------------------------------------------------------------------
(* exit_json                                                               *)
Succeed == /\ kpc' = "ok"
           /\ left' = {}
           /\ UNCHANGED <<args, rc, attempt>>

(* fail_json; Ansible starts the module again while it has retries left,   *)
(* and what an attempt has seen does not count for the next one.           *)
Fail == IF attempt < Attempts
        THEN /\ kpc' = "main"
             /\ attempt' = attempt + 1
             /\ left' = {} /\ rc' = FALSE /\ blind' = FALSE
             /\ gone' = Holding("absent") /\ made' = Holding("file")
             /\ UNCHANGED <<args, objs>>
        ELSE /\ kpc' = "failed"
             /\ left' = {}
             /\ UNCHANGED <<args, rc, attempt, blind, objs, seenVars>>

(* Ansible comes to a task.                                                *)
StartTask(t) ==
    /\ kpc \in Ended
    /\ args' = t
    /\ kpc' = "main"
    /\ attempt' = 1
    /\ left' = {} /\ rc' = FALSE /\ blind' = FALSE
    /\ gone' = Holding("absent") /\ made' = Holding("file")
    /\ UNCHANGED <<objs, faults, meddling>>

(* main() calls create, replace, delete or stop.  The first two always     *)
(* apply, and need a file whatever the docs' example says; the others ask  *)
(* first whether anything exists, unless force is set.                     *)
Dispatch ==
    /\ kpc = "main"
    /\ \/ /\ Applies(args) /\ args.files # {}
          /\ kpc' = "apply"
          /\ left' = args.files
          /\ UNCHANGED <<args, rc, attempt, blind, objs, seenVars>>
       \/ /\ ~Applies(args) /\ (args.files # {} \/ args.resource)
          /\ kpc' = IF args.force THEN "call" ELSE "get"
          /\ UNCHANGED <<args, left, rc, attempt, blind, objs, seenVars>>
       \/ /\ args.files = {} /\ (Applies(args) \/ ~args.resource)
          /\ Fail
    /\ UNCHANGED <<faults, meddling>>

(* exists(): an error of kubectl reads like an object that is not there.   *)
GetFails ==
    /\ kpc = "get"
    /\ \/ GetRefused(args) /\ UNCHANGED faults
       \/ faults < MaxFaults /\ faults' = faults + 1
    /\ blind' = TRUE
    /\ Succeed
    /\ UNCHANGED <<objs, seenVars, meddling>>

GetAnswers ==
    LET found == Sought(args) \ Holding("absent")
    IN  /\ kpc = "get" /\ ~GetRefused(args)
        /\ \/ /\ IF ByName(args) THEN found = Sought(args) ELSE found # {}
              /\ kpc' = "call"
              /\ UNCHANGED <<args, left, rc, attempt, blind>>
           \/ /\ IF ByName(args) THEN found # Sought(args) ELSE found = {}
              /\ blind' = (found # {})
              /\ Succeed
        /\ UNCHANGED <<objs, seenVars, faults, meddling>>

(* delete(): a selector is evaluated when kubectl starts.                  *)
CallDelete ==
    /\ kpc = "call" /\ args.state = "absent"
    /\ IF DeleteRefused(args) THEN Fail
       ELSE /\ kpc' = "delete"
            /\ left' = IF ByName(args) THEN Target(args)
                                       ELSE Target(args) \ Holding("absent")
            /\ UNCHANGED <<args, rc, attempt, blind, objs, seenVars>>
    /\ UNCHANGED <<faults, meddling>>

(* stop(): kubectl has no such command any more.                           *)
CallStop ==
    /\ kpc = "call" /\ args.state = "stopped"
    /\ Fail
    /\ UNCHANGED <<faults, meddling>>

(* kubectl goes on to the next object after an error, and reports it at    *)
(* the end.  --ignore-not-found is given with force, but not for files.    *)
ApplyOne(o) ==
    /\ kpc = "apply" /\ o \in left
    /\ objs' = [objs EXCEPT ![o] = "file"]
    /\ left' = left \ {o}
    /\ Observe
    /\ UNCHANGED <<args, kpc, rc, attempt, blind, faults, meddling>>

DeleteOne(o) ==
    /\ kpc = "delete" /\ o \in left
    /\ objs' = [objs EXCEPT ![o] = "absent"]
    /\ rc' = (rc \/ (objs[o] = "absent" /\ ByName(args) /\ ~(args.force /\ args.files = {})))
    /\ left' = left \ {o}
    /\ Observe
    /\ UNCHANGED <<args, kpc, attempt, blind, faults, meddling>>

(* The API server cannot be reached for one object.                        *)
OneFails(o) ==
    /\ kpc \in {"apply", "delete"} /\ o \in left
    /\ faults < MaxFaults /\ faults' = faults + 1
    /\ rc' = TRUE
    /\ left' = left \ {o}
    /\ UNCHANGED <<objs, seenVars, args, kpc, attempt, blind, meddling>>

(* _execute_nofail in place of _execute.                                   *)
CallEndsNoFail ==
    /\ kpc \in {"apply", "delete"} /\ left = {}
    /\ Succeed /\ UNCHANGED <<blind, objs, seenVars>>
    /\ UNCHANGED <<faults, meddling>>

(* _execute looks at the exit status.                                      *)
CallEnds ==
    /\ kpc \in {"apply", "delete"} /\ left = {}
    /\ IF rc THEN Fail ELSE Succeed /\ UNCHANGED <<blind, objs, seenVars>>
    /\ UNCHANGED <<faults, meddling>>

(* Another client: a controller, kubeadm, an administrator.                *)
Meddle(o, v) ==
    /\ meddling < MaxMeddling /\ meddling' = meddling + 1
    /\ objs[o] # v
    /\ objs' = [objs EXCEPT ![o] = v]
    /\ Observe
    /\ UNCHANGED <<taskVars, faults>>

Task == \/ Dispatch \/ GetFails \/ GetAnswers \/ CallDelete \/ CallStop \/ CallEnds
        \/ \E o \in Objects : ApplyOne(o) \/ DeleteOne(o) \/ OneFails(o)

KubeIdle ==
    /\ kpc = "idle"
    /\ left = {}
    /\ rc = FALSE
    /\ attempt = 1
    /\ blind = FALSE
    /\ gone = {} /\ made = {}
    /\ faults = 0 /\ meddling = 0

KubeInit ==
    /\ objs \in [Objects -> {"absent", "other", "file"}]
    /\ args \in TaskArgs
    /\ KubeIdle

KubeNext ==
    \/ \E t \in TaskArgs : StartTask(t)
    \/ Task
    \/ \E o \in Objects, v \in {"absent", "other"} : Meddle(o, v)

KubeSpec == KubeInit /\ [][KubeNext]_kubeVars

-----------------------------------------------------------------------------
(* Properties.                                                             *)

(* A task that reports success did what its state asks for, each object at *)
(* some instant of the successful attempt, whatever other clients did in   *)
(* between and however many attempts failed half-way: every file of        *)
(* present, latest and reloaded has been applied, and nothing that absent  *)
(* names has been there all the time.  The exception is exists()           *)
(* (kube.py:264), which takes any error of kubectl for absence.            *)
SuccessMeansDone ==
    kpc = "ok" =>
        /\ Applies(args) => args.files \subseteq made
        /\ args.state = "absent" /\ ~blind => Target(args) \subseteq gone
=============================================================================
