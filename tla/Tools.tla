-------------------------------- MODULE Tools --------------------------------
(***************************************************************************)
(* The programs of the repository that run on their own: they share no     *)
(* state with each other or with the playbooks.  A behaviour is one of     *)
(* theirs, with the state of the others fixed.                             *)
(***************************************************************************)
EXTENDS InventoryBuilder, TerraformInventory, AwsInventory, KubeModule,
        OpenstackCleanup, RulesSync

VARIABLE tool   \* the program of this behaviour

toolVars == <<tool, builderVars, tfVars, awsVars, kubeVars, cleanVars, rulesVars>>

ToolTypeOK ==
    /\ tool \in {"builder", "terraform", "aws", "kube", "cleanup", "rules"}
    /\ BuilderTypeOK
    /\ TfTypeOK
    /\ AwsTypeOK
    /\ KubeTypeOK
    /\ CleanTypeOK
    /\ RulesTypeOK

-----------------------------------------------------------------------------
(* The state of a program that is not the one to run.                      *)
NoTerraform ==
    /\ tfstate = [f \in DOMAIN Contents |-> CHOOSE state \in Contents[f] : TRUE]
    /\ query = CHOOSE q \in Queries : TRUE
    /\ walk = CHOOSE w \in Walks : TRUE
    /\ TfIdle

NoAws ==
    /\ ec2 = [i \in Instances |-> [running |-> FALSE, role |-> CHOOSE r \in Roles : TRUE, address |-> NoAddress]]
    /\ public = TRUE /\ scope = Instances
    /\ AwsIdle

NoKube ==
    /\ objs = [o \in Objects |-> "absent"]
    /\ args = CHOOSE t \in TaskArgs : TRUE
    /\ KubeIdle

ToolInit ==
    /\ BuilderInit /\ CleanInit /\ RulesInit
    /\ \/ tool \in {"builder", "cleanup", "rules"} /\ NoTerraform /\ NoAws /\ NoKube
       \/ tool = "terraform" /\ TfInit /\ NoAws /\ NoKube
       \/ tool = "aws" /\ NoTerraform /\ AwsInit /\ NoKube
       \/ tool = "kube" /\ NoTerraform /\ NoAws /\ KubeInit

(* A step of the clean-up, of its script or of the cloud.                  *)
Cleanup(step) ==
    /\ tool = "cleanup" /\ step
    /\ UNCHANGED <<tool, builderVars, tfVars, awsVars, kubeVars, rulesVars>>

ToolNext ==
    \/ /\ tool = "builder" /\ BuilderNext
       /\ UNCHANGED <<tool, tfVars, awsVars, kubeVars, cleanVars, rulesVars>>
    \/ /\ tool = "terraform" /\ TfNext
       /\ UNCHANGED <<tool, builderVars, awsVars, kubeVars, cleanVars, rulesVars>>
    \/ /\ tool = "aws" /\ AwsNext
       /\ UNCHANGED <<tool, builderVars, tfVars, kubeVars, cleanVars, rulesVars>>
    \/ /\ tool = "kube" /\ KubeNext
       /\ UNCHANGED <<tool, builderVars, tfVars, awsVars, cleanVars, rulesVars>>
    \/ /\ tool = "rules" /\ RulesNext
       /\ UNCHANGED <<tool, builderVars, tfVars, awsVars, kubeVars, cleanVars>>
    \/ Cleanup(CleanNext)

(* A pipeline starts the clean-up again and again, a server that is being  *)
(* deleted goes, and time passes.  Nothing else is ever bound to happen.   *)
ToolFair ==
    /\ WF_toolVars(Cleanup(Script))
    /\ \A r \in Resources : WF_toolVars(Cleanup(ServerGone(r)))
    /\ WF_toolVars(Cleanup(Tick))

ToolSpec == ToolInit /\ [][ToolNext]_toolVars /\ ToolFair
=============================================================================
