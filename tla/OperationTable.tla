--------------------------- MODULE OperationTable ---------------------------
(***************************************************************************)
(* The operations table of the daemon's database: the rows every           *)
(* long-running request of an installed Runtime creates                    *)
(* (persistence/sqlite/operations.go, domain/operation/operation.go), and  *)
(* the unique indexes and triggers that decide which row may be inserted   *)
(* next to the active ones (migrations 013, 015 and 016).                  *)
(*                                                                         *)
(* A member of Ops is an idempotency key: the request that carries it, its *)
(* row and its worker.  A request with the key of an existing row gets     *)
(* that row back and changes nothing.  Stage, message, error code and time *)
(* stamps are left out; the instance a row is about is its target or, for  *)
(* instance.create and instance.delete, the name in its message.           *)
(***************************************************************************)
EXTENDS Naturals, FiniteSets

CONSTANTS Ops,        \* idempotency keys
          Instances,  \* native names of profiles
          Types       \* the operation types that requests carry

ASSUME TableAssumption == "none" \notin Instances

VARIABLE row          \* per key: type, instance and status ("NONE": no row yet)

NoInst == "none"

LifecycleTypes == {"instance.start", "instance.stop", "instance.restart"}
ChannelTypes == {"channel.connect", "channel.disconnect"}
SkillTypes == {"skill.install", "skill.update", "skill.enable", "skill.disable", "skill.remove"}
MCPTypes == {"mcp.install", "mcp.authenticate", "mcp.test", "mcp.configure", "mcp.remove"}
InventoryTypes == {"instance.create", "instance.delete"}
BackupTypes == {"backup.create", "backup.delete", "backup.restore"}
UpgradeTypes == {"runtime.upgrade", "runtime.rollback"}

\* operations_one_active_instance_runtime_mutation: one per instance.
InstanceRuntimeTypes == LifecycleTypes \cup ChannelTypes \cup SkillTypes \cup MCPTypes

\* operations_one_active_instance_mutation: one per installation.
InstallationTypes == InventoryTypes \cup {"model.profile.apply"} \cup BackupTypes \cup UpgradeTypes

\* The types the two triggers keep apart from every instance's own mutations.
RuntimeWideTypes == {"model.profile.apply", "backup.create", "backup.restore"} \cup UpgradeTypes

AllTypes == InstanceRuntimeTypes \cup InstallationTypes

\* IsTerminal, ValidTransition.  (No worker of this part uses ValidProjectionRepair.)
IsTerminal(s) == s \in {"SUCCEEDED", "FAILED", "CANCELLED"}
IsActive(s) == s \in {"PENDING", "RUNNING"}
ValidTransition(from, to) ==
    \/ from = "PENDING" /\ to \in {"RUNNING", "FAILED", "CANCELLED"}
    \/ from = "RUNNING" /\ to \in {"SUCCEEDED", "FAILED", "CANCELLED"}

Row == [type : AllTypes \cup {"none"}, inst : Instances \cup {NoInst},
        status : {"NONE", "PENDING", "RUNNING", "SUCCEEDED", "FAILED", "CANCELLED"}]
Unused == [type |-> "none", inst |-> NoInst, status |-> "NONE"]

ActiveRows == {o \in Ops : IsActive(row[o].status)}
ActiveOf(types) == {o \in ActiveRows : row[o].type \in types}
ActiveOn(types, i) == {o \in ActiveOf(types) : row[o].inst = i}

\* ActiveInstanceMutation: backup.delete is not among the types it selects.
ActiveInstanceMutation == ActiveOf(InstallationTypes \ {"backup.delete"}) # {}
ActiveInstanceLifecycle(i) == ActiveOn(LifecycleTypes, i) # {}
ActiveInstanceRuntimeMutation(i) == ActiveOn(InstanceRuntimeTypes, i) # {}

\* Mutant: the trigger that keeps instance mutations away from runtime-wide
\* ones is gone.
CanInsertNoTrigger(o) ==
    /\ row[o].type \in InstallationTypes => ActiveOf(InstallationTypes) = {}
    /\ row[o].type \in InstanceRuntimeTypes => ActiveOn(InstanceRuntimeTypes, row[o].inst) = {}

\* What the indexes and the triggers admit.  Rows whose instance record is gone
\* (NoInst) take part in neither trigger.
CanInsert(o) ==
    /\ row[o].type \in InstallationTypes => ActiveOf(InstallationTypes) = {}
    /\ row[o].type \in InstanceRuntimeTypes => ActiveOn(InstanceRuntimeTypes, row[o].inst) = {}
    /\ row[o].type \in RuntimeWideTypes =>
           {p \in ActiveOf(InstanceRuntimeTypes) : row[p].inst # NoInst} = {}
    /\ row[o].type \in InstanceRuntimeTypes /\ row[o].inst # NoInst => ActiveOf(RuntimeWideTypes) = {}

\* CreateOperation
CreateOperation(o) == row' = [row EXCEPT ![o].status = "PENDING"]

\* UpdateOperation: conditional on the status the caller read.
UpdateOperation(o, from, to) ==
    row' = IF row[o].status = from /\ ValidTransition(from, to)
           THEN [row EXCEPT ![o].status = to] ELSE row

\* GetOperation ... UpdateOperation of code that takes the row as it is now and
\* leaves a terminal one alone.
FinishNow(o, to) ==
    row' = IF IsActive(row[o].status) /\ ValidTransition(row[o].status, to)
           THEN [row EXCEPT ![o].status = to] ELSE row
=============================================================================
