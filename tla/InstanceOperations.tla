------------------------- MODULE InstanceOperations -------------------------
(***************************************************************************)
(* All operations on the instances of an installed Runtime, side by side:  *)
(* lifecycle, create and delete (InstanceInventory), channels              *)
(* (app/channels.go), managed Skills (app/management_skills.go), MCP       *)
(* servers (app/management_mcp.go), model profiles (app/shared_models.go), *)
(* backups (app/management_backup.go) and Runtime upgrades                 *)
(* (app/management_upgrade.go), a crash of the daemon and the recovery     *)
(* passes of its start (daemon/daemon.go).                                 *)
(*                                                                         *)
(* Each kind is admitted, serialised and cancelled in its own way; what    *)
(* its worker changes inside a profile is not modelled here, only that it  *)
(* works on it.                                                            *)
(***************************************************************************)
EXTENDS InstanceInventory

CONSTANT MaxCrashes

VARIABLES
    ilock,      \* the lock of each instance: the channel worker that holds it
    boot,       \* the recovery pass that is next, or "serving"
    crashes

opsVars == <<row, profile, running, away, avail, pc, result, ctx, cancel, mu, lock, raced, seen, moved,
             ilock, boot, crashes>>
rest == <<ilock, boot, crashes>>

Boots == {"restores", "inventory", "lifecycle", "others", "list", "serving"}
ManagedTypes == SkillTypes \cup MCPTypes \cup BackupTypes \cup UpgradeTypes \cup {"model.profile.apply"}
IsType(o, types) == row[o].type \in types

Init ==
    /\ row = [o \in Ops |-> Unused]
    /\ profile = Instances /\ running = {Default} /\ away = FALSE
    /\ avail = [i \in Instances \cup {NoInst} |-> IF i = NoInst THEN "none" ELSE "AVAILABLE"]
    /\ pc = [o \in Ops |-> "off"] /\ result = [o \in Ops |-> "none"]
    /\ ctx = {} /\ cancel = [o \in Ops |-> NoCancel]
    /\ mu = Free /\ lock = Free /\ raced = {} /\ seen = {} /\ moved = FALSE
    /\ ilock = [i \in Instances \cup {NoInst} |-> Free]
    /\ boot = "serving" /\ crashes = 0

-----------------------------------------------------------------------------
(* Admission of the other kinds.                                           *)

\* StartChannelConnect, StartChannelDisconnect
StartChannel(o) ==
    /\ pc[o] = "resolved" /\ IsType(o, ChannelTypes) /\ mu = Free
    /\ IF ActiveInstanceRuntimeMutation(row[o].inst) \/ ActiveInstanceMutation
       THEN Drop(o) /\ mu' = mu
       ELSE Goto(o, "checked") /\ mu' = o /\ row' = row
    /\ UNCHANGED <<profile, running, away, avail, result, ctx, cancel, lock, raced, seen, moved>>

\* ManagementSkills.start: the target is resolved and the row inserted;
\* operationMu and the installation's operations are not asked.
StartSkill(o) ==
    /\ pc[o] = "resolved" /\ IsType(o, SkillTypes)
    /\ Goto(o, "checked")
    /\ UNCHANGED <<row, profile, running, away, avail, result, ctx, cancel, mu, lock, raced, seen, moved>>

\* MCPManagement.start, likewise; only an install is admitted for a server that
\* has no binding.
StartMCP(o, bound) ==
    /\ pc[o] = "resolved" /\ IsType(o, MCPTypes)
    /\ IF bound \/ IsType(o, {"mcp.install"}) THEN Goto(o, "checked") /\ row' = row ELSE Drop(o)
    /\ UNCHANGED <<profile, running, away, avail, result, ctx, cancel, mu, lock, raced, seen, moved>>

Request(o, type) ==
    /\ pc[o] = "off" /\ row[o].status = "NONE"
    /\ row' = [row EXCEPT ![o] = [type |-> type, inst |-> NoInst, status |-> "NONE"]]
    /\ Goto(o, "checked")
    /\ UNCHANGED <<profile, running, away, avail, result, ctx, cancel, raced, seen, moved>>

\* StartModelProfileApplication: under operationMu, after a look at the
\* installation's operations.
StartModelProfileApplication(o) ==
    /\ mu = Free /\ ~ActiveInstanceMutation /\ mu' = o
    /\ Request(o, "model.profile.apply") /\ lock' = lock

\* StartCreateBackup, StartDeleteBackup, StartRestoreBackup: under the lock of the
\* installation.
StartBackup(o, type) ==
    /\ type \in BackupTypes /\ lock = Free /\ lock' = o
    /\ Request(o, type) /\ mu' = mu

\* startMutation: under the lock of the installation, with an executable plan.
StartUpgrade(o, type) ==
    /\ type \in UpgradeTypes /\ lock = Free /\ lock' = o
    /\ Request(o, type) /\ mu' = mu

-----------------------------------------------------------------------------
(* Cancel of the other kinds.  Skills and upgrades cannot be cancelled.    *)

\* CancelMCPOperation stores CANCELLED, then ends the worker's context.
CancelMCP(o) ==
    /\ IsType(o, MCPTypes) /\ IsActive(row[o].status)
    /\ UpdateOperation(o, row[o].status, "CANCELLED")
    /\ ctx' = ctx \cup {o}
    /\ UNCHANGED <<profile, running, away, avail, pc, result, cancel, mu, lock, raced, seen, moved>>

\* CancelBackupOperation, CancelChannel, CancelModelProfileApplication: the row
\* is read and is active ...
CancelManagedRead(o) ==
    /\ IsType(o, BackupTypes \cup ChannelTypes \cup {"model.profile.apply"})
    /\ IsActive(row[o].status) /\ cancel[o] = NoCancel
    /\ CancelStep(o, "read", row[o].status)
    /\ UNCHANGED <<row, profile, running, away, avail, pc, result, ctx, mu, lock, raced, seen, moved>>

\* ... and the worker's context ends.  CancelWrite and CancelAborted follow for a
\* backup, the next two for a channel and a model profile.
CancelManagedLook(o) ==
    /\ cancel[o][1] = "read" /\ o \notin InventoryOps
    /\ CancelStep(o, "fired", cancel[o][2])
    /\ ctx' = ctx \cup {o}
    /\ UNCHANGED <<row, profile, running, away, avail, pc, result, mu, lock, raced, seen, moved>>

\* Mutant: the worker is not waited for.
CancelChannelAtOnce(o) ==
    /\ cancel[o][1] = "fired" /\ IsType(o, ChannelTypes)
    /\ FinishNow(o, "CANCELLED") /\ CancelEnd(o)
    /\ UNCHANGED <<profile, running, away, avail, pc, result, ctx, mu, lock, raced, seen, moved>>

\* CancelChannel waits for the worker: the instance lock, and a fresh read.
CancelChannel(o) ==
    /\ cancel[o][1] = "fired" /\ IsType(o, ChannelTypes)
    /\ ilock[row[o].inst] = Free
    /\ FinishNow(o, "CANCELLED") /\ CancelEnd(o)
    /\ UNCHANGED <<profile, running, away, avail, pc, result, ctx, mu, lock, raced, seen, moved>>

CancelModelProfileApplication(o) ==
    /\ cancel[o][1] = "fired" /\ IsType(o, {"model.profile.apply"})
    /\ FinishNow(o, "CANCELLED") /\ CancelEnd(o)
    /\ UNCHANGED <<profile, running, away, avail, pc, result, ctx, mu, lock, raced, seen, moved>>

-----------------------------------------------------------------------------
(* Workers of the other kinds.                                             *)

\* runChannel takes the instance lock and keeps it to its end.
ChannelClaim(o) ==
    LET i == row[o].inst IN
    /\ pc[o] = "queued" /\ IsType(o, ChannelTypes) /\ ilock[i] = Free
    /\ IF o \in ctx \/ row[o].status # "PENDING"
       THEN Goto(o, "off") /\ UNCHANGED <<row, ilock>>
       ELSE /\ Goto(o, "started") /\ UpdateOperation(o, "PENDING", "RUNNING")
            /\ ilock' = [ilock EXCEPT ![i] = o]
    /\ UNCHANGED <<profile, running, away, avail, result, ctx, cancel, mu, lock, raced, seen, moved, boot, crashes>>

\* manager.Disconnect, manager.BeginConnect, on the worker's context.
ChannelAct(o, r) ==
    /\ pc[o] = "started" /\ IsType(o, ChannelTypes)
    /\ r = "ok" => avail[row[o].inst] = "AVAILABLE"
    /\ Answer(o, r) /\ Goto(o, "acted")
    /\ UNCHANGED <<row, profile, running, away, avail, ctx, cancel, mu, lock, raced, seen, moved>>

\* A call that fails after the context ended leaves the row to CancelChannel.
ChannelFinish(o) ==
    /\ pc[o] = "acted" /\ IsType(o, ChannelTypes)
    /\ IF result[o] = "failed" /\ o \in ctx THEN row' = row
       ELSE FinishNow(o, IF result[o] = "ok" THEN "SUCCEEDED" ELSE "FAILED")
    /\ Goto(o, "off") /\ ilock' = [ilock EXCEPT ![row[o].inst] = Free]
    /\ UNCHANGED <<profile, running, away, avail, result, ctx, cancel, mu, lock, raced, seen, moved, boot, crashes>>

\* runWorker, runMutation, runCreateBackup, runDeleteBackup, runRestoreBackup,
\* runModelProfileApplication: no lock of the inventory is taken.
ManagedClaim(o) ==
    /\ pc[o] = "queued" /\ IsType(o, ManagedTypes)
    /\ IF o \in ctx \/ row[o].status # "PENDING"
       THEN Goto(o, "off") /\ row' = row
       ELSE Goto(o, "started") /\ UpdateOperation(o, "PENDING", "RUNNING")
    /\ UNCHANGED <<profile, running, away, avail, result, ctx, cancel, mu, lock, raced, seen, moved>>

\* The work on the profile or on the Runtime's data.
ManagedAct(o, r) ==
    /\ pc[o] = "started" /\ IsType(o, ManagedTypes \ ({"backup.restore"} \cup SkillTypes))
    /\ Answer(o, r) /\ Goto(o, "acted")
    /\ UNCHANGED <<row, profile, running, away, avail, ctx, cancel, mu, lock, raced, seen, moved>>

\* A Skill operation that changed the profile asks whether its gateway runs.
SkillAct(o, r) ==
    /\ pc[o] = "started" /\ IsType(o, SkillTypes)
    /\ Answer(o, r) /\ Goto(o, IF r = "ok" /\ row[o].inst \in running THEN "found" ELSE "acted")
    /\ UNCHANGED <<row, profile, running, away, avail, ctx, cancel, mu, lock, raced, seen, moved>>

\* restartIfRunning: the gateway ran a moment ago and is restarted.
SkillRestart(o, r) ==
    /\ pc[o] = "found" /\ IsType(o, SkillTypes)
    /\ running' \in IF r = "ok" THEN {running \cup {row[o].inst}}
                    ELSE {running, running \ {row[o].inst}, running \cup {row[o].inst}}
    /\ running' \subseteq profile
    /\ Answer(o, r) /\ Goto(o, "acted")
    /\ UNCHANGED <<row, profile, away, avail, ctx, cancel, mu, lock, raced, seen, moved>>

\* RestoreBackup: the data directory is moved aside unless the context ended
\* before; from there on only the postcheck looks at the context.
RestoreMove(o, r) ==
    /\ pc[o] = "started" /\ IsType(o, {"backup.restore"})
    /\ IF r = "ok" /\ o \notin ctx /\ ~away /\ running = {}
       THEN away' = TRUE /\ Goto(o, "away") /\ result' = result
       ELSE away' = away /\ Goto(o, "acted") /\ Answer(o, "failed")
    /\ UNCHANGED <<row, profile, running, avail, ctx, cancel, mu, lock, raced, seen, moved>>

\* The candidate or the previous directory is moved in.  A backup holds the
\* profiles of its day.
RestoreReturn(o, r) ==
    /\ pc[o] = "away" /\ away' = FALSE
    /\ profile' \in IF r = "ok" /\ o \notin ctx
                    THEN {s \in SUBSET Instances : Default \in s} ELSE {profile}
    /\ running' = running \cap profile'
    /\ Answer(o, IF o \in ctx THEN "failed" ELSE r) /\ Goto(o, "acted")
    /\ moved' = TRUE
    /\ UNCHANGED <<row, avail, ctx, cancel, mu, lock, raced, seen>>

\* finishOperation and the final updates: conditional on RUNNING; a model profile
\* is finished as it is now.
ManagedFinish(o) ==
    /\ pc[o] = "acted" /\ IsType(o, ManagedTypes)
    /\ LET s == IF result[o] = "ok" THEN "SUCCEEDED" ELSE "FAILED" IN
       IF IsType(o, {"model.profile.apply"})
       THEN FinishNow(o, IF o \in ctx THEN "CANCELLED" ELSE s)
       ELSE UpdateOperation(o, "RUNNING", s)
    /\ Goto(o, "off")
    /\ UNCHANGED <<profile, running, away, avail, result, ctx, cancel, mu, lock, raced, seen, moved>>

-----------------------------------------------------------------------------
(* The daemon stops, and starts again.                                     *)

\* Rows without an outcome: requests that had not been stored are gone.
Crash ==
    /\ crashes < MaxCrashes /\ crashes' = crashes + 1
    /\ row' = [o \in Ops |-> IF row[o].status = "NONE" THEN Unused ELSE row[o]]
    /\ pc' = [o \in Ops |-> "off"] /\ result' = [o \in Ops |-> "none"]
    /\ ctx' = {} /\ cancel' = [o \in Ops |-> NoCancel]
    /\ mu' = Free /\ lock' = Free /\ ilock' = [i \in DOMAIN ilock |-> Free]
    /\ boot' = "restores" /\ raced' = {} /\ seen' = {} /\ moved' = FALSE
    /\ UNCHANGED <<profile, running, away, avail>>

\* A recovery pass moves the active rows of its types to the outcome it derives
\* for each.
Recovered(outcome) ==
    row' = [o \in Ops |-> IF o \in DOMAIN outcome THEN [row[o] EXCEPT !.status = outcome[o]]
                          ELSE row[o]]
Pass(from, to) ==
    /\ boot = from /\ boot' = to
    /\ UNCHANGED <<running, pc, result, ctx, cancel, mu, lock, raced, seen, moved, ilock, crashes>>

\* RecoverInterruptedRestores: the previous directory or the restored one.
BootRestores ==
    /\ Pass("restores", "inventory")
    /\ away' = FALSE
    /\ profile' \in IF away THEN {s \in SUBSET Instances : Default \in s /\ running \subseteq s} ELSE {profile}
    /\ UNCHANGED <<row, avail>>

\* Mutant: an inventory that could not be read counts as one without the instance.
CreateOrDeleteUnlisted(listed, o) ==
    IF IsType(o, {"instance.create"}) <=> (listed /\ row[o].inst \in Visible)
    THEN "SUCCEEDED" ELSE "FAILED"

\* recoverOneLocked: the inventory decides.
CreateOrDelete(listed, o) ==
    IF listed /\ (IsType(o, {"instance.create"}) <=> row[o].inst \in Visible)
    THEN "SUCCEEDED" ELSE "FAILED"

\* RecoverStale
BootInventory(listed) ==
    /\ Pass("inventory", "lifecycle")
    /\ avail' = IF ActiveOf(InventoryTypes) = {} THEN avail
              ELSE Inventory(IF listed THEN Visible ELSE Unlisted)
    /\ Recovered([o \in ActiveOf(InventoryTypes) |-> CreateOrDelete(listed, o)])
    /\ UNCHANGED <<profile, away>>

\* RecoverLifecycle: the gateway decides, when it can be asked; a restart fails.
StartOrStop(known, o) ==
    LET i == row[o].inst IN
    IF known /\ avail[i] = "AVAILABLE" /\ i \in Visible /\ ~IsType(o, {"instance.restart"})
       /\ (IsType(o, {"instance.start"}) <=> i \in running)
    THEN "SUCCEEDED" ELSE "FAILED"

BootLifecycle(known) ==
    /\ Pass("lifecycle", "others")
    /\ Recovered([o \in ActiveOf(LifecycleTypes) |-> StartOrStop(known, o)])
    /\ UNCHANGED <<profile, away, avail>>

\* Mutant: backups and upgrades are left as they are.
OthersTypesFirst == ChannelTypes \cup SkillTypes \cup MCPTypes \cup {"model.profile.apply"}

OthersTypes == ChannelTypes \cup ManagedTypes

\* RecoverChannels: a disconnect that finds the channel not configured is done.
ChannelDone(unlinked, o) ==
    IF unlinked /\ IsType(o, {"channel.disconnect"}) /\ row[o].inst # NoInst THEN "SUCCEEDED" ELSE "FAILED"

\* RecoverModelProfileApplications, RecoverChannels and the RecoverInterrupted of
\* Skills, MCP, backups and upgrades.
BootOthers(unlinked) ==
    /\ Pass("others", "list")
    /\ Recovered([o \in ActiveOf(OthersTypes) |-> ChannelDone(unlinked, o)])
    /\ UNCHANGED <<profile, away, avail>>

\* The startup reconciliation; requests are served from here on.
BootList(listed) ==
    /\ Pass("list", "serving") /\ avail' = Inventory(IF listed THEN Visible ELSE Unlisted)
    /\ UNCHANGED <<row, profile, away>>

-----------------------------------------------------------------------------
Outcomes == {"ok", "failed"}

InventoryStep(o) ==
    \/ \E i \in Instances : \E t \in Types \cap InstanceRuntimeTypes : Resolve(o, t, i)
    \/ StartLifecycle(o) \/ Insert(o)
    \/ \E i \in Instances, listed \in BOOLEAN :
           "instance.create" \in Types /\ ListForCreate(o, i, listed)
    \/ \E i \in Instances : "instance.delete" \in Types /\ ListForDelete(o, i)
    \/ LookForDelete(o) \/ CheckDelete(o)
    \/ CancelRead(o) \/ CancelLook(o) \/ CancelWrite(o) \/ CancelAborted(o)
    \/ Claim(o) \/ NoteStarted(o)
    \/ \E r \in Outcomes : LifecycleAct(o, r) \/ CreateAct(o, r) \/ DeleteAct(o, r)
    \/ \E listed \in BOOLEAN : DeleteList(o, listed) \/ Relist(o, listed)
    \/ DeleteFind(o) \/ Finish(o)

Others(o) ==
    \/ StartChannel(o) \/ StartSkill(o) \/ \E bound \in BOOLEAN : StartMCP(o, bound)
    \/ "model.profile.apply" \in Types /\ StartModelProfileApplication(o)
    \/ \E t \in Types : StartBackup(o, t) \/ StartUpgrade(o, t)
    \/ CancelMCP(o) \/ CancelManagedRead(o) \/ CancelManagedLook(o)
    \/ CancelChannel(o) \/ CancelModelProfileApplication(o)
    \/ ManagedClaim(o) \/ ManagedFinish(o)
    \/ \E r \in Outcomes : \/ ChannelAct(o, r) \/ ManagedAct(o, r) \/ SkillAct(o, r) \/ SkillRestart(o, r)
                           \/ RestoreMove(o, r) \/ RestoreReturn(o, r)

Next ==
    \/ /\ boot = "serving" /\ UNCHANGED rest
       /\ \/ \E o \in Ops : InventoryStep(o) \/ Others(o)
          \/ \E i \in Instances : ClearList(i) \/ Clear(i)
          \/ \E listed \in BOOLEAN : List(listed)
    \/ boot = "serving" /\ \E o \in Ops : ChannelClaim(o) \/ ChannelFinish(o)
    \/ Crash \/ BootRestores
    \/ \E b \in BOOLEAN : BootInventory(b) \/ BootLifecycle(b) \/ BootOthers(b) \/ BootList(b)

Spec == Init /\ [][Next]_opsVars

-----------------------------------------------------------------------------
(* Properties.                                                             *)

\* Keys whose worker is inside its work.
Working == {o \in Ops : pc[o] \in {"started", "seen", "found", "acted", "relisted", "away"}}

\* What the work of o is about: one instance, or every instance.
Scope(o) == IF IsType(o, RuntimeWideTypes) THEN Instances
            ELSE {row[o].inst} \ {NoInst}

\* Kinds whose Cancel writes CANCELLED without waiting for the worker.
Unwaited == MCPTypes \cup BackupTypes \cup {"model.profile.apply"}

\* While a delete of an instance has no outcome, no lifecycle or channel operation
\* of that instance has a row without outcome; only Skill and MCP operations, whose
\* admission asks neither operationMu nor the installation's operations, may.
\* (StartDelete, StartLifecycle, StartChannelConnect, CreateOperation)
DeleteKeepsOthersOut ==
    \A d \in ActiveOf({"instance.delete"}) : ActiveOn(LifecycleTypes \cup ChannelTypes, row[d].inst) = {}

\* Two workers never work on the same instance, nor one on an instance and one on
\* the whole Runtime, except: one of them was cancelled by a Cancel that does not
\* wait for it; or one deletes the instance and the other changes its Skills or MCP
\* servers; or one creates an instance of that name, which StartCreate admits when
\* the inventory shows it UNKNOWN.  (operations_one_active_* indexes and triggers,
\* CancelBackupOperation, CancelMCPOperation)
WorkersApart ==
    \A o \in Working : \A p \in Working \ {o} :
        Scope(o) \cap Scope(p) # {} =>
            \/ \E q \in {o, p} : row[q].status = "CANCELLED" /\ IsType(q, Unwaited)
            \/ \E q \in {o, p} : /\ IsType(q, {"instance.delete"})
                                 /\ \A r \in {o, p} \ {q} : IsType(r, SkillTypes \cup MCPTypes)
            \/ \E q \in {o, p} : /\ IsType(q, {"instance.create"})
                                 /\ \A r \in {o, p} \ {q} : IsType(r, InstanceRuntimeTypes)

\* Operations of one instance keep out of each other's way.
OperationsApart == DeleteKeepsOthersOut /\ WorkersApart

\* A profile whose gateway runs is deleted only by a delete that read its STOPPED
\* state while another operation of the instance was still active.
DeletesStopped(o) ==
    pc[o] = "found" /\ pc'[o] = "acted" /\ row[o].inst \in running /\ IsType(o, {"instance.delete"})
        => o \in raced

\* What a lifecycle, create, delete or channel worker does to a profile, it does
\* while its row is RUNNING: one that a Cancel has reported CANCELLED changes
\* nothing any more.
ActsWhileRunning(o) ==
    IsType(o, LifecycleTypes \cup InventoryTypes \cup ChannelTypes) /\ pc'[o] = "acted" /\ pc[o] # "acted"
        => row[o].status = "RUNNING"

\* A worker acts on a profile only while it may.  (StartDelete reads the state
\* before it asks whether an operation is active; CancelLifecycle and the started
\* map, CancelChannel and the instance lock)
ActsWhenAllowed == [][\A o \in Ops : DeletesStopped(o) /\ ActsWhileRunning(o)]_opsVars

\* An instance record is forgotten only when the Runtime does not have the profile;
\* or when a restore had moved the Runtime's data aside as the profiles were listed,
\* or has put data in place since.  (ClearRemovedInstance looks at the instance's
\* operations and not at the installation's, and a restore does not take the
\* installation lock)
RecordKept ==
    [][\A i \in Instances : avail[i] # "none" /\ avail'[i] = "none"
                            => i \notin profile \/ moved]_opsVars

\* An operation that reports SUCCEEDED of a create or a delete reports the truth,
\* also when the worker died and recovery decides; unless a cancelled restore had
\* the data directory aside when the worker listed the profiles, or put data in
\* place between that list and the final update.  (runCreate, runDelete,
\* recoverOneLocked)
SuccessIsReal ==
    [][\A o \in Ops : row[o].status # "SUCCEEDED" /\ row'[o].status = "SUCCEEDED" =>
           /\ IsType(o, {"instance.create"}) => row[o].inst \in profile \/ moved
           /\ IsType(o, {"instance.delete"}) => row[o].inst \notin profile \/ moved]_opsVars

\* While requests are served, a row without outcome has a worker that will end it,
\* or a Cancel under way that will; or it is PENDING with its worker stopped by a
\* Cancel whose client went away before the update: that row blocks its instance
\* until it is cancelled once more or the daemon restarts.  (CancelLifecycle,
\* CancelBackupOperation, Run)
NoOrphanWhileServing ==
    boot = "serving" =>
        \A o \in ActiveRows : pc[o] = "off" =>
            /\ o \in ctx
            /\ \/ cancel[o][1] = "fired"
               \/ row[o].status = "PENDING" /\ IsType(o, LifecycleTypes \cup InventoryTypes \cup BackupTypes)
=============================================================================
