-------------------------- MODULE InstanceInventory --------------------------
(***************************************************************************)
(* The instance inventory of an installed Runtime and the operations that  *)
(* change its profiles: start, stop, restart, create and delete            *)
(* (app/instance_inventory.go, app/lifecycle.go), on the instance rows of  *)
(* the database (persistence/sqlite/instances.go).                         *)
(*                                                                         *)
(* A request takes the process lock operationMu (mu), its worker the lock  *)
(* of the installation (lock).  One installation; detecting it succeeds,   *)
(* a failed detection is a request that is not made.  Profiles are changed *)
(* by this daemon only.                                                    *)
(***************************************************************************)
EXTENDS OperationTable

CONSTANT Default      \* the native name of the default profile

ASSUME InventoryAssumption == Default \in Instances /\ Instances \cap (Ops \cup {"free"}) = {}
                              /\ "free" \notin Ops

VARIABLES
    profile,    \* profiles the Runtime has
    running,    \* profiles whose gateway runs
    away,       \* a restore has moved the Runtime's data directory aside
    avail,      \* instance records: availability, "none" without a record
    pc,         \* request, then worker, of each key
    result,     \* what the Runtime answered that worker
    ctx,        \* keys whose worker context is cancelled
    cancel,     \* Cancel requests under way: their step and the status they read
    mu,         \* operationMu: the key whose request holds it, or Free
    lock,       \* the installation lock: the worker that holds it, the instance
                \* whose record is being cleared, or Free
    raced,      \* deletes that read STOPPED while another operation was active
    seen,       \* what the last list under the installation lock showed, Unlisted: it failed
    moved       \* ghost: a restore had the data aside when that list was made, or has
                \* put data in place since

invVars == <<row, profile, running, away, avail, pc, result, ctx, cancel, mu, lock, raced, seen, moved>>

Free == "free"
InventoryOps == {o \in Ops : row[o].type \in LifecycleTypes \cup InventoryTypes}

\* "resolved", "listed", "looked", "checked": the request up to CreateOperation;
\* "queued": the worker; "claimed": RUNNING is stored; "started": and noted in
\* the started map; "found", "acted": inside and after the Runtime call;
\* "seen", "relisted": after the list before and after that call; "away": a restore
\* between its renames.
Pcs == {"off", "resolved", "listed", "looked", "checked", "queued", "claimed",
        "started", "seen", "found", "acted", "relisted", "away"}

Goto(o, s) == pc' = [pc EXCEPT ![o] = s]

\* The request ends without a row: its key is as good as new.
Drop(o) == row' = [row EXCEPT ![o] = Unused] /\ Goto(o, "off")

\* What `hermes profile list` shows.
Visible == IF away THEN profile \cap {Default} ELSE profile
Unlisted == {NoInst}

\* source.List of a holder of the installation lock.  A restore does not take that
\* lock: it may go on between the list and what is made of it.
ListProfiles(listed) == seen' = (IF listed THEN Visible ELSE Unlisted) /\ moved' = away

-----------------------------------------------------------------------------
(* The inventory.                                                          *)

\* ApplyInstanceSnapshot
Snapshot(shown) ==
    [i \in Instances \cup {NoInst} |-> IF i \in shown THEN "AVAILABLE"
                         ELSE IF avail[i] = "none" THEN "none" ELSE "MISSING"]

\* MarkInstancesUnknown
Unknown == [i \in Instances \cup {NoInst} |-> IF avail[i] = "none" THEN "none" ELSE "UNKNOWN"]

\* reconcileLocked: the list, or the failure to get one, becomes the inventory.
Inventory(shown) == IF shown = Unlisted THEN Unknown ELSE Snapshot(shown)

\* ListInstances: every reader of the inventory reconciles it first, under the
\* installation lock.  (One step: nothing but the inventory is made of this list,
\* and a list from before a change is as old as one that was stored before it.)
ListInstances(listed) == lock = Free /\ avail' = Inventory(IF listed THEN Visible ELSE Unlisted)

\* resolveLifecycleTarget, resolveChannelTarget, ResolveManagementTarget
Resolve(o, type, i) ==
    /\ pc[o] = "off" /\ row[o].status = "NONE" /\ avail[i] = "AVAILABLE"
    /\ row' = [row EXCEPT ![o] = [type |-> type, inst |-> i, status |-> "NONE"]]
    /\ Goto(o, "resolved")
    /\ UNCHANGED <<profile, running, away, avail, result, ctx, cancel, mu, lock, raced, seen, moved>>

\* ClearRemovedInstance takes the installation lock and lists the profiles (a list that
\* fails ends it as it ends List) ...
ClearList(i) ==
    /\ lock = Free /\ avail[i] # "none" /\ i # Default
    /\ lock' = i /\ ListProfiles(TRUE)
    /\ UNCHANGED <<row, profile, running, away, avail, pc, result, ctx, cancel, mu, raced>>

\* Mutant: the inventory of the list before is believed.
ClearCheckedStale(i) == avail[i] = "MISSING" /\ ~ActiveInstanceRuntimeMutation(i)

\* ... the record is MISSING in the fresh inventory and nothing works on the
\* instance ...
ClearChecked(i) == i \notin seen /\ ~ActiveInstanceRuntimeMutation(i)

\* DeleteMissingInstanceRecord.  Rows that named the instance name nothing now.
ForgetRows(i) ==
    [o \in Ops |-> IF row[o].inst = i /\ row[o].type \in InstanceRuntimeTypes
                   THEN [row[o] EXCEPT !.inst = NoInst] ELSE row[o]]

\* ... and the record is deleted, by whatever the Runtime has by then.  (The check and
\* the delete are one step: a request that found the instance before the list and
\* stores its row between these two statements is left out.)
Clear(i) ==
    /\ lock = i /\ lock' = Free
    /\ IF ClearChecked(i)
       THEN avail' = [Inventory(seen) EXCEPT ![i] = "none"] /\ row' = ForgetRows(i)
       ELSE avail' = Inventory(seen) /\ row' = row
    /\ seen' = {} /\ moved' = FALSE
    /\ UNCHANGED <<profile, running, away, pc, result, ctx, cancel, mu, raced>>

List(listed) ==
    /\ ListInstances(listed)
    /\ UNCHANGED <<row, profile, running, away, pc, result, ctx, cancel, mu, lock, raced, seen, moved>>

-----------------------------------------------------------------------------
(* Admission.                                                              *)

\* Mutant: an active create or delete of the installation is not looked at.
StartLifecycleInstanceOnly(o) ==
    /\ pc[o] = "resolved" /\ row[o].type \in LifecycleTypes /\ mu = Free
    /\ IF ActiveInstanceLifecycle(row[o].inst)
       THEN Drop(o) /\ mu' = mu
       ELSE Goto(o, "checked") /\ mu' = o /\ row' = row
    /\ UNCHANGED <<profile, running, away, avail, result, ctx, cancel, lock, raced, seen, moved>>

\* The checks of StartLifecycle under operationMu.
StartLifecycle(o) ==
    /\ pc[o] = "resolved" /\ row[o].type \in LifecycleTypes /\ mu = Free
    /\ IF ActiveInstanceMutation \/ ActiveInstanceLifecycle(row[o].inst)
       THEN Drop(o) /\ mu' = mu
       ELSE Goto(o, "checked") /\ mu' = o /\ row' = row
    /\ UNCHANGED <<profile, running, away, avail, result, ctx, cancel, lock, raced, seen, moved>>

\* CreateOperation of a request, and the start of its worker; an index or a
\* trigger may refuse the row.  The request's lock is released.
Insert(o) ==
    /\ pc[o] = "checked"
    /\ IF CanInsert(o) THEN CreateOperation(o) /\ Goto(o, "queued") ELSE Drop(o)
    /\ mu' = IF mu = o THEN Free ELSE mu
    /\ lock' = IF lock = o THEN Free ELSE lock
    /\ UNCHANGED <<profile, running, away, avail, result, ctx, cancel, raced, seen, moved>>

\* StartCreate lists the instances and refuses a name that is available.
ListForCreate(o, i, listed) ==
    /\ pc[o] = "off" /\ row[o].status = "NONE" /\ i # Default
    /\ ListInstances(listed) /\ avail'[i] # "AVAILABLE"
    /\ row' = [row EXCEPT ![o] = [type |-> "instance.create", inst |-> i, status |-> "NONE"]]
    /\ Goto(o, "checked")
    /\ UNCHANGED <<profile, running, away, result, ctx, cancel, mu, lock, raced, seen, moved>>

\* StartDelete: the record is not the default one's and the list is fresh.
ListForDelete(o, i) ==
    /\ pc[o] = "off" /\ row[o].status = "NONE" /\ i # Default /\ avail[i] # "none"
    /\ ListInstances(TRUE)
    /\ row' = [row EXCEPT ![o] = [type |-> "instance.delete", inst |-> i, status |-> "NONE"]]
    /\ Goto(o, "listed")
    /\ UNCHANGED <<profile, running, away, result, ctx, cancel, mu, lock, raced, seen, moved>>

\* StartDelete takes operationMu and reads the lifecycle state: GetLifecycle.
LookForDelete(o) ==
    /\ pc[o] = "listed" /\ mu = Free
    /\ LET i == row[o].inst IN
       IF avail[i] = "AVAILABLE" /\ i \in Visible \ running
       THEN /\ Goto(o, "looked") /\ mu' = o /\ row' = row
            /\ raced' = IF ActiveInstanceRuntimeMutation(i) THEN raced \cup {o} ELSE raced
       ELSE Drop(o) /\ UNCHANGED <<mu, raced>>
    /\ UNCHANGED <<profile, running, away, avail, result, ctx, cancel, lock, seen, moved>>

\* Mutant: the active operations of the instance are not looked at.
CheckDeleteInstallationOnly(o) ==
    /\ pc[o] = "looked"
    /\ IF ActiveInstanceMutation THEN Drop(o) /\ mu' = Free ELSE Goto(o, "checked") /\ UNCHANGED <<row, mu>>
    /\ UNCHANGED <<profile, running, away, avail, result, ctx, cancel, lock, raced, seen, moved>>

\* StartDelete, the operations that are active.
CheckDelete(o) ==
    /\ pc[o] = "looked"
    /\ IF ActiveInstanceRuntimeMutation(row[o].inst) \/ ActiveInstanceMutation
       THEN Drop(o) /\ mu' = Free
       ELSE Goto(o, "checked") /\ UNCHANGED <<row, mu>>
    /\ UNCHANGED <<profile, running, away, avail, result, ctx, cancel, lock, raced, seen, moved>>

-----------------------------------------------------------------------------
(* Cancel: the row is read, the worker's context is cancelled, the row is   *)
(* updated on the condition that it is still what was read.                *)

NoCancel == <<"none", "NONE">>
CancelStep(o, step, from) == cancel' = [cancel EXCEPT ![o] = <<step, from>>]
CancelEnd(o) == cancel' = [cancel EXCEPT ![o] = NoCancel]

\* CancelLifecycle, CancelCreate, CancelDelete: a running or terminal operation
\* is left alone.
CancelRead(o) ==
    /\ o \in InventoryOps /\ row[o].status = "PENDING" /\ cancel[o] = NoCancel
    /\ CancelStep(o, "read", "PENDING")
    /\ UNCHANGED <<row, profile, running, away, avail, pc, result, ctx, mu, lock, raced, seen, moved>>

\* The started and workers maps are read; a worker that is not in the started
\* map gets its context cancelled.
CancelLook(o) ==
    /\ o \in InventoryOps /\ cancel[o][1] = "read"
    /\ IF pc[o] \in {"started", "seen", "found", "acted", "relisted"}
       THEN CancelEnd(o) /\ ctx' = ctx
       ELSE CancelStep(o, "fired", "PENDING") /\ ctx' = ctx \cup {o}
    /\ UNCHANGED <<row, profile, running, away, avail, pc, result, mu, lock, raced, seen, moved>>

\* The conditional update of the row the request read.
CancelWrite(o) ==
    /\ cancel[o][1] = "fired" /\ row[o].type \in LifecycleTypes \cup InventoryTypes \cup BackupTypes
    /\ UpdateOperation(o, cancel[o][2], "CANCELLED")
    /\ CancelEnd(o)
    /\ UNCHANGED <<profile, running, away, avail, pc, result, ctx, mu, lock, raced, seen, moved>>

\* The client goes away between the two: the update runs on the request's
\* context and is not made.
CancelAborted(o) ==
    /\ cancel[o][1] = "fired" /\ row[o].type \in LifecycleTypes \cup InventoryTypes \cup BackupTypes
    /\ CancelEnd(o)
    /\ UNCHANGED <<row, profile, running, away, avail, pc, result, ctx, mu, lock, raced, seen, moved>>

-----------------------------------------------------------------------------
(* Workers: runLifecycle, runCreate, runDelete.                            *)

\* The worker takes the installation lock and reads its row on its own context;
\* it gives up when the context is cancelled or the row is terminal.
Claim(o) ==
    /\ pc[o] = "queued" /\ o \in InventoryOps /\ lock = Free
    /\ IF o \in ctx \/ row[o].status # "PENDING"
       THEN Goto(o, "off") /\ UNCHANGED <<row, lock>>
       ELSE Goto(o, "claimed") /\ UpdateOperation(o, "PENDING", "RUNNING") /\ lock' = o
    /\ UNCHANGED <<profile, running, away, avail, result, ctx, cancel, mu, raced, seen, moved>>

\* The worker enters the started map.
NoteStarted(o) ==
    /\ pc[o] = "claimed" /\ o \in InventoryOps
    /\ Goto(o, "started")
    /\ UNCHANGED <<row, profile, running, away, avail, result, ctx, cancel, mu, lock, raced, seen, moved>>

Answer(o, r) == result' = [result EXCEPT ![o] = r]

\* manager.Start, Stop or Restart on the worker's own context.  A failed call,
\* like one whose context ends, may have changed the gateway or not.
RunsAfter(o, r) ==
    LET i == row[o].inst IN
    IF r = "ok"
    THEN IF row[o].type = "instance.stop" THEN {running \ {i}} ELSE {running \cup {i}}
    ELSE {running, running \ {i}, running \cup {i}}

LifecycleAct(o, r) ==
    /\ pc[o] = "started" /\ row[o].type \in LifecycleTypes
    /\ r = "ok" => o \notin ctx /\ avail[row[o].inst] = "AVAILABLE" /\ row[o].inst \in Visible
    /\ running' \in RunsAfter(o, r)
    /\ running' \subseteq profile
    /\ Answer(o, r) /\ Goto(o, "acted")
    /\ UNCHANGED <<row, profile, away, avail, ctx, cancel, mu, lock, raced, seen, moved>>

\* mutator.Create, on a context of its own.
CreateAct(o, r) ==
    /\ pc[o] = "started" /\ row[o].type = "instance.create"
    /\ profile' \in IF r = "ok" THEN {profile \cup {row[o].inst}}
                    ELSE {profile, profile \cup {row[o].inst}}
    /\ Answer(o, r) /\ Goto(o, "acted")
    /\ UNCHANGED <<row, running, away, avail, ctx, cancel, mu, lock, raced, seen, moved>>

\* runDelete reconciles before it deletes ...
DeleteList(o, listed) ==
    /\ pc[o] = "started" /\ row[o].type = "instance.delete"
    /\ ListProfiles(listed) /\ Goto(o, "seen")
    /\ UNCHANGED <<row, profile, running, away, avail, result, ctx, cancel, mu, lock, raced>>

\* ... an instance that is not there is a success, a failed list a failure.
DeleteFind(o) ==
    /\ pc[o] = "seen" /\ row[o].type = "instance.delete"
    /\ avail' = Inventory(seen)
    /\ IF row[o].inst \in seen
       THEN Goto(o, "found") /\ UNCHANGED <<row, lock>>
       ELSE /\ Goto(o, "off") /\ lock' = Free
            /\ UpdateOperation(o, "RUNNING", IF seen # Unlisted THEN "SUCCEEDED" ELSE "FAILED")
    /\ seen' = {} /\ moved' = FALSE
    /\ UNCHANGED <<profile, running, away, result, ctx, cancel, mu, raced>>

\* mutator.Delete
DeleteAct(o, r) ==
    /\ pc[o] = "found" /\ row[o].type = "instance.delete"
    /\ profile' \in IF r = "ok" THEN {profile \ {row[o].inst}} ELSE {profile, profile \ {row[o].inst}}
    /\ running' = running \cap profile'
    /\ Answer(o, r) /\ Goto(o, "acted")
    /\ UNCHANGED <<row, away, avail, ctx, cancel, mu, lock, raced, seen, moved>>

\* The last reconciliation of create and delete: the list ...
Relist(o, listed) ==
    /\ pc[o] = "acted" /\ row[o].type \in InventoryTypes
    /\ ListProfiles(listed) /\ Goto(o, "relisted")
    /\ UNCHANGED <<row, profile, running, away, avail, result, ctx, cancel, mu, lock, raced>>

\* ... and the outcome: a lifecycle worker believes the call; create and delete
\* believe the inventory, and create also needs its own context to read it.
Outcome(o) ==
    CASE row[o].type \in LifecycleTypes -> IF result[o] = "ok" THEN "SUCCEEDED" ELSE "FAILED"
      [] row[o].type = "instance.create" ->
             IF row[o].inst \in seen /\ o \notin ctx /\ result[o] = "ok" THEN "SUCCEEDED" ELSE "FAILED"
      [] row[o].type = "instance.delete" ->
             IF seen # Unlisted /\ row[o].inst \notin seen THEN "SUCCEEDED" ELSE "FAILED"

\* The final update, by what the list showed, and the end of the worker.
Finish(o) ==
    /\ o \in InventoryOps
    /\ IF row[o].type \in LifecycleTypes
       THEN pc[o] = "acted" /\ UNCHANGED <<avail, seen, moved>>
       ELSE pc[o] = "relisted" /\ avail' = Inventory(seen) /\ seen' = {} /\ moved' = FALSE
    /\ UpdateOperation(o, "RUNNING", Outcome(o))
    /\ Goto(o, "off") /\ lock' = Free
    /\ UNCHANGED <<profile, running, away, result, ctx, cancel, mu, raced>>
=============================================================================
