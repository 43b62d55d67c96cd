--------------------------- MODULE RuntimeInstall ---------------------------
(***************************************************************************)
(* The install use case (services/node/internal/app/runtime_install.go and *)
(* runtime_install_run.go) on top of the install transaction: the          *)
(* Operation rows of the database, the execute goroutines that work on     *)
(* them, Cancel, the projection of a transaction onto its Operation (Get), *)
(* the completion that stores the installation row, and the repair of      *)
(* stale rows at daemon start.                                             *)
(*                                                                         *)
(* Operation t is the one whose row carries TransactionID t.  Stages and   *)
(* messages are left out; a row is its status.  UpdateOperation compares   *)
(* the status the caller read, so a write is conditional on it.            *)
(***************************************************************************)
EXTENDS InstallTransaction

VARIABLES
    op,         \* operations: status per operation, "NONE" without a row
    exec,       \* the execute goroutine of each operation
    asked,      \* operations whose worker an explicit Cancel reached
    installed,  \* operations whose completion stored the installation row
    serving     \* requests are served: startup repair is over

opVars == <<op, exec, asked, installed, serving>>
rtVars == <<vars, opVars>>

ActiveStatus == {"PENDING", "RUNNING"}
TerminalStatus == {"SUCCEEDED", "FAILED", "CANCELLED"}
Statuses == {"NONE"} \cup ActiveStatus \cup TerminalStatus

\* "bind": before bindWorker; "begin": bound; "begun": the host installer knows
\* the operation; "apply": inside Apply, which ended with "errored", "ctx" (the
\* context's own error) or "applied"; "complete": the post-check was accepted.
ExecPcs == {"none", "bind", "begin", "begun", "apply", "errored", "ctx", "applied", "complete"}

RTTypeOK ==
    /\ TypeOK
    /\ op \in [Ids -> Statuses]
    /\ exec \in [Ids -> ExecPcs]
    /\ asked \subseteq Ids /\ installed \subseteq Ids
    /\ serving \in BOOLEAN

ActiveOps == {t \in Ids : op[t] \in ActiveStatus}

\* filesystemOwnsOperation
FilesystemOwns(t) == txn[t].state \in {"ACTIVATING", "COMMITTED"}

\* Mutant: an activation under way is reported as done.
ProjectedEarly(t, rivals) ==
    CASE txn[t].state \in {"ACTIVATING", "COMMITTED"} -> "SUCCEEDED"
      [] txn[t].state = "FAILED" /\ op[t] \in ActiveStatus -> "FAILED"
      [] OTHER -> op[t]

\* projectOperation: the status the row has afterwards.  A COMMITTED transaction
\* takes a PENDING row through RUNNING; ValidProjectionRepair lets terminal rows
\* become SUCCEEDED or RUNNING again, but the unique index refuses a second
\* active row next to rivals.
Projected(t, rivals) ==
    IF txn[t].state = "COMMITTED" THEN "SUCCEEDED"
    ELSE IF txn[t].state = "ACTIVATING" THEN IF rivals \subseteq {t} THEN "RUNNING" ELSE op[t]
    ELSE IF txn[t].state = "FAILED" /\ op[t] \in ActiveStatus THEN "FAILED"
    ELSE op[t]

\* The fail closure of execute.
Failed(t) ==
    IF FilesystemOwns(t) THEN Projected(t, ActiveOps)
    ELSE IF op[t] \in TerminalStatus THEN op[t] ELSE "FAILED"

SetOp(t, s) == op' = [op EXCEPT ![t] = s]
ExecGoto(t, pc) == exec' = [exec EXCEPT ![t] = pc]

-----------------------------------------------------------------------------
(* Requests.                                                               *)

\* Start: rejectActiveHermesMutation is one more check that holds no lock.
Admit == /\ serving /\ ActiveOps = {}
         /\ AdmitStart
         /\ UNCHANGED opVars

Refused == (RejectInvalidPointer \/ RefuseStart) /\ serving /\ UNCHANGED opVars

Create == (StartLock \/ StartCreate) /\ UNCHANGED opVars

\* persistCreate succeeds; the unique index admits one active operation.
CreateOperation(t) ==
    /\ ActiveOps = {}
    /\ StartSpawn(t)
    /\ SetOp(t, "PENDING")
    /\ ExecGoto(t, "bind")
    /\ UNCHANGED <<asked, installed, serving>>

\* persistCreate fails: the index refuses, or the database does.
RefuseOperation(t) ==
    /\ MarkTransactionFailed(t)
    /\ UNCHANGED opVars

BindWorker(t) ==
    /\ exec[t] = "bind"
    /\ ExecGoto(t, "begin")
    /\ UNCHANGED <<vars, op, asked, installed, serving>>

\* Get
Get(t) ==
    /\ serving /\ op[t] # "NONE"
    /\ SetOp(t, Projected(t, ActiveOps))
    /\ UNCHANGED <<vars, exec, asked, installed, serving>>

\* Cancel of an operation whose worker is bound: its context is cancelled.
CancelWorker(t) ==
    /\ serving /\ op[t] \in ActiveStatus /\ ~FilesystemOwns(t)
    /\ exec[t] \notin {"none", "bind"}
    /\ CancelContext(t)
    /\ asked' = asked \cup {t}
    /\ UNCHANGED <<op, exec, installed, serving>>

\* Cancel without a bound worker: the row is cancelled.  When the file system
\* owns the operation Cancel projects it, as Get does.
CancelRow(t) ==
    /\ serving /\ op[t] \in ActiveStatus /\ ~FilesystemOwns(t)
    /\ exec[t] \in {"none", "bind"}
    /\ SetOp(t, "CANCELLED")
    /\ UNCHANGED <<vars, exec, asked, installed, serving>>

\* The operation deadline.
Deadline(t) ==
    /\ exec[t] \notin {"none", "bind"}
    /\ CancelContext(t)
    /\ UNCHANGED opVars

-----------------------------------------------------------------------------
(* execute.                                                                *)

\* The platform or, after SetInstallIdentity, the target is refused.
ExecReject(t) ==
    /\ exec[t] \in {"begin", "begun"}
    /\ WorkerQuit(t)
    /\ SetOp(t, Failed(t))
    /\ ExecGoto(t, "none")
    /\ UNCHANGED <<asked, installed, serving>>

ExecIdentify(t) ==
    /\ exec[t] = "begin"
    /\ SetInstallIdentity(t)
    /\ ExecGoto(t, "begun")
    /\ UNCHANGED <<op, asked, installed, serving>>

\* Mutant: a refused update of the row does not stop the worker.
ExecRunIgnoresConflict(t) ==
    /\ exec[t] = "begun"
    /\ SetOp(t, IF op[t] = "PENDING" THEN "RUNNING" ELSE op[t]) /\ ExecGoto(t, "apply")
    /\ UNCHANGED <<vars, asked, installed, serving>>

\* PENDING to RUNNING, under the worker's context.
ExecRun(t) ==
    /\ exec[t] = "begun"
    /\ \/ /\ op[t] = "PENDING" /\ t \notin cancelled
          /\ SetOp(t, "RUNNING") /\ ExecGoto(t, "apply")
          /\ UNCHANGED vars
       \/ /\ op[t] # "PENDING" \/ t \in cancelled
          /\ WorkerQuit(t)
          /\ ExecGoto(t, "none")
          /\ UNCHANGED op
    /\ UNCHANGED <<asked, installed, serving>>

ApplyBegin(t) ==
    /\ exec[t] = "apply"
    /\ WorkerLock(t)
    /\ IF job.by = "none" THEN UNCHANGED exec ELSE ExecGoto(t, "errored")
    /\ UNCHANGED <<op, asked, installed, serving>>

\* How Apply ended, when a step of the worker gave up the lock.
Outcome ==
    IF job.t # 0 /\ txn'[job.t].state = "COMMITTED" THEN "applied"
    ELSE IF job.pc \in {"publish", "home"} /\ job.w \in cancelled /\ left' = left THEN "ctx"
    ELSE "errored"

ApplyStep ==
    /\ \/ SealLoad \/ CreateGeneration \/ CandidateTemp \/ CandidateRecord
       \/ Build \/ Seal \/ PersistSealed \/ Publish \/ MarkActivating \/ WriteActive
       \/ Fail \/ Reconcile \/ Collect \/ IOFault
    /\ exec' = IF job.by = "worker" /\ job'.by = "none"
               THEN [exec EXCEPT ![job.w] = Outcome] ELSE exec
    /\ UNCHANGED <<op, asked, installed, serving>>

\* Apply returned an error.  The deadline fails the operation, an explicit
\* cancellation cancels it, if the error is the context's.
ExecError(t) ==
    /\ exec[t] \in {"errored", "ctx"}
    /\ SetOp(t, IF exec[t] = "ctx" /\ t \in asked /\ ~FilesystemOwns(t) /\ op[t] \in ActiveStatus
                THEN "CANCELLED" ELSE Failed(t))
    /\ ExecGoto(t, "none")
    /\ UNCHANGED <<vars, asked, installed, serving>>

\* The post-check: discovery accepts the new installation, or does not.
ExecPostcheck(t) ==
    /\ exec[t] = "applied"
    /\ \/ ExecGoto(t, "complete") /\ UNCHANGED op
       \/ ExecGoto(t, "none") /\ SetOp(t, Failed(t))
    /\ UNCHANGED <<vars, asked, installed, serving>>

\* CompleteInstallSuccess: RUNNING to SUCCEEDED and the installation row in one
\* database transaction; when the row is not RUNNING any more, the fail closure.
ExecComplete(t) ==
    /\ exec[t] = "complete"
    /\ ExecGoto(t, "none")
    /\ IF op[t] = "RUNNING"
       THEN SetOp(t, "SUCCEEDED") /\ installed' = installed \cup {t}
       ELSE SetOp(t, Failed(t)) /\ UNCHANGED installed
    /\ UNCHANGED <<vars, asked, serving>>

-----------------------------------------------------------------------------
(* Restart.                                                                *)

Restart ==
    /\ Crash
    /\ exec' = [t \in Ids |-> "none"]
    /\ asked' = {} /\ serving' = FALSE
    /\ UNCHANGED <<op, installed>>

\* Mutant: stale rows are failed and nothing is projected.
InterruptStaleOnly ==
    /\ job.by = "none" /\ ~serving
    /\ op' = [t \in Ids |-> IF op[t] \in ActiveStatus /\ ~FilesystemOwns(t) THEN "FAILED" ELSE op[t]]
    /\ serving' = TRUE
    /\ UNCHANGED <<vars, exec, asked, installed>>

\* Mutant: only rows that were running are failed.
InterruptStaleRunning ==
    /\ job.by = "none" /\ ~serving
    /\ LET row(t) == IF op[t] = "NONE" THEN "NONE" ELSE Projected(t, {})
       IN  op' = [t \in Ids |-> IF row(t) = "RUNNING" /\ ~FilesystemOwns(t) THEN "FAILED" ELSE row(t)]
    /\ serving' = TRUE
    /\ UNCHANGED <<vars, exec, asked, installed>>

\* InterruptStale, after recovery and before requests are served: every row is
\* projected, then what is still active and not owned by the file system fails.
\* Rows are projected newest first, and concurrent requests may have taken their
\* times in either order: early are the active rows that came first.
InterruptStale ==
    /\ job.by = "none" /\ ~serving
    /\ \E early \in SUBSET ActiveOps :
          LET row(t) == IF op[t] = "NONE" THEN "NONE" ELSE Projected(t, ActiveOps \ early)
          IN  op' = [t \in Ids |-> IF row(t) \in ActiveStatus /\ ~FilesystemOwns(t)
                                   THEN "FAILED" ELSE row(t)]
    /\ serving' = TRUE
    /\ UNCHANGED <<vars, exec, asked, installed>>

-----------------------------------------------------------------------------
RTInit ==
    /\ Init
    /\ op = [t \in Ids |-> "NONE"]
    /\ exec = [t \in Ids |-> "none"]
    /\ asked = {} /\ installed = {}
    /\ serving = FALSE

Requests == \/ Admit \/ Refused \/ Create
            \/ \E t \in Ids : \/ CreateOperation(t) \/ RefuseOperation(t) \/ BindWorker(t)
                              \/ Get(t) \/ CancelWorker(t) \/ CancelRow(t)

Execute == \/ ApplyStep
           \/ \E t \in Ids : \/ ExecReject(t) \/ ExecIdentify(t) \/ ExecRun(t) \/ ApplyBegin(t)
                             \/ ExecError(t) \/ ExecPostcheck(t) \/ ExecComplete(t)

Startup == \/ InterruptStale
           \/ Recovery /\ UNCHANGED opVars

Environment == \/ Restart
               \/ (Drift \/ Damage) /\ UNCHANGED opVars
               \/ \E t \in Ids : Deadline(t)

RTNext == Requests \/ Execute \/ Startup \/ Environment

RTSpec == RTInit /\ [][RTNext]_rtVars

-----------------------------------------------------------------------------
(* Properties.                                                             *)

\* When startup is over no row reports failure or cancellation of an installed
\* generation: recovery may have rolled a cancelled installation forward.
RestartRepairsRows ==
    [][serving' /\ ~serving =>
         \A t \in Ids : op'[t] \in {"FAILED", "CANCELLED"} => txn'[t].state # "COMMITTED"]_rtVars

\* A row that reports success belongs to a committed transaction, or its worker
\* passed the post-check of a committed one that the host installer was told of.
ReportedSuccessIsReal ==
    \A t \in Ids : op[t] = "SUCCEEDED" =>
        txn[t].state = "COMMITTED" \/ (t \in installed /\ HasCommitted)

\* A worker that changes the disk for its own transaction does so for an
\* operation the client sees running: a cancelled or failed operation is not
\* applied behind its back.
WorkIsVisible ==
    job.by = "worker" /\ job.pc # "load" /\ job.t = job.w =>
                         \/ op[job.t] = "RUNNING"
                         \/ txn[job.t].state = "COMMITTED" /\ op[job.t] = "SUCCEEDED"

\* When startup is over, no row is left active without a transaction that is
\* being activated: nothing blocks the next installation for ever.
RestartClearsStale ==
    [][serving' /\ ~serving => \A t \in Ids : op'[t] \in ActiveStatus => txn'[t].state = "ACTIVATING"]_rtVars

\* What the phase document says of success: the installation row is stored in
\* the transaction that marks the Operation SUCCEEDED.
SuccessIsRecorded == \A t \in Ids : op[t] = "SUCCEEDED" => t \in installed

\* What the phase document says of an explicit cancellation: once the worker that
\* was building has stopped, and short of activation, the Operation is CANCELLED.
CancelledIsReported ==
    \A t \in asked : exec[t] = "none" /\ op[t] \in TerminalStatus
                     /\ Generation(t) # "absent" /\ ~FilesystemOwns(t) => op[t] = "CANCELLED"

\* What the phase document says of cancellation: it ends the Operation.  A row
\* whose worker stopped on an explicit cancellation is not active any more.
CancelEndsOperation ==
    \A t \in Ids : t \in asked /\ exec[t] = "none" /\ ~FilesystemOwns(t) => op[t] \notin ActiveStatus

\* What the phase document says of every terminal path: the process tree is gone.
\* A worker builds and validates (the steps that run processes) only for an
\* operation that is not terminal.
TerminalMeansStopped ==
    job.by = "worker" /\ job.pc \in {"build", "seal"} => op[job.w] \notin TerminalStatus
=============================================================================
