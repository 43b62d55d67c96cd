------------------------ MODULE RuntimeInstallProofs ------------------------
(***************************************************************************)
(* The install use case on top of the install transaction: its executions  *)
(* are executions of InstallTransaction, so the theorems about records,    *)
(* directories and active.json carry over, and what an Operation row       *)
(* reports as success happened.                                            *)
(***************************************************************************)
EXTENDS RuntimeInstall, InstallSafetyProofs

\* Every step of the use case is a step of the install transaction or leaves
\* its variables alone.
LEMMA RTStepIsStep == [RTNext]_rtVars => [Next]_vars
<1> SUFFICES ASSUME [RTNext]_rtVars PROVE [Next]_vars
    OBVIOUS
<1>1. CASE Admit \/ Refused \/ Create
    BY <1>1 DEF Admit, Refused, Create, Next, Request, Daemon, Handler
<1>2. ASSUME NEW t \in Ids, CreateOperation(t) \/ RefuseOperation(t) \/ CancelWorker(t) \/ Deadline(t)
      PROVE  Next
    BY <1>2 DEF CreateOperation, RefuseOperation, CancelWorker, Deadline, Next, Request, Daemon, Handler
<1>3. ASSUME NEW t \in Ids, \/ BindWorker(t) \/ Get(t) \/ CancelRow(t)
                            \/ ExecError(t) \/ ExecPostcheck(t) \/ ExecComplete(t)
      PROVE  UNCHANGED vars
    BY <1>3 DEF BindWorker, Get, CancelRow, ExecError, ExecPostcheck, ExecComplete
<1>4. ASSUME NEW t \in Ids, ExecReject(t) \/ ExecIdentify(t) \/ ExecRun(t) \/ ApplyBegin(t)
      PROVE  Next \/ UNCHANGED vars
    BY <1>4 DEF ExecReject, ExecIdentify, ExecRun, ApplyBegin, Next, Daemon, Worker
<1>5. CASE ApplyStep
    BY <1>5 DEF ApplyStep, Next, Daemon, Worker, Trouble
<1>6. CASE Startup
    BY <1>6 DEF Startup, InterruptStale, Next, Daemon
<1>7. CASE Restart \/ ((Drift \/ Damage) /\ UNCHANGED opVars)
    BY <1>7 DEF Restart, Next, Trouble
<1>8. CASE UNCHANGED rtVars
    BY <1>8 DEF rtVars
<1> QED
    BY <1>1, <1>2, <1>3, <1>4, <1>5, <1>6, <1>7, <1>8
    DEF RTNext, Requests, Execute, Startup, Environment

\* The use case implements the install transaction: requests, operation rows and
\* goroutines never make the file system do what InstallTransaction does not.
THEOREM RuntimeImplementsTransaction == RTSpec => Spec
<1>1. RTInit => Init
    BY DEF RTInit
<1> QED
    BY <1>1, RTStepIsStep, PTL DEF RTSpec, Spec

-----------------------------------------------------------------------------
(* The invariant of rows and goroutines.                                   *)

USE DEF Ids, Places, MaxRecoverSteps

\* Apply returned nil only when some transaction was committed.
AppliedOK == \A t \in Ids : exec[t] \in {"applied", "complete"} => HasCommitted

\* The worker that holds the lock is the goroutine that is inside Apply.
WorkerIsExec == job.by = "worker" => exec[job.w] = "apply"

\* The row of a goroutine inside Apply is RUNNING, unless its transaction ended
\* and somebody read the row.
ApplyIsShown ==
    \A t \in Ids : exec[t] = "apply" =>
        \/ op[t] = "RUNNING"
        \/ op[t] = "FAILED" /\ txn[t].state = "FAILED"
        \/ op[t] = "SUCCEEDED" /\ txn[t].state = "COMMITTED"

OpTypeOK == op \in [Ids -> Statuses] /\ exec \in [Ids -> ExecPcs]

RTInv ==
    OpTypeOK /\ AppliedOK /\ WorkerIsExec /\ ApplyIsShown /\ ReportedSuccessIsReal

\* Until startup is over there is no request and no goroutine.
ClosedOK ==
    ~serving => /\ admitted = 0 /\ job.by \in {"none", "recover"}
                /\ \A t \in Ids : pend[t] = "none" /\ exec[t] = "none"

\* Success is reported of a committed transaction, or was stored after one.
Earned(t) == txn[t].state = "COMMITTED" \/ (t \in installed /\ HasCommitted)

\* Committed transactions stay committed, failed ones failed.
LEMMA EarnedStays ==
    ASSUME IInv, [Next]_vars
    PROVE  /\ \A t \in Ids : txn[t].state \in {"COMMITTED", "FAILED"} => txn'[t].state = txn[t].state
           /\ HasCommitted => HasCommitted'
           /\ \A t \in Ids : installed \subseteq installed' /\ Earned(t) => Earned(t)'
<1>1. \A t \in Ids : txn[t].state \in {"COMMITTED", "FAILED"} => txn'[t].state = txn[t].state
    BY StepKeepsFinal DEF TerminalStates
<1>2. HasCommitted => HasCommitted'
    BY <1>1 DEF HasCommitted
<1> QED
    BY <1>1, <1>2 DEF Earned

\* projectOperation reports earned success only.
LEMMA ProjectedOK ==
    ASSUME OpTypeOK, ReportedSuccessIsReal, NEW t \in Ids, NEW rivals
    PROVE  /\ Projected(t, rivals) \in Statuses
           /\ Projected(t, rivals) = "SUCCEEDED" => Earned(t)
           /\ op[t] \in Statuses
BY DEF Projected, OpTypeOK, ReportedSuccessIsReal, Earned, Statuses, ActiveStatus, TerminalStatus

\* So does the fail closure.
LEMMA FailedOK ==
    ASSUME OpTypeOK, ReportedSuccessIsReal, NEW t \in Ids
    PROVE  /\ Failed(t) \in Statuses
           /\ Failed(t) = "SUCCEEDED" => Earned(t)
BY ProjectedOK DEF Failed, ReportedSuccessIsReal, Earned, Statuses, ActiveStatus, TerminalStatus

\* A step that leaves rows and goroutines alone.
LEMMA QuietStep ==
    ASSUME IInv, RTInv, [Next]_vars, UNCHANGED <<op, exec, installed>>,
           job'.by = "worker" => job.by = "worker" /\ job'.w = job.w
    PROVE  RTInv'
<1>1. \A t \in Ids : Earned(t) => Earned(t)'
    BY EarnedStays
<1>2. ReportedSuccessIsReal'
    BY <1>1 DEF RTInv, ReportedSuccessIsReal, Earned
<1> QED
    BY <1>2, EarnedStays
    DEF RTInv, OpTypeOK, AppliedOK, WorkerIsExec, ApplyIsShown

\* A step that changes the row and the goroutine of one operation.
LEMMA RowStep ==
    ASSUME IInv, RTInv, [Next]_vars, NEW t \in Ids, NEW row \in Statuses, NEW pc \in ExecPcs,
           op' = [op EXCEPT ![t] = row], exec' = [exec EXCEPT ![t] = pc],
           installed \subseteq installed',
           row = "SUCCEEDED" => Earned(t)',
           pc \in {"applied", "complete"} => HasCommitted',
           pc = "apply" => \/ row = "RUNNING"
                           \/ row = "FAILED" /\ txn'[t].state = "FAILED"
                           \/ row = "SUCCEEDED" /\ txn'[t].state = "COMMITTED",
           job'.by = "worker" => job.by = "worker" /\ job'.w = job.w /\ (job.w = t => pc = "apply")
    PROVE  RTInv'
<1>1. /\ \A u \in Ids : txn[u].state \in {"COMMITTED", "FAILED"} => txn'[u].state = txn[u].state
      /\ HasCommitted => HasCommitted'
      /\ \A u \in Ids : Earned(u) => Earned(u)'
    BY EarnedStays
<1>2. \A u \in Ids : /\ op'[u] = IF u = t THEN row ELSE op[u]
                     /\ exec'[u] = IF u = t THEN pc ELSE exec[u]
    BY DEF RTInv, OpTypeOK
<1>3. OpTypeOK'
    BY DEF RTInv, OpTypeOK
<1>4. AppliedOK' /\ ApplyIsShown'
    BY <1>1, <1>2 DEF RTInv, AppliedOK, ApplyIsShown
<1>5. WorkerIsExec'
    BY <1>2 DEF RTInv, WorkerIsExec, IInv, HolderOK
<1>6. ReportedSuccessIsReal'
    BY <1>1, <1>2 DEF RTInv, ReportedSuccessIsReal, Earned
<1> QED
    BY <1>3, <1>4, <1>5, <1>6 DEF RTInv

\* A lock that recovery holds passes to nobody but recovery.
LEMMA RecoveryStays ==
    ASSUME IInv, job.by = "recover", HolderStep
    PROVE  job'.by \in {"none", "recover"} /\ admitted' = admitted /\ pend' = pend
<1> USE DEF IInv
<1>1. ASSUME NEW pc, Goto(pc) PROVE job'.by = "recover"
    BY <1>1, GotoFields
<1>2. ASSUME job' = Idle PROVE job'.by = "none"
    BY <1>2, LockFields
<1>3. ASSUME NextStep PROVE job'.by = "recover"
    BY <1>3 DEF NextStep, Recovering, Idle
<1>4. ASSUME job' = [job EXCEPT !.pc = "home", !.tail = TRUE] PROVE job'.by = "recover"
    BY <1>4, TailFields
<1>5. CASE CreateGeneration \/ CandidateTemp \/ CandidateRecord \/ Build \/ Seal
           \/ PersistSealed \/ Publish \/ MarkActivating \/ WriteActive \/ Fail
    BY <1>1, <1>2, <1>3, <1>5
    DEF CreateGeneration, CandidateTemp, CandidateRecord, Build, Seal, PersistSealed,
        Publish, MarkActivating, WriteActive, Fail, Release, ReturnError
<1>6. CASE Reconcile
    <2>1. ASSUME NEW p, job' = [job EXCEPT !.pc = "path", !.plan = p] PROVE job'.by = "recover"
        BY <2>1, PlanFields
    <2> QED
        BY <1>1, <1>2, <1>3, <1>4, <1>6, <2>1
        DEF Reconcile, ReconcileHome, ReconcilePath, ReconcileReadback, EndTail, Release, ReturnError
<1>7. CASE Collect
    BY <1>2, <1>4, <1>7 DEF Collect, CollectEnd, CollectTree
<1>11. CASE IOFault
    <2>1. \/ \E pc : Goto(pc)
          \/ job' = Idle
          \/ NextStep
          \/ job' = [job EXCEPT !.pc = "home", !.tail = TRUE]
        BY <1>11 DEF IOFault, EndTail, Release, ReturnError
    <2> QED
        BY <1>1, <1>2, <1>3, <1>4, <1>11, <2>1 DEF IOFault
<1>8. CASE RecoverPersist
    BY <1>3, <1>8 DEF RecoverPersist
<1>9. CASE RecoverStep
    BY <1>2, <1>9
    DEF RecoverStep, RecoverSettle, RecoverBlock, RecoverTree, RecoverRecord, Release, TypeOK, Jobs
<1>10. ~SealLoad
    BY DEF SealLoad, HolderOK, WorkerPcs
<1> QED
    BY <1>5, <1>6, <1>7, <1>8, <1>9, <1>10, <1>11 DEF HolderStep, Recovery

\* Startup admits nobody before it is over.
LEMMA StepKeepsClosed ==
    ASSUME IInv, ClosedOK, [RTNext]_rtVars
    PROVE  ClosedOK'
<1> USE DEF IInv
<1>1. CASE serving /\ serving'
    BY <1>1 DEF ClosedOK
<1>2. CASE Restart
    BY <1>2, LockFields DEF Restart, Crash, ClosedOK
<1>3. ASSUME ~serving PROVE ClosedOK'
    <2>1. /\ admitted = 0 /\ job.by \in {"none", "recover"}
          /\ \A t \in Ids : pend[t] = "none" /\ exec[t] = "none"
        BY <1>3 DEF ClosedOK
    <2>2. ~(Admit \/ Refused \/ Create)
        <3>1. ~(job.pc = "create")
            BY <2>1 DEF HolderOK
        <3> QED
            BY <1>3, <2>1, <3>1 DEF Admit, Refused, Create, StartLock, StartCreate
    <2>3. \A t \in Ids : ~(CreateOperation(t) \/ RefuseOperation(t) \/ BindWorker(t) \/ Get(t)
                           \/ CancelWorker(t) \/ CancelRow(t))
        BY <1>3, <2>1 DEF CreateOperation, StartSpawn, RefuseOperation, MarkTransactionFailed,
                          BindWorker, Get, CancelWorker, CancelRow
    <2>4. \A t \in Ids : ~(ExecReject(t) \/ ExecIdentify(t) \/ ExecRun(t) \/ ApplyBegin(t) \/ ExecError(t)
                           \/ ExecPostcheck(t) \/ ExecComplete(t) \/ Deadline(t))
        BY <2>1 DEF ExecReject, ExecIdentify, ExecRun, ApplyBegin, ExecError, ExecPostcheck,
                    ExecComplete, Deadline
    <2>5. CASE ApplyStep
        <3>1. job.by = "recover"
            BY <2>1, <2>5 DEF ApplyStep, HolderOK, WorkerPcs, SealLoad, CreateGeneration, CandidateTemp,
                CandidateRecord, Build, Seal, PersistSealed, Publish, MarkActivating, WriteActive, Fail,
                Reconcile, ReconcileHome, ReconcilePath, ReconcileReadback, Collect, CollectEnd,
                CollectTree, IOFault
        <3> QED
            BY <2>1, <2>5, <3>1, RecoveryStays DEF ApplyStep, HolderStep, ClosedOK
    <2>6. CASE Recovery /\ UNCHANGED opVars
        <3>1. job.by = "recover"
            BY <2>6 DEF Recovery, RecoverStep, RecoverPersist, HolderOK
        <3> QED
            BY <2>1, <2>6, <3>1, RecoveryStays DEF HolderStep, opVars, ClosedOK
    <2>7. CASE InterruptStale
        BY <2>7 DEF InterruptStale, ClosedOK
    <2>8. CASE (Drift \/ Damage) /\ UNCHANGED opVars
        BY <2>1, <2>8 DEF Drift, Damage, opVars, ClosedOK
    <2>9. CASE UNCHANGED rtVars
        BY <2>1, <2>9 DEF rtVars, vars, opVars, ClosedOK
    <2> QED
        BY <1>2, <2>2, <2>3, <2>4, <2>5, <2>6, <2>7, <2>8, <2>9
        DEF RTNext, Requests, Execute, Startup, Environment
<1>4. ASSUME serving, ~serving' PROVE Restart
    BY <1>4 DEF RTNext, Requests, Execute, Startup, Environment, rtVars, opVars, Admit, Refused, Create,
        CreateOperation, RefuseOperation, BindWorker, Get, CancelWorker, CancelRow, ExecReject, ExecIdentify,
        ExecRun, ApplyBegin, ExecError, ExecPostcheck, ExecComplete, Deadline, ApplyStep, InterruptStale
<1> QED
    BY <1>1, <1>2, <1>3, <1>4

\* RTInv is inductive, given what the transaction proofs establish.
LEMMA StepKeepsRTInv ==
    ASSUME IInv, ClosedOK, RTInv, [RTNext]_rtVars
    PROVE  RTInv'
<1> USE DEF IInv
<1>30. TypeOK /\ ObserverOK
    BY DEF IInv, HolderOK, ObserverOK
<1>0. [Next]_vars
    BY RTStepIsStep
<1>1. ASSUME UNCHANGED <<op, exec, installed>>,
             job'.by = "worker" => job.by = "worker" /\ job'.w = job.w
      PROVE  RTInv'
    BY <1>0, <1>1, QuietStep
<1>2. \A t \in Ids : /\ exec[t] \in ExecPcs /\ op[t] \in Statuses
                     /\ op[t] = "SUCCEEDED" => Earned(t)
                     /\ Failed(t) \in Statuses
                     /\ Failed(t) = "SUCCEEDED" => Earned(t)
    BY FailedOK DEF RTInv, OpTypeOK, ReportedSuccessIsReal, Earned
<1>3. exec = [t \in Ids |-> exec[t]] /\ op = [t \in Ids |-> op[t]]
    BY DEF RTInv, OpTypeOK
<1>4. ASSUME NEW t \in Ids, UNCHANGED vars, NEW row \in Statuses, NEW pc \in ExecPcs,
             op' = [op EXCEPT ![t] = row], exec' = [exec EXCEPT ![t] = pc],
             exec[t] # "apply", pc # "apply", installed \subseteq installed',
             row = "SUCCEEDED" => Earned(t)',
             pc \in {"applied", "complete"} => HasCommitted
      PROVE  RTInv'
    <2>1. job' = job /\ (HasCommitted => HasCommitted')
        BY <1>4 DEF vars, HasCommitted
    <2> QED
        BY <1>0, <1>4, <2>1, RowStep DEF RTInv, WorkerIsExec, HolderOK
<1>21. ASSUME UNCHANGED <<txn, installed>> PROVE \A t \in Ids : Earned(t)' = Earned(t)
    BY <1>21 DEF Earned, HasCommitted
<1>5. CASE Admit \/ Refused \/ Create
    BY <1>1, <1>5, LockFields
    DEF Admit, Refused, Create, opVars, AdmitStart, RejectInvalidPointer, RefuseStart, StartLock,
        StartCreate, Release
<1>6. ASSUME NEW t \in Ids, CreateOperation(t) PROVE RTInv'
    <2>1. job' = job /\ txn' = txn /\ pend[t] = "created"
        BY <1>6 DEF CreateOperation, StartSpawn
    <2>2. job.by = "worker" => job.w # t
        BY <2>1 DEF PendingOK
    <2> QED
        BY <1>0, <1>6, <2>1, <2>2, RowStep
        DEF CreateOperation, SetOp, ExecGoto, Statuses, ActiveStatus, ExecPcs
<1>7. ASSUME NEW t \in Ids, RefuseOperation(t) \/ CancelWorker(t) \/ Deadline(t) PROVE RTInv'
    BY <1>1, <1>7
    DEF RefuseOperation, CancelWorker, Deadline, MarkTransactionFailed, CancelContext, opVars
<1>8. ASSUME NEW t \in Ids, BindWorker(t) PROVE RTInv'
    <2>1. op' = [op EXCEPT ![t] = op[t]]
        BY <1>3, <1>8 DEF BindWorker
    <2> QED
        BY <1>2, <1>4, <1>8, <1>21, <2>1 DEF BindWorker, ExecGoto, ExecPcs, vars
<1>9. ASSUME NEW t \in Ids, Get(t) PROVE RTInv'
    <2>1. PICK row \in Statuses : row = Projected(t, ActiveOps)
        BY ProjectedOK DEF RTInv
    <2>2. row = "SUCCEEDED" => Earned(t)
        BY <2>1, ProjectedOK DEF RTInv
    <2>3. PICK pc \in ExecPcs : pc = exec[t]
        BY <1>2
    <2>4. pc = "apply" => \/ row = "RUNNING"
                          \/ row = "FAILED" /\ txn[t].state = "FAILED"
                          \/ row = "SUCCEEDED" /\ txn[t].state = "COMMITTED"
        BY <2>1, <2>3 DEF RTInv, ApplyIsShown, Projected, ActiveStatus
    <2>5. op' = [op EXCEPT ![t] = row] /\ exec' = [exec EXCEPT ![t] = pc] /\ txn' = txn /\ job' = job
          /\ installed' = installed
        BY <1>3, <1>9, <2>1, <2>3 DEF Get, SetOp, vars
    <2>6. pc \in {"applied", "complete"} => HasCommitted'
        BY <2>3, <2>5 DEF RTInv, AppliedOK, HasCommitted
    <2>7. job.by = "worker" /\ job.w = t => pc = "apply"
        BY <2>3 DEF RTInv, WorkerIsExec
    <2>8. row = "SUCCEEDED" => Earned(t)'
        BY <1>21, <2>2, <2>5
    <2> QED
        BY <1>0, <2>8, <2>4, <2>5, <2>6, <2>7, RowStep
<1>10. ASSUME NEW t \in Ids, CancelRow(t) PROVE RTInv'
    <2>1. op' = [op EXCEPT ![t] = "CANCELLED"] /\ exec' = [exec EXCEPT ![t] = exec[t]] /\ UNCHANGED vars
        BY <1>3, <1>10 DEF CancelRow, SetOp
    <2>2. exec[t] \in {"none", "bind"} /\ installed' = installed
        BY <1>10 DEF CancelRow
    <2> QED
        BY <1>2, <1>4, <2>1, <2>2 DEF Statuses, TerminalStatus
<1>11. ASSUME NEW t \in Ids, ExecReject(t) PROVE RTInv'
    <2>1. /\ job' = job /\ txn' = txn /\ installed' = installed
          /\ job.by = "worker" => job.w # t
        BY <1>11 DEF ExecReject, WorkerQuit, RTInv, WorkerIsExec
    <2> QED
        BY <1>0, <1>2, <1>11, <1>21, <2>1, RowStep DEF ExecReject, SetOp, ExecGoto, ExecPcs
<1>12. ASSUME NEW t \in Ids, ExecRun(t) PROVE RTInv'
    <2>1. /\ job' = job /\ txn' = txn /\ installed' = installed
          /\ job.by = "worker" => job.w # t
        BY <1>12 DEF ExecRun, WorkerQuit, RTInv, WorkerIsExec, vars
    <2>2. CASE op' = [op EXCEPT ![t] = "RUNNING"] /\ exec' = [exec EXCEPT ![t] = "apply"]
        BY <1>0, <2>1, <2>2, RowStep DEF Statuses, ActiveStatus, ExecPcs
    <2>3. CASE op' = op /\ exec' = [exec EXCEPT ![t] = "none"]
        <3>1. op' = [op EXCEPT ![t] = op[t]]
            BY <1>3, <2>3
        <3> QED
            BY <1>0, <1>2, <1>21, <2>1, <2>3, <3>1, RowStep DEF ExecPcs
    <2> QED
        BY <1>12, <2>2, <2>3 DEF ExecRun, SetOp, ExecGoto
<1>22. ASSUME NEW t \in Ids, ExecIdentify(t) PROVE RTInv'
    <2>1. /\ job' = job /\ txn' = txn /\ installed' = installed
          /\ job.by = "worker" => job.w # t
        BY <1>22 DEF ExecIdentify, SetInstallIdentity, RTInv, WorkerIsExec
    <2>2. op' = [op EXCEPT ![t] = op[t]] /\ exec' = [exec EXCEPT ![t] = "begun"]
        BY <1>3, <1>22 DEF ExecIdentify, ExecGoto
    <2> QED
        BY <1>0, <1>2, <1>21, <2>1, <2>2, RowStep DEF ExecPcs
<1>13. ASSUME NEW t \in Ids, ApplyBegin(t) PROVE RTInv'
    <2>1. /\ txn' = txn /\ op' = op /\ installed' = installed
          /\ pend[t] = "begun" /\ exec[t] = "apply"
        BY <1>13 DEF ApplyBegin, WorkerLock
    <2>2. CASE job.by = "none"
        <3>1. job'.by = "worker" /\ job'.w = t /\ exec' = exec
            BY <1>13, <2>2, LockFields DEF ApplyBegin, WorkerLock
        <3> QED
            BY <2>1, <3>1
            DEF RTInv, OpTypeOK, AppliedOK, WorkerIsExec, ApplyIsShown, ReportedSuccessIsReal,
                HasCommitted
    <2>3. CASE job.by # "none"
        <3>1. job' = job /\ exec' = [exec EXCEPT ![t] = "errored"] /\ op' = [op EXCEPT ![t] = op[t]]
            BY <1>3, <1>13, <2>1, <2>3 DEF ApplyBegin, WorkerLock, ExecGoto
        <3>2. job.by = "worker" => job.w # t
            BY <2>1 DEF PendingOK
        <3> QED
            BY <1>0, <1>2, <1>21, <2>1, <3>1, <3>2, RowStep DEF ExecPcs
    <2> QED
        BY <2>2, <2>3
<1>14. CASE ApplyStep
    <2>1. /\ op' = op /\ installed' = installed
          /\ job'.by = "worker" => job.by = "worker" /\ job'.w = job.w
        BY <1>30, <1>14, WorkerStays DEF ApplyStep, HolderStep
    <2>2. CASE job.by = "worker" /\ job'.by = "none"
        <3> DEFINE pc == Outcome
        <3>1. pc \in ExecPcs /\ pc \notin {"apply", "complete"} /\ job.w \in Ids
            BY <2>2 DEF Outcome, ExecPcs, HolderOK
        <3>2. pc = "applied" => HasCommitted'
            <4>1. job.t \in 0..N
                BY DEF TypeOK, Jobs
            <4> QED
                BY <4>1, BoundsAssumption DEF Outcome, HasCommitted
        <3>3. exec' = [exec EXCEPT ![job.w] = pc] /\ op' = [op EXCEPT ![job.w] = op[job.w]]
            BY <1>3, <1>14, <2>1, <2>2, <3>1 DEF ApplyStep
        <3> HIDE DEF pc
        <3>4. PICK w \in Ids : w = job.w
            BY <3>1
        <3>5. op[w] = "SUCCEEDED" => Earned(w)'
            BY <1>0, <1>2, <2>1, <3>4, EarnedStays
        <3> QED
            BY <1>0, <1>2, <2>1, <2>2, <3>1, <3>2, <3>3, <3>4, <3>5, RowStep
    <2>3. CASE ~(job.by = "worker" /\ job'.by = "none")
        BY <1>1, <1>14, <2>1, <2>3 DEF ApplyStep
    <2> QED
        BY <2>2, <2>3
<1>15. ASSUME NEW t \in Ids, ExecError(t) \/ ExecPostcheck(t) \/ ExecComplete(t) PROVE RTInv'
    <2>0. UNCHANGED vars
        BY <1>15 DEF ExecError, ExecPostcheck, ExecComplete
    <2>1. CASE ExecError(t)
        <3> DEFINE row == IF exec[t] = "ctx" /\ t \in asked /\ ~FilesystemOwns(t) /\ op[t] \in ActiveStatus
                          THEN "CANCELLED" ELSE Failed(t)
        <3>1. row \in Statuses /\ (row = "SUCCEEDED" => Earned(t))
            BY <1>2 DEF Statuses, TerminalStatus
        <3>2. op' = [op EXCEPT ![t] = row] /\ exec' = [exec EXCEPT ![t] = "none"]
              /\ exec[t] # "apply" /\ installed' = installed
            BY <2>1 DEF ExecError, SetOp, ExecGoto
        <3> HIDE DEF row
        <3>3. row = "SUCCEEDED" => Earned(t)'
            BY <1>21, <2>0, <3>1, <3>2 DEF vars
        <3> QED
            BY <1>4, <2>0, <3>1, <3>2, <3>3 DEF ExecPcs
    <2>2. CASE ExecPostcheck(t)
        <3>1. HasCommitted /\ exec[t] # "apply" /\ installed' = installed
            BY <2>2 DEF ExecPostcheck, RTInv, AppliedOK
        <3>2. Earned(t)' = Earned(t)
            BY <1>21, <2>0, <3>1 DEF vars
        <3>3. CASE exec' = [exec EXCEPT ![t] = "complete"] /\ op' = op
            <4>1. op' = [op EXCEPT ![t] = op[t]]
                BY <1>3, <3>3
            <4> QED
                BY <1>2, <1>4, <2>0, <3>1, <3>2, <3>3, <4>1 DEF ExecPcs
        <3>4. CASE exec' = [exec EXCEPT ![t] = "none"] /\ op' = [op EXCEPT ![t] = Failed(t)]
            BY <1>2, <1>4, <2>0, <3>1, <3>2, <3>4 DEF ExecPcs
        <3> QED
            BY <2>2, <3>3, <3>4 DEF ExecPostcheck, ExecGoto, SetOp
    <2>3. CASE ExecComplete(t)
        <3>1. HasCommitted /\ exec[t] # "apply" /\ exec' = [exec EXCEPT ![t] = "none"]
            BY <2>3 DEF ExecComplete, ExecGoto, RTInv, AppliedOK
        <3>2. HasCommitted'
            BY <2>0, <3>1 DEF vars, HasCommitted
        <3>3. CASE op' = [op EXCEPT ![t] = "SUCCEEDED"] /\ installed' = installed \cup {t}
            <4>1. Earned(t)'
                BY <3>2, <3>3 DEF Earned
            <4> QED
                BY <1>4, <2>0, <3>1, <3>3, <4>1 DEF ExecPcs, Statuses, TerminalStatus
        <3>4. CASE op' = [op EXCEPT ![t] = Failed(t)] /\ installed' = installed
            <4>1. Earned(t)' = Earned(t)
                BY <1>21, <2>0, <3>4 DEF vars
            <4> QED
                BY <1>2, <1>4, <2>0, <3>1, <3>4, <4>1 DEF ExecPcs
        <3> QED
            BY <2>3, <3>3, <3>4 DEF ExecComplete, SetOp
    <2> QED
        BY <1>15, <2>1, <2>2, <2>3
<1>16. CASE InterruptStale
    <2>1. txn' = txn /\ job' = job /\ exec' = exec /\ installed' = installed /\ ~serving
        BY <1>16 DEF InterruptStale, vars
    <2>2. PICK early \in SUBSET ActiveOps :
             op' = [t \in Ids |->
                      IF (IF op[t] = "NONE" THEN "NONE" ELSE Projected(t, ActiveOps \ early)) \in ActiveStatus
                         /\ ~FilesystemOwns(t)
                      THEN "FAILED"
                      ELSE IF op[t] = "NONE" THEN "NONE" ELSE Projected(t, ActiveOps \ early)]
        BY <1>16 DEF InterruptStale
    <2>3. \A t \in Ids : /\ Projected(t, ActiveOps \ early) \in Statuses
                         /\ Projected(t, ActiveOps \ early) = "SUCCEEDED" => Earned(t)
        BY ProjectedOK DEF RTInv
    <2>4. op' \in [Ids -> Statuses] /\ \A t \in Ids : op'[t] = "SUCCEEDED" => Earned(t)
        BY <2>2, <2>3 DEF Statuses, TerminalStatus
    <2>5. \A t \in Ids : exec[t] = "none"
        BY <2>1 DEF ClosedOK
    <2>6. ReportedSuccessIsReal'
        BY <1>21, <2>1, <2>4 DEF ReportedSuccessIsReal, Earned
    <2>7. job.by # "worker"
        BY <2>1 DEF ClosedOK
    <2> QED
        BY <2>1, <2>4, <2>5, <2>6, <2>7
        DEF RTInv, OpTypeOK, AppliedOK, WorkerIsExec, ApplyIsShown
<1>17. CASE Recovery /\ UNCHANGED opVars
    BY <1>1, <1>30, <1>17, WorkerStays DEF HolderStep, opVars
<1>18. CASE Restart
    <2>1. /\ job'.by = "recover" /\ txn' = txn /\ op' = op /\ installed' = installed
          /\ exec' = [t \in Ids |-> "none"]
        BY <1>18, LockFields DEF Restart, Crash
    <2>2. HasCommitted' = HasCommitted
        BY <2>1 DEF HasCommitted
    <2> QED
        BY <2>1, <2>2
        DEF RTInv, OpTypeOK, ExecPcs, AppliedOK, WorkerIsExec, ApplyIsShown, ReportedSuccessIsReal
<1>19. CASE (Drift \/ Damage) /\ UNCHANGED opVars
    BY <1>1, <1>19 DEF Drift, Damage, opVars
<1>20. CASE UNCHANGED rtVars
    BY <1>1, <1>20 DEF rtVars, vars, opVars
<1> QED
    BY <1>5, <1>6, <1>7, <1>8, <1>9, <1>10, <1>11, <1>12, <1>13, <1>14, <1>15, <1>16, <1>17, <1>18,
       <1>19, <1>20, <1>22
    DEF RTNext, Requests, Execute, Startup, Environment

-----------------------------------------------------------------------------
(* The theorems.                                                           *)

\* The strengthened invariant holds of every execution that begins on an empty disk.
THEOREM RuntimeInvariant ==
    ASSUME World = "fresh"
    PROVE  RTSpec => [](IInv /\ ClosedOK /\ RTInv)
<1>1. RTInit => IInv /\ ClosedOK /\ RTInv
    <2> SUFFICES ASSUME RTInit PROVE IInv /\ ClosedOK /\ RTInv
        OBVIOUS
    <2>1. IInv
        BY FreshInitInv DEF RTInit
    <2>2. job.by = "recover" /\ admitted = 0 /\ \A t \in Ids : pend[t] = "none"
        BY LockFields DEF RTInit, Init
    <2> QED
        BY <2>1, <2>2
        DEF RTInit, ClosedOK, RTInv, OpTypeOK, AppliedOK, WorkerIsExec, ApplyIsShown,
            ReportedSuccessIsReal, Statuses, ExecPcs
<1>2. IInv /\ ClosedOK /\ RTInv /\ [RTNext]_rtVars => (IInv /\ ClosedOK /\ RTInv)'
    BY RTStepIsStep, StepKeepsInv, StepKeepsClosed, StepKeepsRTInv
<1> QED
    BY <1>1, <1>2, PTL DEF RTSpec

\* However requests, workers, cancellations, projections and restarts
\* interleave, a row that reports SUCCEEDED belongs to a committed transaction, or
\* its worker stored the installation row after some transaction was committed.
THEOREM SuccessIsNeverClaimedEarly ==
    ASSUME World = "fresh"
    PROVE  RTSpec => []ReportedSuccessIsReal
<1>1. RTInv => ReportedSuccessIsReal
    BY DEF RTInv
<1> QED
    BY <1>1, RuntimeInvariant, PTL

\* A worker that changes the disk for its own transaction does so for an operation
\* whose row says so: one that was cancelled or failed is never applied by its
\* own worker behind the client's back.
THEOREM WorkIsAlwaysVisible ==
    ASSUME World = "fresh"
    PROVE  RTSpec => []WorkIsVisible
<1>1. IInv /\ RTInv => WorkIsVisible
    <2> SUFFICES ASSUME IInv, RTInv, job.by = "worker", job.pc # "load", job.t = job.w
                 PROVE  \/ op[job.t] = "RUNNING"
                        \/ txn[job.t].state = "COMMITTED" /\ op[job.t] = "SUCCEEDED"
        BY DEF WorkIsVisible
    <2>1. job.t \in Ids /\ exec[job.t] = "apply"
        BY DEF IInv, HolderOK, RTInv, WorkerIsExec
    <2>2. txn[job.t].state # "FAILED"
        BY DEF IInv, HolderOK, RecordOK, WorkerPcs, TypeOK, Jobs, Pcs
    <2> QED
        BY <2>1, <2>2 DEF RTInv, ApplyIsShown
<1> QED
    BY <1>1, RuntimeInvariant, PTL

\* Requests are served again only after InterruptStale.
LEMMA ServingBegins ==
    ASSUME RTNext, serving', ~serving
    PROVE  InterruptStale /\ txn' = txn
<1>1. InterruptStale
    BY DEF RTNext, Requests, Execute, Startup, Environment, opVars, Admit, Refused, Create,
        CreateOperation, RefuseOperation, BindWorker, Get, CancelWorker, CancelRow, ExecReject,
        ExecIdentify, ExecRun, ApplyBegin, ExecError, ExecPostcheck, ExecComplete, Deadline,
        ApplyStep, Restart
<1> QED
    BY <1>1 DEF InterruptStale, vars

\* InterruptStale leaves no row active but that of a transaction being activated,
\* whatever the disk looked like at startup: no stale row blocks the next
\* installation.
THEOREM StartupClearsStale == RTSpec => RestartClearsStale
<1> DEFINE Cleared == serving' /\ ~serving =>
                        \A t \in Ids : op'[t] \in ActiveStatus => txn'[t].state = "ACTIVATING"
<1>1. [RTNext]_rtVars => [Cleared]_rtVars
    <2> SUFFICES ASSUME RTNext, serving', ~serving, NEW t \in Ids, op'[t] \in ActiveStatus
                 PROVE  txn'[t].state = "ACTIVATING"
        OBVIOUS
    <2>1. InterruptStale /\ txn' = txn
        BY ServingBegins
    <2>2. FilesystemOwns(t)
        BY <2>1 DEF InterruptStale, ActiveStatus
    <2>3. txn[t].state # "COMMITTED"
        BY <2>1 DEF InterruptStale, Projected, ActiveStatus
    <2> QED
        BY <2>1, <2>2, <2>3 DEF FilesystemOwns
<1>2. RTSpec => [][Cleared]_rtVars
    BY <1>1, PTL DEF RTSpec
<1> QED
    BY <1>2 DEF RestartClearsStale

\* After InterruptStale no row says FAILED or CANCELLED of a generation that was
\* installed, by its worker or by the recovery that ran before.
THEOREM StartupRepairsRows == RTSpec => RestartRepairsRows
<1> DEFINE Repaired == serving' /\ ~serving =>
                         \A t \in Ids : op'[t] \in {"FAILED", "CANCELLED"} => txn'[t].state # "COMMITTED"
<1>1. [RTNext]_rtVars => [Repaired]_rtVars
    <2> SUFFICES ASSUME RTNext, serving', ~serving, NEW t \in Ids, txn'[t].state = "COMMITTED"
                 PROVE  op'[t] \notin {"FAILED", "CANCELLED"}
        OBVIOUS
    <2>1. InterruptStale /\ txn' = txn
        BY ServingBegins
    <2>2. op'[t] \in {"NONE", "SUCCEEDED"}
        BY <2>1 DEF InterruptStale, Projected, FilesystemOwns, ActiveStatus
    <2> QED
        BY <2>2
<1>2. RTSpec => [][Repaired]_rtVars
    BY <1>1, PTL DEF RTSpec
<1> QED
    BY <1>2 DEF RestartRepairsRows

-----------------------------------------------------------------------------
(* Types.                                                                  *)

\* What RTTypeOK adds to the types of the install transaction.
OwnTypes == OpTypeOK /\ asked \subseteq Ids /\ installed \subseteq Ids /\ serving \in BOOLEAN

\* The two statuses that projection and the fail closure work out are statuses.
LEMMA RowsTyped ==
    ASSUME OpTypeOK, NEW t \in Ids, NEW rivals
    PROVE  Projected(t, rivals) \in Statuses /\ Failed(t) \in Statuses
BY DEF Projected, Failed, OpTypeOK, Statuses, ActiveStatus, TerminalStatus

\* Each step of the use case writes statuses into rows and positions into goroutines.
LEMMA RTStepTyped ==
    ASSUME OwnTypes, [RTNext]_rtVars
    PROVE  OwnTypes'
<1> USE DEF OwnTypes, OpTypeOK
<1>1. CASE UNCHANGED opVars
    BY <1>1 DEF opVars
<1>2. CASE Admit \/ Refused \/ Create
    BY <1>2, <1>1 DEF Admit, Refused, Create
<1>3. ASSUME NEW t \in Ids,
             CreateOperation(t) \/ RefuseOperation(t) \/ BindWorker(t) \/ CancelWorker(t)
             \/ CancelRow(t) \/ Deadline(t)
      PROVE  OwnTypes'
    BY <1>3, <1>1 DEF CreateOperation, RefuseOperation, BindWorker, CancelWorker, CancelRow, Deadline,
        SetOp, ExecGoto, Statuses, ActiveStatus, TerminalStatus, ExecPcs
<1>4. ASSUME NEW t \in Ids, Get(t) PROVE OwnTypes'
    BY <1>4, RowsTyped DEF Get, SetOp
<1>5. ASSUME NEW t \in Ids, ExecReject(t) \/ ExecIdentify(t) \/ ExecRun(t) \/ ApplyBegin(t)
      PROVE  OwnTypes'
    <2>1. CASE ExecReject(t)
        BY <2>1, RowsTyped DEF ExecReject, SetOp, ExecGoto, ExecPcs
    <2>2. CASE ExecIdentify(t) \/ ApplyBegin(t)
        BY <2>2 DEF ExecIdentify, ApplyBegin, ExecGoto, ExecPcs
    <2>3. CASE ExecRun(t)
        BY <2>3 DEF ExecRun, SetOp, ExecGoto, Statuses, ActiveStatus, ExecPcs
    <2> QED
        BY <1>5, <2>1, <2>2, <2>3
<1>6. ASSUME NEW t \in Ids, ExecError(t) \/ ExecPostcheck(t) \/ ExecComplete(t)
      PROVE  OwnTypes'
    <2>1. Failed(t) \in Statuses /\ {"CANCELLED", "SUCCEEDED"} \subseteq Statuses
        BY RowsTyped DEF Statuses, TerminalStatus
    <2>2. CASE ExecError(t)
        <3>1. PICK row \in Statuses : op' = [op EXCEPT ![t] = row]
            BY <2>1, <2>2 DEF ExecError, SetOp
        <3> QED
            BY <2>2, <3>1 DEF ExecError, ExecGoto, ExecPcs
    <2>3. CASE ExecPostcheck(t)
        BY <2>1, <2>3 DEF ExecPostcheck, SetOp, ExecGoto, ExecPcs
    <2>4. CASE ExecComplete(t)
        <3>1. PICK row \in Statuses : op' = [op EXCEPT ![t] = row]
            BY <2>1, <2>4 DEF ExecComplete, SetOp
        <3> QED
            BY <2>4, <3>1 DEF ExecComplete, ExecGoto, ExecPcs
    <2> QED
        BY <1>6, <2>2, <2>3, <2>4
<1>7. CASE ApplyStep
    BY <1>7 DEF ApplyStep, Outcome, ExecPcs
<1>8. CASE Startup
    <2>1. CASE InterruptStale
        <3>1. PICK early \in SUBSET ActiveOps :
                op' = [t \in Ids |->
                         IF (IF op[t] = "NONE" THEN "NONE" ELSE Projected(t, ActiveOps \ early))
                                \in ActiveStatus /\ ~FilesystemOwns(t)
                         THEN "FAILED"
                         ELSE IF op[t] = "NONE" THEN "NONE" ELSE Projected(t, ActiveOps \ early)]
            BY <2>1 DEF InterruptStale
        <3>2. {"NONE", "FAILED"} \subseteq Statuses
            BY DEF Statuses, TerminalStatus
        <3> QED
            BY <2>1, <3>1, <3>2, RowsTyped DEF InterruptStale
    <2> QED
        BY <1>8, <1>1, <2>1 DEF Startup
<1>9. CASE Environment
    <2>1. CASE Restart
        BY <2>1 DEF Restart, ExecPcs
    <2> QED
        BY <1>9, <1>1, <1>3, <2>1 DEF Environment
<1> QED
    BY <1>1, <1>2, <1>3, <1>4, <1>5, <1>6, <1>7, <1>8, <1>9 DEF RTNext, Requests, Execute, rtVars, opVars

\* Rows, goroutines and the transaction below them keep their types, whatever the
\* disk held when the daemon first started.
THEOREM RuntimeTypeCorrect == RTSpec => []RTTypeOK
<1>1. RTInit => OwnTypes
    BY DEF RTInit, OwnTypes, OpTypeOK, Statuses, ExecPcs
<1>2. TypeOK /\ OwnTypes => RTTypeOK
    BY DEF OwnTypes, OpTypeOK, RTTypeOK
<1>3. RTSpec => []OwnTypes
    BY <1>1, RTStepTyped, PTL DEF RTSpec
<1> QED
    BY <1>2, <1>3, RuntimeImplementsTransaction, TypeCorrect, PTL

=============================================================================
