------------------------- MODULE InstallTransaction -------------------------
(***************************************************************************)
(* The Hermes install transaction (services/node/internal/install): the    *)
(* transaction records, the generation, staging and failed directories,    *)
(* active.json, the user environment derived from it, and everything that  *)
(* touches them: the creation of a transaction, the install worker, the    *)
(* recovery that runs at daemon start, garbage collection, and crashes at  *)
(* any point between two durable writes.                                   *)
(*                                                                         *)
(* install.lock is held by whoever job.by names; its holder's position in  *)
(* the code is job.pc.  A crash releases it.  Records are replaced         *)
(* atomically, so a record write is one step; a directory's contents and   *)
(* the two registry values are several.                                    *)
(***************************************************************************)
EXTENDS RecoveryDecide, FiniteSets

CONSTANTS
    N,              \* transactions are 1..N
    World,          \* "fresh": an empty disk; "found": any disk recovery may find
    MaxRequests,    \* start requests between their preflight and the lock
    MaxCancels,     \* workers cancelled or timed out between two restarts
    MaxCrashes,     \* daemon crashes (each followed by a restart)
    MaxFaults,      \* failing reads and writes
    MaxDrifts,      \* outside edits of HERMES_HOME and PATH
    MaxDamage       \* committed generations whose files are lost while active

ASSUME BoundsAssumption ==
    /\ N \in Nat \ {0}
    /\ World \in {"fresh", "found"}
    /\ MaxRequests \in Nat /\ MaxCancels \in Nat
    /\ MaxCrashes \in Nat /\ MaxFaults \in Nat
    /\ MaxDrifts \in Nat /\ MaxDamage \in Nat

MaxRecoverSteps == 8

Ids == 1..N
Places == {"generations", "staging", "failed"}

VARIABLES
    txn,        \* control/transactions/*.json
    disk,       \* the three directory roots
    active,     \* the generation control/active.json names, 0 when missing
    home,       \* HERMES_HOME names the managed root
    path,       \* the user PATH: its first entry and the set of the others
    gate,       \* the daemon's install admission gate
    job,        \* the holder of install.lock
    admitted,   \* how many start requests are past their preflight
    pend,       \* per operation: its request or worker, when it does not hold the lock
    cancelled,  \* operations whose worker context is done
    identity,   \* HostInstaller.currentOp, shared by all workers; 0 when unset
    damaged,    \* generations whose files were lost from outside
    left        \* what remains of the other bounds

vars == <<txn, disk, active, home, path, gate, job, admitted, pend, cancelled, identity,
          damaged, left>>
environment == <<home, path>>
outside == <<damaged, left>>

\* InstallTransaction: seal says the digests are recorded; before is the
\* predecessor observed before activation.
TxnRecords == [state : TxnStates, seal : BOOLEAN, before : 0..N]
NoTxn == [state |-> "NONE", seal |-> FALSE, before |-> 0]

\* PATH entries: generation t's bin directory is t, the user's own entries 0.
Paths == [first : 0..N, rest : SUBSET (0..N)]
KeepPath == [first |-> 0, rest |-> {}]      \* a plan that leaves PATH alone

Pcs == {"idle", "create", "load", "mkdir", "candidate", "record", "build", "seal",
        "sealed", "publish", "activating", "point", "home", "path", "readback",
        "gc", "fail", "observe", "persist"}
EnvPcs == {"home", "path", "readback"}

\* w is the operation whose worker holds the lock, t the transaction worked on.
Jobs == [by : {"none", "start", "worker", "recover"}, pc : Pcs, w : 0..N, t : 0..N,
         step : 0..MaxRecoverSteps, prev : Decisions, plan : Paths, tail : BOOLEAN]

Idle == [by |-> "none", pc |-> "idle", w |-> 0, t |-> 0, step |-> 0, prev |-> Nothing,
         plan |-> KeepPath, tail |-> FALSE]
Recovering == [Idle EXCEPT !.by = "recover", !.pc = "observe"]

TypeOK ==
    /\ txn \in [Ids -> TxnRecords]
    /\ disk \in [Places -> [Ids -> Trees]]
    /\ active \in 0..N
    /\ home \in BOOLEAN
    /\ path \in Paths
    /\ gate \in Gates
    /\ job \in Jobs
    /\ admitted \in 0..MaxRequests
    /\ pend \in [Ids -> {"none", "created", "spawned", "begun"}]
    /\ cancelled \subseteq Ids
    /\ identity \in 0..N
    /\ damaged \subseteq Ids
    /\ left \in [crash : Nat, fault : Nat, drift : Nat]

-----------------------------------------------------------------------------
(* Reading the disk.                                                       *)

Generation(t) == disk["generations"][t]

\* ReadActive: INVALID when the generation's metadata does not verify.
ReadActive == IF active = 0 THEN "MISSING"
              ELSE IF MetadataVerifies(Generation(active)) THEN "VALID"
              ELSE "INVALID"

\* Mutant: only a transaction that is still failable counts.
HasNonterminalFailableOnly == \E t \in Ids : txn[t].state \in FailableStates

HasNonterminal == \E t \in Ids : txn[t].state \in NonterminalStates
HasCommitted == \E t \in Ids : txn[t].state = "COMMITTED"

\* EnvironmentObservation.Complete for the policy of active.json.
EnvironmentComplete == home /\ path.first = active

\* Mutant: stale entries are never recognised.
RemovableBinsNone == {}

\* RemovableBins and ComputeEnvironmentPlan: put the active generation's bin
\* first, drop the bins of the other generations that exist when allowed.
RemovableBins == {t \in Ids : t # active /\ Generation(t) # "absent"}

PathPlan(allowStale) ==
    LET entries == {path.first} \cup path.rest
        dropped == {active} \cup (IF allowStale THEN RemovableBins ELSE {})
    IN  [first |-> active, rest |-> entries \ dropped]

Primary == PrimaryTxn(txn, ReadActive, active)

\* Observe.  The environment counts as complete only when the active tree
\* verifies (PolicyFromActive).
Observation ==
    [txns |-> txn,
     pointer |-> ReadActive,
     active |-> active,
     staging |-> IF Primary = 0 THEN NoTree
                 ELSE ObserveTree(disk["staging"][Primary], txn[Primary].seal),
     generation |-> IF Primary = 0 THEN NoTree
                    ELSE ObserveTree(Generation(Primary), txn[Primary].seal),
     env |-> active # 0 /\ Generation(active) = "sealed" /\ EnvironmentComplete,
     unknown |-> \E t \in Ids : /\ txn[t].state = "NONE"
                                /\ \E p \in {"generations", "staging"} : disk[p][t] # "absent"]

-----------------------------------------------------------------------------
(* Writing the disk.                                                       *)

SaveState(t, s) == txn' = [txn EXCEPT ![t].state = s]
\* FailFailableNonterminals: the records afterwards.
FailFailable == [t \in Ids |-> IF txn[t].state \in FailableStates
                               THEN [txn[t] EXCEPT !.state = "FAILED"] ELSE txn[t]]

SetTree(p, t, tree) == disk' = [disk EXCEPT ![p][t] = tree]
Goto(pc) == job' = [job EXCEPT !.pc = pc]
Release == job' = Idle

\* Execute returned nil: the recovery loop observes again.
NextStep == job' = [Recovering EXCEPT !.step = job.step + 1, !.prev = job.prev]

\* What the lock holder does when its call returns an error.
ReturnError ==
    /\ Release
    /\ gate' = IF job.by # "recover" THEN gate
               ELSE IF job.prev.action = "RECONCILE_ENV" /\ job.pc # "observe"
                    THEN "RECONCILING" ELSE "BLOCKED_UNSAFE"

-----------------------------------------------------------------------------
(* A start request: RuntimeInstall.persistCreatedTransaction.              *)

\* rejectInstallGate: an invalid pointer closes the gate.
RejectInvalidPointer ==
    /\ ReadActive = "INVALID" /\ gate # "BLOCKED_UNSAFE" /\ job.by # "recover"
    /\ gate' = "BLOCKED_UNSAFE"
    /\ UNCHANGED <<txn, disk, active, environment, job, admitted, pend, cancelled, identity, outside>>

\* NewCreatedTransaction: random identifiers that nothing on the disk uses,
\* taken in increasing order; N bounds how many there are.
FreshId(t) == /\ \A u \in Ids : txn[u].state = "NONE" <=> u >= t
              /\ \A p \in Places : disk[p][t] = "absent"

\* DecideInstallPreflight lets an installation begin where discovery finds no
\* Hermes: nothing is active, or the active generation lost its executable.
NotInstalled == active # 0 => Generation(active) # "sealed"

\* The checks of Start that hold no lock; nothing repeats the gate and the
\* discovery checks later.
AdmitStart ==
    /\ gate = "READY" /\ job.by # "recover" /\ ReadActive # "INVALID" /\ NotInstalled
    /\ admitted < MaxRequests
    /\ admitted' = admitted + 1
    /\ UNCHANGED <<txn, disk, active, environment, gate, job, pend, cancelled, identity, outside>>

\* persistCreatedTransaction refuses: the lock is busy (AcquireLock does not
\* wait) or the pointer is invalid.
RefuseStart ==
    /\ admitted > 0
    /\ job.by # "none" \/ ReadActive = "INVALID"
    /\ admitted' = admitted - 1
    /\ UNCHANGED <<txn, disk, active, environment, gate, job, pend, cancelled, identity, outside>>

\* AcquireLock, then FailFailableNonterminals.
StartLock ==
    /\ admitted > 0 /\ job.by = "none" /\ ReadActive # "INVALID"
    /\ \E t \in Ids : FreshId(t)
    /\ admitted' = admitted - 1
    /\ txn' = FailFailable
    /\ job' = [Idle EXCEPT !.by = "start", !.pc = "create"]
    /\ UNCHANGED <<disk, active, environment, gate, pend, cancelled, identity, outside>>

\* Refuse while a transaction is in flight, else save a fresh CREATED record.
StartCreate ==
    /\ job.pc = "create"
    /\ Release
    /\ \/ /\ HasNonterminal
          /\ UNCHANGED <<txn, pend>>
       \/ /\ ~HasNonterminal
          /\ \E t \in Ids :
                /\ FreshId(t)
                /\ txn' = [txn EXCEPT ![t] = [NoTxn EXCEPT !.state = "CREATED"]]
                /\ pend' = [pend EXCEPT ![t] = "created"]
    /\ UNCHANGED <<disk, active, environment, gate, admitted, cancelled, identity, outside>>

\* The Operation row was stored: the worker goroutine starts.
StartSpawn(t) ==
    /\ pend[t] = "created"
    /\ pend' = [pend EXCEPT ![t] = "spawned"]
    /\ UNCHANGED <<txn, disk, active, environment, gate, job, admitted, cancelled, identity, outside>>

\* markTransactionFailed: the Operation row was refused.  No lock is held.
MarkTransactionFailed(t) ==
    /\ pend[t] = "created"
    /\ pend' = [pend EXCEPT ![t] = "none"]
    /\ IF txn[t].state \in TerminalStates THEN UNCHANGED txn ELSE SaveState(t, "FAILED")
    /\ UNCHANGED <<disk, active, environment, gate, job, admitted, cancelled, identity, outside>>

\* Cancel, or the operation deadline.
CancelContext(t) ==
    /\ t \notin cancelled /\ Cardinality(cancelled) < MaxCancels
    /\ pend[t] \in {"spawned", "begun"} \/ (job.by = "worker" /\ job.w = t)
    /\ cancelled' = cancelled \cup {t}
    /\ UNCHANGED <<txn, disk, active, environment, gate, job, admitted, pend, identity, outside>>

-----------------------------------------------------------------------------
(* The install worker: applyGeneration, SealNew, PublishAndActivate.       *)

\* The one HostInstaller of the daemon keeps the operation it is told last.
SetInstallIdentity(t) ==
    /\ pend[t] = "spawned"
    /\ pend' = [pend EXCEPT ![t] = "begun"]
    /\ identity' = t
    /\ UNCHANGED <<txn, disk, active, environment, gate, job, admitted, cancelled, outside>>

\* AcquireLock does not wait: a busy lock fails the installation.
WorkerLock(t) ==
    /\ pend[t] = "begun"
    /\ pend' = [pend EXCEPT ![t] = "none"]
    /\ job' = IF job.by = "none"
              THEN [Idle EXCEPT !.by = "worker", !.pc = "load", !.w = t] ELSE job
    /\ UNCHANGED <<txn, disk, active, environment, gate, admitted, cancelled, identity, outside>>

\* execute returns before it applies anything: the platform, the target, or the
\* Operation row refuses.
WorkerQuit(t) ==
    /\ pend[t] \in {"spawned", "begun"}
    /\ pend' = [pend EXCEPT ![t] = "none"]
    /\ UNCHANGED <<txn, disk, active, environment, gate, job, admitted, cancelled, identity, outside>>

\* applyGeneration loads the transaction of h.currentOp, whoever set it; SealNew
\* takes only a CREATED one.
SealLoad ==
    /\ job.pc = "load"
    /\ IF txn[identity].state = "CREATED"
       THEN SaveState(identity, "BUILDING") /\ job' = [job EXCEPT !.pc = "mkdir", !.t = identity]
       ELSE UNCHANGED txn /\ Release
    /\ UNCHANGED <<disk, active, environment, gate, admitted, pend, cancelled, identity, outside>>

\* createFreshGenerationCandidate: the directory must not exist.
CreateGeneration ==
    /\ job.pc = "mkdir"
    /\ IF Generation(job.t) = "absent"
       THEN SetTree("generations", job.t, "empty") /\ Goto("candidate")
       ELSE UNCHANGED disk /\ Goto("fail")
    /\ UNCHANGED <<txn, active, environment, gate, admitted, pend, cancelled, identity, outside>>

\* writeCandidateRecord: a temporary file appears, then replaces the record.
CandidateTemp ==
    /\ job.pc = "candidate"
    /\ SetTree("generations", job.t, "unproven") /\ Goto("record")
    /\ UNCHANGED <<txn, active, environment, gate, admitted, pend, cancelled, identity, outside>>

CandidateRecord ==
    /\ job.pc = "record"
    /\ SetTree("generations", job.t, "candidate") /\ Goto("build")
    /\ UNCHANGED <<txn, active, environment, gate, admitted, pend, cancelled, identity, outside>>

\* The build may fail; a done context makes it fail.
Build ==
    /\ job.pc = "build"
    /\ \/ job.w \notin cancelled /\ Goto("seal")
       \/ Goto("fail")
    /\ UNCHANGED <<txn, disk, active, environment, gate, admitted, pend, cancelled, identity, outside>>

\* Validate (under the context), SealGeneration.
Seal ==
    /\ job.pc = "seal"
    /\ \/ job.w \notin cancelled /\ SetTree("generations", job.t, "sealed") /\ Goto("sealed")
       \/ UNCHANGED disk /\ Goto("fail")
    /\ UNCHANGED <<txn, active, environment, gate, admitted, pend, cancelled, identity, outside>>

PersistSealed ==
    /\ job.pc = "sealed"
    /\ txn' = [txn EXCEPT ![job.t] = [state |-> "SEALED", seal |-> TRUE, before |-> @.before]]
    /\ Goto("publish")
    /\ UNCHANGED <<disk, active, environment, gate, admitted, pend, cancelled, identity, outside>>

\* PublishAndActivate looks at the context once, before publishing; a done
\* context leaves the transaction SEALED.
Publish ==
    /\ job.pc = "publish"
    /\ IF job.w \in cancelled THEN UNCHANGED txn /\ Release
       ELSE IF Generation(job.t) = "sealed"
            THEN SaveState(job.t, "PUBLISHED") /\ Goto("activating")
            ELSE UNCHANGED txn /\ Goto("fail")
    /\ UNCHANGED <<disk, active, environment, gate, admitted, pend, cancelled, identity, outside>>

\* activate, first half: verify, snapshot the predecessor, persist ACTIVATING.
MarkActivating ==
    /\ job.pc = "activating"
    /\ IF ReadActive = "INVALID" \/ Generation(job.t) # "sealed"
       THEN UNCHANGED txn /\ Release
       ELSE /\ txn' = [txn EXCEPT ![job.t].state = "ACTIVATING", ![job.t].before = active]
            /\ Goto("point")
    /\ UNCHANGED <<disk, active, environment, gate, admitted, pend, cancelled, identity, outside>>

\* casAllowsActivate
CasAllowsActivate(t) == ReadActive # "INVALID" /\ txn[t].before = active

\* activate, second half: compare with the snapshot, replace active.json.  For
\* the recovery's ACTIVATE this is the whole call.
WriteActive ==
    /\ job.pc = "point"
    /\ IF Generation(job.t) = "sealed" /\ CasAllowsActivate(job.t)
       THEN /\ active' = job.t
            /\ IF job.by = "recover" THEN NextStep ELSE Goto("home")
            /\ UNCHANGED gate
       ELSE UNCHANGED active /\ ReturnError
    /\ UNCHANGED <<txn, disk, environment, admitted, pend, cancelled, identity, outside>>

\* Manager.fail: FAILED, unless active.json already names the generation.
Fail ==
    /\ job.pc = "fail"
    /\ SaveState(job.t, IF active = job.t THEN "ACTIVATING" ELSE "FAILED")
    /\ Release
    /\ UNCHANGED <<disk, active, environment, gate, admitted, pend, cancelled, identity, outside>>

-----------------------------------------------------------------------------
(* ReconcileEnvironment, for the worker and for recovery.  tail marks the  *)
(* last, best-effort pass, whose errors are dropped.                       *)

EndTail == IF job.by = "recover" THEN NextStep ELSE Release

\* ReconcileEnvironment's checks, and the first half of reconcileOnce: plan
\* from one read of the environment, write HERMES_HOME.
ReconcileHome ==
    /\ job.pc = "home"
    /\ LET allowStale == job.tail \/ HasCommitted
           refused == \/ job.by = "worker" /\ job.w \in cancelled /\ ~job.tail
                      \/ txn[job.t].state \notin {"ACTIVATING", "COMMITTED"}
                      \/ txn[job.t].state = "ACTIVATING" /\ active # job.t
                      \/ active = 0
                      \/ active # 0 /\ Generation(active) # "sealed"
       IN  IF refused
           THEN /\ UNCHANGED home
                /\ IF job.tail THEN EndTail /\ UNCHANGED gate ELSE ReturnError
           ELSE /\ home' = TRUE
                /\ job' = [job EXCEPT !.pc = "path",
                              !.plan = IF PathPlan(allowStale) = path THEN KeepPath
                                       ELSE PathPlan(allowStale)]
                /\ UNCHANGED gate
    /\ UNCHANGED <<txn, disk, active, path, admitted, pend, cancelled, identity, outside>>

\* Mutant: PATH is planned and never written.
ReconcilePathSkipsWrite ==
    /\ job.pc = "path"
    /\ Goto("readback")
    /\ UNCHANGED <<txn, disk, active, environment, gate, admitted, pend, cancelled, identity, outside>>

ReconcilePath ==
    /\ job.pc = "path"
    /\ path' = IF job.plan = KeepPath THEN path ELSE job.plan
    /\ Goto("readback")
    /\ UNCHANGED <<txn, disk, active, home, gate, admitted, pend, cancelled, identity, outside>>

\* Read back; COMMITTED only when the values are observed.
ReconcileReadback ==
    /\ job.pc = "readback"
    /\ IF job.tail THEN EndTail /\ UNCHANGED <<txn, gate>>
       ELSE IF ~EnvironmentComplete THEN ReturnError /\ UNCHANGED txn
       ELSE IF txn[job.t].state = "ACTIVATING"
            THEN SaveState(job.t, "COMMITTED") /\ Goto("gc") /\ UNCHANGED gate
            ELSE /\ job' = [job EXCEPT !.pc = "home", !.tail = TRUE]
                 /\ UNCHANGED <<txn, gate>>
    /\ UNCHANGED <<disk, active, environment, admitted, pend, cancelled, identity, outside>>

-----------------------------------------------------------------------------
(* Garbage collection.                                                     *)

\* Mutant: a directory under a known name counts as proven.
LineageProvenByName(p, t) == disk[p][t] # "absent"

\* lineageProven
LineageProven(p, t) ==
    IF txn[t].seal THEN MetadataVerifies(disk[p][t])
    ELSE disk[p][t] \in {"candidate", "sealed", "remnant"}

ProvenTrees == {pt \in Places \X Ids : txn[pt[2]].state \in ValidStates
                                       /\ LineageProven(pt[1], pt[2])}

\* Mutant: the sort is the wrong way round.
PreviousCommittedOldest ==
    LET previous == {t \in Ids : txn[t].state = "COMMITTED" /\ ~(ReadActive = "VALID" /\ t = active)}
    IN  {<<"generations", t>> : t \in {u \in previous : \A v \in previous : v >= u}}

\* latestPreviousCommitted.  Transactions become terminal in the order of
\* their identifiers, because at most one is in flight.
PreviousCommitted ==
    LET previous == {t \in Ids : txn[t].state = "COMMITTED" /\ ~(ReadActive = "VALID" /\ t = active)}
    IN  {<<"generations", t>> : t \in {u \in previous : \A v \in previous : v <= u}}

\* latestFailedProven: one tree of the latest failed transaction that has one,
\* looked for in staging, failed and generations in this order.
LatestFailed ==
    LET failed == {pt \in ProvenTrees : txn[pt[2]].state = "FAILED"}
        before(p, q) == \/ p = "staging" /\ q # "staging"
                        \/ p = "failed" /\ q = "generations"
    IN  {pt \in failed : \A qu \in failed : \/ qu[2] < pt[2]
                                            \/ qu[2] = pt[2] /\ ~before(qu[1], pt[1])}

\* Mutant: the active generation is not protected.
RetainedForgetsActive ==
    PreviousCommitted \cup LatestFailed
    \cup {pt \in {"generations", "staging"} \X Ids : txn[pt[2]].state \in NonterminalStates}

\* retentionSet
Retained ==
    (IF ReadActive = "VALID" THEN {<<"generations", active>>} ELSE {})
    \cup PreviousCommitted
    \cup LatestFailed
    \cup {pt \in {"generations", "staging"} \X Ids : txn[pt[2]].state \in NonterminalStates}

Garbage == ProvenTrees \ Retained

\* What an interrupted os.RemoveAll leaves: its order is not defined.
HalfDeleted(tree) == {"empty", "unproven", "candidate"}
                     \cup (IF MetadataVerifies(tree) THEN {"remnant"} ELSE {})

InterruptCollect ==
    \E pt \in Garbage : \E tree \in HalfDeleted(disk[pt[1]][pt[2]]) : SetTree(pt[1], pt[2], tree)

CollectTree(p, t) ==
    /\ job.pc = "gc" /\ <<p, t>> \in Garbage
    /\ SetTree(p, t, "absent")
    /\ UNCHANGED <<txn, active, environment, gate, job, admitted, pend, cancelled, identity, outside>>

\* Mutant: the recovery loop continues after its final collection.
CollectEndContinues ==
    /\ job.pc = "gc" /\ Garbage = {}
    /\ job' = IF job.by = "recover" /\ Settled(job.prev) THEN Recovering
              ELSE [job EXCEPT !.pc = "home", !.tail = TRUE]
    /\ UNCHANGED <<txn, disk, active, environment, gate, admitted, pend, cancelled, identity, outside>>

\* After a commit the environment is reconciled once more; a recovery that
\* settled collects last and ends.
CollectEnd ==
    /\ job.pc = "gc" /\ Garbage = {}
    /\ job' = IF job.by = "recover" /\ Settled(job.prev) THEN Idle
              ELSE [job EXCEPT !.pc = "home", !.tail = TRUE]
    /\ UNCHANGED <<txn, disk, active, environment, gate, admitted, pend, cancelled, identity, outside>>

-----------------------------------------------------------------------------
(* Recovery: RecoverWith and Execute.                                      *)

\* The outcomes of one turn of the loop that change no record and no tree.
RecoverSettle(d) ==
    /\ gate' = d.gate
    /\ job' = [job EXCEPT !.pc = "gc", !.prev = d]
    /\ UNCHANGED <<txn, disk>>

RecoverBlock ==
    /\ gate' = "BLOCKED_UNSAFE" /\ Release
    /\ UNCHANGED <<txn, disk>>

\* Actions that change a directory first and the record in a second step.
RecoverTree(d, t) ==
    /\ \/ /\ d.action = "MOVE_STAGING_TO_FAILED"
          /\ disk' = [disk EXCEPT !["failed"][t] = disk["staging"][t],
                                  !["staging"][t] = "absent"]
       \/ d.action = "REMOVE_EMPTY_GENERATION" /\ SetTree("generations", t, "absent")
       \/ d.action \in {"REMOVE_EMPTY_STAGING", "GC_STAGING"} /\ SetTree("staging", t, "absent")
    /\ job' = [job EXCEPT !.pc = "persist", !.t = t, !.prev = d]
    /\ UNCHANGED <<txn, gate>>

\* Mutant: Execute saves nothing for ActionNone.
SavedRecordsNoneIsNoop(d, t) ==
    IF d.action = "FAIL_FAILABLE_EXTRAS" THEN FailFailable
    ELSE IF d.action = "PERSIST_ACTIVATING"
         THEN [txn EXCEPT ![t].state = "ACTIVATING", ![t].before = active]
    ELSE IF d.next = "" \/ d.action = "NONE" THEN txn ELSE [txn EXCEPT ![t].state = d.next]

\* The records after Execute's first write.
SavedRecords(d, t) ==
    IF d.action = "FAIL_FAILABLE_EXTRAS" THEN FailFailable
    ELSE IF d.action = "PERSIST_ACTIVATING"
         THEN [txn EXCEPT ![t].state = "ACTIVATING", ![t].before = active]
    ELSE IF d.next = "" THEN txn ELSE [txn EXCEPT ![t].state = d.next]

\* Actions that write the record; RECONCILE_ENV and ACTIVATE go on.
RecoverRecord(d, t) ==
    /\ txn' = SavedRecords(d, t)
    /\ job' = IF d.action = "RECONCILE_ENV" THEN [job EXCEPT !.pc = "home", !.t = t, !.prev = d]
              ELSE IF d.action = "ACTIVATE" THEN [job EXCEPT !.pc = "point", !.t = t, !.prev = d]
              ELSE [job EXCEPT !.step = job.step + 1, !.prev = d]
    /\ UNCHANGED <<disk, gate>>

TreeActions == {"REMOVE_EMPTY_STAGING", "REMOVE_EMPTY_GENERATION",
                "MOVE_STAGING_TO_FAILED", "GC_STAGING"}

RecoverStep ==
    /\ job.pc = "observe"
    /\ LET d == DecideRecovery(Observation)
           occupied == d.action = "MOVE_STAGING_TO_FAILED" /\ disk["failed"][Primary] # "absent"
       IN  \/ /\ job.step < MaxRecoverSteps /\ Settled(d)
              /\ RecoverSettle(d)
           \/ /\ \/ job.step = MaxRecoverSteps
                 \/ d.action = "BLOCK_UNSAFE"
                 \/ ~Settled(d) /\ job.step > 0 /\ ~ForwardOrNoop(job.prev, d)
                 \/ occupied
              /\ RecoverBlock
           \/ /\ job.step < MaxRecoverSteps /\ d.action # "BLOCK_UNSAFE" /\ ~Settled(d)
              /\ job.step = 0 \/ ForwardOrNoop(job.prev, d)
              /\ ~occupied
              /\ \/ d.action \in TreeActions /\ RecoverTree(d, Primary)
                 \/ d.action \notin TreeActions /\ RecoverRecord(d, Primary)
    /\ UNCHANGED <<active, environment, admitted, pend, cancelled, identity, outside>>

\* persistPrimaryState after a directory action.
RecoverPersist ==
    /\ job.pc = "persist"
    /\ IF job.prev.next = "" THEN UNCHANGED txn ELSE SaveState(job.t, job.prev.next)
    /\ NextStep
    /\ UNCHANGED <<disk, active, environment, gate, admitted, pend, cancelled, identity, outside>>

-----------------------------------------------------------------------------
(* What the code must survive.                                             *)

\* A read or a write of the lock holder fails.
IOFault ==
    /\ job.by # "none" /\ left.fault > 0
    /\ left' = [left EXCEPT !.fault = @ - 1]
    /\ \/ /\ job.pc \in {"mkdir", "build", "seal"}       \* SealNew: m.fail
          /\ Goto("fail") /\ UNCHANGED <<disk, gate>>
       \/ /\ job.pc \in {"candidate", "record"}          \* the directory is removed again
          /\ SetTree("generations", job.t, "absent") /\ Goto("fail") /\ UNCHANGED gate
       \/ /\ job.pc = "gc"                               \* Collect's error is dropped
          /\ job' = IF job.by = "recover" /\ Settled(job.prev) THEN Idle
                    ELSE [job EXCEPT !.pc = "home", !.tail = TRUE]
          /\ UNCHANGED gate
          /\ UNCHANGED disk \/ InterruptCollect
       \/ /\ job.pc \in EnvPcs /\ job.tail
          /\ EndTail /\ UNCHANGED <<disk, gate>>
       \/ /\ \/ job.pc \in EnvPcs /\ ~job.tail
             \/ job.pc \in {"create", "load", "sealed", "publish", "activating", "point",
                            "fail", "observe", "persist"}
          /\ ReturnError /\ UNCHANGED disk
    /\ UNCHANGED <<txn, active, environment, admitted, pend, cancelled, identity, damaged>>

\* The daemon dies and starts again: the lock and every goroutine are gone,
\* recovery runs before requests are served.  A deletion may be half done.
Crash ==
    /\ left.crash > 0
    /\ left' = [left EXCEPT !.crash = @ - 1]
    /\ gate' = "RECONCILING"
    /\ job' = Recovering
    /\ admitted' = 0
    /\ pend' = [t \in Ids |-> "none"]
    /\ cancelled' = {} /\ identity' = 0
    /\ \/ UNCHANGED disk
       \/ job.pc = "gc" /\ InterruptCollect
    /\ UNCHANGED <<txn, active, environment, damaged>>

\* Someone edits the registry: HERMES_HOME is dropped, or the user's entries
\* move to the front of PATH and managed entries may be removed.
Drift ==
    /\ left.drift > 0
    /\ left' = [left EXCEPT !.drift = @ - 1]
    /\ \/ home' = FALSE /\ UNCHANGED path
       \/ /\ \E rest \in {{}, ({path.first} \cup path.rest) \ {0}} :
                path' = [first |-> 0, rest |-> rest]
          /\ UNCHANGED home
    /\ UNCHANGED <<txn, disk, active, gate, job, admitted, pend, cancelled, identity, damaged>>

\* Files of the active, committed generation are lost.
Damage ==
    /\ Cardinality(damaged) < MaxDamage
    /\ active \notin {0} \cup damaged /\ txn[active].state = "COMMITTED"
    /\ damaged' = damaged \cup {active}
    /\ \E tree \in {"remnant", "unproven"} : SetTree("generations", active, tree)
    /\ UNCHANGED <<txn, active, environment, gate, job, admitted, pend, cancelled, identity, left>>

-----------------------------------------------------------------------------
FreshWorld ==
    /\ txn = [t \in Ids |-> NoTxn]
    /\ disk = [p \in Places |-> [t \in Ids |-> "absent"]]
    /\ active = 0
    /\ home = FALSE
    /\ path = [first |-> 0, rest |-> {}]

\* What recovery may find: records and trees that earlier versions (which
\* built in staging/), lost writes and outside changes leave behind.  Only the
\* newest record is in flight or has a staging tree, but an older one may
\* still be CREATED, unreadable or missing.
FoundWorld ==
    /\ txn \in [Ids -> TxnRecords]
    /\ \A t \in Ids : /\ t < N => txn[t].state \notin {"BUILDING", "SEALED", "PUBLISHED", "ACTIVATING"}
                      /\ txn[t].seal => txn[t].state \notin {"NONE", "INVALID", "CREATED", "BUILDING"}
                      /\ ~txn[t].seal => txn[t].state \notin {"SEALED", "PUBLISHED", "ACTIVATING", "COMMITTED"}
                      /\ txn[t].before < t
                      /\ txn[t].before # 0 => txn[t].state \in {"PUBLISHED", "ACTIVATING"}
    /\ \E gens \in [Ids -> Trees], stage \in Trees \ {"remnant", "foreign"} :
          disk = [p \in Places |->
                    [t \in Ids |-> IF p = "generations" THEN gens[t]
                                   ELSE IF p = "staging" /\ t = N THEN stage
                                   ELSE "absent"]]
    /\ active \in 0..N
    /\ home \in BOOLEAN
    /\ path \in {[first |-> 0, rest |-> {}], [first |-> active, rest |-> {0} \ {active}]}

Init ==
    /\ IF World = "fresh" THEN FreshWorld ELSE FoundWorld
    /\ gate = "RECONCILING"
    /\ job = Recovering
    /\ admitted = 0
    /\ pend = [t \in Ids |-> "none"]
    /\ cancelled = {} /\ identity = 0
    /\ damaged = {}
    /\ left = [crash |-> MaxCrashes, fault |-> MaxFaults, drift |-> MaxDrifts]

Request == \/ RejectInvalidPointer
           \/ AdmitStart \/ RefuseStart \/ StartLock
           \/ \E t \in Ids : CancelContext(t)

Handler == \/ StartCreate
           \/ \E t \in Ids : StartSpawn(t) \/ MarkTransactionFailed(t)

Worker == \/ \E t \in Ids : SetInstallIdentity(t) \/ WorkerLock(t) \/ WorkerQuit(t)
          \/ SealLoad \/ CreateGeneration \/ CandidateTemp \/ CandidateRecord
          \/ Build \/ Seal \/ PersistSealed \/ Publish \/ MarkActivating
          \/ WriteActive \/ Fail

Reconcile == ReconcileHome \/ ReconcilePath \/ ReconcileReadback

Collect == CollectEnd \/ \E p \in Places, t \in Ids : CollectTree(p, t)

Recovery == RecoverStep \/ RecoverPersist

Trouble == IOFault \/ Crash \/ Drift \/ Damage

Daemon == Handler \/ Worker \/ Reconcile \/ Collect \/ Recovery

Next == Request \/ Daemon \/ Trouble

Spec == Init /\ [][Next]_vars

\* Goroutines that can run are scheduled; requests, faults and crashes need
\* not happen.
FairSpec == Spec /\ WF_vars(Daemon)
-----------------------------------------------------------------------------
(* Properties.                                                             *)

NoFaultYet == left.fault = MaxFaults

\* Whatever crashes, fails or is cancelled, active.json never names a generation
\* whose transaction is not being or done being activated, nor one whose tree is
\* incomplete through the daemon's own doing: the pointer is written last and
\* collection spares the active tree.
ActiveIsUsable ==
    active # 0 => /\ txn[active].state \in {"ACTIVATING", "COMMITTED"}
                  /\ active \notin damaged => Generation(active) = "sealed"

\* Requests, workers, cancellations and restarts never leave two transactions in
\* flight (persistCreatedTransaction checks under the lock, the worker loads the
\* record under a later hold of it).
AtMostOneNonterminal ==
    \A t, u \in Ids : txn[t].state \in NonterminalStates /\ txn[u].state \in NonterminalStates => t = u

\* No PATH entry ever names a generation directory that collection removed:
\* ReconcileEnvironment drops stale entries before Collect runs.
PathNamesExisting ==
    \A t \in ({path.first} \cup path.rest) \ {0} : Generation(t) # "absent"

\* The generation an active, committed one replaced stays on disk (the rollback
\* copy of retentionSet), also after later installations failed or were
\* interrupted and collected.  Only while active.json is valid: retentionSet of
\* an invalid pointer takes the active generation for the previous one.
PredecessorRetained ==
    ReadActive = "VALID" /\ txn[active].state = "COMMITTED" /\ txn[active].before # 0
        => Generation(txn[active].before) # "absent"

\* With working storage and a valid active.json there are two kinds of crash that recovery refuses to
\* resolve: one between the first file of a generation directory and its
\* candidate record (createFreshGenerationCandidate), and one after PUBLISHED
\* and before ACTIVATING while another generation is active (the predecessor is
\* recorded with ACTIVATING only, so decidePublished calls it unrelated).  Every
\* other crash rolls forward or fails the transaction, and the gate opens again,
\* unless the registry is edited more often than recovery has turns for (once more
\* than StepsWithinLimit allows).
BlockedOnlyInWindow ==
    NoFaultYet /\ gate = "BLOCKED_UNSAFE" /\ ReadActive # "INVALID"
        => \E t \in Ids : \/ txn[t].state = "BUILDING" /\ Generation(t) = "unproven"
                          \/ txn[t].state = "PUBLISHED" /\ txn[t].before = 0 /\ active # 0

\* What the recovery matrix of the architecture document says of a PUBLISHED
\* transaction whose generation is valid while the predecessor is active: it is
\* activated forward, so it does not block the daemon.
PublishedRollsForward ==
    NoFaultYet /\ gate = "BLOCKED_UNSAFE"
        => ~ \E t \in Ids : /\ txn[t].state = "PUBLISHED" /\ Generation(t) = "sealed"
                            /\ ReadActive = "VALID" /\ txn[active].state = "COMMITTED"

\* Recovery needs fewer turns than the limit of RecoverWith's loop, whatever it
\* finds on the disk: the limit blocks no installation, unless the registry is
\* edited three times while recovery runs.
StepsWithinLimit == job.step < MaxRecoverSteps

\* Terminal records are final, and a transaction that active.json names never
\* becomes FAILED.
RecordsAreFinal ==
    [][\A t \in Ids : /\ txn[t].state \in TerminalStates => txn'[t].state = txn[t].state
                      /\ active = t => txn'[t].state # "FAILED"]_vars

\* A tree that disappears carried the lineage of its own transaction, or held
\* nothing yet; the active generation and the trees of a transaction past its
\* build never disappear.
DeletesOnlyProven ==
    [][\A p \in Places, t \in Ids :
          disk[p][t] # "absent" /\ disk'[p][t] = "absent" /\ disk'["failed"][t] = disk["failed"][t]
            => \/ disk[p][t] = "empty"
               \/ job.by = "worker" /\ job.t = t /\ txn[t].state = "BUILDING"
               \/ /\ disk[p][t] \in {"candidate", "sealed", "remnant"}
                  /\ <<p, t>> # <<"generations", active>>
                  /\ txn[t].state \in TerminalStates \/ p = "staging"]_vars

\* When recovery opens the gate nothing is in flight, and the generation that
\* active.json names is committed and, unless somebody changed the registry,
\* reachable through the environment.
ReadyMeansResolved ==
    [][job.by = "recover" /\ job'.by = "none" /\ gate' = "READY"
        => /\ \A t \in Ids : txn'[t].state \notin NonterminalStates
           /\ active' # 0 => txn'[active].state \in {"COMMITTED", "NONE"}
           /\ active' # 0 /\ txn'[active].state = "COMMITTED" /\ left.drift = MaxDrifts
                => EnvironmentComplete']_vars

\* Where nothing fails and nobody else touches the disk or the registry, a
\* restart decides: the gate does not stay RECONCILING.
GateDecides ==
    gate = "RECONCILING" ~> \/ gate # "RECONCILING"
                            \/ ~NoFaultYet \/ damaged # {} \/ left.drift # MaxDrifts

\* The detailed specification implements ActivePointer: a generation becomes
\* current in one step, only after the previous one was committed, and never
\* comes back.
Pointer == INSTANCE ActivePointer WITH
    Generations <- Ids,
    current <- active,
    settled <- active = 0 \/ txn[active].state = "COMMITTED",
    used <- {t \in Ids : t = active \/ txn[t].state = "COMMITTED"}

ImplementsActivePointer == Pointer!APSpec

\* Every holder of install.lock lets go of it: installs end, recovery ends.
LockReleased == job.by # "none" ~> job.by = "none"
=============================================================================
