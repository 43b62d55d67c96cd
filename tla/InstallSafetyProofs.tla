------------------------- MODULE InstallSafetyProofs -------------------------
(***************************************************************************)
(* Type correctness of the install transaction, for any disk recovery may  *)
(* find, and its safety on a disk that this version of the daemon began    *)
(* (World = "fresh"), for any number of transactions, requests, crashes,   *)
(* faults and outside changes.                                             *)
(*                                                                         *)
(* The argument: the lock holder knows the state of the record it works on *)
(* (RecordOK), because the two writers without the lock touch only records *)
(* no holder works on (PendingOK) and recovery decides from what it has    *)
(* just observed (DecisionSound).  Hence every step of the daemon is one   *)
(* of a few changes of the records and of active.json (RecordStep), and    *)
(* the properties follow from RecordStep.                                  *)
(*                                                                         *)
(* What collection may remove needs more: the records have their order and *)
(* their predecessors, and the PATH its entries (LineageInv), whoever      *)
(* crashed or failed in between.                                           *)
(*                                                                         *)
(* What recovery resolves and what may be deleted hold of any disk, and    *)
(* follow from what was observed last (AnyInv).  How many turns recovery   *)
(* takes needs a measure of what is left to do (NeedsAtMost).              *)
(***************************************************************************)
EXTENDS InstallTransaction, Integers, TLAPS

\* The step counter of RecoverWith's loop stays below the limit while a step
\* is being executed; only the observation at the loop's head meets the limit.
StepOK == job.pc # "observe" => job.step < MaxRecoverSteps

USE DEF Ids, Places, MaxRecoverSteps

\* Every branch of the recovery matrix returns a decision.
LEMMA DecideUnsealedType == \A obs : DecideUnsealed(obs) \in Decisions
BY DEF DecideUnsealed, Decisions, FailTxn, Blocked, Decision, Gates, Actions, ValidStates,
       NonterminalStates, TerminalStates

\* So does the one for a SEALED transaction.
LEMMA DecideSealedType == \A obs : DecideSealed(obs) \in Decisions
BY DEF DecideSealed, Decisions, FailTxn, Blocked, Reconciling, Decision, Gates, Actions,
       ValidStates, NonterminalStates, TerminalStates

\* A leftover staging tree is removed, collected or left.
LEMMA LeftoverStagingType ==
    \A obs : LeftoverStaging(obs) \in {"", "REMOVE_EMPTY_STAGING", "GC_STAGING"}
BY DEF LeftoverStaging

\* So does the one for a PUBLISHED transaction.
LEMMA DecidePublishedType == \A obs, t : DecidePublished(obs, t) \in Decisions
BY LeftoverStagingType
   DEF DecidePublished, Decisions, Blocked, Reconciling, Decision, Gates, Actions,
       ValidStates, NonterminalStates, TerminalStates

\* So does the one for an ACTIVATING transaction.
LEMMA DecideActivatingType == \A obs, t : DecideActivating(obs, t) \in Decisions
BY DEF DecideActivating, Decisions, Blocked, Reconciling, Decision, Gates, Actions,
       ValidStates, NonterminalStates, TerminalStates

\* So does the one with nothing in flight.
LEMMA DecideTerminalWorldType == \A obs : DecideTerminalWorld(obs) \in Decisions
BY LeftoverStagingType
   DEF DecideTerminalWorld, Decisions, Nothing, Reconciling, Decision, Gates, Actions,
       ValidStates, NonterminalStates, TerminalStates

\* DecideRecovery returns a decision whatever it observes.
LEMMA DecideRecoveryType == \A obs : DecideRecovery(obs) \in Decisions
<1> SUFFICES ASSUME NEW obs PROVE DecideRecovery(obs) \in Decisions
    OBVIOUS
<1> DEFINE open == NonterminalTxns(obs.txns)
<1>1. ASSUME NEW t \in open PROVE DecideOne(obs, t) \in Decisions
    <2>1. obs.txns[t].state \in NonterminalStates
        BY <1>1 DEF NonterminalTxns
    <2> QED
        BY <2>1, DecideUnsealedType, DecideSealedType, DecidePublishedType, DecideActivatingType
        DEF DecideOne, NonterminalStates, FailableStates
<1>2. Blocked \in Decisions /\ Reconciling("FAIL_FAILABLE_EXTRAS", "") \in Decisions
    BY DEF Blocked, Reconciling, Decision, Decisions, Gates, Actions
<1>3. (\E t \in open : open = {t}) => (CHOOSE t \in open : TRUE) \in open
    OBVIOUS
<1> QED
    BY <1>1, <1>2, <1>3, DecideTerminalWorldType DEF DecideRecovery


\* The writes the actions share keep the types.
LEMMA SaveStateType ==
    ASSUME txn \in [Ids -> TxnRecords], NEW t, NEW s \in TxnStates, SaveState(t, s)
    PROVE  txn' \in [Ids -> TxnRecords]
BY DEF SaveState, TxnRecords

\* Saving ACTIVATING with the predecessor keeps the type of the records.
LEMMA SaveActivatingType ==
    ASSUME txn \in [Ids -> TxnRecords], active \in 0..N, NEW t,
           txn' = [txn EXCEPT ![t].state = "ACTIVATING", ![t].before = active]
    PROVE  txn' \in [Ids -> TxnRecords]
BY DEF TxnRecords, TxnStates, ValidStates, NonterminalStates

\* Saving SEALED keeps the type of the records.
LEMMA SealedRecordType ==
    ASSUME NEW r \in TxnRecords
    PROVE  [state |-> "SEALED", seal |-> TRUE, before |-> r.before] \in TxnRecords
<1>1. "SEALED" \in TxnStates /\ TRUE \in BOOLEAN
    BY DEF TxnStates, ValidStates, NonterminalStates
<1> QED
    BY <1>1 DEF TxnRecords

\* Changing one tree keeps the type of the disk.
LEMMA SetTreeType ==
    ASSUME disk \in [Places -> [Ids -> Trees]], NEW p, NEW t, NEW tree \in Trees, SetTree(p, t, tree)
    PROVE  disk' \in [Places -> [Ids -> Trees]]
BY DEF SetTree

\* Failing the failable records keeps the type of the records.
LEMMA FailFailableType ==
    txn \in [Ids -> TxnRecords] => FailFailable \in [Ids -> TxnRecords]
BY DEF FailFailable, TxnRecords, TxnStates, ValidStates, TerminalStates

\* The absent record is typed.
LEMMA NoTxnType == NoTxn \in TxnRecords
BY BoundsAssumption DEF NoTxn, TxnRecords, TxnStates

\* The free lock, and the one recovery takes, are typed.
LEMMA IdleType ==
    /\ Idle \in Jobs /\ Idle.by = "none" /\ Idle.pc = "idle" /\ Idle.step = 0
    /\ Recovering \in Jobs /\ Recovering.by = "recover" /\ Recovering.pc = "observe"
    /\ Recovering.step = 0
<1>1. Nothing \in Decisions
    BY DEF Nothing, Decision, Decisions, Gates, Actions
<1>2. KeepPath \in Paths
    BY BoundsAssumption DEF KeepPath, Paths
<1>3. Idle \in Jobs /\ Idle.by = "none" /\ Idle.pc = "idle" /\ Idle.step = 0
    BY <1>1, <1>2, BoundsAssumption DEF Idle, Jobs, Pcs
<1>4. Recovering \in Jobs
    BY <1>3 DEF Recovering, Jobs, Pcs
<1>5. Recovering.by = "recover" /\ Recovering.pc = "observe" /\ Recovering.step = 0
    BY <1>3 DEF Recovering, Jobs, Idle
<1> QED
    BY <1>3, <1>4, <1>5

\* A move of the lock holder keeps the type of the lock.
LEMMA GotoType ==
    ASSUME job \in Jobs, NEW pc \in Pcs, Goto(pc)
    PROVE  job' \in Jobs /\ job'.step = job.step /\ job'.pc = pc
BY DEF Goto, Jobs

\* So does the next turn of recovery.
LEMMA NextStepType ==
    ASSUME job \in Jobs, job.step < MaxRecoverSteps, NextStep
    PROVE  /\ job' \in Jobs /\ job'.by = "recover" /\ job'.pc = "observe"
           /\ job'.t = 0 /\ job'.prev = job.prev
<1> DEFINE step == job.step + 1
           prev == job.prev
<1>1. step \in 0..MaxRecoverSteps
    BY DEF Jobs
<1>2. prev \in Decisions
    BY DEF Jobs
<1> HIDE DEF step, prev
<1>3. job' = [Recovering EXCEPT !.step = step, !.prev = prev]
    BY DEF NextStep, step, prev
<1>4. [Recovering EXCEPT !.step = step, !.prev = prev] \in Jobs
    BY <1>1, <1>2, IdleType DEF Jobs
<1>5. /\ [Recovering EXCEPT !.step = step, !.prev = prev].by = "recover"
      /\ [Recovering EXCEPT !.step = step, !.prev = prev].pc = "observe"
      /\ [Recovering EXCEPT !.step = step, !.prev = prev].t = 0
      /\ [Recovering EXCEPT !.step = step, !.prev = prev].prev = prev
    BY DEF Recovering, Idle
<1> QED
    BY <1>3, <1>4, <1>5 DEF prev

\* An error gives the lock up and keeps the type of the gate.
LEMMA ReturnErrorType ==
    ASSUME gate \in Gates, ReturnError
    PROVE  gate' \in Gates /\ job' = Idle
BY DEF ReturnError, Release, Gates

\* A planned PATH is typed.
LEMMA PathPlanType ==
    ASSUME TypeOK, NEW b
    PROVE  PathPlan(b) \in Paths
BY BoundsAssumption DEF PathPlan, Paths, TypeOK

\* The jobs the actions construct.
LEMMA LockedJobType ==
    /\ [Idle EXCEPT !.by = "start", !.pc = "create"] \in Jobs
    /\ [Idle EXCEPT !.by = "start", !.pc = "create"].step = 0
    /\ \A t \in Ids : /\ [Idle EXCEPT !.by = "worker", !.pc = "load", !.w = t] \in Jobs
                      /\ [Idle EXCEPT !.by = "worker", !.pc = "load", !.w = t].step = 0
<1>1. [Idle EXCEPT !.by = "start", !.pc = "create"] \in Jobs
    BY IdleType DEF Jobs, Pcs
<1>2. ASSUME NEW t \in Ids
      PROVE  [Idle EXCEPT !.by = "worker", !.pc = "load", !.w = t] \in Jobs
    <2>1. t \in 0..N
        BY BoundsAssumption
    <2> QED
        BY <2>1, IdleType DEF Jobs, Pcs
<1> QED
    BY <1>1, <1>2 DEF Idle

\* The best-effort pass keeps the type of the lock.
LEMMA TailJobType ==
    ASSUME job \in Jobs, job' = [job EXCEPT !.pc = "home", !.tail = TRUE]
    PROVE  job' \in Jobs /\ job'.step = job.step /\ job'.pc = "home"
BY DEF Jobs, Pcs

\* Planning the environment keeps the type of the lock.
LEMMA PlanJobType ==
    ASSUME job \in Jobs, NEW p \in Paths, job' = [job EXCEPT !.pc = "path", !.plan = p]
    PROVE  job' \in Jobs /\ job'.step = job.step /\ job'.pc = "path"
BY DEF Jobs, Pcs

\* Going on after a decision keeps the type of the lock.
LEMMA DecidedJobType ==
    ASSUME job \in Jobs, NEW d \in Decisions, NEW pc \in Pcs, NEW t \in 0..N,
           job' = [job EXCEPT !.pc = pc, !.t = t, !.prev = d]
    PROVE  job' \in Jobs /\ job'.step = job.step /\ job'.pc = pc
BY DEF Jobs

\* Counting a turn of recovery keeps the type of the lock.
LEMMA SteppedJobType ==
    ASSUME job \in Jobs, NEW d \in Decisions, job.step < MaxRecoverSteps,
           job' = [job EXCEPT !.step = job.step + 1, !.prev = d]
    PROVE  job' \in Jobs /\ job'.pc = job.pc
<1> DEFINE step == job.step + 1
<1>1. step \in 0..MaxRecoverSteps
    BY DEF Jobs
<1>2. job' = [job EXCEPT !.step = step, !.prev = d]
    OBVIOUS
<1> HIDE DEF step
<1> QED
    BY <1>1, <1>2 DEF Jobs

\* Settling keeps the type of the lock.
LEMMA SettledJobType ==
    ASSUME job \in Jobs, NEW d \in Decisions, job' = [job EXCEPT !.pc = "gc", !.prev = d]
    PROVE  job' \in Jobs /\ job'.step = job.step /\ job'.pc = "gc"
BY DEF Jobs, Pcs

\* An empty disk and every disk recovery may find are well typed.
LEMMA InitType == Init => TypeOK /\ StepOK
<1> SUFFICES ASSUME Init PROVE TypeOK /\ StepOK
    OBVIOUS
<1>1. /\ txn \in [Ids -> TxnRecords]
      /\ active \in 0..N /\ home \in BOOLEAN /\ path \in Paths
    <2>2. CASE World = "fresh"
        <3>1. txn = [t \in Ids |-> NoTxn] /\ active = 0 /\ path = [first |-> 0, rest |-> {}]
            BY <2>2 DEF Init, FreshWorld
        <3>2. home \in BOOLEAN
            BY <2>2 DEF Init, FreshWorld
        <3> QED
            BY NoTxnType, <3>1, <3>2, BoundsAssumption DEF Paths
    <2>3. CASE World # "fresh"
        <3>1. FoundWorld
            BY <2>3 DEF Init
        <3> QED
            BY <3>1, BoundsAssumption DEF FoundWorld, Paths
    <2> QED
        BY <2>2, <2>3
<1>2. disk \in [Places -> [Ids -> Trees]]
    <2>1. CASE World = "fresh"
        BY <2>1 DEF Init, FreshWorld, Trees
    <2>2. CASE World # "fresh"
        <3>1. PICK gens \in [Ids -> Trees], stage \in Trees \ {"remnant", "foreign"} :
                  disk = [p \in Places |-> [t \in Ids |-> IF p = "generations" THEN gens[t]
                                                          ELSE IF p = "staging" /\ t = N THEN stage
                                                          ELSE "absent"]]
            BY <2>2 DEF Init, FoundWorld
        <3> QED
            BY <3>1 DEF Trees
    <2> QED
        BY <2>1, <2>2
<1>3. gate \in Gates /\ job \in Jobs /\ job.pc = "observe"
    BY IdleType DEF Init, Gates
<1>4. /\ admitted \in 0..MaxRequests
      /\ pend \in [Ids -> {"none", "created", "spawned", "begun"}]
      /\ identity \in 0..N /\ cancelled \subseteq Ids /\ damaged \subseteq Ids
      /\ left \in [crash : Nat, fault : Nat, drift : Nat]
    BY BoundsAssumption DEF Init
<1> QED
    BY <1>1, <1>2, <1>3, <1>4 DEF TypeOK, StepOK

\* The operators the larger actions are built from.
LEMMA InterruptCollectType ==
    ASSUME disk \in [Places -> [Ids -> Trees]], InterruptCollect
    PROVE  disk' \in [Places -> [Ids -> Trees]]
<1>1. PICK pt, tree : tree \in HalfDeleted(disk[pt[1]][pt[2]]) /\ SetTree(pt[1], pt[2], tree)
    BY DEF InterruptCollect
<1>2. tree \in Trees
    BY <1>1 DEF HalfDeleted, Trees
<1> QED
    BY <1>1, <1>2, SetTreeType

\* The primary transaction is an identifier, or none.
LEMMA PrimaryType == TypeOK => Primary \in 0..N
<1> SUFFICES ASSUME TypeOK PROVE Primary \in 0..N
    OBVIOUS
<1> DEFINE open == NonterminalTxns(txn)
<1>1. open \subseteq Ids
    BY DEF NonterminalTxns, TypeOK
<1>2. (\E t \in open : open = {t}) => (CHOOSE t \in open : TRUE) \in open
    OBVIOUS
<1>3. active \in 0..N /\ Ids \subseteq 0..N /\ 0 \in 0..N
    BY BoundsAssumption DEF TypeOK
<1> HIDE DEF open
<1> QED
    BY <1>1, <1>2, <1>3 DEF Primary, PrimaryTxn, open

\* Execute's writes keep the type of the records.
LEMMA SavedRecordsType ==
    ASSUME txn \in [Ids -> TxnRecords], active \in 0..N, NEW d \in Decisions, NEW t \in 0..N
    PROVE  SavedRecords(d, t) \in [Ids -> TxnRecords]
<1>1. FailFailable \in [Ids -> TxnRecords]
    BY FailFailableType
<1>2. [txn EXCEPT ![t].state = "ACTIVATING", ![t].before = active] \in [Ids -> TxnRecords]
    BY DEF TxnRecords, TxnStates, ValidStates, NonterminalStates
<1>3. d.next # "" => d.next \in TxnStates
    BY DEF Decisions, TxnStates
<1>4. d.next # "" => [txn EXCEPT ![t].state = d.next] \in [Ids -> TxnRecords]
    BY <1>3 DEF TxnRecords
<1> QED
    BY <1>1, <1>2, <1>4 DEF SavedRecords

\* Every step keeps the types.
LEMMA NextType == TypeOK /\ StepOK /\ [Next]_vars => TypeOK' /\ StepOK'
<1> SUFFICES ASSUME TypeOK, StepOK, [Next]_vars PROVE TypeOK' /\ StepOK'
    OBVIOUS
<1>1. ASSUME RejectInvalidPointer PROVE TypeOK' /\ StepOK'
    BY <1>1 DEF TypeOK, StepOK, environment, outside, RejectInvalidPointer, Gates
<1>2. ASSUME AdmitStart PROVE TypeOK' /\ StepOK'
    BY <1>2, BoundsAssumption DEF TypeOK, StepOK, environment, outside, AdmitStart
<1>3. ASSUME RefuseStart PROVE TypeOK' /\ StepOK'
    BY <1>3, BoundsAssumption DEF TypeOK, StepOK, environment, outside, RefuseStart
<1>4. ASSUME StartLock PROVE TypeOK' /\ StepOK'
    <2>1. job' \in Jobs /\ job'.step = 0
        BY <1>4, LockedJobType DEF StartLock
    <2>2. admitted' \in 0..MaxRequests
        BY SMTT(30), <1>4, BoundsAssumption DEF StartLock, TypeOK
    <2> QED
        BY <1>4, <2>1, <2>2, FailFailableType
        DEF TypeOK, StepOK, environment, outside, StartLock
<1>5. ASSUME StartCreate PROVE TypeOK' /\ StepOK'
    <2>1. job' \in Jobs /\ job'.step = 0
        BY <1>5, IdleType DEF StartCreate, Release
    <2>2. txn' \in [Ids -> TxnRecords]
        <3>1. [NoTxn EXCEPT !.state = "CREATED"] \in TxnRecords
            BY NoTxnType DEF TxnRecords, TxnStates, ValidStates, NonterminalStates
        <3> QED
            BY <1>5, <3>1 DEF StartCreate, TypeOK
    <2>3. pend' \in [Ids -> {"none", "created", "spawned", "begun"}]
        BY <1>5 DEF StartCreate, TypeOK
    <2> QED
        BY <1>5, <2>1, <2>2, <2>3 DEF TypeOK, StepOK, environment, outside, StartCreate
<1>6. ASSUME NEW t \in Ids, StartSpawn(t) PROVE TypeOK' /\ StepOK'
    BY <1>6 DEF TypeOK, StepOK, environment, outside, StartSpawn
<1>7. ASSUME NEW t \in Ids, MarkTransactionFailed(t) PROVE TypeOK' /\ StepOK'
    BY <1>7, SaveStateType
    DEF TypeOK, StepOK, environment, outside, MarkTransactionFailed, TxnStates, ValidStates,
        TerminalStates
<1>8. ASSUME NEW t \in Ids, CancelContext(t) PROVE TypeOK' /\ StepOK'
    BY <1>8 DEF TypeOK, StepOK, environment, outside, CancelContext
<1>9. ASSUME NEW t \in Ids, WorkerLock(t) PROVE TypeOK' /\ StepOK'
    <2>1. job' \in Jobs /\ (job'.pc # "observe" => job'.step < MaxRecoverSteps)
        <3>1. CASE job.by = "none"
            <4>1. job' = [Idle EXCEPT !.by = "worker", !.pc = "load", !.w = t]
                BY <1>9, <3>1 DEF WorkerLock
            <4>2. /\ [Idle EXCEPT !.by = "worker", !.pc = "load", !.w = t] \in Jobs
                  /\ [Idle EXCEPT !.by = "worker", !.pc = "load", !.w = t].step = 0
                BY LockedJobType
            <4>3. job' \in Jobs /\ job'.step = 0
                BY <4>1, <4>2
            <4> QED
                BY <4>3
        <3>2. CASE job.by # "none"
            BY <1>9, <3>2 DEF WorkerLock, TypeOK, StepOK
        <3> QED
            BY <3>1, <3>2
    <2>2. pend' \in [Ids -> {"none", "created", "spawned", "begun"}]
        BY <1>9 DEF WorkerLock, TypeOK
    <2> QED
        BY <1>9, <2>1, <2>2 DEF TypeOK, StepOK, environment, outside, WorkerLock
<1>10. ASSUME NEW t \in Ids, WorkerQuit(t) \/ SetInstallIdentity(t) PROVE TypeOK' /\ StepOK'
    <2>1. t \in 0..N
        BY BoundsAssumption
    <2>2. pend' \in [Ids -> {"none", "created", "spawned", "begun"}] /\ identity' \in 0..N
        BY <1>10, <2>1 DEF TypeOK, WorkerQuit, SetInstallIdentity
    <2> QED
        BY <1>10, <2>2 DEF TypeOK, StepOK, environment, outside, WorkerQuit, SetInstallIdentity
<1>11. ASSUME SealLoad PROVE TypeOK' /\ StepOK'
    <2>1. job.step < MaxRecoverSteps
        BY <1>11 DEF SealLoad, StepOK
    <2>2. CASE job' = Idle /\ txn' = txn
        BY <1>11, <2>2, IdleType DEF TypeOK, StepOK, environment, outside, SealLoad
    <2>3. CASE SaveState(identity, "BUILDING") /\ job' = [job EXCEPT !.pc = "mkdir", !.t = identity]
        <3>1. job' \in Jobs /\ job'.step = job.step
            BY <2>3 DEF TypeOK, Jobs, Pcs
        <3>2. txn' \in [Ids -> TxnRecords]
            BY <2>3, SaveStateType DEF TypeOK, TxnStates, ValidStates, NonterminalStates
        <3> QED
            BY <1>11, <2>1, <3>1, <3>2 DEF TypeOK, StepOK, environment, outside, SealLoad
    <2> QED
        BY <1>11, <2>2, <2>3 DEF SealLoad, Release
<1>12. ASSUME CreateGeneration PROVE TypeOK' /\ StepOK'
    BY <1>12, SetTreeType, GotoType
    DEF TypeOK, StepOK, environment, outside, CreateGeneration, Pcs, Trees
<1>13. ASSUME CandidateTemp PROVE TypeOK' /\ StepOK'
    BY <1>13, SetTreeType, GotoType
    DEF TypeOK, StepOK, environment, outside, CandidateTemp, Pcs, Trees
<1>14. ASSUME CandidateRecord PROVE TypeOK' /\ StepOK'
    BY <1>14, SetTreeType, GotoType
    DEF TypeOK, StepOK, environment, outside, CandidateRecord, Pcs, Trees
<1>15. ASSUME Build PROVE TypeOK' /\ StepOK'
    BY <1>15, GotoType DEF TypeOK, StepOK, environment, outside, Build, Pcs
<1>16. ASSUME Seal PROVE TypeOK' /\ StepOK'
    BY <1>16, SetTreeType, GotoType DEF TypeOK, StepOK, environment, outside, Seal, Pcs, Trees
<1>17. ASSUME PersistSealed PROVE TypeOK' /\ StepOK'
    <2>1. txn' \in [Ids -> TxnRecords]
        <3>1. \A t \in Ids : [state |-> "SEALED", seal |-> TRUE, before |-> txn[t].before] \in TxnRecords
            BY SealedRecordType DEF TypeOK
        <3> QED
            BY <1>17, <3>1 DEF PersistSealed, TypeOK
    <2>2. job' \in Jobs /\ job'.step = job.step /\ job.pc = "sealed"
        BY <1>17, GotoType DEF PersistSealed, TypeOK, Pcs
    <2> QED
        BY <1>17, <2>1, <2>2 DEF TypeOK, StepOK, environment, outside, PersistSealed
<1>18. ASSUME Publish PROVE TypeOK' /\ StepOK'
    BY <1>18, SaveStateType, GotoType, IdleType
    DEF TypeOK, StepOK, environment, outside, Publish, Release, Pcs, TxnStates, ValidStates,
        NonterminalStates
<1>19. ASSUME MarkActivating PROVE TypeOK' /\ StepOK'
    BY <1>19, SaveActivatingType, GotoType, IdleType
    DEF TypeOK, StepOK, environment, outside, MarkActivating, Release, Pcs
<1>20. ASSUME WriteActive PROVE TypeOK' /\ StepOK'
    <2>1. job \in Jobs /\ job.step < MaxRecoverSteps /\ job.t \in 0..N
        BY <1>20 DEF WriteActive, TypeOK, StepOK, Jobs
    <2>2. job' \in Jobs /\ (job'.pc # "observe" => job'.step < MaxRecoverSteps) /\ gate' \in Gates
        BY <1>20, <2>1, GotoType, IdleType, NextStepType, ReturnErrorType DEF WriteActive, TypeOK, Pcs
    <2>3. active' \in 0..N
        BY <1>20, <2>1 DEF WriteActive, TypeOK
    <2> QED
        BY <1>20, <2>2, <2>3 DEF TypeOK, StepOK, environment, outside, WriteActive
<1>21. ASSUME Fail PROVE TypeOK' /\ StepOK'
    BY <1>21, SaveStateType, IdleType
    DEF TypeOK, StepOK, environment, outside, Fail, Release, TxnStates, ValidStates,
        NonterminalStates, TerminalStates
<1>22. ASSUME ReconcileHome PROVE TypeOK' /\ StepOK'
    <2>1. job.step < MaxRecoverSteps /\ job \in Jobs
        BY <1>22 DEF ReconcileHome, StepOK, TypeOK
    <2>2. job' \in Jobs /\ (job'.pc # "observe" => job'.step < MaxRecoverSteps) /\ gate' \in Gates
        <3>1. CASE EndTail /\ UNCHANGED gate
            BY <3>1, <2>1, NextStepType, IdleType DEF EndTail, Release, TypeOK
        <3>2. CASE ReturnError
            BY <3>2, ReturnErrorType, IdleType DEF TypeOK
        <3>3. CASE /\ UNCHANGED gate
                   /\ \E p \in Paths : job' = [job EXCEPT !.pc = "path", !.plan = p]
            BY <3>3, <2>1, PlanJobType DEF TypeOK
        <3>4. KeepPath \in Paths
            BY BoundsAssumption DEF KeepPath, Paths
        <3> QED
            BY <1>22, <3>1, <3>2, <3>3, <3>4, PathPlanType DEF ReconcileHome
    <2>3. home' \in BOOLEAN
        BY <1>22 DEF ReconcileHome, TypeOK
    <2> QED
        BY <1>22, <2>2, <2>3 DEF TypeOK, StepOK, environment, outside, ReconcileHome
<1>23. ASSUME ReconcilePath PROVE TypeOK' /\ StepOK'
    BY <1>23, GotoType DEF TypeOK, StepOK, environment, outside, ReconcilePath, Pcs, Jobs
<1>24. ASSUME ReconcileReadback PROVE TypeOK' /\ StepOK'
    <2>1. job.step < MaxRecoverSteps /\ job \in Jobs
        BY <1>24 DEF ReconcileReadback, StepOK, TypeOK
    <2>2. job' \in Jobs /\ (job'.pc # "observe" => job'.step < MaxRecoverSteps) /\ gate' \in Gates
        <3>1. CASE EndTail /\ UNCHANGED gate
            BY <3>1, <2>1, NextStepType, IdleType DEF EndTail, Release, TypeOK
        <3>2. CASE ReturnError
            BY <3>2, ReturnErrorType, IdleType DEF TypeOK
        <3>3. CASE Goto("gc") /\ UNCHANGED gate
            BY <3>3, <2>1, GotoType DEF Pcs, TypeOK
        <3>4. CASE job' = [job EXCEPT !.pc = "home", !.tail = TRUE] /\ UNCHANGED gate
            BY <3>4, <2>1, TailJobType DEF TypeOK
        <3> QED
            BY <1>24, <3>1, <3>2, <3>3, <3>4 DEF ReconcileReadback
    <2>3. txn' \in [Ids -> TxnRecords]
        BY <1>24, SaveStateType
        DEF ReconcileReadback, TypeOK, TxnStates, ValidStates, TerminalStates
    <2> QED
        BY <1>24, <2>2, <2>3 DEF TypeOK, StepOK, environment, outside, ReconcileReadback
<1>25. ASSUME NEW p \in Places, NEW t \in Ids, CollectTree(p, t) PROVE TypeOK' /\ StepOK'
    BY <1>25, SetTreeType DEF TypeOK, StepOK, environment, outside, CollectTree, Trees
<1>26. ASSUME CollectEnd PROVE TypeOK' /\ StepOK'
    <2>1. job' \in Jobs /\ (job'.step = 0 \/ job'.step = job.step) /\ job.pc = "gc"
        BY <1>26, IdleType, TailJobType DEF CollectEnd, TypeOK
    <2> QED
        BY <1>26, <2>1 DEF TypeOK, StepOK, environment, outside, CollectEnd
<1>27. ASSUME RecoverPersist PROVE TypeOK' /\ StepOK'
    BY <1>27, SaveStateType, NextStepType
    DEF TypeOK, StepOK, environment, outside, RecoverPersist, Jobs, Decisions, TxnStates
<1>28. ASSUME Drift PROVE TypeOK' /\ StepOK'
    <2>1. home' \in BOOLEAN
        BY <1>28 DEF Drift, TypeOK
    <2>2. path' \in Paths
        BY SMTT(30), <1>28, BoundsAssumption DEF Drift, TypeOK, Paths
    <2>3. left' \in [crash : Nat, fault : Nat, drift : Nat]
        BY <1>28 DEF Drift, TypeOK
    <2> QED
        BY <1>28, <2>1, <2>2, <2>3 DEF TypeOK, StepOK, Drift
<1>29. ASSUME Damage PROVE TypeOK' /\ StepOK'
    BY <1>29, SetTreeType DEF TypeOK, StepOK, environment, outside, Damage, Trees
<1>30. ASSUME Crash PROVE TypeOK' /\ StepOK'
    <2>1. InterruptCollect => disk' \in [Places -> [Ids -> Trees]]
        BY InterruptCollectType DEF TypeOK
    <2>2. disk' \in [Places -> [Ids -> Trees]]
        BY <1>30, <2>1 DEF Crash, TypeOK
    <2>3. job' \in Jobs /\ job'.pc = "observe" /\ gate' \in Gates
        BY <1>30, IdleType DEF Crash, Gates
    <2>4. left' \in [crash : Nat, fault : Nat, drift : Nat]
        BY <1>30 DEF Crash, TypeOK
    <2>5. admitted' \in 0..MaxRequests
        BY <1>30, BoundsAssumption DEF Crash
    <2>6. pend' \in [Ids -> {"none", "created", "spawned", "begun"}] /\ cancelled' \subseteq Ids
          /\ identity' \in 0..N
        BY <1>30, BoundsAssumption DEF Crash
    <2> QED
        BY <1>30, <2>2, <2>3, <2>4, <2>5, <2>6 DEF TypeOK, StepOK, environment, Crash
<1>31. ASSUME IOFault PROVE TypeOK' /\ StepOK'
    <2>1. left' \in [crash : Nat, fault : Nat, drift : Nat]
        BY <1>31 DEF IOFault, TypeOK
    <2>2. job \in Jobs /\ gate \in Gates /\ disk \in [Places -> [Ids -> Trees]]
        BY DEF TypeOK
    <2>3. /\ job' \in Jobs /\ (job'.pc # "observe" => job'.step < MaxRecoverSteps)
          /\ gate' \in Gates /\ disk' \in [Places -> [Ids -> Trees]]
        <3>1. CASE /\ job.pc \in {"mkdir", "build", "seal"}
                   /\ Goto("fail") /\ UNCHANGED <<disk, gate>>
            BY <3>1, <2>2, GotoType DEF Pcs, StepOK
        <3>2. CASE /\ job.pc \in {"candidate", "record"}
                   /\ SetTree("generations", job.t, "absent") /\ Goto("fail") /\ UNCHANGED gate
            BY <3>2, <2>2, GotoType, SetTreeType DEF Pcs, StepOK, Trees
        <3>3. CASE /\ job.pc = "gc"
                   /\ job' = IF job.by = "recover" /\ Settled(job.prev) THEN Idle
                             ELSE [job EXCEPT !.pc = "home", !.tail = TRUE]
                   /\ UNCHANGED gate
                   /\ UNCHANGED disk \/ InterruptCollect
            BY <3>3, <2>2, IdleType, TailJobType, InterruptCollectType DEF StepOK
        <3>4. CASE /\ job.pc \in EnvPcs /\ job.tail
                   /\ EndTail /\ UNCHANGED <<disk, gate>>
            BY <3>4, <2>2, IdleType, NextStepType DEF StepOK, EndTail, Release, EnvPcs
        <3>5. CASE ReturnError /\ UNCHANGED disk
            BY <3>5, <2>2, IdleType, ReturnErrorType
        <3> QED
            BY <1>31, <3>1, <3>2, <3>3, <3>4, <3>5 DEF IOFault
    <2> QED
        BY <1>31, <2>1, <2>3 DEF TypeOK, StepOK, environment, IOFault
<1>32. ASSUME RecoverStep PROVE TypeOK' /\ StepOK'
    <2> DEFINE d == DecideRecovery(Observation)
    <2>1. d \in Decisions
        BY DecideRecoveryType
    <2>2. job \in Jobs /\ gate \in Gates /\ disk \in [Places -> [Ids -> Trees]]
          /\ txn \in [Ids -> TxnRecords] /\ active \in 0..N
        BY DEF TypeOK
    <2>3. Primary \in 0..N
        BY PrimaryType
    <2> HIDE DEF d
    <2>4. /\ job' \in Jobs /\ (job'.pc # "observe" => job'.step < MaxRecoverSteps)
          /\ gate' \in Gates /\ disk' \in [Places -> [Ids -> Trees]]
          /\ txn' \in [Ids -> TxnRecords]
        <3>1. CASE job.step < MaxRecoverSteps /\ RecoverSettle(d)
            <4>1. d.gate \in Gates
                BY <2>1 DEF Decisions
            <4> QED
                BY <3>1, <4>1, <2>1, <2>2, SettledJobType DEF RecoverSettle
        <3>2. CASE RecoverBlock
            BY <3>2, <2>2, IdleType DEF RecoverBlock, Release, Gates
        <3>3. CASE job.step < MaxRecoverSteps /\ RecoverTree(d, Primary)
            <4>1. job' \in Jobs /\ job'.step < MaxRecoverSteps
                BY <3>3, <2>1, <2>2, <2>3, DecidedJobType DEF RecoverTree, Pcs
            <4>2. disk' \in [Places -> [Ids -> Trees]]
                <5>1. ASSUME NEW p \in Places, SetTree(p, Primary, "absent")
                      PROVE  disk' \in [Places -> [Ids -> Trees]]
                    BY <5>1, <2>2, SetTreeType DEF Trees
                <5>2. ASSUME disk' = [disk EXCEPT !["failed"][Primary] = disk["staging"][Primary],
                                                  !["staging"][Primary] = "absent"]
                      PROVE  disk' \in [Places -> [Ids -> Trees]]
                    <6> DEFINE moved == [disk EXCEPT !["failed"][Primary] = disk["staging"][Primary]]
                    <6>1. moved \in [Places -> [Ids -> Trees]]
                        BY <2>2 DEF Trees
                    <6>2. disk' = [moved EXCEPT !["staging"][Primary] = "absent"]
                        BY <5>2
                    <6> HIDE DEF moved
                    <6> QED
                        BY <6>1, <6>2 DEF Trees
                <5> QED
                    BY <3>3, <5>1, <5>2 DEF RecoverTree
            <4> QED
                BY <3>3, <2>2, <4>1, <4>2 DEF RecoverTree
        <3>4. CASE job.step < MaxRecoverSteps /\ job.pc = "observe" /\ RecoverRecord(d, Primary)
            <4>1. job' \in Jobs /\ (job'.pc # "observe" => job'.step < MaxRecoverSteps)
                BY <3>4, <2>1, <2>2, <2>3, DecidedJobType, SteppedJobType DEF RecoverRecord, Pcs
            <4>2. SavedRecords(d, Primary) \in [Ids -> TxnRecords]
                BY <2>1, <2>2, <2>3, SavedRecordsType
            <4> QED
                BY <3>4, <2>2, <4>1, <4>2 DEF RecoverRecord
        <3> QED
            BY <1>32, <3>1, <3>2, <3>3, <3>4 DEF RecoverStep, d
    <2> QED
        BY <1>32, <2>4 DEF TypeOK, StepOK, environment, outside, RecoverStep
<1>33. ASSUME UNCHANGED vars PROVE TypeOK' /\ StepOK'
    BY <1>33 DEF vars, TypeOK, StepOK
<1> QED
    BY <1>1, <1>2, <1>3, <1>4, <1>5, <1>6, <1>7, <1>8, <1>9, <1>10, <1>11, <1>12, <1>13,
       <1>14, <1>15, <1>16, <1>17, <1>18, <1>19, <1>20, <1>21, <1>22, <1>23, <1>24, <1>25,
       <1>26, <1>27, <1>28, <1>29, <1>30, <1>31, <1>32, <1>33
    DEF Next, Request, Daemon, Trouble, Handler, Worker, Reconcile, Collect, Recovery

\* Every record, directory, registry value and lock state stays in its range on
\* any disk, whatever requests, crashes, faults and outside changes happen; in
\* particular the counter of RecoverWith's loop never passes maxRecoverSteps.
THEOREM TypeCorrect == Spec => []TypeOK
<1>1. Init => TypeOK /\ StepOK
    BY InitType
<1>2. TypeOK /\ StepOK /\ [Next]_vars => (TypeOK /\ StepOK)'
    BY NextType
<1> QED
    BY <1>1, <1>2, PTL DEF Spec

HIDE DEF Ids, Places, MaxRecoverSteps

-----------------------------------------------------------------------------
(* The inductive invariant.                                                *)

WorkerPcs == {"load", "mkdir", "candidate", "record", "build", "seal", "sealed",
              "publish", "activating", "fail"}

\* Who can be where in the code while it holds install.lock.
HolderOK ==
    /\ job.by = "none" <=> job.pc = "idle"
    /\ job.by = "start" <=> job.pc = "create"
    /\ job.pc \in WorkerPcs => job.by = "worker"
    /\ job.pc \in {"observe", "persist"} => job.by = "recover"
    /\ job.pc \notin {"idle", "create", "load", "observe", "gc"} => job.t \in Ids
    /\ job.pc = "gc" => job.t \in Ids \/ (job.by = "recover" /\ Settled(job.prev))
    /\ job.by = "worker" => job.w \in Ids /\ (job.pc # "load" => job.t \in Ids)

\* Requests that do not hold the lock own a record nobody builds.
PendingOK ==
    /\ \A t \in Ids : pend[t] = "created" => txn[t].state \in {"CREATED", "FAILED"}
    /\ job.by = "worker" => pend[job.w] = "none"
    /\ job.by = "worker" /\ job.pc # "load" => pend[job.t] # "created"
    /\ job.by = "recover" => \A t \in Ids : pend[t] = "none"

\* HostInstaller.currentOp: a worker reads it after somebody set it, and it names
\* an operation whose row, and so whose record, exists.
IdentityOK ==
    /\ \A t \in Ids : pend[t] # "none" => txn[t].state # "NONE"
    /\ \A t \in Ids : pend[t] = "begun" => identity # 0
    /\ job.by = "worker" => identity # 0
    /\ identity # 0 => pend[identity] # "created" /\ txn[identity].state # "NONE"

\* What the lock holder knows of the record it works on.
RecordOK ==
    /\ job.pc \in {"mkdir", "candidate", "record", "build", "seal", "sealed"}
         => txn[job.t].state = "BUILDING"
    /\ job.pc = "publish" => txn[job.t].state = "SEALED"
    /\ job.pc = "activating" => txn[job.t].state = "PUBLISHED"
    /\ job.pc = "point" => txn[job.t].state = "ACTIVATING" /\ active # job.t
    /\ job.pc = "fail" => txn[job.t].state \in {"BUILDING", "SEALED"}
    /\ job.by = "worker" /\ job.pc \in {"home", "gc"}
         => txn[job.t].state \in {"ACTIVATING", "COMMITTED"}
    /\ job.pc \in {"path", "readback"}
         => /\ txn[job.t].state \in {"ACTIVATING", "COMMITTED"}
            /\ txn[job.t].state = "ACTIVATING" => active = job.t
    /\ job.pc = "persist" => txn[job.t].state \in FailableStates /\ job.prev.next = "FAILED"

\* This version builds in generations/ only.
NoStaging == \A t \in Ids : disk["staging"][t] = "absent"

\* The invariant that is inductive for a disk this version began.
IInv ==
    /\ TypeOK /\ StepOK
    /\ HolderOK /\ PendingOK /\ IdentityOK /\ RecordOK /\ NoStaging
    /\ AtMostOneNonterminal /\ ActiveIsUsable

-----------------------------------------------------------------------------
(* The changes a step can make.                                            *)

USE DEF Ids, Places, MaxRecoverSteps

\* One record moves, to a state that follows its own.
RecordMove(t) ==
    /\ \A u \in Ids \ {t} : txn'[u].state = txn[u].state
    /\ \/ txn[t].state = "NONE" /\ txn'[t].state = "CREATED" /\ ~HasNonterminal
       \/ txn[t].state = "CREATED" /\ txn'[t].state = "BUILDING"
       \/ txn[t].state \in {"CREATED", "BUILDING", "SEALED"} /\ txn'[t].state = "FAILED"
       \/ txn[t].state = "BUILDING" /\ txn'[t].state = "SEALED"
       \/ txn[t].state = "SEALED" /\ txn'[t].state = "PUBLISHED"
       \/ txn[t].state = "PUBLISHED" /\ txn'[t].state = "ACTIVATING"
       \/ txn[t].state = "ACTIVATING" /\ txn'[t].state = "COMMITTED" /\ active = t

RecordStep ==
    \/ active' = active /\ \A t \in Ids : txn'[t].state = txn[t].state
    \/ active' = active /\ txn' = FailFailable
    \/ active' = active /\ \E t \in Ids : RecordMove(t)
    \/ /\ active' \in Ids /\ active' # active
       /\ txn' = txn /\ txn[active'].state = "ACTIVATING"

\* What a decision of recovery can be, and of which record.
DecisionSound(d) ==
    \/ Settled(d)
    \/ d.action = "BLOCK_UNSAFE"
    \/ /\ Primary \in Ids
       /\ \/ /\ txn[Primary].state \in FailableStates
             /\ d.action \in {"NONE", "REMOVE_EMPTY_GENERATION"} /\ d.next = "FAILED"
          \/ /\ txn[Primary].state = "SEALED"
             /\ d.action = "PERSIST_PUBLISHED" /\ d.next = "PUBLISHED"
          \/ /\ txn[Primary].state = "PUBLISHED"
             /\ d.action = "PERSIST_ACTIVATING"
          \/ /\ txn[Primary].state = "ACTIVATING" /\ active = Primary
             /\ d.action = "COMMIT" /\ d.next = "COMMITTED"
          \/ /\ txn[Primary].state = "ACTIVATING" /\ active # Primary
             /\ d.action = "ACTIVATE" /\ d.next = ""
          \/ /\ txn[Primary].state \in {"ACTIVATING", "COMMITTED"} /\ active = Primary
             /\ d.action = "RECONCILE_ENV" /\ d.next = ""

\* The fields of a recovery decision.
LEMMA DecisionFields ==
    \A g, a, n : Decision(g, a, n).action = a /\ Decision(g, a, n).next = n
BY DEF Decision

\* Decisions that change nothing are sound.
LEMMA SettledSound ==
    /\ DecisionSound(Nothing) /\ DecisionSound(Blocked)
    /\ DecisionSound(Decision("READY", "DIAGNOSE_RETAIN", ""))
<1>1. Nothing.action = "NONE" /\ Nothing.next = ""
    BY ZenonT(40), DecisionFields DEF Nothing
<1>2. Blocked.action = "BLOCK_UNSAFE"
    BY DecisionFields DEF Blocked
<1>3. Decision("READY", "DIAGNOSE_RETAIN", "").action = "DIAGNOSE_RETAIN"
    BY DecisionFields
<1> QED
    BY <1>1, <1>2, <1>3 DEF DecisionSound, Settled

\* With one transaction in flight the observation is of its directories.
LEMMA PrimaryIsOpen ==
    ASSUME NEW t \in Ids, NonterminalTxns(txn) = {t}
    PROVE  Primary = t
<1>1. (CHOOSE u \in {t} : TRUE) = t
    OBVIOUS
<1> QED
    BY <1>1 DEF Primary, PrimaryTxn

\* What is observed of a directory that does not exist.
LEMMA AbsentTree ==
    ASSUME NEW seal
    PROVE  /\ ~ObserveTree("absent", seal).present /\ ~ObserveTree("absent", seal).empty
           /\ ~ObserveTree("absent", seal).sealed
<1>1. ObserveTree("absent", seal).present = ("absent" # "absent")
    BY Zenon DEF ObserveTree
<1>2. ObserveTree("absent", seal).empty = ("absent" = "empty")
    BY Zenon DEF ObserveTree
<1>3. ObserveTree("absent", seal).sealed = ("absent" = "sealed" /\ seal)
    BY Zenon DEF ObserveTree
<1> QED
    BY <1>1, <1>2, <1>3

\* The observation of the transaction in flight, field by field.
LEMMA ObservedFields ==
    ASSUME TypeOK, NoStaging
    PROVE  /\ Observation.txns = txn /\ Observation.pointer = ReadActive
           /\ Observation.active = active
           /\ ~Observation.staging.present /\ ~Observation.staging.empty
           /\ ~Observation.staging.sealed
<1>1. Observation.txns = txn /\ Observation.pointer = ReadActive /\ Observation.active = active
    BY DEF Observation
<1>2. CASE Primary = 0
    BY <1>1, <1>2 DEF Observation, NoTree
<1>3. CASE Primary # 0
    <2>1. Primary \in Ids
        BY <1>3, PrimaryType, BoundsAssumption
    <2>2. disk["staging"][Primary] = "absent"
        BY <2>1 DEF NoStaging
    <2>3. Observation.staging = ObserveTree("absent", txn[Primary].seal)
        BY <1>3, <2>2 DEF Observation
    <2> QED
        BY <1>1, <2>3, AbsentTree
<1> QED
    BY <1>2, <1>3

\* The pointer is VALID or INVALID exactly when active.json names something.
LEMMA ReadActiveCases ==
    /\ ReadActive \in {"MISSING", "VALID", "INVALID"}
    /\ ReadActive = "MISSING" <=> active = 0
BY DEF ReadActive

\* decideTerminalWorld, when no transaction is in flight.
LEMMA TerminalWorldSound ==
    ASSUME IInv, NonterminalTxns(txn) = {}
    PROVE  DecisionSound(DecideTerminalWorld(Observation))
<1> DEFINE obs == Observation
           d == DecideTerminalWorld(obs)
<1>1. /\ obs.txns = txn /\ obs.pointer = ReadActive /\ obs.active = active /\ ~obs.staging.present
    BY ObservedFields DEF IInv
<1>2. LeftoverStaging(obs) = ""
    BY <1>1 DEF LeftoverStaging
<1>3. CASE ReadActive = "VALID"
    <2>1. active \in Ids
        BY <1>3, ReadActiveCases, BoundsAssumption DEF IInv, TypeOK
    <2>2. txn[active].state = "COMMITTED"
        BY SMTT(30), <2>1, BoundsAssumption DEF IInv, ActiveIsUsable, NonterminalTxns, NonterminalStates, TypeOK
    <2>3. Primary = active
        BY <1>3, <2>2 DEF Primary, PrimaryTxn, ValidStates, TerminalStates
    <2>4. d \in {Nothing, Decision("READY", "RECONCILE_ENV", "")}
        BY <1>1, <1>2, <1>3, <2>2 DEF DecideTerminalWorld
    <2>5. DecisionSound(Decision("READY", "RECONCILE_ENV", ""))
        <3>1. /\ Decision("READY", "RECONCILE_ENV", "").action = "RECONCILE_ENV"
              /\ Decision("READY", "RECONCILE_ENV", "").next = ""
            BY ZenonT(40), DecisionFields
        <3> QED
            BY <2>1, <2>2, <2>3, <3>1 DEF DecisionSound
    <2> QED
        BY <2>4, <2>5, SettledSound
<1>4. CASE ReadActive # "VALID"
    <2>1. d \in {Nothing, Decision("READY", "DIAGNOSE_RETAIN", "")}
        BY <1>1, <1>4 DEF DecideTerminalWorld
    <2> QED
        BY <2>1, SettledSound
<1> QED
    BY <1>3, <1>4

\* decideOne, for the one transaction in flight.
LEMMA DecideOneSound ==
    ASSUME IInv, NEW t \in Ids, NonterminalTxns(txn) = {t}, ReadActive # "INVALID"
    PROVE  DecisionSound(DecideOne(Observation, t))
<1> DEFINE obs == Observation
           d == DecideOne(obs, t)
<1> SUFFICES DecisionSound(d)
    OBVIOUS
<1>1. /\ obs.txns = txn /\ obs.pointer = ReadActive /\ obs.active = active
      /\ ~obs.staging.present /\ ~obs.staging.empty /\ ~obs.staging.sealed
    BY ObservedFields DEF IInv
<1>2. LeftoverStaging(obs) = ""
    BY <1>1 DEF LeftoverStaging
<1>3. Primary = t
    BY PrimaryIsOpen
<1>4. txn[t].state \in NonterminalStates
    BY DEF NonterminalTxns
<1>5. ActiveNames(obs, t) <=> active = t
    BY <1>1, ReadActiveCases, BoundsAssumption DEF ActiveNames
<1>6. CASE txn[t].state \in FailableStates
    <2>1. d = DecideUnsealed(obs)
        BY <1>1, <1>6 DEF DecideOne
    <2>2. d \in {FailTxn("NONE"), FailTxn("REMOVE_EMPTY_GENERATION"), Blocked}
        BY <1>1, <2>1 DEF DecideUnsealed
    <2>3. DecisionSound(FailTxn("NONE")) /\ DecisionSound(FailTxn("REMOVE_EMPTY_GENERATION"))
        <3>1. /\ FailTxn("NONE").action = "NONE" /\ FailTxn("NONE").next = "FAILED"
              /\ FailTxn("REMOVE_EMPTY_GENERATION").action = "REMOVE_EMPTY_GENERATION"
              /\ FailTxn("REMOVE_EMPTY_GENERATION").next = "FAILED"
            BY DecisionFields DEF FailTxn
        <3> QED
            BY <1>3, <1>6, <3>1 DEF DecisionSound
    <2> QED
        BY <2>2, <2>3, SettledSound
<1>7. CASE txn[t].state = "SEALED"
    <2>1. d = DecideSealed(obs)
        BY <1>1, <1>7 DEF DecideOne, FailableStates
    <2>2. d \in {Reconciling("PERSIST_PUBLISHED", "PUBLISHED"), Blocked}
        BY <1>1, <2>1 DEF DecideSealed
    <2>3. DecisionSound(Reconciling("PERSIST_PUBLISHED", "PUBLISHED"))
        BY <1>3, <1>7, DecisionFields DEF DecisionSound, Reconciling
    <2> QED
        BY <2>2, <2>3, SettledSound
<1>8. CASE txn[t].state = "PUBLISHED"
    <2>1. d = DecidePublished(obs, t)
        BY <1>1, <1>8 DEF DecideOne, FailableStates
    <2>2. active # t
        BY <1>8, BoundsAssumption DEF IInv, ActiveIsUsable
    <2>3. d \in {Reconciling("PERSIST_ACTIVATING", "ACTIVATING"), Blocked}
        BY <1>2, <1>5, <2>1, <2>2 DEF DecidePublished
    <2>4. DecisionSound(Reconciling("PERSIST_ACTIVATING", "ACTIVATING"))
        BY <1>3, <1>8, DecisionFields DEF DecisionSound, Reconciling
    <2> QED
        BY <2>3, <2>4, SettledSound
<1>9. CASE txn[t].state = "ACTIVATING"
    <2>1. d = DecideActivating(obs, t)
        BY <1>1, <1>9 DEF DecideOne, FailableStates
    <2>2. \/ d = Blocked
          \/ active = t /\ d = Reconciling("COMMIT", "COMMITTED")
          \/ active = t /\ d = Reconciling("RECONCILE_ENV", "")
          \/ active # t /\ d = Reconciling("ACTIVATE", "")
        BY <1>5, <2>1 DEF DecideActivating
    <2>3. /\ active = t => DecisionSound(Reconciling("COMMIT", "COMMITTED"))
          /\ active = t => DecisionSound(Reconciling("RECONCILE_ENV", ""))
          /\ active # t => DecisionSound(Reconciling("ACTIVATE", ""))
        <3>1. \A a, n : Reconciling(a, n).action = a /\ Reconciling(a, n).next = n
            BY DecisionFields DEF Reconciling
        <3>2. ASSUME NEW d1, d1.action = "COMMIT", d1.next = "COMMITTED", active = t
              PROVE  DecisionSound(d1)
            BY <1>3, <1>9, <3>2 DEF DecisionSound
        <3>3. ASSUME NEW d1, d1.action = "RECONCILE_ENV", d1.next = "", active = t
              PROVE  DecisionSound(d1)
            BY <1>3, <1>9, <3>3 DEF DecisionSound
        <3>4. ASSUME NEW d1, d1.action = "ACTIVATE", d1.next = "", active # t
              PROVE  DecisionSound(d1)
            BY <1>3, <1>9, <3>4 DEF DecisionSound
        <3> QED
            BY <3>1, <3>2, <3>3, <3>4
    <2> QED
        BY <2>2, <2>3, SettledSound
<1> QED
    BY <1>4, <1>6, <1>7, <1>8, <1>9 DEF NonterminalStates, FailableStates

\* Whatever recovery observes, it decides one of the few things of DecisionSound:
\* in particular it never fails, reactivates or recommits an activated record.
LEMMA RecoveryDecisionSound == IInv => DecisionSound(DecideRecovery(Observation))
<1> SUFFICES ASSUME IInv PROVE DecisionSound(DecideRecovery(Observation))
    OBVIOUS
<1> DEFINE open == NonterminalTxns(txn)
<1>1. Observation.txns = txn /\ Observation.pointer = ReadActive
    BY ObservedFields DEF IInv
<1>2. open = {} \/ \E t \in Ids : open = {t}
    <2>1. \A t, u \in open : t = u
        BY DEF NonterminalTxns, IInv, AtMostOneNonterminal, TypeOK
    <2>2. open \subseteq Ids
        BY DEF NonterminalTxns, IInv, TypeOK
    <2> QED
        BY <2>1, <2>2
<1>3. DecisionSound(Blocked)
    BY SettledSound
<1>4. CASE open = {}
    BY <1>1, <1>3, <1>4, TerminalWorldSound DEF DecideRecovery
<1>5. ASSUME NEW t \in Ids, open = {t} PROVE DecisionSound(DecideRecovery(Observation))
    <2>1. (CHOOSE u \in {t} : TRUE) = t
        OBVIOUS
    <2>2. ReadActive # "INVALID" => DecisionSound(DecideOne(Observation, t))
        BY <1>5, DecideOneSound
    <2>3. DecideRecovery(Observation) \in {Blocked, DecideOne(Observation, t)}
        BY <1>1, <1>5, <2>1 DEF DecideRecovery
    <2>4. ReadActive = "INVALID" => DecideRecovery(Observation) = Blocked
        BY <1>1 DEF DecideRecovery
    <2> QED
        BY <1>3, <2>2, <2>3, <2>4
<1> QED
    BY <1>2, <1>4, <1>5

-----------------------------------------------------------------------------
(* Every step is a RecordStep.                                             *)

\* Saving a state changes one record.
LEMMA SaveStateEffect ==
    ASSUME TypeOK, NEW t \in Ids, NEW s, SaveState(t, s)
    PROVE  txn'[t].state = s /\ \A u \in Ids \ {t} : txn'[u] = txn[u]
BY DEF SaveState, TypeOK, TxnRecords

\* Saving ACTIVATING with the predecessor changes one record.
LEMMA SaveActivatingEffect ==
    ASSUME TypeOK, NEW t \in Ids,
           txn' = [txn EXCEPT ![t].state = "ACTIVATING", ![t].before = active]
    PROVE  txn'[t].state = "ACTIVATING" /\ \A u \in Ids \ {t} : txn'[u] = txn[u]
BY DEF TypeOK, TxnRecords

\* What recovery's writes do to the records.
LEMMA RecoverStepEffect ==
    ASSUME IInv, RecoverStep
    PROVE  RecordStep
<1> DEFINE d == DecideRecovery(Observation)
<1>1. DecisionSound(d)
    BY RecoveryDecisionSound
<1>2. active' = active
    BY DEF RecoverStep
<1> HIDE DEF d
<1>3. CASE txn' = txn
    BY <1>2, <1>3 DEF RecordStep
<1>4. CASE txn' # txn
    <2>1. RecoverRecord(d, Primary) /\ ~Settled(d) /\ d.action # "BLOCK_UNSAFE"
        BY <1>4 DEF RecoverStep, RecoverSettle, RecoverBlock, RecoverTree, d
    <2>2. txn' = SavedRecords(d, Primary) /\ d.action # "FAIL_FAILABLE_EXTRAS" /\ Primary \in Ids
        BY <1>1, <2>1 DEF RecoverRecord, DecisionSound
    <2>3. CASE d.action = "PERSIST_ACTIVATING"
        <3>1. txn' = [txn EXCEPT ![Primary].state = "ACTIVATING", ![Primary].before = active]
            BY <2>2, <2>3 DEF SavedRecords
        <3>2. txn[Primary].state = "PUBLISHED"
            BY <1>1, <2>1, <2>3 DEF DecisionSound
        <3>3. RecordMove(Primary)
            BY <2>2, <3>1, <3>2, SaveActivatingEffect DEF RecordMove, IInv
        <3> QED
            BY <1>2, <2>2, <3>3 DEF RecordStep
    <2>4. CASE d.action # "PERSIST_ACTIVATING"
        <3>1. d.next # "" /\ SaveState(Primary, d.next)
            BY <1>4, <2>2, <2>4 DEF SavedRecords, SaveState
        <3>2. txn'[Primary].state = d.next /\ \A u \in Ids \ {Primary} : txn'[u] = txn[u]
            BY <2>2, <3>1, SaveStateEffect DEF IInv
        <3>3. \/ txn[Primary].state \in FailableStates /\ d.next = "FAILED"
              \/ txn[Primary].state = "SEALED" /\ d.next = "PUBLISHED"
              \/ txn[Primary].state = "ACTIVATING" /\ d.next = "COMMITTED" /\ active = Primary
            BY <1>1, <2>1, <2>4, <3>1 DEF DecisionSound
        <3>4. RecordMove(Primary)
            BY <3>2, <3>3 DEF RecordMove, FailableStates
        <3> QED
            BY <1>2, <2>2, <3>4 DEF RecordStep
    <2> QED
        BY <2>3, <2>4
<1> QED
    BY <1>3, <1>4

\* The identity a worker loads was set by somebody.
LEMMA LoadedIdentity ==
    ASSUME IInv, SealLoad
    PROVE  job.by = "worker" /\ identity \in Ids
<1>1. job.by = "worker"
    BY DEF IInv, HolderOK, SealLoad, WorkerPcs
<1> QED
    BY <1>1, BoundsAssumption DEF IInv, IdentityOK, TypeOK

\* The records and active.json change only as RecordStep allows.
LEMMA StepIsRecordStep ==
    ASSUME IInv, [Next]_vars
    PROVE  RecordStep
<1> USE DEF IInv
<1>1. CASE txn' = txn /\ active' = active
    BY <1>1 DEF RecordStep
<1>2. CASE StartLock
    BY <1>2 DEF StartLock, RecordStep
<1>3. CASE StartCreate
    <2>1. CASE HasNonterminal
        BY <1>3, <2>1, <1>1 DEF StartCreate
    <2>2. CASE ~HasNonterminal
        <3>1. PICK t \in Ids : /\ FreshId(t)
                               /\ txn' = [txn EXCEPT ![t] = [NoTxn EXCEPT !.state = "CREATED"]]
            BY <1>3, <2>2 DEF StartCreate
        <3>2. txn[t].state = "NONE"
            BY <3>1 DEF FreshId
        <3>3. txn'[t].state = "CREATED" /\ \A u \in Ids \ {t} : txn'[u] = txn[u]
            BY <3>1 DEF TypeOK, NoTxn
        <3>4. RecordMove(t)
            BY <2>2, <3>2, <3>3 DEF RecordMove
        <3> QED
            BY <1>3, <3>4 DEF StartCreate, RecordStep
    <2> QED
        BY <2>1, <2>2
<1>4. ASSUME NEW t \in Ids, MarkTransactionFailed(t) PROVE RecordStep
    <2>1. CASE txn[t].state \in TerminalStates
        BY <1>4, <2>1, <1>1 DEF MarkTransactionFailed
    <2>2. CASE txn[t].state \notin TerminalStates
        <3>1. txn[t].state = "CREATED"
            BY <1>4, <2>2 DEF MarkTransactionFailed, PendingOK, TerminalStates
        <3>2. RecordMove(t)
            BY <1>4, <2>2, <3>1, SaveStateEffect DEF MarkTransactionFailed, RecordMove
        <3> QED
            BY <1>4, <3>2 DEF MarkTransactionFailed, RecordStep
    <2> QED
        BY <2>1, <2>2
<1>5. CASE SealLoad
    <2>1. CASE txn[identity].state = "CREATED"
        <3>1. identity \in Ids /\ SaveState(identity, "BUILDING") /\ active' = active
            BY <1>5, <2>1, LoadedIdentity DEF SealLoad
        <3>2. RecordMove(identity)
            BY <2>1, <3>1, SaveStateEffect DEF RecordMove
        <3> QED
            BY <3>1, <3>2 DEF RecordStep
    <2>2. CASE txn[identity].state # "CREATED"
        BY <1>5, <2>2, <1>1 DEF SealLoad
    <2> QED
        BY <2>1, <2>2
<1>6. CASE PersistSealed
    <2>1. /\ job.t \in Ids /\ txn[job.t].state = "BUILDING" /\ active' = active
          /\ txn' = [txn EXCEPT ![job.t] = [state |-> "SEALED", seal |-> TRUE, before |-> @.before]]
        BY <1>6 DEF PersistSealed, HolderOK, RecordOK
    <2>2. txn'[job.t].state = "SEALED" /\ \A u \in Ids \ {job.t} : txn'[u] = txn[u]
        BY <2>1 DEF TypeOK
    <2>3. RecordMove(job.t)
        BY <2>1, <2>2 DEF RecordMove
    <2> QED
        BY <2>1, <2>3 DEF RecordStep
<1>7. CASE Publish
    <2>1. CASE txn' = txn
        BY <1>7, <2>1, <1>1 DEF Publish
    <2>2. CASE txn' # txn
        <3>1. /\ job.t \in Ids /\ txn[job.t].state = "SEALED" /\ active' = active
              /\ SaveState(job.t, "PUBLISHED")
            BY <1>7, <2>2 DEF Publish, HolderOK, RecordOK
        <3>2. RecordMove(job.t)
            BY <3>1, SaveStateEffect DEF RecordMove
        <3> QED
            BY <3>1, <3>2 DEF RecordStep
    <2> QED
        BY <2>1, <2>2
<1>8. CASE MarkActivating
    <2>1. CASE txn' = txn
        BY <1>8, <2>1, <1>1 DEF MarkActivating
    <2>2. CASE txn' # txn
        <3>1. /\ job.t \in Ids /\ txn[job.t].state = "PUBLISHED" /\ active' = active
              /\ txn' = [txn EXCEPT ![job.t].state = "ACTIVATING", ![job.t].before = active]
            BY <1>8, <2>2 DEF MarkActivating, HolderOK, RecordOK
        <3>2. RecordMove(job.t)
            BY <3>1, SaveActivatingEffect DEF RecordMove
        <3> QED
            BY <3>1, <3>2 DEF RecordStep
    <2> QED
        BY <2>1, <2>2
<1>9. CASE WriteActive
    <2>1. job.t \in Ids /\ txn[job.t].state = "ACTIVATING" /\ active # job.t /\ txn' = txn
        BY <1>9 DEF WriteActive, HolderOK, RecordOK
    <2>2. active' = active \/ active' = job.t
        BY <1>9 DEF WriteActive
    <2> QED
        BY <2>1, <2>2, <1>1 DEF RecordStep
<1>10. CASE Fail
    <2>1. job.t \in Ids /\ txn[job.t].state \in {"BUILDING", "SEALED"} /\ active' = active
        BY <1>10 DEF Fail, HolderOK, RecordOK
    <2>2. active # job.t
        BY <2>1, BoundsAssumption DEF ActiveIsUsable
    <2>3. RecordMove(job.t)
        BY <1>10, <2>1, <2>2, SaveStateEffect DEF Fail, RecordMove
    <2> QED
        BY <2>1, <2>3 DEF RecordStep
<1>11. CASE ReconcileReadback
    <2>1. CASE txn' = txn
        BY <1>11, <2>1, <1>1 DEF ReconcileReadback
    <2>2. CASE txn' # txn
        <3>1. /\ job.t \in Ids /\ txn[job.t].state = "ACTIVATING" /\ active = job.t
              /\ active' = active /\ SaveState(job.t, "COMMITTED")
            BY <1>11, <2>2 DEF ReconcileReadback, HolderOK, RecordOK
        <3>2. RecordMove(job.t)
            BY <3>1, SaveStateEffect DEF RecordMove
        <3> QED
            BY <3>1, <3>2 DEF RecordStep
    <2> QED
        BY <2>1, <2>2
<1>12. CASE RecoverStep
    BY <1>12, RecoverStepEffect
<1>13. CASE RecoverPersist
    <2>1. /\ job.t \in Ids /\ txn[job.t].state \in FailableStates /\ active' = active
          /\ SaveState(job.t, "FAILED")
        BY <1>13 DEF RecoverPersist, HolderOK, RecordOK
    <2>2. RecordMove(job.t)
        BY <2>1, SaveStateEffect DEF RecordMove, FailableStates
    <2> QED
        BY <2>1, <2>2 DEF RecordStep
<1>14. CASE RejectInvalidPointer \/ AdmitStart \/ RefuseStart
    BY <1>14, <1>1 DEF RejectInvalidPointer, AdmitStart, RefuseStart
<1>15. ASSUME NEW t \in Ids,
              \/ StartSpawn(t) \/ CancelContext(t)
              \/ SetInstallIdentity(t) \/ WorkerLock(t) \/ WorkerQuit(t)
       PROVE  RecordStep
    BY <1>15, <1>1 DEF StartSpawn, CancelContext, SetInstallIdentity, WorkerLock, WorkerQuit
<1>16. CASE CreateGeneration \/ CandidateTemp \/ CandidateRecord \/ Build \/ Seal
    BY <1>16, <1>1 DEF CreateGeneration, CandidateTemp, CandidateRecord, Build, Seal
<1>17. CASE ReconcileHome \/ ReconcilePath \/ Collect
    BY <1>17, <1>1 DEF ReconcileHome, ReconcilePath, Collect, CollectTree, CollectEnd
<1>18. CASE Trouble \/ UNCHANGED vars
    BY <1>18, <1>1 DEF Trouble, IOFault, Crash, Drift, Damage, vars
<1> QED
    BY <1>2, <1>3, <1>4, <1>5, <1>6, <1>7, <1>8, <1>9, <1>10, <1>11, <1>12, <1>13, <1>14, <1>15,
       <1>16, <1>17, <1>18
    DEF Next, Request, Daemon, Handler, Worker, Reconcile, Recovery

-----------------------------------------------------------------------------
(* What follows for the records and active.json.                           *)

\* FailFailable only turns failable records into failed ones.
LEMMA FailFailableEffect ==
    ASSUME TypeOK, txn' = FailFailable
    PROVE  \A t \in Ids : txn'[t].state = IF txn[t].state \in FailableStates THEN "FAILED"
                                          ELSE txn[t].state
BY DEF FailFailable, TypeOK, TxnRecords

\* No change of the records brings a second transaction in flight.
LEMMA RecordStepKeepsOne ==
    ASSUME IInv, RecordStep
    PROVE  AtMostOneNonterminal'
<1> USE DEF IInv
<1> SUFFICES ASSUME NEW t \in Ids, NEW u \in Ids,
                    txn'[t].state \in NonterminalStates, txn'[u].state \in NonterminalStates
             PROVE  t = u
    BY DEF AtMostOneNonterminal
<1>1. CASE \A v \in Ids : txn'[v].state = txn[v].state
    BY <1>1 DEF AtMostOneNonterminal
<1>2. CASE txn' = FailFailable
    BY <1>2, FailFailableEffect DEF AtMostOneNonterminal, NonterminalStates
<1>3. ASSUME NEW v \in Ids, RecordMove(v) PROVE t = u
    <2>1. CASE HasNonterminal
        <3>1. txn'[v].state \in NonterminalStates => txn[v].state \in NonterminalStates
            BY <1>3, <2>1 DEF RecordMove, NonterminalStates
        <3> QED
            BY <1>3, <3>1 DEF RecordMove, AtMostOneNonterminal
    <2>2. CASE ~HasNonterminal
        BY <1>3, <2>2 DEF RecordMove, HasNonterminal
    <2> QED
        BY <2>1, <2>2
<1> QED
    BY <1>1, <1>2, <1>3 DEF RecordStep

\* No change of the records takes the active one out of activation.
LEMMA RecordStepKeepsActive ==
    ASSUME IInv, RecordStep, active' # 0
    PROVE  txn'[active'].state \in {"ACTIVATING", "COMMITTED"}
<1> USE DEF IInv
<1>1. CASE active' = active
    <2>1. active \in Ids /\ txn[active].state \in {"ACTIVATING", "COMMITTED"}
        BY <1>1, BoundsAssumption DEF ActiveIsUsable, TypeOK
    <2>2. CASE \A v \in Ids : txn'[v].state = txn[v].state
        BY <1>1, <2>1, <2>2
    <2>3. CASE txn' = FailFailable
        BY <1>1, <2>1, <2>3, FailFailableEffect DEF FailableStates
    <2>4. ASSUME NEW v \in Ids, RecordMove(v) PROVE txn'[active'].state \in {"ACTIVATING", "COMMITTED"}
        BY <1>1, <2>1, <2>4 DEF RecordMove
    <2> QED
        BY <1>1, <2>2, <2>3, <2>4 DEF RecordStep
<1>2. CASE active' # active
    BY <1>2 DEF RecordStep
<1> QED
    BY <1>1, <1>2

-----------------------------------------------------------------------------
(* What a step can do to the directories.                                  *)

DiskStep ==
    \/ disk' = disk
    \/ \E t \in Ids, tree \in Trees : SetTree("failed", t, tree)
    \/ \E t \in Ids, tree \in Trees : /\ SetTree("generations", t, tree)
                                      /\ t # active \/ active \in damaged'

\* Collection spares the active tree and meets no staging tree.
LEMMA GarbageSpares ==
    ASSUME IInv, NEW pt \in Garbage
    PROVE  /\ pt[1] \in {"generations", "failed"} /\ pt[2] \in Ids
           /\ pt[1] = "generations" => pt[2] # active \/ active \in damaged
<1> USE DEF IInv
<1>1. PICK p \in Places, t \in Ids : pt = <<p, t>>
    BY DEF Garbage, ProvenTrees
<1>2. pt[1] = p /\ pt[2] = t
    BY <1>1
<1>3. LineageProven(p, t)
    BY <1>1, <1>2 DEF Garbage, ProvenTrees
<1>4. p # "staging"
    BY <1>3 DEF LineageProven, NoStaging, MetadataVerifies
<1>5. ASSUME p = "generations", t = active, active \notin damaged PROVE FALSE
    <2>1. Generation(active) = "sealed"
        BY <1>5, BoundsAssumption DEF ActiveIsUsable
    <2>2. ReadActive = "VALID"
        BY <1>5, <2>1, BoundsAssumption DEF ReadActive, MetadataVerifies
    <2>3. <<"generations", active>> \in Retained
        BY <2>2 DEF Retained
    <2> QED
        BY <1>1, <1>5, <2>3 DEF Garbage
<1> QED
    BY <1>2, <1>4, <1>5

\* An interrupted deletion damages one tree, of the garbage.
LEMMA InterruptCollectEffect ==
    ASSUME IInv, InterruptCollect, damaged' = damaged
    PROVE  DiskStep
<1>1. PICK pt \in Garbage : \E tree \in HalfDeleted(disk[pt[1]][pt[2]]) : SetTree(pt[1], pt[2], tree)
    BY DEF InterruptCollect
<1>2. PICK tree \in HalfDeleted(disk[pt[1]][pt[2]]) : SetTree(pt[1], pt[2], tree)
    BY <1>1
<1>3. tree \in Trees
    BY DEF HalfDeleted, Trees
<1>4. /\ pt[1] \in {"generations", "failed"} /\ pt[2] \in Ids
      /\ pt[1] = "generations" => pt[2] # active \/ active \in damaged
    BY GarbageSpares
<1> QED
    BY <1>2, <1>3, <1>4 DEF DiskStep

\* The records the holder builds are not active.
LEMMA BuildingIsInactive ==
    ASSUME IInv, NEW t \in Ids, txn[t].state \notin {"ACTIVATING", "COMMITTED"}
    PROVE  t # active
BY BoundsAssumption DEF IInv, ActiveIsUsable

\* Every step changes the directories in one of the ways of DiskStep.
LEMMA StepIsDiskStep ==
    ASSUME IInv, [Next]_vars
    PROVE  DiskStep
<1> USE DEF IInv
<1>1. CASE disk' = disk
    BY <1>1 DEF DiskStep
<1>2. CASE CreateGeneration \/ CandidateTemp \/ CandidateRecord \/ Seal
    <2>1. job.t \in Ids /\ txn[job.t].state = "BUILDING"
        BY <1>2 DEF CreateGeneration, CandidateTemp, CandidateRecord, Seal, HolderOK, RecordOK
    <2>2. job.t # active
        BY <2>1, BuildingIsInactive
    <2>3. disk' = disk \/ \E tree \in Trees : SetTree("generations", job.t, tree)
        BY <1>2 DEF CreateGeneration, CandidateTemp, CandidateRecord, Seal, Trees
    <2> QED
        BY <2>1, <2>2, <2>3 DEF DiskStep
<1>3. ASSUME NEW p \in Places, NEW t \in Ids, CollectTree(p, t) PROVE DiskStep
    <2>1. <<p, t>> \in Garbage /\ SetTree(p, t, "absent") /\ damaged' = damaged
        BY <1>3 DEF CollectTree, outside
    <2>2. /\ p \in {"generations", "failed"}
          /\ p = "generations" => t # active \/ active \in damaged
        BY <2>1, GarbageSpares
    <2> QED
        BY <2>1, <2>2 DEF DiskStep, Trees
<1>4. CASE IOFault
    <2>1. damaged' = damaged
        BY <1>4 DEF IOFault
    <2>2. CASE job.pc \in {"candidate", "record"} /\ SetTree("generations", job.t, "absent")
        <3>1. job.t \in Ids /\ txn[job.t].state = "BUILDING"
            BY <2>2 DEF HolderOK, RecordOK
        <3> QED
            BY <2>2, <3>1, BuildingIsInactive DEF DiskStep, Trees
    <2> QED
        BY <1>4, <1>1, <2>1, <2>2, InterruptCollectEffect DEF IOFault
<1>5. CASE Crash
    BY <1>5, <1>1, InterruptCollectEffect DEF Crash
<1>6. CASE Damage
    <2>1. active \in Ids
        BY <1>6, BoundsAssumption DEF Damage, TypeOK
    <2> QED
        BY <1>6, <2>1 DEF Damage, DiskStep, Trees
<1>7. CASE RecoverStep
    <2> DEFINE d == DecideRecovery(Observation)
    <2>1. DecisionSound(d)
        BY RecoveryDecisionSound
    <2> HIDE DEF d
    <2>2. CASE disk' # disk
        <3>1. RecoverTree(d, Primary) /\ d.action \in TreeActions /\ ~Settled(d)
            BY <1>7, <2>2 DEF RecoverStep, RecoverSettle, RecoverBlock, RecoverRecord, d
        <3>2. /\ d.action = "REMOVE_EMPTY_GENERATION" /\ Primary \in Ids
              /\ txn[Primary].state \in FailableStates
            BY <2>1, <3>1 DEF DecisionSound, TreeActions
        <3>3. SetTree("generations", Primary, "absent")
            BY <3>1, <3>2 DEF RecoverTree
        <3>4. Primary # active
            BY <3>2, BuildingIsInactive DEF FailableStates
        <3> QED
            BY <3>2, <3>3, <3>4 DEF DiskStep, Trees
    <2> QED
        BY <1>1, <2>2
<1>8. CASE Request \/ Handler
    BY <1>8, <1>1
    DEF Request, Handler, RejectInvalidPointer, AdmitStart, RefuseStart, StartLock, CancelContext,
        StartCreate, StartSpawn, MarkTransactionFailed
<1>9. ASSUME NEW t \in Ids, SetInstallIdentity(t) \/ WorkerLock(t) \/ WorkerQuit(t) PROVE DiskStep
    BY <1>9, <1>1 DEF SetInstallIdentity, WorkerLock, WorkerQuit
<1>10. CASE \/ SealLoad \/ Build \/ PersistSealed \/ Publish \/ MarkActivating
            \/ WriteActive \/ Fail
    BY <1>10, <1>1 DEF SealLoad, Build, PersistSealed, Publish, MarkActivating, WriteActive, Fail
<1>11. CASE Reconcile \/ CollectEnd \/ RecoverPersist
    BY <1>11, <1>1 DEF Reconcile, ReconcileHome, ReconcilePath, ReconcileReadback, CollectEnd,
                       RecoverPersist
<1>12. CASE Drift \/ UNCHANGED vars
    BY <1>12, <1>1 DEF Drift, vars
<1> QED
    BY <1>2, <1>3, <1>4, <1>5, <1>6, <1>7, <1>8, <1>9, <1>10, <1>11, <1>12
    DEF Next, Daemon, Worker, Collect, Recovery, Trouble

\* Nothing appears in staging/.
LEMMA DiskStepKeepsStaging ==
    ASSUME IInv, DiskStep
    PROVE  NoStaging'
BY DEF IInv, TypeOK, DiskStep, SetTree, NoStaging

\* Where active.json does not move, its tree stays as it was, or was damaged.
LEMMA DiskStepKeepsActive ==
    ASSUME IInv, DiskStep, damaged \subseteq damaged', active # 0, active \notin damaged'
    PROVE  disk'["generations"][active] = "sealed"
<1> USE DEF IInv
<1>1. active \in Ids /\ disk["generations"][active] = "sealed"
    BY BoundsAssumption DEF ActiveIsUsable, TypeOK, Generation
<1> QED
    BY ZenonT(40), <1>1 DEF DiskStep, SetTree, TypeOK

\* active.json names a complete tree after every step.
LEMMA StepKeepsUsable ==
    ASSUME IInv, [Next]_vars
    PROVE  ActiveIsUsable'
<1> USE DEF IInv
<1>1. RecordStep /\ DiskStep
    BY StepIsRecordStep, StepIsDiskStep
<1>2. active' # 0 => txn'[active'].state \in {"ACTIVATING", "COMMITTED"}
    BY <1>1, RecordStepKeepsActive
<1>3. damaged \subseteq damaged'
    BY DEF Next, Request, Daemon, Trouble, Handler, Worker, Reconcile, Collect, Recovery, vars,
           outside, RejectInvalidPointer, AdmitStart, RefuseStart, StartLock, CancelContext,
           StartCreate, StartSpawn, MarkTransactionFailed, SetInstallIdentity, WorkerLock, WorkerQuit,
           SealLoad,
           CreateGeneration, CandidateTemp, CandidateRecord, Build, Seal, PersistSealed, Publish,
           MarkActivating, WriteActive, Fail, ReconcileHome, ReconcilePath, ReconcileReadback,
           CollectEnd, CollectTree, RecoverStep, RecoverPersist, IOFault, Crash, Drift, Damage
<1>4. ASSUME active' # 0, active' \notin damaged' PROVE disk'["generations"][active'] = "sealed"
    <2>1. CASE active' = active
        BY <1>1, <1>3, <1>4, <2>1, DiskStepKeepsActive
    <2>2. CASE active' # active
        <3>1. WriteActive
            BY <2>2
            DEF Next, Request, Daemon, Trouble, Handler, Worker, Reconcile, Collect, Recovery, vars,
                RejectInvalidPointer, AdmitStart, RefuseStart, StartLock, CancelContext,
                StartCreate, StartSpawn, MarkTransactionFailed, SetInstallIdentity, WorkerLock, WorkerQuit,
           SealLoad,
                CreateGeneration, CandidateTemp, CandidateRecord, Build, Seal, PersistSealed,
                Publish, MarkActivating, Fail, ReconcileHome, ReconcilePath, ReconcileReadback,
                CollectEnd, CollectTree, RecoverStep, RecoverPersist, IOFault, Crash, Drift, Damage
        <3> QED
            BY <2>2, <3>1 DEF WriteActive, Generation
    <2> QED
        BY <2>1, <2>2
<1> QED
    BY <1>2, <1>4 DEF ActiveIsUsable, Generation

-----------------------------------------------------------------------------
(* What the lock holder knows stays true.                                  *)

\* What a move of the lock holder keeps.
LEMMA GotoFields ==
    ASSUME TypeOK, NEW pc, Goto(pc)
    PROVE  job'.by = job.by /\ job'.pc = pc /\ job'.t = job.t /\ job'.w = job.w
           /\ job'.prev = job.prev
BY DEF Goto, TypeOK, Jobs

\* What the start of the best-effort pass keeps.
LEMMA TailFields ==
    ASSUME TypeOK, job' = [job EXCEPT !.pc = "home", !.tail = TRUE]
    PROVE  job'.by = job.by /\ job'.pc = "home" /\ job'.t = job.t /\ job'.w = job.w
           /\ job'.prev = job.prev
BY DEF TypeOK, Jobs

\* What planning the environment keeps.
LEMMA PlanFields ==
    ASSUME TypeOK, NEW p, job' = [job EXCEPT !.pc = "path", !.plan = p]
    PROVE  job'.by = job.by /\ job'.pc = "path" /\ job'.t = job.t /\ job'.w = job.w
           /\ job'.prev = job.prev
BY DEF TypeOK, Jobs

\* The lock when it is free and when it has just been taken.
LEMMA LockFields ==
    /\ Idle.by = "none" /\ Idle.pc = "idle"
    /\ Recovering.by = "recover" /\ Recovering.pc = "observe"
    /\ [Idle EXCEPT !.by = "start", !.pc = "create"].by = "start"
    /\ [Idle EXCEPT !.by = "start", !.pc = "create"].pc = "create"
    /\ \A t : /\ [Idle EXCEPT !.by = "worker", !.pc = "load", !.w = t].by = "worker"
              /\ [Idle EXCEPT !.by = "worker", !.pc = "load", !.w = t].pc = "load"
              /\ [Idle EXCEPT !.by = "worker", !.pc = "load", !.w = t].w = t
BY IdleType DEF Idle

\* A holder that lets go, or goes on to observe, has nothing to know.
LEMMA ReleasedOK ==
    ASSUME job' = Idle
    PROVE  HolderOK' /\ RecordOK' /\ job'.by = "none"
BY LockFields DEF HolderOK, RecordOK, WorkerPcs

\* Neither has a recovery that goes on to observe.
LEMMA ObservingOK ==
    ASSUME job'.by = "recover", job'.pc = "observe"
    PROVE  HolderOK' /\ RecordOK'
BY DEF HolderOK, RecordOK, WorkerPcs

\* A worker writes one record, and no request still owns that one.
LEMMA WorkerPending ==
    ASSUME IInv, job.by = "worker", job.pc # "load", pend' = pend,
           \A u \in Ids \ {job.t} : txn'[u] = txn[u],
           job'.by = "none" \/ (job'.by = "worker" /\ job'.t = job.t /\ job'.w = job.w)
    PROVE  PendingOK'
BY DEF IInv, PendingOK

\* While recovery runs there are no requests.
LEMMA RecoverPending ==
    ASSUME IInv, job.by = "recover", pend' = pend, job'.by # "worker"
    PROVE  PendingOK'
BY DEF IInv, PendingOK

\* The steps of a worker whose transaction is BUILDING.
LEMMA BuildingStep ==
    ASSUME IInv, job.pc \in {"mkdir", "candidate", "record", "build", "seal"},
           NEW pc \in {"candidate", "record", "build", "seal", "sealed", "fail"}, Goto(pc),
           txn' = txn, pend' = pend
    PROVE  HolderOK' /\ PendingOK' /\ RecordOK'
<1>1. job.by = "worker" /\ job.t \in Ids /\ job.pc # "load" /\ txn[job.t].state = "BUILDING"
    BY DEF IInv, HolderOK, RecordOK, WorkerPcs
<1>2. job'.by = job.by /\ job'.t = job.t /\ job'.w = job.w /\ job'.pc = pc
    BY GotoFields DEF IInv
<1>3. PendingOK'
    BY <1>1, <1>2, WorkerPending
<1>4. HolderOK'
    BY <1>1, <1>2 DEF IInv, HolderOK, WorkerPcs
<1>5. RecordOK'
    BY <1>1, <1>2 DEF RecordOK
<1> QED
    BY <1>3, <1>4, <1>5

\* What the holder knows, and what requests own, is preserved by every step.
LEMMA StepKeepsHolder ==
    ASSUME IInv, [Next]_vars
    PROVE  HolderOK' /\ PendingOK' /\ RecordOK'
<1> USE DEF IInv
<1> DEFINE Inv == HolderOK /\ PendingOK /\ RecordOK
<1>1. ASSUME RejectInvalidPointer \/ AdmitStart \/ RefuseStart PROVE Inv'
    <2>1. UNCHANGED <<job, txn, pend, active>>
        BY <1>1 DEF RejectInvalidPointer, AdmitStart, RefuseStart, environment, outside
    <2> QED
        BY <2>1 DEF HolderOK, PendingOK, RecordOK, WorkerPcs
<1>2. ASSUME StartLock PROVE Inv'
    BY <1>2, LockFields
    DEF HolderOK, PendingOK, RecordOK, TypeOK, WorkerPcs, environment, outside, StartLock,
        FailFailable
<1>3. ASSUME StartCreate PROVE Inv'
    <2>1. HolderOK' /\ RecordOK' /\ job'.by = "none"
        BY <1>3, ReleasedOK DEF StartCreate, Release
    <2>2. ASSUME NEW t \in Ids, pend'[t] = "created" PROVE txn'[t].state \in {"CREATED", "FAILED"}
        <3>1. CASE HasNonterminal
            BY <1>3, <2>2, <3>1 DEF StartCreate, PendingOK
        <3>2. CASE ~HasNonterminal
            <4>1. PICK u \in Ids : /\ txn' = [txn EXCEPT ![u] = [NoTxn EXCEPT !.state = "CREATED"]]
                                   /\ pend' = [pend EXCEPT ![u] = "created"]
                BY <1>3, <3>2 DEF StartCreate
            <4>2. txn'[u].state = "CREATED"
                BY <4>1 DEF TypeOK, NoTxn
            <4>3. t # u => txn'[t] = txn[t] /\ pend'[t] = pend[t]
                BY <4>1 DEF TypeOK
            <4> QED
                BY <2>2, <4>2, <4>3 DEF PendingOK
        <3> QED
            BY <3>1, <3>2
    <2> QED
        BY <2>1, <2>2 DEF PendingOK
<1>4. ASSUME NEW t \in Ids, StartSpawn(t) PROVE Inv'
    BY <1>4
    DEF HolderOK, PendingOK, RecordOK, TypeOK, WorkerPcs, environment, outside, StartSpawn
<1>5. ASSUME NEW t \in Ids, MarkTransactionFailed(t) PROVE Inv'
    <2>1. /\ job' = job /\ active' = active /\ pend[t] = "created"
          /\ txn[t].state \in {"CREATED", "FAILED"} /\ txn'[t].state = "FAILED"
          /\ \A u \in Ids \ {t} : txn'[u] = txn[u]
        BY <1>5, SaveStateEffect
        DEF MarkTransactionFailed, PendingOK, TerminalStates
    <2>2. job.by = "worker" /\ job.pc # "load" => job.t # t
        BY <2>1 DEF PendingOK
    <2>3. job.by # "recover"
        BY <2>1 DEF PendingOK
    <2>4. job.pc \notin {"idle", "create", "load", "observe", "gc"} => job.t \in Ids \ {t}
        BY <2>2, <2>3 DEF HolderOK, TypeOK, Jobs
    <2>5. HolderOK' /\ RecordOK'
        BY <2>1, <2>4 DEF HolderOK, RecordOK
    <2>6. \A u \in Ids : pend'[u] = pend[u] \/ pend'[u] = "none"
        BY <1>5 DEF MarkTransactionFailed, TypeOK
    <2>7. PendingOK'
        BY <2>1, <2>6 DEF PendingOK, HolderOK
    <2> QED
        BY <2>5, <2>7
<1>6. ASSUME NEW t \in Ids, CancelContext(t) PROVE Inv'
    BY <1>6
    DEF HolderOK, PendingOK, RecordOK, TypeOK, WorkerPcs, environment, outside, CancelContext
<1>7. ASSUME NEW t \in Ids, WorkerLock(t) PROVE Inv'
    BY <1>7, LockFields
    DEF HolderOK, PendingOK, RecordOK, TypeOK, WorkerPcs, environment, outside, WorkerLock
<1>8. ASSUME NEW t \in Ids, SetInstallIdentity(t) \/ WorkerQuit(t) PROVE Inv'
    <2>1. /\ job' = job /\ txn' = txn /\ active' = active /\ pend[t] # "none"
          /\ pend'[t] \in {"begun", "none"} /\ \A u \in Ids \ {t} : pend'[u] = pend[u]
        BY <1>8 DEF SetInstallIdentity, WorkerQuit, TypeOK
    <2>2. HolderOK' /\ RecordOK'
        BY <2>1 DEF HolderOK, RecordOK
    <2>3. PendingOK'
        BY <2>1 DEF PendingOK, HolderOK
    <2> QED
        BY <2>2, <2>3
<1>9. ASSUME SealLoad PROVE Inv'
    <2>1. job.by = "worker" /\ identity \in Ids /\ pend' = pend /\ pend[identity] # "created"
        BY <1>9, LoadedIdentity, BoundsAssumption DEF SealLoad, IdentityOK
    <2>2. CASE txn[identity].state = "CREATED"
        <3>1. txn'[identity].state = "BUILDING" /\ \A u \in Ids \ {identity} : txn'[u] = txn[u]
            BY <1>9, <2>1, <2>2, SaveStateEffect DEF SealLoad
        <3>2. job'.by = job.by /\ job'.pc = "mkdir" /\ job'.t = identity /\ job'.w = job.w
            BY <1>9, <2>2 DEF SealLoad, TypeOK, Jobs
        <3>3. HolderOK' /\ RecordOK'
            BY <2>1, <3>1, <3>2 DEF HolderOK, RecordOK, WorkerPcs
        <3>4. PendingOK'
            BY <2>1, <3>1, <3>2 DEF PendingOK
        <3> QED
            BY <3>3, <3>4
    <2>3. CASE txn[identity].state # "CREATED"
        <3>1. job' = Idle /\ txn' = txn
            BY <1>9, <2>3 DEF SealLoad, Release
        <3> QED
            BY <2>1, <3>1, ReleasedOK DEF PendingOK
    <2> QED
        BY <2>2, <2>3
<1>10. ASSUME CreateGeneration PROVE Inv'
    BY <1>10, BuildingStep DEF CreateGeneration
<1>11. ASSUME CandidateTemp PROVE Inv'
    BY <1>11, BuildingStep DEF CandidateTemp
<1>12. ASSUME CandidateRecord PROVE Inv'
    BY <1>12, BuildingStep DEF CandidateRecord
<1>13. ASSUME Build PROVE Inv'
    BY <1>13, BuildingStep DEF Build
<1>14. ASSUME Seal PROVE Inv'
    BY <1>14, BuildingStep DEF Seal
<1>15. ASSUME PersistSealed PROVE Inv'
    BY SMTT(30), <1>15, GotoFields
    DEF HolderOK, PendingOK, RecordOK, TypeOK, WorkerPcs, environment, outside, PersistSealed
<1>16. ASSUME Publish PROVE Inv'
    <2>1. /\ job.by = "worker" /\ job.t \in Ids /\ pend' = pend /\ job.pc # "load"
          /\ txn[job.t].state = "SEALED"
        BY <1>16 DEF Publish, HolderOK, RecordOK, WorkerPcs
    <2>2. CASE Release /\ txn' = txn
        BY <2>1, <2>2, ReleasedOK, WorkerPending DEF Release
    <2>3. CASE Goto("fail") /\ txn' = txn
        <3>1. job'.by = job.by /\ job'.pc = "fail" /\ job'.t = job.t /\ job'.w = job.w
            BY <2>3, GotoFields
        <3> QED
            BY <2>1, <2>3, <3>1, WorkerPending DEF HolderOK, RecordOK, WorkerPcs
    <2>4. CASE SaveState(job.t, "PUBLISHED") /\ Goto("activating")
        <3>1. txn'[job.t].state = "PUBLISHED" /\ \A u \in Ids \ {job.t} : txn'[u] = txn[u]
            BY <2>1, <2>4, SaveStateEffect
        <3>2. job'.by = job.by /\ job'.pc = "activating" /\ job'.t = job.t /\ job'.w = job.w
            BY <2>4, GotoFields
        <3> QED
            BY <2>1, <3>1, <3>2, WorkerPending DEF HolderOK, RecordOK, WorkerPcs
    <2> QED
        BY <1>16, <2>2, <2>3, <2>4 DEF Publish
<1>17. ASSUME MarkActivating PROVE Inv'
    <2>1. /\ job.by = "worker" /\ job.t \in Ids /\ pend' = pend /\ active' = active
          /\ txn[job.t].state = "PUBLISHED" /\ job.pc # "load"
        BY <1>17 DEF MarkActivating, HolderOK, RecordOK, WorkerPcs
    <2>2. CASE Release /\ txn' = txn
        BY <2>1, <2>2, ReleasedOK, WorkerPending DEF Release
    <2>3. CASE /\ txn' = [txn EXCEPT ![job.t].state = "ACTIVATING", ![job.t].before = active]
               /\ Goto("point")
        <3>1. txn'[job.t].state = "ACTIVATING" /\ \A u \in Ids \ {job.t} : txn'[u] = txn[u]
            BY <2>1, <2>3, SaveActivatingEffect
        <3>2. job'.by = job.by /\ job'.pc = "point" /\ job'.t = job.t /\ job'.w = job.w
            BY <2>3, GotoFields
        <3>3. active # job.t
            BY <2>1, BuildingIsInactive
        <3> QED
            BY <2>1, <3>1, <3>2, <3>3, WorkerPending DEF HolderOK, RecordOK, WorkerPcs
    <2> QED
        BY <1>17, <2>2, <2>3 DEF MarkActivating
<1>18. ASSUME WriteActive PROVE Inv'
    <2>1. /\ job.pc = "point" /\ job.by \in {"worker", "recover"} /\ job.t \in Ids
          /\ pend' = pend /\ txn' = txn
        BY <1>18 DEF WriteActive, HolderOK, TypeOK, Jobs
    <2>2. CASE job' = Idle
        BY <2>1, <2>2, ReleasedOK, WorkerPending, RecoverPending
    <2>3. CASE job.by = "recover" /\ NextStep
        <3>1. job'.by = "recover" /\ job'.pc = "observe"
            BY <2>1, <2>3, NextStepType DEF TypeOK, StepOK
        <3> QED
            BY <2>1, <2>3, <3>1, ObservingOK, RecoverPending
    <2>4. CASE job.by = "worker" /\ Goto("home")
        <3>1. job'.by = job.by /\ job'.pc = "home" /\ job'.t = job.t /\ job'.w = job.w
            BY <2>4, GotoFields
        <3> QED
            BY <2>1, <2>4, <3>1, WorkerPending DEF HolderOK, RecordOK, WorkerPcs
    <2> QED
        BY <1>18, <2>1, <2>2, <2>3, <2>4 DEF WriteActive, ReturnError, Release
<1>19. ASSUME Fail PROVE Inv'
    BY <1>19, SaveStateEffect, LockFields
    DEF HolderOK, PendingOK, RecordOK, TypeOK, WorkerPcs, environment, outside, Fail, Release
<1>20. ASSUME ReconcileHome PROVE Inv'
    <2>1. /\ job.pc = "home" /\ job.by \in {"worker", "recover"} /\ job.t \in Ids
          /\ pend' = pend /\ txn' = txn /\ active' = active
        BY <1>20 DEF ReconcileHome, HolderOK, TypeOK, Jobs
    <2>2. CASE job' = Idle
        BY <2>1, <2>2, ReleasedOK, WorkerPending, RecoverPending
    <2>3. CASE job.by = "recover" /\ NextStep
        <3>1. job'.by = "recover" /\ job'.pc = "observe"
            BY <2>1, <2>3, NextStepType DEF TypeOK, StepOK
        <3> QED
            BY <2>1, <2>3, <3>1, ObservingOK, RecoverPending
    <2>4. CASE /\ txn[job.t].state \in {"ACTIVATING", "COMMITTED"}
               /\ txn[job.t].state = "ACTIVATING" => active = job.t
               /\ \E p : job' = [job EXCEPT !.pc = "path", !.plan = p]
        <3>1. job'.by = job.by /\ job'.pc = "path" /\ job'.t = job.t /\ job'.w = job.w
            BY <2>4, PlanFields
        <3>2. HolderOK' /\ RecordOK'
            BY <2>1, <2>4, <3>1 DEF HolderOK, RecordOK, WorkerPcs
        <3> QED
            BY <2>1, <3>1, <3>2, WorkerPending, RecoverPending
    <2> QED
        BY <1>20, <2>2, <2>3, <2>4 DEF ReconcileHome, EndTail, ReturnError, Release
<1>21. ASSUME ReconcilePath PROVE Inv'
    BY SMTT(30), <1>21, GotoFields
    DEF HolderOK, PendingOK, RecordOK, TypeOK, WorkerPcs, environment, outside, ReconcilePath
<1>22. ASSUME ReconcileReadback PROVE Inv'
    <2>1. /\ job.pc = "readback" /\ job.by \in {"worker", "recover"} /\ job.t \in Ids
          /\ pend' = pend /\ active' = active
        BY <1>22 DEF ReconcileReadback, HolderOK, TypeOK, Jobs
    <2>2. CASE job' = Idle /\ txn' = txn
        BY <2>1, <2>2, ReleasedOK, WorkerPending, RecoverPending
    <2>3. CASE job.by = "recover" /\ NextStep
        <3>1. job'.by = "recover" /\ job'.pc = "observe"
            BY <2>1, <2>3, NextStepType DEF TypeOK, StepOK
        <3> QED
            BY <2>1, <2>3, <3>1, ObservingOK, RecoverPending
    <2>4. CASE SaveState(job.t, "COMMITTED") /\ Goto("gc")
        <3>1. \A u \in Ids \ {job.t} : txn'[u] = txn[u]
            BY <2>1, <2>4, SaveStateEffect
        <3>2. job'.by = job.by /\ job'.pc = "gc" /\ job'.t = job.t /\ job'.w = job.w
            BY <2>4, GotoFields
        <3>3. HolderOK' /\ RecordOK'
            <4>1. txn'[job.t].state = "COMMITTED"
                BY <2>1, <2>4, SaveStateEffect
            <4> QED
                BY <2>1, <3>2, <4>1 DEF HolderOK, RecordOK, WorkerPcs
        <3> QED
            BY <2>1, <3>1, <3>2, <3>3, WorkerPending, RecoverPending
    <2>5. CASE job' = [job EXCEPT !.pc = "home", !.tail = TRUE] /\ txn' = txn
        <3>1. job'.by = job.by /\ job'.pc = "home" /\ job'.t = job.t /\ job'.w = job.w
            BY <2>5, TailFields
        <3>2. HolderOK' /\ RecordOK'
            BY <2>1, <2>5, <3>1 DEF HolderOK, RecordOK, WorkerPcs
        <3> QED
            BY <2>1, <2>5, <3>1, <3>2, WorkerPending, RecoverPending
    <2> QED
        BY <1>22, <2>2, <2>3, <2>4, <2>5 DEF ReconcileReadback, EndTail, ReturnError, Release
<1>23. ASSUME NEW p \in Places, NEW t \in Ids, CollectTree(p, t) PROVE Inv'
    BY <1>23
    DEF HolderOK, PendingOK, RecordOK, TypeOK, WorkerPcs, environment, outside, CollectTree
<1>24. ASSUME CollectEnd PROVE Inv'
    BY <1>24, LockFields, TailFields
    DEF HolderOK, PendingOK, RecordOK, TypeOK, WorkerPcs, environment, outside, CollectEnd
<1>25. ASSUME RecoverPersist PROVE Inv'
    <2>1. job.by = "recover" /\ pend' = pend
        BY <1>25 DEF RecoverPersist, HolderOK
    <2>2. job'.by = "recover" /\ job'.pc = "observe"
        BY <1>25, NextStepType DEF RecoverPersist, TypeOK, StepOK
    <2> QED
        BY <2>1, <2>2, ObservingOK, RecoverPending
<1>26. ASSUME Drift \/ Damage PROVE Inv'
    BY ZenonT(40), <1>26
    DEF HolderOK, PendingOK, RecordOK, TypeOK, WorkerPcs, environment, outside, Drift, Damage
<1>27. ASSUME Crash PROVE Inv'
    BY <1>27, LockFields
    DEF HolderOK, PendingOK, RecordOK, TypeOK, WorkerPcs, environment, outside, Crash
<1>28. ASSUME UNCHANGED vars PROVE Inv'
    BY <1>28
    DEF HolderOK, PendingOK, RecordOK, TypeOK, WorkerPcs, environment, outside, vars
<1>29. ASSUME IOFault PROVE Inv'
    <2>1. /\ job.by # "none" /\ pend' = pend /\ txn' = txn /\ active' = active
          /\ job.by \in {"start", "worker", "recover"}
        BY <1>29 DEF IOFault, TypeOK, Jobs
    <2>2. CASE job' = Idle
        <3>1. PendingOK'
            BY <2>1, <2>2, LockFields DEF PendingOK
        <3> QED
            BY <2>2, <3>1, ReleasedOK
    <2>3. CASE job.pc \in {"mkdir", "candidate", "record", "build", "seal"} /\ Goto("fail")
        <3>1. job'.by = job.by /\ job'.pc = "fail" /\ job'.t = job.t /\ job'.w = job.w
            BY <2>3, GotoFields
        <3>2. job.by = "worker" /\ job.t \in Ids /\ txn[job.t].state = "BUILDING"
            BY <2>3 DEF HolderOK, RecordOK, WorkerPcs
        <3> QED
            BY <2>1, <2>3, <3>1, <3>2, WorkerPending DEF HolderOK, RecordOK, WorkerPcs
    <2>4. CASE /\ job.pc = "gc" /\ ~(job.by = "recover" /\ Settled(job.prev))
               /\ job' = [job EXCEPT !.pc = "home", !.tail = TRUE]
        <3>1. job'.by = job.by /\ job'.pc = "home" /\ job'.t = job.t /\ job'.w = job.w
            BY <2>4, TailFields
        <3>2. job.by \in {"worker", "recover"} /\ job.t \in Ids
            BY <2>1, <2>4 DEF HolderOK
        <3>3. HolderOK' /\ RecordOK'
            BY <2>1, <2>4, <3>1, <3>2 DEF HolderOK, RecordOK, WorkerPcs
        <3> QED
            BY <2>1, <2>4, <3>1, <3>2, <3>3, WorkerPending, RecoverPending
    <2>5. CASE job.pc \in EnvPcs /\ job.by = "recover" /\ NextStep
        <3>1. job'.by = "recover" /\ job'.pc = "observe"
            BY <2>5, NextStepType DEF TypeOK, StepOK, EnvPcs
        <3> QED
            BY <2>1, <2>5, <3>1, ObservingOK, RecoverPending
    <2> QED
        BY <1>29, <2>2, <2>3, <2>4, <2>5 DEF IOFault, EndTail, ReturnError, Release
<1>30. ASSUME RecoverStep PROVE Inv'
    <2> DEFINE d == DecideRecovery(Observation)
    <2>1. DecisionSound(d)
        BY RecoveryDecisionSound
    <2>2. job.by = "recover" /\ job.pc = "observe" /\ pend' = pend /\ active' = active
        BY <1>30 DEF RecoverStep, HolderOK
    <2> HIDE DEF d
    <2>3. HolderOK' /\ RecordOK' /\ job'.by # "worker"
        <3>1. CASE job' = Idle
            BY <3>1, ReleasedOK
        <3>2. CASE Settled(d) /\ job' = [job EXCEPT !.pc = "gc", !.prev = d]
            <4>1. job'.by = job.by /\ job'.pc = "gc" /\ job'.prev = d
                BY <3>2 DEF TypeOK, Jobs
            <4> QED
                BY <2>2, <3>2, <4>1 DEF HolderOK, RecordOK, WorkerPcs
        <3>3. CASE d.action \in TreeActions /\ RecoverTree(d, Primary) /\ ~Settled(d)
            <4>1. /\ Primary \in Ids /\ txn[Primary].state \in FailableStates
                  /\ d.next = "FAILED"
                BY <2>1, <3>3 DEF DecisionSound, TreeActions
            <4>2. /\ job'.by = job.by /\ job'.pc = "persist" /\ job'.t = Primary
                  /\ job'.prev = d /\ txn' = txn
                BY <3>3 DEF RecoverTree, TypeOK, Jobs
            <4> QED
                BY <2>2, <4>1, <4>2 DEF HolderOK, RecordOK, WorkerPcs
        <3>4. CASE RecoverRecord(d, Primary) /\ d.action \notin TreeActions
                   /\ ~Settled(d) /\ d.action # "BLOCK_UNSAFE"
            <4>1. Primary \in Ids
                BY <2>1, <3>4 DEF DecisionSound
            <4>2. CASE d.action = "RECONCILE_ENV"
                <5>1. job'.by = job.by /\ job'.pc = "home" /\ job'.t = Primary
                    BY <3>4, <4>2 DEF RecoverRecord, TypeOK, Jobs
                <5> QED
                    BY <2>2, <4>1, <5>1 DEF HolderOK, RecordOK, WorkerPcs
            <4>3. CASE d.action = "ACTIVATE"
                <5>1. job'.by = job.by /\ job'.pc = "point" /\ job'.t = Primary
                    BY <3>4, <4>3 DEF RecoverRecord, TypeOK, Jobs
                <5>2. txn[Primary].state = "ACTIVATING" /\ active # Primary /\ d.next = ""
                    BY <2>1, <3>4, <4>3 DEF DecisionSound
                <5>3. txn' = txn
                    BY <3>4, <4>3, <5>2 DEF RecoverRecord, SavedRecords
                <5> QED
                    BY <2>2, <4>1, <5>1, <5>2, <5>3 DEF HolderOK, RecordOK, WorkerPcs
            <4>4. CASE d.action \notin {"RECONCILE_ENV", "ACTIVATE"}
                <5>1. job' = [job EXCEPT !.step = job.step + 1, !.prev = d]
                    BY <3>4, <4>4 DEF RecoverRecord
                <5>2. job'.by = job.by /\ job'.pc = job.pc
                    BY <5>1 DEF TypeOK, Jobs
                <5> QED
                    BY <2>2, <5>2, ObservingOK
            <4> QED
                BY <4>2, <4>3, <4>4
        <3> QED
            BY <1>30, <3>1, <3>2, <3>3, <3>4
            DEF RecoverStep, RecoverSettle, RecoverBlock, Release, d
    <2> QED
        BY <2>2, <2>3, RecoverPending
<1> QED
    BY <1>1, <1>2, <1>3, <1>4, <1>5, <1>6, <1>7, <1>8, <1>9, <1>10, <1>11, <1>12, <1>13, <1>14,
       <1>15, <1>16, <1>17, <1>18, <1>19, <1>20, <1>21, <1>22, <1>23, <1>24, <1>25, <1>26,
       <1>27, <1>28, <1>29, <1>30
    DEF Next, Request, Daemon, Trouble, Handler, Worker, Reconcile, Collect, Recovery

-----------------------------------------------------------------------------
(* The shared identity.                                                    *)

\* The steps of whoever holds install.lock.
HolderStep ==
    \/ SealLoad \/ CreateGeneration \/ CandidateTemp \/ CandidateRecord \/ Build \/ Seal
    \/ PersistSealed \/ Publish \/ MarkActivating \/ WriteActive \/ Fail
    \/ Reconcile \/ Collect \/ IOFault \/ Recovery

\* Only recovery observes.
ObserverOK == job.pc = "observe" => job.by = "recover"

\* Nobody becomes the lock's worker except through WorkerLock.
LEMMA WorkerStays ==
    ASSUME TypeOK, ObserverOK, HolderStep, job'.by = "worker"
    PROVE  job.by = "worker" /\ job'.w = job.w /\ (SealLoad \/ job'.t = job.t)
<1>1. ASSUME NEW pc, Goto(pc) PROVE job'.by = job.by /\ job'.w = job.w /\ job'.t = job.t
    BY <1>1, GotoFields
<1>2. job' # Idle
    BY LockFields
<1>3. ~NextStep
    BY DEF NextStep, Recovering, Idle
<1>4. ASSUME job' = [job EXCEPT !.pc = "home", !.tail = TRUE] PROVE job'.by = job.by /\ job'.w = job.w /\ job'.t = job.t
    BY <1>4, TailFields
<1>5. CASE CreateGeneration \/ CandidateTemp \/ CandidateRecord \/ Build \/ Seal
           \/ PersistSealed \/ Publish \/ MarkActivating \/ WriteActive \/ Fail
    BY <1>1, <1>2, <1>3, <1>5
    DEF CreateGeneration, CandidateTemp, CandidateRecord, Build, Seal, PersistSealed,
        Publish, MarkActivating, WriteActive, Fail, Release, ReturnError
<1>6. CASE Reconcile
    <2>1. ASSUME NEW p, job' = [job EXCEPT !.pc = "path", !.plan = p]
          PROVE  job'.by = job.by /\ job'.w = job.w /\ job'.t = job.t
        BY <2>1, PlanFields
    <2> QED
        BY <1>1, <1>2, <1>3, <1>4, <1>6, <2>1
        DEF Reconcile, ReconcileHome, ReconcilePath, ReconcileReadback, EndTail, Release, ReturnError
<1>7. CASE Collect \/ IOFault
    BY <1>1, <1>2, <1>3, <1>4, <1>7
    DEF Collect, CollectEnd, CollectTree, IOFault, EndTail, Release, ReturnError
<1>8. CASE RecoverPersist
    BY <1>3, <1>8 DEF RecoverPersist
<1>9. CASE RecoverStep
    <2>1. job.by = "recover"
        BY <1>9 DEF RecoverStep, ObserverOK
    <2> QED
        BY <1>2, <1>9, <2>1
        DEF RecoverStep, RecoverSettle, RecoverBlock, RecoverTree, RecoverRecord, Release, TypeOK, Jobs
<1>10. CASE SealLoad
    <2>1. \/ job' = [job EXCEPT !.pc = "mkdir", !.t = identity]
          \/ job' = Idle
        BY <1>10 DEF SealLoad, Release
    <2>2. job.by = "worker" /\ job'.w = job.w
        BY <1>2, <2>1 DEF TypeOK, Jobs
    <2> QED
        BY <1>10, <2>2
<1> QED
    BY <1>5, <1>6, <1>7, <1>8, <1>9, <1>10 DEF HolderStep, Recovery

\* A record that exists never disappears, whatever the disk was.
LEMMA RecordsRemain ==
    ASSUME TypeOK, [Next]_vars, NEW t \in Ids, txn[t].state # "NONE"
    PROVE  txn'[t].state # "NONE"
<1>1. CASE txn' = txn
    BY <1>1
<1>2. CASE txn' = FailFailable
    BY <1>2, FailFailableEffect
<1>3. ASSUME NEW u, NEW s \in ValidStates, SaveState(u, s) PROVE txn'[t].state # "NONE"
    BY <1>3 DEF SaveState, TypeOK, TxnRecords, ValidStates, NonterminalStates, TerminalStates
<1>4. ASSUME NEW u, txn' = [txn EXCEPT ![u].state = "ACTIVATING", ![u].before = active]
      PROVE  txn'[t].state # "NONE"
    BY <1>4 DEF TypeOK, TxnRecords
<1>5. CASE StartLock
    BY <1>2, <1>5 DEF StartLock
<1>6. CASE StartCreate
    <2>1. CASE txn' = txn
        BY <1>1, <2>1
    <2>2. CASE txn' # txn
        <3>1. PICK u \in Ids : txn' = [txn EXCEPT ![u] = [NoTxn EXCEPT !.state = "CREATED"]]
            BY <1>6, <2>2 DEF StartCreate
        <3> QED
            BY <3>1 DEF TypeOK, NoTxn
    <2> QED
        BY <2>1, <2>2
<1>7. ASSUME NEW u \in Ids, MarkTransactionFailed(u) PROVE txn'[t].state # "NONE"
    BY <1>1, <1>3, <1>7 DEF MarkTransactionFailed, ValidStates, TerminalStates
<1>8. CASE SealLoad \/ Publish \/ Fail
    BY <1>1, <1>3, <1>8 DEF SealLoad, Publish, Fail, ValidStates, NonterminalStates, TerminalStates
<1>9. CASE PersistSealed
    BY <1>9 DEF PersistSealed, TypeOK
<1>10. CASE MarkActivating
    BY <1>1, <1>4, <1>10 DEF MarkActivating
<1>11. CASE ReconcileReadback
    BY <1>1, <1>3, <1>11 DEF ReconcileReadback, ValidStates, TerminalStates
<1>12. CASE RecoverStep
    <2> DEFINE d == DecideRecovery(Observation)
    <2>1. d.next = "" \/ d.next \in ValidStates
        BY DecideRecoveryType DEF Decisions
    <2> HIDE DEF d
    <2>2. txn' = txn \/ txn' = SavedRecords(d, Primary)
        BY <1>12 DEF RecoverStep, RecoverSettle, RecoverBlock, RecoverTree, RecoverRecord, d
    <2>3. CASE txn' = SavedRecords(d, Primary)
        <3>1. CASE d.action = "FAIL_FAILABLE_EXTRAS"
            BY <1>2, <2>3, <3>1 DEF SavedRecords
        <3>2. CASE d.action = "PERSIST_ACTIVATING"
            BY <1>4, <2>3, <3>2 DEF SavedRecords
        <3>3. CASE d.action \notin {"FAIL_FAILABLE_EXTRAS", "PERSIST_ACTIVATING"}
            <4>1. txn' = txn \/ (d.next \in ValidStates /\ txn' = [txn EXCEPT ![Primary].state = d.next])
                BY Zenon, <2>1, <2>3, <3>3 DEF SavedRecords
            <4> QED
                BY <1>1, <1>3, <4>1 DEF SaveState
        <3> QED
            BY <3>1, <3>2, <3>3
    <2> QED
        BY <1>1, <2>2, <2>3
<1>13. CASE RecoverPersist
    <2>1. job.prev.next = "" \/ job.prev.next \in ValidStates
        BY DEF TypeOK, Jobs, Decisions
    <2>2. txn' = txn \/ (job.prev.next \in ValidStates /\ SaveState(job.t, job.prev.next))
        BY Zenon, <1>13, <2>1 DEF RecoverPersist
    <2> QED
        BY <1>1, <1>3, <2>2
<1>14. CASE RejectInvalidPointer \/ AdmitStart \/ RefuseStart \/ WriteActive
    BY <1>14, <1>1 DEF RejectInvalidPointer, AdmitStart, RefuseStart, WriteActive
<1>15. ASSUME NEW u \in Ids,
              \/ StartSpawn(u) \/ CancelContext(u)
              \/ SetInstallIdentity(u) \/ WorkerLock(u) \/ WorkerQuit(u)
       PROVE  txn'[t].state # "NONE"
    BY <1>15, <1>1 DEF StartSpawn, CancelContext, SetInstallIdentity, WorkerLock, WorkerQuit
<1>16. CASE CreateGeneration \/ CandidateTemp \/ CandidateRecord \/ Build \/ Seal
    BY <1>16, <1>1 DEF CreateGeneration, CandidateTemp, CandidateRecord, Build, Seal
<1>17. CASE ReconcileHome \/ ReconcilePath \/ Collect
    BY <1>17, <1>1 DEF ReconcileHome, ReconcilePath, Collect, CollectTree, CollectEnd
<1>18. CASE Trouble \/ UNCHANGED vars
    BY <1>18, <1>1 DEF Trouble, IOFault, Crash, Drift, Damage, vars
<1> QED
    BY <1>5, <1>6, <1>7, <1>8, <1>9, <1>10, <1>11, <1>12, <1>13, <1>14, <1>15, <1>16, <1>17, <1>18
    DEF Next, Request, Daemon, Handler, Worker, Reconcile, Recovery

\* The identity a worker reads is always one that was set, of a stored operation.
LEMMA StepKeepsIdentity ==
    ASSUME TypeOK, IdentityOK, ObserverOK, [Next]_vars
    PROVE  IdentityOK'
<1>0. \A t \in Ids : txn[t].state # "NONE" => txn'[t].state # "NONE"
    BY RecordsRemain
<1>1. identity # 0 => identity \in Ids
    BY SMTT(30), BoundsAssumption DEF TypeOK
<1>2. ASSUME pend' = pend, identity' = identity, job'.by = "worker" => job.by = "worker"
      PROVE  IdentityOK'
    BY <1>0, <1>1, <1>2 DEF IdentityOK
<1>3. CASE HolderStep
    <2>1. pend' = pend /\ identity' = identity
        BY <1>3
        DEF HolderStep, SealLoad, CreateGeneration, CandidateTemp, CandidateRecord, Build, Seal,
            PersistSealed, Publish, MarkActivating, WriteActive, Fail, Reconcile, ReconcileHome,
            ReconcilePath, ReconcileReadback, Collect, CollectEnd, CollectTree, IOFault, Recovery,
            RecoverStep, RecoverPersist
    <2> QED
        BY <1>2, <1>3, <2>1, WorkerStays
<1>4. CASE \/ RejectInvalidPointer \/ AdmitStart \/ RefuseStart \/ StartLock
           \/ Drift \/ Damage \/ UNCHANGED vars
    BY <1>2, <1>4, LockFields
    DEF RejectInvalidPointer, AdmitStart, RefuseStart, StartLock, Drift, Damage, vars
<1>5. CASE StartCreate
    <2>1. job'.by = "none" /\ identity' = identity
        BY <1>5, LockFields DEF StartCreate, Release
    <2>2. CASE pend' = pend
        BY <1>2, <2>1, <2>2
    <2>3. CASE pend' # pend
        <3>1. PICK t \in Ids : /\ FreshId(t)
                               /\ txn' = [txn EXCEPT ![t] = [NoTxn EXCEPT !.state = "CREATED"]]
                               /\ pend' = [pend EXCEPT ![t] = "created"]
            BY <1>5, <2>3 DEF StartCreate
        <3>2. txn[t].state = "NONE" /\ txn'[t].state # "NONE"
            BY <3>1 DEF FreshId, TypeOK, NoTxn
        <3>3. \A u \in Ids : pend'[u] = IF u = t THEN "created" ELSE pend[u]
            BY <3>1 DEF TypeOK
        <3>4. t # identity
            BY <3>2, BoundsAssumption DEF IdentityOK
        <3> QED
            BY <1>0, <1>1, <2>1, <3>2, <3>3, <3>4 DEF IdentityOK
    <2> QED
        BY <2>2, <2>3
<1>6. ASSUME NEW t \in Ids, \/ StartSpawn(t) \/ MarkTransactionFailed(t) \/ CancelContext(t)
                            \/ SetInstallIdentity(t) \/ WorkerLock(t) \/ WorkerQuit(t)
      PROVE  IdentityOK'
    <2>1. CASE CancelContext(t)
        BY <1>2, <2>1 DEF CancelContext
    <2>2. CASE StartSpawn(t) \/ MarkTransactionFailed(t) \/ WorkerQuit(t)
        <3>1. /\ job' = job /\ identity' = identity
              /\ \A u \in Ids : pend'[u] = pend[u] \/ (u = t /\ pend'[u] \in {"spawned", "none"})
              /\ pend[t] # "none"
            BY <2>2 DEF StartSpawn, MarkTransactionFailed, WorkerQuit, TypeOK
        <3> QED
            BY <1>0, <1>1, <3>1 DEF IdentityOK
    <2>3. CASE SetInstallIdentity(t)
        <3>1. /\ job' = job /\ identity' = t /\ pend[t] = "spawned" /\ pend'[t] = "begun"
              /\ \A u \in Ids \ {t} : pend'[u] = pend[u]
            BY <2>3 DEF SetInstallIdentity, TypeOK
        <3> QED
            BY <1>0, <3>1, BoundsAssumption DEF IdentityOK
    <2>4. CASE WorkerLock(t)
        <3>1. /\ identity' = identity /\ pend[t] = "begun" /\ pend'[t] = "none"
              /\ \A u \in Ids \ {t} : pend'[u] = pend[u]
            BY <2>4 DEF WorkerLock, TypeOK
        <3> QED
            BY <1>0, <1>1, <3>1 DEF IdentityOK
    <2> QED
        BY <1>6, <2>1, <2>2, <2>3, <2>4
<1>7. CASE Crash
    BY <1>7, LockFields DEF Crash, IdentityOK
<1> QED
    BY <1>3, <1>4, <1>5, <1>6, <1>7
    DEF Next, Request, Daemon, Trouble, Handler, Worker, HolderStep

-----------------------------------------------------------------------------
(* The theorems.                                                           *)

\* The invariant holds initially.
LEMMA FreshInitInv ==
    ASSUME World = "fresh", Init
    PROVE  IInv
<1>1. FreshWorld
    BY DEF Init
<1>2. TypeOK /\ StepOK
    BY InitType
<1>3. /\ job.by = "recover" /\ job.pc = "observe" /\ identity = 0
      /\ \A t \in Ids : pend[t] = "none"
    BY LockFields DEF Init
<1>4. \A t \in Ids : txn[t].state = "NONE" /\ disk["staging"][t] = "absent"
    BY <1>1 DEF FreshWorld, NoTxn
<1>5. HolderOK /\ PendingOK /\ IdentityOK /\ RecordOK
    BY <1>3 DEF HolderOK, PendingOK, IdentityOK, RecordOK, WorkerPcs
<1>6. NoStaging /\ AtMostOneNonterminal /\ ActiveIsUsable
    BY <1>1, <1>4 DEF NoStaging, AtMostOneNonterminal, ActiveIsUsable, NonterminalStates, FreshWorld
<1> QED
    BY <1>2, <1>5, <1>6 DEF IInv

\* IInv is inductive.
LEMMA StepKeepsInv == IInv /\ [Next]_vars => IInv'
<1> SUFFICES ASSUME IInv, [Next]_vars PROVE IInv'
    OBVIOUS
<1>1. TypeOK' /\ StepOK'
    BY NextType DEF IInv
<1>2. HolderOK' /\ PendingOK' /\ RecordOK' /\ IdentityOK'
    BY StepKeepsHolder, StepKeepsIdentity DEF IInv, HolderOK, ObserverOK
<1>3. NoStaging'
    BY StepIsDiskStep, DiskStepKeepsStaging
<1>4. AtMostOneNonterminal'
    BY StepIsRecordStep, RecordStepKeepsOne
<1>5. ActiveIsUsable'
    BY StepKeepsUsable
<1> QED
    BY <1>1, <1>2, <1>3, <1>4, <1>5 DEF IInv

\* The inductive invariant holds of every execution that begins on an empty disk.
THEOREM FreshInvariant ==
    ASSUME World = "fresh"
    PROVE  Spec => []IInv
<1>1. Init => IInv
    BY FreshInitInv
<1> QED
    BY <1>1, StepKeepsInv, PTL DEF Spec

\* Whatever is interrupted, active.json names only a generation that is being or
\* done being activated and whose tree the daemon left complete: activate writes
\* the pointer last, and collection, recovery and failed builds spare that tree.
THEOREM ActiveAlwaysUsable ==
    ASSUME World = "fresh"
    PROVE  Spec => []ActiveIsUsable
<1>1. IInv => ActiveIsUsable
    BY DEF IInv
<1> QED
    BY <1>1, FreshInvariant, PTL

\* Concurrent start requests, their workers, cancellations and restarts never
\* leave two transactions in flight, however many there are.
THEOREM OneTransactionInFlight ==
    ASSUME World = "fresh"
    PROVE  Spec => []AtMostOneNonterminal
<1>1. IInv => AtMostOneNonterminal
    BY DEF IInv
<1> QED
    BY <1>1, FreshInvariant, PTL

\* No step changes a terminal record, nor fails the active one.
LEMMA StepKeepsFinal ==
    ASSUME IInv, [Next]_vars, NEW t \in Ids
    PROVE  /\ txn[t].state \in TerminalStates => txn'[t].state = txn[t].state
           /\ active = t => txn'[t].state # "FAILED"
<1>1. RecordStep
    BY StepIsRecordStep
<1>2. active = t => txn[t].state \in {"ACTIVATING", "COMMITTED"}
    BY BoundsAssumption DEF IInv, ActiveIsUsable
<1>3. CASE \A u \in Ids : txn'[u].state = txn[u].state
    BY <1>2, <1>3
<1>4. CASE txn' = FailFailable
    BY <1>2, <1>4, FailFailableEffect DEF IInv, FailableStates, TerminalStates
<1>5. ASSUME NEW u \in Ids, RecordMove(u)
      PROVE  /\ txn[t].state \in TerminalStates => txn'[t].state = txn[t].state
             /\ active = t => txn'[t].state # "FAILED"
    BY <1>2, <1>5 DEF RecordMove, TerminalStates
<1> QED
    BY <1>1, <1>3, <1>4, <1>5 DEF RecordStep

\* No writer, with or without install.lock, changes a terminal record or fails
\* the record of the generation active.json names.
THEOREM RecordsStayFinal ==
    ASSUME World = "fresh"
    PROVE  Spec => RecordsAreFinal
<1> DEFINE Final == \A t \in Ids : /\ txn[t].state \in TerminalStates => txn'[t].state = txn[t].state
                                   /\ active = t => txn'[t].state # "FAILED"
<1>1. IInv /\ [Next]_vars => [Final]_vars
    BY StepKeepsFinal
<1>2. Spec => [][Final]_vars
    BY <1>1, FreshInvariant, PTL DEF Spec
<1> QED
    BY <1>2 DEF RecordsAreFinal

\* The install transaction implements ActivePointer: active.json moves in one
\* step, to a generation that was never current, and only when the installation
\* of the previous one was committed.
THEOREM PointerRefinement ==
    ASSUME World = "fresh"
    PROVE  Spec => ImplementsActivePointer
<1>1. Init => Pointer!APInit
    BY DEF Init, FreshWorld, NoTxn, Pointer!APInit
<1>2. IInv /\ [Next]_vars => [Pointer!APNext]_(Pointer!apVars)
    <2> SUFFICES ASSUME IInv, [Next]_vars
                 PROVE  Pointer!APNext \/ UNCHANGED Pointer!apVars
        OBVIOUS
    <2> DEFINE Settled0 == active = 0 \/ txn[active].state = "COMMITTED"
               Used == {t \in Ids : t = active \/ txn[t].state = "COMMITTED"}
    <2>1. RecordStep
        BY StepIsRecordStep
    <2>2. active # 0 => active \in Ids /\ txn[active].state \in {"ACTIVATING", "COMMITTED"}
        BY BoundsAssumption DEF IInv, ActiveIsUsable, TypeOK
    <2>3. ASSUME active' = active,
                 \A t \in Ids : txn'[t].state = "COMMITTED" <=> txn[t].state = "COMMITTED"
          PROVE  UNCHANGED Pointer!apVars
        <3>1. Used' = Used
            BY <2>3
        <3>2. Settled0' = Settled0
            BY <2>2, <2>3
        <3> QED
            BY <2>3, <3>1, <3>2 DEF Pointer!apVars
    <2>4. CASE active' = active /\ \A t \in Ids : txn'[t].state = txn[t].state
        BY <2>3, <2>4
    <2>5. CASE active' = active /\ txn' = FailFailable
        BY <2>3, <2>5, FailFailableEffect DEF IInv, FailableStates
    <2>6. ASSUME active' = active, NEW t \in Ids, RecordMove(t)
          PROVE  Pointer!APNext \/ UNCHANGED Pointer!apVars
        <3>1. CASE txn'[t].state # "COMMITTED"
            BY <2>3, <2>6, <3>1 DEF RecordMove
        <3>2. CASE txn'[t].state = "COMMITTED"
            <4>1. active = t /\ txn[t].state = "ACTIVATING" /\ t # 0
                BY <2>6, <3>2, BoundsAssumption DEF RecordMove
            <4>2. ~Settled0 /\ Settled0'
                BY <2>6, <3>2, <4>1
            <4>3. Used' = Used
                BY <2>6, <3>2, <4>1 DEF RecordMove
            <4>4. Pointer!Settle
                BY <2>6, <4>2, <4>3 DEF Pointer!Settle
            <4> QED
                BY <4>4 DEF Pointer!APNext
        <3> QED
            BY <3>1, <3>2
    <2>7. CASE /\ active' \in Ids /\ active' # active
               /\ txn' = txn /\ txn[active'].state = "ACTIVATING"
        <3>1. Settled0
            BY <2>2, <2>7 DEF IInv, AtMostOneNonterminal, NonterminalStates
        <3>2. ~Settled0'
            BY <2>7, BoundsAssumption
        <3>3. active' \notin Used /\ Used' = Used \cup {active'}
            BY <2>2, <2>7, <3>1
        <3>4. PICK g \in Ids : g = active'
            BY <2>7
        <3>5. Pointer!Switch(g)
            BY <3>1, <3>2, <3>3, <3>4 DEF Pointer!Switch
        <3> QED
            BY <3>5 DEF Pointer!APNext
    <2> QED
        BY <2>1, <2>4, <2>5, <2>6, <2>7 DEF RecordStep
<1>3. ASSUME World = "fresh" PROVE Spec => Pointer!APSpec
    BY <1>1, <1>2, FreshInvariant, PTL DEF Spec, Pointer!APSpec
<1> QED
    BY <1>3 DEF ImplementsActivePointer

-----------------------------------------------------------------------------
(* The lineage of generations: order, predecessor and PATH.               *)

\* Transactions are created in the order of their identifiers, and committed in
\* it: the one in flight is the newest, the active one the newest committed.
OrderOK ==
    /\ \A t, u \in Ids : txn[t].state \in NonterminalStates /\ txn[u].state # "NONE" => u <= t
    /\ \A t \in Ids : txn[t].state = "COMMITTED" => t <= active

\* The recorded predecessor of the active generation is the newest committed one
\* but itself, and is on the disk.
PredecessorOK ==
    active # 0 =>
        /\ txn[active].before # 0 => /\ txn[active].before \in Ids \ {active}
                                     /\ txn[txn[active].before].state = "COMMITTED"
        /\ \A t \in Ids \ {active} : txn[t].state = "COMMITTED" => t <= txn[active].before
        /\ Generation(active) # "absent"
        /\ ReadActive = "VALID" /\ txn[active].before # 0 => Generation(txn[active].before) # "absent"

\* PATH names the active generation and, until that is committed, its predecessor.
PathOK ==
    /\ \A t \in ({path.first} \cup path.rest) \ {0} :
          /\ active # 0
          /\ t = active \/ (txn[active].state = "ACTIVATING" /\ t = txn[active].before)
    /\ path.first # 0 => path.rest \subseteq {0}
    /\ job.pc = "path" /\ job.plan # KeepPath =>
          active # 0 /\ job.plan.first = active /\ job.plan.rest \subseteq {0}

\* Only a committed generation was damaged.
DamageOK == \A t \in damaged : txn[t].state = "COMMITTED"

LineageInv == OrderOK /\ PredecessorOK /\ PathOK /\ DamageOK

LInv == IInv /\ LineageInv
-----------------------------------------------------------------------------
(* What a step does to the records, beside their states.                   *)

\* A record that begins to exist has the next identifier; the predecessor is
\* recorded when a published one is to be activated.
RecordFields ==
    \A t \in Ids :
        /\ txn'[t].before = txn[t].before \/ txn[t].state \in {"NONE", "PUBLISHED"}
        /\ txn[t].state = "NONE" /\ txn'[t].state # "NONE" => FreshId(t)

\* Saving a state leaves the rest of the record.
LEMMA SaveStateFields ==
    ASSUME TypeOK, NEW t \in Ids, NEW s, SaveState(t, s), txn[t].state # "NONE"
    PROVE  RecordFields
<1>1. txn'[t].before = txn[t].before /\ \A u \in Ids \ {t} : txn'[u] = txn[u]
    BY DEF SaveState, TypeOK, TxnRecords
<1> QED BY <1>1 DEF RecordFields

\* Failing the failable records leaves the rest of them.
LEMMA FailFailableFields ==
    ASSUME TypeOK, txn' = FailFailable
    PROVE  RecordFields
<1>1. \A t \in Ids : txn'[t].before = txn[t].before /\ (txn[t].state = "NONE" => txn'[t].state = "NONE")
    BY DEF FailFailable, TypeOK, TxnRecords, FailableStates
<1> QED BY <1>1 DEF RecordFields

\* So does every write of recovery, but the one that records the predecessor.
LEMMA RecoverFields ==
    ASSUME IInv, RecoverStep
    PROVE  RecordFields
<1> DEFINE d == DecideRecovery(Observation)
<1>1. DecisionSound(d)
    BY RecoveryDecisionSound
<1> HIDE DEF d
<1>2. CASE txn' = txn
    BY <1>2 DEF RecordFields
<1>3. CASE txn' # txn
    <2>1. RecoverRecord(d, Primary) /\ ~Settled(d) /\ d.action # "BLOCK_UNSAFE"
        BY <1>3 DEF RecoverStep, RecoverSettle, RecoverBlock, RecoverTree, d
    <2>2. txn' = SavedRecords(d, Primary) /\ d.action # "FAIL_FAILABLE_EXTRAS" /\ Primary \in Ids
        BY <1>1, <2>1 DEF RecoverRecord, DecisionSound
    <2>3. CASE d.action = "PERSIST_ACTIVATING"
        <3>1. txn' = [txn EXCEPT ![Primary].state = "ACTIVATING", ![Primary].before = active]
            BY <2>2, <2>3 DEF SavedRecords
        <3>2. txn[Primary].state = "PUBLISHED"
            BY <1>1, <2>1, <2>3 DEF DecisionSound
        <3>3. \A u \in Ids \ {Primary} : txn'[u] = txn[u]
            BY <2>2, <3>1, SaveActivatingEffect DEF IInv
        <3> QED BY <3>2, <3>3 DEF RecordFields
    <2>4. CASE d.action # "PERSIST_ACTIVATING"
        <3>1. d.next # "" /\ SaveState(Primary, d.next)
            BY <1>3, <2>2, <2>4 DEF SavedRecords, SaveState
        <3>2. txn[Primary].state # "NONE"
            BY <1>1, <2>1, <2>4, <3>1 DEF DecisionSound, FailableStates
        <3> QED BY <2>2, <3>1, <3>2, SaveStateFields DEF IInv
    <2> QED BY <2>3, <2>4
<1> QED BY <1>2, <1>3

\* Every step leaves the fields of the records as RecordFields allows.
LEMMA StepIsRecordFields ==
    ASSUME IInv, [Next]_vars
    PROVE  RecordFields
<1> USE DEF IInv
<1>1. CASE txn' = txn
    BY <1>1 DEF RecordFields
<1>2. CASE StartLock
    BY <1>2, FailFailableFields DEF StartLock
<1>3. CASE StartCreate
    <2>1. CASE HasNonterminal
        BY <1>3, <2>1, <1>1 DEF StartCreate
    <2>2. CASE ~HasNonterminal
        <3>1. PICK t \in Ids : /\ FreshId(t)
                               /\ txn' = [txn EXCEPT ![t] = [NoTxn EXCEPT !.state = "CREATED"]]
            BY <1>3, <2>2 DEF StartCreate
        <3>2. txn[t].state = "NONE" /\ \A u \in Ids \ {t} : txn'[u] = txn[u]
            BY <3>1 DEF FreshId, TypeOK
        <3> QED BY <3>1, <3>2 DEF RecordFields
    <2> QED BY <2>1, <2>2
<1>4. ASSUME NEW t \in Ids, MarkTransactionFailed(t) PROVE RecordFields
    <2>1. txn[t].state # "NONE" BY <1>4 DEF MarkTransactionFailed, IdentityOK
    <2> QED BY <1>1, <1>4, <2>1, SaveStateFields DEF MarkTransactionFailed
<1>5. CASE SealLoad
    BY <1>1, <1>5, LoadedIdentity, SaveStateFields DEF SealLoad
<1>6. CASE PersistSealed
    <2>1. /\ job.t \in Ids /\ txn[job.t].state = "BUILDING"
          /\ txn' = [txn EXCEPT ![job.t] = [state |-> "SEALED", seal |-> TRUE, before |-> @.before]]
        BY <1>6 DEF PersistSealed, HolderOK, RecordOK
    <2>2. txn'[job.t].before = txn[job.t].before /\ \A u \in Ids \ {job.t} : txn'[u] = txn[u]
        BY <2>1 DEF TypeOK
    <2> QED BY <2>1, <2>2 DEF RecordFields
<1>7. CASE Publish
    <2>1. job.t \in Ids /\ txn[job.t].state = "SEALED" BY <1>7 DEF Publish, HolderOK, RecordOK
    <2> QED BY <1>1, <1>7, <2>1, SaveStateFields DEF Publish
<1>8. CASE MarkActivating
    <2>1. job.t \in Ids /\ txn[job.t].state = "PUBLISHED" BY <1>8 DEF MarkActivating, HolderOK, RecordOK
    <2>2. CASE txn' = [txn EXCEPT ![job.t].state = "ACTIVATING", ![job.t].before = active]
        BY <2>1, <2>2, SaveActivatingEffect DEF RecordFields
    <2> QED BY <1>1, <1>8, <2>2 DEF MarkActivating
<1>9. CASE Fail
    <2>1. job.t \in Ids /\ txn[job.t].state \in {"BUILDING", "SEALED"} BY <1>9 DEF Fail, HolderOK, RecordOK
    <2> QED BY <1>9, <2>1, SaveStateFields DEF Fail
<1>10. CASE ReconcileReadback
    <2>1. job.t \in Ids /\ txn[job.t].state \in {"ACTIVATING", "COMMITTED"}
        BY <1>10 DEF ReconcileReadback, HolderOK, RecordOK
    <2> QED BY <1>1, <1>10, <2>1, SaveStateFields DEF ReconcileReadback
<1>11. CASE RecoverStep
    BY <1>11, RecoverFields
<1>12. CASE RecoverPersist
    <2>1. job.t \in Ids /\ txn[job.t].state \in FailableStates
        BY <1>12 DEF RecoverPersist, HolderOK, RecordOK
    <2> QED BY <1>1, <1>12, <2>1, SaveStateFields DEF RecoverPersist, FailableStates
<1>13. CASE RejectInvalidPointer \/ AdmitStart \/ RefuseStart \/ WriteActive
    BY <1>13, <1>1 DEF RejectInvalidPointer, AdmitStart, RefuseStart, WriteActive
<1>14. ASSUME NEW t \in Ids,
              \/ CancelContext(t) \/ StartSpawn(t)
              \/ SetInstallIdentity(t) \/ WorkerLock(t) \/ WorkerQuit(t)
       PROVE  RecordFields
    BY <1>14, <1>1 DEF StartSpawn, CancelContext, SetInstallIdentity, WorkerLock, WorkerQuit
<1>15. CASE CreateGeneration \/ CandidateTemp \/ CandidateRecord \/ Build \/ Seal
    BY <1>15, <1>1 DEF CreateGeneration, CandidateTemp, CandidateRecord, Build, Seal
<1>16. CASE ReconcileHome \/ ReconcilePath \/ Collect
    BY <1>16, <1>1 DEF ReconcileHome, ReconcilePath, Collect, CollectTree, CollectEnd
<1>17. CASE Trouble \/ UNCHANGED vars
    BY <1>17, <1>1 DEF Trouble, IOFault, Crash, Drift, Damage, vars
<1> QED
    BY <1>2, <1>3, <1>4, <1>5, <1>6, <1>7, <1>8, <1>9, <1>10, <1>11, <1>12, <1>13, <1>14, <1>15,
       <1>16, <1>17
    DEF Next, Request, Daemon, Handler, Worker, Reconcile, Recovery

\* active.json moves to a generation whose recorded predecessor it named, while
\* it was valid; nothing else changes then.
LEMMA ActiveMoves ==
    ASSUME IInv, [Next]_vars, active' # active
    PROVE  /\ active' \in Ids /\ txn[active'].state = "ACTIVATING" /\ txn[active'].before = active
           /\ ReadActive # "INVALID" /\ Generation(active') = "sealed"
           /\ txn' = txn /\ disk' = disk /\ path' = path /\ damaged' = damaged /\ job'.pc # "path"
<1>1. WriteActive
    BY DEF Next, Request, Daemon, Trouble, Handler, Worker, Reconcile, Collect, Recovery, vars,
           RejectInvalidPointer, AdmitStart, RefuseStart, StartLock, CancelContext,
           StartCreate, StartSpawn, MarkTransactionFailed, SetInstallIdentity, WorkerLock, WorkerQuit,
           SealLoad, CreateGeneration, CandidateTemp, CandidateRecord, Build, Seal, PersistSealed,
           Publish, MarkActivating, Fail, ReconcileHome, ReconcilePath, ReconcileReadback,
           CollectEnd, CollectTree, RecoverStep, RecoverPersist, IOFault, Crash, Drift, Damage
<1>2. job.t \in Ids /\ txn[job.t].state = "ACTIVATING" /\ active' = job.t
      /\ Generation(job.t) = "sealed" /\ CasAllowsActivate(job.t)
    BY <1>1 DEF WriteActive, IInv, HolderOK, RecordOK
<1>3. job'.pc # "path"
    <2>1. CASE NextStep
        <3>1. job \in Jobs /\ job.step < MaxRecoverSteps
            BY <1>1 DEF IInv, TypeOK, StepOK, WriteActive
        <3> QED BY <2>1, <3>1, NextStepType
    <2>2. CASE Goto("home") BY <2>2, GotoFields DEF IInv
    <2> QED BY <1>1, <1>2, <2>1, <2>2 DEF WriteActive
<1> QED BY <1>1, <1>2, <1>3 DEF WriteActive, CasAllowsActivate, environment, outside

\* A commit follows only on an environment that was observed complete.
LEMMA CommitObserved ==
    ASSUME NEW obs, DecideRecovery(obs).action = "COMMIT"
    PROVE  obs.env
<1>1. /\ \A g, x, n : Decision(g, x, n).action = x
      /\ \A x : FailTxn(x).action = x
      /\ \A x, n : Reconciling(x, n).action = x
    BY DecisionFields DEF FailTxn, Reconciling
<1>2. Blocked.action = "BLOCK_UNSAFE" /\ Nothing.action = "NONE"
    BY DecisionFields DEF Blocked, Nothing
<1>3. LeftoverStaging(obs) \in {"", "REMOVE_EMPTY_STAGING", "GC_STAGING"}
    BY DEF LeftoverStaging
<1>4. DecideUnsealed(obs).action # "COMMIT"
    <2>1. DecideUnsealed(obs) \in
              {Blocked, FailTxn("NONE"), FailTxn("REMOVE_EMPTY_GENERATION"),
               FailTxn("REMOVE_EMPTY_STAGING"), FailTxn("MOVE_STAGING_TO_FAILED")}
        BY DEF DecideUnsealed
    <2> QED BY <1>1, <1>2, <2>1
<1>5. DecideSealed(obs).action # "COMMIT"
    <2>1. DecideSealed(obs) \in
              {Blocked, Reconciling("PERSIST_PUBLISHED", "PUBLISHED"),
               Reconciling("REMOVE_EMPTY_STAGING", "PUBLISHED"), FailTxn("MOVE_STAGING_TO_FAILED")}
        BY DEF DecideSealed
    <2> QED BY <1>1, <1>2, <2>1
<1>6. ASSUME NEW t PROVE DecidePublished(obs, t).action # "COMMIT"
    <2>1. DecidePublished(obs, t) \in
              {Blocked, Reconciling("RECONCILE_ENV", "ACTIVATING"),
               Reconciling("PERSIST_ACTIVATING", "ACTIVATING"), Reconciling(LeftoverStaging(obs), "")}
        BY DEF DecidePublished
    <2>2. Reconciling(LeftoverStaging(obs), "").action = LeftoverStaging(obs)
        BY <1>1
    <2>3. Reconciling("RECONCILE_ENV", "ACTIVATING").action = "RECONCILE_ENV"
          /\ Reconciling("PERSIST_ACTIVATING", "ACTIVATING").action = "PERSIST_ACTIVATING"
        BY <1>1
    <2> QED BY <1>2, <1>3, <2>1, <2>2, <2>3
<1>7. ASSUME ~obs.env, NEW t PROVE DecideActivating(obs, t).action # "COMMIT"
    <2>1. DecideActivating(obs, t) \in
              {Blocked, Reconciling("RECONCILE_ENV", ""), Reconciling("ACTIVATE", "")}
        BY <1>7 DEF DecideActivating
    <2>2. Reconciling("RECONCILE_ENV", "").action = "RECONCILE_ENV"
          /\ Reconciling("ACTIVATE", "").action = "ACTIVATE"
        BY <1>1
    <2> QED BY <1>2, <2>1, <2>2
<1>8. ASSUME ~obs.env PROVE DecideTerminalWorld(obs).action # "COMMIT"
    <2>1. DecideTerminalWorld(obs) \in
              {Nothing, Reconciling("RECONCILE_ENV", "ACTIVATING"),
               Decision("READY", LeftoverStaging(obs), ""), Decision("READY", "RECONCILE_ENV", ""),
               Decision("READY", "DIAGNOSE_RETAIN", "")}
        BY <1>8 DEF DecideTerminalWorld
    <2>2. Decision("READY", LeftoverStaging(obs), "").action = LeftoverStaging(obs)
        BY ZenonT(40), <1>1
    <2>3. Reconciling("RECONCILE_ENV", "ACTIVATING").action = "RECONCILE_ENV"
        BY <1>1
    <2>4. Decision("READY", "RECONCILE_ENV", "").action = "RECONCILE_ENV"
        BY ZenonT(40), <1>1
    <2>5. Decision("READY", "DIAGNOSE_RETAIN", "").action = "DIAGNOSE_RETAIN"
        BY ZenonT(40), <1>1
    <2> QED BY <1>2, <1>3, <2>1, <2>2, <2>3, <2>4, <2>5
<1>9. DecideRecovery(obs) \in {Blocked, Reconciling("FAIL_FAILABLE_EXTRAS", "")}
      \/ DecideRecovery(obs) = DecideTerminalWorld(obs)
      \/ \E t : DecideRecovery(obs) = DecideOne(obs, t)
    BY DEF DecideRecovery
<1>10. \A t : DecideOne(obs, t) \in {DecideUnsealed(obs), DecideSealed(obs), DecidePublished(obs, t),
                                     DecideActivating(obs, t)}
    BY DEF DecideOne
<1> SUFFICES ASSUME ~obs.env PROVE FALSE
    OBVIOUS
<1>11. \A t : DecideOne(obs, t).action # "COMMIT"
    BY <1>4, <1>5, <1>6, <1>7, <1>10
<1>12. Reconciling("FAIL_FAILABLE_EXTRAS", "").action = "FAIL_FAILABLE_EXTRAS"
    BY <1>1
<1> QED BY <1>2, <1>8, <1>9, <1>11, <1>12

\* A transaction becomes COMMITTED only with its PATH entry in front.
LEMMA CommitNeedsPath ==
    ASSUME IInv, [Next]_vars, NEW t \in Ids, txn[t].state # "COMMITTED", txn'[t].state = "COMMITTED"
    PROVE  /\ active' = active /\ active = t /\ path.first = active /\ path' = path /\ job'.pc # "path"
           /\ txn[t].state = "ACTIVATING"
<1> USE DEF IInv
<1>1. active' = active /\ active = t /\ txn[t].state = "ACTIVATING"
    <2>1. RecordStep BY StepIsRecordStep
    <2>2. txn' # txn BY DEF TypeOK
    <2>3. txn' # FailFailable BY FailFailableEffect
    <2> QED BY <2>1, <2>2, <2>3 DEF RecordStep, RecordMove
<1>2. txn' # txn OBVIOUS
<1>3. CASE StartLock \/ RecoverPersist \/ Fail \/ SealLoad \/ PersistSealed \/ Publish \/ MarkActivating
    <2>1. CASE StartLock BY <1>1, <2>1, FailFailableEffect DEF StartLock
    <2>2. CASE SealLoad BY <1>1, <1>2, <2>2, LoadedIdentity, SaveStateEffect DEF SealLoad
    <2>3. CASE RecoverPersist
        <3>1. job.t \in Ids /\ txn[job.t].state \in FailableStates /\ job.prev.next = "FAILED"
            BY <2>3 DEF RecoverPersist, HolderOK, RecordOK
        <3> QED BY <1>1, <2>3, <3>1, SaveStateEffect DEF RecoverPersist, FailableStates
    <2>4. CASE Fail \/ PersistSealed \/ Publish \/ MarkActivating
        <3>1. job.t \in Ids /\ txn[job.t].state # "ACTIVATING"
            BY <2>4 DEF Fail, PersistSealed, Publish, MarkActivating, HolderOK, RecordOK
        <3>2. txn'[t] = txn[t]
            BY <1>1, <2>4, <3>1 DEF Fail, PersistSealed, Publish, MarkActivating, SaveState, TypeOK
        <3> QED BY <3>2
    <2> QED BY <1>3, <2>1, <2>2, <2>3, <2>4
<1>4. CASE StartCreate
    <2>1. PICK u \in Ids : FreshId(u) /\ txn' = [txn EXCEPT ![u] = [NoTxn EXCEPT !.state = "CREATED"]]
        BY <1>2, <1>4 DEF StartCreate
    <2>2. txn[u].state = "NONE" BY <2>1 DEF FreshId
    <2>3. txn'[t] = txn[t] BY <1>1, <2>1, <2>2 DEF TypeOK
    <2> QED BY <2>3
<1>5. ASSUME NEW u \in Ids, MarkTransactionFailed(u) PROVE FALSE
    BY <1>1, <1>2, <1>5, SaveStateEffect DEF MarkTransactionFailed
<1>6. CASE ReconcileReadback
    <2>1. EnvironmentComplete /\ Goto("gc") /\ path' = path
        BY <1>2, <1>6 DEF ReconcileReadback, environment
    <2> QED BY <1>1, <2>1, GotoFields DEF EnvironmentComplete
<1>7. CASE RecoverStep
    <2> DEFINE d == DecideRecovery(Observation)
    <2>1. DecisionSound(d) BY RecoveryDecisionSound
    <2>2. RecoverRecord(d, Primary) /\ ~Settled(d) /\ d.action # "BLOCK_UNSAFE" /\ path' = path
        BY <1>2, <1>7 DEF RecoverStep, RecoverSettle, RecoverBlock, RecoverTree, environment
    <2>3. d.action = "COMMIT" => Observation.env BY CommitObserved
    <2> HIDE DEF d
    <2>4. txn' = SavedRecords(d, Primary) /\ d.action # "FAIL_FAILABLE_EXTRAS" /\ Primary \in Ids
        BY <2>1, <2>2 DEF RecoverRecord, DecisionSound
    <2>5. d.action # "PERSIST_ACTIVATING"
        <3>1. CASE d.action = "PERSIST_ACTIVATING"
            <4>1. txn' = [txn EXCEPT ![Primary].state = "ACTIVATING", ![Primary].before = active]
                BY <2>4, <3>1 DEF SavedRecords
            <4> QED BY <1>1, <2>4, <4>1, SaveActivatingEffect
        <3> QED BY <3>1
    <2>6. d.next # "" /\ SaveState(Primary, d.next)
        BY <1>2, <2>4, <2>5 DEF SavedRecords, SaveState
    <2>7. d.next = "COMMITTED" BY <1>1, <2>4, <2>6, SaveStateEffect
    <2>8. d.action = "COMMIT" BY <2>1, <2>2, <2>5, <2>7 DEF DecisionSound, Settled
    <2>9. EnvironmentComplete BY <2>3, <2>8 DEF Observation
    <2>10. job'.pc = job.pc
        BY <2>2, <2>8 DEF RecoverRecord, TypeOK, Jobs
    <2> QED BY <1>1, <1>7, <2>2, <2>9, <2>10 DEF EnvironmentComplete, RecoverStep
<1> QED
    BY <1>2, <1>3, <1>4, <1>5, <1>6, <1>7
    DEF Next, Request, Daemon, Trouble, Handler, Worker, Reconcile, Collect, Recovery, vars,
        RejectInvalidPointer, AdmitStart, RefuseStart, CancelContext,
        StartSpawn, SetInstallIdentity, WorkerLock, WorkerQuit,
        CreateGeneration, CandidateTemp, CandidateRecord, Build, Seal,
        WriteActive, ReconcileHome, ReconcilePath,
        CollectEnd, CollectTree, IOFault, Crash, Drift, Damage

\* What a step can do to a generation: it goes, or its metadata comes to verify.
GenerationSafe(t) ==
    /\ Generation(t) # "absent" => Generation(t)' # "absent"
    /\ MetadataVerifies(Generation(t)') => MetadataVerifies(Generation(t))

\* Changing a tree changes that one.
LEMMA SetTreeEffect ==
    ASSUME TypeOK, NEW p \in Places, NEW t \in Ids, NEW tree, SetTree(p, t, tree)
    PROVE  \A u \in Ids : Generation(u)' = IF p = "generations" /\ u = t THEN tree ELSE Generation(u)
BY DEF SetTree, Generation, TypeOK

\* No step takes away, or makes verify, a generation that is neither being
\* built nor garbage.
LEMMA StepSparesGenerations ==
    ASSUME IInv, [Next]_vars, NEW t \in Ids, txn[t].state \in {"ACTIVATING", "COMMITTED"},
           <<"generations", t>> \notin Garbage
    PROVE  GenerationSafe(t)
<1> USE DEF IInv
<1>1. CASE disk' = disk
    BY <1>1 DEF GenerationSafe, Generation
<1>2. ASSUME NEW u \in Ids, NEW tree, txn[u].state \notin {"ACTIVATING", "COMMITTED"}, SetTree("generations", u, tree)
      PROVE  GenerationSafe(t)
    <2>1. Generation(t)' = Generation(t) BY <1>2, SetTreeEffect
    <2> QED BY <2>1 DEF GenerationSafe
<1>3. ASSUME InterruptCollect PROVE GenerationSafe(t)
    <2>1. PICK pt \in Garbage : \E tree \in HalfDeleted(disk[pt[1]][pt[2]]) : SetTree(pt[1], pt[2], tree)
        BY <1>3 DEF InterruptCollect
    <2>2. PICK p \in Places, u \in Ids : pt = <<p, u>>
        BY DEF Garbage, ProvenTrees
    <2>3. p # "generations" \/ u # t
        BY <2>1, <2>2
    <2>4. Generation(t)' = Generation(t)
        BY <2>1, <2>2, <2>3, SetTreeEffect
    <2> QED BY <2>4 DEF GenerationSafe
<1>4. CASE CreateGeneration \/ CandidateTemp \/ CandidateRecord \/ Seal
    <2>1. job.t \in Ids /\ txn[job.t].state = "BUILDING"
        BY <1>4 DEF CreateGeneration, CandidateTemp, CandidateRecord, Seal, HolderOK, RecordOK
    <2> QED BY <1>1, <1>2, <1>4, <2>1 DEF CreateGeneration, CandidateTemp, CandidateRecord, Seal
<1>5. ASSUME NEW p \in Places, NEW u \in Ids, CollectTree(p, u) PROVE GenerationSafe(t)
    <2>1. <<p, u>> \in Garbage /\ SetTree(p, u, "absent")
        BY <1>5 DEF CollectTree
    <2>2. Generation(t)' = Generation(t)
        BY <2>1, SetTreeEffect
    <2> QED BY <2>2 DEF GenerationSafe
<1>6. CASE IOFault
    <2>1. CASE job.pc \in {"candidate", "record"} /\ SetTree("generations", job.t, "absent")
        <3>1. job.t \in Ids /\ txn[job.t].state = "BUILDING"
            BY <2>1 DEF HolderOK, RecordOK
        <3> QED BY <1>2, <2>1, <3>1
    <2> QED BY <1>1, <1>3, <1>6, <2>1 DEF IOFault
<1>7. CASE Crash
    BY <1>1, <1>3, <1>7 DEF Crash
<1>8. CASE Damage
    <2>1. PICK tree \in {"remnant", "unproven"} : SetTree("generations", active, tree)
        BY <1>8 DEF Damage
    <2>2. active \in Ids /\ Generation(active) = "sealed"
        BY <1>8, BoundsAssumption DEF Damage, TypeOK, ActiveIsUsable
    <2>3. Generation(t)' = IF t = active THEN tree ELSE Generation(t)
        BY <2>1, <2>2, SetTreeEffect
    <2> QED BY <2>2, <2>3 DEF GenerationSafe, MetadataVerifies
<1>9. CASE RecoverStep
    <2> DEFINE d == DecideRecovery(Observation)
    <2>1. DecisionSound(d)
        BY RecoveryDecisionSound
    <2> HIDE DEF d
    <2>2. CASE disk' # disk
        <3>1. RecoverTree(d, Primary) /\ d.action \in TreeActions /\ ~Settled(d)
            BY <1>9, <2>2 DEF RecoverStep, RecoverSettle, RecoverBlock, RecoverRecord, d
        <3>2. /\ d.action = "REMOVE_EMPTY_GENERATION" /\ Primary \in Ids
              /\ txn[Primary].state \in FailableStates
            BY <2>1, <3>1 DEF DecisionSound, TreeActions
        <3>3. SetTree("generations", Primary, "absent")
            BY <3>1, <3>2 DEF RecoverTree
        <3> QED BY <1>2, <3>2, <3>3 DEF FailableStates
    <2> QED BY <1>1, <2>2
<1>10. CASE Request \/ Handler
    BY <1>10, <1>1
    DEF Request, Handler, RejectInvalidPointer, AdmitStart, RefuseStart, StartLock, CancelContext,
        StartCreate, StartSpawn, MarkTransactionFailed
<1>11. ASSUME NEW u \in Ids, SetInstallIdentity(u) \/ WorkerLock(u) \/ WorkerQuit(u) PROVE GenerationSafe(t)
    BY <1>11, <1>1 DEF SetInstallIdentity, WorkerLock, WorkerQuit
<1>12. CASE \/ SealLoad \/ Build \/ PersistSealed \/ Publish \/ MarkActivating
            \/ WriteActive \/ Fail
    BY <1>12, <1>1 DEF SealLoad, Build, PersistSealed, Publish, MarkActivating, WriteActive, Fail
<1>13. CASE Reconcile \/ CollectEnd \/ RecoverPersist
    BY <1>13, <1>1 DEF Reconcile, ReconcileHome, ReconcilePath, ReconcileReadback, CollectEnd,
                       RecoverPersist
<1>14. CASE Drift \/ UNCHANGED vars
    BY <1>14, <1>1 DEF Drift, vars
<1> QED
    BY <1>4, <1>5, <1>6, <1>7, <1>8, <1>9, <1>10, <1>11, <1>12, <1>13, <1>14
    DEF Next, Daemon, Worker, Collect, Recovery, Trouble

-----------------------------------------------------------------------------
(* What follows for the order, the predecessor and PATH.                   *)

\* The active generation and its predecessor are never garbage.
LEMMA LineageRetained ==
    ASSUME LInv, active # 0
    PROVE  /\ <<"generations", active>> \notin Garbage
           /\ ReadActive = "VALID" /\ txn[active].before # 0 =>
                 <<"generations", txn[active].before>> \notin Garbage
<1> USE DEF LInv, IInv, LineageInv
<1>1. active \in Ids /\ txn[active].state \in {"ACTIVATING", "COMMITTED"}
    BY BoundsAssumption DEF ActiveIsUsable, TypeOK
<1>2. ASSUME txn[active].state = "ACTIVATING" PROVE <<"generations", active>> \notin Garbage
    <2>1. PICK c \in Ids : c = active
        BY <1>1
    <2>2. <<"generations", c>> \in {pt \in {"generations", "staging"} \X Ids : txn[pt[2]].state \in NonterminalStates}
        BY <1>2, <2>1 DEF NonterminalStates
    <2> QED BY <2>1, <2>2 DEF Garbage, Retained
<1>3. ASSUME txn[active].state = "COMMITTED", ReadActive = "VALID"
      PROVE  <<"generations", active>> \notin Garbage
    BY <1>3 DEF Garbage, Retained
<1>4. ASSUME NEW t \in Ids, txn[t].state = "COMMITTED", ~(ReadActive = "VALID" /\ t = active),
             \A u \in Ids : txn[u].state = "COMMITTED" /\ ~(ReadActive = "VALID" /\ u = active) => u <= t
      PROVE  <<"generations", t>> \notin Garbage
    <2>1. <<"generations", t>> \in PreviousCommitted
        BY <1>4 DEF PreviousCommitted
    <2> QED BY <2>1 DEF Garbage, Retained
<1>5. ASSUME txn[active].state = "COMMITTED", ReadActive # "VALID"
      PROVE  <<"generations", active>> \notin Garbage
    BY <1>1, <1>4, <1>5 DEF OrderOK
<1>6. ASSUME ReadActive = "VALID", txn[active].before # 0
      PROVE  <<"generations", txn[active].before>> \notin Garbage
    <2>1. PICK b \in Ids : b = txn[active].before
        BY <1>1, <1>6 DEF PredecessorOK
    <2> QED BY <1>4, <1>6, <2>1 DEF PredecessorOK
<1> QED BY <1>1, <1>2, <1>3, <1>5, <1>6

\* Identifiers grow.
LEMMA StepKeepsOrder ==
    ASSUME LInv, [Next]_vars
    PROVE  OrderOK'
<1> USE DEF LInv, IInv, LineageInv
<1>1. RecordStep /\ RecordFields
    BY StepIsRecordStep, StepIsRecordFields
<1>2. ASSUME NEW t \in Ids, NEW u \in Ids, txn'[t].state \in NonterminalStates, txn'[u].state # "NONE"
      PROVE  u <= t
    <2>1. CASE txn[t].state = "NONE"
        <3>1. FreshId(t) BY <1>1, <1>2, <2>1 DEF RecordFields, NonterminalStates
        <3>2. txn[u].state # "NONE" => u <= t BY <3>1 DEF FreshId
        <3>3. txn[u].state = "NONE" => FreshId(u) BY <1>1, <1>2 DEF RecordFields
        <3>4. FreshId(u) => u <= t BY <2>1 DEF FreshId
        <3> QED BY <3>2, <3>3, <3>4
    <2>2. CASE txn[t].state \in NonterminalStates
        <3>1. CASE txn[u].state # "NONE" BY <2>2, <3>1 DEF OrderOK
        <3>2. CASE txn[u].state = "NONE"
            <4>1. HasNonterminal BY <2>2 DEF HasNonterminal
            <4>2. txn' # txn BY <1>2, <3>2
            <4>3. txn' = FailFailable => FALSE BY <1>2, <3>2, FailFailableEffect DEF FailableStates
            <4>4. \A v \in Ids : ~RecordMove(v) BY <1>2, <3>2, <4>1 DEF RecordMove
            <4>5. \E v \in Ids : txn'[v].state # txn[v].state BY <1>2, <3>2
            <4> QED BY <1>1, <4>2, <4>3, <4>4, <4>5 DEF RecordStep
        <3> QED BY <3>1, <3>2
    <2>3. CASE txn[t].state \notin NonterminalStates \cup {"NONE"}
        <3>1. txn' # FailFailable
            BY <1>2, <2>3, FailFailableEffect DEF FailableStates, NonterminalStates
        <3>2. \A v \in Ids : ~RecordMove(v) BY <1>2, <2>3 DEF RecordMove, NonterminalStates
        <3> QED BY <1>1, <1>2, <2>3, <3>1, <3>2 DEF RecordStep
    <2> QED BY <2>1, <2>2, <2>3
<1>3. ASSUME NEW t \in Ids, txn'[t].state = "COMMITTED" PROVE t <= active'
    <2>1. CASE active' = active
        BY <1>3, <2>1, CommitNeedsPath DEF OrderOK
    <2>2. CASE active' # active
        <3>1. txn' = txn /\ active' \in Ids /\ txn[active'].state = "ACTIVATING" BY <2>2, ActiveMoves
        <3> QED BY <1>3, <3>1 DEF OrderOK, NonterminalStates
    <2> QED BY <2>1, <2>2
<1> QED BY <1>2, <1>3 DEF OrderOK

\* The predecessor stays the newest but one, and on the disk.
LEMMA StepKeepsPredecessor ==
    ASSUME LInv, [Next]_vars
    PROVE  PredecessorOK'
<1> USE DEF LInv, IInv, LineageInv
<1> SUFFICES ASSUME active' # 0 PROVE PredecessorOK'
    BY DEF PredecessorOK
<1>1. RecordStep /\ RecordFields /\ IInv'
    BY StepIsRecordStep, StepIsRecordFields, StepKeepsInv
<1>2. CASE active' = active
    <2>1. active \in Ids /\ txn[active].state \in {"ACTIVATING", "COMMITTED"}
        BY <1>2, BoundsAssumption DEF ActiveIsUsable, TypeOK
    <2>0. PICK c \in Ids, b \in 0..N : c = active /\ b = txn[active].before
        BY <2>1 DEF TypeOK, TxnRecords
    <2>2. txn'[active].before = b
        BY <1>1, <2>0, <2>1 DEF RecordFields
    <2>3. \A t \in Ids \ {active} : txn'[t].state = "COMMITTED" <=> txn[t].state = "COMMITTED"
        <3>1. \A t \in Ids \ {active} : txn'[t].state = "COMMITTED" => txn[t].state = "COMMITTED"
            BY CommitNeedsPath
        <3>2. \A t \in Ids : txn[t].state = "COMMITTED" => txn'[t].state = "COMMITTED"
            BY StepKeepsFinal DEF TerminalStates
        <3> QED BY <3>1, <3>2
    <2>4. /\ GenerationSafe(c)
          /\ ReadActive = "VALID" /\ b # 0 => GenerationSafe(b)
        <3>1. <<"generations", c>> \notin Garbage
              /\ (ReadActive = "VALID" /\ b # 0 => <<"generations", b>> \notin Garbage)
            BY <1>2, <2>0, LineageRetained
        <3>2. b # 0 => b \in Ids /\ txn[b].state = "COMMITTED"
            BY <1>2, <2>0 DEF PredecessorOK
        <3> QED BY <2>0, <2>1, <3>1, <3>2, StepSparesGenerations
    <2>5. ReadActive' = "VALID" => ReadActive = "VALID"
        BY <1>2, <2>0, <2>4 DEF ReadActive, GenerationSafe, Generation
    <2>6. /\ Generation(active) # "absent"
          /\ ReadActive = "VALID" /\ b # 0 => Generation(b) # "absent"
          /\ b # 0 => b \in Ids \ {active} /\ txn[b].state = "COMMITTED"
          /\ \A t \in Ids \ {active} : txn[t].state = "COMMITTED" => t <= b
        BY <1>2, <2>0 DEF PredecessorOK
    <2>7. disk'["generations"][c] # "absent"
        BY <2>0, <2>4, <2>6 DEF GenerationSafe, Generation
    <2>8. ReadActive' = "VALID" /\ b # 0 => disk'["generations"][b] # "absent"
        BY <2>4, <2>5, <2>6 DEF GenerationSafe, Generation
    <2> QED BY <1>2, <2>0, <2>2, <2>3, <2>6, <2>7, <2>8 DEF PredecessorOK, Generation
<1>3. CASE active' # active
    <2>1. /\ active' \in Ids /\ txn[active'].state = "ACTIVATING" /\ txn[active'].before = active
          /\ ReadActive # "INVALID" /\ Generation(active') = "sealed"
          /\ txn' = txn /\ disk' = disk
        BY <1>3, ActiveMoves
    <2>2. active # 0 => active \in Ids /\ txn[active].state = "COMMITTED" /\ Generation(active) # "absent"
        BY <1>3, <2>1, BoundsAssumption DEF ActiveIsUsable, AtMostOneNonterminal, NonterminalStates, TypeOK, PredecessorOK
    <2>3. \A t \in Ids : txn[t].state = "COMMITTED" => t <= active
        BY DEF OrderOK
    <2> QED BY <1>3, <2>1, <2>2, <2>3 DEF PredecessorOK, Generation
<1> QED BY <1>2, <1>3

\* PATH changes by the write of a plan and from outside only.
LEMMA PathMoves ==
    ASSUME [Next]_vars, path' # path
    PROVE  ReconcilePath \/ Drift
BY DEF Next, Request, Daemon, Trouble, Handler, Worker, Reconcile, Collect, Recovery, vars, environment,
       RejectInvalidPointer, AdmitStart, RefuseStart, StartLock, CancelContext,
       StartCreate, StartSpawn, MarkTransactionFailed, SetInstallIdentity, WorkerLock, WorkerQuit,
       SealLoad, CreateGeneration, CandidateTemp, CandidateRecord, Build, Seal, PersistSealed,
       Publish, MarkActivating, WriteActive, Fail, ReconcileHome, ReconcileReadback,
       CollectEnd, CollectTree, RecoverStep, RecoverPersist, IOFault, Crash, Damage

\* Only committed generations are damaged.
LEMMA DamageMoves ==
    ASSUME [Next]_vars, damaged' # damaged
    PROVE  Damage
BY DEF Next, Request, Daemon, Trouble, Handler, Worker, Reconcile, Collect, Recovery, vars, outside,
       RejectInvalidPointer, AdmitStart, RefuseStart, StartLock, CancelContext,
       StartCreate, StartSpawn, MarkTransactionFailed, SetInstallIdentity, WorkerLock, WorkerQuit,
       SealLoad, CreateGeneration, CandidateTemp, CandidateRecord, Build, Seal, PersistSealed,
       Publish, MarkActivating, WriteActive, Fail, ReconcileHome, ReconcilePath, ReconcileReadback,
       CollectEnd, CollectTree, RecoverStep, RecoverPersist, IOFault, Crash, Drift

\* What the lock holder plans when it goes on to write PATH.
Planned ==
    /\ active # 0 /\ Generation(active) = "sealed"
    /\ \E b \in BOOLEAN : /\ HasCommitted => b
                          /\ job'.plan \in {KeepPath, PathPlan(b)}

\* The lock holder is at the write of PATH because it was, or has just planned it.
LEMMA PathIsPlanned ==
    ASSUME IInv, [Next]_vars, job'.pc = "path", job' # job
    PROVE  Planned
<1> USE DEF IInv
<1>1. ASSUME Release PROVE FALSE
    BY <1>1, LockFields DEF Release
<1>2. ASSUME NEW pc, Goto(pc), pc # "path" PROVE FALSE
    BY <1>2, GotoFields
<1>3. ASSUME NextStep PROVE FALSE
    <2>1. NextStep => job'.pc = "observe"
        BY DEF NextStep, Recovering, Idle
    <2> QED BY <1>3, <2>1
<1>4. ASSUME job' = [job EXCEPT !.pc = "home", !.tail = TRUE] PROVE FALSE
    BY <1>4, TailFields
<1>5. ASSUME ReturnError PROVE FALSE
    BY <1>1, <1>5 DEF ReturnError
<1>6. ASSUME EndTail PROVE FALSE
    BY <1>1, <1>3, <1>6 DEF EndTail
<1>7. CASE ReconcileHome
    <2>1. PICK b \in BOOLEAN : b = (job.tail \/ HasCommitted)
        BY DEF TypeOK
    <2>2. /\ active # 0 /\ Generation(active) = "sealed"
          /\ job' = [job EXCEPT !.pc = "path",
                                !.plan = IF PathPlan(b) = path THEN KeepPath ELSE PathPlan(b)]
        BY <1>5, <1>6, <1>7, <2>1 DEF ReconcileHome
    <2>3. PICK p : p = (IF PathPlan(b) = path THEN KeepPath ELSE PathPlan(b))
        OBVIOUS
    <2>4. job' = [job EXCEPT !.pc = "path", !.plan = p]
        BY <2>2, <2>3
    <2>5. job'.plan = p
        BY <2>4 DEF TypeOK, Jobs
    <2>6. p \in {KeepPath, PathPlan(b)} /\ (HasCommitted => b)
        BY <2>1, <2>3
    <2> QED BY <2>2, <2>5, <2>6 DEF Planned
<1>8. CASE RecoverStep
    <2> DEFINE d == DecideRecovery(Observation)
    <2> HIDE DEF d
    <2>1. CASE RecoverSettle(d) \/ RecoverTree(d, Primary)
        <3>1. job'.pc \in {"gc", "persist"}
            BY <2>1 DEF RecoverSettle, RecoverTree, TypeOK, Jobs
        <3> QED BY <3>1
    <2>2. CASE RecoverBlock
        BY <1>1, <2>2 DEF RecoverBlock
    <2>3. CASE RecoverRecord(d, Primary)
        <3>1. job'.pc \in {"home", "point", "observe"}
            BY <1>8, <2>3 DEF RecoverRecord, RecoverStep, TypeOK, Jobs
        <3> QED BY <3>1
    <2> QED BY <1>8, <2>1, <2>2, <2>3 DEF RecoverStep, d
<1>9. CASE Request \/ Handler
    <2>1. ~StartLock
        BY LockFields DEF StartLock
    <2> QED
        BY <1>1, <1>9, <2>1
        DEF Request, Handler, RejectInvalidPointer, AdmitStart, RefuseStart, CancelContext,
            StartCreate, StartSpawn, MarkTransactionFailed
<1>10. ASSUME NEW t \in Ids, SetInstallIdentity(t) \/ WorkerLock(t) \/ WorkerQuit(t) PROVE FALSE
    BY ZenonT(40), <1>10, LockFields DEF SetInstallIdentity, WorkerLock, WorkerQuit
<1>11. CASE SealLoad
    <2>1. CASE job' = [job EXCEPT !.pc = "mkdir", !.t = identity]
        <3>1. job'.pc = "mkdir" BY <2>1 DEF TypeOK, Jobs
        <3> QED BY <3>1
    <2> QED BY <1>1, <1>11, <2>1 DEF SealLoad
<1>12. CASE CreateGeneration \/ CandidateTemp \/ CandidateRecord \/ Build \/ Seal \/ PersistSealed
    BY <1>2, <1>12 DEF CreateGeneration, CandidateTemp, CandidateRecord, Build, Seal, PersistSealed
<1>13. CASE Publish \/ MarkActivating \/ Fail
    BY <1>1, <1>2, <1>13 DEF Publish, MarkActivating, Fail
<1>14. CASE WriteActive
    BY <1>2, <1>3, <1>5, <1>14 DEF WriteActive
<1>15. CASE ReconcilePath
    BY <1>2, <1>15 DEF ReconcilePath
<1>16. CASE ReconcileReadback
    BY <1>2, <1>4, <1>5, <1>6, <1>16 DEF ReconcileReadback
<1>17. CASE Collect
    BY <1>4, <1>17, LockFields DEF Collect, CollectEnd, CollectTree
<1>18. CASE RecoverPersist
    BY <1>3, <1>18 DEF RecoverPersist
<1>19. CASE IOFault
    BY <1>2, <1>4, <1>5, <1>6, <1>19, LockFields DEF IOFault
<1>20. CASE Crash \/ Drift \/ Damage \/ UNCHANGED vars
    BY <1>20, LockFields DEF Crash, Drift, Damage, vars
<1> QED
    BY <1>7, <1>8, <1>9, <1>10, <1>11, <1>12, <1>13, <1>14, <1>15, <1>16, <1>17, <1>18, <1>19, <1>20
    DEF Next, Daemon, Worker, Reconcile, Recovery, Trouble

\* Planning drops the predecessor as soon as it may.
LEMMA PlanIsLean ==
    ASSUME LInv, [Next]_vars, Planned, job'.plan # KeepPath
    PROVE  job'.plan.first = active /\ job'.plan.rest \subseteq {0}
<1> USE DEF LInv, IInv, LineageInv
<1>1. PICK b \in BOOLEAN : (HasCommitted => b) /\ job'.plan = PathPlan(b)
    BY DEF Planned
<1>2. active # 0 /\ Generation(active) = "sealed" /\ ReadActive = "VALID"
    BY DEF Planned, ReadActive, MetadataVerifies
<1>3. job'.plan.first = active
    BY <1>1 DEF PathPlan
<1>4. ASSUME NEW t \in job'.plan.rest, t # 0 PROVE FALSE
    <2>1. t \in {path.first} \cup path.rest /\ t # active /\ (b => t \notin RemovableBins)
        BY <1>1, <1>4 DEF PathPlan
    <2>2. t = txn[active].before
        BY <1>4, <2>1 DEF PathOK
    <2>3. t \in Ids /\ txn[t].state = "COMMITTED" /\ Generation(t) # "absent"
        BY <1>2, <1>4, <2>2 DEF PredecessorOK
    <2>4. b
        BY <1>1, <2>3 DEF HasCommitted
    <2> QED BY <2>1, <2>3, <2>4 DEF RemovableBins
<1> QED BY <1>3, <1>4

\* PATH keeps naming the active generation and its predecessor only.
LEMMA StepKeepsPath ==
    ASSUME LInv, [Next]_vars
    PROVE  PathOK'
<1> USE DEF LInv, IInv, LineageInv
<1>1. RecordFields /\ IInv'
    BY StepIsRecordFields, StepKeepsInv
<1>2. CASE active' # active
    <2>1. /\ active' \in Ids /\ txn[active'].state = "ACTIVATING" /\ txn[active'].before = active
          /\ txn' = txn /\ path' = path /\ job'.pc # "path"
        BY <1>2, ActiveMoves
    <2>2. active = 0 \/ txn[active].state # "ACTIVATING"
        BY <1>2, <2>1 DEF AtMostOneNonterminal, NonterminalStates, TypeOK
    <2> QED BY <2>1, <2>2, BoundsAssumption DEF PathOK
<1>3. CASE active' = active
    <2>1. ASSUME NEW t \in ({path'.first} \cup path'.rest) \ {0}
          PROVE  active # 0 /\ (t = active \/ (txn'[active].state = "ACTIVATING" /\ t = txn'[active].before))
        <3>1. CASE t \in {path.first} \cup path.rest
            <4>1. active # 0 /\ (t = active \/ (txn[active].state = "ACTIVATING" /\ t = txn[active].before))
                BY <2>1, <3>1 DEF PathOK
            <4>2. PICK c \in Ids : c = active
                BY <4>1 DEF TypeOK
            <4>3. txn'[c].state \in {"ACTIVATING", "COMMITTED"}
                BY <1>1, <1>3, <4>1, <4>2 DEF ActiveIsUsable
            <4>4. CASE txn[c].state = "ACTIVATING" /\ txn'[c].state = "COMMITTED"
                <5>1. path.first = c /\ path' = path
                    BY <4>2, <4>4, CommitNeedsPath
                <5>2. t = c BY <2>1, <4>2, <5>1 DEF PathOK
                <5> QED BY <4>1, <4>2, <5>2
            <4>5. CASE txn[c].state = "ACTIVATING" /\ txn'[c].state = "ACTIVATING"
                <5>1. txn'[c].before = txn[c].before
                    BY <1>1, <4>5 DEF RecordFields
                <5> QED BY <4>1, <4>2, <4>5, <5>1
            <4>6. CASE txn[c].state # "ACTIVATING"
                BY <4>1, <4>2, <4>6
            <4> QED BY <4>3, <4>4, <4>5, <4>6
        <3>2. CASE t \notin {path.first} \cup path.rest
            <4>1. path' # path BY <2>1, <3>2
            <4>2. CASE ReconcilePath
                BY <2>1, <3>2, <4>1, <4>2 DEF ReconcilePath, PathOK
            <4>3. CASE Drift
                <5>1. PICK rest \in {{}, ({path.first} \cup path.rest) \ {0}} : path' = [first |-> 0, rest |-> rest]
                    BY <4>1, <4>3 DEF Drift
                <5>2. path'.first = 0 /\ path'.rest = rest
                    BY <5>1
                <5> QED BY <2>1, <3>2, <5>1, <5>2
            <4> QED BY <4>1, <4>2, <4>3, PathMoves
        <3> QED BY <3>1, <3>2
    <2>2. path'.first # 0 => path'.rest \subseteq {0}
        <3>1. CASE path' = path BY <3>1 DEF PathOK
        <3>2. CASE path' # path /\ ReconcilePath
            BY <3>2 DEF ReconcilePath, PathOK
        <3>3. CASE path' # path /\ Drift
            <4>1. path'.first = 0 BY <3>3 DEF Drift
            <4> QED BY <4>1
        <3> QED BY <3>1, <3>2, <3>3, PathMoves
    <2>3. job'.pc = "path" /\ job'.plan # KeepPath =>
              active # 0 /\ job'.plan.first = active /\ job'.plan.rest \subseteq {0}
        <3>1. CASE job' = job BY <3>1 DEF PathOK
        <3>2. CASE job' # job /\ job'.pc = "path" /\ job'.plan # KeepPath
            BY <3>2, PathIsPlanned, PlanIsLean DEF Planned
        <3> QED BY <3>1, <3>2
    <2>4. PICK c \in 0..N : c = active
        BY DEF TypeOK
    <2>5. active' = c BY <1>3, <2>4
    <2> QED BY <2>1, <2>2, <2>3, <2>4, <2>5 DEF PathOK
<1> QED BY <1>2, <1>3

\* Only committed generations stay damaged.
LEMMA StepKeepsDamage ==
    ASSUME LInv, [Next]_vars
    PROVE  DamageOK'
<1> USE DEF LInv, IInv, LineageInv
<1>1. \A t \in Ids : txn[t].state = "COMMITTED" => txn'[t].state = "COMMITTED"
    BY StepKeepsFinal DEF TerminalStates
<1>2. damaged \subseteq Ids /\ \A t \in damaged : txn[t].state = "COMMITTED"
    BY DEF TypeOK, DamageOK
<1>3. CASE damaged' = damaged
    BY <1>1, <1>2, <1>3 DEF DamageOK
<1>4. CASE damaged' # damaged
    <2>1. damaged' = damaged \cup {active} /\ active \in Ids /\ txn[active].state = "COMMITTED"
        BY <1>4, DamageMoves DEF Damage, TypeOK
    <2>2. \A t \in damaged' : t \in Ids /\ txn[t].state = "COMMITTED"
        BY <1>2, <2>1
    <2> QED BY <1>1, <2>2 DEF DamageOK
<1> QED BY <1>3, <1>4

\* The lineage of an empty disk.
LEMMA FreshLineage ==
    ASSUME World = "fresh", Init
    PROVE  LInv
<1>1. FreshWorld /\ IInv
    BY FreshInitInv DEF Init
<1>2. \A t \in Ids : txn[t].state = "NONE"
    BY <1>1 DEF FreshWorld, NoTxn
<1>3. active = 0 /\ path.first = 0 /\ path.rest = {} /\ damaged = {} /\ job.pc = "observe"
    BY <1>1, LockFields DEF FreshWorld, Init
<1>4. OrderOK BY <1>2 DEF OrderOK, NonterminalStates
<1>5. PredecessorOK BY <1>3 DEF PredecessorOK
<1>6. PathOK BY <1>3 DEF PathOK
<1>7. DamageOK BY <1>3 DEF DamageOK
<1> QED BY <1>1, <1>4, <1>5, <1>6, <1>7 DEF LInv, LineageInv

\* The lineage is kept by every step.
LEMMA StepKeepsLineage == LInv /\ [Next]_vars => LInv'
<1> SUFFICES ASSUME LInv, [Next]_vars PROVE LInv'
    OBVIOUS
<1>1. IInv'
    BY StepKeepsInv DEF LInv
<1>2. OrderOK' /\ PredecessorOK' /\ PathOK' /\ DamageOK'
    BY StepKeepsOrder, StepKeepsPredecessor, StepKeepsPath, StepKeepsDamage
<1> QED BY <1>1, <1>2 DEF LInv, LineageInv

\* The lineage holds of every execution that begins on an empty disk.
LEMMA LineageInvariant ==
    ASSUME World = "fresh"
    PROVE  Spec => []LInv
<1>1. Init => LInv
    BY FreshLineage
<1> QED
    BY <1>1, StepKeepsLineage, PTL DEF Spec

\* No PATH entry names a generation that collection removed, whoever crashed or
\* edited the registry: reconciliation drops the bin of the predecessor before
\* the predecessor can be collected.
THEOREM PathAlwaysExists ==
    ASSUME World = "fresh"
    PROVE  Spec => []PathNamesExisting
<1>1. LInv => PathNamesExisting
    <2> SUFFICES ASSUME LInv, NEW t \in ({path.first} \cup path.rest) \ {0}
                 PROVE  Generation(t) # "absent"
        BY DEF PathNamesExisting
    <2> USE DEF LInv, IInv, LineageInv
    <2>1. active # 0 /\ (t = active \/ (txn[active].state = "ACTIVATING" /\ t = txn[active].before))
        BY DEF PathOK
    <2>2. CASE t = active
        BY <2>1, <2>2 DEF PredecessorOK
    <2>3. CASE txn[active].state = "ACTIVATING" /\ t = txn[active].before
        <3>1. active \notin damaged BY <2>3 DEF DamageOK
        <3>2. Generation(active) = "sealed" BY <2>1, <3>1 DEF ActiveIsUsable
        <3>3. ReadActive = "VALID" BY <2>1, <3>2 DEF ReadActive, MetadataVerifies
        <3> QED BY <2>1, <2>3, <3>3 DEF PredecessorOK
    <2> QED BY <2>1, <2>2, <2>3
<1> QED
    BY <1>1, LineageInvariant, PTL

\* The rollback copy stays on the disk through every later installation, failed
\* or interrupted, as long as active.json is valid.
THEOREM RollbackCopyStays ==
    ASSUME World = "fresh"
    PROVE  Spec => []PredecessorRetained
<1>1. LInv => PredecessorRetained
    BY DEF LInv, LineageInv, PredecessorOK, PredecessorRetained, ReadActive
<1> QED
    BY <1>1, LineageInvariant, PTL

-----------------------------------------------------------------------------
(* Any disk recovery may find.                                             *)
(*                                                                         *)
(* Of a disk that another version or an outside change left, the records   *)
(* say little.  What recovery resolves and what may be deleted follow all  *)
(* the same from what was observed last: the decision recovery settles on, *)
(* the tree that reconciliation or recovery looked at, and the record the  *)
(* worker made BUILDING itself.                                            *)

\* Who can be where, and for what recovery reconciles.
WhoOK ==
    /\ job.pc = "create" => job.by = "start"
    /\ job.pc \in WorkerPcs => job.by = "worker"
    /\ job.pc \in {"observe", "persist"} => job.by = "recover"
    /\ job.pc \in EnvPcs \cup {"point", "gc"} => job.by \in {"worker", "recover"}
    /\ job.by = "recover" /\ job.pc \in EnvPcs => ~Settled(job.prev)
    /\ job.by = "recover" => \A t \in Ids : pend[t] = "none"

\* A worker removes the directory it began itself, of its own transaction.
BuildsOK ==
    job.pc \in {"mkdir", "candidate", "record"}
        => job.t \in Ids /\ txn[job.t].state = "BUILDING" /\ pend[job.t] # "created"

\* The active tree was looked at before anything is collected.
LookedAt == {"sealed", "remnant", "unproven"}
SparesOK == job.pc \in {"path", "readback", "gc"} /\ active # 0 => Generation(active) \in LookedAt

\* What the end of a recovery that opens the gate stands for.
Resolved ==
    /\ \A t \in Ids : txn[t].state \notin NonterminalStates
    /\ active # 0 => txn[active].state \in {"COMMITTED", "NONE"}
    /\ active # 0 /\ txn[active].state = "COMMITTED" /\ left.drift = MaxDrifts
         => EnvironmentComplete
ResolvedOK == job.by = "recover" /\ job.pc = "gc" /\ Settled(job.prev) => Resolved

\* A recovery that reconciles has nothing else in flight, and has nothing in
\* flight once it collects.
LoneOK ==
    job.by = "recover" /\ job.pc \in EnvPcs \cup {"gc"}
        => NonterminalTxns(txn) \subseteq (IF job.pc = "gc" THEN {} ELSE {job.t})

\* A transaction whose tree lies in failed/ although its record is in flight is
\* left to recovery: no worker and no request is about, and no worker's own
\* transaction has such a tree.
MovedOK ==
    /\ (\E t \in Ids : disk["failed"][t] # "absent" /\ txn[t].state \in NonterminalStates)
          => job.by # "worker" /\ \A t \in Ids : pend[t] = "none"
    /\ job.by = "worker" /\ job.t # 0 => disk["failed"][job.t] = "absent"

\* The invariant that is inductive for any disk.
AnyInv ==
    /\ TypeOK /\ StepOK /\ WhoOK /\ IdentityOK /\ BuildsOK /\ SparesOK /\ ResolvedOK
    /\ LoneOK /\ MovedOK
    /\ left.drift <= MaxDrifts

\* What recovery decides of a transaction in flight it has to execute.
LEMMA OneUnsettled ==
    ASSUME NEW obs, NEW t, obs.txns[t].state \in NonterminalStates
    PROVE  ~Settled(DecideOne(obs, t))
<1>1. \A a, n : /\ FailTxn(a).action = a /\ FailTxn(a).next = "FAILED"
                /\ Reconciling(a, n).action = a /\ Reconciling(a, n).next = n
    BY DecisionFields DEF FailTxn, Reconciling
<1>2. Blocked.action = "BLOCK_UNSAFE"
    BY DecisionFields DEF Blocked
<1>3. ~Settled(Blocked)
    BY Zenon, <1>2 DEF Settled
<1>4. /\ ~Settled(FailTxn("NONE")) /\ ~Settled(FailTxn("REMOVE_EMPTY_GENERATION"))
      /\ ~Settled(FailTxn("REMOVE_EMPTY_STAGING")) /\ ~Settled(FailTxn("MOVE_STAGING_TO_FAILED"))
    BY Zenon, <1>1 DEF Settled
<1>5. /\ ~Settled(Reconciling("PERSIST_PUBLISHED", "PUBLISHED"))
      /\ ~Settled(Reconciling("REMOVE_EMPTY_STAGING", "PUBLISHED"))
      /\ ~Settled(Reconciling("REMOVE_EMPTY_STAGING", ""))
      /\ ~Settled(Reconciling("GC_STAGING", ""))
      /\ ~Settled(Reconciling("RECONCILE_ENV", "ACTIVATING"))
      /\ ~Settled(Reconciling("PERSIST_ACTIVATING", "ACTIVATING"))
      /\ ~Settled(Reconciling("COMMIT", "COMMITTED"))
      /\ ~Settled(Reconciling("RECONCILE_ENV", ""))
      /\ ~Settled(Reconciling("ACTIVATE", ""))
    BY Zenon, <1>1 DEF Settled
<1>6. ~Settled(DecideUnsealed(obs))
    BY Zenon, <1>3, <1>4 DEF DecideUnsealed
<1>7. ~Settled(DecideSealed(obs))
    BY Zenon, <1>3, <1>4, <1>5 DEF DecideSealed
<1>8. ~Settled(DecidePublished(obs, t))
    <2>1. LeftoverStaging(obs) # "" => ~Settled(Reconciling(LeftoverStaging(obs), ""))
        BY Zenon, <1>5, LeftoverStagingType
    <2> QED
        BY Zenon, <1>3, <1>5, <2>1 DEF DecidePublished
<1>9. ~Settled(DecideActivating(obs, t))
    BY Zenon, <1>3, <1>5 DEF DecideActivating
<1> QED
    BY Zenon, <1>6, <1>7, <1>8, <1>9 DEF DecideOne

\* What the deletions recovery decides on were decided from.
TreeSound(obs, d) ==
    /\ d.action = "REMOVE_EMPTY_GENERATION" => obs.generation.empty
    /\ d.action = "REMOVE_EMPTY_STAGING" => obs.staging.empty
    /\ d.action = "GC_STAGING" => obs.staging.match

\* Recovery deletes a directory only when it saw it empty, or of its own lineage.
LEMMA DeletionsDecided == \A obs : TreeSound(obs, DecideRecovery(obs))
<1> SUFFICES ASSUME NEW obs PROVE TreeSound(obs, DecideRecovery(obs))
    OBVIOUS
<1>1. \A g, a, n : a \notin {"REMOVE_EMPTY_GENERATION", "REMOVE_EMPTY_STAGING", "GC_STAGING"}
                    => TreeSound(obs, Decision(g, a, n))
    BY DecisionFields DEF TreeSound
<1>2. \A g, n : obs.generation.empty => TreeSound(obs, Decision(g, "REMOVE_EMPTY_GENERATION", n))
    BY DecisionFields DEF TreeSound
<1>3. \A g, n : obs.staging.empty => TreeSound(obs, Decision(g, "REMOVE_EMPTY_STAGING", n))
    BY DecisionFields DEF TreeSound
<1>4. \A g, n : obs.staging.match => TreeSound(obs, Decision(g, "GC_STAGING", n))
    BY DecisionFields DEF TreeSound
<1>5. \A g, n : TreeSound(obs, Decision(g, LeftoverStaging(obs), n))
    <2> SUFFICES ASSUME NEW g, NEW n PROVE TreeSound(obs, Decision(g, LeftoverStaging(obs), n))
        OBVIOUS
    <2>1. CASE LeftoverStaging(obs) = "REMOVE_EMPTY_STAGING"
        BY Zenon, <1>3, <2>1 DEF LeftoverStaging
    <2>2. CASE LeftoverStaging(obs) = "GC_STAGING"
        BY Zenon, <1>4, <2>2 DEF LeftoverStaging
    <2>3. CASE LeftoverStaging(obs) = ""
        BY Zenon, <1>1, <2>3
    <2> QED
        BY Zenon, <2>1, <2>2, <2>3, LeftoverStagingType
<1>6. TreeSound(obs, Blocked)
    BY <1>1 DEF Blocked
<1>7. TreeSound(obs, DecideUnsealed(obs))
    <2>1. /\ TreeSound(obs, FailTxn("NONE")) /\ TreeSound(obs, FailTxn("MOVE_STAGING_TO_FAILED"))
          /\ obs.generation.empty => TreeSound(obs, FailTxn("REMOVE_EMPTY_GENERATION"))
          /\ obs.staging.empty => TreeSound(obs, FailTxn("REMOVE_EMPTY_STAGING"))
        BY <1>1, <1>2, <1>3 DEF FailTxn
    <2> QED
        BY Zenon, <1>6, <2>1 DEF DecideUnsealed
<1>8. TreeSound(obs, DecideSealed(obs))
    <2>1. /\ TreeSound(obs, FailTxn("MOVE_STAGING_TO_FAILED"))
          /\ TreeSound(obs, Reconciling("PERSIST_PUBLISHED", "PUBLISHED"))
          /\ obs.staging.empty => TreeSound(obs, Reconciling("REMOVE_EMPTY_STAGING", "PUBLISHED"))
        BY <1>1, <1>3 DEF FailTxn, Reconciling
    <2> QED
        BY Zenon, <1>6, <2>1 DEF DecideSealed
<1>9. \A t : TreeSound(obs, DecidePublished(obs, t)) /\ TreeSound(obs, DecideActivating(obs, t))
    <2> SUFFICES ASSUME NEW t
                 PROVE  TreeSound(obs, DecidePublished(obs, t)) /\ TreeSound(obs, DecideActivating(obs, t))
        OBVIOUS
    <2>1. TreeSound(obs, Reconciling(LeftoverStaging(obs), ""))
        BY Zenon, <1>5 DEF Reconciling
    <2>2. /\ TreeSound(obs, Reconciling("RECONCILE_ENV", "ACTIVATING"))
          /\ TreeSound(obs, Reconciling("RECONCILE_ENV", ""))
          /\ TreeSound(obs, Reconciling("PERSIST_ACTIVATING", "ACTIVATING"))
          /\ TreeSound(obs, Reconciling("COMMIT", "COMMITTED"))
          /\ TreeSound(obs, Reconciling("ACTIVATE", ""))
        BY <1>1 DEF Reconciling
    <2> QED
        BY Zenon, <1>6, <2>1, <2>2 DEF DecidePublished, DecideActivating
<1>10. TreeSound(obs, DecideTerminalWorld(obs))
    <2>1. /\ TreeSound(obs, Nothing)
          /\ TreeSound(obs, Decision("READY", "COMMIT", "COMMITTED"))
          /\ TreeSound(obs, Decision("READY", "RECONCILE_ENV", ""))
          /\ TreeSound(obs, Decision("READY", "DIAGNOSE_RETAIN", ""))
          /\ TreeSound(obs, Reconciling("RECONCILE_ENV", "ACTIVATING"))
        BY <1>1 DEF Nothing, Reconciling
    <2>2. TreeSound(obs, Decision("READY", LeftoverStaging(obs), ""))
        BY Zenon, <1>5
    <2> QED
        BY Zenon, <2>1, <2>2 DEF DecideTerminalWorld
<1>11. \A t : TreeSound(obs, DecideOne(obs, t))
    BY Zenon, <1>7, <1>8, <1>9 DEF DecideOne
<1>12. TreeSound(obs, Reconciling("FAIL_FAILABLE_EXTRAS", ""))
    BY <1>1 DEF Reconciling
<1> QED
    BY Zenon, <1>6, <1>10, <1>11, <1>12 DEF DecideRecovery

\* What an observation says of the directories.
LEMMA ObservedTrees ==
    ASSUME TypeOK
    PROVE  /\ Observation.generation.empty => Primary \in Ids /\ Generation(Primary) = "empty"
           /\ Observation.staging.empty => Primary \in Ids /\ disk["staging"][Primary] = "empty"
           /\ Observation.staging.match
                => Primary \in Ids /\ disk["staging"][Primary] \in {"candidate", "sealed", "remnant"}
<1>1. Primary # 0 => Primary \in Ids
    BY PrimaryType, BoundsAssumption
<1>2. /\ Observation.staging = IF Primary = 0 THEN NoTree
                               ELSE ObserveTree(disk["staging"][Primary], txn[Primary].seal)
      /\ Observation.generation = IF Primary = 0 THEN NoTree
                                  ELSE ObserveTree(Generation(Primary), txn[Primary].seal)
    BY DEF Observation
<1>3. \A tree, seal : /\ ObserveTree(tree, seal).empty => tree = "empty"
                      /\ ObserveTree(tree, seal).match => tree \in {"candidate", "sealed", "remnant"}
    BY DEF ObserveTree
<1>4. ~NoTree.empty /\ ~NoTree.match
    BY DEF NoTree
<1> QED
    BY <1>1, <1>2, <1>3, <1>4

\* Where recovery settles nothing is in flight, and what active.json names is
\* committed and reachable, or unknown.
LEMMA SettledIsResolved ==
    ASSUME TypeOK, Settled(DecideRecovery(Observation))
    PROVE  Resolved /\ ReadActive # "INVALID"
<1> DEFINE obs == Observation
<1>1. obs.txns = txn /\ obs.pointer = ReadActive /\ obs.active = active
    BY DEF Observation
<1>2. ~Settled(Blocked) /\ ~Settled(Reconciling("FAIL_FAILABLE_EXTRAS", ""))
    <2>1. /\ Blocked.action = "BLOCK_UNSAFE"
          /\ Reconciling("FAIL_FAILABLE_EXTRAS", "").action = "FAIL_FAILABLE_EXTRAS"
        BY DecisionFields DEF Blocked, Reconciling
    <2> QED
        BY Zenon, <2>1 DEF Settled
<1>3. (\E t \in NonterminalTxns(txn) : NonterminalTxns(txn) = {t})
        => ~Settled(DecideOne(obs, CHOOSE t \in NonterminalTxns(txn) : TRUE))
    <2>1. \A t \in NonterminalTxns(txn) : ~Settled(DecideOne(obs, t))
        BY <1>1, OneUnsettled DEF NonterminalTxns
    <2> QED
        BY Zenon, <2>1
<1>4. /\ ReadActive # "INVALID" /\ ~(\E t \in Ids : txn[t].state = "INVALID")
      /\ NonterminalTxns(txn) = {} /\ Settled(DecideTerminalWorld(obs))
    <2>1. DOMAIN txn = Ids
        BY DEF TypeOK
    <2> QED
        BY Zenon, <1>1, <1>2, <1>3, <2>1 DEF DecideRecovery
<1>5. \A t \in Ids : txn[t].state \in {"COMMITTED", "FAILED", "NONE"}
    BY <1>4 DEF NonterminalTxns, TypeOK, TxnRecords, TxnStates, ValidStates, TerminalStates
<1>6. \A t \in Ids : txn[t].state \notin NonterminalStates
    BY <1>5 DEF NonterminalStates
<1>7. ASSUME active # 0
      PROVE  /\ txn[active].state \in {"COMMITTED", "NONE"}
             /\ txn[active].state = "COMMITTED" => EnvironmentComplete
    <2>1. active \in Ids /\ ReadActive = "VALID"
        BY <1>4, <1>7, ReadActiveCases, BoundsAssumption DEF TypeOK
    <2>2. /\ ~Settled(Decision("READY", "COMMIT", "COMMITTED"))
          /\ ~Settled(Reconciling("RECONCILE_ENV", "ACTIVATING"))
          /\ ~Settled(Decision("READY", "RECONCILE_ENV", ""))
          /\ ~Settled(Decision("READY", "REMOVE_EMPTY_STAGING", ""))
          /\ ~Settled(Decision("READY", "GC_STAGING", ""))
        <3>1. /\ Decision("READY", "COMMIT", "COMMITTED").action = "COMMIT"
              /\ Reconciling("RECONCILE_ENV", "ACTIVATING").action = "RECONCILE_ENV"
              /\ Decision("READY", "RECONCILE_ENV", "").action = "RECONCILE_ENV"
              /\ Decision("READY", "REMOVE_EMPTY_STAGING", "").action = "REMOVE_EMPTY_STAGING"
              /\ Decision("READY", "GC_STAGING", "").action = "GC_STAGING"
            BY DecisionFields DEF Reconciling
        <3> QED
            BY Zenon, <3>1 DEF Settled
    <2>3. txn[active].state # "FAILED"
        <3>1. ASSUME txn[active].state = "FAILED"
              PROVE  DecideTerminalWorld(obs) \in {Decision("READY", "COMMIT", "COMMITTED"),
                                                   Reconciling("RECONCILE_ENV", "ACTIVATING")}
            BY <1>1, <2>1, <3>1 DEF DecideTerminalWorld
        <3> QED
            BY <1>4, <2>2, <3>1
    <2>4. ASSUME txn[active].state = "COMMITTED" PROVE obs.env
        <3>1. LeftoverStaging(obs) # "" => ~Settled(Decision("READY", LeftoverStaging(obs), ""))
            BY Zenon, <2>2, LeftoverStagingType
        <3>2. ~obs.env => ~Settled(DecideTerminalWorld(obs))
            BY <1>1, <2>1, <2>2, <2>4, <3>1 DEF DecideTerminalWorld
        <3> QED
            BY <1>4, <3>2
    <2>5. obs.env => EnvironmentComplete
        BY DEF Observation
    <2> QED
        BY <1>5, <2>1, <2>3, <2>4, <2>5
<1> QED
    BY <1>4, <1>6, <1>7 DEF Resolved

\* Collection deletes trees of their own lineage, and in generations/ those of
\* finished transactions other than the active one.
LEMMA GarbageProven ==
    ASSUME TypeOK, SparesOK, LoneOK, MovedOK, job.pc = "gc", job.by \in {"worker", "recover"},
           NEW p \in Places, NEW t \in Ids, <<p, t>> \in Garbage
    PROVE  /\ disk[p][t] \in {"candidate", "sealed", "remnant"}
           /\ <<p, t>> # <<"generations", active>>
           /\ txn[t].state \in TerminalStates \/ p = "staging"
<1>1. LineageProven(p, t) /\ txn[t].state \in ValidStates /\ <<p, t>> \notin Retained
    BY DEF Garbage, ProvenTrees
<1>2. disk[p][t] \in {"candidate", "sealed", "remnant"}
    BY <1>1 DEF LineageProven, MetadataVerifies
<1>3. ASSUME p = "generations", t = active PROVE FALSE
    <2>1. active # 0 /\ Generation(active) \in {"sealed", "remnant"}
        BY <1>2, <1>3, BoundsAssumption DEF SparesOK, LookedAt, Generation
    <2>2. ReadActive = "VALID"
        BY <2>1 DEF ReadActive, MetadataVerifies
    <2>3. <<"generations", active>> \in Retained
        BY <2>2 DEF Retained
    <2> QED
        BY <1>1, <1>3, <2>3
<1>4. p # "staging" => txn[t].state \notin NonterminalStates
    <2>1. CASE p = "generations"
        BY <1>1, <2>1 DEF Retained
    <2>2. CASE p = "failed" /\ job.by = "worker"
        BY <1>2, <2>2 DEF MovedOK
    <2>3. CASE job.by = "recover"
        <3>1. NonterminalTxns(txn) = {}
            BY <2>3 DEF LoneOK
        <3> QED
            BY <3>1 DEF NonterminalTxns, TypeOK
    <2> QED
        BY <2>1, <2>2, <2>3
<1> QED
    BY <1>1, <1>2, <1>3, <1>4 DEF ValidStates

\* Everyone stays where the code lets them be.
LEMMA StepKeepsWho ==
    ASSUME AnyInv, [Next]_vars
    PROVE  WhoOK'
<1> USE DEF AnyInv
<1>1. ASSUME job' = Idle PROVE WhoOK'
    BY <1>1, LockFields DEF WhoOK, WorkerPcs, EnvPcs
<1>2. ASSUME job.by = "recover", job'.by = "recover", pend' = pend,
             job'.pc \in {"observe", "persist", "point", "gc"}
      PROVE  WhoOK'
    BY <1>2 DEF WhoOK, WorkerPcs, EnvPcs
<1>3. ASSUME NEW pc \in WorkerPcs \cup {"point"}, job.pc \in WorkerPcs, pend' = pend, Goto(pc)
      PROVE  WhoOK'
    BY <1>3, GotoFields DEF WhoOK, WorkerPcs, EnvPcs
<1>4. ASSUME job'.by = job.by, job'.prev = job.prev, pend' = pend, job'.pc \in EnvPcs,
             job.pc \in EnvPcs \cup {"point", "gc"},
             job.by = "recover" => ~Settled(job.prev)
      PROVE  WhoOK'
    BY <1>4 DEF WhoOK, WorkerPcs, EnvPcs
<1>5. ASSUME job.by = "recover", NextStep, pend' = pend, job.pc # "observe" PROVE WhoOK'
    BY <1>2, <1>5, NextStepType DEF TypeOK, StepOK
<1>6. ASSUME EndTail, pend' = pend, job.pc # "observe" PROVE WhoOK'
    BY <1>1, <1>5, <1>6 DEF EndTail, Release
<1>7. ASSUME ReturnError PROVE WhoOK'
    BY <1>1, <1>7 DEF ReturnError, Release
<1>8. ASSUME job' = [job EXCEPT !.pc = "home", !.tail = TRUE], pend' = pend, job.pc \in EnvPcs \cup {"gc"},
             job.by = "recover" => ~Settled(job.prev)
      PROVE  WhoOK'
    BY <1>4, <1>8, TailFields DEF EnvPcs
<1>9. ASSUME UNCHANGED <<job, pend>> PROVE WhoOK'
    BY <1>9 DEF WhoOK
<1>10. CASE SealLoad
    <2>1. CASE job' = [job EXCEPT !.pc = "mkdir", !.t = identity]
        <3>1. job'.by = job.by /\ job'.pc = "mkdir" /\ pend' = pend /\ job.by = "worker"
            BY <1>10, <2>1 DEF SealLoad, TypeOK, Jobs, WhoOK, WorkerPcs
        <3> QED
            BY <3>1 DEF WhoOK, WorkerPcs, EnvPcs
    <2> QED
        BY <1>1, <1>10, <2>1 DEF SealLoad, Release
<1>11. CASE CreateGeneration \/ CandidateTemp \/ CandidateRecord \/ Build \/ Seal
    BY <1>3, <1>11
    DEF CreateGeneration, CandidateTemp, CandidateRecord, Build, Seal, WorkerPcs
<1>12. CASE PersistSealed \/ Publish \/ MarkActivating \/ Fail
    BY <1>1, <1>3, <1>12 DEF PersistSealed, Publish, MarkActivating, Fail, Release, WorkerPcs
<1>13. CASE WriteActive
    <2>1. CASE ReturnError
        BY <1>7, <2>1
    <2>2. CASE job.by = "recover" /\ NextStep
        BY <1>5, <1>13, <2>2 DEF WriteActive
    <2>3. CASE job.by # "recover" /\ Goto("home")
        BY <1>4, <1>13, <2>3, GotoFields DEF WriteActive, EnvPcs
    <2> QED
        BY <1>13, <2>1, <2>2, <2>3 DEF WriteActive
<1>14. CASE ReconcileHome
    <2>1. pend' = pend /\ job.pc = "home" /\ (job.by = "recover" => ~Settled(job.prev))
        BY <1>14 DEF ReconcileHome, WhoOK, EnvPcs
    <2>2. ASSUME NEW plan, job' = [job EXCEPT !.pc = "path", !.plan = plan] PROVE WhoOK'
        BY <1>4, <2>1, <2>2, PlanFields DEF EnvPcs
    <2> QED
        BY <1>6, <1>7, <1>14, <2>1, <2>2 DEF ReconcileHome
<1>15. CASE ReconcilePath
    <2>1. pend' = pend /\ job.pc = "path" /\ (job.by = "recover" => ~Settled(job.prev)) /\ Goto("readback")
        BY <1>15 DEF ReconcilePath, WhoOK, EnvPcs
    <2> QED
        BY <1>4, <2>1, GotoFields DEF EnvPcs
<1>16. CASE ReconcileReadback
    <2>1. pend' = pend /\ job.pc = "readback" /\ (job.by = "recover" => ~Settled(job.prev))
        BY <1>16 DEF ReconcileReadback, WhoOK, EnvPcs
    <2>2. ASSUME Goto("gc") PROVE WhoOK'
        <3>1. job'.by = job.by /\ job'.pc = "gc"
            BY <2>2, GotoFields
        <3> QED
            BY <2>1, <3>1 DEF WhoOK, WorkerPcs, EnvPcs
    <2> QED
        BY <1>6, <1>7, <1>8, <1>16, <2>1, <2>2 DEF ReconcileReadback, EnvPcs
<1>17. CASE Collect
    BY <1>1, <1>8, <1>9, <1>17 DEF Collect, CollectTree, CollectEnd
<1>18. CASE RecoverPersist
    BY <1>5, <1>18 DEF RecoverPersist, WhoOK
<1>19. CASE RecoverStep
    <2> DEFINE d == DecideRecovery(Observation)
    <2>1. job.by = "recover" /\ job.pc = "observe" /\ pend' = pend
        BY <1>19 DEF RecoverStep, WhoOK
    <2> HIDE DEF d
    <2>2. CASE RecoverSettle(d)
        <3>1. job'.by = job.by /\ job'.pc = "gc"
            BY <2>2 DEF RecoverSettle, TypeOK, Jobs
        <3> QED
            BY <1>2, <2>1, <3>1
    <2>3. CASE RecoverBlock
        BY <1>1, <2>3 DEF RecoverBlock, Release
    <2>4. CASE RecoverTree(d, Primary)
        <3>1. job'.by = job.by /\ job'.pc = "persist"
            BY <2>4 DEF RecoverTree, TypeOK, Jobs
        <3> QED
            BY <1>2, <2>1, <3>1
    <2>5. CASE RecoverRecord(d, Primary)
        <3>1. CASE d.action = "RECONCILE_ENV"
            <4>1. job'.by = job.by /\ job'.pc = "home" /\ job'.prev = d
                BY <2>5, <3>1 DEF RecoverRecord, TypeOK, Jobs
            <4>2. ~Settled(d)
                BY Zenon, <3>1 DEF Settled
            <4> QED
                BY <2>1, <4>1, <4>2 DEF WhoOK, WorkerPcs
        <3>2. CASE d.action # "RECONCILE_ENV"
            <4>1. job'.by = job.by /\ job'.pc \in {"point", "observe"}
                BY <2>1, <2>5, <3>2 DEF RecoverRecord, TypeOK, Jobs
            <4> QED
                BY <1>2, <2>1, <4>1
        <3> QED
            BY <3>1, <3>2
    <2> QED
        BY <1>19, <2>2, <2>3, <2>4, <2>5 DEF RecoverStep, d
<1>20. CASE IOFault
    <2>1. pend' = pend
        BY <1>20 DEF IOFault
    <2>2. CASE job.pc \in {"mkdir", "build", "seal", "candidate", "record"} /\ Goto("fail")
        BY <1>3, <2>1, <2>2 DEF WorkerPcs
    <2>3. CASE /\ job.pc = "gc"
               /\ job' = IF job.by = "recover" /\ Settled(job.prev) THEN Idle
                         ELSE [job EXCEPT !.pc = "home", !.tail = TRUE]
        BY <1>1, <1>8, <2>1, <2>3
    <2>4. CASE job.pc \in EnvPcs /\ EndTail
        BY <1>6, <2>1, <2>4 DEF EnvPcs
    <2> QED
        BY <1>7, <1>20, <2>2, <2>3, <2>4 DEF IOFault
<1>21. CASE \/ RejectInvalidPointer \/ AdmitStart \/ RefuseStart \/ Drift \/ Damage \/ UNCHANGED vars
            \/ \E t \in Ids : CancelContext(t)
    BY <1>9, <1>21 DEF RejectInvalidPointer, AdmitStart, RefuseStart, Drift, Damage, CancelContext, vars
<1>22. CASE StartLock
    <2>1. job'.by = "start" /\ job'.pc = "create"
        BY <1>22, LockFields DEF StartLock
    <2> QED
        BY <2>1 DEF WhoOK, WorkerPcs, EnvPcs
<1>23. CASE StartCreate
    BY <1>1, <1>23 DEF StartCreate, Release
<1>24. ASSUME NEW t \in Ids, pend[t] # "none", job' = job PROVE WhoOK'
    BY <1>24 DEF WhoOK
<1>25. ASSUME NEW t \in Ids, \/ StartSpawn(t) \/ MarkTransactionFailed(t)
                             \/ SetInstallIdentity(t) \/ WorkerQuit(t)
       PROVE  WhoOK'
    BY <1>24, <1>25 DEF StartSpawn, MarkTransactionFailed, SetInstallIdentity, WorkerQuit
<1>26. ASSUME NEW t \in Ids, WorkerLock(t) PROVE WhoOK'
    <2>1. CASE job.by = "none"
        <3>1. job'.by = "worker" /\ job'.pc = "load"
            BY <1>26, <2>1, LockFields DEF WorkerLock
        <3> QED
            BY <3>1 DEF WhoOK, WorkerPcs, EnvPcs
    <2> QED
        BY <1>24, <1>26, <2>1 DEF WorkerLock
<1>27. CASE Crash
    <2>1. job'.by = "recover" /\ job'.pc = "observe" /\ pend' = [t \in Ids |-> "none"]
        BY <1>27, LockFields DEF Crash
    <2> QED
        BY <2>1 DEF WhoOK, WorkerPcs, EnvPcs
<1> QED
    BY <1>10, <1>11, <1>12, <1>13, <1>14, <1>15, <1>16, <1>17, <1>18, <1>19, <1>20, <1>21, <1>22,
       <1>23, <1>25, <1>26, <1>27
    DEF Next, Request, Daemon, Trouble, Handler, Worker, Reconcile, Recovery

\* The steps of those who do not hold the lock.
Aside ==
    \/ RejectInvalidPointer \/ AdmitStart \/ RefuseStart \/ Drift \/ Damage \/ UNCHANGED vars
    \/ \E t \in Ids : \/ CancelContext(t) \/ StartSpawn(t) \/ MarkTransactionFailed(t)
                      \/ SetInstallIdentity(t) \/ WorkerLock(t) \/ WorkerQuit(t)

\* The steps after which the holder builds, or is about to collect.
LEMMA WhereFrom ==
    ASSUME AnyInv, [Next]_vars
    PROVE  /\ job'.pc \in {"mkdir", "candidate", "record"}
                => SealLoad \/ CreateGeneration \/ CandidateTemp \/ (Aside /\ job' = job)
           /\ job'.pc \in {"path", "readback", "gc"}
                => \/ ReconcileHome \/ ReconcilePath \/ ReconcileReadback \/ RecoverStep
                   \/ \E p \in Places, t \in Ids : CollectTree(p, t)
                   \/ Aside /\ job' = job
<1> USE DEF AnyInv
<1> DEFINE Told == {"mkdir", "candidate", "record", "path", "readback", "gc"}
<1>1. job' = Idle => job'.pc \notin Told
    BY LockFields
<1>2. NextStep /\ job.pc # "observe" => job'.pc \notin Told
    BY NextStepType DEF TypeOK, StepOK
<1>3. \A pc : Goto(pc) => job'.pc = pc
    BY GotoFields
<1>4. job' = [job EXCEPT !.pc = "home", !.tail = TRUE] => job'.pc \notin Told
    BY TailFields
<1>5. CASE \/ CandidateRecord \/ Build \/ Seal \/ PersistSealed \/ Publish \/ MarkActivating \/ Fail
           \/ WriteActive \/ RecoverPersist \/ CollectEnd \/ StartCreate
    BY <1>1, <1>2, <1>3, <1>4, <1>5
    DEF CandidateRecord, Build, Seal, PersistSealed, Publish, MarkActivating, Fail, WriteActive,
        RecoverPersist, CollectEnd, StartCreate, Release, ReturnError
<1>6. CASE IOFault
    BY <1>1, <1>2, <1>3, <1>4, <1>6 DEF IOFault, EndTail, Release, ReturnError, EnvPcs
<1>7. CASE StartLock \/ Crash
    BY <1>7, LockFields DEF StartLock, Crash
<1>8. CASE Aside
    <2>1. ASSUME NEW t \in Ids, WorkerLock(t) PROVE job' = job \/ job'.pc = "load"
        BY <2>1, LockFields DEF WorkerLock
    <2>2. ASSUME NEW t \in Ids, StartSpawn(t) \/ MarkTransactionFailed(t) \/ SetInstallIdentity(t)
                                \/ WorkerQuit(t) \/ CancelContext(t)
          PROVE  job' = job
        BY <2>2 DEF StartSpawn, MarkTransactionFailed, SetInstallIdentity, WorkerQuit, CancelContext
    <2>3. ASSUME RejectInvalidPointer \/ AdmitStart \/ RefuseStart \/ Drift \/ Damage \/ UNCHANGED vars
          PROVE  job' = job
        BY <2>3 DEF RejectInvalidPointer, AdmitStart, RefuseStart, Drift, Damage, vars
    <2>4. job' = job \/ job'.pc = "load"
        BY <1>8, <2>1, <2>2, <2>3 DEF Aside
    <2> QED
        BY <1>8, <2>4
<1>9. CASE SealLoad
    BY <1>1, <1>9 DEF SealLoad, Release, TypeOK, Jobs
<1>10. CASE CreateGeneration \/ CandidateTemp
    BY <1>3, <1>10 DEF CreateGeneration, CandidateTemp
<1>11. CASE ReconcileHome \/ ReconcilePath \/ ReconcileReadback
    <2>1. job'.pc \notin {"mkdir", "candidate", "record"}
        <3>1. \A p : job' = [job EXCEPT !.pc = "path", !.plan = p] => job'.pc = "path"
            BY PlanFields
        <3> QED
            BY <1>1, <1>2, <1>3, <1>4, <1>11, <3>1
            DEF ReconcileHome, ReconcilePath, ReconcileReadback, EndTail, Release, ReturnError
    <2> QED
        BY <1>11, <2>1
<1>12. CASE RecoverStep
    <2>1. job'.pc \notin {"mkdir", "candidate", "record"}
        <3>1. job.pc = "observe"
            BY <1>12 DEF RecoverStep
        <3>2. ASSUME NEW d, RecoverSettle(d) \/ RecoverTree(d, Primary) \/ RecoverRecord(d, Primary)
              PROVE  job'.pc \in {"gc", "persist", "home", "point", "observe"}
            BY <3>1, <3>2 DEF RecoverSettle, RecoverTree, RecoverRecord, TypeOK, Jobs
        <3> QED
            BY <1>1, <1>12, <3>2 DEF RecoverStep, RecoverBlock, Release
    <2> QED
        BY <1>12, <2>1
<1>13. ASSUME NEW p \in Places, NEW t \in Ids, CollectTree(p, t)
       PROVE  job'.pc = "gc"
    BY <1>13 DEF CollectTree
<1> QED
    BY <1>5, <1>6, <1>7, <1>8, <1>9, <1>10, <1>11, <1>12, <1>13
    DEF Next, Request, Daemon, Trouble, Handler, Worker, Reconcile, Collect, Recovery, Aside

\* The directory a worker began stays the one of its own BUILDING transaction.
LEMMA StepKeepsBuilds ==
    ASSUME AnyInv, [Next]_vars
    PROVE  BuildsOK'
<1> USE DEF AnyInv
<1> SUFFICES ASSUME job'.pc \in {"mkdir", "candidate", "record"}
             PROVE  job'.t \in Ids /\ txn'[job'.t].state = "BUILDING" /\ pend'[job'.t] # "created"
    BY DEF BuildsOK
<1>1. CASE SealLoad
    <2>1. job.by = "worker" /\ identity \in Ids
        BY <1>1, BoundsAssumption DEF SealLoad, WhoOK, WorkerPcs, IdentityOK, TypeOK
    <2>2. SaveState(identity, "BUILDING") /\ job' = [job EXCEPT !.pc = "mkdir", !.t = identity]
        BY <1>1, LockFields DEF SealLoad, Release
    <2>3. job'.t = identity /\ txn'[identity].state = "BUILDING"
        BY <2>1, <2>2, SaveStateEffect DEF TypeOK, Jobs
    <2>4. pend'[identity] # "created"
        BY <1>1, <2>1, BoundsAssumption DEF SealLoad, IdentityOK
    <2> QED
        BY <2>1, <2>3, <2>4
<1>2. CASE CreateGeneration \/ CandidateTemp
    <2>1. job.pc \in {"mkdir", "candidate"} /\ txn' = txn /\ pend' = pend /\ job'.t = job.t
        BY <1>2, GotoFields DEF CreateGeneration, CandidateTemp
    <2> QED
        BY <2>1 DEF BuildsOK
<1>3. CASE Aside /\ job' = job
    <2>1. job.t \in Ids /\ txn[job.t].state = "BUILDING" /\ pend[job.t] # "created"
        BY <1>3 DEF BuildsOK
    <2>2. ASSUME NEW t \in Ids, MarkTransactionFailed(t) PROVE txn'[job.t] = txn[job.t] /\ pend'[job.t] # "created"
        <3>1. t # job.t
            BY <2>1, <2>2 DEF MarkTransactionFailed
        <3>2. txn'[job.t] = txn[job.t]
            BY <2>1, <2>2, <3>1, SaveStateEffect DEF MarkTransactionFailed
        <3> QED
            BY <2>1, <2>2, <3>1, <3>2 DEF MarkTransactionFailed, TypeOK
    <2>3. ASSUME NEW t \in Ids, StartSpawn(t) \/ SetInstallIdentity(t) \/ WorkerLock(t) \/ WorkerQuit(t)
                                \/ CancelContext(t)
          PROVE  txn' = txn /\ pend'[job.t] # "created"
        BY <2>1, <2>3
        DEF StartSpawn, SetInstallIdentity, WorkerLock, WorkerQuit, CancelContext, TypeOK
    <2>4. ASSUME RejectInvalidPointer \/ AdmitStart \/ RefuseStart \/ Drift \/ Damage \/ UNCHANGED vars
          PROVE  txn' = txn /\ pend' = pend
        BY <2>4 DEF RejectInvalidPointer, AdmitStart, RefuseStart, Drift, Damage, vars
    <2> QED
        BY <1>3, <2>1, <2>2, <2>3, <2>4 DEF Aside
<1> QED
    BY <1>1, <1>2, <1>3, WhereFrom

\* The steps of a recovery that does not settle lead elsewhere than collection.
LEMMA DecidedAside ==
    ASSUME TypeOK, job.pc = "observe", NEW d,
           RecoverTree(d, Primary) \/ RecoverRecord(d, Primary) \/ RecoverBlock
    PROVE  job'.pc \notin {"path", "readback", "gc"}
<1>1. CASE RecoverTree(d, Primary)
    <2>1. job'.pc = "persist"
        BY <1>1 DEF RecoverTree, TypeOK, Jobs
    <2> QED
        BY <2>1
<1>2. CASE RecoverRecord(d, Primary)
    <2>1. job'.pc \in {"home", "point", "observe"}
        BY <1>2 DEF RecoverRecord, TypeOK, Jobs
    <2> QED
        BY <2>1
<1>3. CASE RecoverBlock
    BY <1>3, LockFields DEF RecoverBlock, Release
<1> QED
    BY <1>1, <1>2, <1>3

\* While something may be collected, the active tree is not a bare candidate.
LEMMA StepKeepsSpares ==
    ASSUME AnyInv, [Next]_vars
    PROVE  SparesOK'
<1> USE DEF AnyInv
<1> SUFFICES ASSUME job'.pc \in {"path", "readback", "gc"}, active' # 0
             PROVE  disk'["generations"][active'] \in LookedAt
    BY DEF SparesOK, Generation
<1>1. CASE ReconcileHome
    <2>1. active # 0 /\ Generation(active) = "sealed"
        <3>1. job' # Idle /\ ~NextStep
            BY <1>1, LockFields, NextStepType DEF ReconcileHome, TypeOK, StepOK
        <3> QED
            BY <1>1, <3>1 DEF ReconcileHome, EndTail, ReturnError, Release
    <2> QED
        BY <1>1, <2>1 DEF ReconcileHome, Generation, LookedAt
<1>2. CASE ReconcilePath \/ ReconcileReadback
    BY <1>2 DEF ReconcilePath, ReconcileReadback, SparesOK, Generation
<1>3. CASE RecoverStep
    <2> DEFINE d == DecideRecovery(Observation)
    <2>1. job.pc = "observe" /\ active' = active
        BY <1>3 DEF RecoverStep
    <2>2. ASSUME RecoverTree(d, Primary) \/ RecoverRecord(d, Primary) \/ RecoverBlock
          PROVE  job'.pc \notin {"path", "readback", "gc"}
        BY <2>1, <2>2, DecidedAside
    <2>3. Settled(d) /\ disk' = disk
        BY <1>3, <2>2 DEF RecoverStep, RecoverSettle
    <2>4. ReadActive # "INVALID"
        BY <2>3, SettledIsResolved
    <2> QED
        BY <2>1, <2>3, <2>4 DEF ReadActive, MetadataVerifies, LookedAt, Generation
<1>4. ASSUME NEW p \in Places, NEW t \in Ids, CollectTree(p, t)
      PROVE  disk'["generations"][active'] \in LookedAt
    <2>1. job.pc = "gc" /\ active' = active /\ active # 0 /\ SetTree(p, t, "absent")
          /\ (p = "generations" => t # active)
        <3>1. job.pc = "gc" /\ <<p, t>> \in Garbage /\ job.by \in {"worker", "recover"}
            BY <1>4 DEF CollectTree, WhoOK
        <3> QED
            BY <1>4, <3>1, GarbageProven DEF CollectTree
    <2>2. Generation(active) \in LookedAt
        BY <2>1 DEF SparesOK
    <2> QED
        BY <2>1, <2>2 DEF SetTree, Generation, TypeOK
<1>5. CASE Aside /\ job' = job
    <2>1. CASE Damage
        <3>1. active' = active /\ \E tree \in {"remnant", "unproven"} : SetTree("generations", active, tree)
            BY <2>1 DEF Damage
        <3>2. active \in Ids
            BY <3>1, BoundsAssumption DEF TypeOK
        <3> QED
            BY <3>1, <3>2 DEF SetTree, TypeOK, LookedAt
    <2>2. CASE ~Damage
        <3>1. disk' = disk /\ active' = active
            BY <1>5, <2>2
            DEF Aside, RejectInvalidPointer, AdmitStart, RefuseStart, Drift, vars, CancelContext,
                StartSpawn, MarkTransactionFailed, SetInstallIdentity, WorkerLock, WorkerQuit
        <3> QED
            BY <1>5, <3>1 DEF SparesOK, Generation
    <2> QED
        BY <2>1, <2>2
<1> QED
    BY <1>1, <1>2, <1>3, <1>4, <1>5, WhereFrom

\* What recovery settled on stays resolved until it has collected.
LEMMA StepKeepsResolved ==
    ASSUME AnyInv, [Next]_vars
    PROVE  ResolvedOK'
<1> USE DEF AnyInv
<1> SUFFICES ASSUME job'.by = "recover", job'.pc = "gc", Settled(job'.prev)
             PROVE  Resolved'
    BY DEF ResolvedOK
<1>1. ASSUME Resolved, txn' = txn, active' = active, home' = home, path' = path, left' = left
      PROVE  Resolved'
    BY <1>1 DEF Resolved, EnvironmentComplete
<1>2. CASE RecoverStep
    <2> DEFINE d == DecideRecovery(Observation)
    <2>1. job.pc = "observe" /\ UNCHANGED <<active, environment, outside>>
        BY <1>2 DEF RecoverStep
    <2>2. ASSUME RecoverTree(d, Primary) \/ RecoverRecord(d, Primary) \/ RecoverBlock
          PROVE  job'.pc # "gc"
        BY <2>1, <2>2, DecidedAside
    <2>3. Settled(d) /\ txn' = txn
        BY <1>2, <2>2 DEF RecoverStep, RecoverSettle
    <2>4. Resolved
        BY <2>3, SettledIsResolved
    <2> QED
        BY <1>1, <2>1, <2>3, <2>4 DEF environment, outside
<1>3. CASE ReconcileHome \/ ReconcilePath
    <2>1. \A p : job' = [job EXCEPT !.pc = "path", !.plan = p] => job'.pc # "gc"
        BY PlanFields
    <2>2. NextStep /\ job.pc = "home" => job'.pc # "gc"
        BY NextStepType DEF TypeOK, StepOK
    <2>3. Idle.pc # "gc"
        BY LockFields
    <2>4. CASE ReconcileHome
        BY <2>1, <2>2, <2>3, <2>4 DEF ReconcileHome, EndTail, ReturnError, Release
    <2>5. CASE ReconcilePath
        <3>1. job'.pc = "readback"
            BY <2>5, GotoFields DEF ReconcilePath
        <3> QED
            BY <3>1
    <2> QED
        BY <1>3, <2>4, <2>5
<1>4. CASE ReconcileReadback
    <2>1. NextStep => job'.pc # "gc"
        BY <1>4, NextStepType DEF ReconcileReadback, TypeOK, StepOK
    <2>2. Goto("gc")
        BY <1>4, <2>1, LockFields, TailFields DEF ReconcileReadback, EndTail, ReturnError, Release
    <2>3. job.by = "recover" /\ job.prev = job'.prev /\ job.pc = "readback"
        BY <1>4, <2>2, GotoFields DEF ReconcileReadback
    <2> QED
        BY <2>3 DEF WhoOK, EnvPcs
<1>5. ASSUME NEW p \in Places, NEW t \in Ids, CollectTree(p, t) PROVE Resolved'
    BY <1>1, <1>5 DEF CollectTree, ResolvedOK, environment, outside
<1>6. CASE Aside /\ job' = job
    <2>1. Resolved /\ \A t \in Ids : pend[t] = "none"
        BY <1>6 DEF ResolvedOK, WhoOK
    <2>2. CASE Drift
        <3>1. txn' = txn /\ active' = active /\ left'.drift # MaxDrifts
            BY <2>2, BoundsAssumption DEF Drift, TypeOK
        <3> QED
            BY <2>1, <3>1 DEF Resolved
    <2>3. CASE ~Drift
        <3>1. UNCHANGED <<txn, active, home, path, left>>
            BY <1>6, <2>1, <2>3
            DEF Aside, RejectInvalidPointer, AdmitStart, RefuseStart, Damage, vars, CancelContext,
                StartSpawn, MarkTransactionFailed, SetInstallIdentity, WorkerLock, WorkerQuit,
                environment, outside
        <3> QED
            BY <1>1, <2>1, <3>1
    <2> QED
        BY <2>2, <2>3
<1> QED
    BY <1>2, <1>3, <1>4, <1>5, <1>6, WhereFrom

\* What recovery reconciles for is the only transaction in flight.
LEMMA ReconciledIsLone ==
    ASSUME TypeOK, DecideRecovery(Observation).action = "RECONCILE_ENV"
    PROVE  NonterminalTxns(txn) \subseteq {Primary}
<1> DEFINE open == NonterminalTxns(txn)
<1>1. Observation.txns = txn
    BY DEF Observation
<1>2. /\ Blocked.action # "RECONCILE_ENV"
      /\ Reconciling("FAIL_FAILABLE_EXTRAS", "").action # "RECONCILE_ENV"
    <2>1. /\ Blocked.action = "BLOCK_UNSAFE"
          /\ Reconciling("FAIL_FAILABLE_EXTRAS", "").action = "FAIL_FAILABLE_EXTRAS"
        BY DecisionFields DEF Blocked, Reconciling
    <2> QED
        BY <2>1
<1>3. open = {} \/ \E t \in open : open = {t}
    BY <1>1, <1>2 DEF DecideRecovery
<1>4. open \subseteq Ids
    BY DEF NonterminalTxns, TypeOK
<1>5. ASSUME NEW t \in open, open = {t} PROVE Primary = t
    BY <1>4, <1>5, PrimaryIsOpen
<1> QED
    BY <1>3, <1>5

\* Reconciliation for recovery stays with the one transaction in flight.
LEMMA StepKeepsLone ==
    ASSUME AnyInv, [Next]_vars
    PROVE  LoneOK'
<1> USE DEF AnyInv
<1> SUFFICES ASSUME job'.by = "recover", job'.pc \in EnvPcs \cup {"gc"}
             PROVE  NonterminalTxns(txn') \subseteq (IF job'.pc = "gc" THEN {} ELSE {job'.t})
    BY DEF LoneOK, NonterminalTxns
<1>1. job' # Idle
    BY LockFields
<1>2. job.pc # "observe" => ~NextStep
    BY NextStepType DEF TypeOK, StepOK, EnvPcs
<1>3. ~ReturnError
    BY <1>1 DEF ReturnError, Release
<1>4. job.pc # "observe" => ~EndTail
    BY <1>1, <1>2 DEF EndTail, Release
<1>5. ASSUME job'.by = job.by, job.pc \in EnvPcs \cup {"gc"}, job'.t = job.t, txn' = txn,
             job'.pc = "gc" => job.pc = "gc"
      PROVE  NonterminalTxns(txn') \subseteq (IF job'.pc = "gc" THEN {} ELSE {job'.t})
    BY <1>5 DEF LoneOK
<1>6. CASE ReconcileHome
    <2>1. PICK p : job' = [job EXCEPT !.pc = "path", !.plan = p]
        BY <1>3, <1>4, <1>6 DEF ReconcileHome
    <2> QED
        BY <1>5, <1>6, <2>1, PlanFields DEF ReconcileHome, EnvPcs
<1>7. CASE ReconcilePath
    BY <1>5, <1>7, GotoFields DEF ReconcilePath, EnvPcs
<1>8. CASE ReconcileReadback
    <2>1. CASE job' = [job EXCEPT !.pc = "home", !.tail = TRUE] /\ txn' = txn
        BY <1>5, <1>8, <2>1, TailFields DEF ReconcileReadback, EnvPcs
    <2>2. CASE SaveState(job.t, "COMMITTED") /\ Goto("gc")
        <3>1. job.by = "recover" /\ job.pc = "readback" /\ job'.pc = "gc"
            BY <1>8, <2>2, GotoFields DEF ReconcileReadback
        <3>2. NonterminalTxns(txn) \subseteq {job.t}
            BY <3>1 DEF LoneOK, EnvPcs
        <3>3. \A u \in Ids : txn'[u].state \notin NonterminalStates
            BY <2>2, <3>2
            DEF SaveState, NonterminalTxns, NonterminalStates, TypeOK, TxnRecords
        <3>4. DOMAIN txn' = Ids
            BY <2>2 DEF SaveState, TypeOK
        <3> QED
            BY <3>1, <3>3, <3>4 DEF NonterminalTxns
    <2> QED
        BY <1>3, <1>4, <1>8, <2>1, <2>2 DEF ReconcileReadback
<1>9. CASE CollectEnd
    BY <1>1, <1>5, <1>9, TailFields DEF CollectEnd
<1>10. ASSUME NEW p \in Places, NEW t \in Ids, CollectTree(p, t)
       PROVE  NonterminalTxns(txn') \subseteq (IF job'.pc = "gc" THEN {} ELSE {job'.t})
    BY <1>5, <1>10 DEF CollectTree
<1>11. CASE IOFault
    <2>1. txn' = txn
        BY <1>11 DEF IOFault
    <2>2. CASE job.pc = "gc" /\ job' = [job EXCEPT !.pc = "home", !.tail = TRUE]
        BY <1>5, <2>1, <2>2, TailFields
    <2>3. \A pc : Goto(pc) => job'.pc = pc
        BY GotoFields
    <2>4. ~Goto("fail")
        BY <2>3 DEF EnvPcs
    <2> QED
        BY <1>1, <1>3, <1>4, <1>11, <2>2, <2>4 DEF IOFault, EnvPcs
<1>12. CASE RecoverStep
    <2> DEFINE d == DecideRecovery(Observation)
    <2>1. job.pc = "observe" /\ ~RecoverBlock
        BY <1>1, <1>12 DEF RecoverStep, RecoverBlock, Release
    <2>2. ASSUME RecoverTree(d, Primary) PROVE FALSE
        BY <2>2 DEF RecoverTree, TypeOK, Jobs, EnvPcs
    <2>3. ASSUME Settled(d), RecoverSettle(d)
          PROVE  NonterminalTxns(txn') \subseteq (IF job'.pc = "gc" THEN {} ELSE {job'.t})
        <3>1. txn' = txn /\ Resolved
            BY <2>3, SettledIsResolved DEF RecoverSettle
        <3> QED
            BY <3>1 DEF Resolved, NonterminalTxns, TypeOK
    <2>4. ASSUME RecoverRecord(d, Primary)
          PROVE  NonterminalTxns(txn') \subseteq (IF job'.pc = "gc" THEN {} ELSE {job'.t})
        <3>1. d.action = "RECONCILE_ENV"
            BY <2>1, <2>4 DEF RecoverRecord, TypeOK, Jobs, EnvPcs
        <3>2. job'.t = Primary /\ job'.pc = "home"
            BY <2>4, <3>1 DEF RecoverRecord, TypeOK, Jobs
        <3>3. NonterminalTxns(txn) \subseteq {Primary}
            BY <3>1, ReconciledIsLone
        <3>4. txn' = txn \/ txn' = [txn EXCEPT ![Primary].state = d.next]
            BY <2>4, <3>1 DEF RecoverRecord, SavedRecords
        <3>5. NonterminalTxns(txn') \subseteq {Primary}
            BY <3>3, <3>4 DEF NonterminalTxns, TypeOK
        <3> QED
            BY <3>2, <3>5
    <2> QED
        BY <1>12, <2>1, <2>2, <2>3, <2>4 DEF RecoverStep
<1>13. CASE Aside /\ job' = job
    <2>1. \A t \in Ids : pend[t] = "none"
        BY <1>13 DEF WhoOK
    <2>2. txn' = txn
        BY <1>13, <2>1
        DEF Aside, RejectInvalidPointer, AdmitStart, RefuseStart, Drift, Damage, vars, CancelContext,
            StartSpawn, MarkTransactionFailed, SetInstallIdentity, WorkerLock, WorkerQuit
    <2> QED
        BY <1>5, <1>13, <2>2
<1>14. CASE Aside /\ job' # job
    <2>1. \E t \in Ids : WorkerLock(t)
        BY <1>14
        DEF Aside, RejectInvalidPointer, AdmitStart, RefuseStart, Drift, Damage, vars, CancelContext,
            StartSpawn, MarkTransactionFailed, SetInstallIdentity, WorkerQuit
    <2> QED
        BY <1>14, <2>1, LockFields DEF WorkerLock
<1>15. CASE StartLock \/ StartCreate \/ Crash
    BY <1>15, LockFields DEF StartLock, StartCreate, Release, Crash, EnvPcs
<1>16. CASE SealLoad \/ CreateGeneration \/ CandidateTemp \/ CandidateRecord \/ Build \/ Seal
            \/ PersistSealed \/ Publish \/ MarkActivating \/ Fail
    <2>1. job.by = "worker"
        BY <1>16
        DEF SealLoad, CreateGeneration, CandidateTemp, CandidateRecord, Build, Seal, PersistSealed,
            Publish, MarkActivating, Fail, WhoOK, WorkerPcs
    <2>2. CASE SealLoad
        BY <1>1, <2>1, <2>2 DEF SealLoad, Release, TypeOK, Jobs
    <2> QED
        BY <1>1, <1>16, <2>1, <2>2, GotoFields
        DEF CreateGeneration, CandidateTemp, CandidateRecord, Build, Seal, PersistSealed, Publish,
            MarkActivating, Fail, Release
<1>17. CASE WriteActive \/ RecoverPersist
    BY <1>2, <1>3, <1>17, GotoFields DEF WriteActive, RecoverPersist
<1> QED
    BY <1>6, <1>7, <1>8, <1>9, <1>10, <1>11, <1>12, <1>13, <1>14, <1>15, <1>16, <1>17
    DEF Next, Request, Daemon, Trouble, Handler, Worker, Reconcile, Collect, Recovery, Aside

\* Only recovery puts a tree into failed/.
LEMMA FailedTrees ==
    ASSUME AnyInv, [Next]_vars, ~RecoverStep, NEW u \in Ids, disk["failed"][u] = "absent"
    PROVE  disk'["failed"][u] = "absent"
<1> USE DEF AnyInv
<1>1. ASSUME NEW t, NEW tree, SetTree("generations", t, tree) PROVE disk'["failed"][u] = "absent"
    BY <1>1 DEF SetTree, TypeOK
<1>2. ASSUME NEW pt \in Garbage, NEW tree, SetTree(pt[1], pt[2], tree)
      PROVE  disk'["failed"][u] = "absent"
    <2>1. disk[pt[1]][pt[2]] # "absent"
        BY DEF Garbage, ProvenTrees, LineageProven, MetadataVerifies
    <2>2. pt[1] \in Places /\ pt[2] \in Ids
        BY DEF Garbage, ProvenTrees
    <2> QED
        BY <1>2, <2>1, <2>2 DEF SetTree, TypeOK
<1>3. CASE CreateGeneration \/ CandidateTemp \/ CandidateRecord \/ Seal \/ Damage
    BY <1>1, <1>3 DEF CreateGeneration, CandidateTemp, CandidateRecord, Seal, Damage
<1>4. CASE IOFault \/ Crash
    BY <1>1, <1>2, <1>4 DEF IOFault, Crash, InterruptCollect
<1>5. ASSUME NEW p \in Places, NEW t \in Ids, CollectTree(p, t)
      PROVE  disk'["failed"][u] = "absent"
    <2>1. SetTree(<<p, t>>[1], <<p, t>>[2], "absent") /\ <<p, t>> \in Garbage
        BY <1>5 DEF CollectTree
    <2> QED
        BY <1>2, <2>1
<1>6. CASE disk' = disk
    BY <1>6
<1>7. CASE Request \/ Handler \/ Drift \/ UNCHANGED vars
    BY <1>6, <1>7
    DEF Request, Handler, RejectInvalidPointer, AdmitStart, RefuseStart, StartLock, CancelContext,
        StartCreate, StartSpawn, MarkTransactionFailed, Drift, vars
<1>8. CASE \/ SealLoad \/ Build \/ PersistSealed \/ Publish \/ MarkActivating \/ WriteActive \/ Fail
           \/ Reconcile \/ CollectEnd \/ RecoverPersist
           \/ \E t \in Ids : SetInstallIdentity(t) \/ WorkerLock(t) \/ WorkerQuit(t)
    BY <1>6, <1>8
    DEF SealLoad, Build, PersistSealed, Publish, MarkActivating, WriteActive, Fail, Reconcile,
        ReconcileHome, ReconcilePath, ReconcileReadback, CollectEnd, RecoverPersist,
        SetInstallIdentity, WorkerLock, WorkerQuit
<1> QED
    BY <1>3, <1>4, <1>5, <1>7, <1>8 DEF Next, Daemon, Trouble, Worker, Collect, Recovery

\* Workers and requests start only where no such transaction is left over.
LEMMA StepKeepsMoved ==
    ASSUME AnyInv, [Next]_vars
    PROVE  MovedOK'
<1> USE DEF AnyInv
<1>1. ASSUME job'.by # "worker", \A t \in Ids : pend'[t] = "none" PROVE MovedOK'
    BY <1>1 DEF MovedOK
<1>2. CASE job'.by = "recover"
    BY <1>1, <1>2, StepKeepsWho DEF WhoOK
<1>3. ASSUME ~RecoverStep,
             \A u \in Ids : txn'[u].state \in NonterminalStates
                 => \/ txn[u].state \in NonterminalStates
                    \/ job.by = "worker" /\ u = job.t
                    \/ ~HasNonterminal /\ disk["failed"][u] = "absent",
             \A t \in Ids : pend'[t] # "none" => pend[t] # "none" \/ ~HasNonterminal,
             job'.by = "worker" =>
                 \/ job.by = "worker" /\ job'.t \in {0, job.t}
                 \/ job.by = "worker" /\ job'.t \in Ids /\ txn[job'.t].state \in NonterminalStates
                 \/ job'.t = 0 /\ \E t \in Ids : pend[t] # "none"
      PROVE  MovedOK'
    <2>1. \A u \in Ids : disk["failed"][u] = "absent" => disk'["failed"][u] = "absent"
        BY <1>3, FailedTrees
    <2>2. job.t # 0 => job.t \in Ids
        BY BoundsAssumption DEF TypeOK, Jobs
    <2>3. ASSUME NEW u \in Ids, disk'["failed"][u] # "absent", txn'[u].state \in NonterminalStates
          PROVE  txn[u].state \in NonterminalStates /\ disk["failed"][u] # "absent"
        BY <1>3, <2>1, <2>3, BoundsAssumption DEF MovedOK
    <2>4. ASSUME NEW u \in Ids, disk'["failed"][u] # "absent", txn'[u].state \in NonterminalStates
          PROVE  job'.by # "worker" /\ \A t \in Ids : pend'[t] = "none"
        <3>1. HasNonterminal /\ job.by # "worker" /\ \A t \in Ids : pend[t] = "none"
            BY <2>3, <2>4 DEF HasNonterminal, MovedOK
        <3> QED
            BY <1>3, <3>1
    <2>5. ASSUME job'.by = "worker", job'.t # 0 PROVE disk'["failed"][job'.t] = "absent"
        BY <1>3, <2>1, <2>2, <2>5 DEF MovedOK
    <2> QED
        BY <2>4, <2>5 DEF MovedOK
<1>4. ASSUME pend' = pend, txn' = txn \/ txn' = FailFailable, ~RecoverStep,
             job' = job \/ job'.by = "start"
      PROVE  MovedOK'
    <2>1. \A u \in Ids : txn'[u].state \in NonterminalStates => txn[u].state \in NonterminalStates
        <3>1. FailFailable \in [Ids -> TxnRecords] /\ \A u \in Ids :
                 FailFailable[u].state = txn[u].state \/ FailFailable[u].state = "FAILED"
            BY FailFailableType DEF FailFailable, TypeOK, TxnRecords
        <3> QED
            BY <1>4, <3>1 DEF NonterminalStates
    <2> QED
        BY <1>3, <1>4, <2>1
<1>5. CASE HolderStep
    <2>1. pend' = pend
        BY <1>5
        DEF HolderStep, SealLoad, CreateGeneration, CandidateTemp, CandidateRecord, Build, Seal,
            PersistSealed, Publish, MarkActivating, WriteActive, Fail, Reconcile, ReconcileHome,
            ReconcilePath, ReconcileReadback, Collect, CollectEnd, CollectTree, IOFault, Recovery,
            RecoverStep, RecoverPersist
    <2>2. ObserverOK
        BY DEF ObserverOK, WhoOK
    <2>3. CASE job.by = "recover"
        <3>1. job'.by # "worker"
            BY <1>5, <2>2, <2>3, WorkerStays
        <3> QED
            BY <1>1, <2>1, <2>3, <3>1 DEF WhoOK
    <2>4. CASE job.by # "recover"
        <3>1. ~RecoverStep /\ ~RecoverPersist
            BY <2>4 DEF RecoverStep, RecoverPersist, WhoOK
        <3>2. ASSUME NEW u \in Ids, txn'[u].state \in NonterminalStates
              PROVE  txn[u].state \in NonterminalStates \/ (job.by = "worker" /\ u = job.t)
            <4>1. CASE txn' = txn
                BY <3>2, <4>1
            <4>2. CASE SealLoad
                BY <3>2, <4>2 DEF SealLoad, SaveState, NonterminalStates, TypeOK, TxnRecords
            <4>3. CASE PersistSealed \/ Publish \/ MarkActivating \/ Fail
                BY <3>2, <4>3
                DEF PersistSealed, Publish, MarkActivating, Fail, SaveState, WhoOK, WorkerPcs,
                    TypeOK, TxnRecords
            <4>4. CASE ReconcileReadback
                BY <3>2, <4>4 DEF ReconcileReadback, SaveState, NonterminalStates, TypeOK, TxnRecords
            <4>5. CASE CreateGeneration \/ CandidateTemp \/ CandidateRecord \/ Build \/ Seal \/ WriteActive
                       \/ ReconcileHome \/ ReconcilePath \/ Collect \/ IOFault
                <5>1. txn' = txn
                    BY <4>5
                    DEF CreateGeneration, CandidateTemp, CandidateRecord, Build, Seal, WriteActive,
                        ReconcileHome, ReconcilePath, Collect, CollectEnd, CollectTree, IOFault
                <5> QED
                    BY <4>1, <5>1
            <4> QED
                BY <1>5, <3>1, <4>2, <4>3, <4>4, <4>5 DEF HolderStep, Reconcile, Recovery
        <3>3. ASSUME job'.by = "worker"
              PROVE  /\ job.by = "worker"
                     /\ \/ job'.t = job.t
                        \/ job'.t \in Ids /\ txn[job'.t].state \in NonterminalStates
            <4>1. job.by = "worker" /\ (SealLoad \/ job'.t = job.t)
                BY <1>5, <2>2, <3>3, WorkerStays
            <4>2. CASE SealLoad
                <5>1. identity \in Ids
                    BY <4>1, BoundsAssumption DEF IdentityOK, TypeOK
                <5>2. txn[identity].state = "CREATED" /\ job' = [job EXCEPT !.pc = "mkdir", !.t = identity]
                    BY <3>3, <4>2, LockFields DEF SealLoad, Release
                <5>3. job'.t = identity
                    BY <5>2 DEF TypeOK, Jobs
                <5> QED
                    BY <4>1, <5>1, <5>2, <5>3 DEF NonterminalStates
            <4> QED
                BY <4>1, <4>2
        <3> QED
            BY <1>3, <2>1, <3>1, <3>2, <3>3
    <2> QED
        BY <2>3, <2>4
<1>6. ASSUME RejectInvalidPointer \/ AdmitStart \/ RefuseStart \/ StartLock \/ Drift \/ Damage
             \/ UNCHANGED vars \/ \E t \in Ids : CancelContext(t)
      PROVE  MovedOK'
    <2>1. pend' = pend /\ (txn' = txn \/ txn' = FailFailable) /\ (job' = job \/ job'.by = "start")
        BY <1>6, LockFields
        DEF RejectInvalidPointer, AdmitStart, RefuseStart, StartLock, Drift, Damage, vars, CancelContext
    <2>2. CASE RecoverStep
        BY <1>1, <2>1, <2>2 DEF RecoverStep, WhoOK
    <2> QED
        BY <1>4, <2>1, <2>2
<1>7. ASSUME NEW t \in Ids, \/ StartSpawn(t) \/ MarkTransactionFailed(t) \/ SetInstallIdentity(t)
                            \/ WorkerLock(t) \/ WorkerQuit(t)
      PROVE  MovedOK'
    <2>1. pend[t] # "none" /\ \A u \in Ids : pend'[u] # "none" => pend[u] # "none"
        BY <1>7
        DEF StartSpawn, MarkTransactionFailed, SetInstallIdentity, WorkerLock, WorkerQuit, TypeOK
    <2>2. ~RecoverStep
        BY <2>1 DEF RecoverStep, WhoOK
    <2>3. \A u \in Ids : txn'[u].state \in NonterminalStates => txn[u].state \in NonterminalStates
        <3>1. CASE MarkTransactionFailed(t)
            <4>1. CASE SaveState(t, "FAILED")
                BY <1>7, <4>1, SaveStateEffect DEF NonterminalStates
            <4> QED
                BY <3>1, <4>1 DEF MarkTransactionFailed
        <3> QED
            BY <1>7, <3>1 DEF StartSpawn, SetInstallIdentity, WorkerLock, WorkerQuit
    <2>4. job' = job \/ job'.t = 0
        <3>1. [Idle EXCEPT !.by = "worker", !.pc = "load", !.w = t].t = 0
            BY DEF Idle
        <3> QED
            BY <1>7, <3>1
            DEF StartSpawn, MarkTransactionFailed, SetInstallIdentity, WorkerLock, WorkerQuit
    <2> QED
        BY <1>3, <2>1, <2>2, <2>3, <2>4
<1>8. CASE StartCreate
    <2>1. job'.by = "none" /\ job.pc = "create"
        BY <1>8, LockFields DEF StartCreate, Release
    <2>2. ~RecoverStep
        BY <2>1 DEF RecoverStep
    <2>3. CASE txn' = txn /\ pend' = pend
        BY <1>3, <2>1, <2>2, <2>3
    <2>4. CASE ~(txn' = txn /\ pend' = pend)
        <3>1. ~HasNonterminal
            BY <1>8, <2>4 DEF StartCreate
        <3>2. PICK t \in Ids : FreshId(t) /\ txn' = [txn EXCEPT ![t] = [NoTxn EXCEPT !.state = "CREATED"]]
            BY <1>8, <2>4 DEF StartCreate
        <3>3. disk["failed"][t] = "absent" /\ \A u \in Ids \ {t} : txn'[u] = txn[u]
            BY <3>2 DEF FreshId, TypeOK
        <3> QED
            BY <1>3, <2>1, <2>2, <3>1, <3>3
    <2> QED
        BY <2>3, <2>4
<1>9. CASE Crash
    BY <1>2, <1>9, LockFields DEF Crash
<1> QED
    BY <1>5, <1>6, <1>7, <1>8, <1>9
    DEF Next, Request, Daemon, Trouble, Handler, Worker, HolderStep

\* AnyInv is inductive, and holds of every disk recovery may find.
LEMMA StepKeepsAny == AnyInv /\ [Next]_vars => AnyInv'
<1> SUFFICES ASSUME AnyInv, [Next]_vars PROVE AnyInv'
    OBVIOUS
<1>1. TypeOK' /\ StepOK'
    BY NextType DEF AnyInv
<1>2. IdentityOK'
    BY StepKeepsIdentity DEF AnyInv, WhoOK, ObserverOK
<1>3. left'.drift <= left.drift
    <2>1. left.drift \in Nat
        BY DEF AnyInv, TypeOK
    <2>2. CASE Drift
        <3>1. left.drift > 0 /\ left'.drift = left.drift - 1
            BY <2>2 DEF Drift, AnyInv, TypeOK
        <3> QED
            BY <2>1, <3>1
    <2>3. CASE IOFault \/ Crash
        <3>1. left'.drift = left.drift
            BY <2>3 DEF IOFault, Crash, AnyInv, TypeOK
        <3> QED
            BY <2>1, <3>1
    <2>4. left' = left \/ Drift \/ IOFault \/ Crash
        <3>1. CASE Request \/ Handler \/ Damage \/ UNCHANGED vars
            BY <3>1
            DEF Request, Handler, RejectInvalidPointer, AdmitStart, RefuseStart, StartLock, CancelContext,
                StartCreate, StartSpawn, MarkTransactionFailed, Damage, outside, vars
        <3>2. CASE Worker
            BY <3>2
            DEF Worker, SetInstallIdentity, WorkerLock, WorkerQuit, SealLoad, CreateGeneration,
                CandidateTemp, CandidateRecord, Build, Seal, PersistSealed, Publish, MarkActivating,
                WriteActive, Fail, outside
        <3>3. CASE Reconcile \/ Collect \/ Recovery
            BY <3>3
            DEF Reconcile, Collect, Recovery, ReconcileHome, ReconcilePath, ReconcileReadback,
                CollectEnd, CollectTree, RecoverStep, RecoverPersist, outside
        <3> QED
            BY <3>1, <3>2, <3>3 DEF Next, Daemon, Trouble
    <2> QED
        BY <2>1, <2>2, <2>3, <2>4
<1>4. left'.drift <= MaxDrifts
    BY <1>1, <1>3, BoundsAssumption DEF AnyInv, TypeOK
<1> QED
    BY <1>1, <1>2, <1>4, StepKeepsWho, StepKeepsBuilds, StepKeepsSpares, StepKeepsResolved,
       StepKeepsLone, StepKeepsMoved
    DEF AnyInv

\* AnyInv holds before the first step, whatever the disk.
LEMMA InitAny == Init => AnyInv
<1> SUFFICES ASSUME Init PROVE AnyInv
    OBVIOUS
<1>1. TypeOK /\ StepOK
    BY InitType
<1>2. /\ job.by = "recover" /\ job.pc = "observe" /\ identity = 0
      /\ \A t \in Ids : pend[t] = "none"
    BY LockFields DEF Init
<1>3. left.drift <= MaxDrifts
    BY BoundsAssumption DEF Init
<1> QED
    BY <1>1, <1>2, <1>3
    DEF AnyInv, WhoOK, IdentityOK, BuildsOK, SparesOK, ResolvedOK, LoneOK, MovedOK, WorkerPcs, EnvPcs

\* When a recovery ends with the gate open it had settled, and the end itself
\* writes nothing.
LEMMA OpenEnd ==
    ASSUME AnyInv, [Next]_vars, job.by = "recover", job'.by = "none", gate' = "READY"
    PROVE  /\ job.pc = "gc" /\ Settled(job.prev)
           /\ UNCHANGED <<txn, active, home, path>>
<1> USE DEF AnyInv
<1>1. ~ReturnError /\ ~RecoverBlock
    BY DEF ReturnError, RecoverBlock
<1>2. job'.by # job.by /\ job' # job
    OBVIOUS
<1>3. job.pc # "observe" => ~NextStep
    BY NextStepType DEF TypeOK, StepOK
<1>4. \A pc : ~Goto(pc)
    BY <1>2, GotoFields
<1>5. job' # [job EXCEPT !.pc = "home", !.tail = TRUE]
    BY <1>2, TailFields
<1>6. \A p : job' # [job EXCEPT !.pc = "path", !.plan = p]
    BY <1>2, PlanFields
<1>7. CASE CollectEnd
    BY <1>5, <1>7 DEF CollectEnd, environment
<1>8. CASE IOFault
    BY <1>1, <1>3, <1>4, <1>5, <1>8 DEF IOFault, EndTail, EnvPcs, environment
<1>9. CASE Aside
    <2>1. ASSUME NEW t \in Ids, WorkerLock(t) PROVE job' = job
        BY <2>1 DEF WorkerLock
    <2>2. ASSUME NEW t \in Ids, StartSpawn(t) \/ MarkTransactionFailed(t) \/ SetInstallIdentity(t)
                                \/ WorkerQuit(t) \/ CancelContext(t)
          PROVE  job' = job
        BY <2>2 DEF StartSpawn, MarkTransactionFailed, SetInstallIdentity, WorkerQuit, CancelContext
    <2>3. ASSUME RejectInvalidPointer \/ AdmitStart \/ RefuseStart \/ Drift \/ Damage \/ UNCHANGED vars
          PROVE  job' = job
        BY <2>3 DEF RejectInvalidPointer, AdmitStart, RefuseStart, Drift, Damage, vars
    <2> QED
        BY <1>2, <1>9, <2>1, <2>2, <2>3 DEF Aside
<1>10. CASE StartLock \/ StartCreate \/ Crash
    BY <1>10, LockFields DEF StartLock, StartCreate, Crash, WhoOK
<1>11. CASE SealLoad \/ CreateGeneration \/ CandidateTemp \/ CandidateRecord \/ Build \/ Seal
            \/ PersistSealed \/ Publish \/ MarkActivating \/ Fail
    BY <1>11
    DEF SealLoad, CreateGeneration, CandidateTemp, CandidateRecord, Build, Seal, PersistSealed,
        Publish, MarkActivating, Fail, WhoOK, WorkerPcs
<1>12. CASE WriteActive \/ ReconcileHome \/ ReconcilePath \/ ReconcileReadback \/ RecoverPersist
    BY <1>1, <1>3, <1>4, <1>5, <1>6, <1>12
    DEF WriteActive, ReconcileHome, ReconcilePath, ReconcileReadback, RecoverPersist, EndTail
<1>13. CASE RecoverStep
    <2>1. ASSUME NEW d, RecoverSettle(d) \/ RecoverTree(d, Primary) \/ RecoverRecord(d, Primary)
          PROVE  job'.by = job.by
        BY <2>1 DEF RecoverSettle, RecoverTree, RecoverRecord, TypeOK, Jobs
    <2> QED
        BY <1>1, <1>2, <1>13, <2>1 DEF RecoverStep
<1>14. ASSUME NEW p \in Places, NEW t \in Ids, CollectTree(p, t) PROVE job' = job
    BY <1>14 DEF CollectTree
<1> QED
    BY <1>2, <1>7, <1>8, <1>9, <1>10, <1>11, <1>12, <1>13, <1>14
    DEF Next, Request, Daemon, Trouble, Handler, Worker, Reconcile, Collect, Recovery, Aside

\* Whatever disk a restart finds, and whatever fails or is edited meanwhile, when
\* recovery opens the gate nothing is in flight, what active.json names is
\* committed or unknown, and its environment is complete unless it was edited.
THEOREM ReadyIsResolved == Spec => ReadyMeansResolved
<1>1. ASSUME AnyInv, [Next]_vars, job.by = "recover", job'.by = "none", gate' = "READY"
      PROVE  /\ \A t \in Ids : txn'[t].state \notin NonterminalStates
             /\ active' # 0 => txn'[active].state \in {"COMMITTED", "NONE"}
             /\ active' # 0 /\ txn'[active].state = "COMMITTED" /\ left.drift = MaxDrifts
                  => EnvironmentComplete'
    <2>1. Resolved /\ UNCHANGED <<txn, active, home, path>>
        BY <1>1, OpenEnd DEF AnyInv, ResolvedOK
    <2> QED
        BY <2>1 DEF Resolved, EnvironmentComplete
<1> QED
    BY <1>1, InitAny, StepKeepsAny, PTL DEF Spec, ReadyMeansResolved

\* A tree disappears only empty, under the worker that began it, or proven to
\* be of its own transaction.
LEMMA StepDeletesProven ==
    ASSUME AnyInv, [Next]_vars, NEW p \in Places, NEW t \in Ids,
           disk[p][t] # "absent", disk'[p][t] = "absent",
           disk'["failed"][t] = disk["failed"][t]
    PROVE  \/ disk[p][t] = "empty"
           \/ job.by = "worker" /\ job.t = t /\ txn[t].state = "BUILDING"
           \/ /\ disk[p][t] \in {"candidate", "sealed", "remnant"}
              /\ <<p, t>> # <<"generations", active>>
              /\ txn[t].state \in TerminalStates \/ p = "staging"
<1> USE DEF AnyInv
<1>1. disk' # disk
    OBVIOUS
<1>2. ASSUME NEW q \in Places, NEW u \in Ids, NEW tree, SetTree(q, u, tree)
      PROVE  tree = "absent" /\ q = p /\ u = t
    BY <1>2 DEF SetTree, TypeOK
<1>3. "generations" \in Places /\ "staging" \in Places
    OBVIOUS
<1>4. ~InterruptCollect
    <2> SUFFICES ASSUME InterruptCollect PROVE FALSE
        OBVIOUS
    <2>1. PICK pt \in Garbage : \E tree \in HalfDeleted(disk[pt[1]][pt[2]]) : SetTree(pt[1], pt[2], tree)
        BY DEF InterruptCollect
    <2>2. pt[1] \in Places /\ pt[2] \in Ids
        BY DEF Garbage, ProvenTrees
    <2>3. \A tree : "absent" \notin HalfDeleted(tree)
        BY DEF HalfDeleted
    <2> QED
        BY <1>2, <2>1, <2>2, <2>3
<1>5. CASE RecoverStep
    <2> DEFINE d == DecideRecovery(Observation)
    <2>1. RecoverTree(d, Primary)
          /\ ~(d.action = "MOVE_STAGING_TO_FAILED" /\ disk["failed"][Primary] # "absent")
        BY <1>1, <1>5 DEF RecoverStep, RecoverSettle, RecoverBlock, RecoverRecord
    <2>2. TreeSound(Observation, d)
        BY DeletionsDecided
    <2> HIDE DEF d
    <2>3. CASE d.action = "REMOVE_EMPTY_GENERATION" /\ SetTree("generations", Primary, "absent")
        <3>1. Primary \in Ids /\ Generation(Primary) = "empty"
            BY <2>2, <2>3, ObservedTrees DEF TreeSound
        <3> QED
            BY <1>2, <1>3, <2>3, <3>1 DEF Generation
    <2>4. CASE d.action = "REMOVE_EMPTY_STAGING" /\ SetTree("staging", Primary, "absent")
        <3>1. Primary \in Ids /\ disk["staging"][Primary] = "empty"
            BY <2>2, <2>4, ObservedTrees DEF TreeSound
        <3> QED
            BY <1>2, <1>3, <2>4, <3>1
    <2>5. CASE d.action = "GC_STAGING" /\ SetTree("staging", Primary, "absent")
        <3>1. Primary \in Ids /\ disk["staging"][Primary] \in {"candidate", "sealed", "remnant"}
            BY <2>2, <2>5, ObservedTrees DEF TreeSound
        <3>2. p = "staging" /\ t = Primary
            BY <1>2, <1>3, <2>5, <3>1
        <3> QED
            BY <3>1, <3>2
    <2>6. CASE /\ d.action = "MOVE_STAGING_TO_FAILED"
               /\ disk' = [disk EXCEPT !["failed"][Primary] = disk["staging"][Primary],
                                       !["staging"][Primary] = "absent"]
        BY <2>1, <2>6 DEF TypeOK
    <2> QED
        BY <2>1, <2>3, <2>4, <2>5, <2>6 DEF RecoverTree
<1>6. CASE IOFault
    <2>1. job.pc \in {"candidate", "record"} /\ SetTree("generations", job.t, "absent")
        BY <1>1, <1>4, <1>6 DEF IOFault
    <2>2. job.by = "worker" /\ job.t \in Ids /\ txn[job.t].state = "BUILDING"
        BY <2>1 DEF WhoOK, WorkerPcs, BuildsOK
    <2> QED
        BY <1>2, <1>3, <2>1, <2>2
<1>7. ASSUME NEW q \in Places, NEW u \in Ids, CollectTree(q, u)
      PROVE  /\ disk[p][t] \in {"candidate", "sealed", "remnant"}
             /\ <<p, t>> # <<"generations", active>>
             /\ txn[t].state \in TerminalStates \/ p = "staging"
    <2>1. q = p /\ u = t /\ <<p, t>> \in Garbage /\ job.pc = "gc"
        BY <1>2, <1>7 DEF CollectTree
    <2>2. job.by \in {"worker", "recover"}
        BY <2>1 DEF WhoOK
    <2> QED
        BY <2>1, <2>2, GarbageProven
<1>8. ASSUME CreateGeneration \/ CandidateTemp \/ CandidateRecord \/ Seal PROVE FALSE
    <2>1. job.by = "worker" /\ \E tree : tree # "absent" /\ SetTree("generations", job.t, tree)
        BY <1>1, <1>8 DEF CreateGeneration, CandidateTemp, CandidateRecord, Seal, WhoOK, WorkerPcs
    <2>2. job.t \in Ids
        BY <1>1, <2>1, BoundsAssumption DEF SetTree, TypeOK, Jobs
    <2> QED
        BY <1>2, <1>3, <2>1, <2>2
<1>9. ASSUME Damage PROVE FALSE
    <2>1. active \in Ids /\ \E tree \in {"remnant", "unproven"} : SetTree("generations", active, tree)
        BY <1>9, BoundsAssumption DEF Damage, TypeOK
    <2> QED
        BY <1>2, <1>3, <2>1
<1>10. ~Crash
    BY <1>1, <1>4 DEF Crash
<1>11. ASSUME Request \/ Handler \/ Drift \/ UNCHANGED vars PROVE FALSE
    BY <1>1, <1>11
    DEF Request, Handler, RejectInvalidPointer, AdmitStart, RefuseStart, StartLock, CancelContext,
        StartCreate, StartSpawn, MarkTransactionFailed, Drift, vars
<1>12. ASSUME \/ SealLoad \/ Build \/ PersistSealed \/ Publish \/ MarkActivating \/ WriteActive \/ Fail
              \/ Reconcile \/ CollectEnd \/ RecoverPersist
              \/ \E u \in Ids : SetInstallIdentity(u) \/ WorkerLock(u) \/ WorkerQuit(u)
       PROVE FALSE
    BY <1>1, <1>12
    DEF SealLoad, Build, PersistSealed, Publish, MarkActivating, WriteActive, Fail, Reconcile,
        ReconcileHome, ReconcilePath, ReconcileReadback, CollectEnd, RecoverPersist,
        SetInstallIdentity, WorkerLock, WorkerQuit
<1> QED
    BY <1>5, <1>6, <1>7, <1>8, <1>9, <1>10, <1>11, <1>12
    DEF Next, Daemon, Trouble, Worker, Collect, Recovery

\* Whatever disk a restart finds, a tree disappears only empty, under the worker
\* that began it, or proven to be of its own transaction; the active generation
\* never does.
THEOREM DeletesAreProven == Spec => DeletesOnlyProven
<1>1. AnyInv /\ [Next]_vars
        => \A p \in Places, t \in Ids :
              disk[p][t] # "absent" /\ disk'[p][t] = "absent" /\ disk'["failed"][t] = disk["failed"][t]
                => \/ disk[p][t] = "empty"
                   \/ job.by = "worker" /\ job.t = t /\ txn[t].state = "BUILDING"
                   \/ /\ disk[p][t] \in {"candidate", "sealed", "remnant"}
                      /\ <<p, t>> # <<"generations", active>>
                      /\ txn[t].state \in TerminalStates \/ p = "staging"
    BY StepDeletesProven
<1> QED
    BY <1>1, InitAny, StepKeepsAny, PTL DEF Spec, DeletesOnlyProven

-----------------------------------------------------------------------------
(* The turns recovery needs.                                               *)
(*                                                                         *)
(* RecoverWith gives up after MaxRecoverSteps turns.  How many it needs    *)
(* depends on the records, on what is left in staging/ and on the          *)
(* environment (NeedsAtMost): every turn it executes needs one less, and   *)
(* only an edit of the registry that falls into a recovery adds one.       *)

\* What is in flight in the records r.
InFlight(r, t) == r[t].state \in NonterminalStates
Lone(r, t) == InFlight(r, t) /\ \A u \in Ids : InFlight(r, u) => u = t
Still(r) == \A u \in Ids : ~InFlight(r, u)

\* A turn for a staging directory that can be removed, and one for an
\* environment that is not as active.json wants it.
Leftover(t) == IF disk["staging"][t] \in {"empty", "candidate", "sealed", "remnant"} THEN 1 ELSE 0
Astray == IF EnvironmentComplete THEN 0 ELSE 1

Leftovers == [t \in Ids |-> Leftover(t)]

\* At most k turns of the loop execute something, with the records r, the
\* leftovers l, the environment's turn e, and a in active.json.
NeedsAtMost(r, a, l, e, k) ==
    /\ 0 <= k
    /\ Still(r) /\ a # 0 /\ r[a].state = "COMMITTED" => l[a] + e <= k
    /\ Still(r) /\ a # 0 /\ r[a].state = "FAILED" => l[a] + 1 <= k
    /\ \A t \in Ids : Lone(r, t) =>
          /\ r[t].state \in FailableStates => 3 <= k
          /\ r[t].state = "SEALED" => 4 <= k
          /\ r[t].state = "PUBLISHED" => l[t] + 3 <= k
          /\ r[t].state = "ACTIVATING" => l[t] + (IF a = t THEN 1 ELSE 2) <= k
    /\ (\E t, u \in Ids : t # u /\ InFlight(r, u) /\ r[t].state \in FailableStates) => 5 <= k

\* What the current recovery has left of its turns: an edit of the registry
\* makes up for the one it costs.
Remaining == 5 + MaxDrifts - left.drift - job.step

\* The records once the change of a directory is recorded.
Persisted == IF job.prev.next = "" THEN txn ELSE [txn EXCEPT ![job.t].state = job.prev.next]

\* A recovery that reconciles works for the active generation; it needs one
\* turn, and what is needed afterwards.
ReconcilesOK ==
    LET late == job.pc = "gc" \/ job.tail IN
    /\ active = job.t /\ active # 0
    /\ txn[active].state = "COMMITTED" \/ (~late /\ txn[active].state = "ACTIVATING")
    /\ job.pc = "path" => job.plan = KeepPath \/ job.plan.first = active
    /\ (job.pc = "home" /\ ~job.tail => Generation(active) = "sealed")
          => Leftover(active) + (IF late THEN Astray ELSE 0) + 1 <= Remaining

TurnsOK ==
    job.by = "recover" =>
       /\ job.pc \in {"observe", "persist", "point"} => ~job.tail
       /\ job.pc = "observe" => NeedsAtMost(txn, active, Leftovers, Astray, Remaining)
       /\ job.pc = "persist" => NeedsAtMost(Persisted, active, Leftovers, Astray, Remaining - 1)
       /\ job.pc = "point" => /\ job.t \in Ids /\ Lone(txn, job.t) /\ txn[job.t].state = "ACTIVATING"
                              /\ active # job.t /\ Leftover(job.t) + 2 <= Remaining
       /\ job.pc \in EnvPcs \cup {"gc"} /\ ~Settled(job.prev) => ReconcilesOK

\* What recovery executes, and of which record.
Undertaken(d) ==
    LET s == txn[Primary].state IN
    \/ /\ d.action = "FAIL_FAILABLE_EXTRAS"
       /\ \E t, u \in Ids : t # u /\ InFlight(txn, u) /\ txn[t].state \in FailableStates
    \/ /\ Primary \in Ids /\ Lone(txn, Primary)
       /\ \/ /\ s \in FailableStates /\ d.next = "FAILED"
             /\ d.action \in {"NONE", "REMOVE_EMPTY_GENERATION", "REMOVE_EMPTY_STAGING",
                              "MOVE_STAGING_TO_FAILED"}
          \/ /\ s = "SEALED"
             /\ \/ d.action = "PERSIST_PUBLISHED" /\ d.next = "PUBLISHED" /\ Leftover(Primary) = 0
                \/ d.action = "REMOVE_EMPTY_STAGING" /\ d.next = "PUBLISHED"
                \/ d.action = "MOVE_STAGING_TO_FAILED" /\ d.next = "FAILED"
          \/ /\ s = "PUBLISHED"
             /\ \/ /\ d.action \in {"REMOVE_EMPTY_STAGING", "GC_STAGING"} /\ d.next = ""
                   /\ Leftover(Primary) = 1
                \/ d.action = "RECONCILE_ENV" /\ d.next = "ACTIVATING" /\ active = Primary
                \/ d.action = "PERSIST_ACTIVATING" /\ d.next = "ACTIVATING"
          \/ /\ s = "ACTIVATING"
             /\ \/ d.action = "COMMIT" /\ d.next = "COMMITTED" /\ active = Primary /\ EnvironmentComplete
                \/ d.action = "RECONCILE_ENV" /\ d.next = "" /\ active = Primary
                \/ d.action = "ACTIVATE" /\ d.next = "" /\ active # Primary
    \/ /\ Primary \in Ids /\ Still(txn) /\ active = Primary
       /\ \/ /\ s = "COMMITTED"
             /\ \/ /\ d.action \in {"REMOVE_EMPTY_STAGING", "GC_STAGING"} /\ d.next = ""
                   /\ Leftover(Primary) = 1
                \/ /\ d.action = "RECONCILE_ENV" /\ d.next = ""
                   /\ Generation(active) = "sealed" => ~EnvironmentComplete
          \/ /\ s = "FAILED"
             /\ \/ d.action = "COMMIT" /\ d.next = "COMMITTED" /\ EnvironmentComplete
                \/ d.action = "RECONCILE_ENV" /\ d.next = "ACTIVATING"

\* An observation is of the primary transaction's directories.
LEMMA ObservedStaging ==
    ASSUME TypeOK, Primary \in Ids
    PROVE  /\ Observation.txns = txn /\ Observation.pointer = ReadActive
           /\ Observation.active = active
           /\ Observation.staging.present <=> disk["staging"][Primary] # "absent"
           /\ Observation.staging.empty <=> disk["staging"][Primary] = "empty"
           /\ Observation.staging.match
                <=> disk["staging"][Primary] \in {"candidate", "sealed", "remnant"}
           /\ Observation.env <=> active # 0 /\ Generation(active) = "sealed" /\ EnvironmentComplete
<1>1. /\ Observation.txns = txn /\ Observation.pointer = ReadActive /\ Observation.active = active
      /\ Observation.env = (active # 0 /\ Generation(active) = "sealed" /\ EnvironmentComplete)
    BY DEF Observation
<1>2. Observation.staging = ObserveTree(disk["staging"][Primary], txn[Primary].seal)
    BY BoundsAssumption DEF Observation
<1>3. \A tree, seal : /\ ObserveTree(tree, seal).present <=> tree # "absent"
                      /\ ObserveTree(tree, seal).empty <=> tree = "empty"
                      /\ ObserveTree(tree, seal).match <=> tree \in {"candidate", "sealed", "remnant"}
    BY DEF ObserveTree
<1>4. /\ Observation.staging.present <=> disk["staging"][Primary] # "absent"
      /\ Observation.staging.empty <=> disk["staging"][Primary] = "empty"
      /\ Observation.staging.match <=> disk["staging"][Primary] \in {"candidate", "sealed", "remnant"}
    BY <1>2, <1>3
<1> QED
    BY <1>1, <1>4

\* A leftover in staging/ is one that takes a turn.
LEMMA LeftoverTakesTurn ==
    ASSUME TypeOK, Primary \in Ids, LeftoverStaging(Observation) # ""
    PROVE  /\ LeftoverStaging(Observation) \in {"REMOVE_EMPTY_STAGING", "GC_STAGING"}
           /\ Leftover(Primary) = 1
<1>1. LeftoverStaging(Observation) \in {"REMOVE_EMPTY_STAGING", "GC_STAGING"}
    BY Zenon, LeftoverStagingType
<1>2. Observation.staging.empty \/ Observation.staging.match
    BY <1>1 DEF LeftoverStaging
<1> QED
    BY <1>1, <1>2, ObservedStaging DEF Leftover

\* A decision either executes one of these things, or ends the loop.
Ends(d) == Settled(d) \/ d.action = "BLOCK_UNSAFE"
Known(d) == Ends(d) \/ Undertaken(d)

\* What is decided for the only transaction in flight, by its state.
LEMMA UnsealedUndertaken ==
    ASSUME TypeOK, Primary \in Ids, Lone(txn, Primary), txn[Primary].state \in FailableStates
    PROVE  Known(DecideUnsealed(Observation))
<1> DEFINE d == DecideUnsealed(Observation)
<1>1. d \in {FailTxn("NONE"), FailTxn("REMOVE_EMPTY_GENERATION"), FailTxn("REMOVE_EMPTY_STAGING"),
             FailTxn("MOVE_STAGING_TO_FAILED"), Blocked}
    BY Zenon DEF DecideUnsealed
<1>2. Blocked.action = "BLOCK_UNSAFE"
    BY DecisionFields DEF Blocked
<1>3. \A a : FailTxn(a).action = a /\ FailTxn(a).next = "FAILED"
    BY DecisionFields DEF FailTxn
<1>4. ASSUME NEW a \in {"NONE", "REMOVE_EMPTY_GENERATION", "REMOVE_EMPTY_STAGING",
                        "MOVE_STAGING_TO_FAILED"}
      PROVE  Undertaken(FailTxn(a))
    BY <1>3, <1>4 DEF Undertaken
<1> QED
    BY <1>1, <1>2, <1>4 DEF Known, Ends

\* Of a SEALED one.
LEMMA SealedUndertaken ==
    ASSUME TypeOK, Primary \in Ids, Lone(txn, Primary), txn[Primary].state = "SEALED"
    PROVE  Known(DecideSealed(Observation))
<1> DEFINE d == DecideSealed(Observation)
<1>1. \/ d = Blocked
      \/ ~Observation.staging.present /\ d = Reconciling("PERSIST_PUBLISHED", "PUBLISHED")
      \/ d = Reconciling("REMOVE_EMPTY_STAGING", "PUBLISHED")
      \/ d = FailTxn("MOVE_STAGING_TO_FAILED")
    BY Zenon DEF DecideSealed
<1>2. Blocked.action = "BLOCK_UNSAFE"
    BY DecisionFields DEF Blocked
<1>3. \A a, n : Reconciling(a, n).action = a /\ Reconciling(a, n).next = n
    BY DecisionFields DEF Reconciling
<1>4. FailTxn("MOVE_STAGING_TO_FAILED").action = "MOVE_STAGING_TO_FAILED"
      /\ FailTxn("MOVE_STAGING_TO_FAILED").next = "FAILED"
    BY DecisionFields DEF FailTxn
<1>5. ~Observation.staging.present => Leftover(Primary) = 0
    BY ObservedStaging DEF Leftover
<1>6. ~Observation.staging.present => Undertaken(Reconciling("PERSIST_PUBLISHED", "PUBLISHED"))
    BY <1>3, <1>5 DEF Undertaken
<1>7. Undertaken(Reconciling("REMOVE_EMPTY_STAGING", "PUBLISHED"))
    BY <1>3 DEF Undertaken
<1>8. Undertaken(FailTxn("MOVE_STAGING_TO_FAILED"))
    BY <1>4 DEF Undertaken
<1> QED
    BY <1>1, <1>2, <1>6, <1>7, <1>8 DEF Known, Ends

\* Of a PUBLISHED one.
LEMMA PublishedUndertaken ==
    ASSUME TypeOK, Primary \in Ids, Lone(txn, Primary), txn[Primary].state = "PUBLISHED"
    PROVE  Known(DecidePublished(Observation, Primary))
<1> DEFINE d == DecidePublished(Observation, Primary)
           l == LeftoverStaging(Observation)
<1>1. \/ d = Blocked
      \/ l # "" /\ d = Reconciling(l, "")
      \/ ActiveNames(Observation, Primary) /\ d = Reconciling("RECONCILE_ENV", "ACTIVATING")
      \/ d = Reconciling("PERSIST_ACTIVATING", "ACTIVATING")
    BY Zenon DEF DecidePublished
<1>2. Blocked.action = "BLOCK_UNSAFE"
    BY DecisionFields DEF Blocked
<1>3. \A a, n : Reconciling(a, n).action = a /\ Reconciling(a, n).next = n
    BY DecisionFields DEF Reconciling
<1>4. ActiveNames(Observation, Primary) => active = Primary
    BY ObservedStaging DEF ActiveNames
<1>5. ASSUME l # "" PROVE Undertaken(Reconciling(l, ""))
    <2>1. l \in {"REMOVE_EMPTY_STAGING", "GC_STAGING"} /\ Leftover(Primary) = 1
        BY Zenon, <1>5, LeftoverTakesTurn
    <2>2. ASSUME NEW d1, d1.action = l, d1.next = "" PROVE Undertaken(d1)
        BY <2>1, <2>2 DEF Undertaken
    <2> QED
        BY Zenon, <1>3, <2>2
<1>6. active = Primary => Undertaken(Reconciling("RECONCILE_ENV", "ACTIVATING"))
    <2>1. ASSUME NEW d1, d1.action = "RECONCILE_ENV", d1.next = "ACTIVATING", active = Primary
          PROVE  Undertaken(d1)
        BY <2>1 DEF Undertaken
    <2> QED
        BY Zenon, <1>3, <2>1
<1>7. Undertaken(Reconciling("PERSIST_ACTIVATING", "ACTIVATING"))
    <2>1. ASSUME NEW d1, d1.action = "PERSIST_ACTIVATING", d1.next = "ACTIVATING" PROVE Undertaken(d1)
        BY <2>1 DEF Undertaken
    <2> QED
        BY Zenon, <1>3, <2>1
<1> QED
    BY Zenon, <1>1, <1>2, <1>4, <1>5, <1>6, <1>7 DEF Known, Ends

\* Of an ACTIVATING one.
LEMMA ActivatingUndertaken ==
    ASSUME TypeOK, Primary \in Ids, Lone(txn, Primary), txn[Primary].state = "ACTIVATING",
           ReadActive # "INVALID"
    PROVE  Known(DecideActivating(Observation, Primary))
<1> DEFINE d == DecideActivating(Observation, Primary)
<1>1. \/ d = Blocked
      \/ ActiveNames(Observation, Primary) /\ Observation.env /\ d = Reconciling("COMMIT", "COMMITTED")
      \/ ActiveNames(Observation, Primary) /\ d = Reconciling("RECONCILE_ENV", "")
      \/ ~ActiveNames(Observation, Primary) /\ d = Reconciling("ACTIVATE", "")
    BY Zenon DEF DecideActivating
<1>2. Blocked.action = "BLOCK_UNSAFE"
    BY DecisionFields DEF Blocked
<1>3. \A a, n : Reconciling(a, n).action = a /\ Reconciling(a, n).next = n
    BY DecisionFields DEF Reconciling
<1>4. ActiveNames(Observation, Primary) <=> active = Primary
    BY ObservedStaging, ReadActiveCases, BoundsAssumption DEF ActiveNames
<1>5. Observation.env => EnvironmentComplete
    BY ObservedStaging
<1>6. active = Primary /\ EnvironmentComplete => Undertaken(Reconciling("COMMIT", "COMMITTED"))
    <2>1. ASSUME NEW d1, d1.action = "COMMIT", d1.next = "COMMITTED", active = Primary, EnvironmentComplete
          PROVE  Undertaken(d1)
        BY <2>1 DEF Undertaken
    <2> QED
        BY Zenon, <1>3, <2>1
<1>7. active = Primary => Undertaken(Reconciling("RECONCILE_ENV", ""))
    <2>1. ASSUME NEW d1, d1.action = "RECONCILE_ENV", d1.next = "", active = Primary
          PROVE  Undertaken(d1)
        BY <2>1 DEF Undertaken
    <2> QED
        BY Zenon, <1>3, <2>1
<1>8. active # Primary => Undertaken(Reconciling("ACTIVATE", ""))
    <2>1. ASSUME NEW d1, d1.action = "ACTIVATE", d1.next = "", active # Primary
          PROVE  Undertaken(d1)
        BY <2>1 DEF Undertaken
    <2> QED
        BY Zenon, <1>3, <2>1
<1> QED
    BY Zenon, <1>1, <1>2, <1>4, <1>5, <1>6, <1>7, <1>8 DEF Known, Ends

\* With nothing in flight.
LEMMA TerminalUndertaken ==
    ASSUME TypeOK, NonterminalTxns(txn) = {}, ReadActive # "INVALID"
    PROVE  Known(DecideTerminalWorld(Observation))
<1> DEFINE obs == Observation
           d == DecideTerminalWorld(obs)
           l == LeftoverStaging(obs)
<1>1. obs.txns = txn /\ obs.pointer = ReadActive /\ obs.active = active
    BY DEF Observation
<1>2. Ends(Nothing) /\ Ends(Decision("READY", "DIAGNOSE_RETAIN", ""))
    <2>1. Nothing.action = "NONE" /\ Nothing.next = ""
        BY ZenonT(40), DecisionFields DEF Nothing
    <2>2. Decision("READY", "DIAGNOSE_RETAIN", "").action = "DIAGNOSE_RETAIN"
        BY DecisionFields
    <2> QED
        BY Zenon, <2>1, <2>2 DEF Ends, Settled
<1>3. CASE ReadActive = "VALID" /\ txn[active].state \in {"COMMITTED", "FAILED"}
    <2>1. active \in Ids /\ active # 0
        BY <1>3, ReadActiveCases, BoundsAssumption DEF TypeOK
    <2>2. Primary = active
        BY <1>3 DEF Primary, PrimaryTxn, ValidStates, TerminalStates
    <2>3. Still(txn)
        BY DEF Still, InFlight, NonterminalTxns, TypeOK
    <2>4. \A g, a, n : Decision(g, a, n).action = a /\ Decision(g, a, n).next = n
        BY DecisionFields
    <2>5. obs.env <=> Generation(active) = "sealed" /\ EnvironmentComplete
        BY <2>1, <2>2, ObservedStaging
    <2>6. CASE txn[active].state = "FAILED"
        <3>1. \/ obs.env /\ d = Decision("READY", "COMMIT", "COMMITTED")
              \/ d = Decision("RECONCILING", "RECONCILE_ENV", "ACTIVATING")
            BY <1>1, <1>3, <2>6 DEF DecideTerminalWorld, Reconciling
        <3>2. EnvironmentComplete => Undertaken(Decision("READY", "COMMIT", "COMMITTED"))
            BY <2>1, <2>2, <2>3, <2>4, <2>6 DEF Undertaken
        <3>3. Undertaken(Decision("RECONCILING", "RECONCILE_ENV", "ACTIVATING"))
            BY <2>1, <2>2, <2>3, <2>4, <2>6 DEF Undertaken
        <3> QED
            BY <2>5, <3>1, <3>2, <3>3 DEF Known
    <2>7. CASE txn[active].state = "COMMITTED"
        <3>1. \/ l # "" /\ d = Decision("READY", l, "")
              \/ ~obs.env /\ d = Decision("READY", "RECONCILE_ENV", "")
              \/ d = Nothing
            BY <1>1, <1>3, <2>7 DEF DecideTerminalWorld
        <3>2. ASSUME l # "" PROVE Undertaken(Decision("READY", l, ""))
            <4>1. l \in {"REMOVE_EMPTY_STAGING", "GC_STAGING"} /\ Leftover(Primary) = 1
                BY Zenon, <2>1, <2>2, <3>2, LeftoverTakesTurn
            <4>2. ASSUME NEW d1, d1.action = l, d1.next = "" PROVE Undertaken(d1)
                BY <2>1, <2>2, <2>3, <2>7, <4>1, <4>2 DEF Undertaken
            <4> QED
                BY Zenon, <2>4, <4>2
        <3>3. ASSUME ~obs.env PROVE Undertaken(Decision("READY", "RECONCILE_ENV", ""))
            <4>1. ASSUME NEW d1, d1.action = "RECONCILE_ENV", d1.next = "" PROVE Undertaken(d1)
                BY <2>1, <2>2, <2>3, <2>5, <2>7, <3>3, <4>1 DEF Undertaken
            <4> QED
                BY Zenon, <2>4, <4>1
        <3> QED
            BY Zenon, <1>2, <3>1, <3>2, <3>3 DEF Known
    <2> QED
        BY <1>3, <2>6, <2>7
<1>4. CASE ~(ReadActive = "VALID" /\ txn[active].state \in {"COMMITTED", "FAILED"})
    <2>1. d \in {Nothing, Decision("READY", "DIAGNOSE_RETAIN", "")}
        BY <1>1, <1>4 DEF DecideTerminalWorld
    <2> QED
        BY Zenon, <1>2, <2>1 DEF Known
<1> QED
    BY <1>3, <1>4

\* Whatever recovery observes, it ends the loop or undertakes one of these things.
LEMMA DecisionKnown ==
    ASSUME TypeOK
    PROVE  Known(DecideRecovery(Observation))
<1> DEFINE obs == Observation
           d == DecideRecovery(obs)
           open == NonterminalTxns(txn)
<1>1. obs.txns = txn /\ obs.pointer = ReadActive /\ obs.active = active
    BY DEF Observation
<1>2. Known(Blocked)
    <2>1. Blocked.action = "BLOCK_UNSAFE"
        BY DecisionFields DEF Blocked
    <2> QED
        BY <2>1 DEF Known, Ends
<1>3. DOMAIN txn = Ids /\ open \subseteq Ids
    BY DEF TypeOK, NonterminalTxns
<1>4. CASE open = {}
    <2>1. d = Blocked \/ (ReadActive # "INVALID" /\ d = DecideTerminalWorld(obs))
        BY Zenon, <1>1, <1>4 DEF DecideRecovery
    <2> QED
        BY <1>2, <1>4, <2>1, TerminalUndertaken
<1>5. ASSUME NEW t \in open, open = {t} PROVE Known(d)
    <2>1. Primary = t /\ (CHOOSE u \in {t} : TRUE) = t
        BY <1>3, <1>5, PrimaryIsOpen
    <2>2. Primary \in Ids /\ Lone(txn, Primary)
        BY <1>3, <1>5, <2>1 DEF Lone, InFlight, NonterminalTxns
    <2>3. d = Blocked \/ (ReadActive # "INVALID" /\ d = DecideOne(obs, t))
        BY <1>1, <1>5, <2>1 DEF DecideRecovery
    <2>4. txn[t].state \in FailableStates \cup {"SEALED", "PUBLISHED", "ACTIVATING"}
        BY <2>1, <2>2 DEF Lone, InFlight, NonterminalStates, FailableStates
    <2>5. ReadActive # "INVALID" => Known(DecideOne(obs, t))
        <3>1. CASE txn[t].state \in FailableStates
            BY <1>1, <2>1, <2>2, <3>1, UnsealedUndertaken DEF DecideOne
        <3>2. CASE txn[t].state = "SEALED"
            BY <1>1, <2>1, <2>2, <3>2, SealedUndertaken DEF DecideOne, FailableStates
        <3>3. CASE txn[t].state = "PUBLISHED"
            BY <1>1, <2>1, <2>2, <3>3, PublishedUndertaken DEF DecideOne, FailableStates
        <3>4. CASE txn[t].state = "ACTIVATING"
            BY <1>1, <2>1, <2>2, <3>4, ActivatingUndertaken DEF DecideOne, FailableStates
        <3> QED
            BY <2>4, <3>1, <3>2, <3>3, <3>4
    <2> QED
        BY <1>2, <2>3, <2>5
<1>6. CASE open # {} /\ ~\E t \in open : open = {t}
    <2>1. \/ d = Blocked
          \/ (\E t \in open : txn[t].state \in FailableStates)
             /\ d = Reconciling("FAIL_FAILABLE_EXTRAS", "")
        BY Zenon, <1>1, <1>6 DEF DecideRecovery
    <2>2. ASSUME NEW t \in open, txn[t].state \in FailableStates
          PROVE  Undertaken(Reconciling("FAIL_FAILABLE_EXTRAS", ""))
        <3>1. PICK u \in open : u # t
            BY <1>6, <2>2
        <3>2. t \in Ids /\ u \in Ids /\ InFlight(txn, u)
            BY <1>3, <2>2, <3>1 DEF InFlight, NonterminalTxns
        <3>3. Reconciling("FAIL_FAILABLE_EXTRAS", "").action = "FAIL_FAILABLE_EXTRAS"
            BY DecisionFields DEF Reconciling
        <3> QED
            BY Zenon, <2>2, <3>1, <3>2, <3>3 DEF Undertaken
    <2> QED
        BY Zenon, <1>2, <2>1, <2>2 DEF Known
<1> QED
    BY <1>4, <1>5, <1>6

\* The turns needed with nothing in flight, and with one transaction in flight.
LEMMA NeedsStill ==
    ASSUME NEW r, NEW a, NEW l, NEW e, NEW k \in Int, Still(r), 0 <= k,
           a # 0 /\ r[a].state = "COMMITTED" => l[a] + e <= k,
           a # 0 /\ r[a].state = "FAILED" => l[a] + 1 <= k
    PROVE  NeedsAtMost(r, a, l, e, k)
BY DEF NeedsAtMost, Still, Lone, InFlight, FailableStates, NonterminalStates

\* One transaction in flight needs what its state asks for.
LEMMA NeedsLone ==
    ASSUME NEW r, NEW a, NEW l, NEW e, NEW k \in Int, NEW t \in Ids, Lone(r, t), 0 <= k,
           r[t].state \in FailableStates => 3 <= k,
           r[t].state = "SEALED" => 4 <= k,
           r[t].state = "PUBLISHED" => l[t] + 3 <= k,
           r[t].state = "ACTIVATING" => l[t] + (IF a = t THEN 1 ELSE 2) <= k
    PROVE  NeedsAtMost(r, a, l, e, k)
<1>1. ~Still(r) /\ \A u \in Ids : Lone(r, u) => u = t
    BY DEF Still, Lone
<1>2. \A u \in Ids : r[u].state \in FailableStates => u = t
    BY DEF Lone, InFlight, FailableStates, NonterminalStates
<1>3. \A u \in Ids : InFlight(r, u) => u = t
    BY DEF Lone
<1> QED
    BY <1>1, <1>2, <1>3 DEF NeedsAtMost

\* Where one record changes and no other is in flight, at most that one is.
LEMMA OneMoves ==
    ASSUME NEW r, NEW q, NEW t \in Ids, Lone(r, t) \/ Still(r),
           \A u \in Ids \ {t} : q[u].state = r[u].state
    PROVE  /\ q[t].state \in NonterminalStates => Lone(q, t)
           /\ q[t].state \notin NonterminalStates => Still(q)
BY DEF Lone, Still, InFlight

\* No more than five turns are ever needed.
LEMMA FiveTurns ==
    ASSUME NEW r, NEW a \in 0..N, NEW l \in [Ids -> {0, 1}], NEW e \in {0, 1}, NEW k \in Int, 5 <= k
    PROVE  NeedsAtMost(r, a, l, e, k)
<1>1. \A t \in Ids : l[t] \in {0, 1}
    OBVIOUS
<1>2. a # 0 => l[a] \in {0, 1}
    BY <1>1, BoundsAssumption
<1> QED
    BY <1>1, <1>2 DEF NeedsAtMost

\* The numbers the argument is about.
LEMMA TurnTypes ==
    ASSUME TypeOK
    PROVE  /\ Leftovers \in [Ids -> {0, 1}] /\ Astray \in {0, 1} /\ Remaining \in Int
           /\ \A t \in Ids : Leftovers[t] = Leftover(t) /\ Leftover(t) \in {0, 1}
<1>1. Remaining \in Int
    BY BoundsAssumption DEF Remaining, TypeOK, Jobs
<1> QED
    BY <1>1 DEF Leftovers, Leftover, Astray

\* One turn is one step.
LEMMA NextStepCounts ==
    ASSUME TypeOK, NextStep
    PROVE  job'.step = job.step + 1
BY DEF NextStep, Recovering, Idle

\* Removing or moving the primary's staging directory leaves no other leftover.
LEMMA StagingCleared ==
    ASSUME TypeOK, NEW t \in Ids, NEW d, RecoverTree(d, t)
    PROVE  /\ \A u \in Ids \ {t} : disk'["staging"][u] = disk["staging"][u]
           /\ d.action = "REMOVE_EMPTY_GENERATION" => disk'["staging"][t] = disk["staging"][t]
           /\ d.action # "REMOVE_EMPTY_GENERATION" => disk'["staging"][t] = "absent"
<1>1. CASE d.action = "REMOVE_EMPTY_GENERATION"
    <2>1. disk' = [disk EXCEPT !["generations"][t] = "absent"]
        BY <1>1 DEF RecoverTree, SetTree
    <2> QED
        BY <1>1, <2>1 DEF TypeOK
<1>2. CASE d.action \in {"REMOVE_EMPTY_STAGING", "GC_STAGING"}
    <2>1. disk' = [disk EXCEPT !["staging"][t] = "absent"]
        BY <1>2 DEF RecoverTree, SetTree
    <2> QED
        BY <1>2, <2>1 DEF TypeOK
<1>3. CASE d.action = "MOVE_STAGING_TO_FAILED"
    <2>1. disk' = [disk EXCEPT !["failed"][t] = disk["staging"][t], !["staging"][t] = "absent"]
        BY <1>3 DEF RecoverTree
    <2> QED
        BY <1>3, <2>1 DEF TypeOK
<1> QED
    BY <1>1, <1>2, <1>3 DEF RecoverTree

\* A change of the primary's directory leaves one turn less.
LEMMA TreeTakesTurn ==
    ASSUME TypeOK, NEW d, Undertaken(d), RecoverTree(d, Primary), job.pc = "observe",
           NeedsAtMost(txn, active, Leftovers, Astray, Remaining),
           UNCHANGED <<active, environment, left>>
    PROVE  NeedsAtMost(Persisted, active, Leftovers, Astray, Remaining - 1)'
<1>1. PICK t : t = Primary
    OBVIOUS
<1>2. txn' = txn /\ job'.t = t /\ job'.prev = d /\ job'.step = job.step
    BY <1>1 DEF RecoverTree, TypeOK, Jobs
<1>3. PICK r : r = IF d.next = "" THEN txn ELSE [txn EXCEPT ![t].state = d.next]
    OBVIOUS
<1>4. Persisted' = r
    BY <1>2, <1>3 DEF Persisted
<1>5. Remaining' = Remaining /\ Remaining \in Int
    BY <1>2, TurnTypes DEF Remaining
<1>6. Astray' = Astray /\ active' = active /\ Astray \in {0, 1}
    BY TurnTypes DEF Astray, EnvironmentComplete, environment
<1>7. t \in Ids /\ d.action # "FAIL_FAILABLE_EXTRAS"
    BY <1>1 DEF Undertaken, RecoverTree
<1>8. PICK l : l = Leftovers'
    OBVIOUS
<1>9. /\ \A u \in Ids : l[u] \in {0, 1} /\ Leftovers[u] \in {0, 1}
      /\ d.action # "REMOVE_EMPTY_GENERATION" => l[t] = 0
      /\ Leftovers[t] = Leftover(t)
    <2>1. \A u \in Ids : l[u] = IF disk'["staging"][u] \in {"empty", "candidate", "sealed", "remnant"} THEN 1 ELSE 0
        BY <1>8 DEF Leftovers, Leftover
    <2>2. d.action # "REMOVE_EMPTY_GENERATION" => disk'["staging"][t] = "absent"
        BY <1>1, <1>7, StagingCleared
    <2> QED
        BY <1>7, <2>1, <2>2, TurnTypes
<1>10. active # 0 => active \in Ids
    BY BoundsAssumption DEF TypeOK
<1>11. PICK k \in Int : k = Remaining - 1
    BY <1>5
<1> SUFFICES NeedsAtMost(r, active, l, Astray, k)
    BY <1>4, <1>5, <1>6, <1>8, <1>11
<1>12. \A s \in ValidStates : d.next = s => r[t].state = s /\ \A u \in Ids \ {t} : r[u].state = txn[u].state
    <2>1. "" \notin ValidStates
        BY Zenon DEF ValidStates, NonterminalStates, TerminalStates
    <2> QED
        BY <1>3, <1>7, <2>1 DEF TypeOK, TxnRecords
<1>13. CASE d.next = "FAILED" /\ Lone(txn, t)
    <2>1. r[t].state = "FAILED" /\ \A u \in Ids \ {t} : r[u].state = txn[u].state
        BY <1>12, <1>13 DEF ValidStates, TerminalStates
    <2>2. Still(r)
        BY <1>7, <1>13, <2>1, OneMoves DEF NonterminalStates
    <2>3. txn[t].state \in FailableStates \cup {"SEALED"}
        BY <1>1, <1>7, <1>13 DEF Undertaken, Still, Lone
    <2>4. 3 <= Remaining
        BY <1>5, <1>7, <1>13, <2>3 DEF NeedsAtMost
    <2>5. active # 0 => l[active] \in {0, 1}
        BY <1>9, <1>10
    <2>6. 2 <= k /\ Astray <= 1
        BY <1>5, <1>6, <1>11, <2>4
    <2>7. active # 0 => l[active] + Astray <= k /\ l[active] + 1 <= k
        BY <1>6, <1>11, <2>5, <2>6
    <2> QED
        BY <2>2, <2>6, <2>7, <1>11, NeedsStill
<1>14. CASE d.next = "PUBLISHED" /\ Lone(txn, t)
    <2>1. txn[t].state = "SEALED" /\ d.action = "REMOVE_EMPTY_STAGING"
        BY <1>1, <1>14 DEF Undertaken, Still, Lone, RecoverTree
    <2>2. 3 <= k /\ l[t] = 0
        BY <1>5, <1>7, <1>9, <1>11, <1>14, <2>1 DEF NeedsAtMost
    <2>3. r[t].state = "PUBLISHED" /\ \A u \in Ids \ {t} : r[u].state = txn[u].state
        BY <1>12, <1>14 DEF ValidStates, NonterminalStates
    <2>4. Lone(r, t)
        BY <1>7, <1>14, <2>3, OneMoves DEF NonterminalStates
    <2> QED
        BY <1>7, <1>11, <2>2, <2>3, <2>4, NeedsLone DEF FailableStates
<1>15. CASE d.next = "" /\ Lone(txn, t)
    <2>1. txn[t].state = "PUBLISHED" /\ Leftover(t) = 1
          /\ d.action \in {"REMOVE_EMPTY_STAGING", "GC_STAGING"}
        BY <1>1, <1>7, <1>15 DEF Undertaken, Still, Lone, RecoverTree
    <2>2. Leftovers[t] + 3 <= Remaining
        BY <1>7, <1>15, <2>1 DEF NeedsAtMost
    <2>3. r = txn
        BY Zenon, <1>3, <1>15
    <2>4. l[t] = 0
        BY <1>9, <2>1
    <2>5. 3 <= k
        BY <1>5, <1>9, <1>11, <2>1, <2>2
    <2>6. Lone(r, t)
        BY Zenon, <1>15, <2>3
    <2>7. r[t].state = "PUBLISHED" /\ l[t] + 3 <= k /\ 0 <= k
        BY <1>11, <2>1, <2>3, <2>4, <2>5
    <2> QED
        BY <1>7, <1>11, <2>6, <2>7, NeedsLone DEF FailableStates
<1>16. CASE Still(txn)
    <2>0. d.next = ""
        BY <1>1, <1>7, <1>16 DEF Undertaken, Still, Lone, RecoverTree
    <2>1. /\ active = t /\ txn[t].state = "COMMITTED" /\ Leftover(t) = 1
          /\ d.action \in {"REMOVE_EMPTY_STAGING", "GC_STAGING"}
        BY <1>1, <1>7, <1>16 DEF Undertaken, Still, Lone, RecoverTree
    <2>2. active # 0
        BY <1>7, <2>1, BoundsAssumption
    <2>3. Leftovers[active] + Astray <= Remaining
        BY <1>16, <2>1, <2>2 DEF NeedsAtMost
    <2>4. r = txn
        BY Zenon, <1>3, <2>0
    <2>5. l[t] = 0
        BY <1>9, <2>1
    <2>6. 1 + Astray <= Remaining
        BY <1>9, <2>1, <2>3
    <2>7. l[active] + Astray <= k /\ 0 <= k
        BY <1>5, <1>6, <1>11, <2>1, <2>5, <2>6
    <2>8. Still(r) /\ r[active].state = "COMMITTED"
        BY <1>16, <2>1, <2>4
    <2> QED
        BY <1>11, <2>7, <2>8, NeedsStill
<1>17. Lone(txn, t) \/ Still(txn)
    BY <1>1, <1>7 DEF Undertaken
<1>18. Lone(txn, t) => d.next \in {"FAILED", "PUBLISHED", ""}
    BY <1>1, <1>7 DEF Undertaken, RecoverTree, Still, Lone
<1> QED
    BY <1>13, <1>14, <1>15, <1>16, <1>17, <1>18

\* Four turns are enough where nothing is failable.
LEMMA FourTurns ==
    ASSUME NEW r, NEW a \in 0..N, NEW l \in [Ids -> {0, 1}], NEW e \in {0, 1}, NEW k \in Int, 4 <= k,
           \A t \in Ids : r[t].state \notin FailableStates
    PROVE  NeedsAtMost(r, a, l, e, k)
<1>1. \A t \in Ids : l[t] \in {0, 1}
    OBVIOUS
<1>2. a # 0 => l[a] \in {0, 1}
    BY <1>1, BoundsAssumption
<1> QED
    BY <1>1, <1>2 DEF NeedsAtMost

\* What recovery has in flight when it writes a record and observes again.
RecordsOnly(d) == d.action \in {"FAIL_FAILABLE_EXTRAS", "NONE", "PERSIST_PUBLISHED",
                                "PERSIST_ACTIVATING", "COMMIT"}

\* A record that is written leaves one turn less.
LEMMA RecordTakesTurn ==
    ASSUME TypeOK, NEW d, Undertaken(d), RecordsOnly(d),
           NeedsAtMost(txn, active, Leftovers, Astray, Remaining)
    PROVE  NeedsAtMost(SavedRecords(d, Primary), active, Leftovers, Astray, Remaining - 1)
<1>1. PICK t : t = Primary
    OBVIOUS
<1>2. PICK r : r = SavedRecords(d, t)
    OBVIOUS
<1>3. PICK l : l = Leftovers
    OBVIOUS
<1>4. PICK k \in Int : k = Remaining - 1 /\ Remaining = k + 1
    BY TurnTypes
<1>5. PICK e \in {0, 1} : e = Astray
    BY TurnTypes
<1>6. /\ l \in [Ids -> {0, 1}] /\ \A u \in Ids : l[u] \in {0, 1} /\ l[u] = Leftover(u)
      /\ active \in 0..N /\ (active # 0 => active \in Ids)
    BY <1>3, TurnTypes, BoundsAssumption DEF TypeOK
<1>7. NeedsAtMost(txn, active, l, e, k + 1)
    BY <1>3, <1>4, <1>5
<1> SUFFICES NeedsAtMost(r, active, l, e, k)
    BY <1>1, <1>2, <1>3, <1>4, <1>5
<1>8. \A s \in ValidStates : /\ d.next = s /\ t \in Ids
                             /\ d.action \notin {"FAIL_FAILABLE_EXTRAS", "PERSIST_ACTIVATING"}
                            => r[t].state = s /\ \A u \in Ids \ {t} : r[u].state = txn[u].state
    <2>1. "" \notin ValidStates
        BY Zenon DEF ValidStates, NonterminalStates, TerminalStates
    <2> QED
        BY <1>2, <2>1 DEF TypeOK, TxnRecords, SavedRecords
<1>9. CASE d.action = "FAIL_FAILABLE_EXTRAS"
    <2>1. r = FailFailable
        BY <1>2, <1>9 DEF SavedRecords
    <2>2. \A u \in Ids : r[u].state \notin FailableStates
        BY <2>1 DEF FailFailable, FailableStates, TypeOK, TxnRecords
    <2>3. 4 <= k
        BY <1>4, <1>7, <1>9 DEF Undertaken, NeedsAtMost
    <2> QED
        BY <1>6, <2>2, <2>3, FourTurns
<1>10. CASE d.action = "NONE"
    <2>1. t \in Ids /\ Lone(txn, t) /\ txn[t].state \in FailableStates /\ d.next = "FAILED"
        BY <1>1, <1>10 DEF Undertaken
    <2>2. 2 <= k
        BY <1>4, <1>7, <2>1 DEF NeedsAtMost
    <2>3. r[t].state = "FAILED" /\ \A u \in Ids \ {t} : r[u].state = txn[u].state
        BY <1>8, <1>10, <2>1 DEF ValidStates, TerminalStates
    <2>4. Still(r)
        BY <2>1, <2>3, OneMoves DEF NonterminalStates
    <2>5. active # 0 => l[active] + e <= k /\ l[active] + 1 <= k
        BY <1>6, <2>2
    <2> QED
        BY <2>2, <2>4, <2>5, NeedsStill
<1>11. CASE d.action = "PERSIST_PUBLISHED"
    <2>1. t \in Ids /\ Lone(txn, t) /\ txn[t].state = "SEALED" /\ d.next = "PUBLISHED" /\ l[t] = 0
        BY <1>1, <1>6, <1>11 DEF Undertaken
    <2>2. 3 <= k
        BY <1>4, <1>7, <2>1 DEF NeedsAtMost
    <2>3. r[t].state = "PUBLISHED" /\ \A u \in Ids \ {t} : r[u].state = txn[u].state
        BY <1>8, <1>11, <2>1 DEF ValidStates, NonterminalStates
    <2>4. Lone(r, t)
        BY <2>1, <2>3, OneMoves DEF NonterminalStates
    <2>5. t \in Ids /\ l[t] + 3 <= k /\ 0 <= k
        BY <2>1, <2>2
    <2>6. r[t].state = "PUBLISHED"
        BY <2>3
    <2> QED
        BY <2>4, <2>5, <2>6, NeedsLone DEF FailableStates
<1>12. CASE d.action = "PERSIST_ACTIVATING"
    <2>1. t \in Ids /\ Lone(txn, t) /\ txn[t].state = "PUBLISHED"
        BY <1>1, <1>12 DEF Undertaken
    <2>2. l[t] + 2 <= k /\ l[t] \in {0, 1}
        BY <1>4, <1>6, <1>7, <2>1 DEF NeedsAtMost
    <2>3. r = [txn EXCEPT ![t].state = "ACTIVATING", ![t].before = active]
        BY <1>2, <1>12 DEF SavedRecords
    <2>4. r[t].state = "ACTIVATING" /\ \A u \in Ids \ {t} : r[u].state = txn[u].state
        BY <2>1, <2>3 DEF TypeOK, TxnRecords
    <2>5. Lone(r, t)
        BY <2>1, <2>4, OneMoves DEF NonterminalStates
    <2> QED
        BY <2>1, <2>2, <2>4, <2>5, NeedsLone DEF FailableStates
<1>13. CASE d.action = "COMMIT"
    <2>1. /\ t \in Ids /\ active = t /\ EnvironmentComplete /\ d.next = "COMMITTED"
          /\ \/ Lone(txn, t) /\ txn[t].state = "ACTIVATING"
             \/ Still(txn) /\ txn[t].state = "FAILED"
        BY <1>1, <1>13 DEF Undertaken
    <2>2. e = 0 /\ active # 0
        BY <1>5, <2>1, BoundsAssumption DEF Astray
    <2>3. l[t] <= k /\ l[t] \in {0, 1}
        BY <1>4, <1>6, <1>7, <2>1, <2>2 DEF NeedsAtMost
    <2>4. r[t].state = "COMMITTED" /\ \A u \in Ids \ {t} : r[u].state = txn[u].state
        BY <1>8, <1>13, <2>1 DEF ValidStates, TerminalStates
    <2>5. Still(r)
        BY <2>1, <2>4, OneMoves DEF NonterminalStates
    <2> QED
        BY <2>1, <2>2, <2>3, <2>4, <2>5, NeedsStill
<1> QED
    BY <1>9, <1>10, <1>11, <1>12, <1>13 DEF RecordsOnly

\* After a decision that is executed on a record or goes on with the environment
\* or the pointer, the turns left are enough.
LEMMA RecordKeepsTurns ==
    ASSUME TypeOK, NEW d, Undertaken(d), RecoverRecord(d, Primary), d.action \notin TreeActions,
           job.pc = "observe", ~job.tail,
           NeedsAtMost(txn, active, Leftovers, Astray, Remaining),
           UNCHANGED <<active, environment, left>>
    PROVE  TurnsOK'
<1>1. PICK t : t = Primary
    OBVIOUS
<1>2. /\ Leftovers' = Leftovers /\ Astray' = Astray /\ active' = active /\ left' = left
      /\ disk' = disk /\ txn' = SavedRecords(d, t)
      /\ (Generation(active))' = Generation(active)
      /\ \A u : Leftover(u)' = Leftover(u)
    BY <1>1 DEF RecoverRecord, Leftovers, Leftover, Astray, EnvironmentComplete, environment, Generation
<1>3. CASE RecordsOnly(d)
    <2>1. job' = [job EXCEPT !.step = job.step + 1, !.prev = d]
        BY <1>3 DEF RecoverRecord, RecordsOnly
    <2>2. job'.pc = "observe" /\ job'.step = job.step + 1 /\ job'.tail = job.tail
        BY <2>1 DEF TypeOK, Jobs
    <2>3. Remaining' = Remaining - 1
        <3>1. job.step \in Int /\ left.drift \in Int
            BY DEF TypeOK, Jobs
        <3>2. MaxDrifts \in Int
            BY BoundsAssumption
        <3> QED
            BY <1>2, <2>2, <3>1, <3>2 DEF Remaining
    <2>4. NeedsAtMost(txn, active, Leftovers, Astray, Remaining)'
        BY <1>1, <1>2, <1>3, <2>3, RecordTakesTurn
    <2> QED
        BY <2>2, <2>4 DEF TurnsOK, EnvPcs
<1>4. CASE d.action = "RECONCILE_ENV"
    <2>1. job' = [job EXCEPT !.pc = "home", !.t = t, !.prev = d]
        BY <1>1, <1>4 DEF RecoverRecord
    <2>2. job'.pc = "home" /\ job'.t = t /\ job'.tail = job.tail /\ job'.step = job.step
        BY <2>1 DEF TypeOK, Jobs
    <2>3. Remaining' = Remaining /\ Remaining \in Int
        BY <1>2, <2>2, TurnTypes DEF Remaining
    <2>4. t \in Ids /\ active = t /\ active # 0
        <3>1. t \in Ids /\ active = t
            BY <1>1, <1>4 DEF Undertaken
        <3> QED
            BY <3>1, BoundsAssumption
    <2>5. txn' = IF d.next = "" THEN txn ELSE [txn EXCEPT ![t].state = d.next]
        BY Zenon, <1>2, <1>4 DEF SavedRecords
    <2>6. Leftovers[t] = Leftover(t) /\ Leftover(t) \in {0, 1}
        BY <2>4, TurnTypes
    <2>7. \/ Lone(txn, t) /\ txn[t].state \in {"PUBLISHED", "ACTIVATING"}
          \/ Still(txn) /\ txn[t].state = "FAILED"
          \/ Still(txn) /\ txn[t].state = "COMMITTED"
             /\ (Generation(active) = "sealed" => ~EnvironmentComplete)
        BY <1>1, <1>4 DEF Undertaken
    <2>8. txn'[t].state \in {"ACTIVATING", "COMMITTED"}
        <3>1. CASE txn[t].state \in {"PUBLISHED", "FAILED"}
            <4>1. d.next = "ACTIVATING"
                BY <1>1, <1>4, <3>1 DEF Undertaken, FailableStates
            <4>2. d.next # ""
                BY Zenon, <4>1
            <4>3. txn' = [txn EXCEPT ![t].state = "ACTIVATING"]
                BY Zenon, <2>5, <4>1, <4>2
            <4> QED
                BY <2>4, <4>3 DEF TypeOK, TxnRecords
        <3>2. CASE txn[t].state \in {"ACTIVATING", "COMMITTED"}
            <4>1. d.next = ""
                BY <1>1, <1>4, <3>2 DEF Undertaken, FailableStates
            <4>2. txn' = txn
                BY Zenon, <2>5, <4>1
            <4> QED
                BY <3>2, <4>2
        <3> QED
            BY <2>7, <3>1, <3>2
    <2>9. Generation(active) = "sealed" => Leftover(t) + 1 <= Remaining
        <3>1. CASE Lone(txn, t) /\ txn[t].state \in {"PUBLISHED", "ACTIVATING"}
            BY <2>3, <2>4, <2>6, <3>1 DEF NeedsAtMost
        <3>2. CASE Still(txn) /\ txn[t].state = "FAILED"
            BY <2>3, <2>4, <2>6, <3>2 DEF NeedsAtMost
        <3>3. CASE Still(txn) /\ txn[t].state = "COMMITTED"
                   /\ (Generation(active) = "sealed" => ~EnvironmentComplete)
            <4>1. Leftovers[t] + Astray <= Remaining
                BY <2>4, <3>3 DEF NeedsAtMost
            <4>2. Generation(active) = "sealed" => Astray = 1
                BY <3>3 DEF Astray
            <4> QED
                BY <2>6, <4>1, <4>2
        <3> QED
            BY Zenon, <2>7, <3>1, <3>2, <3>3
    <2>10. ReconcilesOK'
        BY <1>2, <2>2, <2>3, <2>4, <2>6, <2>8, <2>9 DEF ReconcilesOK
    <2> QED
        BY <2>2, <2>10 DEF TurnsOK
<1>5. CASE d.action = "ACTIVATE"
    <2>1. job' = [job EXCEPT !.pc = "point", !.t = t, !.prev = d]
        BY <1>1, <1>5 DEF RecoverRecord
    <2>2. job'.pc = "point" /\ job'.t = t /\ job'.tail = job.tail /\ job'.step = job.step
        BY <2>1 DEF TypeOK, Jobs
    <2>3. Remaining' = Remaining /\ Remaining \in Int
        BY <1>2, <2>2, TurnTypes DEF Remaining
    <2>4. t \in Ids /\ Lone(txn, t) /\ txn[t].state = "ACTIVATING" /\ active # t
        BY <1>1, <1>5 DEF Undertaken
    <2>5. d.next = ""
        BY <1>5 DEF Undertaken
    <2>6. txn' = txn
        BY Zenon, <1>2, <1>5, <2>5 DEF SavedRecords
    <2>7. Leftovers[t] = Leftover(t) /\ Leftover(t) \in {0, 1}
        BY <2>4, TurnTypes
    <2>8. Leftover(t) + 2 <= Remaining
        BY <2>4, <2>7 DEF NeedsAtMost
    <2>9. Lone(txn, t)'
        BY <2>4, <2>6 DEF Lone, InFlight
    <2> QED
        BY <1>2, <2>2, <2>3, <2>4, <2>6, <2>8, <2>9 DEF TurnsOK, EnvPcs
<1>6. RecordsOnly(d) \/ d.action \in {"RECONCILE_ENV", "ACTIVATE"}
    BY DEF Undertaken, RecordsOnly, TreeActions
<1> QED
    BY <1>3, <1>4, <1>5, <1>6

\* What was enough remains so where there is no more to do, or as many turns more.
LEMMA NeedsLess ==
    ASSUME NEW r, NEW a \in 0..N, NEW l, NEW m, NEW e \in {0, 1}, NEW f \in {0, 1},
           NEW k \in Int, NEW j \in Int, k <= j, k + f <= j + e,
           \A t \in Ids : l[t] \in {0, 1} /\ m[t] \in {0, 1} /\ m[t] <= l[t],
           NeedsAtMost(r, a, l, e, k)
    PROVE  NeedsAtMost(r, a, m, f, j)
<1>1. \A t \in Ids : l[t] \in {0, 1} /\ m[t] \in {0, 1} /\ m[t] <= l[t]
    OBVIOUS
<1>2. a # 0 => a \in Ids
    BY BoundsAssumption
<1>3. CASE Still(r)
    <2>1. 0 <= j
        BY DEF NeedsAtMost
    <2>2. ASSUME a # 0, r[a].state = "COMMITTED" PROVE m[a] + f <= j
        <3>1. l[a] + e <= k
            BY <1>3, <2>2 DEF NeedsAtMost
        <3>2. PICK x \in Int, y \in Int : x = l[a] /\ y = m[a] /\ y <= x
            BY <1>1, <1>2, <2>2
        <3> QED
            BY <3>1, <3>2
    <2>3. ASSUME a # 0, r[a].state = "FAILED" PROVE m[a] + 1 <= j
        <3>1. l[a] + 1 <= k
            BY <1>3, <2>3 DEF NeedsAtMost
        <3>2. PICK x \in Int, y \in Int : x = l[a] /\ y = m[a] /\ y <= x
            BY <1>1, <1>2, <2>3
        <3> QED
            BY <3>1, <3>2
    <2> QED
        BY <1>3, <2>1, <2>2, <2>3, NeedsStill
<1>4. CASE \E t \in Ids : Lone(r, t)
    <2>1. PICK t \in Ids : Lone(r, t)
        BY <1>4
    <2>2. PICK x \in Int, y \in Int : x = l[t] /\ y = m[t] /\ y <= x
        BY <1>1
    <2>3. /\ 0 <= k
          /\ r[t].state \in FailableStates => 3 <= k
          /\ r[t].state = "SEALED" => 4 <= k
          /\ r[t].state = "PUBLISHED" => x + 3 <= k
          /\ r[t].state = "ACTIVATING" => x + (IF a = t THEN 1 ELSE 2) <= k
        BY <2>1, <2>2 DEF NeedsAtMost
    <2>4. /\ 0 <= j
          /\ r[t].state \in FailableStates => 3 <= j
          /\ r[t].state = "SEALED" => 4 <= j
          /\ r[t].state = "PUBLISHED" => m[t] + 3 <= j
          /\ r[t].state = "ACTIVATING" => m[t] + (IF a = t THEN 1 ELSE 2) <= j
        BY <2>2, <2>3
    <2> QED
        BY <2>1, <2>4, NeedsLone
<1>5. CASE ~Still(r) /\ ~\E t \in Ids : Lone(r, t)
    <2>1. 0 <= j
        BY DEF NeedsAtMost
    <2>2. (\E t, u \in Ids : t # u /\ InFlight(r, u) /\ r[t].state \in FailableStates) => 5 <= j
        BY DEF NeedsAtMost
    <2> QED
        BY <1>5, <2>1, <2>2 DEF NeedsAtMost
<1> QED
    BY <1>3, <1>4, <1>5

\* A step that moves neither the records nor the recovery, and leaves no more to
\* do, or as many turns more.
StepsAside ==
    /\ UNCHANGED <<txn, job, active>>
    /\ \A t \in Ids : Leftover(t)' <= Leftover(t)
    /\ Remaining <= Remaining' /\ Remaining + Astray' <= Remaining' + Astray
    /\ Generation(active)' = "sealed" => Generation(active) = "sealed"

\* A recovery counts its turns.
LEMMA StepIsNumber == TypeOK => job.step \in Int
BY DEF TypeOK, Jobs

\* What remains the same.
LEMMA AsideKeepsTurns ==
    ASSUME TypeOK, TypeOK', TurnsOK, StepsAside
    PROVE  TurnsOK'
<1> SUFFICES ASSUME job.by = "recover" PROVE TurnsOK'
    BY DEF TurnsOK, StepsAside
<1>1. txn' = txn /\ job' = job /\ active' = active
    BY DEF StepsAside
<1>2. /\ Leftovers \in [Ids -> {0, 1}] /\ Astray \in {0, 1} /\ Remaining \in Int
      /\ \A t \in Ids : Leftovers[t] = Leftover(t) /\ Leftover(t) \in {0, 1}
    BY TurnTypes
<1>3. /\ Leftovers' \in [Ids -> {0, 1}] /\ Astray' \in {0, 1}
      /\ \A t \in Ids : Leftovers'[t] = Leftover(t)' /\ Leftover(t)' \in {0, 1}
    BY DEF Leftovers, Leftover, Astray
<1>4. Remaining' \in Int
    <2>1. left'.drift \in Nat
        BY DEF TypeOK
    <2>2. job'.step \in Int
        <3>1. job.step \in Int
            BY StepIsNumber
        <3> QED
            BY <1>1, <3>1
    <2> QED
        BY <2>1, <2>2, BoundsAssumption DEF Remaining
<1>5. \A t \in Ids : Leftovers'[t] <= Leftovers[t]
    BY <1>2, <1>3 DEF StepsAside
<1>6. active \in 0..N
    BY DEF TypeOK
<1>7. ASSUME NEW r, NEW k \in Int, NEW j \in Int, k <= j, k + Astray' <= j + Astray,
             NeedsAtMost(r, active, Leftovers, Astray, k)
      PROVE  NeedsAtMost(r, active, Leftovers', Astray', j)
    <2>1. PICK l \in [Ids -> {0, 1}] : l = Leftovers
        BY <1>2
    <2>2. PICK m \in [Ids -> {0, 1}] : m = Leftovers'
        BY <1>3
    <2>3. PICK e \in {0, 1} : e = Astray
        BY <1>2
    <2>4. PICK f \in {0, 1} : f = Astray'
        BY <1>3
    <2>5. k + f <= j + e
        BY <1>7, <2>3, <2>4
    <2>6. NeedsAtMost(r, active, l, e, k)
        BY <1>7, <2>1, <2>3
    <2>7. \A t \in Ids : l[t] \in {0, 1} /\ m[t] \in {0, 1} /\ m[t] <= l[t]
        BY <1>2, <1>3, <1>5, <2>1, <2>2
    <2>9. k <= j
        BY <1>7
    <2>8. NeedsAtMost(r, active, m, f, j)
        BY <1>6, <2>5, <2>6, <2>7, <2>9, NeedsLess
    <2> QED
        BY <2>2, <2>4, <2>8
<1>8. job.pc = "observe" => NeedsAtMost(txn, active, Leftovers, Astray, Remaining)'
    BY <1>1, <1>2, <1>4, <1>7 DEF TurnsOK, StepsAside
<1>9. Persisted' = Persisted
    BY <1>1 DEF Persisted
<1>10. job.pc = "persist" => NeedsAtMost(Persisted, active, Leftovers, Astray, Remaining - 1)'
    <2>1. PICK p \in Int : p = Remaining
        BY <1>2
    <2>2. PICK q \in Int : q = Remaining'
        BY <1>4
    <2>3. PICK e \in {0, 1} : e = Astray
        BY <1>2
    <2>4. PICK f \in {0, 1} : f = Astray'
        BY <1>3
    <2>5. p <= q /\ p + f <= q + e
        BY <2>1, <2>2, <2>3, <2>4 DEF StepsAside
    <2>6. p - 1 \in Int /\ q - 1 \in Int /\ p - 1 <= q - 1 /\ (p - 1) + f <= (q - 1) + e
        BY <2>5
    <2>7. job.pc = "persist" => NeedsAtMost(Persisted, active, Leftovers, Astray, p - 1)
        BY <2>1 DEF TurnsOK
    <2>8. job.pc = "persist" => NeedsAtMost(Persisted, active, Leftovers', Astray', q - 1)
        BY <1>7, <2>3, <2>4, <2>6, <2>7
    <2> QED
        BY <1>1, <1>9, <2>2, <2>8
<1>11. job.pc = "point" => /\ Lone(txn, job.t)' /\ job.t \in Ids /\ txn[job.t].state = "ACTIVATING"
                           /\ active # job.t /\ Leftover(job.t)' + 2 <= Remaining'
    <2>1. ASSUME job.pc = "point" PROVE Leftover(job.t)' + 2 <= Remaining'
        <3>1. job.t \in Ids /\ Leftover(job.t) + 2 <= Remaining
            BY <2>1 DEF TurnsOK
        <3>2. PICK x \in Int, y \in Int : x = Leftover(job.t) /\ y = Leftover(job.t)' /\ y <= x
            BY <1>1, <1>2, <1>3, <3>1 DEF StepsAside
        <3> QED
            BY <1>2, <1>4, <3>1, <3>2 DEF StepsAside
    <2> QED
        BY <1>1, <2>1 DEF TurnsOK, Lone, InFlight
<1>12. job.pc \in EnvPcs \cup {"gc"} /\ ~Settled(job.prev) => ReconcilesOK'
    <2> SUFFICES ASSUME job.pc \in EnvPcs \cup {"gc"}, ~Settled(job.prev) PROVE ReconcilesOK'
        OBVIOUS
    <2>1. ReconcilesOK
        BY DEF TurnsOK
    <2>2. active \in Ids
        BY <1>6, <2>1 DEF ReconcilesOK
    <2>3. PICK x \in Int, y \in Int : x = Leftover(active) /\ y = Leftover(active)' /\ y <= x
        <3>1. Leftover(active)' <= Leftover(active)
            BY <1>1, <2>2 DEF StepsAside, Leftover
        <3>2. Leftover(active) \in {0, 1} /\ Leftover(active)' \in {0, 1}
            BY DEF Leftover
        <3> QED
            BY <3>1, <3>2
    <2>4. PICK e \in Int, f \in Int : e = Astray /\ f = Astray'
        BY <1>2, <1>3
    <2>5. PICK k \in Int, j \in Int : k = Remaining /\ j = Remaining'
        BY <1>2, <1>4
    <2>6. k <= j /\ k + f <= j + e
        BY <2>4, <2>5 DEF StepsAside
    <2>7. (job.pc = "home" /\ ~job.tail => Generation(active)' = "sealed")
              => y + (IF job.pc = "gc" \/ job.tail THEN f ELSE 0) + 1 <= j
        <3>1. ASSUME job.pc = "home" /\ ~job.tail => Generation(active)' = "sealed"
              PROVE  y + (IF job.pc = "gc" \/ job.tail THEN f ELSE 0) + 1 <= j
            <4>1. job.pc = "home" /\ ~job.tail => Generation(active) = "sealed"
                BY <3>1 DEF StepsAside
            <4>2. x + (IF job.pc = "gc" \/ job.tail THEN e ELSE 0) + 1 <= k
                BY <2>1, <2>3, <2>4, <2>5, <4>1 DEF ReconcilesOK
            <4> QED
                BY <2>3, <2>6, <4>2
        <3> QED
            BY <3>1
    <2> QED
        BY <1>1, <2>1, <2>3, <2>4, <2>5, <2>7 DEF ReconcilesOK
<1> QED
    BY <1>1, <1>8, <1>10, <1>11, <1>12 DEF TurnsOK

\* The loop goes on with one turn less.
LEMMA ObservesNext ==
    ASSUME TypeOK, NextStep, left'.drift = left.drift
    PROVE  /\ job'.by = "recover" /\ job'.pc = "observe" /\ ~job'.tail
           /\ Remaining' = Remaining - 1 /\ Remaining' \in Int
<1>1. job'.by = "recover" /\ job'.pc = "observe" /\ ~job'.tail
    BY DEF NextStep, Recovering, Idle
<1>2. job'.step = job.step + 1
    BY NextStepCounts
<1>3. job.step \in Int /\ left.drift \in Int /\ MaxDrifts \in Int
    BY StepIsNumber, BoundsAssumption DEF TypeOK
<1> QED
    BY <1>1, <1>2, <1>3 DEF Remaining

\* What the disk and the environment ask for does not change when they do not.
LEMMA SameLeftovers ==
    ASSUME UNCHANGED <<disk, active, environment>>
    PROVE  /\ Leftovers' = Leftovers /\ Astray' = Astray /\ active' = active
           /\ Generation(active)' = Generation(active) /\ \A t : Leftover(t)' = Leftover(t)
BY DEF Leftovers, Leftover, Astray, EnvironmentComplete, environment, Generation

\* The best-effort pass leaves enough turns.
LEMMA TailKeepsTurns ==
    ASSUME TypeOK, LoneOK, ReconcilesOK, job.by = "recover", job.pc \in EnvPcs, job.tail,
           NextStep, UNCHANGED <<txn, disk, active, environment>>, left'.drift = left.drift
    PROVE  TurnsOK'
<1>1. /\ job'.by = "recover" /\ job'.pc = "observe" /\ ~job'.tail
      /\ Remaining' = Remaining - 1 /\ Remaining' \in Int
    BY ObservesNext
<1>2. /\ active = job.t /\ active # 0 /\ txn[active].state = "COMMITTED"
      /\ Leftover(active) + Astray + 1 <= Remaining
    BY DEF ReconcilesOK
<1>3. active \in Ids
    BY <1>2, BoundsAssumption DEF TypeOK
<1>4. Still(txn)
    <2>1. NonterminalTxns(txn) \subseteq {active}
        BY <1>2 DEF LoneOK, EnvPcs
    <2>2. "COMMITTED" \notin NonterminalStates
        BY DEF NonterminalStates
    <2> QED
        BY <1>2, <2>1, <2>2 DEF Still, InFlight, NonterminalTxns, TypeOK
<1>5. /\ Leftovers' = Leftovers /\ Astray' = Astray /\ active' = active /\ txn' = txn
    BY SameLeftovers
<1>6. Leftovers[active] = Leftover(active) /\ Leftover(active) \in {0, 1} /\ Astray \in {0, 1}
    BY <1>3, TurnTypes
<1>7. PICK k \in Int : k = Remaining'
    BY <1>1
<1>8. Leftovers[active] + Astray <= k /\ 0 <= k
    <2>1. PICK x \in {0, 1}, e \in {0, 1} : x = Leftover(active) /\ e = Astray
        BY <1>6
    <2>2. PICK p \in Int : p = Remaining
        BY TurnTypes
    <2>3. x + e + 1 <= p /\ k = p - 1
        BY <1>1, <1>2, <1>7, <2>1, <2>2
    <2> QED
        BY <1>6, <2>1, <2>3
<1>9. NeedsAtMost(txn, active, Leftovers, Astray, k)
    BY <1>2, <1>4, <1>8, NeedsStill
<1>10. NeedsAtMost(txn, active, Leftovers, Astray, Remaining)'
    BY <1>5, <1>7, <1>9
<1> QED
    BY <1>1, <1>10 DEF TurnsOK, EnvPcs

\* Writing the pointer is one turn.
LEMMA PointKeepsTurns ==
    ASSUME TypeOK, TurnsOK, WriteActive
    PROVE  TurnsOK'
<1> SUFFICES ASSUME job'.by = "recover" PROVE TurnsOK'
    BY DEF TurnsOK
<1>1. ~ReturnError
    BY LockFields DEF ReturnError, Release
<1>2. job.by = "recover" /\ NextStep /\ active' = job.t
    BY <1>1, GotoFields DEF WriteActive
<1>3. job.pc = "point" /\ UNCHANGED <<txn, disk, left>>
    BY <1>1 DEF WriteActive, outside
<1>4. PICK t \in Ids : /\ t = job.t /\ Lone(txn, t) /\ txn[t].state = "ACTIVATING"
                       /\ Leftover(t) + 2 <= Remaining
    BY <1>2, <1>3 DEF TurnsOK
<1>5. /\ job'.by = "recover" /\ job'.pc = "observe" /\ ~job'.tail
      /\ Remaining' = Remaining - 1 /\ Remaining' \in Int
    BY <1>2, <1>3, ObservesNext
<1>6. PICK p \in Int, k \in Int : p = Remaining /\ k = Remaining' /\ k = p - 1
    BY <1>5, TurnTypes
<1>7. PICK x \in {0, 1} : x = Leftover(t)
    BY TurnTypes
<1>8. PICK l : l = Leftovers'
    OBVIOUS
<1>9. l[t] = x
    BY <1>3, <1>7, <1>8 DEF Leftovers, Leftover
<1>10. x + 2 <= p
    BY <1>4, <1>6, <1>7
<1>11. NeedsAtMost(txn, t, l, Astray', k)
    <2>1. l[t] + 1 <= k /\ 0 <= k
        BY <1>6, <1>9, <1>10
    <2> QED
        BY <1>4, <2>1, NeedsLone DEF FailableStates
<1>12. NeedsAtMost(txn, active, Leftovers, Astray, Remaining)'
    BY <1>2, <1>3, <1>4, <1>6, <1>8, <1>11
<1> QED
    BY <1>5, <1>12 DEF TurnsOK, EnvPcs

\* Recording the change of a directory is the turn it was counted for.
LEMMA PersistKeepsTurns ==
    ASSUME TypeOK, TurnsOK, RecoverPersist, job.by = "recover"
    PROVE  TurnsOK'
<1>1. /\ job.pc = "persist" /\ NextStep /\ UNCHANGED <<disk, active, environment, left>>
    BY DEF RecoverPersist, outside
<1>2. txn' = Persisted
    BY Zenon DEF RecoverPersist, Persisted, SaveState
<1>3. /\ job'.by = "recover" /\ job'.pc = "observe" /\ ~job'.tail
      /\ Remaining' = Remaining - 1 /\ Remaining' \in Int
    BY <1>1, ObservesNext
<1>4. NeedsAtMost(Persisted, active, Leftovers, Astray, Remaining - 1)
    BY <1>1 DEF TurnsOK
<1>5. NeedsAtMost(txn, active, Leftovers, Astray, Remaining)'
    BY <1>1, <1>2, <1>3, <1>4, SameLeftovers
<1> QED
    BY <1>3, <1>5 DEF TurnsOK, EnvPcs

\* No turn passes.
LEMMA NoTurnPasses ==
    ASSUME job'.step = job.step, left'.drift = left.drift
    PROVE  Remaining' = Remaining
BY DEF Remaining

\* The environment does not get further from what active.json wants.
LEMMA ReconcilingStep ==
    ASSUME TypeOK, ReconcilesOK, UNCHANGED <<disk, active>>, job'.t = job.t,
           job'.step = job.step, left'.drift = left.drift, job'.pc \in EnvPcs \cup {"gc"},
           txn'[active].state = "COMMITTED"
             \/ (txn' = txn /\ job.pc # "gc" /\ ~job.tail /\ job'.pc # "gc" /\ ~job'.tail),
           job'.pc = "path" => job'.plan = KeepPath \/ job'.plan.first = active,
           Generation(active) = "sealed" \/ job.pc # "home" \/ job.tail,
           Astray' <= Astray,
           (job'.pc = "gc" \/ job'.tail) => job.pc = "gc" \/ job.tail \/ Astray' = 0
    PROVE  ReconcilesOK'
<1>1. Remaining' = Remaining /\ Remaining \in Int
    BY NoTurnPasses, TurnTypes
<1>2. active = job.t /\ active # 0 /\ active' = active
    BY DEF ReconcilesOK
<1>3. PICK x \in {0, 1} : x = Leftover(active) /\ x = Leftover(active)'
    BY DEF Leftover
<1>4. PICK e \in {0, 1} : e = Astray
    BY TurnTypes
<1>5. PICK f \in {0, 1} : f = Astray'
    BY DEF Astray
<1>6. PICK p \in Int : p = Remaining
    BY <1>1
<1>7. x + (IF job.pc = "gc" \/ job.tail THEN e ELSE 0) + 1 <= p
    BY <1>3, <1>4, <1>6 DEF ReconcilesOK
<1>8. f <= e /\ ((job'.pc = "gc" \/ job'.tail) => job.pc = "gc" \/ job.tail \/ f = 0)
    BY <1>4, <1>5
<1>9. x + (IF job'.pc = "gc" \/ job'.tail THEN f ELSE 0) + 1 <= p
    BY <1>7, <1>8
<1>10. txn'[active].state = "COMMITTED"
         \/ (~(job'.pc = "gc" \/ job'.tail) /\ txn'[active].state = "ACTIVATING")
    BY DEF ReconcilesOK
<1>11. Leftover(active)' + (IF job'.pc = "gc" \/ job'.tail THEN Astray' ELSE 0) + 1 <= Remaining'
    BY <1>1, <1>3, <1>5, <1>6, <1>9
<1> QED
    BY <1>2, <1>10, <1>11 DEF ReconcilesOK

\* What each step of reconciliation changes of the lock.
LEMMA MoveFields ==
    ASSUME TypeOK
    PROVE  /\ \A pc : Goto(pc) => job'.step = job.step /\ job'.tail = job.tail /\ job'.plan = job.plan
           /\ job' = [job EXCEPT !.pc = "home", !.tail = TRUE] => job'.step = job.step /\ job'.tail
           /\ \A p : job' = [job EXCEPT !.pc = "path", !.plan = p]
                       => job'.step = job.step /\ job'.tail = job.tail /\ job'.plan = p
BY DEF Goto, TypeOK, Jobs

\* Planning and writing HERMES_HOME.
LEMMA HomeKeepsTurns ==
    ASSUME TypeOK, TurnsOK, LoneOK, WhoOK, ReconcileHome
    PROVE  TurnsOK'
<1> SUFFICES ASSUME job'.by = "recover" PROVE TurnsOK'
    BY DEF TurnsOK
<1>1. ~ReturnError /\ ~Release
    BY LockFields DEF ReturnError, Release
<1>2. job.pc = "home" /\ UNCHANGED <<txn, disk, active, path, left>>
    BY DEF ReconcileHome, outside
<1>3. \/ job.tail /\ EndTail /\ UNCHANGED home
      \/ \E p \in {KeepPath} \cup {PathPlan(b) : b \in BOOLEAN} :
            /\ job' = [job EXCEPT !.pc = "path", !.plan = p]
            /\ Generation(active) = "sealed" /\ home' = TRUE
    <2> DEFINE allowStale == job.tail \/ HasCommitted
               refused == \/ job.by = "worker" /\ job.w \in cancelled /\ ~job.tail
                          \/ txn[job.t].state \notin {"ACTIVATING", "COMMITTED"}
                          \/ txn[job.t].state = "ACTIVATING" /\ active # job.t
                          \/ active = 0
                          \/ active # 0 /\ Generation(active) # "sealed"
               p == IF PathPlan(allowStale) = path THEN KeepPath ELSE PathPlan(allowStale)
    <2>1. CASE refused
        BY <1>1, <2>1 DEF ReconcileHome
    <2>2. CASE ~refused
        <3>1. job' = [job EXCEPT !.pc = "path", !.plan = p] /\ home' = TRUE
            BY Zenon, <2>2 DEF ReconcileHome
        <3>2. Generation(active) = "sealed"
            BY <2>2
        <3>3. allowStale \in BOOLEAN
            BY DEF TypeOK, Jobs, HasCommitted
        <3>4. p \in {KeepPath} \cup {PathPlan(b) : b \in BOOLEAN}
            BY Zenon, <3>3
        <3> QED
            BY Zenon, <3>1, <3>2, <3>4
    <2> QED
        BY <2>1, <2>2
<1>4. CASE job.tail /\ EndTail /\ UNCHANGED home
    <2>1. NextStep /\ job.by = "recover"
        BY <1>1, <1>4 DEF EndTail
    <2>2. ReconcilesOK
        BY <1>2, <2>1 DEF TurnsOK, WhoOK, EnvPcs
    <2> QED
        BY <1>2, <1>4, <2>1, <2>2, TailKeepsTurns DEF environment, EnvPcs
<1>5. CASE \E p \in {KeepPath} \cup {PathPlan(b) : b \in BOOLEAN} :
              /\ job' = [job EXCEPT !.pc = "path", !.plan = p]
              /\ Generation(active) = "sealed" /\ home' = TRUE
    <2>1. PICK p \in {KeepPath} \cup {PathPlan(b) : b \in BOOLEAN} :
              /\ job' = [job EXCEPT !.pc = "path", !.plan = p]
              /\ Generation(active) = "sealed" /\ home' = TRUE
        BY <1>5
    <2>2. p = KeepPath \/ p.first = active
        BY DEF PathPlan
    <2>3. /\ job'.by = job.by /\ job'.pc = "path" /\ job'.t = job.t /\ job'.prev = job.prev
          /\ job'.step = job.step /\ job'.tail = job.tail /\ job'.plan = p
        BY <2>1, PlanFields, MoveFields
    <2>4. ReconcilesOK
        BY <1>2, <2>3 DEF TurnsOK, WhoOK, EnvPcs
    <2>5. Astray' <= Astray
        BY <1>2, <2>1 DEF Astray, EnvironmentComplete
    <2>6. txn'[active].state = "COMMITTED"
             \/ (txn' = txn /\ job.pc # "gc" /\ ~job.tail /\ job'.pc # "gc" /\ ~job'.tail)
        BY <1>2, <2>3, <2>4 DEF ReconcilesOK
    <2>7. ReconcilesOK'
        BY <1>2, <2>1, <2>2, <2>3, <2>4, <2>5, <2>6, ReconcilingStep DEF EnvPcs
    <2> QED
        BY <2>3, <2>7 DEF TurnsOK
<1> QED
    BY <1>3, <1>4, <1>5

\* Writing PATH.
LEMMA PathKeepsTurns ==
    ASSUME TypeOK, TurnsOK, WhoOK, ReconcilePath
    PROVE  TurnsOK'
<1> SUFFICES ASSUME job'.by = "recover" PROVE TurnsOK'
    BY DEF TurnsOK
<1>1. /\ job.pc = "path" /\ Goto("readback") /\ UNCHANGED <<txn, disk, active, home, left>>
      /\ path' = IF job.plan = KeepPath THEN path ELSE job.plan
    BY DEF ReconcilePath, outside
<1>2. /\ job'.by = job.by /\ job'.pc = "readback" /\ job'.t = job.t
      /\ job'.step = job.step /\ job'.tail = job.tail
    BY <1>1, GotoFields, MoveFields
<1>3. ReconcilesOK
    BY <1>1, <1>2 DEF TurnsOK, WhoOK, EnvPcs
<1>4. path' = path \/ path'.first = active
    BY <1>1, <1>3 DEF ReconcilesOK
<1>5. Astray' <= Astray
    BY <1>1, <1>4 DEF Astray, EnvironmentComplete
<1>6. txn'[active].state = "COMMITTED"
         \/ (txn' = txn /\ job.pc # "gc" /\ ~job.tail /\ job'.pc # "gc" /\ ~job'.tail)
    BY <1>1, <1>2, <1>3 DEF ReconcilesOK
<1>7. ReconcilesOK'
    BY <1>1, <1>2, <1>3, <1>5, <1>6, ReconcilingStep DEF EnvPcs
<1> QED
    BY <1>2, <1>7 DEF TurnsOK

\* Reading back, and recording COMMITTED.
LEMMA ReadbackKeepsTurns ==
    ASSUME TypeOK, TurnsOK, LoneOK, WhoOK, ReconcileReadback
    PROVE  TurnsOK'
<1> SUFFICES ASSUME job'.by = "recover" PROVE TurnsOK'
    BY DEF TurnsOK
<1>1. ~ReturnError /\ ~Release
    BY LockFields DEF ReturnError, Release
<1>2. job.pc = "readback" /\ UNCHANGED <<disk, active, environment, left>>
    BY DEF ReconcileReadback, outside
<1>3. \/ job.tail /\ EndTail /\ UNCHANGED txn
      \/ EnvironmentComplete /\ ~job.tail /\ SaveState(job.t, "COMMITTED") /\ Goto("gc")
      \/ /\ EnvironmentComplete /\ ~job.tail /\ txn[job.t].state # "ACTIVATING"
         /\ job' = [job EXCEPT !.pc = "home", !.tail = TRUE] /\ UNCHANGED txn
    BY <1>1 DEF ReconcileReadback
<1>4. CASE job.tail /\ EndTail /\ UNCHANGED txn
    <2>1. NextStep /\ job.by = "recover"
        BY <1>1, <1>4 DEF EndTail
    <2>2. ReconcilesOK
        BY <1>2, <2>1 DEF TurnsOK, WhoOK, EnvPcs
    <2> QED
        BY <1>2, <1>4, <2>1, <2>2, TailKeepsTurns DEF EnvPcs
<1>5. Astray' = Astray /\ (EnvironmentComplete => Astray' = 0) /\ Astray \in {0, 1}
    BY <1>2, SameLeftovers DEF Astray
<1>6. CASE EnvironmentComplete /\ ~job.tail /\ SaveState(job.t, "COMMITTED") /\ Goto("gc")
    <2>1. /\ job'.by = job.by /\ job'.pc = "gc" /\ job'.t = job.t
          /\ job'.step = job.step /\ job'.tail = job.tail
        BY <1>6, GotoFields, MoveFields
    <2>2. ReconcilesOK
        BY <1>2, <2>1 DEF TurnsOK, WhoOK, EnvPcs
    <2>3. active \in Ids /\ active = job.t
        BY <2>2, BoundsAssumption DEF ReconcilesOK, TypeOK
    <2>4. txn'[active].state = "COMMITTED"
        BY <1>6, <2>3 DEF SaveState, TypeOK, TxnRecords
    <2>5. ReconcilesOK'
        BY <1>2, <1>5, <1>6, <2>1, <2>2, <2>4, ReconcilingStep DEF EnvPcs
    <2> QED
        BY <2>1, <2>5 DEF TurnsOK
<1>7. CASE /\ EnvironmentComplete /\ ~job.tail /\ txn[job.t].state # "ACTIVATING"
           /\ job' = [job EXCEPT !.pc = "home", !.tail = TRUE] /\ UNCHANGED txn
    <2>1. /\ job'.by = job.by /\ job'.pc = "home" /\ job'.t = job.t
          /\ job'.step = job.step /\ job'.tail
        BY <1>7, TailFields, MoveFields
    <2>2. ReconcilesOK
        BY <1>2, <2>1 DEF TurnsOK, WhoOK, EnvPcs
    <2>3. txn'[active].state = "COMMITTED"
        BY <1>7, <2>2 DEF ReconcilesOK
    <2>4. ReconcilesOK'
        BY <1>2, <1>5, <1>7, <2>1, <2>2, <2>3, ReconcilingStep DEF EnvPcs
    <2> QED
        BY <2>1, <2>4 DEF TurnsOK
<1> QED
    BY <1>3, <1>4, <1>6, <1>7

\* Collection leaves no more leftovers, also where it stops half way.
LEMMA GarbageLeavesLess ==
    ASSUME TypeOK, SparesOK, LoneOK, MovedOK, job.pc = "gc", job.by = "recover",
           NEW p \in Places, NEW t \in Ids, <<p, t>> \in Garbage, NEW tree, SetTree(p, t, tree)
    PROVE  \A u \in Ids : Leftover(u)' <= Leftover(u)
<1>1. disk[p][t] \in {"candidate", "sealed", "remnant"}
    BY GarbageProven
<1>2. disk' = [disk EXCEPT ![p][t] = tree]
    BY DEF SetTree
<1>3. ASSUME NEW u \in Ids, <<"staging", u>> # <<p, t>> PROVE disk'["staging"][u] = disk["staging"][u]
    BY <1>2, <1>3 DEF TypeOK
<1>4. ASSUME NEW u \in Ids PROVE Leftover(u)' <= Leftover(u)
    <2>1. CASE <<"staging", u>> = <<p, t>>
        <3>1. Leftover(u) = 1
            BY <1>1, <2>1 DEF Leftover
        <3>2. Leftover(u)' \in {0, 1}
            BY DEF Leftover
        <3> QED
            BY <3>1, <3>2
    <2>2. CASE <<"staging", u>> # <<p, t>>
        BY <1>3, <2>2 DEF Leftover
    <2> QED
        BY <2>1, <2>2
<1> QED
    BY <1>4

\* After collecting, the best-effort pass has turns enough.
LEMMA CollectedKeepsTurns ==
    ASSUME TypeOK, TurnsOK, job.by = "recover", job.pc = "gc", ~Settled(job.prev),
           job' = [job EXCEPT !.pc = "home", !.tail = TRUE],
           UNCHANGED <<txn, active, environment>>, left'.drift = left.drift,
           \A u \in Ids : Leftover(u)' <= Leftover(u)
    PROVE  TurnsOK'
<1>1. job'.by = job.by /\ job'.pc = "home" /\ job'.t = job.t /\ job'.step = job.step /\ job'.tail
    BY TailFields, MoveFields
<1>2. Remaining' = Remaining /\ Remaining \in Int
    BY <1>1, NoTurnPasses, TurnTypes
<1>3. ReconcilesOK
    BY DEF TurnsOK
<1>4. /\ active = job.t /\ active # 0 /\ active \in Ids /\ txn[active].state = "COMMITTED"
      /\ Leftover(active) + Astray + 1 <= Remaining
    BY <1>3, BoundsAssumption DEF ReconcilesOK, TypeOK
<1>5. Astray' = Astray
    BY DEF Astray, EnvironmentComplete, environment
<1>6. PICK x \in {0, 1} : x = Leftover(active)
    BY DEF Leftover
<1>7. PICK y \in {0, 1} : y = Leftover(active)'
    BY DEF Leftover
<1>8. y <= x
    <2>1. PICK a \in Ids : a = active /\ a = active'
        BY <1>4
    <2>2. Leftover(a)' <= Leftover(a)
        OBVIOUS
    <2>3. x = Leftover(a)
        BY <1>6, <2>1
    <2>4. y = Leftover(a)'
        BY <1>7, <2>1 DEF Leftover
    <2> QED
        BY <2>2, <2>3, <2>4
<1>9. PICK e \in {0, 1} : e = Astray
    BY TurnTypes
<1>10. PICK p \in Int : p = Remaining
    BY <1>2
<1>11. y + e + 1 <= p
    BY <1>4, <1>6, <1>8, <1>9, <1>10
<1>12. Leftover(active)' + Astray' + 1 <= Remaining'
    BY <1>2, <1>5, <1>7, <1>9, <1>10, <1>11
<1>13. ReconcilesOK'
    BY <1>1, <1>4, <1>12 DEF ReconcilesOK
<1> QED
    BY <1>1, <1>13 DEF TurnsOK

\* A crash gives recovery all its turns.
LEMMA CrashKeepsTurns ==
    ASSUME TypeOK, TypeOK', left'.drift <= MaxDrifts, job' = Recovering
    PROVE  TurnsOK'
<1>1. job'.pc = "observe" /\ job'.step = 0 /\ ~job'.tail
    BY DEF Recovering, Idle
<1>2. left'.drift \in Nat /\ MaxDrifts \in Nat
    BY BoundsAssumption DEF TypeOK
<1>3. PICK k \in Int : k = Remaining' /\ 5 <= k
    BY <1>1, <1>2 DEF Remaining
<1>4. PICK l \in [Ids -> {0, 1}] : l = Leftovers'
    BY DEF Leftovers, Leftover
<1>5. PICK e \in {0, 1} : e = Astray'
    BY DEF Astray
<1>6. active' \in 0..N
    BY DEF TypeOK
<1>7. NeedsAtMost(txn', active', l, e, k)
    BY <1>3, <1>6, FiveTurns
<1>8. NeedsAtMost(txn, active, Leftovers, Astray, Remaining)'
    BY <1>3, <1>4, <1>5, <1>7
<1> QED
    BY <1>1, <1>8 DEF TurnsOK, EnvPcs

\* One turn of the loop.
LEMMA ObservationKeepsTurns ==
    ASSUME TypeOK, TurnsOK, WhoOK, RecoverStep
    PROVE  TurnsOK'
<1> SUFFICES ASSUME job'.by = "recover" PROVE TurnsOK'
    BY DEF TurnsOK
<1> DEFINE d == DecideRecovery(Observation)
<1>1. /\ job.pc = "observe" /\ job.by = "recover" /\ ~RecoverBlock
      /\ UNCHANGED <<active, environment, left>>
    BY LockFields DEF RecoverStep, RecoverBlock, Release, WhoOK, outside
<1>2. /\ ~job.tail
      /\ NeedsAtMost(txn, active, Leftovers, Astray, Remaining)
    BY <1>1 DEF TurnsOK
<1>3. \/ Settled(d) /\ RecoverSettle(d)
      \/ /\ d.action # "BLOCK_UNSAFE" /\ ~Settled(d)
         /\ \/ RecoverTree(d, Primary)
            \/ d.action \notin TreeActions /\ RecoverRecord(d, Primary)
    BY <1>1 DEF RecoverStep
<1>4. CASE Settled(d) /\ RecoverSettle(d)
    <2>1. job'.pc = "gc" /\ job'.prev = d
        BY <1>4 DEF RecoverSettle, TypeOK, Jobs
    <2> QED
        BY <1>4, <2>1 DEF TurnsOK
<1>5. ASSUME d.action # "BLOCK_UNSAFE", ~Settled(d) PROVE Undertaken(d)
    BY <1>5, DecisionKnown DEF Known, Ends
<1>6. CASE d.action # "BLOCK_UNSAFE" /\ ~Settled(d) /\ RecoverTree(d, Primary)
    <2>1. NeedsAtMost(Persisted, active, Leftovers, Astray, Remaining - 1)'
        BY <1>1, <1>2, <1>5, <1>6, TreeTakesTurn
    <2>2. job'.pc = "persist" /\ job'.tail = job.tail
        BY <1>6 DEF RecoverTree, TypeOK, Jobs
    <2> QED
        BY <1>2, <2>1, <2>2 DEF TurnsOK, EnvPcs
<1>7. CASE /\ d.action # "BLOCK_UNSAFE" /\ ~Settled(d)
           /\ d.action \notin TreeActions /\ RecoverRecord(d, Primary)
    BY <1>1, <1>2, <1>5, <1>7, RecordKeepsTurns
<1> QED
    BY <1>3, <1>4, <1>6, <1>7

\* A step beside recovery gives it no more to do, except an edit of the
\* registry, which is made up for.
LEMMA StepIsAside ==
    ASSUME AnyInv, AnyInv', job.by = "recover", job' = job,
           Aside \/ \E p \in Places, t \in Ids : CollectTree(p, t)
    PROVE  StepsAside
<1> USE DEF AnyInv
<1>1. \A t \in Ids : pend[t] = "none"
    BY DEF WhoOK
<1>2. Remaining \in Int /\ Astray \in {0, 1} /\ \A t \in Ids : Leftover(t) \in {0, 1}
    BY TurnTypes
<1>3. ASSUME UNCHANGED <<txn, disk, active, environment, left>> PROVE StepsAside
    <2>1. Remaining' = Remaining
        BY <1>3, NoTurnPasses
    <2> QED
        BY <1>2, <1>3, <2>1, SameLeftovers DEF StepsAside
<1>4. CASE Drift
    <2>1. UNCHANGED <<txn, disk, active>> /\ left'.drift = left.drift - 1
        BY <1>4 DEF Drift, TypeOK
    <2>2. left.drift \in Int /\ job.step \in Int /\ MaxDrifts \in Int
        BY StepIsNumber, BoundsAssumption DEF TypeOK
    <2>3. Remaining' = Remaining + 1
        BY <2>1, <2>2 DEF Remaining
    <2>4. Astray' \in {0, 1}
        BY DEF Astray
    <2>5. \A t \in Ids : Leftover(t)' = Leftover(t)
        BY <2>1 DEF Leftover
    <2>6. Generation(active)' = Generation(active)
        BY <2>1 DEF Generation
    <2>7. Remaining <= Remaining' /\ Remaining + Astray' <= Remaining' + Astray
        <3>1. PICK p \in Int : p = Remaining
            BY <1>2
        <3>2. PICK e \in {0, 1} : e = Astray
            BY <1>2
        <3>3. PICK f \in {0, 1} : f = Astray'
            BY <2>4
        <3>4. p <= p + 1 /\ p + f <= (p + 1) + e
            <4>1. f <= 1 /\ 0 <= e
                OBVIOUS
            <4> QED
                BY <4>1
        <3> QED
            BY <2>3, <3>1, <3>2, <3>3, <3>4
    <2> QED
        BY <1>2, <2>1, <2>5, <2>6, <2>7 DEF StepsAside
<1>5. CASE Damage
    <2>1. PICK tree \in {"remnant", "unproven"} : SetTree("generations", active, tree)
        BY <1>5 DEF Damage
    <2>2. UNCHANGED <<txn, active, environment, left>>
        BY <1>5 DEF Damage
    <2>3. active \in Ids
        BY <1>5, BoundsAssumption DEF Damage, TypeOK
    <2>4. disk' = [disk EXCEPT !["generations"][active] = tree]
        BY <2>1 DEF SetTree
    <2>5. \A t \in Ids : disk'["staging"][t] = disk["staging"][t]
        BY <2>4 DEF TypeOK
    <2>6. disk'["generations"][active] = tree
        BY <2>3, <2>4 DEF TypeOK
    <2>7. Generation(active)' # "sealed"
        BY <2>2, <2>6 DEF Generation
    <2>8. \A t \in Ids : Leftover(t)' = Leftover(t)
        BY <2>5 DEF Leftover
    <2>9. Astray' = Astray
        BY <2>2 DEF Astray, EnvironmentComplete, environment
    <2>10. Remaining' = Remaining
        BY <2>2, NoTurnPasses
    <2> QED
        BY <1>2, <2>2, <2>7, <2>8, <2>9, <2>10 DEF StepsAside
<1>6. ASSUME NEW p \in Places, NEW t \in Ids, CollectTree(p, t) PROVE StepsAside
    <2>1. job.pc = "gc" /\ <<p, t>> \in Garbage /\ SetTree(p, t, "absent")
          /\ UNCHANGED <<txn, active, environment, left>>
        BY <1>6 DEF CollectTree, outside
    <2>2. \A u \in Ids : Leftover(u)' <= Leftover(u)
        BY <2>1, GarbageLeavesLess
    <2>3. Astray' = Astray
        BY <2>1 DEF Astray, EnvironmentComplete, environment
    <2>4. Remaining' = Remaining
        BY <2>1, NoTurnPasses
    <2>5. Generation(active)' = "sealed" => Generation(active) = "sealed"
        <3>1. disk' = [disk EXCEPT ![p][t] = "absent"]
            BY <2>1 DEF SetTree
        <3>2. CASE active = 0
            BY <2>1, <3>1, <3>2, BoundsAssumption DEF Generation, TypeOK
        <3>3. CASE active \in Ids
            BY <2>1, <3>3, SetTreeEffect
        <3> QED
            BY <3>2, <3>3, BoundsAssumption DEF TypeOK
    <2> QED
        BY <1>2, <2>1, <2>2, <2>3, <2>4, <2>5 DEF StepsAside
<1>7. CASE Aside /\ ~Drift /\ ~Damage
    BY <1>1, <1>3, <1>7
    DEF Aside, RejectInvalidPointer, AdmitStart, RefuseStart, vars, outside, CancelContext,
        StartSpawn, MarkTransactionFailed, SetInstallIdentity, WorkerLock, WorkerQuit, environment
<1> QED
    BY <1>4, <1>5, <1>6, <1>7

\* A fault that does not end a recovery leaves it turns enough.
LEMMA FaultKeepsTurns ==
    ASSUME AnyInv, TurnsOK, IOFault
    PROVE  TurnsOK'
<1> USE DEF AnyInv
<1> SUFFICES ASSUME job'.by = "recover" PROVE TurnsOK'
    BY DEF TurnsOK
<1>1. ~ReturnError /\ ~Release /\ job' # Idle
    BY LockFields DEF ReturnError, Release
<1>2. /\ UNCHANGED <<txn, active, environment>> /\ left'.drift = left.drift
    BY DEF IOFault, TypeOK
<1>3. \A pc : Goto(pc) => job'.by = job.by
    BY GotoFields
<1>4. \/ /\ job.pc \in {"mkdir", "build", "seal", "candidate", "record"} /\ Goto("fail")
      \/ /\ job.pc = "gc" /\ job' = [job EXCEPT !.pc = "home", !.tail = TRUE]
         /\ ~(job.by = "recover" /\ Settled(job.prev))
         /\ UNCHANGED disk \/ InterruptCollect
      \/ job.pc \in EnvPcs /\ job.tail /\ EndTail /\ UNCHANGED disk
    BY <1>1 DEF IOFault
<1>5. CASE job.pc \in {"mkdir", "build", "seal", "candidate", "record"} /\ Goto("fail")
    BY <1>3, <1>5 DEF WhoOK, WorkerPcs
<1>6. CASE /\ job.pc = "gc" /\ job' = [job EXCEPT !.pc = "home", !.tail = TRUE]
           /\ ~(job.by = "recover" /\ Settled(job.prev))
           /\ UNCHANGED disk \/ InterruptCollect
    <2>1. job.by = "recover" /\ ~Settled(job.prev)
        BY <1>6, TailFields
    <2>2. \A u \in Ids : Leftover(u)' <= Leftover(u)
        <3>1. CASE UNCHANGED disk
            BY <3>1 DEF Leftover
        <3>2. CASE InterruptCollect
            <4>1. PICK pt \in Garbage : \E tree \in HalfDeleted(disk[pt[1]][pt[2]]) :
                                            SetTree(pt[1], pt[2], tree)
                BY <3>2 DEF InterruptCollect
            <4>2. pt \in Places \X Ids
                BY DEF Garbage, ProvenTrees
            <4>3. PICK p \in Places, t \in Ids : pt = <<p, t>>
                BY <4>2
            <4>4. PICK tree : SetTree(p, t, tree)
                BY <4>1, <4>3
            <4> QED
                BY <1>6, <2>1, <4>3, <4>4, GarbageLeavesLess
        <3> QED
            BY <1>6, <3>1, <3>2
    <2> QED
        BY <1>2, <1>6, <2>1, <2>2, CollectedKeepsTurns
<1>7. CASE job.pc \in EnvPcs /\ job.tail /\ EndTail /\ UNCHANGED disk
    <2>1. NextStep /\ job.by = "recover"
        BY <1>1, <1>7 DEF EndTail
    <2>2. ReconcilesOK
        BY <1>7, <2>1 DEF TurnsOK, WhoOK
    <2> QED
        BY <1>2, <1>7, <2>1, <2>2, TailKeepsTurns
<1> QED
    BY <1>4, <1>5, <1>6, <1>7

\* Every step leaves a recovery turns enough.
LEMMA StepKeepsTurns ==
    ASSUME AnyInv, TurnsOK, [Next]_vars
    PROVE  TurnsOK'
<1>0. AnyInv'
    BY StepKeepsAny
<1> USE DEF AnyInv
<1> SUFFICES ASSUME job'.by = "recover" PROVE TurnsOK'
    BY DEF TurnsOK
<1>1. ~ReturnError /\ ~Release /\ job' # Idle
    BY LockFields DEF ReturnError, Release
<1>2. CASE ReconcileHome \/ ReconcilePath \/ ReconcileReadback
    BY <1>2, HomeKeepsTurns, PathKeepsTurns, ReadbackKeepsTurns
<1>3. CASE WriteActive
    BY <1>3, PointKeepsTurns
<1>4. CASE RecoverStep
    BY <1>4, ObservationKeepsTurns
<1>5. CASE RecoverPersist
    BY <1>5, PersistKeepsTurns DEF RecoverPersist, WhoOK
<1>6. CASE IOFault
    BY <1>6, FaultKeepsTurns
<1>7. CASE Crash
    BY <1>0, <1>7, CrashKeepsTurns DEF Crash
<1>8. CASE CollectEnd
    <2>1. job' = [job EXCEPT !.pc = "home", !.tail = TRUE]
          /\ ~(job.by = "recover" /\ Settled(job.prev))
        BY <1>1, <1>8 DEF CollectEnd
    <2>2. job.by = "recover" /\ ~Settled(job.prev)
        BY <2>1, TailFields
    <2>3. job.pc = "gc" /\ UNCHANGED <<txn, disk, active, environment, left>>
        BY <1>8 DEF CollectEnd, outside
    <2>4. \A u \in Ids : Leftover(u)' <= Leftover(u)
        BY <2>3 DEF Leftover
    <2> QED
        BY <2>1, <2>2, <2>3, <2>4, CollectedKeepsTurns
<1>9. CASE job' = job /\ (Aside \/ \E p \in Places, t \in Ids : CollectTree(p, t))
    BY <1>0, <1>9, StepIsAside, AsideKeepsTurns
<1>10. CASE Aside /\ job' # job
    <2>1. \E t \in Ids : WorkerLock(t)
        BY <1>10
        DEF Aside, RejectInvalidPointer, AdmitStart, RefuseStart, Drift, Damage, vars, CancelContext,
            StartSpawn, MarkTransactionFailed, SetInstallIdentity, WorkerQuit
    <2> QED
        BY <1>10, <2>1, LockFields DEF WorkerLock
<1>11. CASE StartLock \/ StartCreate
    BY <1>1, <1>11, LockFields DEF StartLock, StartCreate
<1>12. CASE SealLoad \/ CreateGeneration \/ CandidateTemp \/ CandidateRecord \/ Build \/ Seal
            \/ PersistSealed \/ Publish \/ MarkActivating \/ Fail
    <2>1. job.by = "worker"
        BY <1>12
        DEF SealLoad, CreateGeneration, CandidateTemp, CandidateRecord, Build, Seal, PersistSealed,
            Publish, MarkActivating, Fail, WhoOK, WorkerPcs
    <2>2. CASE SealLoad
        BY <1>1, <2>1, <2>2 DEF SealLoad, TypeOK, Jobs
    <2> QED
        BY <1>1, <1>12, <2>1, <2>2, GotoFields
        DEF CreateGeneration, CandidateTemp, CandidateRecord, Build, Seal, PersistSealed, Publish,
            MarkActivating, Fail
<1>13. ASSUME NEW p \in Places, NEW t \in Ids, CollectTree(p, t) PROVE job' = job
    BY <1>13 DEF CollectTree
<1> QED
    BY <1>2, <1>3, <1>4, <1>5, <1>6, <1>7, <1>8, <1>9, <1>10, <1>11, <1>12, <1>13
    DEF Next, Request, Daemon, Trouble, Handler, Worker, Reconcile, Collect, Recovery, Aside

\* The first recovery starts with all its turns.
LEMMA InitTurns == Init => TurnsOK
<1> SUFFICES ASSUME Init PROVE TurnsOK
    OBVIOUS
<1>1. TypeOK
    BY InitType
<1>2. job.pc = "observe" /\ job.step = 0 /\ ~job.tail
    BY DEF Init, Recovering, Idle
<1>3. left.drift = MaxDrifts /\ MaxDrifts \in Nat
    BY BoundsAssumption DEF Init
<1>4. Remaining = 5
    BY <1>2, <1>3 DEF Remaining
<1>5. PICK k \in Int : k = Remaining /\ 5 <= k
    BY <1>4
<1>6. Leftovers \in [Ids -> {0, 1}] /\ Astray \in {0, 1} /\ active \in 0..N
    BY <1>1, TurnTypes DEF TypeOK
<1>7. NeedsAtMost(txn, active, Leftovers, Astray, Remaining)
    BY <1>5, <1>6, FiveTurns
<1> QED
    BY <1>2, <1>7 DEF TurnsOK, EnvPcs

\* Whatever disk a restart finds, and whatever crashes, fails or is damaged
\* meanwhile, the limit of RecoverWith's loop blocks no recovery as long as no
\* more than two edits of the registry were made: five turns are always enough,
\* and only such an edit asks for another.
THEOREM StepsStayWithinLimit == Spec => [](left.drift + 2 >= MaxDrifts => StepsWithinLimit)
<1>1. AnyInv /\ TurnsOK => (left.drift + 2 >= MaxDrifts => StepsWithinLimit)
    <2> SUFFICES ASSUME AnyInv, TurnsOK, left.drift + 2 >= MaxDrifts PROVE job.step < MaxRecoverSteps
        BY DEF StepsWithinLimit
    <2> USE DEF AnyInv
    <2>1. CASE job.pc = "observe"
        <3>1. job.by = "recover"
            BY <2>1 DEF WhoOK
        <3>2. 0 <= Remaining
            BY <2>1, <3>1 DEF TurnsOK, NeedsAtMost
        <3>3. job.step \in Int /\ left.drift \in Int /\ MaxDrifts \in Int
            BY StepIsNumber, BoundsAssumption DEF TypeOK
        <3> QED
            BY <3>2, <3>3 DEF Remaining
    <2> QED
        BY <2>1 DEF StepOK
<1>2. AnyInv /\ TurnsOK /\ [Next]_vars => (AnyInv /\ TurnsOK)'
    BY StepKeepsAny, StepKeepsTurns
<1>3. Init => AnyInv /\ TurnsOK
    BY InitAny, InitTurns
<1> QED
    BY <1>1, <1>2, <1>3, PTL DEF Spec

-----------------------------------------------------------------------------
(* What recovery refuses.                                                  *)
(*                                                                         *)
(* On a disk this version began, what a record says of its tree (TreesOK)  *)
(* leaves decideOne nothing to refuse but two windows, and what a turn     *)
(* executed (PastOK) is never decided again, so ForwardOrNoop refuses      *)
(* nothing.                                                                *)

\* What the tree and the predecessor of a record are, by its state.
TreeOK(t) ==
    LET s == txn[t].state IN
    /\ s # "INVALID"
    /\ s = "CREATED" => Generation(t) = "absent"
    /\ s = "BUILDING" => Generation(t) \in {"absent", "empty", "unproven", "candidate", "sealed"}
    /\ s \in {"SEALED", "PUBLISHED", "ACTIVATING"} => Generation(t) = "sealed" /\ txn[t].seal
    /\ s \in {"CREATED", "BUILDING", "SEALED", "PUBLISHED"} => txn[t].before = 0
    /\ s = "ACTIVATING" /\ active # t => txn[t].before = active
TreesOK ==
    /\ \A t \in Ids : TreeOK(t)
    /\ job.pc = "sealed" => Generation(job.t) = "sealed"

\* What a recovery executed last is nothing it could decide again.
Nowhere(states) == \A t \in Ids : txn[t].state \notin states
PastOK ==
    job.by = "recover" =>
       /\ admitted = 0
       /\ job.pc \in EnvPcs \cup {"gc"} /\ ~Settled(job.prev) => job.prev.action = "RECONCILE_ENV"
       /\ job.prev.action = "PERSIST_PUBLISHED" => Nowhere({"SEALED"})
       /\ job.prev.action = "PERSIST_ACTIVATING" => Nowhere({"PUBLISHED"})
       /\ job.prev.action = "COMMIT" => Nowhere({"ACTIVATING"})
       /\ job.prev.action = "ACTIVATE" /\ job.pc # "point"
             => \A t \in Ids : txn[t].state = "ACTIVATING" => active = t
       /\ job.prev.action = "REMOVE_EMPTY_GENERATION" /\ job.pc # "persist" => Nowhere(FailableStates)

\* Working storage, and no more edits of the registry than recovery has turns for.
Few == NoFaultYet /\ left.drift + 2 >= MaxDrifts

\* The two windows.
Window ==
    \E t \in Ids : \/ txn[t].state = "BUILDING" /\ Generation(t) = "unproven"
                   \/ txn[t].state = "PUBLISHED" /\ txn[t].before = 0 /\ active # 0

\* Behind a gate that recovery closed nothing moves; active.json that does not
\* verify, for which a request closed it, never verifies again.
AllStill == job.by = "none" /\ admitted = 0 /\ \A t \in Ids : pend[t] = "none"
RefusedOK ==
    Few /\ gate = "BLOCKED_UNSAFE" /\ ReadActive # "INVALID" => AllStill /\ Window

BlockInv == /\ LInv /\ AnyInv /\ TurnsOK /\ TreesOK /\ PastOK /\ RefusedOK
            /\ left.fault <= MaxFaults

\* Where records, trees and active.json stay, so does what is known of them.
LEMMA SameTrees ==
    ASSUME TreesOK, UNCHANGED <<txn, disk, active>>
    PROVE  \A t \in Ids : TreeOK(t)'
BY DEF TreesOK, TreeOK, Generation

\* A tree that no record in flight needs, or that is being built, may change.
LEMMA TreeChanges ==
    ASSUME TypeOK, TreesOK, UNCHANGED <<txn, active>>,
           NEW p \in Places, NEW u \in Ids, NEW tree, SetTree(p, u, tree),
           p = "generations" =>
               \/ txn[u].state \notin NonterminalStates \cup {"INVALID"}
               \/ txn[u].state = "CREATED" /\ tree = "absent"
               \/ txn[u].state = "BUILDING" /\ tree \in {"absent", "empty", "unproven", "candidate", "sealed"}
    PROVE  \A t \in Ids : TreeOK(t)'
<1>1. \A t \in Ids : Generation(t)' = IF p = "generations" /\ t = u THEN tree ELSE Generation(t)
    BY SetTreeEffect
<1> SUFFICES ASSUME NEW t \in Ids PROVE TreeOK(t)'
    OBVIOUS
<1>2. TreeOK(t)
    BY DEF TreesOK
<1>3. CASE p = "generations" /\ t = u
    BY <1>1, <1>2, <1>3 DEF TreeOK, NonterminalStates
<1>4. CASE ~(p = "generations" /\ t = u)
    BY <1>1, <1>2, <1>4 DEF TreeOK
<1> QED
    BY <1>3, <1>4

\* One record may change to a state its tree allows.
LEMMA RecordChanges ==
    ASSUME TreesOK, UNCHANGED <<disk, active>>,
           NEW u \in Ids, \A v \in Ids \ {u} : txn'[v] = txn[v], TreeOK(u)'
    PROVE  \A t \in Ids : TreeOK(t)'
BY DEF TreesOK, TreeOK, Generation

\* A record that is not in flight asks for nothing.
LEMMA TerminalTree ==
    ASSUME NEW t, txn'[t].state \in TerminalStates
    PROVE  TreeOK(t)'
BY DEF TreeOK, TerminalStates

\* Saving a state leaves the digests and the predecessor of the record.
LEMMA SaveStateKeeps ==
    ASSUME TypeOK, NEW t \in Ids, NEW s, SaveState(t, s)
    PROVE  /\ txn'[t].state = s /\ txn'[t].seal = txn[t].seal /\ txn'[t].before = txn[t].before
           /\ \A u \in Ids \ {t} : txn'[u] = txn[u]
BY DEF SaveState, TypeOK, TxnRecords

\* What collection deletes no record in flight needs.
LEMMA GarbageIsSettled ==
    ASSUME NEW p \in Places, NEW t \in Ids, <<p, t>> \in Garbage, p = "generations"
    PROVE  txn[t].state \notin NonterminalStates \cup {"INVALID"}
<1>1. txn[t].state \in ValidStates
    BY DEF Garbage, ProvenTrees
<1>2. ASSUME txn[t].state \in NonterminalStates PROVE FALSE
    <2>1. <<p, t>> \in {pt \in {"generations", "staging"} \X Ids : txn[pt[2]].state \in NonterminalStates}
        BY <1>2
    <2> QED
        BY <2>1 DEF Garbage, Retained
<1> QED
    BY <1>1, <1>2 DEF ValidStates, TerminalStates, NonterminalStates

\* Nor does an interrupted deletion.
LEMMA InterruptKeepsTrees ==
    ASSUME TypeOK, TreesOK, InterruptCollect, UNCHANGED <<txn, active>>
    PROVE  \A t \in Ids : TreeOK(t)'
<1>1. PICK pt \in Garbage : \E tree \in HalfDeleted(disk[pt[1]][pt[2]]) : SetTree(pt[1], pt[2], tree)
    BY DEF InterruptCollect
<1>2. PICK p \in Places, u \in Ids : pt = <<p, u>>
    BY DEF Garbage, ProvenTrees
<1>3. PICK tree : SetTree(p, u, tree)
    BY <1>1, <1>2
<1>4. p = "generations" => txn[u].state \notin NonterminalStates \cup {"INVALID"}
    BY <1>1, <1>2, GarbageIsSettled
<1> QED
    BY <1>3, <1>4, TreeChanges

\* What a write of recovery leaves of a record and its tree.
LEMMA RecoveryKeepsTrees ==
    ASSUME IInv, TreesOK, RecoverStep
    PROVE  \A t \in Ids : TreeOK(t)'
<1> USE DEF IInv
<1> DEFINE d == DecideRecovery(Observation)
<1>1. DecisionSound(d)
    BY RecoveryDecisionSound
<1>2. active' = active
    BY DEF RecoverStep
<1>3. \/ UNCHANGED <<txn, disk>>
      \/ ~Settled(d) /\ d.action # "BLOCK_UNSAFE" /\ d.action \in TreeActions /\ RecoverTree(d, Primary)
      \/ ~Settled(d) /\ d.action # "BLOCK_UNSAFE" /\ RecoverRecord(d, Primary)
    BY DEF RecoverStep, RecoverSettle, RecoverBlock
<1> HIDE DEF d
<1>4. CASE UNCHANGED <<txn, disk>>
    BY <1>2, <1>4, SameTrees
<1>5. CASE ~Settled(d) /\ d.action # "BLOCK_UNSAFE" /\ d.action \in TreeActions /\ RecoverTree(d, Primary)
    <2>1. d.action = "REMOVE_EMPTY_GENERATION" /\ Primary \in Ids /\ txn[Primary].state \in FailableStates
        BY <1>1, <1>5 DEF DecisionSound, TreeActions
    <2>2. SetTree("generations", Primary, "absent") /\ txn' = txn
        BY <1>5, <2>1 DEF RecoverTree
    <2> QED
        BY <1>2, <2>1, <2>2, TreeChanges DEF FailableStates
<1>6. CASE ~Settled(d) /\ d.action # "BLOCK_UNSAFE" /\ RecoverRecord(d, Primary)
    <2>1. /\ txn' = SavedRecords(d, Primary) /\ disk' = disk
          /\ d.action # "FAIL_FAILABLE_EXTRAS" /\ Primary \in Ids
        BY <1>1, <1>6 DEF RecoverRecord, DecisionSound
    <2>2. PICK u \in Ids : u = Primary
        BY <2>1
    <2>3. TreeOK(u) /\ Generation(u)' = Generation(u)
        BY <2>1 DEF TreesOK, Generation
    <2>4. CASE d.action = "PERSIST_ACTIVATING"
        <3>1. txn' = [txn EXCEPT ![u].state = "ACTIVATING", ![u].before = active]
            BY <2>1, <2>2, <2>4 DEF SavedRecords
        <3>2. txn[u].state = "PUBLISHED"
            BY <1>1, <1>6, <2>2, <2>4 DEF DecisionSound
        <3>3. /\ txn'[u].state = "ACTIVATING" /\ txn'[u].seal = txn[u].seal /\ txn'[u].before = active
              /\ \A v \in Ids \ {u} : txn'[v] = txn[v]
            BY <3>1 DEF TypeOK, TxnRecords
        <3>4. TreeOK(u)'
            BY <1>2, <2>3, <3>2, <3>3 DEF TreeOK
        <3> QED
            BY <1>2, <2>1, <3>3, <3>4, RecordChanges
    <2>5. CASE d.action # "PERSIST_ACTIVATING" /\ d.next # ""
        <3>1. SaveState(u, d.next)
            BY <2>1, <2>2, <2>5 DEF SavedRecords, SaveState
        <3>2. \/ d.next \in TerminalStates
              \/ txn[u].state = "SEALED" /\ d.next = "PUBLISHED"
            BY <1>1, <1>6, <2>2, <2>5 DEF DecisionSound, TerminalStates
        <3>3. /\ txn'[u].state = d.next /\ txn'[u].seal = txn[u].seal /\ txn'[u].before = txn[u].before
              /\ \A v \in Ids \ {u} : txn'[v] = txn[v]
            BY <3>1, SaveStateKeeps
        <3>4. CASE d.next \in TerminalStates
            <4>1. TreeOK(u)'
                BY <3>3, <3>4, TerminalTree
            <4> QED
                BY <1>2, <2>1, <3>3, <4>1, RecordChanges
        <3>5. CASE txn[u].state = "SEALED" /\ d.next = "PUBLISHED"
            <4>1. TreeOK(u)'
                BY <2>3, <3>3, <3>5 DEF TreeOK
            <4> QED
                BY <1>2, <2>1, <3>3, <4>1, RecordChanges
        <3> QED
            BY <3>2, <3>4, <3>5
    <2>6. CASE d.action # "PERSIST_ACTIVATING" /\ d.next = ""
        <3>1. txn' = txn
            BY <2>1, <2>6 DEF SavedRecords
        <3> QED
            BY <1>2, <2>1, <3>1, SameTrees
    <2> QED
        BY <2>4, <2>5, <2>6
<1> QED
    BY <1>3, <1>4, <1>5, <1>6

\* Every step leaves each record the tree its state promises.
LEMMA StepKeepsTreeOK ==
    ASSUME IInv, TreesOK, [Next]_vars
    PROVE  \A t \in Ids : TreeOK(t)'
<1> USE DEF IInv
<1>1. CASE UNCHANGED <<txn, disk, active>>
    BY <1>1, SameTrees
<1>2. CASE StartLock
    <2>1. txn' = FailFailable /\ UNCHANGED <<disk, active>>
        BY <1>2 DEF StartLock
    <2>2. \A t \in Ids : txn'[t] = txn[t] \/ txn'[t].state = "FAILED"
        BY <2>1 DEF FailFailable, TypeOK, TxnRecords
    <2>3. \A t \in Ids : txn'[t].state \in TerminalStates => TreeOK(t)'
        BY TerminalTree
    <2>4. \A t \in Ids : txn'[t] = txn[t] => TreeOK(t)'
        BY <2>1 DEF TreesOK, TreeOK, Generation
    <2> QED
        BY <2>2, <2>3, <2>4 DEF TerminalStates
<1>3. CASE StartCreate
    <2>1. UNCHANGED <<disk, active>>
        BY <1>3 DEF StartCreate
    <2>2. CASE HasNonterminal
        BY <1>1, <1>3, <2>2 DEF StartCreate
    <2>3. CASE ~HasNonterminal
        <3>1. PICK t \in Ids : /\ FreshId(t)
                               /\ txn' = [txn EXCEPT ![t] = [NoTxn EXCEPT !.state = "CREATED"]]
            BY <1>3, <2>3 DEF StartCreate
        <3>2. txn'[t].state = "CREATED" /\ txn'[t].before = 0 /\ \A u \in Ids \ {t} : txn'[u] = txn[u]
            BY <3>1 DEF TypeOK, NoTxn
        <3>3. Generation(t)' = "absent"
            BY <2>1, <3>1 DEF FreshId, Generation
        <3>4. TreeOK(t)'
            BY <3>2, <3>3 DEF TreeOK
        <3> QED
            BY <2>1, <3>2, <3>4, RecordChanges
    <2> QED
        BY <2>2, <2>3
<1>4. ASSUME NEW u \in Ids, MarkTransactionFailed(u) PROVE \A t \in Ids : TreeOK(t)'
    <2>1. CASE txn' = txn
        BY <1>1, <1>4, <2>1 DEF MarkTransactionFailed
    <2>2. CASE txn' # txn
        <3>1. SaveState(u, "FAILED") /\ UNCHANGED <<disk, active>>
            BY <1>4, <2>2 DEF MarkTransactionFailed
        <3>2. txn'[u].state = "FAILED" /\ \A v \in Ids \ {u} : txn'[v] = txn[v]
            BY <3>1, SaveStateKeeps
        <3>3. TreeOK(u)'
            BY <3>2, TerminalTree DEF TerminalStates
        <3> QED
            BY <3>1, <3>2, <3>3, RecordChanges
    <2> QED
        BY <2>1, <2>2
<1>5. CASE SealLoad
    <2>1. CASE txn[identity].state = "CREATED"
        <3>1. PICK u \in Ids : u = identity
            BY <1>5, <2>1, LoadedIdentity
        <3>2. SaveState(u, "BUILDING") /\ UNCHANGED <<disk, active>>
            BY <1>5, <2>1, <3>1 DEF SealLoad
        <3>3. /\ txn'[u].state = "BUILDING" /\ txn'[u].before = txn[u].before
              /\ \A v \in Ids \ {u} : txn'[v] = txn[v]
            BY <3>2, SaveStateKeeps
        <3>4. TreeOK(u) /\ Generation(u)' = Generation(u)
            BY <3>2 DEF TreesOK, Generation
        <3>5. TreeOK(u)'
            BY <2>1, <3>1, <3>3, <3>4 DEF TreeOK
        <3> QED
            BY <3>2, <3>3, <3>5, RecordChanges
    <2>2. CASE txn[identity].state # "CREATED"
        BY <1>1, <1>5, <2>2 DEF SealLoad
    <2> QED
        BY <2>1, <2>2
<1>6. CASE CreateGeneration \/ CandidateTemp \/ CandidateRecord \/ Seal
    <2>1. job.t \in Ids /\ txn[job.t].state = "BUILDING" /\ UNCHANGED <<txn, active>>
        BY <1>6 DEF CreateGeneration, CandidateTemp, CandidateRecord, Seal, HolderOK, RecordOK
    <2>2. disk' = disk \/ \E tree \in {"empty", "unproven", "candidate", "sealed"} :
                             SetTree("generations", job.t, tree)
        BY <1>6 DEF CreateGeneration, CandidateTemp, CandidateRecord, Seal
    <2>3. ASSUME NEW tree \in {"empty", "unproven", "candidate", "sealed"}, SetTree("generations", job.t, tree)
          PROVE  \A t \in Ids : TreeOK(t)'
        BY <2>1, <2>3, TreeChanges
    <2> QED
        BY <1>1, <2>1, <2>2, <2>3
<1>7. CASE PersistSealed
    <2>1. /\ job.pc = "sealed" /\ txn[job.t].state = "BUILDING" /\ UNCHANGED <<disk, active>>
          /\ txn' = [txn EXCEPT ![job.t] = [state |-> "SEALED", seal |-> TRUE, before |-> @.before]]
        BY <1>7 DEF PersistSealed, RecordOK
    <2>2. PICK u \in Ids : u = job.t
        BY <2>1 DEF HolderOK
    <2>3. /\ txn'[u].state = "SEALED" /\ txn'[u].seal /\ txn'[u].before = txn[u].before
          /\ \A v \in Ids \ {u} : txn'[v] = txn[v]
        BY <2>1, <2>2 DEF TypeOK
    <2>4. TreeOK(u) /\ Generation(u)' = "sealed"
        BY <2>1, <2>2 DEF TreesOK, Generation
    <2>5. TreeOK(u)'
        BY <2>1, <2>2, <2>3, <2>4 DEF TreeOK
    <2> QED
        BY <2>1, <2>3, <2>5, RecordChanges
<1>8. CASE Publish
    <2>1. CASE txn' = txn
        BY <1>1, <1>8, <2>1 DEF Publish
    <2>2. CASE txn' # txn
        <3>1. SaveState(job.t, "PUBLISHED") /\ txn[job.t].state = "SEALED" /\ UNCHANGED <<disk, active>>
            BY <1>8, <2>2 DEF Publish, RecordOK
        <3>2. PICK u \in Ids : u = job.t
            BY <1>8 DEF Publish, HolderOK
        <3>3. /\ txn'[u].state = "PUBLISHED" /\ txn'[u].seal = txn[u].seal /\ txn'[u].before = txn[u].before
              /\ \A v \in Ids \ {u} : txn'[v] = txn[v]
            BY <3>1, <3>2, SaveStateKeeps
        <3>4. TreeOK(u) /\ Generation(u)' = Generation(u)
            BY <3>1 DEF TreesOK, Generation
        <3>5. TreeOK(u)'
            BY <3>1, <3>2, <3>3, <3>4 DEF TreeOK
        <3> QED
            BY <3>1, <3>3, <3>5, RecordChanges
    <2> QED
        BY <2>1, <2>2
<1>9. CASE MarkActivating
    <2>1. CASE txn' = txn
        BY <1>1, <1>9, <2>1 DEF MarkActivating
    <2>2. CASE txn' # txn
        <3>1. /\ txn' = [txn EXCEPT ![job.t].state = "ACTIVATING", ![job.t].before = active]
              /\ txn[job.t].state = "PUBLISHED" /\ UNCHANGED <<disk, active>>
            BY <1>9, <2>2 DEF MarkActivating, RecordOK
        <3>2. PICK u \in Ids : u = job.t
            BY <1>9 DEF MarkActivating, HolderOK
        <3>3. /\ txn'[u].state = "ACTIVATING" /\ txn'[u].seal = txn[u].seal /\ txn'[u].before = active
              /\ \A v \in Ids \ {u} : txn'[v] = txn[v]
            BY <3>1, <3>2 DEF TypeOK, TxnRecords
        <3>4. TreeOK(u) /\ Generation(u)' = Generation(u)
            BY <3>1 DEF TreesOK, Generation
        <3>5. TreeOK(u)'
            BY <3>1, <3>2, <3>3, <3>4 DEF TreeOK
        <3> QED
            BY <3>1, <3>3, <3>5, RecordChanges
    <2> QED
        BY <2>1, <2>2
<1>10. CASE WriteActive
    <2>1. CASE active' = active
        BY <1>1, <1>10, <2>1 DEF WriteActive
    <2>2. CASE active' # active
        <3>1. active' = job.t /\ txn[job.t].state = "ACTIVATING" /\ job.t \in Ids /\ UNCHANGED <<txn, disk>>
            BY <1>10, <2>2 DEF WriteActive, HolderOK, RecordOK
        <3>2. \A t \in Ids : txn[t].state = "ACTIVATING" => t = active'
            BY <3>1 DEF AtMostOneNonterminal, NonterminalStates
        <3> QED
            BY <3>1, <3>2 DEF TreesOK, TreeOK, Generation
    <2> QED
        BY <2>1, <2>2
<1>11. CASE Fail
    <2>1. /\ job.t \in Ids /\ active # job.t /\ UNCHANGED <<disk, active>>
        BY <1>11, BoundsAssumption DEF Fail, HolderOK, RecordOK, ActiveIsUsable
    <2>2. SaveState(job.t, "FAILED")
        BY <1>11, <2>1 DEF Fail
    <2>3. txn'[job.t].state = "FAILED" /\ \A v \in Ids \ {job.t} : txn'[v] = txn[v]
        BY <2>1, <2>2, SaveStateKeeps
    <2>4. PICK u \in Ids : u = job.t
        BY <2>1
    <2>5. TreeOK(u)'
        BY <2>3, <2>4, TerminalTree DEF TerminalStates
    <2> QED
        BY <2>1, <2>3, <2>4, <2>5, RecordChanges
<1>12. CASE ReconcileReadback \/ RecoverPersist
    <2>1. UNCHANGED <<disk, active>>
        BY <1>12 DEF ReconcileReadback, RecoverPersist
    <2>2. CASE txn' = txn
        BY <1>1, <2>1, <2>2
    <2>3. CASE txn' # txn
        <3>1. PICK u \in Ids : u = job.t
            BY <1>12 DEF ReconcileReadback, RecoverPersist, HolderOK
        <3>2. SaveState(u, "COMMITTED") \/ SaveState(u, "FAILED")
            BY <1>12, <2>3, <3>1 DEF ReconcileReadback, RecoverPersist, RecordOK
        <3>3. txn'[u].state \in TerminalStates /\ \A v \in Ids \ {u} : txn'[v] = txn[v]
            BY <3>2, SaveStateKeeps DEF TerminalStates
        <3>4. TreeOK(u)'
            BY <3>3, TerminalTree
        <3> QED
            BY <2>1, <3>3, <3>4, RecordChanges
    <2> QED
        BY <2>2, <2>3
<1>13. CASE RecoverStep
    BY <1>13, RecoveryKeepsTrees
<1>14. ASSUME NEW p \in Places, NEW u \in Ids, CollectTree(p, u) PROVE \A t \in Ids : TreeOK(t)'
    <2>1. <<p, u>> \in Garbage /\ SetTree(p, u, "absent") /\ UNCHANGED <<txn, active>>
        BY <1>14 DEF CollectTree
    <2> QED
        BY <2>1, GarbageIsSettled, TreeChanges
<1>15. CASE IOFault
    <2>1. UNCHANGED <<txn, active>>
        BY <1>15 DEF IOFault
    <2>2. CASE job.pc \in {"candidate", "record"} /\ SetTree("generations", job.t, "absent")
        <3>1. job.t \in Ids /\ txn[job.t].state = "BUILDING"
            BY <2>2 DEF HolderOK, RecordOK
        <3> QED
            BY <2>1, <2>2, <3>1, TreeChanges
    <2> QED
        BY <1>1, <1>15, <2>1, <2>2, InterruptKeepsTrees DEF IOFault
<1>16. CASE Crash
    BY <1>1, <1>16, InterruptKeepsTrees DEF Crash
<1>17. CASE Damage
    <2>1. PICK tree \in {"remnant", "unproven"} : SetTree("generations", active, tree)
        BY <1>17 DEF Damage
    <2>2. active \in Ids /\ txn[active].state = "COMMITTED" /\ UNCHANGED <<txn, active>>
        BY <1>17, BoundsAssumption DEF Damage, TypeOK
    <2> QED
        BY <2>1, <2>2, TreeChanges DEF NonterminalStates
<1>18. CASE RejectInvalidPointer \/ AdmitStart \/ RefuseStart \/ Drift \/ UNCHANGED vars
    BY <1>1, <1>18 DEF RejectInvalidPointer, AdmitStart, RefuseStart, Drift, vars
<1>19. ASSUME NEW u \in Ids,
              \/ CancelContext(u) \/ StartSpawn(u)
              \/ SetInstallIdentity(u) \/ WorkerLock(u) \/ WorkerQuit(u)
       PROVE  \A t \in Ids : TreeOK(t)'
    BY <1>1, <1>19 DEF CancelContext, StartSpawn, SetInstallIdentity, WorkerLock, WorkerQuit
<1>20. CASE Build \/ ReconcileHome \/ ReconcilePath \/ CollectEnd
    BY <1>1, <1>20 DEF Build, ReconcileHome, ReconcilePath, CollectEnd
<1> QED
    BY <1>2, <1>3, <1>4, <1>5, <1>6, <1>7, <1>8, <1>9, <1>10, <1>11, <1>12, <1>13, <1>14, <1>15,
       <1>16, <1>17, <1>18, <1>19, <1>20
    DEF Next, Request, Daemon, Trouble, Handler, Worker, Reconcile, Collect, Recovery

\* A worker that sealed its generation did so itself, and nobody touches that tree.
LEMMA SealedFrom ==
    ASSUME TypeOK, StepOK, [Next]_vars, job'.pc = "sealed"
    PROVE  \/ Seal /\ SetTree("generations", job.t, "sealed") /\ Goto("sealed")
           \/ Aside /\ job' = job
<1>1. job' # Idle
    BY LockFields
<1>2. ~(NextStep /\ job.pc # "observe")
    BY NextStepType DEF TypeOK, StepOK
<1>3. \A pc : Goto(pc) => job'.pc = pc
    BY GotoFields
<1>4. ~(job' = [job EXCEPT !.pc = "home", !.tail = TRUE])
    BY TailFields
<1>5. CASE \/ SealLoad \/ CreateGeneration \/ CandidateTemp \/ CandidateRecord \/ Build \/ PersistSealed
           \/ Publish \/ MarkActivating \/ Fail
    <2>1. CASE SealLoad
        BY <1>1, <2>1 DEF SealLoad, Release, TypeOK, Jobs
    <2> QED
        BY <1>1, <1>3, <1>5, <2>1
        DEF CreateGeneration, CandidateTemp, CandidateRecord, Build, PersistSealed, Publish,
            MarkActivating, Fail, Release
<1>6. CASE WriteActive \/ RecoverPersist \/ CollectEnd \/ StartCreate
    BY <1>1, <1>2, <1>3, <1>4, <1>6
    DEF WriteActive, RecoverPersist, CollectEnd, StartCreate, Release, ReturnError
<1>7. CASE ReconcileHome \/ ReconcilePath \/ ReconcileReadback
    <2>1. \A p : ~(job' = [job EXCEPT !.pc = "path", !.plan = p])
        BY PlanFields
    <2> QED
        BY <1>1, <1>2, <1>3, <1>4, <1>7, <2>1
        DEF ReconcileHome, ReconcilePath, ReconcileReadback, EndTail, Release, ReturnError
<1>8. CASE IOFault
    BY <1>1, <1>2, <1>3, <1>4, <1>8 DEF IOFault, EndTail, Release, ReturnError, EnvPcs
<1>9. CASE StartLock \/ Crash
    BY <1>9, LockFields DEF StartLock, Crash
<1>10. CASE Aside
    <2>1. ASSUME NEW t \in Ids, WorkerLock(t) PROVE job' = job \/ job'.pc = "load"
        BY <2>1, LockFields DEF WorkerLock
    <2>2. ASSUME NEW t \in Ids, StartSpawn(t) \/ MarkTransactionFailed(t) \/ SetInstallIdentity(t)
                                \/ WorkerQuit(t) \/ CancelContext(t)
          PROVE  job' = job
        BY <2>2 DEF StartSpawn, MarkTransactionFailed, SetInstallIdentity, WorkerQuit, CancelContext
    <2>3. ASSUME RejectInvalidPointer \/ AdmitStart \/ RefuseStart \/ Drift \/ Damage \/ UNCHANGED vars
          PROVE  job' = job
        BY <2>3 DEF RejectInvalidPointer, AdmitStart, RefuseStart, Drift, Damage, vars
    <2>4. job' = job \/ job'.pc = "load"
        BY <1>10, <2>1, <2>2, <2>3 DEF Aside
    <2> QED
        BY <1>10, <2>4
<1>11. CASE Seal
    BY <1>3, <1>11 DEF Seal
<1>12. CASE RecoverStep
    <2>1. job.pc = "observe"
        BY <1>12 DEF RecoverStep
    <2>2. ASSUME NEW d, RecoverSettle(d) \/ RecoverTree(d, Primary) \/ RecoverRecord(d, Primary)
          PROVE  job'.pc \in {"gc", "persist", "home", "point", "observe"}
        BY <2>1, <2>2 DEF RecoverSettle, RecoverTree, RecoverRecord, TypeOK, Jobs
    <2> QED
        BY <1>1, <1>12, <2>2 DEF RecoverStep, RecoverBlock, Release
<1>13. ASSUME NEW p \in Places, NEW t \in Ids, CollectTree(p, t)
       PROVE  FALSE
    BY <1>13 DEF CollectTree
<1> QED
    BY <1>5, <1>6, <1>7, <1>8, <1>9, <1>10, <1>11, <1>12, <1>13
    DEF Next, Request, Daemon, Trouble, Handler, Worker, Reconcile, Collect, Recovery, Aside

\* So a sealed generation is complete until it is recorded as such.
LEMMA StepKeepsTrees ==
    ASSUME IInv, TreesOK, [Next]_vars
    PROVE  TreesOK'
<1> USE DEF IInv
<1>1. \A t \in Ids : TreeOK(t)'
    BY StepKeepsTreeOK
<1>2. ASSUME job'.pc = "sealed" PROVE (Generation(job.t) = "sealed")'
    <2>1. CASE Seal /\ SetTree("generations", job.t, "sealed") /\ Goto("sealed")
        <3>1. PICK u \in Ids : u = job.t
            BY <2>1 DEF Seal, HolderOK
        <3>2. job'.t = job.t
            BY <2>1, GotoFields
        <3>3. Generation(u)' = "sealed"
            BY <2>1, <3>1, SetTreeEffect
        <3> QED
            BY <3>1, <3>2, <3>3 DEF Generation
    <2>2. CASE Aside /\ job' = job
        <3>1. Generation(job.t) = "sealed" /\ job.t \in Ids /\ txn[job.t].state = "BUILDING"
            BY <1>2, <2>2 DEF TreesOK, HolderOK, RecordOK
        <3>2. CASE Damage
            <4>1. txn[active].state = "COMMITTED" /\ active # job.t
                BY <3>1, <3>2 DEF Damage
            <4>2. \E tree : SetTree("generations", active, tree) /\ active \in Ids
                BY <3>2, BoundsAssumption DEF Damage, TypeOK
            <4>3. Generation(job.t)' = Generation(job.t)
                BY <2>2, <3>1, <4>1, <4>2 DEF SetTree, Generation, TypeOK
            <4> QED
                BY <2>2, <3>1, <4>3 DEF Generation
        <3>3. CASE ~Damage
            <4>1. disk' = disk
                BY <2>2, <3>3
                DEF Aside, RejectInvalidPointer, AdmitStart, RefuseStart, Drift, vars, CancelContext,
                    StartSpawn, MarkTransactionFailed, SetInstallIdentity, WorkerLock, WorkerQuit
            <4> QED
                BY <2>2, <3>1, <4>1 DEF Generation
        <3> QED
            BY <3>2, <3>3
    <2> QED
        BY <1>2, <2>1, <2>2, SealedFrom
<1> QED
    BY <1>1, <1>2 DEF TreesOK

\* active.json that does not verify stays as it is: nothing is installed or
\* collected over it.
LEMMA InvalidStays ==
    ASSUME LInv, [Next]_vars, ReadActive = "INVALID"
    PROVE  ReadActive' = "INVALID"
<1> USE DEF LInv, IInv
<1>1. active # 0 /\ ~MetadataVerifies(Generation(active))
    BY DEF ReadActive
<1>2. active' = active
    BY ActiveMoves
<1>3. PICK u \in Ids : u = active
    BY <1>1, BoundsAssumption DEF TypeOK
<1>4. txn[u].state \in {"ACTIVATING", "COMMITTED"} /\ <<"generations", u>> \notin Garbage
    BY <1>1, <1>3, LineageRetained DEF ActiveIsUsable
<1>5. GenerationSafe(u)
    BY <1>4, StepSparesGenerations
<1> QED
    BY <1>1, <1>2, <1>3, <1>5 DEF GenerationSafe, ReadActive, Generation

-----------------------------------------------------------------------------
(* What a decision refuses.                                                *)

\* What is observed of the generation in flight.
LEMMA ObservedGeneration ==
    ASSUME NEW t \in Ids, Primary = t
    PROVE  Observation.generation = ObserveTree(Generation(t), txn[t].seal)
BY BoundsAssumption DEF Observation

\* What is observed of one tree, field by field.
LEMMA ObservedTree ==
    ASSUME NEW tree, NEW seal
    PROVE  /\ ObserveTree(tree, seal).present = (tree # "absent")
           /\ ObserveTree(tree, seal).empty = (tree = "empty")
           /\ ObserveTree(tree, seal).lineage = (tree \in {"candidate", "sealed", "remnant", "foreign"})
           /\ ObserveTree(tree, seal).match = (tree \in {"candidate", "sealed", "remnant"})
           /\ ObserveTree(tree, seal).sealed = (tree = "sealed" /\ seal)
BY Zenon DEF ObserveTree

\* Only Blocked closes the gate.
LEMMA OnlyBlockedCloses ==
    ASSUME NEW obs, DecideRecovery(obs).gate = "BLOCKED_UNSAFE"
    PROVE  DecideRecovery(obs).action = "BLOCK_UNSAFE"
<1> DEFINE Closing(d) == d.gate = "BLOCKED_UNSAFE" => d.action = "BLOCK_UNSAFE"
<1>1. /\ \A x, n : Decision("READY", x, n).gate = "READY"
      /\ \A x : FailTxn(x).gate = "READY"
      /\ \A x, n : Reconciling(x, n).gate = "RECONCILING"
      /\ Nothing.gate = "READY"
    BY Zenon DEF Decision, FailTxn, Reconciling, Nothing
<1>2. Blocked.action = "BLOCK_UNSAFE"
    BY DecisionFields DEF Blocked
<1>3. /\ \A x, n : Closing(Decision("READY", x, n)) /\ Closing(Reconciling(x, n))
      /\ \A x : Closing(FailTxn(x))
      /\ Closing(Nothing) /\ Closing(Blocked)
    BY <1>1, <1>2
<1> HIDE DEF Closing
<1>4. Closing(DecideTerminalWorld(obs))
    BY Zenon, <1>3 DEF DecideTerminalWorld
<1>5. \A t : Closing(DecideOne(obs, t))
    <2>1. Closing(DecideUnsealed(obs)) /\ Closing(DecideSealed(obs))
        BY Zenon, <1>3 DEF DecideUnsealed, DecideSealed
    <2>2. \A t : Closing(DecidePublished(obs, t)) /\ Closing(DecideActivating(obs, t))
        BY Zenon, <1>3 DEF DecidePublished, DecideActivating
    <2> QED
        BY Zenon, <2>1, <2>2 DEF DecideOne
<1>6. Closing(DecideRecovery(obs))
    BY Zenon, <1>3, <1>4, <1>5 DEF DecideRecovery
<1> QED
    BY <1>6 DEF Closing

\* decideTerminalWorld refuses nothing.
LEMMA TerminalNeverBlocks ==
    ASSUME NEW obs
    PROVE  DecideTerminalWorld(obs).action # "BLOCK_UNSAFE"
<1>1. /\ \A g, x, n : Decision(g, x, n).action = x
      /\ \A x, n : Reconciling(x, n).action = x
      /\ Nothing.action = "NONE"
    BY DecisionFields DEF Reconciling, Nothing
<1>2. LeftoverStaging(obs) \in {"", "REMOVE_EMPTY_STAGING", "GC_STAGING"}
    BY LeftoverStagingType
<1>3. "" # "BLOCK_UNSAFE"
    BY Zenon
<1>4. LeftoverStaging(obs) # "BLOCK_UNSAFE"
    BY <1>2, <1>3
<1> DEFINE Open(d) == d.action # "BLOCK_UNSAFE"
<1>5. /\ \A g, x, n : x # "BLOCK_UNSAFE" => Open(Decision(g, x, n))
      /\ \A x, n : x # "BLOCK_UNSAFE" => Open(Reconciling(x, n))
      /\ Open(Nothing)
    BY <1>1
<1> HIDE DEF Open
<1>6. "COMMIT" # "BLOCK_UNSAFE" /\ "RECONCILE_ENV" # "BLOCK_UNSAFE" /\ "DIAGNOSE_RETAIN" # "BLOCK_UNSAFE"
    OBVIOUS
<1>7. /\ Open(Decision("READY", "COMMIT", "COMMITTED"))
      /\ Open(Reconciling("RECONCILE_ENV", "ACTIVATING"))
      /\ Open(Decision("READY", LeftoverStaging(obs), ""))
      /\ Open(Decision("READY", "RECONCILE_ENV", ""))
      /\ Open(Decision("READY", "DIAGNOSE_RETAIN", ""))
    BY Zenon, <1>4, <1>5, <1>6
<1>8. Open(DecideTerminalWorld(obs))
    BY Zenon, <1>5, <1>7 DEF DecideTerminalWorld
<1> QED
    BY <1>8 DEF Open

\* What recovery refuses of a valid active.json lies in one of the windows.
LEMMA BlocksInWindow ==
    ASSUME IInv, TreesOK, ReadActive # "INVALID",
           DecideRecovery(Observation).action = "BLOCK_UNSAFE"
    PROVE  Window
<1> USE DEF IInv
<1> DEFINE obs == Observation
           open == NonterminalTxns(txn)
<1>1. /\ obs.txns = txn /\ obs.pointer = ReadActive /\ obs.active = active
      /\ ~obs.staging.present /\ ~obs.staging.empty /\ ~obs.staging.sealed
    BY ObservedFields
<1>2. DOMAIN txn = Ids /\ \A t \in Ids : txn[t].state # "INVALID"
    BY DEF TypeOK, TreesOK, TreeOK
<1>3. open = {} \/ \E t \in Ids : open = {t}
    <2>1. \A t, u \in open : t = u
        BY DEF NonterminalTxns, AtMostOneNonterminal, TypeOK
    <2>2. open \subseteq Ids
        BY DEF NonterminalTxns, TypeOK
    <2> QED
        BY <2>1, <2>2
<1>4. open # {}
    <2>1. open = {} => DecideRecovery(obs) = DecideTerminalWorld(obs)
        BY <1>1, <1>2 DEF DecideRecovery
    <2> QED
        BY <2>1, TerminalNeverBlocks
<1>5. PICK t \in Ids : open = {t}
    BY <1>3, <1>4
<1>6. DecideRecovery(obs) = DecideOne(obs, t)
    <2>1. (CHOOSE u \in {t} : TRUE) = t
        OBVIOUS
    <2> QED
        BY <1>1, <1>2, <1>5, <2>1 DEF DecideRecovery
<1>7. Primary = t
    BY <1>5, PrimaryIsOpen
<1> DEFINE gen == Generation(t)
<1>8. /\ obs.generation.present = (gen # "absent")
      /\ obs.generation.empty = (gen = "empty")
      /\ obs.generation.match = (gen \in {"candidate", "sealed", "remnant"})
      /\ obs.generation.sealed = (gen = "sealed" /\ txn[t].seal)
    BY <1>7, ObservedGeneration, ObservedTree
<1>9. txn[t].state \in NonterminalStates /\ TreeOK(t)
    BY <1>5 DEF NonterminalTxns, TreesOK
<1>10. ActiveNames(obs, t) <=> active = t
    BY <1>1, ReadActiveCases, BoundsAssumption DEF ActiveNames
<1>11. /\ \A a : FailTxn(a).action = a
       /\ \A a, n : Reconciling(a, n).action = a
    BY DecisionFields DEF FailTxn, Reconciling
<1>12. LeftoverStaging(obs) = ""
    BY <1>1 DEF LeftoverStaging
<1> HIDE DEF gen
<1>13. CASE txn[t].state \in FailableStates
    <2>1. DecideUnsealed(obs).action = "BLOCK_UNSAFE"
        BY <1>1, <1>6, <1>13 DEF DecideOne
    <2>2. gen \notin {"absent", "empty", "candidate", "sealed", "remnant"}
        <3>1. /\ FailTxn("NONE").action # "BLOCK_UNSAFE"
              /\ FailTxn("REMOVE_EMPTY_GENERATION").action # "BLOCK_UNSAFE"
            BY <1>11
        <3> QED
            BY <1>1, <1>8, <2>1, <3>1 DEF DecideUnsealed
    <2>3. txn[t].state = "BUILDING" /\ gen = "unproven"
        BY <1>9, <1>13, <2>2 DEF TreeOK, FailableStates, gen
    <2> QED
        BY <2>3 DEF Window, gen
<1>14. CASE txn[t].state = "SEALED"
    <2>1. obs.generation.match /\ obs.generation.sealed
        BY <1>8, <1>9, <1>14 DEF TreeOK, gen
    <2>2. DecideOne(obs, t) = Reconciling("PERSIST_PUBLISHED", "PUBLISHED")
        BY <1>1, <1>14, <2>1 DEF DecideOne, DecideSealed, FailableStates
    <2> QED
        BY <1>6, <1>11, <2>2
<1>15. CASE txn[t].state = "PUBLISHED"
    <2>1. obs.generation.match /\ obs.generation.sealed /\ txn[t].before = 0
        BY <1>8, <1>9, <1>15 DEF TreeOK, gen
    <2>2. active # t
        BY <1>15, BoundsAssumption DEF ActiveIsUsable
    <2>3. DecideOne(obs, t) = DecidePublished(obs, t)
        BY <1>1, <1>15 DEF DecideOne, FailableStates
    <2>4. CASE active = 0
        <3>1. ExpectedPredecessorOrAbsent(obs, t)
            BY <1>1, <2>1, <2>4, ReadActiveCases DEF ExpectedPredecessorOrAbsent
        <3>2. DecidePublished(obs, t) = Reconciling("PERSIST_ACTIVATING", "ACTIVATING")
            BY <1>10, <1>12, <2>1, <2>2, <3>1 DEF DecidePublished
        <3> QED
            BY <1>6, <1>11, <2>3, <3>2
    <2>5. CASE active # 0
        BY <1>15, <2>1, <2>5 DEF Window
    <2> QED
        BY <2>4, <2>5
<1>16. CASE txn[t].state = "ACTIVATING"
    <2>1. obs.generation.match /\ obs.generation.sealed
        BY <1>8, <1>9, <1>16 DEF TreeOK, gen
    <2>2. active # t => ExpectedPredecessorOrAbsent(obs, t)
        <3>1. active # t => txn[t].before = active
            BY <1>9, <1>16 DEF TreeOK
        <3> QED
            BY <1>1, <3>1, ReadActiveCases DEF ExpectedPredecessorOrAbsent, ActiveNames
    <2>3. DecideOne(obs, t) = DecideActivating(obs, t)
        BY <1>1, <1>16 DEF DecideOne, FailableStates
    <2>4. DecideActivating(obs, t) \in {Reconciling("COMMIT", "COMMITTED"), Reconciling("RECONCILE_ENV", ""),
                                        Reconciling("ACTIVATE", "")}
        BY <1>10, <2>1, <2>2 DEF DecideActivating
    <2>5. /\ Reconciling("COMMIT", "COMMITTED").action # "BLOCK_UNSAFE"
          /\ Reconciling("RECONCILE_ENV", "").action # "BLOCK_UNSAFE"
          /\ Reconciling("ACTIVATE", "").action # "BLOCK_UNSAFE"
        <3>1. "COMMIT" # "BLOCK_UNSAFE" /\ "RECONCILE_ENV" # "BLOCK_UNSAFE" /\ "ACTIVATE" # "BLOCK_UNSAFE"
            OBVIOUS
        <3> QED
            BY Zenon, <1>11, <3>1
    <2> QED
        BY Zenon, <1>6, <2>3, <2>4, <2>5
<1> QED
    BY <1>9, <1>13, <1>14, <1>15, <1>16 DEF NonterminalStates, FailableStates

\* What recovery executed last it does not decide again, but what it may.
LEMMA NotDecidedAgain ==
    ASSUME IInv, PastOK, job.by = "recover", job.pc = "observe",
           NEW d, DecisionSound(d), ~Settled(d), d.action # "BLOCK_UNSAFE"
    PROVE  ForwardOrNoop(job.prev, d)
<1>1. Primary \in Ids
    BY DEF DecisionSound
<1>2. PICK u \in Ids : u = Primary
    BY <1>1
<1>3. CASE d.action \in {"NONE", "RECONCILE_ENV"}
    BY <1>3 DEF ForwardOrNoop
<1>4. CASE d.action \notin {"NONE", "RECONCILE_ENV"}
    <2>1. job.prev.action # d.action
        BY <1>2, <1>4 DEF DecisionSound, PastOK, Nowhere
    <2> QED
        BY <2>1 DEF ForwardOrNoop
<1> QED
    BY <1>3, <1>4

-----------------------------------------------------------------------------
(* What was executed last.                                                 *)

\* A new recovery has executed nothing.
LEMMA FirstPast == Recovering.prev.action = "NONE"
<1>1. Nothing.action = "NONE"
    BY DecisionFields DEF Nothing
<1>2. Recovering.prev = Nothing
    BY Zenon DEF Recovering, Idle
<1> QED
    BY <1>1, <1>2

\* Where records at most end, what was executed last is not undone.
LEMMA PastStays ==
    ASSUME PastOK, job.by = "recover", job'.prev = job.prev, UNCHANGED <<active, admitted>>,
           \A t \in Ids : txn'[t].state = txn[t].state \/ txn'[t].state \in TerminalStates,
           job'.pc \in EnvPcs \cup {"gc"} => job.pc \in EnvPcs \cup {"gc"},
           job.pc = "point" => job'.pc = "point",
           job.pc = "persist" => job'.pc = "persist"
    PROVE  PastOK'
<1>1. admitted' = 0
    BY DEF PastOK
<1>2. \A states : Nowhere(states) /\ states \cap TerminalStates = {} => \A t \in Ids : txn'[t].state \notin states
    BY DEF Nowhere
<1>3. /\ {"SEALED"} \cap TerminalStates = {} /\ {"PUBLISHED"} \cap TerminalStates = {}
      /\ {"ACTIVATING"} \cap TerminalStates = {} /\ FailableStates \cap TerminalStates = {}
    BY DEF TerminalStates, FailableStates
<1>4. job'.pc \in EnvPcs \cup {"gc"} /\ ~Settled(job'.prev) => job'.prev.action = "RECONCILE_ENV"
    BY DEF PastOK
<1>5. job'.prev.action = "ACTIVATE" /\ job'.pc # "point"
        => \A t \in Ids : txn'[t].state = "ACTIVATING" => active' = t
    BY DEF PastOK, TerminalStates
<1>6. /\ job'.prev.action = "PERSIST_PUBLISHED" => \A t \in Ids : txn'[t].state \notin {"SEALED"}
      /\ job'.prev.action = "PERSIST_ACTIVATING" => \A t \in Ids : txn'[t].state \notin {"PUBLISHED"}
      /\ job'.prev.action = "COMMIT" => \A t \in Ids : txn'[t].state \notin {"ACTIVATING"}
      /\ job'.prev.action = "REMOVE_EMPTY_GENERATION" /\ job'.pc # "persist"
            => \A t \in Ids : txn'[t].state \notin FailableStates
    BY <1>2, <1>3 DEF PastOK
<1> QED
    BY <1>1, <1>4, <1>5, <1>6 DEF PastOK, Nowhere

\* What a turn executes is not there to be executed again.
LEMMA TurnIsPast ==
    ASSUME IInv, PastOK, RecoverStep, job'.by = "recover"
    PROVE  PastOK'
<1> USE DEF IInv
<1> DEFINE d == DecideRecovery(Observation)
<1>1. DecisionSound(d)
    BY RecoveryDecisionSound
<1>2. job.pc = "observe" /\ job.by = "recover" /\ UNCHANGED <<active, admitted>>
    BY DEF RecoverStep, HolderOK
<1>3. admitted' = 0
    BY <1>2 DEF PastOK
<1>4. ~RecoverBlock
    BY LockFields DEF RecoverBlock, Release
<1>5. \/ Settled(d) /\ RecoverSettle(d)
      \/ ~Settled(d) /\ d.action # "BLOCK_UNSAFE" /\ d.action \in TreeActions /\ RecoverTree(d, Primary)
      \/ /\ ~Settled(d) /\ d.action # "BLOCK_UNSAFE" /\ d.action \notin TreeActions
         /\ RecoverRecord(d, Primary)
    BY <1>4 DEF RecoverStep
<1> HIDE DEF d
<1>6. CASE Settled(d) /\ RecoverSettle(d)
    <2>1. job'.prev = d
        BY <1>6 DEF RecoverSettle, TypeOK, Jobs
    <2>2. d.action \in {"NONE", "DIAGNOSE_RETAIN"}
        BY Zenon, <1>6 DEF Settled
    <2> QED
        BY <1>3, <1>6, <2>1, <2>2 DEF PastOK
<1>7. CASE ~Settled(d) /\ d.action # "BLOCK_UNSAFE" /\ d.action \in TreeActions /\ RecoverTree(d, Primary)
    <2>1. job'.prev = d /\ job'.pc = "persist"
        BY <1>7 DEF RecoverTree, TypeOK, Jobs
    <2>2. d.action = "REMOVE_EMPTY_GENERATION"
        BY <1>1, <1>7 DEF DecisionSound, TreeActions
    <2> QED
        BY <1>3, <2>1, <2>2 DEF PastOK, EnvPcs
<1>8. CASE /\ ~Settled(d) /\ d.action # "BLOCK_UNSAFE" /\ d.action \notin TreeActions
           /\ RecoverRecord(d, Primary)
    <2>1. PICK u \in Ids : u = Primary
        BY <1>1, <1>8 DEF DecisionSound
    <2>2. job'.prev = d /\ txn' = SavedRecords(d, u) /\ d.action # "FAIL_FAILABLE_EXTRAS"
        BY <1>1, <1>8, <2>1 DEF RecoverRecord, DecisionSound, TypeOK, Jobs
    <2>3. /\ d.action = "RECONCILE_ENV" => job'.pc = "home"
          /\ d.action = "ACTIVATE" => job'.pc = "point"
          /\ d.action \notin {"RECONCILE_ENV", "ACTIVATE"} => job'.pc = "observe"
        BY <1>2, <1>8 DEF RecoverRecord, TypeOK, Jobs
    <2>4. ASSUME NEW s, s \in NonterminalStates, txn[u].state = s, txn'[u].state # s,
                 \A v \in Ids \ {u} : txn'[v] = txn[v]
          PROVE  \A t \in Ids : txn'[t].state \notin {s}
        BY <2>4 DEF AtMostOneNonterminal
    <2>5. CASE d.action \in {"NONE", "RECONCILE_ENV", "ACTIVATE"}
        BY <1>3, <2>2, <2>3, <2>5 DEF PastOK, EnvPcs
    <2>6. CASE d.action = "PERSIST_ACTIVATING"
        <3>1. txn' = [txn EXCEPT ![u].state = "ACTIVATING", ![u].before = active]
            BY <2>2, <2>6 DEF SavedRecords
        <3>2. txn[u].state = "PUBLISHED"
            BY <1>1, <1>8, <2>1, <2>6 DEF DecisionSound
        <3>3. \A t \in Ids : txn'[t].state \notin {"PUBLISHED"}
            BY <2>4, <3>1, <3>2, SaveActivatingEffect DEF NonterminalStates
        <3> QED
            BY <1>3, <2>2, <2>3, <2>6, <3>3 DEF PastOK, Nowhere, EnvPcs
    <2>7. CASE d.action \in {"PERSIST_PUBLISHED", "COMMIT"}
        <3>1. \/ d.action = "PERSIST_PUBLISHED" /\ d.next = "PUBLISHED" /\ txn[u].state = "SEALED"
              \/ d.action = "COMMIT" /\ d.next = "COMMITTED" /\ txn[u].state = "ACTIVATING"
            BY <1>1, <1>8, <2>1, <2>7 DEF DecisionSound
        <3>2. SaveState(u, d.next)
            <4>1. d.next # ""
                <5>1. "PUBLISHED" # "" /\ "COMMITTED" # ""
                    BY Zenon
                <5> QED
                    BY Zenon, <3>1, <5>1
            <4> QED
                BY <2>2, <2>7, <4>1 DEF SavedRecords, SaveState
        <3>3. txn'[u].state = d.next /\ \A v \in Ids \ {u} : txn'[v] = txn[v]
            BY <3>2, SaveStateEffect
        <3>4. /\ d.action = "PERSIST_PUBLISHED" => \A t \in Ids : txn'[t].state \notin {"SEALED"}
              /\ d.action = "COMMIT" => \A t \in Ids : txn'[t].state \notin {"ACTIVATING"}
            BY <2>4, <3>1, <3>3 DEF NonterminalStates
        <3> QED
            BY <1>3, <2>2, <2>3, <2>7, <3>4 DEF PastOK, Nowhere, EnvPcs
    <2>8. d.action \in {"NONE", "RECONCILE_ENV", "ACTIVATE", "PERSIST_ACTIVATING", "PERSIST_PUBLISHED", "COMMIT"}
        BY <1>1, <1>8 DEF DecisionSound, TreeActions
    <2> QED
        BY <2>5, <2>6, <2>7, <2>8
<1> QED
    BY <1>5, <1>6, <1>7, <1>8

\* Every step keeps it so.
LEMMA StepKeepsPast ==
    ASSUME IInv, AnyInv, PastOK, [Next]_vars
    PROVE  PastOK'
<1> USE DEF IInv
<1> SUFFICES ASSUME job'.by = "recover" PROVE PastOK'
    BY DEF PastOK
<1>1. ~ReturnError /\ ~Release /\ job' # Idle
    BY LockFields DEF ReturnError, Release
<1>2. CASE ReconcileHome \/ ReconcilePath \/ ReconcileReadback
    <2>1. /\ job.pc \in EnvPcs /\ UNCHANGED <<active, admitted>>
          /\ job.pc # "point" /\ job.pc # "persist"
        BY <1>2 DEF ReconcileHome, ReconcilePath, ReconcileReadback, EnvPcs
    <2>2. job'.prev = job.prev /\ job.by = "recover"
        <3>1. NextStep => job'.prev = job.prev
            BY <2>1, NextStepType DEF TypeOK, StepOK, EnvPcs
        <3>2. EndTail => job'.prev = job.prev /\ job.by = "recover"
            BY <1>1, <3>1 DEF EndTail
        <3>3. \A p : job' = [job EXCEPT !.pc = "path", !.plan = p] => job'.by = job.by /\ job'.prev = job.prev
            BY PlanFields
        <3> QED
            BY <1>1, <1>2, <3>2, <3>3, GotoFields, TailFields DEF ReconcileHome, ReconcilePath, ReconcileReadback
    <2>3. \A t \in Ids : txn'[t].state = txn[t].state \/ txn'[t].state \in TerminalStates
        <3>1. CASE txn' = txn
            BY <3>1
        <3>2. CASE txn' # txn
            <4>1. SaveState(job.t, "COMMITTED") /\ job.t \in Ids
                BY <1>2, <3>2 DEF ReconcileHome, ReconcilePath, ReconcileReadback, HolderOK
            <4> QED
                BY <4>1, SaveStateEffect DEF TerminalStates
        <3> QED
            BY <3>1, <3>2
    <2> QED
        BY <2>1, <2>2, <2>3, PastStays
<1>3. CASE WriteActive
    <2>1. job.pc = "point" /\ job.t \in Ids /\ txn[job.t].state = "ACTIVATING" /\ txn' = txn /\ admitted' = admitted
        BY <1>3 DEF WriteActive, HolderOK, RecordOK
    <2>2. active' = job.t /\ (IF job.by = "recover" THEN NextStep ELSE Goto("home"))
        BY <1>1, <1>3 DEF WriteActive
    <2>3. job.by = "recover"
        BY <2>2, GotoFields
    <2>4. job'.pc = "observe" /\ job'.prev = job.prev
        BY <2>1, <2>2, <2>3, NextStepType DEF TypeOK, StepOK
    <2>5. \A t \in Ids : txn'[t].state = "ACTIVATING" => active' = t
        BY <2>1, <2>2 DEF AtMostOneNonterminal, NonterminalStates
    <2> QED
        BY <2>1, <2>3, <2>4, <2>5 DEF PastOK, Nowhere, EnvPcs
<1>4. CASE RecoverStep
    BY <1>4, TurnIsPast
<1>5. CASE RecoverPersist
    <2>1. /\ job.pc = "persist" /\ job.by = "recover" /\ job.t \in Ids /\ UNCHANGED <<active, admitted>>
          /\ txn[job.t].state \in FailableStates /\ NextStep
        BY <1>5 DEF RecoverPersist, HolderOK, RecordOK
    <2>2. job'.pc = "observe" /\ job'.prev = job.prev
        BY <2>1, NextStepType DEF TypeOK, StepOK
    <2>3. SaveState(job.t, "FAILED")
        <3>1. job.prev.next = "FAILED"
            BY <2>1 DEF RecordOK
        <3>2. "FAILED" # ""
            BY Zenon
        <3> QED
            BY Zenon, <1>5, <3>1, <3>2 DEF RecoverPersist
    <2>4. txn'[job.t].state = "FAILED" /\ \A v \in Ids \ {job.t} : txn'[v] = txn[v]
        BY <2>1, <2>3, SaveStateEffect
    <2>5. \A t \in Ids : txn'[t].state \notin FailableStates
        BY <2>1, <2>4 DEF AtMostOneNonterminal, FailableStates, NonterminalStates
    <2>6. \A t \in Ids : txn'[t].state # "FAILED" => txn'[t].state = txn[t].state
        BY <2>4
    <2>7. \A t \in Ids : txn'[t].state \in {"SEALED", "PUBLISHED", "ACTIVATING"} => txn'[t].state = txn[t].state
        BY <2>6
    <2>8. /\ job.prev.action = "PERSIST_PUBLISHED" => \A t \in Ids : txn'[t].state \notin {"SEALED"}
          /\ job.prev.action = "PERSIST_ACTIVATING" => \A t \in Ids : txn'[t].state \notin {"PUBLISHED"}
          /\ job.prev.action = "COMMIT" => \A t \in Ids : txn'[t].state \notin {"ACTIVATING"}
        BY <2>1, <2>7 DEF PastOK, Nowhere
    <2>9. job.prev.action = "ACTIVATE" => \A t \in Ids : txn'[t].state = "ACTIVATING" => active' = t
        BY <2>1, <2>7 DEF PastOK
    <2>10. admitted' = 0
        BY <2>1 DEF PastOK
    <2> QED
        BY <2>2, <2>5, <2>8, <2>9, <2>10 DEF PastOK, Nowhere, EnvPcs
<1>6. CASE IOFault
    <2>1. UNCHANGED <<txn, active, admitted>>
        BY <1>6 DEF IOFault
    <2>2. job.pc \in EnvPcs \cup {"gc"} /\ job.by = "recover" /\ job'.prev = job.prev
        <3>1. job.pc \in EnvPcs => (NextStep => job'.prev = job.prev)
            BY NextStepType DEF TypeOK, StepOK, EnvPcs
        <3>2. ASSUME Goto("fail"), job.pc \in {"mkdir", "build", "seal", "candidate", "record"} PROVE FALSE
            BY <3>2, GotoFields DEF HolderOK, WorkerPcs
        <3>3. CASE job.pc = "gc"
            BY <1>1, <1>6, <3>3, TailFields DEF IOFault, EnvPcs
        <3>4. CASE job.pc \in EnvPcs
            BY <1>1, <1>6, <3>1, <3>4 DEF IOFault, EndTail, EnvPcs
        <3> QED
            BY <1>1, <1>6, <3>2, <3>3, <3>4 DEF IOFault
    <2> QED
        BY <2>1, <2>2, PastStays DEF EnvPcs
<1>7. CASE Crash
    <2>1. job'.prev.action = "NONE" /\ job'.pc = "observe" /\ admitted' = 0
        BY <1>7, FirstPast, LockFields DEF Crash
    <2> QED
        BY <2>1 DEF PastOK, EnvPcs
<1>8. CASE CollectEnd
    <2>1. job' = [job EXCEPT !.pc = "home", !.tail = TRUE] /\ job.pc = "gc" /\ UNCHANGED <<txn, active, admitted>>
        BY <1>1, <1>8 DEF CollectEnd
    <2> QED
        BY <2>1, TailFields, PastStays
<1>9. CASE job' = job /\ (Aside \/ \E p \in Places, t \in Ids : CollectTree(p, t))
    <2>1. job.by = "recover" /\ admitted = 0 /\ \A t \in Ids : pend[t] = "none"
        BY <1>9 DEF PastOK, PendingOK
    <2>2. UNCHANGED <<txn, active, admitted>>
        <3>1. ASSUME NEW t \in Ids, CancelContext(t) \/ StartSpawn(t) \/ MarkTransactionFailed(t)
                                    \/ SetInstallIdentity(t) \/ WorkerLock(t) \/ WorkerQuit(t)
              PROVE  UNCHANGED <<txn, active, admitted>>
            BY <2>1, <3>1
            DEF CancelContext, StartSpawn, MarkTransactionFailed, SetInstallIdentity, WorkerLock, WorkerQuit
        <3>2. ASSUME NEW p \in Places, NEW t \in Ids, CollectTree(p, t) PROVE UNCHANGED <<txn, active, admitted>>
            BY <3>2 DEF CollectTree
        <3> QED
            BY <1>9, <2>1, <3>1, <3>2
            DEF Aside, RejectInvalidPointer, AdmitStart, RefuseStart, Drift, Damage, vars
    <2> QED
        BY <1>9, <2>1, <2>2, PastStays
<1>10. CASE Aside /\ job' # job
    <2>1. \E t \in Ids : WorkerLock(t)
        BY <1>10
        DEF Aside, RejectInvalidPointer, AdmitStart, RefuseStart, Drift, Damage, vars, CancelContext,
            StartSpawn, MarkTransactionFailed, SetInstallIdentity, WorkerQuit
    <2> QED
        BY <1>10, <2>1, LockFields DEF WorkerLock
<1>11. CASE StartLock \/ StartCreate
    BY <1>1, <1>11, LockFields DEF StartLock, StartCreate
<1>12. CASE SealLoad \/ CreateGeneration \/ CandidateTemp \/ CandidateRecord \/ Build \/ Seal
            \/ PersistSealed \/ Publish \/ MarkActivating \/ Fail
    <2>1. job.by = "worker"
        BY <1>12
        DEF SealLoad, CreateGeneration, CandidateTemp, CandidateRecord, Build, Seal, PersistSealed,
            Publish, MarkActivating, Fail, HolderOK, WorkerPcs
    <2>2. CASE SealLoad
        BY <1>1, <2>1, <2>2 DEF SealLoad, TypeOK, Jobs
    <2> QED
        BY <1>1, <1>12, <2>1, <2>2, GotoFields
        DEF CreateGeneration, CandidateTemp, CandidateRecord, Build, Seal, PersistSealed, Publish,
            MarkActivating, Fail
<1>13. ASSUME NEW p \in Places, NEW t \in Ids, CollectTree(p, t) PROVE job' = job
    BY <1>13 DEF CollectTree
<1> QED
    BY <1>2, <1>3, <1>4, <1>5, <1>6, <1>7, <1>8, <1>9, <1>10, <1>11, <1>12, <1>13
    DEF Next, Request, Daemon, Trouble, Handler, Worker, Reconcile, Collect, Recovery, Aside

-----------------------------------------------------------------------------
(* What closes the gate.                                                   *)

\* Where nothing moves only outsiders and a restart do.
LEMMA StillMoves ==
    ASSUME IInv, AllStill, gate = "BLOCKED_UNSAFE", [Next]_vars
    PROVE  \/ Crash
           \/ (Drift \/ Damage \/ UNCHANGED vars) /\ UNCHANGED <<txn, active, gate, job, admitted, pend>>
<1> USE DEF IInv
<1>1. job.by = "none" /\ job.pc = "idle" /\ admitted = 0 /\ \A t \in Ids : pend[t] = "none"
    BY DEF AllStill, HolderOK
<1>2. ~(RejectInvalidPointer \/ AdmitStart \/ RefuseStart \/ StartLock \/ \E t \in Ids : CancelContext(t))
    BY <1>1 DEF RejectInvalidPointer, AdmitStart, RefuseStart, StartLock, CancelContext
<1>3. ~Handler
    BY <1>1 DEF Handler, StartCreate, StartSpawn, MarkTransactionFailed
<1>4. ~Worker
    BY <1>1
    DEF Worker, SetInstallIdentity, WorkerLock, WorkerQuit, SealLoad, CreateGeneration, CandidateTemp,
        CandidateRecord, Build, Seal, PersistSealed, Publish, MarkActivating, WriteActive, Fail
<1>5. ~Reconcile /\ ~Collect /\ ~Recovery /\ ~IOFault
    BY <1>1
    DEF Reconcile, ReconcileHome, ReconcilePath, ReconcileReadback, Collect, CollectEnd, CollectTree,
        Recovery, RecoverStep, RecoverPersist, IOFault
<1>6. Crash \/ Drift \/ Damage \/ UNCHANGED vars
    BY <1>2, <1>3, <1>4, <1>5 DEF Next, Request, Daemon, Trouble
<1>7. Drift \/ Damage \/ UNCHANGED vars => UNCHANGED <<txn, active, gate, job, admitted, pend>>
    BY DEF Drift, Damage, vars
<1> QED
    BY <1>6, <1>7

\* With working storage a step closes the gate of a valid active.json only when
\* recovery refuses what it observes.
LEMMA WhatCloses ==
    ASSUME IInv, TreesOK, PastOK, AnyInv, [Next]_vars, ReadActive # "INVALID", ~IOFault,
           job.pc = "observe" => job.step < MaxRecoverSteps,
           gate # "BLOCKED_UNSAFE", gate' = "BLOCKED_UNSAFE"
    PROVE  /\ RecoverStep /\ RecoverBlock
           /\ DecideRecovery(Observation).action = "BLOCK_UNSAFE"
<1> USE DEF IInv
<1>1. ~Crash /\ ~RejectInvalidPointer
    BY DEF Crash, RejectInvalidPointer
<1>2. ASSUME job.by = "worker" \/ job.pc \in EnvPcs, ReturnError PROVE FALSE
    <2>1. CASE job.by = "worker"
        BY <1>2, <2>1 DEF ReturnError
    <2>2. CASE job.by # "worker"
        <3>1. job.by = "recover" /\ job.pc \in EnvPcs /\ ~Settled(job.prev)
            BY <1>2, <2>2 DEF AnyInv, WhoOK
        <3>2. job.prev.action = "RECONCILE_ENV"
            BY <3>1 DEF PastOK
        <3>3. gate' = "RECONCILING"
            BY <1>2, <3>1, <3>2 DEF ReturnError, EnvPcs
        <3> QED
            BY <3>3
    <2> QED
        BY <2>1, <2>2
<1>3. CASE ReconcileHome \/ ReconcileReadback
    BY <1>2, <1>3 DEF ReconcileHome, ReconcileReadback, EnvPcs
<1>4. CASE WriteActive
    <2>1. PICK u \in Ids : u = job.t
        BY <1>4 DEF WriteActive, HolderOK
    <2>2. TreeOK(u) /\ txn[u].state = "ACTIVATING" /\ active # u
        BY <1>4, <2>1 DEF WriteActive, RecordOK, TreesOK
    <2>3. Generation(job.t) = "sealed" /\ CasAllowsActivate(job.t)
        BY <2>1, <2>2 DEF TreeOK, CasAllowsActivate
    <2> QED
        BY <1>4, <2>3 DEF WriteActive
<1>5. CASE RecoverStep
    <2> DEFINE d == DecideRecovery(Observation)
    <2>1. DecisionSound(d)
        BY RecoveryDecisionSound
    <2>2. job.pc = "observe" /\ job.by = "recover" /\ job.step < MaxRecoverSteps
        BY <1>5 DEF RecoverStep, HolderOK
    <2>3. ~(RecoverSettle(d) /\ Settled(d))
        <3>1. d.gate = "BLOCKED_UNSAFE" => d.action = "BLOCK_UNSAFE"
            BY OnlyBlockedCloses
        <3>2. Settled(d) => d.action # "BLOCK_UNSAFE"
            BY Zenon DEF Settled
        <3> QED
            BY <3>1, <3>2 DEF RecoverSettle
    <2>4. \A x : ~RecoverTree(d, x) /\ ~RecoverRecord(d, x)
        BY DEF RecoverTree, RecoverRecord
    <2>5. d.action = "MOVE_STAGING_TO_FAILED" => Settled(d)
        BY <2>1 DEF DecisionSound
    <2>6. ~(d.action = "MOVE_STAGING_TO_FAILED")
        BY Zenon, <2>5 DEF Settled
    <2>7. RecoverBlock
        BY <1>5, <2>3, <2>4 DEF RecoverStep
    <2>8. d.action = "BLOCK_UNSAFE" \/ (~Settled(d) /\ ~ForwardOrNoop(job.prev, d))
        <3>1. job.step # MaxRecoverSteps
            BY <2>2
        <3>2. \/ d.action = "BLOCK_UNSAFE" \/ job.step = MaxRecoverSteps
              \/ ~Settled(d) /\ ~ForwardOrNoop(job.prev, d)
              \/ d.action = "MOVE_STAGING_TO_FAILED"
            BY <1>5, <2>3, <2>4 DEF RecoverStep
        <3> QED
            BY <2>6, <3>1, <3>2
    <2> HIDE DEF d
    <2>9. d.action = "BLOCK_UNSAFE"
        BY <2>1, <2>2, <2>8, NotDecidedAgain
    <2> QED
        BY <1>5, <2>7, <2>9 DEF d
<1>6. CASE gate' = gate
    BY <1>6
<1>7. StartLock \/ StartCreate \/ AdmitStart \/ RefuseStart => gate' = gate
    BY DEF StartLock, StartCreate, AdmitStart, RefuseStart
<1>8. ASSUME NEW t \in Ids,
             \/ CancelContext(t) \/ StartSpawn(t) \/ MarkTransactionFailed(t)
             \/ SetInstallIdentity(t) \/ WorkerLock(t) \/ WorkerQuit(t)
      PROVE  gate' = gate
    BY <1>8
    DEF CancelContext, StartSpawn, MarkTransactionFailed, SetInstallIdentity, WorkerLock, WorkerQuit
<1>9. SealLoad \/ CreateGeneration \/ CandidateTemp \/ CandidateRecord \/ Build \/ Seal \/ PersistSealed
      \/ Publish \/ MarkActivating \/ Fail => gate' = gate
    BY DEF SealLoad, CreateGeneration, CandidateTemp, CandidateRecord, Build, Seal, PersistSealed,
           Publish, MarkActivating, Fail
<1>10. ReconcilePath \/ Collect \/ RecoverPersist \/ Drift \/ Damage \/ UNCHANGED vars => gate' = gate
    BY DEF ReconcilePath, Collect, CollectEnd, CollectTree, RecoverPersist, Drift, Damage, vars
<1> QED
    BY <1>1, <1>3, <1>4, <1>5, <1>6, <1>7, <1>8, <1>9, <1>10
    DEF Next, Request, Daemon, Trouble, Handler, Worker, Reconcile, Recovery

\* Behind the gate the windows stay as recovery found them.
LEMMA StepKeepsRefused ==
    ASSUME BlockInv, [Next]_vars
    PROVE  RefusedOK'
<1> USE DEF BlockInv
<1> SUFFICES ASSUME Few', gate' = "BLOCKED_UNSAFE", ReadActive' # "INVALID"
             PROVE  AllStill' /\ Window'
    BY DEF RefusedOK
<1>1. IInv /\ TypeOK
    BY DEF LInv, IInv
<1>2. ReadActive # "INVALID"
    BY InvalidStays
<1>3. Few /\ ~IOFault
    <2>1. PICK f \in Int : f = left.fault
        BY <1>1 DEF TypeOK
    <2>2. PICK g \in Int : g = left.drift
        BY <1>1 DEF TypeOK
    <2>3. IOFault => left'.fault = f - 1
        BY <1>1, <2>1 DEF IOFault, TypeOK
    <2>4. Drift => left'.fault = f /\ left'.drift = g - 1
        BY <1>1, <2>1, <2>2 DEF Drift, TypeOK
    <2>5. Crash => left'.fault = f /\ left'.drift = g
        BY <1>1, <2>1, <2>2 DEF Crash, TypeOK
    <2>6. ~(IOFault \/ Drift \/ Crash) => left' = left
        BY DEF Next, Request, Daemon, Trouble, Handler, Worker, Reconcile, Collect, Recovery, vars, outside,
               RejectInvalidPointer, AdmitStart, RefuseStart, StartLock, CancelContext,
               StartCreate, StartSpawn, MarkTransactionFailed, SetInstallIdentity, WorkerLock, WorkerQuit,
               SealLoad, CreateGeneration, CandidateTemp, CandidateRecord, Build, Seal, PersistSealed,
               Publish, MarkActivating, WriteActive, Fail, ReconcileHome, ReconcilePath, ReconcileReadback,
               CollectEnd, CollectTree, RecoverStep, RecoverPersist, Damage
    <2>7. f <= MaxFaults /\ MaxFaults \in Int /\ MaxDrifts \in Int
        BY <2>1, BoundsAssumption
    <2>8. left'.fault = MaxFaults /\ left'.drift + 2 >= MaxDrifts
        BY DEF Few, NoFaultYet
    <2>9. ~IOFault
        BY <2>3, <2>7, <2>8
    <2>10. f = MaxFaults /\ g + 2 >= MaxDrifts
        BY <2>1, <2>2, <2>4, <2>5, <2>6, <2>7, <2>8, <2>9
    <2> QED
        BY <2>1, <2>2, <2>9, <2>10 DEF Few, NoFaultYet
<1>4. CASE gate = "BLOCKED_UNSAFE"
    <2>1. AllStill /\ Window
        BY <1>2, <1>3, <1>4 DEF RefusedOK
    <2>2. (Drift \/ Damage \/ UNCHANGED vars) /\ UNCHANGED <<txn, active, gate, job, admitted, pend>>
        <3>1. ~Crash
            BY DEF Crash
        <3> QED
            BY <1>1, <1>4, <2>1, <3>1, StillMoves
    <2>3. ASSUME NEW t \in Ids, txn[t].state = "BUILDING" PROVE Generation(t)' = Generation(t)
        <3>1. CASE Damage
            <4>1. active \in Ids /\ active # t /\ \E tree : SetTree("generations", active, tree)
                BY <1>1, <2>3, <3>1, BoundsAssumption DEF Damage, TypeOK
            <4> QED
                BY <1>1, <4>1, SetTreeEffect DEF Places
        <3>2. CASE ~Damage
            BY <2>2, <3>2 DEF Drift, vars, Generation
        <3> QED
            BY <3>1, <3>2
    <2>4. Window'
        BY <2>1, <2>2, <2>3 DEF Window
    <2>5. AllStill'
        BY <2>1, <2>2 DEF AllStill
    <2> QED
        BY <2>4, <2>5
<1>5. CASE gate # "BLOCKED_UNSAFE"
    <2>1. job.pc = "observe" => job.step < MaxRecoverSteps
        <3> SUFFICES ASSUME job.pc = "observe" PROVE job.step < MaxRecoverSteps
            OBVIOUS
        <3>1. job.by = "recover"
            BY DEF AnyInv, WhoOK
        <3>2. 0 <= Remaining
            BY <3>1 DEF TurnsOK, NeedsAtMost
        <3>3. job.step \in Int /\ left.drift \in Int /\ MaxDrifts \in Int
            BY <1>1, StepIsNumber, BoundsAssumption DEF TypeOK
        <3>4. left.drift + 2 >= MaxDrifts
            BY <1>3 DEF Few
        <3> QED
            BY <3>2, <3>3, <3>4 DEF Remaining
    <2>2. RecoverStep /\ RecoverBlock /\ DecideRecovery(Observation).action = "BLOCK_UNSAFE"
        BY <1>1, <1>2, <1>3, <1>5, <2>1, WhatCloses
    <2>3. Window
        BY <1>1, <1>2, <2>2, BlocksInWindow
    <2>4. UNCHANGED <<txn, disk, active, admitted, pend>> /\ job' = Idle /\ job.by = "recover"
        BY <1>1, <2>2 DEF RecoverStep, RecoverBlock, Release, IInv, HolderOK
    <2>5. Window'
        BY <2>3, <2>4 DEF Window, Generation
    <2>6. AllStill'
        BY <1>1, <2>4, LockFields DEF AllStill, PastOK, IInv, PendingOK
    <2> QED
        BY <2>5, <2>6
<1> QED
    BY <1>4, <1>5

\* Faults are only used up.
LEMMA FaultsRunOut ==
    ASSUME TypeOK, left.fault <= MaxFaults, [Next]_vars
    PROVE  left'.fault <= MaxFaults
<1>1. left.fault \in Nat /\ MaxFaults \in Nat
    BY BoundsAssumption DEF TypeOK
<1>2. CASE IOFault \/ Drift \/ Crash
    BY <1>1, <1>2 DEF IOFault, Drift, Crash, TypeOK
<1>3. ~(IOFault \/ Drift \/ Crash) => left' = left
    BY DEF Next, Request, Daemon, Trouble, Handler, Worker, Reconcile, Collect, Recovery, vars, outside,
           RejectInvalidPointer, AdmitStart, RefuseStart, StartLock, CancelContext,
           StartCreate, StartSpawn, MarkTransactionFailed, SetInstallIdentity, WorkerLock, WorkerQuit,
           SealLoad, CreateGeneration, CandidateTemp, CandidateRecord, Build, Seal, PersistSealed,
           Publish, MarkActivating, WriteActive, Fail, ReconcileHome, ReconcilePath, ReconcileReadback,
           CollectEnd, CollectTree, RecoverStep, RecoverPersist, Damage
<1> QED
    BY <1>1, <1>2, <1>3

\* The first recovery of an empty disk finds nothing to refuse.
LEMMA FreshBlock ==
    ASSUME World = "fresh", Init
    PROVE  BlockInv
<1>1. LInv /\ AnyInv /\ TurnsOK
    BY FreshLineage, InitAny, InitTurns
<1>2. \A t \in Ids : txn[t].state = "NONE"
    BY DEF Init, FreshWorld, NoTxn
<1>3. TreesOK
    <2>1. job.pc = "observe"
        BY LockFields DEF Init
    <2> QED
        BY <1>2, <2>1 DEF TreesOK, TreeOK
<1>4. PastOK
    <2>1. job.prev.action = "NONE" /\ job.pc = "observe" /\ admitted = 0
        BY FirstPast, LockFields DEF Init
    <2> QED
        BY <2>1 DEF PastOK, EnvPcs
<1>5. RefusedOK /\ left.fault <= MaxFaults
    BY BoundsAssumption DEF Init, RefusedOK
<1> QED
    BY <1>1, <1>3, <1>4, <1>5 DEF BlockInv

\* With working storage and a valid active.json, what crashes leave behind is
\* rolled forward or failed by the next recovery, except in the two windows of
\* createFreshGenerationCandidate and of PUBLISHED before ACTIVATING: only there
\* does the gate stay closed, as long as no more than two edits of the registry
\* were made.
THEOREM BlocksOnlyInWindow ==
    ASSUME World = "fresh"
    PROVE  Spec => [](left.drift + 2 >= MaxDrifts => BlockedOnlyInWindow)
<1>1. Init => BlockInv
    BY FreshBlock
<1>2. BlockInv /\ [Next]_vars => BlockInv'
    <2> SUFFICES ASSUME BlockInv, [Next]_vars PROVE BlockInv'
        OBVIOUS
    <2>1. IInv /\ TypeOK
        BY DEF BlockInv, LInv, IInv
    <2>2. LInv' /\ AnyInv' /\ TurnsOK'
        BY StepKeepsLineage, StepKeepsAny, StepKeepsTurns DEF BlockInv
    <2>3. TreesOK' /\ PastOK'
        BY <2>1, StepKeepsTrees, StepKeepsPast DEF BlockInv
    <2>4. RefusedOK' /\ left'.fault <= MaxFaults
        BY <2>1, StepKeepsRefused, FaultsRunOut DEF BlockInv
    <2> QED
        BY <2>2, <2>3, <2>4 DEF BlockInv
<1>3. BlockInv => (left.drift + 2 >= MaxDrifts => BlockedOnlyInWindow)
    BY DEF BlockInv, RefusedOK, Few, Window, BlockedOnlyInWindow
<1> QED
    BY <1>1, <1>2, <1>3, PTL DEF Spec
=============================================================================
