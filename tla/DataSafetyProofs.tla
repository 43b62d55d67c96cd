-------------------------- MODULE DataSafetyProofs --------------------------
(***************************************************************************)
(* The user's data, for any number of restores, schema versions, jobs,     *)
(* files and archive entries, and any number of crashes and failing calls: *)
(*                                                                         *)
(*   a restore never loses the tree it promised, and answers what it did;  *)
(*   a migration never serves a half migrated database, nor loses a row;   *)
(*   every backup that is listed can be decrypted with the device key;     *)
(*   a snapshot that is accepted is the directory at one moment;           *)
(*   a backup that is read again is accepted for what it is;               *)
(*   the renamed product starts from a whole copy of the old one's data;   *)
(*   a channel's row, its files and its operations tell the same story.    *)
(*                                                                         *)
(* Each part gives the component's inductive invariant, shows that each    *)
(* action keeps it and that it implies the property the runs check.        *)
(***************************************************************************)
EXTENDS RestoreTransaction, MigrationProtection, BackupStore, BackupSnapshot,
        BackupArtifact, ProductData, ChannelConnection, FiniteSetTheorems, TLAPS

-----------------------------------------------------------------------------

(***************************************************************************)
(* A restore.                                                              *)
(***************************************************************************)
Outcomes == {"none", "verified", "RECOVERY_REQUIRED", "SUCCEEDED", "ROLLED_BACK", "ERROR", "recovered"}
Verdicts == {"none", "RECOVERY_REQUIRED", "SUCCEEDED", "ROLLED_BACK", "ERROR"}
EarlySteps == {"writePreparing", "extract", "writePrepared", "moveCurrent"}
LateSteps == {"writeMoved", "activate", "writeActivated", "postcheck", "discard", "rollback", "rollbackBack"}
UpSteps == {"idle", "cleanup"} \cup EarlySteps \cup LateSteps
Trees == Nat \ {Half}

TxnRecords == [open : BOOLEAN, candidate : Trees, previous : Nat, aside : Nat, before : Nat,
               phase : {"absent", "preparing", "prepared", "current-moved", "activated", "torn"},
               outcome : Outcomes]

RestoreType ==
    /\ root \in Nat /\ trees \in Nat /\ wanted \in Nat /\ faults \in Nat
    /\ FirstTree <= wanted /\ wanted <= trees
    /\ rTxn \in Txns /\ verdict \in Verdicts
    /\ \/ rDaemon = "up" /\ rAt \in UpSteps
       \/ rDaemon = "recovering" /\ rAt \in {"idle", "recoverBack", "recoverRemove"}
       \/ rDaemon \in {"down", "refused"} /\ rAt = "idle"
    /\ txn \in [Txns -> TxnRecords]

\* The restore at hand, by the step RestoreBackup is at.
PhaseFits(r) ==
    /\ rAt = "writePreparing" => r.phase = "absent"
    /\ rAt \in {"extract", "writePrepared"} => r.phase = "preparing"
    /\ rAt \in {"moveCurrent", "writeMoved"} => r.phase = "prepared"
    /\ rAt \in {"activate", "writeActivated"} => r.phase = "current-moved"
    /\ rAt \in {"postcheck", "discard"} => r.phase = "activated"

AtCleanup(r) ==
    /\ r.previous = Nothing /\ root # Nothing
    /\ \/ verdict = "SUCCEEDED" /\ root = wanted /\ r.outcome = "verified"
       \/ verdict \in {"ERROR", "ROLLED_BACK"} /\ root = r.before /\ r.outcome = "none"

AtHand(r) ==
    /\ r.open /\ r.aside = Nothing /\ r.before # Nothing
    /\ PhaseFits(r)
    /\ rAt \in EarlySteps => root = r.before /\ r.previous = Nothing
    /\ rAt \in LateSteps => r.previous = r.before
    /\ rAt \in {"writeMoved", "activate", "rollbackBack"} => root = Nothing
    /\ rAt \in {"writeActivated", "postcheck", "rollback"} => root \in (FirstTree..trees) \ {wanted}
    /\ rAt \in {"writePrepared", "moveCurrent", "writeMoved", "activate"} => r.candidate \in (FirstTree..trees) \ {wanted}
    /\ rAt = "discard" => r.outcome = "verified" /\ root = wanted
    /\ rAt \in (EarlySteps \cup LateSteps) \ {"discard"} => r.outcome = "none"
    /\ rAt = "cleanup" => AtCleanup(r)

\* A transaction directory that was left, while the daemon serves.
LeftBehind(r) == r.open => r.outcome \notin {"none", "verified"} /\ r.aside = Nothing

WhileUp ==
    rDaemon = "up" =>
        /\ rAt # "idle" => AtHand(txn[rTxn])
        /\ \A t \in Txns : t # rTxn \/ rAt = "idle" => LeftBehind(txn[t])

Marked == \E t \in Txns : txn[t].outcome \in {"verified", "RECOVERY_REQUIRED"}

\* Only a restore that answered RECOVERY_REQUIRED, or that nobody has answered,
\* leaves a previous tree.
Answered ==
    \A t \in Txns : txn[t].open /\ txn[t].outcome \notin {"none", "verified", "RECOVERY_REQUIRED"} =>
        txn[t].previous = Nothing /\ txn[t].aside = Nothing

WhileDown ==
    rDaemon # "up" =>
        /\ \A t, u \in Txns : txn[t].open /\ txn[u].open /\ txn[t].outcome = "none" /\ txn[u].outcome = "none" => t = u
        /\ ~Marked => \A t \in Txns : txn[t].open /\ txn[t].outcome = "none" =>
              txn[t].aside # wanted /\ (txn[t].previous # Nothing => root # wanted)
        /\ rAt = "recoverBack" => root = Nothing /\ txn[rTxn].previous # Nothing /\ txn[rTxn].open
        /\ rAt = "recoverRemove" => txn[rTxn].previous = Nothing /\ txn[rTxn].open

HalfBlamed ==
    (root = Half \/ \E t \in Txns : Half \in {txn[t].previous, txn[t].aside, txn[t].before}) =>
        faults > 0 \/ "discard" \in stops

Unlucky == {"torn", "absent", "rollbackBack", "recoverBack", "recoverRemove"}
Clean == faults = 0 /\ stops \cap Unlucky = {}
Recoverable(r) ==
    /\ r.aside = Nothing
    /\ \/ r.phase \in {"preparing", "prepared", "activated"} /\ root # Nothing /\ r.previous = Nothing
       \/ r.phase = "prepared" /\ root = Nothing /\ r.previous # Nothing
       \/ r.phase = "current-moved" /\ r.previous # Nothing
       \/ r.phase = "activated" /\ root # Nothing

CleanInv ==
    Clean =>
        /\ rDaemon # "refused"
        /\ \A t \in Txns : txn[t].open => t = rTxn
        /\ rDaemon = "up" /\ rAt = "idle" => ~txn[rTxn].open
        /\ rDaemon \in {"down", "recovering"} /\ rAt = "idle" /\ txn[rTxn].open => Recoverable(txn[rTxn])
        /\ rDaemon = "up" /\ rAt \in {"rollback", "rollbackBack"} => txn[rTxn].phase = "activated"
        /\ rDaemon = "up" /\ rAt = "cleanup" => txn[rTxn].phase \in {"preparing", "activated"}

RestoreInv == RestoreType /\ WhileUp /\ Answered /\ WhileDown /\ HalfBlamed /\ CleanInv
-----------------------------------------------------------------------------
\* No restore has begun at first.
LEMMA RestoreInitially == RestoreInit => RestoreInv
<1> SUFFICES ASSUME RestoreInit PROVE RestoreInv OBVIOUS
<1> USE DEF RestoreInit, Unused, Nothing, FirstTree, Half
<1>1. RestoreType
    BY DEF RestoreType, TxnRecords, Trees, Outcomes, Verdicts, UpSteps
<1>2. WhileUp /\ Answered /\ WhileDown /\ HalfBlamed /\ CleanInv
    BY DEF WhileUp, LeftBehind, Answered, WhileDown, HalfBlamed, CleanInv
<1> QED BY <1>1, <1>2 DEF RestoreInv

\* A step of RestoreBackup changes its own directory.
LEMMA WorkKeeps ==
    ASSUME RestoreInv, rDaemon = "up", rAt # "idle",
           rDaemon' = "up", rTxn' = rTxn, rAt' \in UpSteps, stops' = stops, verdict' \in Verdicts,
           root' \in Nat, trees' \in Nat, wanted' \in Nat, faults' \in Nat, faults <= faults',
           FirstTree <= wanted', wanted' <= trees',
           txn' \in [Txns -> TxnRecords], \A t \in Txns \ {rTxn} : txn'[t] = txn[t],
           rAt' # "idle" => AtHand(txn[rTxn])',
           rAt' = "idle" => (txn'[rTxn].open => faults' > 0) /\ LeftBehind(txn'[rTxn]) /\ txn'[rTxn].aside = Nothing,
           txn'[rTxn].open /\ txn'[rTxn].outcome \notin {"none", "verified", "RECOVERY_REQUIRED"} => txn'[rTxn].previous = Nothing,
           Half \in {root', txn'[rTxn].previous, txn'[rTxn].before} =>
               faults' > 0 \/ Half \in {root, txn[rTxn].previous, txn[rTxn].before},
           Clean' /\ rAt' \in {"rollback", "rollbackBack"} => txn'[rTxn].phase = "activated",
           Clean' /\ rAt' = "cleanup" => txn'[rTxn].phase \in {"preparing", "activated"}
    PROVE  RestoreInv'
<1>0. RestoreType /\ rTxn \in Txns /\ AtHand(txn[rTxn]) /\ WhileUp /\ Answered
    BY DEF RestoreInv, RestoreType, WhileUp
<1>1. RestoreType' BY <1>0 DEF RestoreType
<1>2. WhileUp'
    BY <1>0 DEF WhileUp, LeftBehind
<1>3. Answered'
    <2> SUFFICES ASSUME NEW t \in Txns, txn'[t].open, txn'[t].outcome \notin {"none", "verified", "RECOVERY_REQUIRED"}
                 PROVE  txn'[t].previous = Nothing /\ txn'[t].aside = Nothing
        BY DEF Answered
    <2>1. CASE t = rTxn BY <2>1 DEF AtHand
    <2>2. CASE t # rTxn BY <2>2, <1>0 DEF Answered
    <2> QED BY <2>1, <2>2
<1>4. WhileDown' BY DEF WhileDown
<1>5. HalfBlamed'
    <2> SUFFICES ASSUME root' = Half \/ \E t \in Txns : Half \in {txn'[t].previous, txn'[t].aside, txn'[t].before}
                 PROVE faults' > 0 \/ "discard" \in stops
        BY DEF HalfBlamed
    <2>1. txn'[rTxn].aside = Nothing BY DEF AtHand
    <2>2. faults' > 0 \/ root = Half \/ \E t \in Txns : Half \in {txn[t].previous, txn[t].aside, txn[t].before}
        <3>1. CASE root' = Half BY <3>1, <1>0
        <3>2. CASE \E t \in Txns : Half \in {txn'[t].previous, txn'[t].aside, txn'[t].before}
            <4>1. PICK t \in Txns : Half \in {txn'[t].previous, txn'[t].aside, txn'[t].before} BY <3>2
            <4>2. CASE t = rTxn BY <4>1, <4>2, <2>1, <1>0 DEF Nothing, Half
            <4>3. CASE t # rTxn BY <4>1, <4>3
            <4> QED BY <4>2, <4>3
        <3> QED BY <3>1, <3>2
    <2>3. faults' > 0 \/ faults > 0 \/ "discard" \in stops BY <2>2 DEF RestoreInv, HalfBlamed
    <2>4. faults \in Nat BY <1>0 DEF RestoreType
    <2> QED BY <2>3, <2>4
<1>6. CleanInv'
    <2> SUFFICES ASSUME Clean' PROVE /\ \A t \in Txns : txn'[t].open => t = rTxn
                                      /\ rAt' # "idle"
        BY DEF CleanInv, Clean
    <2>1. faults \in Nat /\ faults' = 0 BY <1>0 DEF RestoreType, Clean
    <2>2. Clean BY <2>1 DEF Clean
    <2>3. \A t \in Txns : txn[t].open => t = rTxn BY <2>2 DEF RestoreInv, CleanInv
    <2> QED BY <2>1, <2>3
<1> QED BY <1>1, <1>2, <1>3, <1>4, <1>5, <1>6 DEF RestoreInv

\* While RestoreBackup is at work its directory is one record of its type.
LEMMA RestoreAtWork ==
    ASSUME RestoreInv, rAt \in UpSteps \ {"idle"}
    PROVE  /\ rDaemon = "up" /\ rTxn \in Txns /\ txn \in [Txns -> TxnRecords] /\ txn[rTxn] \in TxnRecords
           /\ AtHand(txn[rTxn])
           /\ root \in Nat /\ trees \in Nat /\ wanted \in Nat /\ faults \in Nat /\ verdict \in Verdicts
           /\ FirstTree <= wanted /\ wanted <= trees
           /\ Clean => (rAt \in {"rollback", "rollbackBack"} => txn[rTxn].phase = "activated")
<1>1. rDaemon = "up" /\ RestoreType
    BY DEF RestoreInv, RestoreType, UpSteps, EarlySteps, LateSteps
<1> QED BY <1>1 DEF RestoreType, RestoreInv, WhileUp, CleanInv

\* Writing the phase preparing.
LEMMA PreparingStep ==
    ASSUME RestoreInv, WriteEarlyPhase("writePreparing", "extract")
    PROVE  RestoreInv'
<1>0. rAt \in UpSteps \ {"idle"}
    BY DEF WriteEarlyPhase, UpSteps, EarlySteps, LateSteps
<1> USE <1>0, RestoreAtWork DEF WriteEarlyPhase, Writes, LeftByFailedWrite, NoFault, Fault, bounds, Go, Set, Return, Abandon, Undecided
<1>1. txn' \in [Txns -> TxnRecords] /\ \A t \in Txns \ {rTxn} : txn'[t] = txn[t]
    BY DEF TxnRecords, Trees, AtHand, Outcomes, Verdicts, Half, Nothing, FirstTree
<1>2. /\ rDaemon' = "up" /\ rTxn' = rTxn /\ rAt' \in UpSteps /\ stops' = stops /\ verdict' \in Verdicts
      /\ root' \in Nat /\ trees' \in Nat /\ wanted' \in Nat /\ faults' \in Nat /\ faults <= faults'
      /\ FirstTree <= wanted' /\ wanted' <= trees'
    BY DEF UpSteps, EarlySteps, LateSteps, Verdicts, TxnRecords, Trees, AtHand, FirstTree, Nothing
<1>3. rAt' # "idle" => AtHand(txn[rTxn])'
    BY <1>2 DEF AtHand, PhaseFits, AtCleanup, EarlySteps, LateSteps, Nothing, FirstTree, TxnRecords, Trees
<1>4. /\ rAt' = "idle" => (txn'[rTxn].open => faults' > 0) /\ LeftBehind(txn'[rTxn]) /\ txn'[rTxn].aside = Nothing
      /\ txn'[rTxn].open /\ txn'[rTxn].outcome \notin {"none", "verified", "RECOVERY_REQUIRED"} => txn'[rTxn].previous = Nothing
      /\ Half \in {root', txn'[rTxn].previous, txn'[rTxn].before} =>
            faults' > 0 \/ Half \in {root, txn[rTxn].previous, txn[rTxn].before}
    BY <1>2 DEF AtHand, LeftBehind, EarlySteps, LateSteps, Nothing, Half, FirstTree, TxnRecords, Trees
<1>5. /\ Clean' /\ rAt' \in {"rollback", "rollbackBack"} => txn'[rTxn].phase = "activated"
      /\ Clean' /\ rAt' = "cleanup" => txn'[rTxn].phase \in {"preparing", "activated"}
    BY <1>2 DEF Clean, AtHand, PhaseFits, TxnRecords
<1> QED BY <1>1, <1>2, <1>3, <1>4, <1>5, WorkKeeps

\* Extracting the candidate tree.
LEMMA ExtractStep ==
    ASSUME RestoreInv, ExtractCandidate
    PROVE  RestoreInv'
<1>0. rAt \in UpSteps \ {"idle"}
    BY DEF ExtractCandidate, UpSteps, EarlySteps, LateSteps
<1> USE <1>0, RestoreAtWork DEF ExtractCandidate, NoFault, Fault, bounds, Go, Set, Return, Abandon, Undecided
<1>1. txn' \in [Txns -> TxnRecords] /\ \A t \in Txns \ {rTxn} : txn'[t] = txn[t]
    BY DEF TxnRecords, Trees, AtHand, Outcomes, Verdicts, Half, Nothing, FirstTree
<1>2. /\ rDaemon' = "up" /\ rTxn' = rTxn /\ rAt' \in UpSteps /\ stops' = stops /\ verdict' \in Verdicts
      /\ root' \in Nat /\ trees' \in Nat /\ wanted' \in Nat /\ faults' \in Nat /\ faults <= faults'
      /\ FirstTree <= wanted' /\ wanted' <= trees'
    BY DEF UpSteps, EarlySteps, LateSteps, Verdicts, TxnRecords, Trees, AtHand, FirstTree, Nothing
<1>3. rAt' # "idle" => AtHand(txn[rTxn])'
    BY <1>2 DEF AtHand, PhaseFits, AtCleanup, EarlySteps, LateSteps, Nothing, FirstTree, TxnRecords, Trees
<1>4. /\ rAt' = "idle" => (txn'[rTxn].open => faults' > 0) /\ LeftBehind(txn'[rTxn]) /\ txn'[rTxn].aside = Nothing
      /\ txn'[rTxn].open /\ txn'[rTxn].outcome \notin {"none", "verified", "RECOVERY_REQUIRED"} => txn'[rTxn].previous = Nothing
      /\ Half \in {root', txn'[rTxn].previous, txn'[rTxn].before} =>
            faults' > 0 \/ Half \in {root, txn[rTxn].previous, txn[rTxn].before}
    BY <1>2 DEF AtHand, LeftBehind, EarlySteps, LateSteps, Nothing, Half, FirstTree, TxnRecords, Trees
<1>5. /\ Clean' /\ rAt' \in {"rollback", "rollbackBack"} => txn'[rTxn].phase = "activated"
      /\ Clean' /\ rAt' = "cleanup" => txn'[rTxn].phase \in {"preparing", "activated"}
    BY <1>2 DEF Clean, AtHand, PhaseFits, TxnRecords
<1> QED BY <1>1, <1>2, <1>3, <1>4, <1>5, WorkKeeps

\* Writing the phase prepared.
LEMMA PreparedStep ==
    ASSUME RestoreInv, WriteEarlyPhase("writePrepared", "moveCurrent")
    PROVE  RestoreInv'
<1>0. rAt \in UpSteps \ {"idle"}
    BY DEF WriteEarlyPhase, UpSteps, EarlySteps, LateSteps
<1> USE <1>0, RestoreAtWork DEF WriteEarlyPhase, Writes, LeftByFailedWrite, NoFault, Fault, bounds, Go, Set, Return, Abandon, Undecided
<1>1. txn' \in [Txns -> TxnRecords] /\ \A t \in Txns \ {rTxn} : txn'[t] = txn[t]
    BY DEF TxnRecords, Trees, AtHand, Outcomes, Verdicts, Half, Nothing, FirstTree
<1>2. /\ rDaemon' = "up" /\ rTxn' = rTxn /\ rAt' \in UpSteps /\ stops' = stops /\ verdict' \in Verdicts
      /\ root' \in Nat /\ trees' \in Nat /\ wanted' \in Nat /\ faults' \in Nat /\ faults <= faults'
      /\ FirstTree <= wanted' /\ wanted' <= trees'
    BY DEF UpSteps, EarlySteps, LateSteps, Verdicts, TxnRecords, Trees, AtHand, FirstTree, Nothing
<1>3. rAt' # "idle" => AtHand(txn[rTxn])'
    BY <1>2 DEF AtHand, PhaseFits, AtCleanup, EarlySteps, LateSteps, Nothing, FirstTree, TxnRecords, Trees
<1>4. /\ rAt' = "idle" => (txn'[rTxn].open => faults' > 0) /\ LeftBehind(txn'[rTxn]) /\ txn'[rTxn].aside = Nothing
      /\ txn'[rTxn].open /\ txn'[rTxn].outcome \notin {"none", "verified", "RECOVERY_REQUIRED"} => txn'[rTxn].previous = Nothing
      /\ Half \in {root', txn'[rTxn].previous, txn'[rTxn].before} =>
            faults' > 0 \/ Half \in {root, txn[rTxn].previous, txn[rTxn].before}
    BY <1>2 DEF AtHand, LeftBehind, EarlySteps, LateSteps, Nothing, Half, FirstTree, TxnRecords, Trees
<1>5. /\ Clean' /\ rAt' \in {"rollback", "rollbackBack"} => txn'[rTxn].phase = "activated"
      /\ Clean' /\ rAt' = "cleanup" => txn'[rTxn].phase \in {"preparing", "activated"}
    BY <1>2 DEF Clean, AtHand, PhaseFits, TxnRecords
<1> QED BY <1>1, <1>2, <1>3, <1>4, <1>5, WorkKeeps

\* Moving the present tree out of the root.
LEMMA MoveStep ==
    ASSUME RestoreInv, MoveCurrent
    PROVE  RestoreInv'
<1>0. rAt \in UpSteps \ {"idle"}
    BY DEF MoveCurrent, UpSteps, EarlySteps, LateSteps
<1> USE <1>0, RestoreAtWork DEF MoveCurrent, NoFault, Fault, bounds, Go, Set, Return, Abandon, Undecided
<1>1. txn' \in [Txns -> TxnRecords] /\ \A t \in Txns \ {rTxn} : txn'[t] = txn[t]
    BY DEF TxnRecords, Trees, AtHand, Outcomes, Verdicts, Half, Nothing, FirstTree
<1>2. /\ rDaemon' = "up" /\ rTxn' = rTxn /\ rAt' \in UpSteps /\ stops' = stops /\ verdict' \in Verdicts
      /\ root' \in Nat /\ trees' \in Nat /\ wanted' \in Nat /\ faults' \in Nat /\ faults <= faults'
      /\ FirstTree <= wanted' /\ wanted' <= trees'
    BY DEF UpSteps, EarlySteps, LateSteps, Verdicts, TxnRecords, Trees, AtHand, FirstTree, Nothing
<1>3. rAt' # "idle" => AtHand(txn[rTxn])'
    BY <1>2 DEF AtHand, PhaseFits, AtCleanup, EarlySteps, LateSteps, Nothing, FirstTree, TxnRecords, Trees
<1>4. /\ rAt' = "idle" => (txn'[rTxn].open => faults' > 0) /\ LeftBehind(txn'[rTxn]) /\ txn'[rTxn].aside = Nothing
      /\ txn'[rTxn].open /\ txn'[rTxn].outcome \notin {"none", "verified", "RECOVERY_REQUIRED"} => txn'[rTxn].previous = Nothing
      /\ Half \in {root', txn'[rTxn].previous, txn'[rTxn].before} =>
            faults' > 0 \/ Half \in {root, txn[rTxn].previous, txn[rTxn].before}
    BY <1>2 DEF AtHand, LeftBehind, EarlySteps, LateSteps, Nothing, Half, FirstTree, TxnRecords, Trees
<1>5. /\ Clean' /\ rAt' \in {"rollback", "rollbackBack"} => txn'[rTxn].phase = "activated"
      /\ Clean' /\ rAt' = "cleanup" => txn'[rTxn].phase \in {"preparing", "activated"}
    BY <1>2 DEF Clean, AtHand, PhaseFits, TxnRecords
<1> QED BY <1>1, <1>2, <1>3, <1>4, <1>5, WorkKeeps

\* Writing the phase current-moved.
LEMMA MovedStep ==
    ASSUME RestoreInv, WriteMoved
    PROVE  RestoreInv'
<1>0. rAt \in UpSteps \ {"idle"}
    BY DEF WriteMoved, UpSteps, EarlySteps, LateSteps
<1> USE <1>0, RestoreAtWork DEF WriteMoved, LeftByFailedWrite, NoFault, Fault, bounds, Go, Set, Return, Abandon, Undecided
<1>1. txn' \in [Txns -> TxnRecords] /\ \A t \in Txns \ {rTxn} : txn'[t] = txn[t]
    BY DEF TxnRecords, Trees, AtHand, Outcomes, Verdicts, Half, Nothing, FirstTree
<1>2. /\ rDaemon' = "up" /\ rTxn' = rTxn /\ rAt' \in UpSteps /\ stops' = stops /\ verdict' \in Verdicts
      /\ root' \in Nat /\ trees' \in Nat /\ wanted' \in Nat /\ faults' \in Nat /\ faults <= faults'
      /\ FirstTree <= wanted' /\ wanted' <= trees'
    BY DEF UpSteps, EarlySteps, LateSteps, Verdicts, TxnRecords, Trees, AtHand, FirstTree, Nothing
<1>3. rAt' # "idle" => AtHand(txn[rTxn])'
    BY <1>2 DEF AtHand, PhaseFits, AtCleanup, EarlySteps, LateSteps, Nothing, FirstTree, TxnRecords, Trees
<1>4. /\ rAt' = "idle" => (txn'[rTxn].open => faults' > 0) /\ LeftBehind(txn'[rTxn]) /\ txn'[rTxn].aside = Nothing
      /\ txn'[rTxn].open /\ txn'[rTxn].outcome \notin {"none", "verified", "RECOVERY_REQUIRED"} => txn'[rTxn].previous = Nothing
      /\ Half \in {root', txn'[rTxn].previous, txn'[rTxn].before} =>
            faults' > 0 \/ Half \in {root, txn[rTxn].previous, txn[rTxn].before}
    BY <1>2 DEF AtHand, LeftBehind, EarlySteps, LateSteps, Nothing, Half, FirstTree, TxnRecords, Trees
<1>5. /\ Clean' /\ rAt' \in {"rollback", "rollbackBack"} => txn'[rTxn].phase = "activated"
      /\ Clean' /\ rAt' = "cleanup" => txn'[rTxn].phase \in {"preparing", "activated"}
    BY <1>2 DEF Clean, AtHand, PhaseFits, TxnRecords
<1> QED BY <1>1, <1>2, <1>3, <1>4, <1>5, WorkKeeps

\* Moving the candidate into the root.
LEMMA ActivateStep ==
    ASSUME RestoreInv, Activate
    PROVE  RestoreInv'
<1>0. rAt \in UpSteps \ {"idle"}
    BY DEF Activate, UpSteps, EarlySteps, LateSteps
<1> USE <1>0, RestoreAtWork DEF Activate, NoFault, Fault, bounds, Go, Set, Return, Abandon, Undecided
<1>1. txn' \in [Txns -> TxnRecords] /\ \A t \in Txns \ {rTxn} : txn'[t] = txn[t]
    BY DEF TxnRecords, Trees, AtHand, Outcomes, Verdicts, Half, Nothing, FirstTree
<1>2. /\ rDaemon' = "up" /\ rTxn' = rTxn /\ rAt' \in UpSteps /\ stops' = stops /\ verdict' \in Verdicts
      /\ root' \in Nat /\ trees' \in Nat /\ wanted' \in Nat /\ faults' \in Nat /\ faults <= faults'
      /\ FirstTree <= wanted' /\ wanted' <= trees'
    BY DEF UpSteps, EarlySteps, LateSteps, Verdicts, TxnRecords, Trees, AtHand, FirstTree, Nothing
<1>3. rAt' # "idle" => AtHand(txn[rTxn])'
    BY <1>2 DEF AtHand, PhaseFits, AtCleanup, EarlySteps, LateSteps, Nothing, FirstTree, TxnRecords, Trees
<1>4. /\ rAt' = "idle" => (txn'[rTxn].open => faults' > 0) /\ LeftBehind(txn'[rTxn]) /\ txn'[rTxn].aside = Nothing
      /\ txn'[rTxn].open /\ txn'[rTxn].outcome \notin {"none", "verified", "RECOVERY_REQUIRED"} => txn'[rTxn].previous = Nothing
      /\ Half \in {root', txn'[rTxn].previous, txn'[rTxn].before} =>
            faults' > 0 \/ Half \in {root, txn[rTxn].previous, txn[rTxn].before}
    BY <1>2 DEF AtHand, LeftBehind, EarlySteps, LateSteps, Nothing, Half, FirstTree, TxnRecords, Trees
<1>5. /\ Clean' /\ rAt' \in {"rollback", "rollbackBack"} => txn'[rTxn].phase = "activated"
      /\ Clean' /\ rAt' = "cleanup" => txn'[rTxn].phase \in {"preparing", "activated"}
    BY <1>2 DEF Clean, AtHand, PhaseFits, TxnRecords
<1> QED BY <1>1, <1>2, <1>3, <1>4, <1>5, WorkKeeps

\* Writing the phase activated.
LEMMA ActivatedStep ==
    ASSUME RestoreInv, WriteActivated
    PROVE  RestoreInv'
<1>0. rAt \in UpSteps \ {"idle"}
    BY DEF WriteActivated, UpSteps, EarlySteps, LateSteps
<1> USE <1>0, RestoreAtWork DEF WriteActivated, LeftByFailedWrite, NoFault, Fault, bounds, Go, Set, Return, Abandon, Undecided
<1>1. txn' \in [Txns -> TxnRecords] /\ \A t \in Txns \ {rTxn} : txn'[t] = txn[t]
    BY DEF TxnRecords, Trees, AtHand, Outcomes, Verdicts, Half, Nothing, FirstTree
<1>2. /\ rDaemon' = "up" /\ rTxn' = rTxn /\ rAt' \in UpSteps /\ stops' = stops /\ verdict' \in Verdicts
      /\ root' \in Nat /\ trees' \in Nat /\ wanted' \in Nat /\ faults' \in Nat /\ faults <= faults'
      /\ FirstTree <= wanted' /\ wanted' <= trees'
    BY DEF UpSteps, EarlySteps, LateSteps, Verdicts, TxnRecords, Trees, AtHand, FirstTree, Nothing
<1>3. rAt' # "idle" => AtHand(txn[rTxn])'
    BY <1>2 DEF AtHand, PhaseFits, AtCleanup, EarlySteps, LateSteps, Nothing, FirstTree, TxnRecords, Trees
<1>4. /\ rAt' = "idle" => (txn'[rTxn].open => faults' > 0) /\ LeftBehind(txn'[rTxn]) /\ txn'[rTxn].aside = Nothing
      /\ txn'[rTxn].open /\ txn'[rTxn].outcome \notin {"none", "verified", "RECOVERY_REQUIRED"} => txn'[rTxn].previous = Nothing
      /\ Half \in {root', txn'[rTxn].previous, txn'[rTxn].before} =>
            faults' > 0 \/ Half \in {root, txn[rTxn].previous, txn[rTxn].before}
    BY <1>2 DEF AtHand, LeftBehind, EarlySteps, LateSteps, Nothing, Half, FirstTree, TxnRecords, Trees
<1>5. /\ Clean' /\ rAt' \in {"rollback", "rollbackBack"} => txn'[rTxn].phase = "activated"
      /\ Clean' /\ rAt' = "cleanup" => txn'[rTxn].phase \in {"preparing", "activated"}
    BY <1>2 DEF Clean, AtHand, PhaseFits, TxnRecords
<1> QED BY <1>1, <1>2, <1>3, <1>4, <1>5, WorkKeeps

\* The check of the activated tree.
LEMMA PostcheckStep ==
    ASSUME RestoreInv, Postcheck
    PROVE  RestoreInv'
<1>0. rAt \in UpSteps \ {"idle"}
    BY DEF Postcheck, UpSteps, EarlySteps, LateSteps
<1> USE <1>0, RestoreAtWork DEF Postcheck, NoFault, Fault, bounds, Go, Set, Return, Abandon, Undecided
<1>1. txn' \in [Txns -> TxnRecords] /\ \A t \in Txns \ {rTxn} : txn'[t] = txn[t]
    BY DEF TxnRecords, Trees, AtHand, Outcomes, Verdicts, Half, Nothing, FirstTree
<1>2. /\ rDaemon' = "up" /\ rTxn' = rTxn /\ rAt' \in UpSteps /\ stops' = stops /\ verdict' \in Verdicts
      /\ root' \in Nat /\ trees' \in Nat /\ wanted' \in Nat /\ faults' \in Nat /\ faults <= faults'
      /\ FirstTree <= wanted' /\ wanted' <= trees'
    BY DEF UpSteps, EarlySteps, LateSteps, Verdicts, TxnRecords, Trees, AtHand, FirstTree, Nothing
<1>3. rAt' # "idle" => AtHand(txn[rTxn])'
    BY <1>2 DEF AtHand, PhaseFits, AtCleanup, EarlySteps, LateSteps, Nothing, FirstTree, TxnRecords, Trees
<1>4. /\ rAt' = "idle" => (txn'[rTxn].open => faults' > 0) /\ LeftBehind(txn'[rTxn]) /\ txn'[rTxn].aside = Nothing
      /\ txn'[rTxn].open /\ txn'[rTxn].outcome \notin {"none", "verified", "RECOVERY_REQUIRED"} => txn'[rTxn].previous = Nothing
      /\ Half \in {root', txn'[rTxn].previous, txn'[rTxn].before} =>
            faults' > 0 \/ Half \in {root, txn[rTxn].previous, txn[rTxn].before}
    BY <1>2 DEF AtHand, LeftBehind, EarlySteps, LateSteps, Nothing, Half, FirstTree, TxnRecords, Trees
<1>5. /\ Clean' /\ rAt' \in {"rollback", "rollbackBack"} => txn'[rTxn].phase = "activated"
      /\ Clean' /\ rAt' = "cleanup" => txn'[rTxn].phase \in {"preparing", "activated"}
    BY <1>2 DEF Clean, AtHand, PhaseFits, TxnRecords
<1> QED BY <1>1, <1>2, <1>3, <1>4, <1>5, WorkKeeps

\* Removing the previous tree once the new one is verified.
LEMMA DiscardStep ==
    ASSUME RestoreInv, DiscardPrevious
    PROVE  RestoreInv'
<1>0. rAt \in UpSteps \ {"idle"}
    BY DEF DiscardPrevious, UpSteps, EarlySteps, LateSteps
<1> USE <1>0, RestoreAtWork DEF DiscardPrevious, NoFault, Fault, bounds, Go, Set, Return, Abandon, Undecided
<1>1. txn' \in [Txns -> TxnRecords] /\ \A t \in Txns \ {rTxn} : txn'[t] = txn[t]
    BY DEF TxnRecords, Trees, AtHand, Outcomes, Verdicts, Half, Nothing, FirstTree
<1>2. /\ rDaemon' = "up" /\ rTxn' = rTxn /\ rAt' \in UpSteps /\ stops' = stops /\ verdict' \in Verdicts
      /\ root' \in Nat /\ trees' \in Nat /\ wanted' \in Nat /\ faults' \in Nat /\ faults <= faults'
      /\ FirstTree <= wanted' /\ wanted' <= trees'
    BY DEF UpSteps, EarlySteps, LateSteps, Verdicts, TxnRecords, Trees, AtHand, FirstTree, Nothing
<1>3. rAt' # "idle" => AtHand(txn[rTxn])'
    BY <1>2 DEF AtHand, PhaseFits, AtCleanup, EarlySteps, LateSteps, Nothing, FirstTree, TxnRecords, Trees
<1>4. /\ rAt' = "idle" => (txn'[rTxn].open => faults' > 0) /\ LeftBehind(txn'[rTxn]) /\ txn'[rTxn].aside = Nothing
      /\ txn'[rTxn].open /\ txn'[rTxn].outcome \notin {"none", "verified", "RECOVERY_REQUIRED"} => txn'[rTxn].previous = Nothing
      /\ Half \in {root', txn'[rTxn].previous, txn'[rTxn].before} =>
            faults' > 0 \/ Half \in {root, txn[rTxn].previous, txn[rTxn].before}
    BY <1>2 DEF AtHand, LeftBehind, EarlySteps, LateSteps, Nothing, Half, FirstTree, TxnRecords, Trees
<1>5. /\ Clean' /\ rAt' \in {"rollback", "rollbackBack"} => txn'[rTxn].phase = "activated"
      /\ Clean' /\ rAt' = "cleanup" => txn'[rTxn].phase \in {"preparing", "activated"}
    BY <1>2 DEF Clean, AtHand, PhaseFits, TxnRecords
<1> QED BY <1>1, <1>2, <1>3, <1>4, <1>5, WorkKeeps

\* The rollback moves the activated tree aside.
LEMMA AsideStep ==
    ASSUME RestoreInv, RollbackAside
    PROVE  RestoreInv'
<1>0. rAt \in UpSteps \ {"idle"}
    BY DEF RollbackAside, UpSteps, EarlySteps, LateSteps
<1> USE <1>0, RestoreAtWork DEF RollbackAside, NoFault, Fault, bounds, Go, Set, Return, Abandon, Undecided
<1>1. txn' \in [Txns -> TxnRecords] /\ \A t \in Txns \ {rTxn} : txn'[t] = txn[t]
    BY DEF TxnRecords, Trees, AtHand, Outcomes, Verdicts, Half, Nothing, FirstTree
<1>2. /\ rDaemon' = "up" /\ rTxn' = rTxn /\ rAt' \in UpSteps /\ stops' = stops /\ verdict' \in Verdicts
      /\ root' \in Nat /\ trees' \in Nat /\ wanted' \in Nat /\ faults' \in Nat /\ faults <= faults'
      /\ FirstTree <= wanted' /\ wanted' <= trees'
    BY DEF UpSteps, EarlySteps, LateSteps, Verdicts, TxnRecords, Trees, AtHand, FirstTree, Nothing
<1>3. rAt' # "idle" => AtHand(txn[rTxn])'
    BY <1>2 DEF AtHand, PhaseFits, AtCleanup, EarlySteps, LateSteps, Nothing, FirstTree, TxnRecords, Trees
<1>4. /\ rAt' = "idle" => (txn'[rTxn].open => faults' > 0) /\ LeftBehind(txn'[rTxn]) /\ txn'[rTxn].aside = Nothing
      /\ txn'[rTxn].open /\ txn'[rTxn].outcome \notin {"none", "verified", "RECOVERY_REQUIRED"} => txn'[rTxn].previous = Nothing
      /\ Half \in {root', txn'[rTxn].previous, txn'[rTxn].before} =>
            faults' > 0 \/ Half \in {root, txn[rTxn].previous, txn[rTxn].before}
    BY <1>2 DEF AtHand, LeftBehind, EarlySteps, LateSteps, Nothing, Half, FirstTree, TxnRecords, Trees
<1>5. /\ Clean' /\ rAt' \in {"rollback", "rollbackBack"} => txn'[rTxn].phase = "activated"
      /\ Clean' /\ rAt' = "cleanup" => txn'[rTxn].phase \in {"preparing", "activated"}
    BY <1>2 DEF Clean, AtHand, PhaseFits, TxnRecords
<1> QED BY <1>1, <1>2, <1>3, <1>4, <1>5, WorkKeeps

\* The rollback moves the previous tree back.
LEMMA BackStep ==
    ASSUME RestoreInv, RollbackBack
    PROVE  RestoreInv'
<1>0. rAt \in UpSteps \ {"idle"}
    BY DEF RollbackBack, UpSteps, EarlySteps, LateSteps
<1> USE <1>0, RestoreAtWork DEF RollbackBack, NoFault, Fault, bounds, Go, Set, Return, Abandon, Undecided
<1>1. txn' \in [Txns -> TxnRecords] /\ \A t \in Txns \ {rTxn} : txn'[t] = txn[t]
    BY DEF TxnRecords, Trees, AtHand, Outcomes, Verdicts, Half, Nothing, FirstTree
<1>2. /\ rDaemon' = "up" /\ rTxn' = rTxn /\ rAt' \in UpSteps /\ stops' = stops /\ verdict' \in Verdicts
      /\ root' \in Nat /\ trees' \in Nat /\ wanted' \in Nat /\ faults' \in Nat /\ faults <= faults'
      /\ FirstTree <= wanted' /\ wanted' <= trees'
    BY DEF UpSteps, EarlySteps, LateSteps, Verdicts, TxnRecords, Trees, AtHand, FirstTree, Nothing
<1>3. rAt' # "idle" => AtHand(txn[rTxn])'
    BY <1>2 DEF AtHand, PhaseFits, AtCleanup, EarlySteps, LateSteps, Nothing, FirstTree, TxnRecords, Trees
<1>4. /\ rAt' = "idle" => (txn'[rTxn].open => faults' > 0) /\ LeftBehind(txn'[rTxn]) /\ txn'[rTxn].aside = Nothing
      /\ txn'[rTxn].open /\ txn'[rTxn].outcome \notin {"none", "verified", "RECOVERY_REQUIRED"} => txn'[rTxn].previous = Nothing
      /\ Half \in {root', txn'[rTxn].previous, txn'[rTxn].before} =>
            faults' > 0 \/ Half \in {root, txn[rTxn].previous, txn[rTxn].before}
    BY <1>2 DEF AtHand, LeftBehind, EarlySteps, LateSteps, Nothing, Half, FirstTree, TxnRecords, Trees
<1>5. /\ Clean' /\ rAt' \in {"rollback", "rollbackBack"} => txn'[rTxn].phase = "activated"
      /\ Clean' /\ rAt' = "cleanup" => txn'[rTxn].phase \in {"preparing", "activated"}
    BY <1>2 DEF Clean, AtHand, PhaseFits, TxnRecords
<1> QED BY <1>1, <1>2, <1>3, <1>4, <1>5, WorkKeeps

\* A directory not in use has a record of its type.
LEMMA UnusedIsRecord == Unused \in TxnRecords
BY DEF Unused, TxnRecords, Trees, Nothing, Half, Outcomes

\* Removing the transaction directory.
LEMMA CleanupStep ==
    ASSUME RestoreInv, Cleanup
    PROVE  RestoreInv'
<1>0. rAt \in UpSteps \ {"idle"} /\ rAt = "cleanup"
    BY DEF Cleanup, UpSteps
<1> USE <1>0, RestoreAtWork
<1>a. rTxn \in Txns /\ txn \in [Txns -> TxnRecords] /\ txn[rTxn] \in TxnRecords
    OBVIOUS
<1>1. AtCleanup(txn[rTxn]) /\ txn[rTxn].open /\ txn[rTxn].aside = Nothing
    BY DEF AtHand
<1>2. /\ rDaemon' = "up" /\ rTxn' = rTxn /\ rAt' = "idle" /\ stops' = stops /\ verdict' = verdict
      /\ root' = root /\ trees' = trees /\ wanted' = wanted /\ faults' \in Nat /\ faults <= faults'
    BY DEF Cleanup, Return, NoFault, Fault, bounds
<1>3. verdict \in {"SUCCEEDED", "ROLLED_BACK", "ERROR"} /\ txn[rTxn].previous = Nothing
    BY <1>1 DEF AtCleanup
<1>4. PICK r \in TxnRecords :
          /\ txn' = [txn EXCEPT ![rTxn] = r]
          /\ r.open => faults' > 0
          /\ r.outcome = verdict /\ r.previous = Nothing /\ r.aside = Nothing
          /\ r.before \in {Nothing, txn[rTxn].before}
    <2>1. CASE NoFault /\ txn' = Closed(verdict)
        <3>1. [Unused EXCEPT !.outcome = verdict] \in TxnRecords
            BY <1>3, UnusedIsRecord DEF TxnRecords, Outcomes
        <3>2. [Unused EXCEPT !.outcome = verdict].open = FALSE /\ [Unused EXCEPT !.outcome = verdict].outcome = verdict
              /\ [Unused EXCEPT !.outcome = verdict].previous = Nothing /\ [Unused EXCEPT !.outcome = verdict].aside = Nothing
              /\ [Unused EXCEPT !.outcome = verdict].before = Nothing
            BY DEF Unused
        <3> QED BY <2>1, <3>1, <3>2 DEF Closed
    <2>2. CASE Fault /\ \E left \in Remains(txn[rTxn]) : txn' = [txn EXCEPT ![rTxn] = [left EXCEPT !.outcome = verdict]]
        <3>1. PICK left \in Remains(txn[rTxn]) : txn' = [txn EXCEPT ![rTxn] = [left EXCEPT !.outcome = verdict]]
            BY <2>2
        <3>2. left \in TxnRecords /\ left.previous = Nothing /\ left.aside = Nothing /\ left.before = txn[rTxn].before
            <4>1. PICK p \in {txn[rTxn].phase, "absent"} :
                     left = [txn[rTxn] EXCEPT !.candidate = Nothing, !.aside = Nothing, !.phase = p]
                BY <3>1 DEF Remains
            <4>2. Nothing \in Trees /\ Nothing \in Nat
                BY DEF Trees, Nothing, Half
            <4> QED BY <4>1, <4>2, <1>3, <1>a DEF TxnRecords
        <3>3. [left EXCEPT !.outcome = verdict] \in TxnRecords
            BY <3>2, <1>3 DEF TxnRecords, Outcomes
        <3>4. faults' > 0 BY <2>2 DEF Fault
        <3> QED BY <3>1, <3>2, <3>3, <3>4 DEF TxnRecords
    <2> QED BY <2>1, <2>2 DEF Cleanup
<1>b. r \in TxnRecords /\ txn' = [txn EXCEPT ![rTxn] = r]
    BY <1>4
<1>5. txn' \in [Txns -> TxnRecords] /\ (\A t \in Txns \ {rTxn} : txn'[t] = txn[t]) /\ txn'[rTxn] = r
    BY <1>b, <1>a
<1>6. LeftBehind(txn'[rTxn])
    BY <1>3, <1>4, <1>5 DEF LeftBehind
<1>7. /\ rDaemon = "up" /\ rAt # "idle" /\ root' \in Nat /\ trees' \in Nat /\ wanted' \in Nat /\ FirstTree <= wanted' /\ wanted' <= trees'
      /\ rAt' \in UpSteps /\ verdict' \in Verdicts
    BY <1>2 DEF UpSteps
<1> QED BY <1>2, <1>3, <1>4, <1>5, <1>6, <1>7, WorkKeeps DEF Half, Nothing, UpSteps, TxnRecords

\* A restore begins in a directory of its own.
LEMMA BeginKeeps ==
    ASSUME RestoreInv, NEW t \in Txns, BeginRestore(t)
    PROVE  RestoreInv'
<1>1. /\ RestoreType /\ rDaemon = "up" /\ rAt = "idle" /\ txn[t] = Unused /\ root # Nothing
      /\ rDaemon' = "up" /\ rTxn' = t /\ rAt' = "writePreparing" /\ verdict' = "none"
      /\ root' = root /\ wanted' = wanted /\ trees' = trees /\ faults' = faults /\ stops' = stops
    BY DEF BeginRestore, bounds, RestoreInv
<1>2. txn \in [Txns -> TxnRecords] /\ root \in Nat
    BY <1>1 DEF RestoreType
<1>3. txn' \in [Txns -> TxnRecords] /\ (\A u \in Txns \ {t} : txn'[u] = txn[u])
    BY ZenonT(40), <1>2 DEF BeginRestore, TxnRecords
<1>4. /\ txn'[t].open /\ txn'[t].before = root /\ txn'[t].aside = Nothing /\ txn'[t].previous = Nothing
      /\ txn'[t].phase = "absent" /\ txn'[t].outcome = "none"
    BY <1>1, <1>2 DEF BeginRestore, Unused
<1>5. RestoreType'
    BY <1>1, <1>3 DEF RestoreType, UpSteps, EarlySteps, Verdicts
<1>6. WhileUp'
    <2>1. AtHand(txn[rTxn])'
        BY <1>1, <1>4 DEF AtHand, PhaseFits, EarlySteps, LateSteps
    <2>2. \A u \in Txns \ {t} : LeftBehind(txn'[u])
        BY <1>1, <1>3 DEF RestoreInv, WhileUp, LeftBehind
    <2> QED BY <1>1, <2>1, <2>2 DEF WhileUp, LeftBehind
<1>7. Answered'
    BY <1>3, <1>4 DEF RestoreInv, Answered
<1>8. WhileDown'
    BY <1>1 DEF WhileDown
<1>9. HalfBlamed'
    <2>1. Half \in {txn'[t].previous, txn'[t].aside, txn'[t].before} => root = Half
        BY <1>4 DEF Half, Nothing
    <2> QED BY <1>1, <1>3, <2>1 DEF RestoreInv, HalfBlamed
<1>10. CleanInv'
    <2>1. Clean => \A u \in Txns : ~txn[u].open
        BY <1>1 DEF RestoreInv, CleanInv
    <2> QED BY <1>1, <1>3, <2>1 DEF CleanInv, Clean
<1> QED BY <1>5, <1>6, <1>7, <1>8, <1>9, <1>10 DEF RestoreInv

\* What RecoverInterruptedRestores has read when it decides.
LEMMA DecisionReads ==
    ASSUME NEW r, root \in Nat, r.previous \in Nat
    PROVE  /\ Decision(r) \in {"remove", "manual", "back", "swap"}
           /\ Decision(r) = "back" => root = Nothing /\ r.previous # Nothing
           /\ Decision(r) = "swap" => root # Nothing /\ r.previous # Nothing
           /\ Decision(r) = "remove" => root # Nothing /\ r.previous = Nothing
           /\ Recoverable(r) => Decision(r) # "manual"
BY DEF Decision, Recoverable, Nothing

\* A step of recovery, which moves trees between root and one directory.
LEMMA RecoveryKeeps ==
    ASSUME RestoreInv, NEW t \in Txns, rDaemon = "recovering", txn[t].open,
           /\ rTxn' = t /\ verdict' = verdict /\ wanted' = wanted /\ trees' = trees /\ stops' = stops
           /\ root' \in Nat /\ faults' \in Nat /\ faults <= faults',
           txn' \in [Txns -> TxnRecords], \A u \in Txns \ {t} : txn'[u] = txn[u],
           \/ rDaemon' = "recovering" /\ rAt' \in {"idle", "recoverBack", "recoverRemove"}
           \/ rDaemon' = "refused" /\ rAt' = "idle",
           txn'[t].open => txn[t].open /\ txn'[t].outcome = txn[t].outcome,
           txn'[t].outcome # txn[t].outcome =>
               txn[t].outcome = "none" /\ txn'[t].outcome \notin {"verified", "RECOVERY_REQUIRED"},
           txn'[t].open /\ txn'[t].outcome \notin {"none", "verified", "RECOVERY_REQUIRED"} =>
               txn'[t].previous = Nothing /\ txn'[t].aside = Nothing,
           ~Marked /\ txn'[t].open /\ txn[t].outcome = "none" =>
               txn'[t].aside # wanted /\ (txn'[t].previous # Nothing => root' # wanted),
           ~Marked /\ txn[t].outcome # "none" => root' = root,
           rAt' = "recoverBack" => root' = Nothing /\ txn'[t].previous # Nothing /\ txn'[t].open,
           rAt' = "recoverRemove" => txn'[t].previous = Nothing /\ txn'[t].open,
           Half \in {root', txn'[t].previous, txn'[t].aside, txn'[t].before} =>
               Half \in {root, txn[t].previous, txn[t].aside, txn[t].before},
           Clean' => rDaemon' = "recovering" /\ (rAt' = "idle" => ~txn'[t].open)
    PROVE  RestoreInv'
<1>0. RestoreType /\ rTxn \in Txns /\ Answered /\ WhileDown /\ txn \in [Txns -> TxnRecords]
    BY DEF RestoreInv, RestoreType
<1>1. RestoreType' BY <1>0 DEF RestoreType
<1>2. WhileUp' BY DEF WhileUp
<1>3. Answered' BY <1>0 DEF Answered
<1>4. WhileDown'
    <2>1. ~Marked' => ~Marked
        BY DEF Marked
    <2>2. \A u, v \in Txns : txn'[u].open /\ txn'[v].open /\ txn'[u].outcome = "none" /\ txn'[v].outcome = "none" => u = v
        BY <1>0 DEF WhileDown
    <2>3. ASSUME ~Marked', NEW u \in Txns, txn'[u].open, txn'[u].outcome = "none"
          PROVE  txn'[u].aside # wanted /\ (txn'[u].previous # Nothing => root' # wanted)
        <3>1. CASE u = t BY <2>1, <2>3, <3>1
        <3>2. CASE u # t
            <4>1. txn'[u] = txn[u] BY <3>2
            <4>2. CASE txn[t].outcome = "none" /\ txn[t].open
                BY <4>1, <4>2, <2>3, <3>2, <1>0 DEF WhileDown
            <4>3. CASE txn[t].outcome # "none"
                BY <4>1, <4>3, <2>1, <2>3, <1>0 DEF WhileDown
            <4> QED BY <4>2, <4>3
        <3> QED BY <3>1, <3>2
    <2> QED BY <2>2, <2>3 DEF WhileDown
<1>5. HalfBlamed'
    <2>1. faults \in Nat BY <1>0 DEF RestoreType
    <2>2. (root' = Half \/ \E u \in Txns : Half \in {txn'[u].previous, txn'[u].aside, txn'[u].before}) =>
          (root = Half \/ \E u \in Txns : Half \in {txn[u].previous, txn[u].aside, txn[u].before})
        <3>1. root' = Half => root = Half \/ Half \in {txn[t].previous, txn[t].aside, txn[t].before}
            OBVIOUS
        <3>2. ASSUME NEW u \in Txns, Half \in {txn'[u].previous, txn'[u].aside, txn'[u].before}
              PROVE  root = Half \/ \E v \in Txns : Half \in {txn[v].previous, txn[v].aside, txn[v].before}
            <4>1. CASE u = t BY <3>2, <4>1
            <4>2. CASE u # t BY <3>2, <4>2
            <4> QED BY <4>1, <4>2
        <3> QED BY <3>1, <3>2
    <2> QED BY <2>1, <2>2 DEF RestoreInv, HalfBlamed
<1>6. CleanInv'
    <2>1. faults \in Nat BY <1>0 DEF RestoreType
    <2>2. Clean' => Clean BY <2>1 DEF Clean
    <2>3. Clean' => \A u \in Txns : txn[u].open => u = t
        BY <2>2 DEF RestoreInv, CleanInv
    <2>4. Clean' => \A u \in Txns : txn'[u].open => u = t
        BY <2>3
    <2> QED BY <2>4 DEF CleanInv
<1> QED BY <1>1, <1>2, <1>3, <1>4, <1>5, <1>6 DEF RestoreInv

\* Startup recovery decides about one directory.
LEMMA RecoverOneKeeps ==
    ASSUME RestoreInv, NEW t \in Txns, RecoverOne(t)
    PROVE  RestoreInv'
<1>1. /\ RestoreType /\ rDaemon = "recovering" /\ rAt = "idle" /\ txn[t].open
      /\ rTxn' = t /\ verdict' = verdict /\ wanted' = wanted /\ trees' = trees
    BY DEF RecoverOne, RestoreInv
<1>2. /\ txn \in [Txns -> TxnRecords] /\ txn[t] \in TxnRecords /\ root \in Nat /\ faults \in Nat
      /\ txn[t].previous \in Nat /\ txn[t].aside \in Nat /\ FirstTree <= wanted /\ wanted \in Nat
    BY <1>1 DEF RestoreType, TxnRecords
<1>3. /\ Clean => t = rTxn /\ Recoverable(txn[t])
      /\ ~Marked => \/ txn[t].outcome = "none" /\ (txn[t].previous # Nothing => root # wanted) /\ txn[t].aside # wanted
                    \/ txn[t].outcome # "none" /\ txn[t].previous = Nothing /\ txn[t].aside = Nothing
      /\ txn[t].outcome \notin {"none", "verified", "RECOVERY_REQUIRED"} => txn[t].previous = Nothing /\ txn[t].aside = Nothing
    <2>1. Clean => t = rTxn /\ Recoverable(txn[t])
        BY <1>1 DEF RestoreInv, CleanInv
    <2>2. txn[t].outcome \notin {"none", "verified", "RECOVERY_REQUIRED"} => txn[t].previous = Nothing /\ txn[t].aside = Nothing
        BY <1>1 DEF RestoreInv, Answered
    <2>3. ~Marked => txn[t].outcome \notin {"verified", "RECOVERY_REQUIRED"}
        BY DEF Marked
    <2>4. ~Marked /\ txn[t].outcome = "none" => (txn[t].previous # Nothing => root # wanted) /\ txn[t].aside # wanted
        BY <1>1 DEF RestoreInv, WhileDown
    <2>5. ~Marked => \/ txn[t].outcome = "none" /\ (txn[t].previous # Nothing => root # wanted) /\ txn[t].aside # wanted
                     \/ txn[t].outcome # "none" /\ txn[t].previous = Nothing /\ txn[t].aside = Nothing
        BY <2>2, <2>3, <2>4
    <2> QED BY <2>1, <2>2, <2>5
<1>4. Clean' /\ UNCHANGED <<faults, stops>> => Clean
    BY DEF Clean
<1>5. CASE Decision(txn[t]) \in {"remove", "manual"} /\ NoFault /\ UNCHANGED <<root, txn>>
           /\ (IF Decision(txn[t]) = "manual" THEN Refuse ELSE rAt' = "recoverRemove" /\ UNCHANGED rDaemon)
    <2>1. txn' = txn /\ root' = root /\ faults' = faults /\ stops' = stops
        BY <1>5 DEF NoFault, bounds
    <2>2. CASE Decision(txn[t]) = "manual" /\ Refuse
        <3>1. ~Clean' BY <1>2, <1>3, <1>4, <2>1, <2>2, DecisionReads
        <3> QED BY <1>1, <1>2, <1>3, <2>1, <2>2, <3>1, RecoveryKeeps DEF Refuse
    <2>3. CASE Decision(txn[t]) = "remove" /\ rAt' = "recoverRemove" /\ UNCHANGED rDaemon
        <3>1. txn[t].previous = Nothing BY <1>2, <2>3, DecisionReads
        <3> QED BY <1>1, <1>2, <1>3, <2>1, <2>3, <3>1, RecoveryKeeps
    <2> QED BY <1>5, <2>2, <2>3
<1>6. CASE Decision(txn[t]) = "back" /\ NoFault /\ root' = txn[t].previous
           /\ txn' = [txn EXCEPT ![t].previous = Nothing] /\ rAt' = "recoverRemove" /\ UNCHANGED rDaemon
    <2>1. txn[t].previous # Nothing /\ faults' = faults /\ stops' = stops /\ Nothing \in Nat /\ Half # Nothing
        BY <1>2, <1>6, DecisionReads DEF NoFault, bounds, Nothing, Half
    <2>2. txn' \in [Txns -> TxnRecords] /\ (\A u \in Txns \ {t} : txn'[u] = txn[u])
        BY <1>2, <1>6, <2>1 DEF TxnRecords
    <2>3. /\ txn'[t].open /\ txn'[t].outcome = txn[t].outcome /\ txn'[t].aside = txn[t].aside
          /\ txn'[t].previous = Nothing /\ txn'[t].before = txn[t].before
        BY <1>1, <1>2, <1>6 DEF TxnRecords
    <2> QED BY <1>1, <1>2, <1>3, <1>6, <2>1, <2>2, <2>3, RecoveryKeeps
<1>7. CASE Decision(txn[t]) = "swap" /\ NoFault /\ txn[t].aside = Nothing /\ root' = Nothing
           /\ txn' = [txn EXCEPT ![t].aside = root] /\ rAt' = "recoverBack" /\ UNCHANGED rDaemon
    <2>1. txn[t].previous # Nothing /\ faults' = faults /\ stops' = stops /\ Nothing \in Nat /\ Half # Nothing
        BY <1>2, <1>7, DecisionReads DEF NoFault, bounds, Nothing, Half
    <2>2. txn' \in [Txns -> TxnRecords] /\ (\A u \in Txns \ {t} : txn'[u] = txn[u])
        BY <1>2, <1>7, <2>1 DEF TxnRecords
    <2>3. /\ txn'[t].open /\ txn'[t].outcome = txn[t].outcome /\ txn'[t].aside = root
          /\ txn'[t].previous = txn[t].previous /\ txn'[t].before = txn[t].before
        BY <1>1, <1>2, <1>7 DEF TxnRecords
    <2> QED BY <1>1, <1>2, <1>3, <1>7, <2>1, <2>2, <2>3, RecoveryKeeps
<1>8. CASE Decision(txn[t]) = "swap" /\ txn[t].aside # Nothing /\ NoFault /\ Refuse /\ UNCHANGED <<root, txn>>
    <2>1. txn' = txn /\ root' = root /\ faults' = faults /\ stops' = stops
        BY <1>8 DEF NoFault, bounds
    <2>2. ~Clean' BY <1>3, <1>4, <1>8, <2>1 DEF Recoverable
    <2> QED BY <1>1, <1>2, <1>3, <1>8, <2>1, <2>2, RecoveryKeeps DEF Refuse
<1>9. CASE Decision(txn[t]) \in {"back", "swap"} /\ Fault /\ Refuse /\ UNCHANGED <<root, txn>>
    <2>1. txn' = txn /\ root' = root /\ faults' = faults + 1 /\ stops' = stops /\ faults' # 0
        BY <1>2, <1>9 DEF Fault
    <2>2. ~Clean' BY <2>1 DEF Clean
    <2> QED BY <1>1, <1>2, <1>3, <1>9, <2>1, <2>2, RecoveryKeeps DEF Refuse
<1> QED BY <1>5, <1>6, <1>7, <1>8, <1>9 DEF RecoverOne

\* Recovery moves the previous tree back.
LEMMA RecoverBackKeeps ==
    ASSUME RestoreInv, RecoverBack
    PROVE  RestoreInv'
<1>1. RestoreType /\ rAt = "recoverBack" /\ rTxn' = rTxn /\ verdict' = verdict /\ wanted' = wanted /\ trees' = trees
    BY DEF RecoverBack, RestoreInv
<1>2. /\ rDaemon = "recovering" /\ rTxn \in Txns /\ txn \in [Txns -> TxnRecords] /\ txn[rTxn] \in TxnRecords
      /\ root \in Nat /\ faults \in Nat /\ txn[rTxn].previous \in Nat /\ txn[rTxn].aside \in Nat
      /\ Nothing \in Nat /\ Half # Nothing
    BY <1>1 DEF RestoreType, TxnRecords, UpSteps, EarlySteps, LateSteps, Nothing, Half
<1>3. root = Nothing /\ txn[rTxn].previous # Nothing /\ txn[rTxn].open
    BY <1>1, <1>2 DEF RestoreInv, WhileDown
<1>4. /\ ~Marked => txn[rTxn].outcome = "none" /\ txn[rTxn].aside # wanted
      /\ txn[rTxn].outcome \in {"none", "verified", "RECOVERY_REQUIRED"}
    <2>1. txn[rTxn].outcome \in {"none", "verified", "RECOVERY_REQUIRED"}
        BY <1>2, <1>3 DEF RestoreInv, Answered
    <2>2. ~Marked => txn[rTxn].outcome \notin {"verified", "RECOVERY_REQUIRED"}
        BY <1>2 DEF Marked
    <2>3. ~Marked /\ txn[rTxn].outcome = "none" => txn[rTxn].aside # wanted
        BY <1>2, <1>3 DEF RestoreInv, WhileDown
    <2> QED BY <2>1, <2>2, <2>3
<1>5. CASE NoFault /\ root' = txn[rTxn].previous /\ Set("previous", Nothing) /\ rAt' = "recoverRemove" /\ UNCHANGED rDaemon
    <2>1. faults' = faults /\ stops' = stops
        BY <1>5 DEF NoFault, bounds
    <2>2. txn' \in [Txns -> TxnRecords] /\ (\A u \in Txns \ {rTxn} : txn'[u] = txn[u])
        BY <1>2, <1>5 DEF TxnRecords, Set
    <2>3. /\ txn'[rTxn].open = txn[rTxn].open /\ txn'[rTxn].outcome = txn[rTxn].outcome /\ txn'[rTxn].aside = txn[rTxn].aside
          /\ txn'[rTxn].previous = Nothing /\ txn'[rTxn].before = txn[rTxn].before
        BY <1>2, <1>5 DEF TxnRecords, Set
    <2>4. /\ Half \in {root', txn'[rTxn].previous, txn'[rTxn].aside, txn'[rTxn].before} =>
                Half \in {root, txn[rTxn].previous, txn[rTxn].aside, txn[rTxn].before}
          /\ root' \in Nat /\ faults' \in Nat /\ faults <= faults' /\ rDaemon' = "recovering"
        BY <1>2, <1>5, <2>1, <2>3
    <2> QED BY <1>1, <1>2, <1>3, <1>4, <1>5, <2>1, <2>2, <2>3, <2>4, RecoveryKeeps
<1>6. CASE Fault /\ Refuse /\ root' = txn[rTxn].aside /\ Set("aside", Nothing)
    <2>1. faults' = faults + 1 /\ stops' = stops /\ ~Clean'
        BY <1>2, <1>6 DEF Fault, Clean
    <2>2. txn' \in [Txns -> TxnRecords] /\ (\A u \in Txns \ {rTxn} : txn'[u] = txn[u])
        BY <1>2, <1>6 DEF TxnRecords, Set
    <2>3. /\ txn'[rTxn].open = txn[rTxn].open /\ txn'[rTxn].outcome = txn[rTxn].outcome /\ txn'[rTxn].aside = Nothing
          /\ txn'[rTxn].previous = txn[rTxn].previous /\ txn'[rTxn].before = txn[rTxn].before
        BY <1>2, <1>6 DEF TxnRecords, Set
    <2>4. wanted # Nothing
        BY <1>1 DEF RestoreType, FirstTree, Nothing
    <2> QED BY <1>1, <1>2, <1>3, <1>4, <1>6, <2>1, <2>2, <2>3, <2>4, RecoveryKeeps DEF Refuse
<1>7. CASE Fault /\ Refuse /\ UNCHANGED <<root, txn>>
    <2>1. faults' = faults + 1 /\ stops' = stops /\ ~Clean' /\ wanted # Nothing
        BY <1>1, <1>2, <1>7 DEF Fault, Clean, RestoreType, FirstTree, Nothing
    <2> QED BY <1>1, <1>2, <1>3, <1>4, <1>7, <2>1, RecoveryKeeps DEF Refuse
<1> QED BY <1>5, <1>6, <1>7 DEF RecoverBack

\* What RemoveAll can leave keeps everything of the record but three fields.
LEMMA RemainsKeep ==
    ASSUME NEW r \in TxnRecords, NEW left \in Remains(r)
    PROVE  /\ left \in TxnRecords /\ left.open = r.open /\ left.previous = r.previous
           /\ left.before = r.before /\ left.outcome = r.outcome /\ left.aside = Nothing
           /\ left.phase \in {r.phase, "absent"}
<1>1. PICK p \in {r.phase, "absent"} : left = [r EXCEPT !.candidate = Nothing, !.aside = Nothing, !.phase = p]
    BY DEF Remains
<1>2. Nothing \in Trees /\ Nothing \in Nat
    BY DEF Trees, Nothing, Half
<1> QED BY <1>1, <1>2 DEF TxnRecords

\* Recovery removes a directory it has settled.
LEMMA RecoverRemoveKeeps ==
    ASSUME RestoreInv, RecoverRemove
    PROVE  RestoreInv'
<1>1. /\ RestoreType /\ rAt = "recoverRemove" /\ rTxn' = rTxn /\ verdict' = verdict /\ wanted' = wanted /\ trees' = trees
      /\ root' = root
    BY DEF RecoverRemove, RestoreInv
<1>2. /\ rDaemon = "recovering" /\ rTxn \in Txns /\ txn \in [Txns -> TxnRecords] /\ txn[rTxn] \in TxnRecords
      /\ root \in Nat /\ faults \in Nat /\ Nothing \in Nat /\ Half # Nothing /\ wanted # Nothing
      /\ txn[rTxn].outcome \in Outcomes
    BY <1>1 DEF RestoreType, TxnRecords, UpSteps, EarlySteps, LateSteps, Nothing, Half, FirstTree
<1>3. txn[rTxn].previous = Nothing /\ txn[rTxn].open
    BY <1>1, <1>2 DEF RestoreInv, WhileDown
<1>4. CASE /\ NoFault /\ rAt' = "idle" /\ UNCHANGED rDaemon
           /\ txn' = Closed(IF txn[rTxn].outcome = "none" THEN "recovered" ELSE txn[rTxn].outcome)
    <2> DEFINE o == IF txn[rTxn].outcome = "none" THEN "recovered" ELSE txn[rTxn].outcome
    <2>1. faults' = faults /\ stops' = stops
        BY <1>4 DEF NoFault, bounds
    <2>2. o \in Outcomes /\ (o # txn[rTxn].outcome => txn[rTxn].outcome = "none" /\ o = "recovered")
        BY <1>2 DEF Outcomes
    <2>3. txn' = [txn EXCEPT ![rTxn] = [Unused EXCEPT !.outcome = o]]
        BY <1>4 DEF Closed
    <2> HIDE DEF o
    <2>4. [Unused EXCEPT !.outcome = o] \in TxnRecords
        BY <2>2, UnusedIsRecord DEF TxnRecords
    <2>5. [Unused EXCEPT !.outcome = o].open = FALSE /\ [Unused EXCEPT !.outcome = o].outcome = o
          /\ [Unused EXCEPT !.outcome = o].previous = Nothing /\ [Unused EXCEPT !.outcome = o].aside = Nothing
          /\ [Unused EXCEPT !.outcome = o].before = Nothing
        BY DEF Unused
    <2>6. txn' \in [Txns -> TxnRecords] /\ (\A u \in Txns \ {rTxn} : txn'[u] = txn[u])
        BY <1>2, <2>3, <2>4
    <2>7. /\ txn'[rTxn].open = FALSE /\ txn'[rTxn].outcome = o /\ txn'[rTxn].aside = Nothing
          /\ txn'[rTxn].previous = Nothing /\ txn'[rTxn].before = Nothing
        BY <1>2, <2>3, <2>5
    <2>8. /\ txn'[rTxn].outcome # txn[rTxn].outcome =>
                txn[rTxn].outcome = "none" /\ txn'[rTxn].outcome \notin {"verified", "RECOVERY_REQUIRED"}
          /\ Half \in {root', txn'[rTxn].previous, txn'[rTxn].aside, txn'[rTxn].before} =>
                Half \in {root, txn[rTxn].previous, txn[rTxn].aside, txn[rTxn].before}
        BY <1>1, <1>2, <2>2, <2>7
    <2>9. rDaemon' = "recovering" /\ rAt' = "idle" /\ root' \in Nat /\ faults' \in Nat /\ faults <= faults'
        BY <1>1, <1>2, <1>4, <2>1
    <2> QED BY SMTT(30), <1>1, <1>2, <1>3, <2>1, <2>6, <2>7, <2>8, <2>9, RecoveryKeeps
<1>5. CASE Fault /\ Refuse /\ \E left \in Remains(txn[rTxn]) : txn' = [txn EXCEPT ![rTxn] = left]
    <2>1. faults' = faults + 1 /\ stops' = stops /\ ~Clean'
        BY <1>2, <1>5 DEF Fault, Clean
    <2>2. PICK left \in Remains(txn[rTxn]) : txn' = [txn EXCEPT ![rTxn] = left]
        BY <1>5
    <2>3. left \in TxnRecords /\ left.open = txn[rTxn].open /\ left.previous = Nothing /\ left.aside = Nothing
          /\ left.before = txn[rTxn].before /\ left.outcome = txn[rTxn].outcome
        BY <1>2, <1>3, RemainsKeep
    <2>4. txn' \in [Txns -> TxnRecords] /\ (\A u \in Txns \ {rTxn} : txn'[u] = txn[u]) /\ txn'[rTxn] = left
        BY <1>2, <2>2, <2>3
    <2> QED BY <1>1, <1>2, <1>3, <1>5, <2>1, <2>3, <2>4, RecoveryKeeps DEF Refuse
<1> QED BY <1>4, <1>5 DEF RecoverRemove

\* The daemon starts.
LEMMA StartKeeps ==
    ASSUME RestoreInv, StartDaemon
    PROVE  RestoreInv'
<1> USE DEF StartDaemon, bounds
<1>1. RestoreType' BY DEF RestoreInv, RestoreType, UpSteps
<1>2. WhileUp' BY DEF WhileUp
<1>3. Answered' BY DEF RestoreInv, Answered
<1>4. WhileDown'
    <2>1. rAt' = "idle" /\ rDaemon # "up" BY DEF RestoreInv, RestoreType
    <2>2. Marked' <=> Marked BY DEF Marked
    <2> QED BY <2>1, <2>2 DEF RestoreInv, WhileDown
<1>5. HalfBlamed' BY DEF RestoreInv, HalfBlamed
<1>6. CleanInv'
    <2>1. (Clean' <=> Clean) /\ (\A r : Recoverable(r)' <=> Recoverable(r)) BY DEF Clean, Recoverable
    <2>2. Clean => Recoverable(txn[rTxn])' = Recoverable(txn[rTxn]) BY DEF Recoverable
    <2> QED BY <2>1, <2>2 DEF RestoreInv, CleanInv
<1> QED BY <1>1, <1>2, <1>3, <1>4, <1>5, <1>6 DEF RestoreInv

\* Recovery ends and the daemon serves.
LEMMA ServeKeeps ==
    ASSUME RestoreInv, Serve
    PROVE  RestoreInv'
<1> USE DEF Serve, bounds
<1>1. RestoreType' BY DEF RestoreInv, RestoreType, UpSteps, Verdicts
<1>2. WhileUp' BY DEF WhileUp, LeftBehind
<1>3. Answered' BY DEF RestoreInv, Answered
<1>4. WhileDown' BY DEF WhileDown
<1>5. HalfBlamed' BY DEF RestoreInv, HalfBlamed
<1>6. CleanInv' BY DEF CleanInv, RestoreInv, RestoreType
<1> QED BY <1>1, <1>2, <1>3, <1>4, <1>5, <1>6 DEF RestoreInv

\* A runtime writes to the tree that is in use.
LEMMA WorkInRootKeeps ==
    ASSUME RestoreInv, WorkInRoot
    PROVE  RestoreInv'
<1> USE DEF WorkInRoot, bounds
<1>1. RestoreType' BY DEF RestoreInv, RestoreType, FirstTree
<1>2. WhileUp' BY DEF RestoreInv, WhileUp, LeftBehind
<1>3. Answered' BY DEF RestoreInv, Answered
<1>4. WhileDown' BY DEF WhileDown
<1>5. HalfBlamed'
    <2>1. root' # Half BY DEF RestoreInv, RestoreType, Half, FirstTree
    <2> QED BY <2>1 DEF RestoreInv, HalfBlamed
<1>6. CleanInv' BY DEF CleanInv, Clean, RestoreInv, RestoreType
<1> QED BY <1>1, <1>2, <1>3, <1>4, <1>5, <1>6 DEF RestoreInv

\* A crash leaves the directory at hand as it is, or with a torn phase, a half
\* deleted previous tree, or what a removal has left of it.
LEMMA CutShortLeaves ==
    ASSUME RestoreInv, NEW t \in Txns, NEW left \in CutShort(t), rAt # "idle"
    PROVE  /\ left \in TxnRecords /\ left.open = txn[t].open /\ left.outcome = txn[t].outcome
           /\ left.before = txn[t].before
           /\ left.phase \in {txn[t].phase, "torn", "absent"}
           /\ left.previous = txn[t].previous \/ (rAt = "discard" /\ left.previous = Half /\ left.phase = txn[t].phase)
           /\ left.aside = txn[t].aside \/ (rAt \in {"cleanup", "recoverRemove"} /\ left.aside = Nothing)
<1>1. txn[t] \in TxnRecords BY DEF RestoreInv, RestoreType
<1>2. CASE left = txn[t] BY <1>1, <1>2 DEF TxnRecords
<1>3. CASE left = [txn[t] EXCEPT !.phase = "torn"] BY <1>1, <1>3 DEF TxnRecords
<1>4. CASE rAt = "discard" /\ left = [txn[t] EXCEPT !.previous = Half] BY <1>1, <1>4 DEF TxnRecords, Half
<1>5. CASE rAt \in {"cleanup", "recoverRemove"} /\ left \in Remains(txn[t])
    BY <1>1, <1>5, RemainsKeep
<1> QED BY <1>2, <1>3, <1>4, <1>5 DEF CutShort

\* The daemon stops anywhere, any call cut short.
LEMMA StopKeeps ==
    ASSUME RestoreInv, Stop
    PROVE  RestoreInv'
<1>1. /\ rDaemon # "down" /\ rDaemon' = "down" /\ rAt' = "idle" /\ verdict' = "none"
      /\ root' = root /\ rTxn' = rTxn /\ wanted' = wanted /\ trees' = trees /\ faults' = faults
    BY DEF Stop
<1>2. RestoreType /\ WhileUp /\ Answered /\ WhileDown /\ HalfBlamed /\ CleanInv
      /\ rTxn \in Txns /\ txn \in [Txns -> TxnRecords] /\ FirstTree <= wanted /\ wanted \in Nat /\ root \in Nat
    BY DEF RestoreInv, RestoreType
<1>3. CASE (rDaemon = "refused" \/ rAt = "idle") /\ UNCHANGED <<txn, stops>>
    <2>1. RestoreType' BY <1>1, <1>2, <1>3 DEF RestoreType, Verdicts
    <2>2. WhileUp' BY <1>1 DEF WhileUp
    <2>3. Answered' BY <1>2, <1>3 DEF Answered
    <2>4. WhileDown'
        <3>1. Marked' <=> Marked BY <1>3 DEF Marked
        <3>2. CASE rDaemon = "up"
            <4>1. \A t \in Txns : txn[t].open => txn[t].outcome # "none"
                BY <3>2, <1>2, <1>3 DEF WhileUp, LeftBehind
            <4> QED BY <4>1, <1>1, <1>3 DEF WhileDown
        <3>3. CASE rDaemon # "up" BY <3>1, <3>3, <1>1, <1>2, <1>3 DEF WhileDown
        <3> QED BY <3>2, <3>3
    <2>5. HalfBlamed' BY <1>1, <1>2, <1>3 DEF HalfBlamed
    <2>6. CleanInv'
        <3>1. Clean' => Clean BY <1>1, <1>3 DEF Clean
        <3>2. Recoverable(txn[rTxn])' <=> Recoverable(txn[rTxn]) BY <1>1, <1>3 DEF Recoverable
        <3>3. RestoreType BY <1>2
        <3> QED BY <3>1, <3>2, <1>1, <1>2, <1>3 DEF CleanInv, RestoreType
    <2> QED BY <2>1, <2>2, <2>3, <2>4, <2>5, <2>6 DEF RestoreInv
<1>4. CASE ~(rDaemon = "refused" \/ rAt = "idle")
    <2>1. PICK left \in CutShort(rTxn) :
              /\ txn' = [txn EXCEPT ![rTxn] = left]
              /\ stops' = stops \cup {IF left.phase \in {"torn", "absent"} THEN left.phase ELSE rAt}
        BY <1>4 DEF Stop
    <2>2. /\ left \in TxnRecords /\ left.open = txn[rTxn].open /\ left.outcome = txn[rTxn].outcome
          /\ left.before = txn[rTxn].before
          /\ left.phase \in {txn[rTxn].phase, "torn", "absent"}
          /\ left.previous = txn[rTxn].previous \/ (rAt = "discard" /\ left.previous = Half /\ left.phase = txn[rTxn].phase)
          /\ left.aside = txn[rTxn].aside \/ (rAt \in {"cleanup", "recoverRemove"} /\ left.aside = Nothing)
        BY <1>2, <1>4, CutShortLeaves
    <2>3. txn' \in [Txns -> TxnRecords] /\ (\A t \in Txns \ {rTxn} : txn'[t] = txn[t]) /\ txn'[rTxn] = left
        BY <1>2, <2>1, <2>2
    <2>4. rDaemon = "up" => AtHand(txn[rTxn]) /\ (\A t \in Txns \ {rTxn} : LeftBehind(txn[t]))
        BY <1>2, <1>4 DEF WhileUp
    <2>5. rDaemon # "up" => rDaemon = "recovering" /\ rAt \in {"recoverBack", "recoverRemove"}
        BY <1>1, <1>2, <1>4 DEF RestoreType
    <2>6. rDaemon = "up" => rAt \in ({"cleanup"} \cup EarlySteps \cup LateSteps)
        BY <1>2, <1>4 DEF RestoreType, UpSteps
    <2>7. RestoreType' BY <1>1, <1>2, <2>3 DEF RestoreType, Verdicts
    <2>8. WhileUp' BY <1>1 DEF WhileUp
    <2>9. Answered'
        <3>1. rDaemon = "up" => txn[rTxn].outcome \in {"none", "verified"}
            BY <2>4, <2>6 DEF AtHand, AtCleanup
        <3>2. left.open /\ left.outcome \notin {"none", "verified", "RECOVERY_REQUIRED"} => left.previous = Nothing /\ left.aside = Nothing
            BY <3>1, <2>2, <2>5, <1>2 DEF Answered
        <3> QED BY <1>2, <2>3, <3>2 DEF Answered
    <2>10. WhileDown'
        <3>1. Marked' <=> Marked BY <1>2, <2>2, <2>3 DEF Marked
        <3>2. CASE rDaemon = "up"
            <4>1. \A t \in Txns \ {rTxn} : txn[t].open => txn[t].outcome # "none"
                BY <3>2, <2>4 DEF LeftBehind
            <4>2. ~Marked => left.aside = Nothing /\ (left.previous # Nothing => root # wanted)
                <5>1. ~Marked => rAt # "discard" BY <3>2, <1>2, <2>4 DEF Marked, AtHand
                <5>2. left.aside = Nothing BY <3>2, <2>2, <2>4 DEF AtHand
                <5>3. ~Marked => left.previous = txn[rTxn].previous BY <5>1, <2>2
                <5>4. rAt # "discard" /\ txn[rTxn].previous # Nothing => root # wanted
                    BY <3>2, <2>4, <2>6, <1>2 DEF AtHand, AtCleanup, EarlySteps, LateSteps, FirstTree, Nothing
                <5> QED BY <5>1, <5>2, <5>3, <5>4
            <4>3. wanted # Nothing BY <1>2 DEF FirstTree, Nothing
            <4> QED BY <4>1, <4>2, <4>3, <3>1, <1>1, <1>2, <2>3 DEF WhileDown
        <3>3. CASE rDaemon # "up"
            <4>1. wanted # Nothing BY <1>2 DEF FirstTree, Nothing
            <4>2. \A t, u \in Txns : txn'[t].open /\ txn'[u].open /\ txn'[t].outcome = "none" /\ txn'[u].outcome = "none" => t = u
                BY <3>3, <1>2, <2>2, <2>3 DEF WhileDown
            <4>3. ASSUME ~Marked, NEW t \in Txns, txn'[t].open, txn'[t].outcome = "none"
                  PROVE  txn'[t].aside # wanted /\ (txn'[t].previous # Nothing => root # wanted)
                <5>1. txn[t].open /\ txn[t].outcome = "none" /\ txn'[t].previous = txn[t].previous
                      /\ txn'[t].aside \in {txn[t].aside, Nothing}
                    BY <3>3, <4>3, <2>2, <2>3, <2>5
                <5> QED BY <3>3, <4>1, <4>3, <5>1, <1>2 DEF WhileDown
            <4> QED BY <4>2, <4>3, <3>1, <1>1 DEF WhileDown
        <3> QED BY <3>2, <3>3
    <2>11. HalfBlamed'
        <3>1. left.previous = Half => txn[rTxn].previous = Half \/ "discard" \in stops'
            <4>1. rAt = "discard" /\ left.phase = txn[rTxn].phase => left.phase = "activated"
                BY <2>4, <2>5 DEF AtHand, PhaseFits
            <4> QED BY <4>1, <2>1, <2>2
        <3>2. left.aside = Half => txn[rTxn].aside = Half
            BY <2>2 DEF Half, Nothing
        <3>3. "discard" \in stops => "discard" \in stops' BY <2>1
        <3> SUFFICES ASSUME root = Half \/ \E t \in Txns : Half \in {txn'[t].previous, txn'[t].aside, txn'[t].before}
                     PROVE  faults > 0 \/ "discard" \in stops'
            BY <1>1 DEF HalfBlamed
        <3>4. root = Half \/ "discard" \in stops' \/ \E t \in Txns : Half \in {txn[t].previous, txn[t].aside, txn[t].before}
            BY <1>2, <2>2, <2>3, <3>1, <3>2
        <3> QED BY <3>3, <3>4, <1>2 DEF HalfBlamed
    <2>12. CleanInv'
        <3>1. SUFFICES ASSUME Clean' PROVE (\A t \in Txns : txn'[t].open => t = rTxn) /\ (txn'[rTxn].open => Recoverable(txn[rTxn])')
            BY <1>1 DEF CleanInv
        <3>2. /\ Clean /\ left.phase \notin {"torn", "absent"} /\ rDaemon = "up" /\ rAt # "rollbackBack"
            BY <3>1, <1>1, <2>1, <2>5 DEF Clean, Unlucky
        <3>3. \A t \in Txns : txn'[t].open => t = rTxn
            BY <3>2, <1>2, <2>3 DEF CleanInv
        <3>4. left.phase = txn[rTxn].phase /\ left.aside = Nothing /\ (left.previous = txn[rTxn].previous \/ rAt = "discard")
            BY <3>2, <2>2, <2>4 DEF AtHand
        <3>5. AtHand(txn[rTxn]) /\ rAt \in ({"cleanup"} \cup EarlySteps \cup LateSteps)
              /\ (rAt = "rollback" => txn[rTxn].phase = "activated")
              /\ (rAt = "cleanup" => txn[rTxn].phase \in {"preparing", "activated"})
            BY <3>2, <1>2, <2>4, <2>6 DEF CleanInv
        <3>6. Recoverable(left)
            BY <3>2, <3>4, <3>5, <1>2 DEF Recoverable, AtHand, PhaseFits, AtCleanup, EarlySteps, LateSteps, FirstTree, Nothing
        <3>7. Recoverable(txn[rTxn])' <=> Recoverable(left)
            BY <1>1, <2>3 DEF Recoverable
        <3> QED BY <3>3, <3>6, <3>7
    <2> QED BY <2>7, <2>8, <2>9, <2>10, <2>11, <2>12 DEF RestoreInv
<1> QED BY <1>3, <1>4 DEF Stop

\* Every step keeps the inductive invariant.
LEMMA RestoreInvStep == RestoreInv /\ [RestoreNext]_restoreVars => RestoreInv'
<1> SUFFICES ASSUME RestoreInv, [RestoreNext]_restoreVars PROVE RestoreInv'
    OBVIOUS
<1>1. CASE UNCHANGED restoreVars
    <2> USE <1>1 DEF restoreVars
    <2>1. RestoreType' /\ Answered' /\ HalfBlamed'
        BY DEF RestoreInv, RestoreType, Answered, HalfBlamed
    <2>2. WhileUp'
        <3>1. AtHand(txn[rTxn])' <=> AtHand(txn[rTxn]) BY DEF AtHand, PhaseFits, AtCleanup
        <3> QED BY <3>1 DEF RestoreInv, WhileUp, LeftBehind
    <2>3. WhileDown'
        <3>1. Marked' <=> Marked BY DEF Marked
        <3> QED BY <3>1 DEF RestoreInv, WhileDown
    <2>4. CleanInv'
        <3>1. (Clean' <=> Clean) /\ (Recoverable(txn[rTxn])' <=> Recoverable(txn[rTxn])) BY DEF Clean, Recoverable
        <3> QED BY <3>1 DEF RestoreInv, CleanInv
    <2> QED BY <2>1, <2>2, <2>3, <2>4 DEF RestoreInv
<1>2. CASE \E t \in Txns : BeginRestore(t) \/ RecoverOne(t)
    BY <1>2, BeginKeeps, RecoverOneKeeps
<1>3. CASE RestoreStep
    BY <1>3, PreparingStep, ExtractStep, PreparedStep, MoveStep, MovedStep, ActivateStep, ActivatedStep,
       PostcheckStep, DiscardStep, AsideStep, BackStep, CleanupStep DEF RestoreStep
<1>4. CASE StartDaemon \/ Serve \/ RecoverBack \/ RecoverRemove
    BY <1>4, StartKeeps, ServeKeeps, RecoverBackKeeps, RecoverRemoveKeeps
<1>5. CASE WorkInRoot \/ Stop
    BY <1>5, WorkInRootKeeps, StopKeeps
<1> QED BY <1>1, <1>2, <1>3, <1>4, <1>5 DEF RestoreNext

\* The inductive invariant implies the property.
LEMMA RestoreInvImplies == RestoreInv => RestoreTrue
<1> SUFFICES ASSUME RestoreInv PROVE RestoreTrue
    OBVIOUS
<1>1. VerdictTrue
    <2> SUFFICES ASSUME rAt = "cleanup" PROVE AtCleanup(txn[rTxn])
        BY DEF VerdictTrue, AtCleanup
    <2>1. rDaemon = "up" BY DEF RestoreInv, RestoreType
    <2> QED BY <2>1 DEF RestoreInv, WhileUp, AtHand
<1>2. StartsClean
    <2>1. rDaemon = "refused" => ~Clean BY DEF RestoreInv, CleanInv
    <2>2. faults \in Nat BY DEF RestoreInv, RestoreType
    <2> QED BY <2>1, <2>2 DEF RestoreInv, HalfBlamed, StartsClean, Clean, Unlucky
<1> QED BY <1>1, <1>2 DEF RestoreTrue

\* VerdictTrue and StartsClean for every number of restores, failing calls and
\* crashes.
THEOREM RestoreIsTrue == RestoreSpec => []RestoreTrue
<1>1. RestoreInit => RestoreInv BY RestoreInitially
<1>2. RestoreInv /\ [RestoreNext]_restoreVars => RestoreInv' BY RestoreInvStep
<1>3. RestoreInv => RestoreTrue BY RestoreInvImplies
<1> QED BY <1>1, <1>2, <1>3, PTL DEF RestoreSpec

Holds(t) == txn[t].open /\ wanted \in {txn[t].previous, txn[t].aside}

\* A step that changes one directory keeps the wanted tree if root and that
\* directory do.
LEMMA StaysOnDisk ==
    ASSUME OnDisk(wanted), NEW t \in Txns, \A u \in Txns \ {t} : txn'[u] = txn[u],
           wanted' = wanted, root = wanted \/ Holds(t) => root' = wanted \/ Holds(t)'
    PROVE  OnDisk(wanted)'
<1>1. CASE root = wanted BY <1>1 DEF OnDisk, Holds
<1>2. CASE Holds(t) BY <1>2 DEF OnDisk, Holds
<1>3. CASE root # wanted /\ \E u \in Txns \ {t} : Holds(u)
    BY <1>3 DEF OnDisk, Holds
<1> QED BY <1>1, <1>2, <1>3 DEF OnDisk, Holds

\* No step of RestoreBackup removes the last copy of the wanted tree.
LEMMA WorkKeepsTree ==
    ASSUME RestoreInv, RestoreStep, OnDisk(wanted)
    PROVE  OnDisk(wanted)'
<1>0. rAt \in UpSteps \ {"idle"}
    BY DEF RestoreStep, WriteEarlyPhase, ExtractCandidate, MoveCurrent, WriteMoved, Activate, WriteActivated, Postcheck,
           DiscardPrevious, RollbackAside, RollbackBack, Cleanup, UpSteps, EarlySteps, LateSteps
<1>1. rTxn \in Txns /\ txn \in [Txns -> TxnRecords] /\ txn[rTxn] \in TxnRecords /\ AtHand(txn[rTxn])
      /\ root \in Nat /\ wanted \in Nat /\ FirstTree <= wanted
    BY <1>0, RestoreAtWork
<1> USE <1>1 DEF NoFault, Fault, bounds, Go, Set, Return, Abandon, Undecided, Holds, TxnRecords
<1>2. CASE WriteEarlyPhase("writePreparing", "extract") \/ WriteEarlyPhase("writePrepared", "moveCurrent")
    BY <1>2, StaysOnDisk DEF WriteEarlyPhase
<1>3. CASE ExtractCandidate BY <1>3, StaysOnDisk DEF ExtractCandidate
<1>4. CASE MoveCurrent BY <1>4, StaysOnDisk DEF MoveCurrent, AtHand, EarlySteps, Nothing, FirstTree
<1>5. CASE WriteMoved
    <2>1. root = Nothing /\ txn[rTxn].open BY <1>5 DEF WriteMoved, AtHand
    <2>2. \/ root' = root /\ Set("phase", "current-moved")
          \/ \E left \in LeftByFailedWrite("prepared", "current-moved"), back \in BOOLEAN :
                /\ root' = IF back THEN txn[rTxn].previous ELSE root
                /\ txn' = [txn EXCEPT ![rTxn].phase = left, ![rTxn].outcome = "RECOVERY_REQUIRED",
                                      ![rTxn].previous = IF back THEN Nothing ELSE @]
        BY <1>5 DEF WriteMoved
    <2>3. (\A u \in Txns \ {rTxn} : txn'[u] = txn[u]) /\ wanted' = wanted
        BY <1>5 DEF WriteMoved
    <2>4. txn[rTxn].aside = Nothing /\ wanted # Nothing
        <3>1. txn[rTxn].aside = Nothing BY <1>1 DEF AtHand
        <3>2. wanted # Nothing BY <1>1 DEF Nothing, FirstTree
        <3> QED BY <3>1, <3>2
    <2>5. txn'[rTxn].open /\ (root' = txn[rTxn].previous \/ txn'[rTxn].previous = txn[rTxn].previous)
        <3>1. CASE root' = root /\ Set("phase", "current-moved") BY <2>1, <3>1
        <3>2. ASSUME NEW left \in LeftByFailedWrite("prepared", "current-moved"), NEW back \in BOOLEAN,
                     root' = IF back THEN txn[rTxn].previous ELSE root,
                     txn' = [txn EXCEPT ![rTxn].phase = left, ![rTxn].outcome = "RECOVERY_REQUIRED",
                                        ![rTxn].previous = IF back THEN Nothing ELSE @]
              PROVE  txn'[rTxn].open /\ (root' = txn[rTxn].previous \/ txn'[rTxn].previous = txn[rTxn].previous)
            <4>1. CASE back BY <2>1, <3>2, <4>1
            <4>2. CASE ~back BY <2>1, <3>2, <4>2
            <4> QED BY <4>1, <4>2
        <3> QED BY <2>2, <3>1, <3>2
    <2>6. PICK t \in Txns : t = rTxn
        BY <1>1
    <2>7. wanted \in {txn[t].previous, txn[t].aside} => root' = wanted \/ Holds(t)'
        BY <2>3, <2>4, <2>5, <2>6
    <2>8. root = wanted \/ Holds(t) => root' = wanted \/ Holds(t)'
        BY <2>1, <2>4, <2>7
    <2> QED BY <2>3, <2>6, <2>8, StaysOnDisk
<1>6. CASE Activate BY <1>6, StaysOnDisk DEF Activate, AtHand, Nothing, FirstTree
<1>7. CASE WriteActivated BY <1>7, StaysOnDisk DEF WriteActivated
<1>8. CASE Postcheck BY <1>8, StaysOnDisk DEF Postcheck, OnDisk
<1>9. CASE DiscardPrevious BY <1>9, StaysOnDisk DEF DiscardPrevious, AtHand
<1>10. CASE RollbackAside BY <1>10, StaysOnDisk DEF RollbackAside, AtHand
<1>11. CASE RollbackBack BY <1>11, StaysOnDisk DEF RollbackBack, AtHand, Nothing, FirstTree
<1>12. CASE Cleanup
    <2>1. ~Holds(rTxn) /\ root' = root /\ wanted' = wanted
        BY <1>12 DEF Cleanup, AtHand, AtCleanup, Nothing, FirstTree
    <2>2. \A u \in Txns \ {rTxn} : txn'[u] = txn[u]
        BY <1>12 DEF Cleanup, Closed
    <2> QED BY <2>1, <2>2, StaysOnDisk
<1> QED BY <1>2, <1>3, <1>4, <1>5, <1>6, <1>7, <1>8, <1>9, <1>10, <1>11, <1>12 DEF RestoreStep

\* Nor does a step of the startup recovery.
LEMMA RecoveryKeepsTree ==
    ASSUME RestoreInv, (\E t \in Txns : RecoverOne(t)) \/ RecoverBack \/ RecoverRemove, OnDisk(wanted)
    PROVE  OnDisk(wanted)' \/ (rAt = "recoverRemove" /\ Marked)
<1>1. RestoreType /\ rTxn \in Txns /\ txn \in [Txns -> TxnRecords] /\ root \in Nat /\ wanted \in Nat /\ wanted # Nothing
    BY DEF RestoreInv, RestoreType, FirstTree, Nothing
<1>2. ASSUME NEW t \in Txns, RecoverOne(t) PROVE OnDisk(wanted)'
    <2>1. txn[t] \in TxnRecords /\ txn[t].previous \in Nat /\ wanted' = wanted
          /\ (Decision(txn[t]) = "back" => root = Nothing)
        BY <1>1, <1>2, DecisionReads DEF TxnRecords, RecoverOne
    <2> QED BY <1>1, <1>2, <2>1, StaysOnDisk DEF RecoverOne, Holds, TxnRecords
<1>3. CASE RecoverBack
    <2>1. root = Nothing /\ txn[rTxn].open /\ txn[rTxn] \in TxnRecords /\ wanted' = wanted
        BY <1>1, <1>3 DEF RecoverBack, RestoreInv, RestoreType, WhileDown, UpSteps, EarlySteps, LateSteps
    <2> QED BY <1>1, <1>3, <2>1, StaysOnDisk DEF RecoverBack, Holds, TxnRecords, Set
<1>4. CASE RecoverRemove
    <2>1. /\ rAt = "recoverRemove" /\ rDaemon # "up" /\ root' = root /\ wanted' = wanted
          /\ \A u \in Txns \ {rTxn} : txn'[u] = txn[u]
        BY <1>1, <1>4 DEF RecoverRemove, RestoreType, UpSteps, EarlySteps, LateSteps, Closed
    <2>2. ~Marked => ~Holds(rTxn)
        <3>1. txn[rTxn].previous = Nothing /\ txn[rTxn].open BY <2>1 DEF RestoreInv, WhileDown
        <3>2. ~Marked => txn[rTxn].outcome \notin {"verified", "RECOVERY_REQUIRED"} BY <1>1 DEF Marked
        <3>3. ~Marked /\ txn[rTxn].outcome = "none" => txn[rTxn].aside # wanted
            BY <1>1, <2>1, <3>1 DEF RestoreInv, WhileDown
        <3>4. ~Marked /\ txn[rTxn].outcome # "none" => txn[rTxn].aside = Nothing
            BY <1>1, <3>1, <3>2 DEF RestoreInv, Answered
        <3> QED BY <1>1, <3>1, <3>3, <3>4 DEF Holds
    <2> QED BY <1>1, <2>1, <2>2, StaysOnDisk
<1> QED BY <1>2, <1>3, <1>4

\* Nor does a stop, but in the middle of a removal recovery was asked to make by hand.
LEMMA StopKeepsTree ==
    ASSUME RestoreInv, Stop, OnDisk(wanted)
    PROVE  OnDisk(wanted)' \/ (rAt = "recoverRemove" /\ Marked)
<1>1. RestoreType /\ rTxn \in Txns /\ txn \in [Txns -> TxnRecords] /\ wanted \in Nat /\ wanted # Nothing
      /\ root' = root /\ wanted' = wanted
    BY DEF RestoreInv, RestoreType, FirstTree, Nothing, Stop
<1>2. CASE UNCHANGED txn BY <1>1, <1>2 DEF OnDisk
<1>3. CASE rAt # "idle" /\ \E left \in CutShort(rTxn) : txn' = [txn EXCEPT ![rTxn] = left]
    <2>1. PICK left \in CutShort(rTxn) : txn' = [txn EXCEPT ![rTxn] = left] BY <1>3
    <2>2. /\ left.open = txn[rTxn].open
          /\ left.previous = txn[rTxn].previous \/ rAt = "discard"
          /\ left.aside = txn[rTxn].aside \/ rAt \in {"cleanup", "recoverRemove"}
        BY <1>1, <1>3, CutShortLeaves
    <2>3. (\A u \in Txns \ {rTxn} : txn'[u] = txn[u]) /\ txn'[rTxn] = left
        BY <1>1, <2>1
    <2>4. rAt = "discard" => root = wanted
        BY <1>1, <1>3 DEF RestoreInv, RestoreType, WhileUp, AtHand
    <2>5. rAt = "cleanup" => ~Holds(rTxn)
        BY <1>1, <1>3 DEF RestoreInv, RestoreType, WhileUp, AtHand, AtCleanup, Holds
    <2>6. rAt = "recoverRemove" /\ ~Marked => ~Holds(rTxn)
        <3>0. SUFFICES ASSUME rAt = "recoverRemove", ~Marked PROVE ~Holds(rTxn) OBVIOUS
        <3>1. rDaemon # "up" /\ txn[rTxn].previous = Nothing /\ txn[rTxn].open
            BY <1>1, <3>0 DEF RestoreInv, WhileDown, RestoreType, UpSteps, EarlySteps, LateSteps
        <3>2. txn[rTxn].outcome \notin {"verified", "RECOVERY_REQUIRED"} BY <1>1, <3>0 DEF Marked
        <3>3. txn[rTxn].outcome = "none" => txn[rTxn].aside # wanted
            BY <1>1, <3>0, <3>1 DEF RestoreInv, WhileDown
        <3>4. txn[rTxn].outcome # "none" => txn[rTxn].aside = Nothing
            BY <1>1, <3>1, <3>2 DEF RestoreInv, Answered
        <3> QED BY <1>1, <3>1, <3>3, <3>4 DEF Holds
    <2> QED BY <1>1, <2>2, <2>3, <2>4, <2>5, <2>6, StaysOnDisk DEF Holds
<1> QED BY <1>2, <1>3 DEF Stop

\* Every step keeps the wanted tree.
LEMMA TreeKeptStep ==
    ASSUME RestoreInv, [RestoreNext]_restoreVars, OnDisk(wanted)
    PROVE  OnDisk(wanted)' \/ (rAt = "recoverRemove" /\ Marked)
<1>1. CASE UNCHANGED restoreVars BY <1>1 DEF restoreVars, OnDisk
<1>2. CASE \E t \in Txns : BeginRestore(t)
    <2>1. PICK t \in Txns : BeginRestore(t) BY <1>2
    <2>2. txn \in [Txns -> TxnRecords] /\ txn[t].open = FALSE /\ root' = root /\ wanted' = wanted
        BY <2>1 DEF RestoreInv, RestoreType, BeginRestore, Unused
    <2> QED BY <2>1, <2>2, StaysOnDisk DEF BeginRestore, Holds
<1>3. CASE RestoreStep BY <1>3, WorkKeepsTree
<1>4. CASE (\E t \in Txns : RecoverOne(t)) \/ RecoverBack \/ RecoverRemove BY <1>4, RecoveryKeepsTree
<1>5. CASE StartDaemon \/ Serve BY <1>5 DEF StartDaemon, Serve, OnDisk
<1>6. CASE WorkInRoot BY <1>6 DEF WorkInRoot, OnDisk
<1>7. CASE Stop BY <1>7, StopKeepsTree
<1> QED BY <1>1, <1>2, <1>3, <1>4, <1>5, <1>6, <1>7 DEF RestoreNext

\* The tree that counts stays on the disk, through every step, failing call and
\* crash, but for the removal TreeKept names.
THEOREM RestoreKeepsTree == RestoreSpec => TreeKept
<1>1. RestoreInit => RestoreInv BY RestoreInitially
<1>2. RestoreInv /\ [RestoreNext]_restoreVars => RestoreInv' BY RestoreInvStep
<1>3. RestoreInv /\ [RestoreNext]_restoreVars =>
        [OnDisk(wanted) =>
          \/ OnDisk(wanted)'
          \/ /\ rAt = "recoverRemove"
             /\ \E t \in Txns : txn[t].outcome \in {"verified", "RECOVERY_REQUIRED"}]_restoreVars
    BY TreeKeptStep DEF Marked
<1> QED BY <1>1, <1>2, <1>3, PTL DEF RestoreSpec, TreeKept

(***************************************************************************)
(* Migrations.                                                             *)
(***************************************************************************)
DatabaseRecords == [version : Nat, data : Nat, sound : BOOLEAN]
RunRecords == [id : Nat, status : {"NONE", "RUNNING", "SUCCEEDED", "RESTORED", "RECOVERY_REQUIRED"},
               source : Nat, target : Nat]
CopyRecords == [id : Nat, source : Nat, target : Nat, db : DatabaseRecords]

MigrationType ==
    /\ db \in DatabaseRecords /\ journal \in [hot : BOOLEAN, db : DatabaseRecords]
    /\ protections \subseteq CopyRecords /\ state \in RunRecords /\ run \in RunRecords
    /\ program \in Nat /\ program # 0
    /\ writes \in Nat /\ ioFaults \in Nat /\ runs \in Nat /\ mixedIn \in BOOLEAN

\* Every copy was made by a run that has begun, of the version it names.
CopiesTrue ==
    \A p \in protections : /\ p.id <= runs /\ p.source # 0 /\ p.db.version = p.source
                           /\ p.db.sound \/ mixedIn

DatabaseTrue ==
    /\ db.data = writes /\ (db.version = 0 => writes = 0)
    /\ db.sound \/ mixedIn

\* A journal is hot only until the database is read again.
JournalTrue ==
    journal.hot =>
        /\ step \in {"down", "restoreInterrupted", "writeRestoredThenOpen", "writeRecovery", "connect"}
        /\ journal.db = db \/ mixedIn

\* Undoing the run loses no write.
Undoable(r) ==
    /\ r.source = 0 => writes = 0
    /\ \A p \in protections : p.id = r.id => p.source = r.source /\ p.db.data = writes

StateTrue ==
    /\ state.status = "RUNNING" => Undoable(state) /\ CanRestore(state)
    /\ state.status = "SUCCEEDED" => db.version = state.target \/ ioFaults > 0
    /\ state.status = "RESTORED" => db.version = state.source
    /\ state.status = "RECOVERY_REQUIRED" => ioFaults > 0

Begun(as) == state = run /\ run.status = as /\ run.target = program
Failing == (state = run /\ run.status = "RUNNING") \/ (state.status = "SUCCEEDED" /\ ioFaults > 0)
NothingBegun == state.status \in {"NONE", "SUCCEEDED", "RESTORED"}

\* What the process knows at each step.
AtStep ==
    /\ step = "restoreInterrupted" => state.status = "RUNNING"
    /\ step \in {"connect", "protect", "writeRunning", "serving"} => NothingBegun
    /\ step = "writeRunning" => Undoable(run) /\ CanRestore(run) /\ run.status = "RUNNING" /\ run.target = program
    /\ step \in {"migrate", "history", "writeSucceeded"} => Begun("RUNNING")
    /\ step = "verify" => Begun("RUNNING") \/ NothingBegun
    /\ step \in {"verify", "history", "writeSucceeded", "retain", "serving"} => db.version = program
    /\ step = "retain" => Undoable(run) /\ state.status = "SUCCEEDED"
    /\ step = "failAndRestore" => Undoable(run) /\ Failing /\ (CanRestore(run) \/ ioFaults > 0)
    /\ step = "writeRestored" => Failing
    /\ step = "writeRestoredThenOpen" => state.status = "RUNNING"
    /\ step \in {"writeRestored", "writeRestoredThenOpen"} => db.version = run.source
    /\ step = "writeRecovery" => ioFaults > 0

MigrationInv == MigrationType /\ CopiesTrue /\ DatabaseTrue /\ JournalTrue /\ StateTrue /\ AtStep
-----------------------------------------------------------------------------
\* At first the database is as the first program left it.
LEMMA MigrationInitially == MigrationInit => MigrationInv
<1> SUFFICES ASSUME MigrationInit PROVE MigrationInv OBVIOUS
<1> USE DEF MigrationInit, Database, NoJournal, NoRun
<1>1. MigrationType
    <2>1. program \in Nat /\ program # 0 /\ db \in DatabaseRecords
        BY MigrationBounds DEF DatabaseRecords
    <2> QED BY <2>1 DEF MigrationType, DatabaseRecords, RunRecords
<1>2. CopiesTrue /\ DatabaseTrue /\ JournalTrue /\ StateTrue /\ AtStep
    BY DEF CopiesTrue, DatabaseTrue, JournalTrue, StateTrue, AtStep
<1> QED BY <1>1, <1>2 DEF MigrationInv

\* Putting the copy of a run back, or deleting a database there was not.
LEMMA RestoredIsSource ==
    ASSUME MigrationInv, NEW r \in RunRecords, CanRestore(r), Undoable(r), Restored(r),
           UNCHANGED <<protections, writes, runs>>
    PROVE  /\ db' \in DatabaseRecords /\ db'.version = r.source /\ DatabaseTrue' /\ CopiesTrue'
           /\ journal' \in [hot : BOOLEAN, db : DatabaseRecords] /\ mixedIn' \in BOOLEAN
           /\ journal'.hot => journal.hot /\ mixedIn'
<1>0. MigrationType /\ CopiesTrue /\ DatabaseTrue BY DEF MigrationInv
<1>1. CASE r.source = 0
    <2>1. db' = Database(0, 0) /\ journal' = NoJournal /\ mixedIn' = mixedIn
        BY <1>1 DEF Restored
    <2> QED BY <1>0, <1>1, <2>1 DEF Undoable, Database, NoJournal, DatabaseTrue, CopiesTrue, MigrationType, DatabaseRecords
<1>2. CASE r.source # 0
    <2>1. PICK p \in protections : p.id = r.id /\ db' = p.db
        BY <1>2 DEF Restored, CopyOf
    <2>2. journal' = journal /\ mixedIn' = (mixedIn \/ journal.hot)
        BY <1>2 DEF Restored
    <2>3. p \in CopyRecords /\ p.source = r.source /\ p.db.data = writes /\ p.db.version = p.source
          /\ p.source # 0 /\ (p.db.sound \/ mixedIn)
        BY <1>0, <2>1 DEF Undoable, CopiesTrue, MigrationType
    <2>4. mixedIn \in BOOLEAN /\ journal.hot \in BOOLEAN /\ mixedIn' \in BOOLEAN
        BY <1>0, <2>2 DEF MigrationType
    <2>5. DatabaseTrue'
        BY <2>1, <2>2, <2>3, <2>4 DEF DatabaseTrue
    <2>6. CopiesTrue'
        BY <1>0, <2>2, <2>4 DEF CopiesTrue
    <2> QED BY <1>0, <2>1, <2>2, <2>3, <2>4, <2>5, <2>6 DEF MigrationType, CopyRecords
<1> QED BY <1>1, <1>2

\* Opening reads the state file and decides.
LEMMA OpenKeeps ==
    ASSUME MigrationInv, Open
    PROVE  MigrationInv'
<1>0. MigrationType /\ CopiesTrue /\ DatabaseTrue /\ JournalTrue /\ StateTrue /\ AtStep
    BY DEF MigrationInv
<1> USE <1>0 DEF Open, counters, NoIOFault, IOFault, To, Exit, WriteState, FailWrite
<1>1. MigrationType'
    BY DEF MigrationType, DatabaseRecords, RunRecords, CopyRecords
<1>2. CopiesTrue' /\ DatabaseTrue'
    BY DEF MigrationType, CopiesTrue, DatabaseTrue, DatabaseRecords
<1>3. JournalTrue'
    BY DEF MigrationType, JournalTrue
<1>4. StateTrue'
    BY DEF MigrationType, StateTrue, AtStep, Begun, Failing, NothingBegun, Undoable, CanRestore, CopyOf, RunRecords
<1>5. AtStep'
    BY DEF MigrationType, StateTrue, AtStep, Begun, Failing, NothingBegun, Undoable, CanRestore, CopyOf, RunRecords
<1> QED BY <1>1, <1>2, <1>3, <1>4, <1>5 DEF MigrationInv

\* Recording a restored run, then opening.
LEMMA WriteRestoredThenOpenKeeps ==
    ASSUME MigrationInv, WriteRestored("writeRestoredThenOpen", "connect")
    PROVE  MigrationInv'
<1>0. MigrationType /\ CopiesTrue /\ DatabaseTrue /\ JournalTrue /\ StateTrue /\ AtStep
    BY DEF MigrationInv
<1> USE <1>0 DEF WriteRestored, counters, NoIOFault, IOFault, To, Exit, WriteState, FailWrite
<1>1. MigrationType'
    BY DEF MigrationType, DatabaseRecords, RunRecords, CopyRecords
<1>2. CopiesTrue' /\ DatabaseTrue'
    BY DEF MigrationType, CopiesTrue, DatabaseTrue, DatabaseRecords
<1>3. JournalTrue'
    BY DEF MigrationType, JournalTrue
<1>4. StateTrue'
    BY DEF MigrationType, StateTrue, AtStep, Begun, Failing, NothingBegun, Undoable, CanRestore, CopyOf, RunRecords
<1>5. AtStep'
    BY DEF MigrationType, StateTrue, AtStep, Begun, Failing, NothingBegun, Undoable, CanRestore, CopyOf, RunRecords
<1> QED BY <1>1, <1>2, <1>3, <1>4, <1>5 DEF MigrationInv

\* Recording a restored run, then ending.
LEMMA WriteRestoredKeeps ==
    ASSUME MigrationInv, WriteRestored("writeRestored", "down")
    PROVE  MigrationInv'
<1>0. MigrationType /\ CopiesTrue /\ DatabaseTrue /\ JournalTrue /\ StateTrue /\ AtStep
    BY DEF MigrationInv
<1> USE <1>0 DEF WriteRestored, counters, NoIOFault, IOFault, To, Exit, WriteState, FailWrite
<1>1. MigrationType'
    BY DEF MigrationType, DatabaseRecords, RunRecords, CopyRecords
<1>2. CopiesTrue' /\ DatabaseTrue'
    BY DEF MigrationType, CopiesTrue, DatabaseTrue, DatabaseRecords
<1>3. JournalTrue'
    BY DEF MigrationType, JournalTrue
<1>4. StateTrue'
    BY DEF MigrationType, StateTrue, AtStep, Begun, Failing, NothingBegun, Undoable, CanRestore, CopyOf, RunRecords
<1>5. AtStep'
    BY DEF MigrationType, StateTrue, AtStep, Begun, Failing, NothingBegun, Undoable, CanRestore, CopyOf, RunRecords
<1> QED BY <1>1, <1>2, <1>3, <1>4, <1>5 DEF MigrationInv

\* Recording that recovery is required.
LEMMA WriteRecoveryKeeps ==
    ASSUME MigrationInv, WriteRecovery
    PROVE  MigrationInv'
<1>0. MigrationType /\ CopiesTrue /\ DatabaseTrue /\ JournalTrue /\ StateTrue /\ AtStep
    BY DEF MigrationInv
<1> USE <1>0 DEF WriteRecovery, counters, NoIOFault, IOFault, To, Exit, WriteState, FailWrite
<1>1. MigrationType'
    BY DEF MigrationType, DatabaseRecords, RunRecords, CopyRecords
<1>2. CopiesTrue' /\ DatabaseTrue'
    BY DEF MigrationType, CopiesTrue, DatabaseTrue, DatabaseRecords
<1>3. JournalTrue'
    BY DEF MigrationType, JournalTrue
<1>4. StateTrue'
    BY DEF MigrationType, StateTrue, AtStep, Begun, Failing, NothingBegun, Undoable, CanRestore, CopyOf, RunRecords
<1>5. AtStep'
    BY DEF MigrationType, StateTrue, AtStep, Begun, Failing, NothingBegun, Undoable, CanRestore, CopyOf, RunRecords
<1> QED BY <1>1, <1>2, <1>3, <1>4, <1>5 DEF MigrationInv

\* Recording a run before the first migration.
LEMMA WriteRunningKeeps ==
    ASSUME MigrationInv, WriteRunning
    PROVE  MigrationInv'
<1>0. MigrationType /\ CopiesTrue /\ DatabaseTrue /\ JournalTrue /\ StateTrue /\ AtStep
    BY DEF MigrationInv
<1> USE <1>0 DEF WriteRunning, counters, NoIOFault, IOFault, To, Exit, WriteState, FailWrite
<1>1. MigrationType'
    BY DEF MigrationType, DatabaseRecords, RunRecords, CopyRecords
<1>2. CopiesTrue' /\ DatabaseTrue'
    BY DEF MigrationType, CopiesTrue, DatabaseTrue, DatabaseRecords
<1>3. JournalTrue'
    BY DEF MigrationType, JournalTrue
<1>4. StateTrue'
    BY DEF MigrationType, StateTrue, AtStep, Begun, Failing, NothingBegun, Undoable, CanRestore, CopyOf, RunRecords
<1>5. AtStep'
    BY DEF MigrationType, StateTrue, AtStep, Begun, Failing, NothingBegun, Undoable, CanRestore, CopyOf, RunRecords
<1> QED BY <1>1, <1>2, <1>3, <1>4, <1>5 DEF MigrationInv

\* One migration, in its transaction.
LEMMA MigrateOneKeeps ==
    ASSUME MigrationInv, MigrateOne
    PROVE  MigrationInv'
<1>0. MigrationType /\ CopiesTrue /\ DatabaseTrue /\ JournalTrue /\ StateTrue /\ AtStep
    BY DEF MigrationInv
<1> USE <1>0 DEF MigrateOne, counters, NoIOFault, IOFault, To, Exit, WriteState, FailWrite
<1>1. MigrationType'
    BY DEF MigrationType, DatabaseRecords, RunRecords, CopyRecords
<1>2. CopiesTrue' /\ DatabaseTrue'
    BY DEF MigrationType, CopiesTrue, DatabaseTrue, DatabaseRecords
<1>3. JournalTrue'
    BY DEF MigrationType, JournalTrue
<1>4. StateTrue'
    BY DEF MigrationType, StateTrue, AtStep, Begun, Failing, NothingBegun, Undoable, CanRestore, CopyOf, RunRecords
<1>5. AtStep'
    BY DEF MigrationType, StateTrue, AtStep, Begun, Failing, NothingBegun, Undoable, CanRestore, CopyOf, RunRecords
<1> QED BY <1>1, <1>2, <1>3, <1>4, <1>5 DEF MigrationInv

\* The migrated database is checked.
LEMMA VerifyKeeps ==
    ASSUME MigrationInv, Verify
    PROVE  MigrationInv'
<1>0. MigrationType /\ CopiesTrue /\ DatabaseTrue /\ JournalTrue /\ StateTrue /\ AtStep
    BY DEF MigrationInv
<1> USE <1>0 DEF Verify, counters, NoIOFault, IOFault, To, Exit, WriteState, FailWrite
<1>1. MigrationType'
    BY DEF MigrationType, DatabaseRecords, RunRecords, CopyRecords
<1>2. CopiesTrue' /\ DatabaseTrue'
    BY DEF MigrationType, CopiesTrue, DatabaseTrue, DatabaseRecords
<1>3. JournalTrue'
    BY DEF MigrationType, JournalTrue
<1>4. StateTrue'
    BY DEF MigrationType, StateTrue, AtStep, Begun, Failing, NothingBegun, Undoable, CanRestore, CopyOf, RunRecords
<1>5. AtStep'
    BY DEF MigrationType, StateTrue, AtStep, Begun, Failing, NothingBegun, Undoable, CanRestore, CopyOf, RunRecords
<1> QED BY <1>1, <1>2, <1>3, <1>4, <1>5 DEF MigrationInv

\* The row of the history.
LEMMA WriteHistoryKeeps ==
    ASSUME MigrationInv, WriteHistory
    PROVE  MigrationInv'
<1>0. MigrationType /\ CopiesTrue /\ DatabaseTrue /\ JournalTrue /\ StateTrue /\ AtStep
    BY DEF MigrationInv
<1> USE <1>0 DEF WriteHistory, counters, NoIOFault, IOFault, To, Exit, WriteState, FailWrite
<1>1. MigrationType'
    BY DEF MigrationType, DatabaseRecords, RunRecords, CopyRecords
<1>2. CopiesTrue' /\ DatabaseTrue'
    BY DEF MigrationType, CopiesTrue, DatabaseTrue, DatabaseRecords
<1>3. JournalTrue'
    BY DEF MigrationType, JournalTrue
<1>4. StateTrue'
    BY DEF MigrationType, StateTrue, AtStep, Begun, Failing, NothingBegun, Undoable, CanRestore, CopyOf, RunRecords
<1>5. AtStep'
    BY DEF MigrationType, StateTrue, AtStep, Begun, Failing, NothingBegun, Undoable, CanRestore, CopyOf, RunRecords
<1> QED BY <1>1, <1>2, <1>3, <1>4, <1>5 DEF MigrationInv

\* Recording a run that succeeded.
LEMMA WriteSucceededKeeps ==
    ASSUME MigrationInv, WriteSucceeded
    PROVE  MigrationInv'
<1>0. MigrationType /\ CopiesTrue /\ DatabaseTrue /\ JournalTrue /\ StateTrue /\ AtStep
    BY DEF MigrationInv
<1> USE <1>0 DEF WriteSucceeded, counters, NoIOFault, IOFault, To, Exit, WriteState, FailWrite
<1>1. MigrationType'
    BY DEF MigrationType, DatabaseRecords, RunRecords, CopyRecords
<1>2. CopiesTrue' /\ DatabaseTrue'
    BY DEF MigrationType, CopiesTrue, DatabaseTrue, DatabaseRecords
<1>3. JournalTrue'
    BY DEF MigrationType, JournalTrue
<1>4. StateTrue'
    BY DEF MigrationType, StateTrue, AtStep, Begun, Failing, NothingBegun, Undoable, CanRestore, CopyOf, RunRecords
<1>5. AtStep'
    BY DEF MigrationType, StateTrue, AtStep, Begun, Failing, NothingBegun, Undoable, CanRestore, CopyOf, RunRecords
<1> QED BY <1>1, <1>2, <1>3, <1>4, <1>5 DEF MigrationInv

\* The daemon ends.
LEMMA QuitKeeps ==
    ASSUME MigrationInv, Quit
    PROVE  MigrationInv'
<1>0. MigrationType /\ CopiesTrue /\ DatabaseTrue /\ JournalTrue /\ StateTrue /\ AtStep
    BY DEF MigrationInv
<1> USE <1>0 DEF Quit, counters, NoIOFault, IOFault, To, Exit, WriteState, FailWrite
<1>1. MigrationType'
    BY DEF MigrationType, DatabaseRecords, RunRecords, CopyRecords
<1>2. CopiesTrue' /\ DatabaseTrue'
    BY DEF MigrationType, CopiesTrue, DatabaseTrue, DatabaseRecords
<1>3. JournalTrue'
    BY DEF MigrationType, JournalTrue
<1>4. StateTrue'
    BY DEF MigrationType, StateTrue, AtStep, Begun, Failing, NothingBegun, Undoable, CanRestore, CopyOf, RunRecords
<1>5. AtStep'
    BY DEF MigrationType, StateTrue, AtStep, Begun, Failing, NothingBegun, Undoable, CanRestore, CopyOf, RunRecords
<1> QED BY <1>1, <1>2, <1>3, <1>4, <1>5 DEF MigrationInv

\* Another version of the program is installed.
LEMMA InstallProgramKeeps ==
    ASSUME MigrationInv, InstallProgram
    PROVE  MigrationInv'
<1>0. MigrationType /\ CopiesTrue /\ DatabaseTrue /\ JournalTrue /\ StateTrue /\ AtStep
    BY DEF MigrationInv
<1> USE <1>0 DEF InstallProgram, counters, NoIOFault, IOFault, To, Exit, WriteState, FailWrite
<1>1. MigrationType'
    BY DEF MigrationType, DatabaseRecords, RunRecords, CopyRecords
<1>2. CopiesTrue' /\ DatabaseTrue'
    BY DEF MigrationType, CopiesTrue, DatabaseTrue, DatabaseRecords
<1>3. JournalTrue'
    BY DEF MigrationType, JournalTrue
<1>4. StateTrue'
    BY DEF MigrationType, StateTrue, AtStep, Begun, Failing, NothingBegun, Undoable, CanRestore, CopyOf, RunRecords
<1>5. AtStep'
    BY DEF MigrationType, StateTrue, AtStep, Begun, Failing, NothingBegun, Undoable, CanRestore, CopyOf, RunRecords
<1> QED BY <1>1, <1>2, <1>3, <1>4, <1>5 DEF MigrationInv

\* The next start puts the copy of an interrupted run back.
LEMMA RestoreInterruptedKeeps ==
    ASSUME MigrationInv, RestoreInterrupted
    PROVE  MigrationInv'
<1>0. MigrationType /\ CopiesTrue /\ DatabaseTrue /\ JournalTrue /\ StateTrue /\ AtStep
    BY DEF MigrationInv
<1>1. /\ step = "restoreInterrupted" /\ run' = state /\ state' = state /\ protections' = protections
      /\ writes' = writes /\ runs' = runs /\ program' = program
      /\ state.status = "RUNNING" /\ Undoable(state) /\ CanRestore(state) /\ state \in RunRecords
      /\ Undoable(state)' /\ CanRestore(state)'
    BY <1>0 DEF RestoreInterrupted, AtStep, StateTrue, MigrationType, Undoable, CanRestore, CopyOf
<1>2. CASE CanRestore(state) /\ NoIOFault /\ Restored(state) /\ To("writeRestoredThenOpen")
    <2>1. /\ db' \in DatabaseRecords /\ db'.version = state.source /\ DatabaseTrue' /\ CopiesTrue'
          /\ journal' \in [hot : BOOLEAN, db : DatabaseRecords] /\ mixedIn' \in BOOLEAN
          /\ journal'.hot => journal.hot /\ mixedIn'
        BY <1>1, <1>2, RestoredIsSource
    <2>2. step' = "writeRestoredThenOpen" /\ ioFaults' = ioFaults
        BY <1>2 DEF NoIOFault, To
    <2>3. MigrationType' BY <1>0, <1>1, <2>1, <2>2 DEF MigrationType
    <2>4. JournalTrue' BY <2>1, <2>2 DEF JournalTrue
    <2>5. StateTrue' BY <1>1 DEF StateTrue
    <2>6. AtStep' BY <1>1, <2>1, <2>2 DEF AtStep
    <2> QED BY <2>1, <2>3, <2>4, <2>5, <2>6 DEF MigrationInv
<1>3. CASE IOFault /\ To("writeRecovery") /\ UNCHANGED <<db, journal, mixedIn>>
    <2>1. step' = "writeRecovery" /\ ioFaults' = ioFaults + 1 /\ UNCHANGED <<db, journal, mixedIn>> /\ ioFaults \in Nat
        BY <1>0, <1>3 DEF IOFault, To, MigrationType
    <2>2. MigrationType' /\ CopiesTrue' /\ DatabaseTrue'
        BY <1>0, <1>1, <2>1 DEF MigrationType, CopiesTrue, DatabaseTrue
    <2>3. JournalTrue' BY <1>0, <1>1, <2>1 DEF JournalTrue
    <2>4. StateTrue' BY <1>1 DEF StateTrue
    <2>5. AtStep' BY <2>1 DEF AtStep
    <2> QED BY <2>2, <2>3, <2>4, <2>5 DEF MigrationInv
<1> QED BY <1>1, <1>2, <1>3 DEF RestoreInterrupted

\* A failing run puts its own copy back.
LEMMA FailAndRestoreKeeps ==
    ASSUME MigrationInv, FailAndRestore
    PROVE  MigrationInv'
<1>0. MigrationType /\ CopiesTrue /\ DatabaseTrue /\ JournalTrue /\ StateTrue /\ AtStep
    BY DEF MigrationInv
<1>1. /\ step = "failAndRestore" /\ run' = run /\ state' = state /\ protections' = protections
      /\ writes' = writes /\ runs' = runs /\ program' = program
      /\ Undoable(run) /\ Failing /\ (CanRestore(run) \/ ioFaults > 0) /\ run \in RunRecords
      /\ ioFaults \in Nat /\ ~journal.hot
    BY <1>0 DEF FailAndRestore, AtStep, MigrationType, JournalTrue
<1>2. /\ state.status \in {"RUNNING", "SUCCEEDED"} /\ (state.status = "SUCCEEDED" => ioFaults > 0)
      /\ state.status = "RUNNING" => Undoable(state)' /\ CanRestore(state)'
    BY <1>0, <1>1 DEF Failing, StateTrue, Undoable, CanRestore, CopyOf
<1>3. CASE CanRestore(run) /\ NoIOFault /\ Restored(run) /\ To("writeRestored")
    <2>1. /\ db' \in DatabaseRecords /\ db'.version = run.source /\ DatabaseTrue' /\ CopiesTrue'
          /\ journal' \in [hot : BOOLEAN, db : DatabaseRecords] /\ mixedIn' \in BOOLEAN
          /\ journal'.hot => journal.hot /\ mixedIn'
        BY <1>1, <1>3, RestoredIsSource
    <2>2. step' = "writeRestored" /\ ioFaults' = ioFaults
        BY <1>3 DEF NoIOFault, To
    <2>3. MigrationType' BY <1>0, <1>1, <2>1, <2>2 DEF MigrationType
    <2>4. JournalTrue' BY <1>1, <2>1 DEF JournalTrue
    <2>5. StateTrue' BY <1>1, <1>2, <2>2 DEF StateTrue
    <2>6. AtStep' BY <1>1, <2>1, <2>2 DEF AtStep, Failing
    <2> QED BY <2>1, <2>3, <2>4, <2>5, <2>6 DEF MigrationInv
<1>4. CASE /\ (NoIOFault /\ ~CanRestore(run)) \/ IOFault
           /\ To("writeRecovery") /\ UNCHANGED <<db, journal, mixedIn>>
    <2>1. step' = "writeRecovery" /\ ioFaults' \in Nat /\ ioFaults' > 0 /\ UNCHANGED <<db, journal, mixedIn>>
        BY <1>1, <1>4 DEF NoIOFault, IOFault, To
    <2>2. MigrationType' /\ CopiesTrue' /\ DatabaseTrue'
        BY <1>0, <1>1, <2>1 DEF MigrationType, CopiesTrue, DatabaseTrue
    <2>3. JournalTrue' BY <1>1, <2>1 DEF JournalTrue
    <2>4. StateTrue' BY <1>1, <1>2, <2>1 DEF StateTrue
    <2>5. AtStep' BY <2>1 DEF AtStep
    <2> QED BY <2>2, <2>3, <2>4, <2>5 DEF MigrationInv
<1> QED BY <1>3, <1>4 DEF FailAndRestore

\* The database is connected, and a hot journal rolled back.
LEMMA ConnectKeeps ==
    ASSUME MigrationInv, Connect
    PROVE  MigrationInv'
<1>0. MigrationType /\ CopiesTrue /\ DatabaseTrue /\ JournalTrue /\ StateTrue /\ AtStep
    BY DEF MigrationInv
<1>1. /\ step = "connect" /\ journal' = NoJournal /\ NothingBegun
      /\ UNCHANGED <<protections, state, run, writes, runs, mixedIn, program, ioFaults>>
    BY <1>0 DEF Connect, counters, AtStep
<1>2. /\ db' \in DatabaseRecords /\ db'.version = db.version /\ db'.data = db.data /\ (db'.sound \/ mixedIn)
    <2>1. db \in DatabaseRecords /\ (db.sound \/ mixedIn) BY <1>0 DEF MigrationType, DatabaseTrue
    <2>2. CASE db' = db BY <2>1, <2>2
    <2>3. CASE db' = Mixed(db) /\ journal.hot /\ journal.db # db
        BY <1>0, <2>1, <2>3 DEF Mixed, JournalTrue, DatabaseRecords
    <2> QED BY <2>2, <2>3 DEF Connect
<1>3. step' \in {"down", "protect", "verify"} /\ (step' = "verify" => db.version = program)
    BY <1>0 DEF Connect, To, MigrationType, DatabaseRecords
<1>4. MigrationType'
    BY <1>0, <1>1, <1>2 DEF MigrationType, NoJournal, Database, DatabaseRecords
<1>5. CopiesTrue' /\ DatabaseTrue'
    BY <1>0, <1>1, <1>2 DEF CopiesTrue, DatabaseTrue
<1>6. JournalTrue' BY <1>1 DEF JournalTrue, NoJournal
<1>7. StateTrue' BY <1>0, <1>1, <1>2 DEF StateTrue, NothingBegun
<1>8. AtStep' BY <1>1, <1>2, <1>3 DEF AtStep, NothingBegun
<1> QED BY <1>4, <1>5, <1>6, <1>7, <1>8 DEF MigrationInv

\* The copy of a run is taken before it.
LEMMA BeginProtectionKeeps ==
    ASSUME MigrationInv, BeginProtection
    PROVE  MigrationInv'
<1>0. MigrationType /\ CopiesTrue /\ DatabaseTrue /\ JournalTrue /\ StateTrue /\ AtStep
    BY DEF MigrationInv
<1>1. /\ step = "protect" /\ NothingBegun /\ ~journal.hot
      /\ UNCHANGED <<db, journal, writes, program, mixedIn, state>>
      /\ db.version \in Nat /\ runs \in Nat /\ program \in Nat /\ ioFaults \in Nat /\ db \in DatabaseRecords
    BY <1>0 DEF BeginProtection, AtStep, JournalTrue, MigrationType, DatabaseRecords
<1>2. CASE IOFault /\ Exit /\ UNCHANGED <<protections, state, run, runs>>
    <2>1. step' = "down" /\ ioFaults' = ioFaults + 1 /\ UNCHANGED <<protections, run, runs>>
        BY <1>2 DEF IOFault, Exit, To
    <2>2. MigrationType' /\ CopiesTrue' /\ DatabaseTrue'
        BY <1>0, <1>1, <2>1 DEF MigrationType, CopiesTrue, DatabaseTrue
    <2>3. JournalTrue' BY <1>1 DEF JournalTrue
    <2>4. StateTrue' BY <1>0, <1>1, <2>1 DEF StateTrue, NothingBegun
    <2>5. AtStep' BY <2>1 DEF AtStep
    <2> QED BY <2>2, <2>3, <2>4, <2>5 DEF MigrationInv
<1>3. CASE ~(IOFault /\ Exit /\ UNCHANGED <<protections, state, run, runs>>)
    <2> DEFINE copy == [id |-> runs + 1, source |-> db.version, target |-> program, db |-> db]
    <2>1. /\ runs' = runs + 1 /\ step' = "writeRunning" /\ ioFaults' = ioFaults
          /\ run' = [id |-> runs + 1, status |-> "RUNNING", source |-> db.version, target |-> program]
          /\ protections' = protections \cup (IF db.version = 0 THEN {} ELSE {copy})
        BY <1>3 DEF BeginProtection, NoIOFault, To
    <2>2. /\ copy \in CopyRecords /\ copy.id = runs + 1 /\ copy.source = db.version /\ copy.db = db
          /\ run' \in RunRecords /\ run'.id = runs + 1 /\ run'.status = "RUNNING"
          /\ run'.source = db.version /\ run'.target = program
        BY <1>1, <2>1 DEF CopyRecords, RunRecords
    <2> HIDE DEF copy
    <2>3. \A p \in protections : p.id # runs + 1 /\ p.id \in Nat
        BY <1>0, <1>1 DEF CopiesTrue, MigrationType, CopyRecords
    <2>4. MigrationType' BY <1>0, <1>1, <2>1, <2>2 DEF MigrationType
    <2>5. DatabaseTrue' BY <1>0, <1>1 DEF DatabaseTrue
    <2>6. CopiesTrue'
        <3> SUFFICES ASSUME NEW p \in protections' PROVE p.id <= runs' /\ p.source # 0 /\ p.db.version = p.source /\ (p.db.sound \/ mixedIn)
            BY <1>1 DEF CopiesTrue
        <3>1. CASE p \in protections BY <1>0, <1>1, <2>1, <2>3, <3>1 DEF CopiesTrue
        <3>2. CASE p = copy /\ db.version # 0 BY <1>0, <1>1, <2>1, <2>2, <3>2 DEF DatabaseTrue
        <3> QED BY <2>1, <3>1, <3>2
    <2>7. JournalTrue' BY <1>1 DEF JournalTrue
    <2>8. StateTrue' BY <1>0, <1>1, <2>1 DEF StateTrue, NothingBegun
    <2>9. (Undoable(run) /\ CanRestore(run))'
        <3>1. db.version = 0 => writes = 0 BY <1>0 DEF DatabaseTrue
        <3>2. \A p \in protections' : p.id = runs + 1 => p = copy BY <2>1, <2>3
        <3>3. db.data = writes BY <1>0 DEF DatabaseTrue
        <3>4. db.version # 0 => copy \in protections' BY <2>1
        <3> QED BY <1>1, <2>2, <3>1, <3>2, <3>3, <3>4 DEF Undoable, CanRestore, CopyOf
    <2>10. AtStep' BY <1>1, <2>1, <2>2, <2>9 DEF AtStep, NothingBegun
    <2> QED BY <2>4, <2>5, <2>6, <2>7, <2>8, <2>10 DEF MigrationInv
<1> QED BY <1>2, <1>3

\* Old copies are removed.
LEMMA RetainKeeps ==
    ASSUME MigrationInv, RetainProtections
    PROVE  MigrationInv'
<1>0. MigrationType /\ CopiesTrue /\ DatabaseTrue /\ JournalTrue /\ StateTrue /\ AtStep
    BY DEF MigrationInv
<1>1. /\ step = "retain" /\ UNCHANGED <<db, journal, state, run, writes, runs, mixedIn, program>>
      /\ Undoable(run) /\ state.status = "SUCCEEDED" /\ db.version = program /\ ~journal.hot /\ ioFaults \in Nat
    BY <1>0 DEF RetainProtections, counters, AtStep, JournalTrue, MigrationType
<1>2. /\ protections' \subseteq protections
      /\ \/ step' = "serving" /\ ioFaults' = ioFaults
         \/ step' = "failAndRestore" /\ ioFaults' = ioFaults + 1
    BY DEF RetainProtections, Kept, NoIOFault, IOFault, To
<1>3. MigrationType' /\ CopiesTrue' /\ DatabaseTrue'
    BY <1>0, <1>1, <1>2 DEF MigrationType, CopiesTrue, DatabaseTrue
<1>4. JournalTrue' BY <1>1 DEF JournalTrue
<1>5. StateTrue' BY <1>0, <1>1, <1>2 DEF StateTrue
<1>6. Undoable(run)' BY <1>1, <1>2 DEF Undoable
<1>7. AtStep' BY <1>1, <1>2, <1>6 DEF AtStep, NothingBegun, Failing
<1> QED BY <1>3, <1>4, <1>5, <1>7 DEF MigrationInv

\* A serving daemon writes to its database.
LEMMA WriteKeeps ==
    ASSUME MigrationInv, Write
    PROVE  MigrationInv'
<1>0. MigrationType /\ CopiesTrue /\ DatabaseTrue /\ JournalTrue /\ StateTrue /\ AtStep
    BY DEF MigrationInv
<1>1. /\ step = "serving" /\ step' = step /\ writes' = writes + 1 /\ NothingBegun /\ ~journal.hot /\ db.version = program /\ program # 0
      /\ UNCHANGED <<journal, protections, state, run, program, ioFaults, runs, mixedIn>>
      /\ writes \in Nat /\ db \in DatabaseRecords
    BY <1>0 DEF Write, AtStep, JournalTrue, MigrationType
<1>2. db' \in DatabaseRecords /\ db'.version = db.version /\ db'.data = writes + 1 /\ db'.sound = db.sound
    BY <1>1 DEF Write, DatabaseRecords
<1>3. MigrationType' BY <1>0, <1>1, <1>2 DEF MigrationType
<1>4. CopiesTrue' BY <1>0, <1>1 DEF CopiesTrue
<1>5. DatabaseTrue' BY <1>0, <1>1, <1>2 DEF DatabaseTrue
<1>6. JournalTrue' BY <1>1 DEF JournalTrue
<1>7. StateTrue' BY <1>0, <1>1, <1>2 DEF StateTrue, NothingBegun
<1>8. AtStep' BY <1>1, <1>2 DEF AtStep, NothingBegun
<1> QED BY <1>3, <1>4, <1>5, <1>6, <1>7, <1>8 DEF MigrationInv

\* The daemon is killed anywhere, even within SQLite's commit.
LEMMA KillKeeps ==
    ASSUME MigrationInv, Kill
    PROVE  MigrationInv'
<1>0. MigrationType /\ CopiesTrue /\ DatabaseTrue /\ JournalTrue /\ StateTrue /\ AtStep
    BY DEF MigrationInv
<1>1. /\ step' = "down" /\ UNCHANGED <<db, protections, state, run, writes, runs, mixedIn, program, ioFaults>>
      /\ db \in DatabaseRecords
    BY <1>0 DEF Kill, Exit, To, counters, MigrationType
<1>2. journal' = journal \/ journal' = [hot |-> TRUE, db |-> db]
    BY DEF Kill
<1>3. journal' \in [hot : BOOLEAN, db : DatabaseRecords] /\ (journal'.hot => journal'.db = db \/ mixedIn)
    <2>1. CASE journal' = journal BY <1>0, <2>1 DEF MigrationType, JournalTrue
    <2>2. CASE journal' = [hot |-> TRUE, db |-> db]
        <3>1. journal'.db = db /\ journal' \in [hot : BOOLEAN, db : DatabaseRecords] BY <1>1, <2>2
        <3> QED BY <3>1
    <2> QED BY <1>2, <2>1, <2>2
<1>4. MigrationType' /\ CopiesTrue' /\ DatabaseTrue'
    BY <1>0, <1>1, <1>3 DEF MigrationType, CopiesTrue, DatabaseTrue
<1>5. JournalTrue' BY <1>1, <1>3 DEF JournalTrue
<1>6. StateTrue' BY <1>0, <1>1 DEF StateTrue, Undoable, CanRestore, CopyOf
<1>7. AtStep' BY <1>1 DEF AtStep
<1> QED BY <1>4, <1>5, <1>6, <1>7 DEF MigrationInv

\* Every step keeps the inductive invariant.
LEMMA MigrationInvStep == MigrationInv /\ [MigrationNext]_migrationVars => MigrationInv'
<1> SUFFICES ASSUME MigrationInv, [MigrationNext]_migrationVars PROVE MigrationInv' OBVIOUS
<1>1. CASE UNCHANGED migrationVars
    BY <1>1 DEF migrationVars, MigrationInv, MigrationType, CopiesTrue, DatabaseTrue, JournalTrue, StateTrue, AtStep,
                Undoable, CanRestore, CopyOf, Begun, Failing, NothingBegun
<1>2. CASE MigrationNext
    BY <1>2, OpenKeeps, RestoreInterruptedKeeps, WriteRestoredThenOpenKeeps, WriteRestoredKeeps, WriteRecoveryKeeps,
       ConnectKeeps, BeginProtectionKeeps, WriteRunningKeeps, MigrateOneKeeps, VerifyKeeps, WriteHistoryKeeps,
       WriteSucceededKeeps, RetainKeeps, FailAndRestoreKeeps, WriteKeeps, QuitKeeps, InstallProgramKeeps, KillKeeps
       DEF MigrationNext
<1> QED BY <1>1, <1>2

\* The inductive invariant implies the property.
LEMMA MigrationInvImplies == MigrationInv => MigrationTrue
<1> SUFFICES ASSUME MigrationInv PROVE MigrationTrue OBVIOUS
<1>1. ServesMigrated
    BY DEF MigrationInv, DatabaseTrue, AtStep, ServesMigrated
<1>2. StateTruthful
    <2>1. ASSUME state.status = "RUNNING", state.source # 0 PROVE \E p \in CopyOf(state) : p.db.data = writes
        BY <2>1 DEF MigrationInv, StateTrue, Undoable, CanRestore, CopyOf
    <2> QED BY <2>1 DEF MigrationInv, StateTrue, StateTruthful
<1> QED BY <1>1, <1>2 DEF MigrationTrue

\* ServesMigrated and StateTruthful for every number of schema versions, copies
\* kept, runs, failing calls and crashes.
THEOREM MigrationIsTrue == MigrationSpec => []MigrationTrue
<1>1. MigrationInit => MigrationInv BY MigrationInitially
<1>2. MigrationInv /\ [MigrationNext]_migrationVars => MigrationInv' BY MigrationInvStep
<1>3. MigrationInv => MigrationTrue BY MigrationInvImplies
<1> QED BY <1>1, <1>2, <1>3, PTL DEF MigrationSpec

(***************************************************************************)
(* Backups.                                                                *)
(***************************************************************************)
Unpublished == {"new", "inspectKey", "makeKey", "putKey", "getKey", "publish"}
Publishing == {"rehash", "insert", "withdraw"}
JobSteps == Unpublished \cup Publishing \cup {"done", "remove", "deleteRow"}
JobRecords == [at : JobSteps, path : Paths \cup {NoPath}, key : Nat, cancelled : BOOLEAN]
ArtifactRecords == [of : Jobs \cup {0}, key : Nat]

BackupType ==
    /\ key \in Nat /\ keys \in Nat /\ halfway \subseteq Jobs
    /\ artifacts \in [Paths -> ArtifactRecords]
    /\ index \in [Jobs -> Paths \cup {NoPath}]
    /\ job \in [Jobs -> JobRecords]

\* The key a job has taken is the device key.
KeyHeld(j) ==
    /\ job[j].at = "putKey" => job[j].key # 0
    /\ job[j].at \in {"getKey", "publish"} \cup Publishing => key # 0
    /\ job[j].at \in {"publish"} \cup Publishing => job[j].key = key

\* A job's artifact and row, by the step it is at.
ArtifactHeld(j) ==
    /\ job[j].at # "new" => job[j].path \in Paths
    /\ index[j] \in {NoPath, job[j].path}
    /\ job[j].at \in Unpublished \cup Publishing => index[j] = NoPath
    /\ job[j].at \in Publishing => artifacts[job[j].path].of = j
    /\ job[j].at \in {"remove", "deleteRow"} => index[j] # NoPath
    /\ job[j].at = "remove" => artifacts[index[j]].of = j
    /\ index[j] # NoPath /\ job[j].at # "deleteRow" /\ j \notin halfway => artifacts[index[j]].of = j
    /\ \A p \in Paths : artifacts[p].of = j =>
          /\ p = job[j].path /\ artifacts[p].key = key /\ key # 0
          /\ job[j].at \notin Unpublished \cup {"deleteRow"}
          /\ index[j] = p \/ job[j].at \in Publishing \/ j \in halfway

JobTrue(j) == KeyHeld(j) /\ ArtifactHeld(j)

BackupInv == BackupType /\ \A j \in Jobs : JobTrue(j)
-----------------------------------------------------------------------------
\* There is no backup at first.
LEMMA BackupInitially == BackupInit => BackupInv
<1> SUFFICES ASSUME BackupInit PROVE BackupInv OBVIOUS
<1> USE DEF BackupInit, IdleJob, Empty
<1>1. BackupType BY DEF BackupType, JobRecords, ArtifactRecords, JobSteps, Unpublished
<1>2. \A j \in Jobs : JobTrue(j)
    BY BackupBounds DEF JobTrue, KeyHeld, ArtifactHeld, Unpublished, Publishing
<1> QED BY <1>1, <1>2 DEF BackupInv

\* What the step of one job leaves true of another.
LEMMA OtherJobKeeps ==
    ASSUME BackupInv, NEW k \in Jobs, job'[k] = job[k], index'[k] = index[k],
           k \in halfway' <=> k \in halfway,
           key' = key \/ (key = 0 /\ key' # 0),
           \A p \in Paths : artifacts'[p] = artifacts[p] \/ (artifacts[p].of # k /\ artifacts'[p].of # k)
    PROVE  JobTrue(k)'
<1>1. JobTrue(k) /\ job[k].path \in Paths \cup {NoPath} /\ index[k] \in Paths \cup {NoPath}
    BY DEF BackupInv, BackupType, JobRecords
<1>2. KeyHeld(k)' BY <1>1 DEF JobTrue, KeyHeld
<1>3. \A p \in Paths : artifacts'[p].of = k <=> artifacts[p].of = k
    OBVIOUS
<1>4. ArtifactHeld(k)'
    <2>1. job[k].at \in Publishing \cup {"remove"} => job[k].path \in Paths
        BY <1>1 DEF JobTrue, ArtifactHeld, Publishing
    <2>2. \A p \in Paths : artifacts[p].of = k => artifacts'[p].key = key' /\ key' # 0
        BY <1>1 DEF JobTrue, ArtifactHeld
    <2>3. index[k] # NoPath => index[k] \in Paths
        BY <1>1
    <2> QED BY <1>1, <1>3, <2>1, <2>2, <2>3 DEF JobTrue, ArtifactHeld
<1> QED BY <1>2, <1>4 DEF JobTrue

\* What a job at a given step has.
LEMMA JobHas ==
    ASSUME BackupInv, NEW j \in Jobs
    PROVE  /\ BackupType /\ JobTrue(j) /\ job[j].at \in JobSteps /\ job[j].path \in Paths \cup {NoPath} /\ job[j].key \in Nat
           /\ job[j].cancelled \in BOOLEAN /\ index[j] \in Paths \cup {NoPath} /\ key \in Nat /\ keys \in Nat
BY DEF BackupInv, BackupType, JobRecords

\* The grant of a destination is used up.
LEMMA ConsumeKeeps ==
    ASSUME BackupInv, NEW j \in Jobs, NEW p \in Paths, Consume(j, p)
    PROVE  BackupInv'
<1> USE JobHas DEF Consume, Step, Done, Ok, Fails, Error, NoError
<1>1. BackupType'
    BY DEF BackupType, JobRecords, ArtifactRecords, JobSteps, Unpublished, Publishing, Empty
<1>2. ASSUME NEW k \in Jobs \ {j} PROVE JobTrue(k)'
    BY BackupBounds, OtherJobKeeps DEF BackupType, JobRecords, ArtifactRecords, JobTrue, KeyHeld, ArtifactHeld, Publishing, Empty
<1>3. KeyHeld(j)'
    BY DEF BackupType, JobRecords, ArtifactRecords, JobTrue, KeyHeld, Publishing
<1>4. ArtifactHeld(j)'
    BY BackupBounds DEF BackupType, JobRecords, ArtifactRecords, JobTrue, ArtifactHeld, Publishing, Unpublished, Empty
<1> QED BY <1>1, <1>2, <1>3, <1>4 DEF BackupInv, JobTrue

\* The device key is looked for.
LEMMA InspectKeyKeeps ==
    ASSUME BackupInv, NEW j \in Jobs, InspectKey(j)
    PROVE  BackupInv'
<1> USE JobHas DEF InspectKey, Step, Done, Ok, Fails, Error, NoError
<1>1. BackupType'
    BY SMTT(30) DEF BackupType, JobRecords, ArtifactRecords, JobSteps, Unpublished, Publishing, Empty
<1>2. ASSUME NEW k \in Jobs \ {j} PROVE JobTrue(k)'
    BY BackupBounds, OtherJobKeeps DEF BackupType, JobRecords, ArtifactRecords, JobTrue, KeyHeld, ArtifactHeld, Publishing, Empty
<1>3. KeyHeld(j)'
    BY DEF BackupType, JobRecords, ArtifactRecords, JobTrue, KeyHeld, Publishing
<1>4. ArtifactHeld(j)'
    BY BackupBounds DEF BackupType, JobRecords, ArtifactRecords, JobTrue, ArtifactHeld, Publishing, Unpublished, Empty
<1> QED BY <1>1, <1>2, <1>3, <1>4 DEF BackupInv, JobTrue

\* A device key is made.
LEMMA MakeKeyKeeps ==
    ASSUME BackupInv, NEW j \in Jobs, MakeKey(j)
    PROVE  BackupInv'
<1> USE JobHas DEF MakeKey, Step, Done, Ok, Fails, Error, NoError
<1>1. BackupType'
    BY DEF BackupType, JobRecords, ArtifactRecords, JobSteps, Unpublished, Publishing, Empty
<1>2. ASSUME NEW k \in Jobs \ {j} PROVE JobTrue(k)'
    BY BackupBounds, OtherJobKeeps DEF BackupType, JobRecords, ArtifactRecords, JobTrue, KeyHeld, ArtifactHeld, Publishing, Empty
<1>3. KeyHeld(j)'
    BY DEF BackupType, JobRecords, ArtifactRecords, JobTrue, KeyHeld, Publishing
<1>4. ArtifactHeld(j)'
    BY BackupBounds DEF BackupType, JobRecords, ArtifactRecords, JobTrue, ArtifactHeld, Publishing, Unpublished, Empty
<1> QED BY <1>1, <1>2, <1>3, <1>4 DEF BackupInv, JobTrue

\* The device key is put where no other is.
LEMMA PutKeyKeeps ==
    ASSUME BackupInv, NEW j \in Jobs, PutKey(j)
    PROVE  BackupInv'
<1> USE JobHas DEF PutKey, Step, Done, Ok, Fails, Error, NoError
<1>1. BackupType'
    BY DEF BackupType, JobRecords, ArtifactRecords, JobSteps, Unpublished, Publishing, Empty
<1>2. ASSUME NEW k \in Jobs \ {j} PROVE JobTrue(k)'
    BY BackupBounds, OtherJobKeeps DEF BackupType, JobRecords, ArtifactRecords, JobTrue, KeyHeld, ArtifactHeld, Publishing, Empty
<1>3. KeyHeld(j)'
    BY DEF BackupType, JobRecords, ArtifactRecords, JobTrue, KeyHeld, Publishing
<1>4. ArtifactHeld(j)'
    BY SMTT(30), BackupBounds DEF BackupType, JobRecords, ArtifactRecords, JobTrue, ArtifactHeld, Publishing, Unpublished, Empty
<1> QED BY <1>1, <1>2, <1>3, <1>4 DEF BackupInv, JobTrue

\* The device key is read.
LEMMA GetKeyKeeps ==
    ASSUME BackupInv, NEW j \in Jobs, GetKey(j)
    PROVE  BackupInv'
<1> USE JobHas DEF GetKey, Step, Done, Ok, Fails, Error, NoError
<1>1. BackupType'
    BY DEF BackupType, JobRecords, ArtifactRecords, JobSteps, Unpublished, Publishing, Empty
<1>2. ASSUME NEW k \in Jobs \ {j} PROVE JobTrue(k)'
    BY BackupBounds, OtherJobKeeps DEF BackupType, JobRecords, ArtifactRecords, JobTrue, KeyHeld, ArtifactHeld, Publishing, Empty
<1>3. KeyHeld(j)'
    BY DEF BackupType, JobRecords, ArtifactRecords, JobTrue, KeyHeld, Publishing
<1>4. ArtifactHeld(j)'
    BY BackupBounds DEF BackupType, JobRecords, ArtifactRecords, JobTrue, ArtifactHeld, Publishing, Unpublished, Empty
<1> QED BY <1>1, <1>2, <1>3, <1>4 DEF BackupInv, JobTrue

\* The artifact is moved to its destination, where nothing may lie.
LEMMA PublishKeeps ==
    ASSUME BackupInv, NEW j \in Jobs, Publish(j)
    PROVE  BackupInv'
<1> USE JobHas DEF Publish, Step, Done, Ok, Fails, Error, NoError
<1>1. BackupType'
    <2>1. job' \in [Jobs -> JobRecords]
        BY DEF BackupType, JobRecords, JobSteps, Unpublished, Publishing
    <2>2. index' \in [Jobs -> Paths \cup {NoPath}] BY DEF BackupType
    <2>3. [of |-> j, key |-> job[j].key] \in ArtifactRecords /\ Empty \in ArtifactRecords
        BY DEF ArtifactRecords, Empty
    <2>4. artifacts' \in [Paths -> ArtifactRecords] BY <2>3 DEF BackupType
    <2> QED BY <2>1, <2>2, <2>4 DEF BackupType
<1>2. ASSUME NEW k \in Jobs \ {j} PROVE JobTrue(k)'
    BY BackupBounds, OtherJobKeeps DEF BackupType, JobRecords, ArtifactRecords, JobTrue, KeyHeld, ArtifactHeld, Publishing, Empty
<1>3. KeyHeld(j)'
    BY DEF BackupType, JobRecords, ArtifactRecords, JobTrue, KeyHeld, Publishing
<1>4. ArtifactHeld(j)'
    <2>1. /\ job[j].path \in Paths /\ index[j] = NoPath /\ index' = index /\ key' = key /\ halfway' = halfway
          /\ \A p \in Paths : artifacts[p].of # j
          /\ job[j].key = key /\ key # 0 /\ job'[j].path = job[j].path
        BY DEF BackupType, JobRecords, JobTrue, KeyHeld, ArtifactHeld, Unpublished
    <2>2. CASE job'[j].at = "rehash" /\ artifacts' = [artifacts EXCEPT ![job[j].path] = [of |-> j, key |-> job[j].key]]
        <3>1. /\ artifacts'[job[j].path].of = j /\ artifacts'[job[j].path].key = key
              /\ \A p \in Paths \ {job[j].path} : artifacts'[p].of # j
            BY <2>1, <2>2 DEF BackupType
        <3> QED BY <2>1, <2>2, <3>1 DEF ArtifactHeld, Publishing, Unpublished
    <2>3. CASE job'[j].at = "done" /\ artifacts' = artifacts
        BY <2>1, <2>3 DEF ArtifactHeld, Publishing, Unpublished
    <2> QED BY <2>2, <2>3 DEF BackupType, JobRecords
<1> QED BY <1>1, <1>2, <1>3, <1>4 DEF BackupInv, JobTrue

\* The published artifact is read again.
LEMMA RehashKeeps ==
    ASSUME BackupInv, NEW j \in Jobs, Rehash(j)
    PROVE  BackupInv'
<1> USE JobHas DEF Rehash, Step, Done, Ok, Fails, Error, NoError
<1>1. BackupType'
    BY DEF BackupType, JobRecords, ArtifactRecords, JobSteps, Unpublished, Publishing, Empty
<1>2. ASSUME NEW k \in Jobs \ {j} PROVE JobTrue(k)'
    BY BackupBounds, OtherJobKeeps DEF BackupType, JobRecords, ArtifactRecords, JobTrue, KeyHeld, ArtifactHeld, Publishing, Empty
<1>3. KeyHeld(j)'
    BY DEF BackupType, JobRecords, ArtifactRecords, JobTrue, KeyHeld, Publishing
<1>4. ArtifactHeld(j)'
    BY BackupBounds DEF BackupType, JobRecords, ArtifactRecords, JobTrue, ArtifactHeld, Publishing, Unpublished, Empty
<1> QED BY <1>1, <1>2, <1>3, <1>4 DEF BackupInv, JobTrue

\* The row is inserted.
LEMMA InsertIndexKeeps ==
    ASSUME BackupInv, NEW j \in Jobs, InsertIndex(j)
    PROVE  BackupInv'
<1> USE JobHas DEF InsertIndex, Step, Done, Ok, Fails, Error, NoError
<1>1. BackupType'
    <2>1. job' \in [Jobs -> JobRecords]
        BY DEF BackupType, JobRecords, JobSteps, Unpublished, Publishing
    <2>2. index' \in [Jobs -> Paths \cup {NoPath}] BY DEF BackupType
    <2>3. [of |-> j, key |-> job[j].key] \in ArtifactRecords /\ Empty \in ArtifactRecords
        BY DEF ArtifactRecords, Empty
    <2>4. artifacts' \in [Paths -> ArtifactRecords] BY <2>3 DEF BackupType
    <2> QED BY <2>1, <2>2, <2>4 DEF BackupType
<1>2. ASSUME NEW k \in Jobs \ {j} PROVE JobTrue(k)'
    BY BackupBounds, OtherJobKeeps DEF BackupType, JobRecords, ArtifactRecords, JobTrue, KeyHeld, ArtifactHeld, Publishing, Empty
<1>3. KeyHeld(j)'
    BY DEF BackupType, JobRecords, ArtifactRecords, JobTrue, KeyHeld, Publishing
<1>4. ArtifactHeld(j)'
    BY BackupBounds DEF BackupType, JobRecords, ArtifactRecords, JobTrue, ArtifactHeld, Publishing, Unpublished, Empty
<1> QED BY <1>1, <1>2, <1>3, <1>4 DEF BackupInv, JobTrue

\* A failed job takes its artifact back.
LEMMA WithdrawKeeps ==
    ASSUME BackupInv, NEW j \in Jobs, Withdraw(j)
    PROVE  BackupInv'
<1> USE JobHas DEF Withdraw, Step, Done, Ok, Fails, Error, NoError
<1>1. BackupType'
    BY DEF BackupType, JobRecords, ArtifactRecords, JobSteps, Unpublished, Publishing, Empty
<1>2. ASSUME NEW k \in Jobs \ {j} PROVE JobTrue(k)'
    BY BackupBounds, OtherJobKeeps DEF BackupType, JobRecords, ArtifactRecords, JobTrue, KeyHeld, ArtifactHeld, Publishing, Empty
<1>3. KeyHeld(j)'
    BY DEF BackupType, JobRecords, ArtifactRecords, JobTrue, KeyHeld, Publishing
<1>4. ArtifactHeld(j)'
    BY BackupBounds DEF BackupType, JobRecords, ArtifactRecords, JobTrue, ArtifactHeld, Publishing, Unpublished, Empty
<1> QED BY <1>1, <1>2, <1>3, <1>4 DEF BackupInv, JobTrue

\* A delete begins at the row.
LEMMA StartDeleteKeeps ==
    ASSUME BackupInv, NEW j \in Jobs, StartDelete(j)
    PROVE  BackupInv'
<1> USE JobHas DEF StartDelete, Step, Done, Ok, Fails, Error, NoError
<1>1. BackupType'
    <2>1. job' \in [Jobs -> JobRecords]
        <3>1. job[j] \in JobRecords BY DEF BackupType
        <3>2. [job[j] EXCEPT !.at = "remove", !.cancelled = FALSE] \in JobRecords
            BY <3>1 DEF JobRecords, JobSteps
        <3>3. [job[j] EXCEPT !.cancelled = TRUE] \in JobRecords
            BY <3>1 DEF JobRecords
        <3> QED BY <3>2, <3>3 DEF BackupType
    <2> QED BY <2>1 DEF BackupType
<1>2. ASSUME NEW k \in Jobs \ {j} PROVE JobTrue(k)'
    BY BackupBounds, OtherJobKeeps DEF BackupType, JobRecords, ArtifactRecords, JobTrue, KeyHeld, ArtifactHeld, Publishing, Empty
<1>3. KeyHeld(j)'
    BY DEF BackupType, JobRecords, ArtifactRecords, JobTrue, KeyHeld, Publishing
<1>4. ArtifactHeld(j)'
    BY BackupBounds DEF BackupType, JobRecords, ArtifactRecords, JobTrue, ArtifactHeld, Publishing, Unpublished, Empty
<1> QED BY <1>1, <1>2, <1>3, <1>4 DEF BackupInv, JobTrue

\* The artifact is removed first.
LEMMA RemoveArtifactKeeps ==
    ASSUME BackupInv, NEW j \in Jobs, RemoveArtifact(j)
    PROVE  BackupInv'
<1> USE JobHas DEF RemoveArtifact, Step, Done, Ok, Fails, Error, NoError
<1>1. BackupType'
    <2>1. job' \in [Jobs -> JobRecords]
        BY DEF BackupType, JobRecords, JobSteps, Unpublished, Publishing
    <2>2. index' \in [Jobs -> Paths \cup {NoPath}] BY DEF BackupType
    <2>3. [of |-> j, key |-> job[j].key] \in ArtifactRecords /\ Empty \in ArtifactRecords
        BY DEF ArtifactRecords, Empty
    <2>4. artifacts' \in [Paths -> ArtifactRecords] BY <2>3 DEF BackupType
    <2> QED BY <2>1, <2>2, <2>4 DEF BackupType
<1>2. ASSUME NEW k \in Jobs \ {j} PROVE JobTrue(k)'
    BY BackupBounds, OtherJobKeeps DEF BackupType, JobRecords, ArtifactRecords, JobTrue, KeyHeld, ArtifactHeld, Publishing, Empty
<1>3. KeyHeld(j)'
    BY DEF BackupType, JobRecords, ArtifactRecords, JobTrue, KeyHeld, Publishing
<1>4. ArtifactHeld(j)'
    <2>1. /\ job[j].path \in Paths /\ index[j] = job[j].path /\ index' = index /\ key' = key /\ halfway' = halfway
          /\ \A p \in Paths : artifacts[p].of = j => p = job[j].path /\ artifacts[p].key = key /\ key # 0
          /\ artifacts[index[j]].of = j /\ index[j] # NoPath /\ job'[j].path = job[j].path
        BY DEF BackupType, JobRecords, JobTrue, ArtifactHeld
    <2>2. CASE job'[j].at = "deleteRow" /\ artifacts' = [artifacts EXCEPT ![index[j]] = Empty]
        <3>1. \A p \in Paths : artifacts'[p].of # j
            BY <2>1, <2>2, BackupBounds DEF BackupType, Empty
        <3> QED BY <2>1, <2>2, <3>1 DEF ArtifactHeld, Publishing, Unpublished
    <2>3. CASE job'[j].at = "done" /\ artifacts' = artifacts
        BY <2>1, <2>3 DEF ArtifactHeld, Publishing, Unpublished
    <2> QED BY <2>2, <2>3 DEF BackupType, JobRecords
<1> QED BY <1>1, <1>2, <1>3, <1>4 DEF BackupInv, JobTrue

\* The row is deleted after it.
LEMMA DeleteRowKeeps ==
    ASSUME BackupInv, NEW j \in Jobs, DeleteRow(j)
    PROVE  BackupInv'
<1> USE JobHas DEF DeleteRow, Step, Done, Ok, Fails, Error, NoError
<1>1. BackupType'
    BY DEF BackupType, JobRecords, ArtifactRecords, JobSteps, Unpublished, Publishing, Empty
<1>2. ASSUME NEW k \in Jobs \ {j} PROVE JobTrue(k)'
    BY BackupBounds, OtherJobKeeps DEF BackupType, JobRecords, ArtifactRecords, JobTrue, KeyHeld, ArtifactHeld, Publishing, Empty
<1>3. KeyHeld(j)'
    BY DEF BackupType, JobRecords, ArtifactRecords, JobTrue, KeyHeld, Publishing
<1>4. ArtifactHeld(j)'
    BY BackupBounds DEF BackupType, JobRecords, ArtifactRecords, JobTrue, ArtifactHeld, Publishing, Unpublished, Empty
<1> QED BY <1>1, <1>2, <1>3, <1>4 DEF BackupInv, JobTrue

\* The request of a job is cancelled.
LEMMA CancelJobKeeps ==
    ASSUME BackupInv, NEW j \in Jobs, CancelJob(j)
    PROVE  BackupInv'
<1> USE JobHas DEF CancelJob, Step, Done, Ok, Fails, Error, NoError
<1>1. BackupType'
    <2>1. job' \in [Jobs -> JobRecords]
        <3>1. job[j] \in JobRecords BY DEF BackupType
        <3>2. [job[j] EXCEPT !.at = "remove", !.cancelled = FALSE] \in JobRecords
            BY <3>1 DEF JobRecords, JobSteps
        <3>3. [job[j] EXCEPT !.cancelled = TRUE] \in JobRecords
            BY <3>1 DEF JobRecords
        <3> QED BY <3>2, <3>3 DEF BackupType
    <2> QED BY <2>1 DEF BackupType
<1>2. ASSUME NEW k \in Jobs \ {j} PROVE JobTrue(k)'
    BY BackupBounds, OtherJobKeeps DEF BackupType, JobRecords, ArtifactRecords, JobTrue, KeyHeld, ArtifactHeld, Publishing, Empty
<1>3. KeyHeld(j)'
    BY DEF BackupType, JobRecords, ArtifactRecords, JobTrue, KeyHeld, Publishing
<1>4. ArtifactHeld(j)'
    BY BackupBounds DEF BackupType, JobRecords, ArtifactRecords, JobTrue, ArtifactHeld, Publishing, Unpublished, Empty
<1> QED BY <1>1, <1>2, <1>3, <1>4 DEF BackupInv, JobTrue

\* The daemon ends, and every job with it.
LEMMA ExitKeeps ==
    ASSUME BackupInv, ExitDaemon
    PROVE  BackupInv'
<1> USE DEF ExitDaemon
<1>1. BackupType'
    BY DEF BackupInv, BackupType, JobRecords, JobSteps, Working
<1>2. ASSUME NEW k \in Jobs PROVE JobTrue(k)'
    <2>1. /\ job'[k].at = IF Working(k) THEN "done" ELSE job[k].at
          /\ job'[k].path = job[k].path /\ job'[k].key = job[k].key
          /\ index' = index /\ artifacts' = artifacts /\ key' = key
          /\ k \in halfway' <=> k \in halfway \/ job[k].at \in {"rehash", "insert", "withdraw", "deleteRow"}
        BY JobHas DEF BackupType, JobRecords
    <2>2. KeyHeld(k)' BY <2>1, JobHas DEF JobTrue, KeyHeld, Working, Publishing
    <2>3. ArtifactHeld(k)' BY <2>1, JobHas DEF JobTrue, ArtifactHeld, Working, Publishing, Unpublished
    <2> QED BY <2>2, <2>3 DEF JobTrue
<1> QED BY <1>1, <1>2 DEF BackupInv

\* Every step keeps the inductive invariant.
LEMMA BackupInvStep == BackupInv /\ [BackupNext]_backupVars => BackupInv'
<1> SUFFICES ASSUME BackupInv, [BackupNext]_backupVars PROVE BackupInv' OBVIOUS
<1>1. CASE UNCHANGED <<key, artifacts, index, job, keys, halfway>>
    BY <1>1 DEF BackupInv, BackupType, JobTrue, KeyHeld, ArtifactHeld
<1>2. CASE \E p \in Paths : Grant(p) \/ Expire(p) BY <1>1, <1>2 DEF Grant, Expire
<1>3. CASE \E j \in Jobs, p \in Paths : Consume(j, p) BY <1>3, ConsumeKeeps
<1>4. ASSUME NEW j \in Jobs,
             \/ InspectKey(j) \/ MakeKey(j) \/ PutKey(j) \/ GetKey(j)
             \/ Publish(j) \/ Rehash(j) \/ InsertIndex(j) \/ Withdraw(j)
             \/ StartDelete(j) \/ RemoveArtifact(j) \/ DeleteRow(j) \/ CancelJob(j)
      PROVE  BackupInv'
    BY <1>4, InspectKeyKeeps, MakeKeyKeeps, PutKeyKeeps, GetKeyKeeps, PublishKeeps, RehashKeeps, InsertIndexKeeps,
       WithdrawKeeps, StartDeleteKeeps, RemoveArtifactKeeps, DeleteRowKeeps, CancelJobKeeps
<1>5. CASE ExitDaemon BY <1>5, ExitKeeps
<1> QED BY <1>1, <1>2, <1>3, <1>4, <1>5 DEF BackupNext, backupVars

\* The inductive invariant implies the property.
LEMMA BackupInvImplies == BackupInv => BackupsAgree
<1> SUFFICES ASSUME BackupInv PROVE BackupsAgree OBVIOUS
<1>1. ASSUME NEW j \in Jobs, index[j] # NoPath, job[j].at # "deleteRow", j \notin halfway
      PROVE  artifacts[index[j]] = [of |-> j, key |-> key]
    <2>1. index[j] \in Paths /\ artifacts[index[j]].of = j
        BY <1>1, JobHas DEF JobTrue, ArtifactHeld
    <2>2. artifacts[index[j]].key = key
        BY <2>1, JobHas DEF JobTrue, ArtifactHeld
    <2>3. artifacts[index[j]] \in ArtifactRecords
        BY <2>1 DEF BackupInv, BackupType
    <2> QED BY <2>1, <2>2, <2>3 DEF ArtifactRecords
<1>2. \A j \in Jobs, p \in Paths : artifacts[p].of = j =>
          /\ artifacts[p].key = key
          /\ index[j] = p \/ job[j].at \in {"rehash", "insert", "withdraw"} \/ j \in halfway
    BY JobHas DEF JobTrue, ArtifactHeld, Publishing
<1> QED BY <1>1, <1>2 DEF BackupsAgree

\* The key, the artifacts and the index agree for every number of backups,
\* destinations, failing calls and crashes.
THEOREM BackupsAlwaysAgree == BackupSpec => []BackupsAgree
<1>1. BackupInit => BackupInv BY BackupInitially
<1>2. BackupInv /\ [BackupNext]_backupVars => BackupInv' BY BackupInvStep
<1>3. BackupInv => BackupsAgree BY BackupInvImplies
<1> QED BY <1>1, <1>2, <1>3, PTL DEF BackupSpec

(***************************************************************************)
(* The snapshot of a backup.                                               *)
(***************************************************************************)
ReadSteps == {"copySecond", "hashFirst", "hashSecond"}
ReadPoints == {<<"none", "none">>} \cup (Included \X ReadSteps)

SnapshotType ==
    /\ bytes \in [Files -> Nat] /\ meta \in [Files -> Nat] /\ inventory \in [Files -> Nat]
    /\ changes \in Nat /\ changes # 0 /\ quiet \in BOOLEAN
    /\ copied \in [Included -> Nat \X Nat] /\ seen \subseteq [Included -> Nat]
    /\ reading \in ReadPoints
    /\ reading[2] # "none" => stage = "copy"

\* Every number ever used is below the next one.
NumbersUsed ==
    /\ \A f \in Files : bytes[f] <= changes /\ meta[f] <= changes /\ inventory[f] <= changes
    /\ \A f \in Included : copied[f][1] <= changes

\* While no write was quiet, metadata tells contents apart.
MetadataTells == quiet \/ meta = bytes

\* The present source is among those seen.
SeenNow == stage \in {"copy", "verify"} => Payload(bytes) \in seen

CopiesWhole ==
    /\ stage \in {"start", "inventory"} => \A f \in Included : copied[f] = Unread
    /\ \A f \in Included :
          /\ copied[f] # Unread => inventory[f] # Absent /\ (quiet \/ copied[f][1] = inventory[f])
          /\ reading[2] # "none" /\ reading[1] = f => copied[f][1] # 0
          /\ \/ copied[f][1] = copied[f][2] \/ stage = "SOURCE_CHANGED"
             \/ reading = <<f, "copySecond">>
             \/ reading = <<f, "hashFirst">> /\ bytes[f] # copied[f][1]

\* The source at the moment VerifyNames ran is the inventory, but for files
\* whose verification is bound to fail.
VerifyingOne ==
    /\ stage \in {"verify", "VERIFIED"} => Left = {}
    /\ stage = "verify" =>
          quiet \/ \E b \in seen : \A f \in Included :
              b[f] = inventory[f] \/ (f \in listed /\ meta[f] # inventory[f] /\ inventory[f] # Absent)
    /\ stage = "VERIFIED" => quiet \/ \E b \in seen : \A f \in Included : b[f] = inventory[f]

SnapshotInv == SnapshotType /\ NumbersUsed /\ MetadataTells /\ SeenNow /\ CopiesWhole /\ VerifyingOne
-----------------------------------------------------------------------------
\* Nothing has been read at first.
LEMMA SnapshotInitially == SnapshotInit => SnapshotInv
<1> SUFFICES ASSUME SnapshotInit PROVE SnapshotInv OBVIOUS
<1> USE DEF SnapshotInit, Unread, Absent, Included
<1>1. SnapshotType
    <2>1. bytes \in [Files -> Nat] /\ meta \in [Files -> Nat] /\ inventory \in [Files -> Nat] OBVIOUS
    <2>2. copied \in [Included -> Nat \X Nat] OBVIOUS
    <2>3. reading = <<"none", "none">> /\ reading[2] = "none" OBVIOUS
    <2>4. reading \in ReadPoints BY <2>3 DEF ReadPoints
    <2>5. changes = 1 /\ quiet = FALSE /\ seen = {} OBVIOUS
    <2>6. changes \in Nat /\ changes # 0 BY ONLY <2>5
    <2>7. quiet \in BOOLEAN BY ONLY <2>5
    <2>8. seen \subseteq [Included -> Nat] BY ONLY <2>5
    <2> QED BY ONLY <2>1, <2>2, <2>3, <2>4, <2>6, <2>7, <2>8 DEF SnapshotType
<1>2. NumbersUsed /\ MetadataTells /\ SeenNow /\ VerifyingOne BY DEF NumbersUsed, MetadataTells, SeenNow, VerifyingOne
<1>3. CopiesWhole BY DEF CopiesWhole
<1> QED BY <1>1, <1>2, <1>3 DEF SnapshotInv

\* The types and the counters, for the steps below.
LEMMA SnapshotHas ==
    ASSUME SnapshotInv
    PROVE  /\ SnapshotType /\ NumbersUsed /\ MetadataTells /\ SeenNow /\ CopiesWhole /\ VerifyingOne
           /\ Included \subseteq Files
BY DEF SnapshotInv, Included

\* The directory is listed.
LEMMA ListKeeps ==
    ASSUME SnapshotInv, ListDirectory
    PROVE  SnapshotInv'
<1> USE SnapshotHas DEF ListDirectory, source, SourceChanged, At, Same
<1>1. SnapshotType'
    BY DEF SnapshotType, ReadPoints, ReadSteps, Payload, Present, Unread, Left
<1>2. NumbersUsed' /\ MetadataTells' /\ SeenNow'
    BY DEF SnapshotType, NumbersUsed, MetadataTells, SeenNow, Payload, Left
<1>3. CopiesWhole'
    BY DEF SnapshotType, CopiesWhole, MetadataTells, Left, Unread, Absent, ReadSteps, ReadPoints
<1>4. VerifyingOne'
    BY DEF SnapshotType, VerifyingOne, Left, Payload, Present, MetadataTells, SeenNow, ReadSteps, ReadPoints
<1> QED BY <1>1, <1>2, <1>3, <1>4 DEF SnapshotInv

\* Every listed file has been seen.
LEMMA InventoryDoneKeeps ==
    ASSUME SnapshotInv, InventoryDone
    PROVE  SnapshotInv'
<1> USE SnapshotHas DEF InventoryDone, source, SourceChanged, At, Same
<1>1. SnapshotType'
    BY DEF SnapshotType, ReadPoints, ReadSteps, Payload, Present, Unread, Left
<1>2. NumbersUsed' /\ MetadataTells' /\ SeenNow'
    BY DEF SnapshotType, NumbersUsed, MetadataTells, SeenNow, Payload, Left
<1>3. CopiesWhole'
    BY DEF SnapshotType, CopiesWhole, MetadataTells, Left, Unread, Absent, ReadSteps, ReadPoints
<1>4. VerifyingOne'
    BY DEF SnapshotType, VerifyingOne, Left, Payload, Present, MetadataTells, SeenNow, ReadSteps, ReadPoints
<1> QED BY <1>1, <1>2, <1>3, <1>4 DEF SnapshotInv

\* The directory is listed again.
LEMMA VerifyNamesKeeps ==
    ASSUME SnapshotInv, VerifyNames
    PROVE  SnapshotInv'
<1> USE SnapshotHas DEF VerifyNames, source, SourceChanged, At, Same
<1>1. SnapshotType'
    BY DEF SnapshotType, ReadPoints, ReadSteps, Payload, Present, Unread, Left
<1>2. NumbersUsed' /\ MetadataTells' /\ SeenNow'
    BY DEF SnapshotType, NumbersUsed, MetadataTells, SeenNow, Payload, Left
<1>3. CopiesWhole'
    BY DEF SnapshotType, CopiesWhole, MetadataTells, Left, Unread, Absent, ReadSteps, ReadPoints
<1>4. VerifyingOne'
    BY DEF SnapshotType, VerifyingOne, Left, Payload, Present, MetadataTells, SeenNow, ReadSteps, ReadPoints
<1> QED BY <1>1, <1>2, <1>3, <1>4 DEF SnapshotInv

\* Every listed file has been seen again.
LEMMA VerifyDoneKeeps ==
    ASSUME SnapshotInv, VerifyDone
    PROVE  SnapshotInv'
<1> USE SnapshotHas DEF VerifyDone, source, SourceChanged, At, Same
<1>1. SnapshotType'
    BY DEF SnapshotType, ReadPoints, ReadSteps, Payload, Present, Unread, Left
<1>2. NumbersUsed' /\ MetadataTells' /\ SeenNow'
    BY DEF SnapshotType, NumbersUsed, MetadataTells, SeenNow, Payload, Left
<1>3. CopiesWhole'
    BY DEF SnapshotType, CopiesWhole, MetadataTells, Left, Unread, Absent, ReadSteps, ReadPoints
<1>4. VerifyingOne'
    BY DEF SnapshotType, VerifyingOne, Left, Payload, Present, MetadataTells, SeenNow, ReadSteps, ReadPoints
<1> QED BY <1>1, <1>2, <1>3, <1>4 DEF SnapshotInv

\* The metadata of one file is taken.
LEMMA InventoryOneKeeps ==
    ASSUME SnapshotInv, NEW f \in Files, InventoryOne(f)
    PROVE  SnapshotInv'
<1> USE SnapshotHas DEF InventoryOne, source, SourceChanged, At, Same
<1>1. SnapshotType'
    BY DEF SnapshotType, ReadPoints, ReadSteps, Payload, Present, Unread, Left
<1>2. NumbersUsed' /\ MetadataTells' /\ SeenNow'
    BY DEF SnapshotType, NumbersUsed, MetadataTells, SeenNow, Payload, Left
<1>3. CopiesWhole'
    BY DEF SnapshotType, CopiesWhole, MetadataTells, Left, Unread, Absent, ReadSteps, ReadPoints
<1>4. VerifyingOne'
    BY DEF SnapshotType, VerifyingOne, Left, Payload, Present, MetadataTells, SeenNow, ReadSteps, ReadPoints
<1> QED BY <1>1, <1>2, <1>3, <1>4 DEF SnapshotInv

\* The metadata of one file is compared.
LEMMA VerifyOneKeeps ==
    ASSUME SnapshotInv, NEW f \in Files, VerifyOne(f)
    PROVE  SnapshotInv'
<1> USE SnapshotHas DEF VerifyOne, source, SourceChanged, At, Same
<1>1. SnapshotType'
    BY DEF SnapshotType, ReadPoints, ReadSteps, Payload, Present, Unread, Left
<1>2. NumbersUsed' /\ MetadataTells' /\ SeenNow'
    BY DEF SnapshotType, NumbersUsed, MetadataTells, SeenNow, Payload, Left
<1>3. CopiesWhole'
    BY DEF SnapshotType, CopiesWhole, MetadataTells, Left, Unread, Absent, ReadSteps, ReadPoints
<1>4. VerifyingOne'
    BY DEF SnapshotType, VerifyingOne, Left, Payload, Present, MetadataTells, SeenNow, ReadSteps, ReadPoints
<1> QED BY <1>1, <1>2, <1>3, <1>4 DEF SnapshotInv

\* The first part of a file is copied.
LEMMA CopyFirstKeeps ==
    ASSUME SnapshotInv, NEW f \in Included, CopyFirst(f)
    PROVE  SnapshotInv'
<1> USE SnapshotHas DEF CopyFirst, source, SourceChanged, At, Same
<1>1. SnapshotType'
    BY DEF SnapshotType, ReadPoints, ReadSteps, Payload, Present, Unread, Left
<1>2. NumbersUsed' /\ MetadataTells' /\ SeenNow'
    BY DEF SnapshotType, NumbersUsed, MetadataTells, SeenNow, Payload, Left
<1>3. CopiesWhole'
    BY DEF SnapshotType, CopiesWhole, MetadataTells, Left, Unread, Absent, ReadSteps, ReadPoints
<1>4. VerifyingOne'
    BY DEF SnapshotType, VerifyingOne, Left, Payload, Present, MetadataTells, SeenNow, ReadSteps, ReadPoints
<1> QED BY <1>1, <1>2, <1>3, <1>4 DEF SnapshotInv

\* The second part of a file is copied.
LEMMA CopySecondKeeps ==
    ASSUME SnapshotInv, NEW f \in Included, CopySecond(f)
    PROVE  SnapshotInv'
<1> USE SnapshotHas DEF CopySecond, source, SourceChanged, At, Same
<1>1. SnapshotType'
    BY DEF SnapshotType, ReadPoints, ReadSteps, Payload, Present, Unread, Left
<1>2. NumbersUsed' /\ MetadataTells' /\ SeenNow'
    BY DEF SnapshotType, NumbersUsed, MetadataTells, SeenNow, Payload, Left
<1>3. CopiesWhole'
    BY DEF SnapshotType, CopiesWhole, MetadataTells, Left, Unread, Absent, ReadSteps, ReadPoints
<1>4. VerifyingOne'
    BY DEF SnapshotType, VerifyingOne, Left, Payload, Present, MetadataTells, SeenNow, ReadSteps, ReadPoints
<1> QED BY <1>1, <1>2, <1>3, <1>4 DEF SnapshotInv

\* The first part of a file is read again.
LEMMA HashFirstKeeps ==
    ASSUME SnapshotInv, NEW f \in Included, HashFirst(f)
    PROVE  SnapshotInv'
<1> USE SnapshotHas DEF HashFirst, source, SourceChanged, At, Same
<1>1. SnapshotType'
    BY DEF SnapshotType, ReadPoints, ReadSteps, Payload, Present, Unread, Left
<1>2. NumbersUsed' /\ MetadataTells' /\ SeenNow'
    BY DEF SnapshotType, NumbersUsed, MetadataTells, SeenNow, Payload, Left
<1>3. CopiesWhole'
    BY DEF SnapshotType, CopiesWhole, MetadataTells, Left, Unread, Absent, ReadSteps, ReadPoints
<1>4. VerifyingOne'
    BY DEF SnapshotType, VerifyingOne, Left, Payload, Present, MetadataTells, SeenNow, ReadSteps, ReadPoints
<1> QED BY <1>1, <1>2, <1>3, <1>4 DEF SnapshotInv

\* The second part of a file is read again.
LEMMA HashSecondKeeps ==
    ASSUME SnapshotInv, NEW f \in Included, HashSecond(f)
    PROVE  SnapshotInv'
<1> USE SnapshotHas DEF HashSecond, source, SourceChanged, At, Same
<1>1. SnapshotType'
    BY DEF SnapshotType, ReadPoints, ReadSteps, Payload, Present, Unread, Left
<1>2. NumbersUsed' /\ MetadataTells' /\ SeenNow'
    BY DEF SnapshotType, NumbersUsed, MetadataTells, SeenNow, Payload, Left
<1>3. CopiesWhole'
    BY DEF SnapshotType, CopiesWhole, MetadataTells, Left, Unread, Absent, ReadSteps, ReadPoints
<1>4. VerifyingOne'
    BY DEF SnapshotType, VerifyingOne, Left, Payload, Present, MetadataTells, SeenNow, ReadSteps, ReadPoints
<1> QED BY <1>1, <1>2, <1>3, <1>4 DEF SnapshotInv

\* Another process writes, under a number never used.
LEMMA ChangeKeeps ==
    ASSUME SnapshotInv, NEW f \in Files, NEW value \in {Absent, changes + 1}, NEW m \in {meta[f], value},
           Change(f, value, m), quiet' = quiet \/ (quiet' = TRUE /\ bytes[f] # Absent), m = value \/ quiet' = TRUE
    PROVE  SnapshotInv'
<1>1. /\ changes' = changes + 1 /\ bytes' = [bytes EXCEPT ![f] = value] /\ meta' = [meta EXCEPT ![f] = m]
      /\ UNCHANGED <<inventory, listed, copied, reading, stage>>
      /\ seen' = IF stage \in {"copy", "verify"} THEN seen \cup {Payload(bytes')} ELSE seen
    BY DEF Change, Record
<1>2. SnapshotType /\ NumbersUsed /\ MetadataTells /\ SeenNow /\ CopiesWhole /\ VerifyingOne /\ Included \subseteq Files
    BY SnapshotHas
<1>3. value \in Nat /\ m \in Nat /\ changes \in Nat /\ (\A g \in Files : bytes[g] \in Nat /\ meta[g] \in Nat /\ inventory[g] \in Nat)
      /\ (\A g \in Included : copied[g][1] \in Nat /\ copied[g][2] \in Nat)
    BY <1>2 DEF SnapshotType, Absent
<1>4. SnapshotType'
    <2>1. bytes' \in [Files -> Nat] /\ meta' \in [Files -> Nat] /\ quiet' \in BOOLEAN
        BY <1>1, <1>2, <1>3 DEF SnapshotType
    <2>2. Payload(bytes') \in [Included -> Nat]
        BY <1>2, <2>1 DEF Payload
    <2>3. seen' \subseteq [Included -> Nat]
        BY <1>1, <1>2, <2>2 DEF SnapshotType
    <2>4. inventory' \in [Files -> Nat] /\ copied' \in [Included -> Nat \X Nat] /\ reading' \in ReadPoints
          /\ (reading'[2] # "none" => stage' = "copy")
        BY <1>1, <1>2 DEF SnapshotType
    <2>5. changes' \in Nat /\ changes' # 0
        BY <1>1, <1>3, <1>2 DEF SnapshotType
    <2> QED BY <2>1, <2>3, <2>4, <2>5 DEF SnapshotType
<1>5. NumbersUsed'
    BY <1>1, <1>2, <1>3 DEF NumbersUsed, SnapshotType, Absent
<1>6. MetadataTells'
    BY <1>1, <1>2 DEF MetadataTells, SnapshotType
<1>7. SeenNow'
    <2>1. Payload(bytes') = Payload(bytes)' BY DEF Payload
    <2> QED BY <1>1, <2>1 DEF SeenNow
<1>8. CopiesWhole'
    <2>1. \A g \in Included : reading[2] # "none" /\ reading[1] = g /\ bytes[g] # copied[g][1] => bytes'[g] # copied[g][1]
        BY <1>1, <1>2, <1>3 DEF SnapshotType, NumbersUsed, CopiesWhole, Absent, ReadPoints, ReadSteps
    <2>2. \A g \in Included : reading = <<g, "hashFirst">> => reading[2] # "none" /\ reading[1] = g
        OBVIOUS
    <2> QED BY <1>1, <1>2, <2>1, <2>2 DEF CopiesWhole
<1>9. VerifyingOne'
    <2>1. Left' = Left BY <1>1 DEF Left
    <2>2. ASSUME stage = "verify", ~quiet'
          PROVE  \E b \in seen' : \A g \in Included :
                     b[g] = inventory[g] \/ (g \in listed /\ meta'[g] # inventory[g] /\ inventory[g] # Absent)
        <3>1. PICK b \in seen : \A g \in Included :
                     b[g] = inventory[g] \/ (g \in listed /\ meta[g] # inventory[g] /\ inventory[g] # Absent)
            BY <1>2, <2>2 DEF VerifyingOne
        <3>2. \A g \in Files : meta[g] # inventory[g] /\ inventory[g] # Absent => meta'[g] # inventory[g]
            BY <1>1, <1>2, <1>3, <2>2 DEF SnapshotType, NumbersUsed, Absent
        <3> QED BY <1>1, <1>2, <3>1, <3>2
    <2> QED BY ZenonT(40), <1>1, <1>2, <2>1, <2>2 DEF VerifyingOne
<1> QED BY <1>4, <1>5, <1>6, <1>7, <1>8, <1>9 DEF SnapshotInv

\* Every step keeps the inductive invariant.
LEMMA SnapshotInvStep == SnapshotInv /\ [SnapshotNext]_snapshotVars => SnapshotInv'
<1> SUFFICES ASSUME SnapshotInv, [SnapshotNext]_snapshotVars PROVE SnapshotInv' OBVIOUS
<1>1. CASE UNCHANGED snapshotVars
    BY <1>1 DEF snapshotVars, SnapshotInv, SnapshotType, NumbersUsed, MetadataTells, SeenNow, CopiesWhole, VerifyingOne, Payload, Left
<1>2. CASE ListDirectory \/ InventoryDone \/ VerifyNames \/ VerifyDone
    BY <1>2, ListKeeps, InventoryDoneKeeps, VerifyNamesKeeps, VerifyDoneKeeps
<1>3. ASSUME NEW f \in Files, InventoryOne(f) \/ VerifyOne(f) PROVE SnapshotInv'
    BY <1>3, InventoryOneKeeps, VerifyOneKeeps
<1>4. ASSUME NEW f \in Files, WriteFile(f) \/ RemoveFile(f) \/ WriteQuietly(f) PROVE SnapshotInv'
    <2>1. CASE WriteFile(f) BY <2>1, ChangeKeeps DEF WriteFile
    <2>2. CASE RemoveFile(f) BY <2>2, ChangeKeeps DEF RemoveFile
    <2>3. CASE WriteQuietly(f) BY <2>3, ChangeKeeps DEF WriteQuietly
    <2> QED BY <1>4, <2>1, <2>2, <2>3
<1>5. ASSUME NEW f \in Included, CopyFirst(f) \/ CopySecond(f) \/ HashFirst(f) \/ HashSecond(f) PROVE SnapshotInv'
    BY <1>5, CopyFirstKeeps, CopySecondKeeps, HashFirstKeeps, HashSecondKeeps
<1> QED BY <1>1, <1>2, <1>3, <1>4, <1>5 DEF SnapshotNext

\* The inductive invariant implies the property.
LEMMA SnapshotInvImplies == SnapshotInv => SnapshotConsistent
<1> SUFFICES ASSUME SnapshotInv, stage = "VERIFIED"
             PROVE  /\ \A f \in Included : copied[f][1] = copied[f][2]
                    /\ quiet \/ [f \in Included |-> copied[f][1]] \in seen
    BY DEF SnapshotConsistent
<1>1. SnapshotType /\ CopiesWhole /\ VerifyingOne /\ Included \subseteq Files
    BY SnapshotHas
<1>2. reading[2] = "none" BY <1>1 DEF SnapshotType, ReadPoints
<1>3. \A f \in Included : copied[f][1] = copied[f][2]
    BY <1>1, <1>2 DEF CopiesWhole
<1>4. ASSUME ~quiet PROVE [f \in Included |-> copied[f][1]] \in seen
    <2>1. \A f \in Included : copied[f][1] = inventory[f]
        BY <1>1, <1>4 DEF CopiesWhole, VerifyingOne, Left, Unread, Absent
    <2>2. PICK b \in seen : \A f \in Included : b[f] = inventory[f]
        BY <1>1, <1>4 DEF VerifyingOne
    <2>3. b \in [Included -> Nat] BY <1>1 DEF SnapshotType
    <2>4. b = [f \in Included |-> copied[f][1]] BY <2>1, <2>2, <2>3
    <2> QED BY <2>4
<1> QED BY <1>3, <1>4

\* A verified snapshot is one moment of its source, for every set of files and
\* every interleaving of reads and writes.
THEOREM SnapshotsAreConsistent == SnapshotSpec => []SnapshotConsistent
<1>1. SnapshotInit => SnapshotInv BY SnapshotInitially
<1>2. SnapshotInv /\ [SnapshotNext]_snapshotVars => SnapshotInv' BY SnapshotInvStep
<1>3. SnapshotInv => SnapshotConsistent BY SnapshotInvImplies
<1> QED BY <1>1, <1>2, <1>3, PTL DEF SnapshotSpec

(***************************************************************************)
(* Reading a backup again.                                                 *)
(***************************************************************************)
ArtifactSteps == {"header", "copy", "container", "members", "accepted", "extract", "extracted", "refused"}

ArtifactType ==
    /\ artStep \in ArtifactSteps
    /\ members \in Seq(Entries) /\ totals \in Seq(Nat) /\ Len(totals) = Len(members)
    /\ sums \in [expanded : 0..MaxWord, compressed : 0..MaxWord]
    /\ at \in 0..Len(members) /\ written \in Nat
    /\ tree \in [Places -> {"none", "dir", "file"}]
    /\ offered \in [size : Sizes \cup {0}, packed : Sizes \cup {0}]

\* What holds of a member that was taken.
Taken(m) ==
    /\ m.key \in Names /\ m.kind \in {"file", "dir"} /\ (m.key = DataRoot => m.kind = "dir")
    /\ m.kind = "dir" => m.size = 0
    /\ m.size <= MaxMember /\ ~TooDense(m.size, m.packed)
    /\ m.kind = "file" => m.real = m.size

MembersInv ==
    /\ \A j \in DOMAIN members : Taken(members[j])
    /\ \A j, k \in DOMAIN members : j # k => Fold[members[j].key] # Fold[members[k].key]

\* The words are the numbers.
SumsInv ==
    /\ sums.expanded = Total /\ Total <= MaxTotal
    /\ \A j \in DOMAIN members :
          totals[j] = (IF j = 1 THEN 0 ELSE totals[j - 1]) + members[j].size

HeaderInv == artStep \in ArtifactSteps \ {"header", "refused"} => HeaderFine(frozen)

AgreedInv ==
    artStep \in {"accepted", "extract", "extracted"} =>
        Total = manifest.expanded /\ Len(members) = manifest.count

Extracted(j) == j \in DOMAIN members /\ j <= at /\ members[j].key # DataRoot
Occupied(m) == {Fold[m.key]} \cup {Fold[a] : a \in Above[m.key]}

ExtractionInv ==
    artStep # "refused" =>
        /\ artStep \notin {"extract", "extracted"} => at = 0
        /\ artStep = "extracted" => at = Len(members)
        /\ written = IF at = 0 THEN 0 ELSE totals[at]
        /\ \A j \in DOMAIN members : Extracted(j) => tree[Fold[members[j].key]] = members[j].kind
        /\ \A p \in Places : tree[p] # "none" => \E j \in DOMAIN members : Extracted(j) /\ p \in Occupied(members[j])

CodeInv ==
    /\ artStep # "refused" => code = "none"
    /\ RefusedTrue

ArtifactInv ==
    /\ ArtifactType /\ MembersInv /\ SumsInv /\ HeaderInv /\ AgreedInv /\ ExtractionInv /\ CodeInv

-----------------------------------------------------------------------------
\* The comparison with the ratio is the comparison of numbers: when the product
\* would not fit into a word, it is larger than every word.
LEMMA RatioIsExact ==
    ASSUME NEW e \in 0..MaxWord, NEW c \in 0..MaxWord
    PROVE  ExceedsRatio(e, c) <=> TooDense(e, c)
<1> DEFINE q == MaxWord \div MaxRatio
<1>1. MaxWord \in Nat /\ MaxRatio \in Nat \ {0} BY ArtifactLimits
<1>2. q \in Nat /\ MaxRatio * q <= MaxWord /\ MaxWord < MaxRatio * q + MaxRatio BY <1>1, Z3
<1> HIDE DEF q
<1>3. CASE c = 0
    BY <1>1, <1>3, SMT DEF ExceedsRatio, TooDense
<1>4. CASE c # 0 /\ c <= q
    <2>1. \E d \in Nat : q = c + d
        BY <1>2, <1>4, q - c \in Nat, q = c + (q - c), SMT
    <2>2. PICK d \in Nat : q = c + d BY <2>1
    <2>3. MaxRatio * q = MaxRatio * c + MaxRatio * d BY <1>1, <1>2, <2>2, Z3
    <2>4. MaxRatio * d \in Nat /\ MaxRatio * c \in Nat BY <1>1, Z3
    <2>5. MaxRatio * c <= MaxWord BY <2>3, <2>4, <1>1, <1>2, Z3
    <2>6. c * MaxRatio = MaxRatio * c BY <1>1, Z3
    <2>7. (MaxRatio * c) % (MaxWord + 1) = MaxRatio * c BY <2>4, <2>5, <1>1, Z3
    <2> QED BY <2>6, <2>7, <1>4, <1>1 DEF ExceedsRatio, q, TooDense
<1>5. CASE c > q
    <2>1. \E d \in Nat : c = q + 1 + d
        BY <1>2, <1>5, c - (q + 1) \in Nat, c = q + 1 + (c - (q + 1)), SMT
    <2>2. PICK d \in Nat : c = q + 1 + d BY <2>1
    <2>3. MaxRatio * c = MaxRatio * q + MaxRatio + MaxRatio * d BY <1>1, <1>2, <2>2, Z3
    <2>4. MaxRatio * d \in Nat /\ MaxRatio * q \in Nat BY <1>1, <1>2, Z3
    <2>5. MaxRatio * c > MaxWord BY <2>3, <2>4, <1>1, <1>2, Z3
    <2>6. c # 0 /\ ~(c <= q) BY <1>2, <1>5
    <2> QED BY <2>5, <2>6, <1>1 DEF q, ExceedsRatio, TooDense
<1> QED BY <1>2, <1>3, <1>4, <1>5

\* Nothing is read, and nothing said, at first.
LEMMA ArtifactInitially == ArtifactInit => ArtifactInv
<1> SUFFICES ASSUME ArtifactInit PROVE ArtifactInv OBVIOUS
<1> USE DEF ArtifactInit
<1>1. ArtifactType BY ArtifactLimits DEF ArtifactType, ArtifactSteps
<1>2. MembersInv /\ HeaderInv /\ AgreedInv BY DEF MembersInv, HeaderInv, AgreedInv
<1>3. SumsInv BY ArtifactLimits DEF SumsInv, Total
<1>4. ExtractionInv BY DEF ExtractionInv
<1>5. CodeInv BY DEF CodeInv, RefusedTrue, Undecryptable
<1> QED BY <1>1, <1>2, <1>3, <1>4, <1>5 DEF ArtifactInv

\* A step that goes on, or refuses with a code of its own, and leaves the
\* verified members and the extraction alone.
LEMMA ArtifactGoesOn ==
    ASSUME ArtifactInv, UNCHANGED <<members, totals, sums, offered, at, tree, written>>,
           artStep' \in ArtifactSteps, HeaderInv', AgreedInv',
           \/ artStep' = "refused" /\ code' \notin {"totalSize", "ratio", "decryption"}
           \/ artStep' = "refused" /\ code' = "decryption" /\ Undecryptable'
           \/ /\ code' = code /\ artStep # "refused" /\ artStep' # "refused"
              /\ artStep' = "extracted" => at = Len(members)
              /\ artStep' \notin {"extract", "extracted"} => artStep \notin {"extract", "extracted"}
           \/ code' = code /\ artStep' = artStep /\ (code = "decryption" /\ Undecryptable => Undecryptable')
    PROVE  ArtifactInv'
<1>1. ArtifactType' BY DEF ArtifactInv, ArtifactType
<1>2. MembersInv' BY DEF ArtifactInv, MembersInv
<1>3. SumsInv' BY DEF ArtifactInv, SumsInv, Total
<1>4. ExtractionInv'
    <2>1. CASE artStep' = "refused" BY <2>1 DEF ExtractionInv
    <2>2. CASE artStep' # "refused"
        <3>1. artStep # "refused" /\ ExtractionInv BY <2>2 DEF ArtifactInv
        <3>2. \A j : Extracted(j)' <=> Extracted(j) BY DEF Extracted
        <3>3. artStep' \notin {"extract", "extracted"} => at' = 0 BY <2>2, <3>1 DEF ExtractionInv
        <3>4. artStep' = "extracted" => at' = Len(members') BY <2>2, <3>1 DEF ExtractionInv
        <3>5. written' = IF at' = 0 THEN 0 ELSE totals'[at'] BY <3>1 DEF ExtractionInv
        <3>6. \A j \in DOMAIN members' : Extracted(j)' => tree'[Fold[members'[j].key]] = members'[j].kind
            BY <3>1, <3>2 DEF ExtractionInv
        <3>7. \A p \in Places : tree'[p] # "none" => \E j \in DOMAIN members' : Extracted(j)' /\ p \in Occupied(members'[j])
            BY <3>1, <3>2 DEF ExtractionInv
        <3> QED BY <3>3, <3>4, <3>5, <3>6, <3>7 DEF ExtractionInv
    <2> QED BY <2>1, <2>2
<1>5. CodeInv' BY DEF ArtifactInv, CodeInv, RefusedTrue, Total
<1> QED BY <1>1, <1>2, <1>3, <1>4, <1>5 DEF ArtifactInv

\* The steps before the archive is read: the age header, the copy, the container.
LEMMA CiphertextSteps ==
    ASSUME ArtifactInv, FreezeHeader \/ ReadCiphertext \/ ReadAgainFails
                        \/ (\E why \in {"cancel", "failure"} : Interrupt(why))
                        \/ OpenContainer \/ EndExtraction \/ ChangeCiphertext
    PROVE  ArtifactInv'
<1> USE DEF GoOn, Reject, verified, output, ArtifactSteps
<1>0. HeaderInv /\ AgreedInv BY DEF ArtifactInv
<1>1. CASE FreezeHeader
    <2>1. HeaderInv' /\ AgreedInv' BY <1>0, <1>1 DEF FreezeHeader, HeaderInv, AgreedInv, HeaderFine
    <2>2. HeaderFine(header) \/ HeaderCode(header) \in {"limit", "decryption"}
        BY DEF HeaderCode
    <2>3. ~HeaderFine(header) => Undecryptable' BY <1>1 DEF FreezeHeader, Undecryptable, HeaderFine
    <2> QED BY <1>1, <2>1, <2>2, <2>3, ArtifactGoesOn DEF FreezeHeader
<1>2. CASE ReadCiphertext
    <2>1. HeaderInv' /\ AgreedInv' BY <1>0, <1>2 DEF ReadCiphertext, HeaderInv, AgreedInv, HeaderFine
    <2> QED BY <1>2, <2>1, ArtifactGoesOn DEF ReadCiphertext, Undecryptable
<1>3. CASE ReadAgainFails
    <2>1. HeaderInv' /\ AgreedInv' BY <1>0, <1>3 DEF ReadAgainFails, HeaderInv, AgreedInv, HeaderFine
    <2> QED BY <1>3, <2>1, ArtifactGoesOn DEF ReadAgainFails, Undecryptable
<1>4. ASSUME NEW why \in {"cancel", "failure"}, Interrupt(why) PROVE ArtifactInv'
    <2>1. HeaderInv' /\ AgreedInv' BY <1>0, <1>4 DEF Interrupt, HeaderInv, AgreedInv, HeaderFine
    <2>2. \E c : Reject(c) /\ (c = "decryption" => why = "failure" \/ use = "restore") /\ c \notin {"totalSize", "ratio"}
        BY <1>4 DEF Interrupt
    <2>3. code' = "decryption" => Undecryptable' BY <1>4, <2>2 DEF Interrupt, Undecryptable
    <2> QED BY <1>4, <2>1, <2>2, <2>3, ArtifactGoesOn DEF Interrupt
<1>5. CASE OpenContainer
    <2>1. HeaderInv' /\ AgreedInv' BY <1>0, <1>5 DEF OpenContainer, HeaderInv, AgreedInv, HeaderFine
    <2> QED BY <1>5, <2>1, ArtifactGoesOn DEF OpenContainer
<1>6. CASE EndExtraction
    <2>1. HeaderInv' /\ AgreedInv' BY <1>0, <1>6 DEF EndExtraction, HeaderInv, AgreedInv, HeaderFine, Total
    <2> QED BY <1>6, <2>1, ArtifactGoesOn DEF EndExtraction
<1>7. CASE ChangeCiphertext
    <2>1. HeaderInv' /\ AgreedInv' BY <1>0, <1>7 DEF ChangeCiphertext, HeaderInv, AgreedInv, HeaderFine
    <2>2. artStep' \in ArtifactSteps BY <1>7 DEF ChangeCiphertext
    <2>3. code = "none" BY <1>7 DEF ChangeCiphertext, ArtifactInv, CodeInv
    <2> QED BY <1>7, <2>1, <2>2, <2>3, ArtifactGoesOn DEF ChangeCiphertext
<1> QED BY <1>1, <1>2, <1>3, <1>4, <1>5, <1>6, <1>7

\* The end of the archive: the members are checked against the manifest and the limits.
LEMMA EndMembersStep ==
    ASSUME ArtifactInv, NEW claimed \in Claims, EndMembers(claimed)
    PROVE  ArtifactInv'
<1> USE DEF GoOn, Reject, output, ArtifactSteps
<1>1. EndCode(claimed) \in {"missing", "sumsRatio", "count", "expanded", "none"} BY DEF EndCode
<1>2. EndCode(claimed) = "none" => Len(members) = claimed.count /\ sums.expanded = claimed.expanded
    BY DEF EndCode
<1>3. AgreedInv' BY <1>2 DEF EndMembers, AgreedInv, ArtifactInv, SumsInv, Total
<1>4. HeaderInv' BY DEF EndMembers, HeaderInv, ArtifactInv, HeaderFine
<1> QED BY <1>1, <1>3, <1>4, ArtifactGoesOn DEF EndMembers

\* What an entry claims to hold, and what it holds, are sizes.
LEMMA EntrySizes ==
    \A m \in Entries : m.size \in Nat /\ m.packed \in Nat /\ m.size \in 0..MaxWord /\ m.packed \in 0..MaxWord
<1>1. MaxWord \in Nat /\ \A s \in Sizes : s \in 0..MaxWord /\ s \in Nat BY ArtifactLimits
<1>2. \A m \in Entries : m.size \in Sizes /\ m.packed \in Sizes BY DEF Entries
<1> QED BY <1>1, <1>2

\* What validateMember, addArchiveBounds and consumeMember let pass.
LEMMA PassedMember ==
    ASSUME ArtifactInv, NEW m \in Entries, MemberCode(m) = "none"
    PROVE  /\ Taken(m) /\ \A j \in DOMAIN members : Fold[members[j].key] # Fold[m.key]
           /\ sums.expanded + m.size <= MaxTotal
<1>1. m.size \in 0..MaxWord /\ m.packed \in 0..MaxWord BY ArtifactLimits DEF Entries
<1>2. sums.expanded \in 0..MaxWord /\ sums.expanded <= MaxTotal
    BY DEF ArtifactInv, ArtifactType, SumsInv
<1>3. NameCode(m) = "none" BY DEF MemberCode
<1>4. /\ m.key # "unsafe" /\ m.key # "outside" /\ m.kind # "other"
      /\ m.key \in Names => \A j \in DOMAIN members : Fold[members[j].key] # Fold[m.key]
      /\ m.kind = "dir" => m.size = 0 /\ m.packed = 0
      /\ m.key = DataRoot => m.kind = "dir"
    BY <1>3 DEF NameCode
<1>5. m.key \in Names /\ m.kind \in {"file", "dir"} BY <1>4 DEF Entries
<1>6. MaxWord \in Nat /\ MaxMember \in Nat /\ MaxMember <= MaxWord /\ MaxTotal \in Nat /\ MaxRatio \in Nat
    BY ArtifactLimits
<1>7. CASE m.key = DataRoot
    <2>1. m.size = 0 /\ m.packed = 0 /\ m.kind = "dir" BY <1>4, <1>7
    <2>2. ~TooDense(m.size, m.packed) BY <2>1, <1>6 DEF TooDense
    <2> QED BY <2>1, <2>2, <1>4, <1>5, <1>2, <1>6 DEF Taken
<1>8. CASE m.key # DataRoot
    <2>1. BoundsCode(m) = "none" /\ DataCode(m) = "none" BY <1>3, <1>8 DEF MemberCode
    <2>2. m.size <= MaxMember /\ sums.expanded + m.size <= MaxTotal /\ ~ExceedsRatio(m.size, m.packed)
        BY <2>1, <1>1, <1>2, <1>6 DEF BoundsCode
    <2>3. ~TooDense(m.size, m.packed) BY <2>2, <1>1, RatioIsExact
    <2>4. m.kind = "file" => m.real = m.size
        <3>1. m.real \in 0..MaxWord BY ArtifactLimits DEF Entries
        <3> QED BY <2>1, <2>2, <3>1, <1>1, <1>6 DEF DataCode, BytesRead
    <2> QED BY <2>2, <2>3, <2>4, <1>4, <1>5 DEF Taken
<1> QED BY <1>7, <1>8

\* An entry that is refused ends the reading, and is counted nowhere.
LEMMA RefusedMember ==
    ASSUME ArtifactInv, NEW m \in Entries
    PROVE  /\ MemberCode(m) # "decryption"
           /\ MemberCode(m) = "totalSize" => Total + m.size > MaxTotal
           /\ MemberCode(m) = "ratio" => TooDense(m.size, m.packed)
<1>1. m.size \in 0..MaxWord /\ m.packed \in 0..MaxWord BY ArtifactLimits DEF Entries
<1>2. sums.expanded \in 0..MaxWord /\ sums.expanded = Total
    BY DEF ArtifactInv, ArtifactType, SumsInv
<1>3. MaxWord \in Nat /\ MaxTotal \in Nat /\ MaxTotal <= MaxWord BY ArtifactLimits
<1>4. NameCode(m) \in {"path", "duplicate", "collision", "type", "root", "none"} BY DEF NameCode
<1>5. DataCode(m) \in {"invalid", "none"} BY DEF DataCode
<1>6. BoundsCode(m) \in {"memberSize", "totalSize", "invalid", "ratio", "none"} BY DEF BoundsCode
<1>7. BoundsCode(m) = "totalSize" => Total + m.size > MaxTotal BY <1>1, <1>2, <1>3 DEF BoundsCode
<1>8. BoundsCode(m) = "ratio" => ExceedsRatio(m.size, m.packed) BY DEF BoundsCode
<1>9. BoundsCode(m) = "ratio" => TooDense(m.size, m.packed) BY <1>1, <1>8, RatioIsExact
<1> QED BY <1>4, <1>5, <1>6, <1>7, <1>9 DEF MemberCode

\* The next entry of the archive passes every check, or ends the reading.
LEMMA NextMemberStep ==
    ASSUME ArtifactInv, NEW m \in Entries, NextMember(m)
    PROVE  ArtifactInv'
<1> USE DEF Reject, output
<1>1. CASE MemberCode(m) # "none"
    <2>1. ArtifactType'
        BY <1>1 DEF NextMember, ArtifactInv, ArtifactType, ArtifactSteps, Entries
    <2>2. MembersInv' /\ HeaderInv' /\ AgreedInv' /\ ExtractionInv'
        BY <1>1 DEF NextMember, ArtifactInv, MembersInv, HeaderInv, AgreedInv, ExtractionInv, HeaderFine
    <2>3. SumsInv' BY <1>1 DEF NextMember, ArtifactInv, SumsInv, Total
    <2>4. CodeInv'
        <3>1. Total' = Total /\ offered'.size = m.size /\ offered'.packed = m.packed /\ code' = MemberCode(m)
              /\ artStep' = "refused"
            BY <1>1 DEF NextMember, Total
        <3> QED BY <3>1, RefusedMember DEF CodeInv, RefusedTrue, TooDense
    <2> QED BY <2>1, <2>2, <2>3, <2>4 DEF ArtifactInv
<1>2. CASE MemberCode(m) = "none"
    <2> DEFINE n == Len(members) + 1
    <2>0. members \in Seq(Entries) /\ totals \in Seq(Nat) /\ Len(totals) = Len(members) /\ artStep = "members"
        BY DEF ArtifactInv, ArtifactType, NextMember
    <2>1. /\ members' = Append(members, m) /\ totals' = Append(totals, Total + m.size)
          /\ sums'.expanded = (sums.expanded + m.size) % (MaxWord + 1)
          /\ sums' = [expanded |-> (sums.expanded + m.size) % (MaxWord + 1),
                      compressed |-> (sums.compressed + m.packed) % (MaxWord + 1)]
          /\ artStep' = artStep /\ code' = code /\ offered' = offered /\ damaged' = damaged
          /\ at' = at /\ tree' = tree /\ written' = written /\ frozen' = frozen
        BY <1>2 DEF NextMember
    <2>2. /\ Taken(m) /\ \A j \in DOMAIN members : Fold[members[j].key] # Fold[m.key]
          /\ sums.expanded + m.size <= MaxTotal
        BY <1>2, PassedMember
    <2>3. m.size \in Nat /\ m.packed \in Nat /\ sums.expanded \in Nat /\ sums.compressed \in Nat
          /\ sums.expanded = Total
        <3>1. m.size \in Nat /\ m.packed \in Nat BY EntrySizes
        <3>2. sums.expanded \in Nat /\ sums.compressed \in Nat
            BY ArtifactLimits DEF ArtifactInv, ArtifactType
        <3>3. sums.expanded = Total BY DEF ArtifactInv, SumsInv
        <3> QED BY <3>1, <3>2, <3>3
    <2>4. MaxTotal <= MaxWord /\ MaxWord \in Nat /\ MaxTotal \in Nat BY ArtifactLimits
    <2>5. (sums.expanded + m.size) % (MaxWord + 1) = sums.expanded + m.size
        BY <2>2, <2>3, <2>4, Z3
    <2>6. (sums.compressed + m.packed) % (MaxWord + 1) \in 0..MaxWord BY <2>3, <2>4, Z3
    <2>7. /\ members' \in Seq(Entries) /\ Len(members') = n /\ totals' \in Seq(Nat) /\ Len(totals') = n
          /\ DOMAIN members' = 1..n /\ DOMAIN members = 1..(n - 1) /\ n \in Nat /\ n >= 1
          /\ \A j \in 1..(n - 1) : members'[j] = members[j] /\ totals'[j] = totals[j]
          /\ members'[n] = m /\ totals'[n] = Total + m.size
        BY <2>0, <2>1, <2>3
    <2>8. Total' = Total + m.size BY <2>7 DEF Total
    <2>9. ArtifactType'
        <3>1. sums' \in [expanded : 0..MaxWord, compressed : 0..MaxWord]
            <4>1. sums.expanded + m.size \in 0..MaxWord BY <2>2, <2>3, <2>4
            <4> QED BY <2>1, <2>5, <2>6, <4>1
        <3>2. at' \in 0..Len(members') BY <2>1, <2>7 DEF ArtifactInv, ArtifactType
        <3> QED BY <2>1, <2>7, <3>1, <3>2 DEF ArtifactInv, ArtifactType
    <2>10. MembersInv'
        <3>1. \A j \in 1..(n - 1) : Taken(members[j]) BY <2>7 DEF ArtifactInv, MembersInv
        <3>2. \A j \in 1..n : Taken(members'[j]) BY <3>1, <2>2, <2>7
        <3>3. \A j, k \in 1..n : j # k => Fold[members'[j].key] # Fold[members'[k].key]
            <4> SUFFICES ASSUME NEW j \in 1..n, NEW k \in 1..n, j # k
                         PROVE Fold[members'[j].key] # Fold[members'[k].key] OBVIOUS
            <4>1. CASE j = n
                BY SMTT(30), <2>7, <2>2, <4>1
            <4>2. CASE k = n
                BY SMTT(30), <2>7, <2>2, <4>2
            <4>3. CASE j # n /\ k # n
                <5>1. j \in 1..(n - 1) /\ k \in 1..(n - 1) BY <2>7, <4>3
                <5>2. Fold[members[j].key] # Fold[members[k].key] BY <2>7, <5>1 DEF ArtifactInv, MembersInv
                <5> QED BY <2>7, <5>1, <5>2
            <4> QED BY <4>1, <4>2, <4>3
        <3> QED BY <2>7, <3>2, <3>3 DEF MembersInv, Taken, TooDense
    <2>11. SumsInv'
        <3>1. sums'.expanded = Total' /\ Total' <= MaxTotal BY <2>1, <2>2, <2>3, <2>5, <2>8
        <3>2. ASSUME NEW j \in 1..n
              PROVE totals'[j] = (IF j = 1 THEN 0 ELSE totals'[j - 1]) + members'[j].size
            <4>1. CASE j = n
                <5>1. Total = IF n = 1 THEN 0 ELSE totals[n - 1] BY <2>0, <2>7 DEF Total
                <5> QED BY SMTT(30), <5>1, <4>1, <2>7, <2>3
            <4>2. CASE j # n
                <5>1. j \in DOMAIN members BY <4>2, <2>7
                <5>2. totals[j] = (IF j = 1 THEN 0 ELSE totals[j - 1]) + members[j].size
                    BY <5>1 DEF ArtifactInv, SumsInv
                <5>3. j = 1 \/ j - 1 \in 1..(n - 1) BY <4>2, <2>7
                <5> QED BY <5>2, <5>3, <4>2, <2>7
            <4> QED BY <4>1, <4>2
        <3> QED BY <3>1, <3>2, <2>7 DEF SumsInv
    <2>12. HeaderInv' /\ AgreedInv'
        BY <2>0, <2>1 DEF ArtifactInv, HeaderInv, AgreedInv, HeaderFine
    <2>13. ExtractionInv'
        <3>1. at = 0 /\ ExtractionInv BY <2>0 DEF ArtifactInv, ExtractionInv
        <3>2. written = 0 BY <3>1, <2>0 DEF ExtractionInv
        <3>3. \A p \in Places : tree[p] = "none"
            BY <3>1, <2>0, <2>7 DEF ExtractionInv, Extracted
        <3>4. \A j \in 1..n : ~Extracted(j)' BY <3>1, <2>1 DEF Extracted
        <3> QED BY <2>0, <2>1, <2>7, <3>1, <3>2, <3>3, <3>4 DEF ExtractionInv
    <2>14. CodeInv'
        BY <2>0, <2>1 DEF ArtifactInv, CodeInv, RefusedTrue
    <2> QED BY <2>9, <2>10, <2>11, <2>12, <2>13, <2>14 DEF ArtifactInv
<1> QED BY <1>1, <1>2

\* The j-th member lies in place, whatever was placed beside it.
LEMMA ExtractMemberStep ==
    ASSUME ArtifactInv, ExtractMember
    PROVE  ArtifactInv'
<1> DEFINE n == at + 1
           m == members[n]
<1>0. /\ artStep = "extract" /\ members \in Seq(Entries) /\ totals \in Seq(Nat) /\ Len(totals) = Len(members)
      /\ at \in Nat /\ n \in DOMAIN members /\ n \in DOMAIN totals
      /\ tree \in [Places -> {"none", "dir", "file"}] /\ written \in Nat
      /\ DOMAIN members = 1..Len(members) /\ Len(members) \in Nat
    BY DEF ArtifactInv, ArtifactType, ExtractMember
<1>1. /\ members' = members /\ totals' = totals /\ sums' = sums /\ offered' = offered /\ manifest' = manifest
      /\ frozen' = frozen /\ damaged' = damaged
    BY DEF ExtractMember, verified
<1>2. Taken(m) /\ m \in Entries /\ ExtractionInv BY <1>0 DEF ArtifactInv, MembersInv
<1>3. MembersInv' /\ SumsInv' BY <1>1 DEF ArtifactInv, MembersInv, SumsInv, Taken, TooDense, Total
<1>4. /\ written = IF at = 0 THEN 0 ELSE totals[at]
      /\ \A j \in DOMAIN members : Extracted(j) => tree[Fold[members[j].key]] = members[j].kind
      /\ \A p \in Places : tree[p] # "none" => \E j \in DOMAIN members : Extracted(j) /\ p \in Occupied(members[j])
    BY <1>0, <1>2 DEF ExtractionInv
<1>5. totals[n] = written + m.size
    <2>1. totals[n] = (IF n = 1 THEN 0 ELSE totals[n - 1]) + members[n].size BY <1>0 DEF ArtifactInv, SumsInv
    <2>2. n = 1 <=> at = 0 BY <1>0
    <2>3. n - 1 = at BY <1>0
    <2> QED BY <2>1, <2>2, <2>3, <1>4
<1>6. m.size \in Nat BY <1>2, EntrySizes
<1>7. totals[n] \in Nat BY <1>0
<1>8. \A j : Extracted(j)' <=> j \in DOMAIN members /\ j <= at' /\ members[j].key # DataRoot
    BY <1>1 DEF Extracted
<1>9. CASE m.key = DataRoot /\ at' = n /\ UNCHANGED <<artStep, code, tree, written>>
    <2>1. m.size = 0 BY <1>2, <1>9 DEF Taken
    <2>2. \A j \in DOMAIN members : Extracted(j)' <=> Extracted(j) BY <1>0, <1>8, <1>9 DEF Extracted
    <2>3. ArtifactType' BY <1>0, <1>1, <1>9 DEF ArtifactInv, ArtifactType
    <2>4. ExtractionInv'
        BY <1>0, <1>1, <1>4, <1>5, <1>7, <1>9, <2>1, <2>2 DEF ExtractionInv
    <2>5. HeaderInv' /\ AgreedInv' /\ CodeInv'
        BY <1>0, <1>1, <1>9 DEF ArtifactInv, HeaderInv, AgreedInv, HeaderFine, CodeInv, RefusedTrue, Total
    <2> QED BY <1>3, <2>3, <2>4, <2>5 DEF ArtifactInv
<1>10. CASE /\ m.key # DataRoot /\ Fits(m) /\ (m.kind = "file" => BytesRead(m) = m.size)
            /\ at' = n /\ tree' = Placed(m)
            /\ written' = written + (IF m.kind = "file" THEN BytesRead(m) ELSE 0)
            /\ UNCHANGED <<artStep, code>>
    <2>1. written' = totals[n] BY <1>2, <1>5, <1>6, <1>7, <1>10 DEF Taken
    <2>2. m.key \in Keys /\ m.kind \in {"file", "dir"} /\ Above[m.key] \subseteq Keys
        BY <1>2, <1>10, ArtifactLimits DEF Taken, Names
    <2>3. Fold[m.key] \in Places /\ \A a \in Above[m.key] : Fold[a] \in Places BY <2>2 DEF Places
    <2>4. tree' \in [Places -> {"none", "dir", "file"}] BY <1>0, <1>10, <2>2 DEF Placed
    <2>5. \A p \in Places : tree'[p] = IF p = Fold[m.key] THEN m.kind
                      ELSE IF \E a \in Above[m.key] : p = Fold[a] THEN "dir" ELSE tree[p]
        BY <1>10 DEF Placed
    <2>6. tree[Fold[m.key]] = "none" /\ \A a \in Above[m.key] : tree[Fold[a]] \in {"none", "dir"}
        BY <1>10 DEF Fits
    <2>7. \A j \in DOMAIN members : Extracted(j)' => j = n \/ Extracted(j)
        BY <1>0, <1>8, <1>10 DEF Extracted
    <2>8. ASSUME NEW j \in DOMAIN members, Extracted(j)'
          PROVE  tree'[Fold[members[j].key]] = members[j].kind
        <3>1. CASE j = n BY <3>1, <2>3, <2>5
        <3>2. CASE j # n
            <4>1. Extracted(j) BY <2>7, <2>8, <3>2
            <4>2. tree[Fold[members[j].key]] = members[j].kind /\ members[j].kind \in {"file", "dir"}
                BY <1>4, <4>1 DEF ArtifactInv, MembersInv, Taken
            <4>3. members[j].key \in Keys /\ Fold[members[j].key] \in Places
                BY <4>1 DEF Extracted, ArtifactInv, MembersInv, Taken, Names, Places
            <4>4. Fold[members[j].key] # Fold[m.key] BY <1>0, <3>2 DEF ArtifactInv, MembersInv
            <4> QED BY <2>5, <2>6, <4>2, <4>3, <4>4
        <3> QED BY <3>1, <3>2
    <2>9. ASSUME NEW p \in Places, tree'[p] # "none"
          PROVE  \E j \in DOMAIN members : Extracted(j)' /\ p \in Occupied(members[j])
        <3>1. CASE p \in Occupied(m)
            <4>1. PICK j \in DOMAIN members : j = n BY <1>0
            <4>2. j <= at' /\ members[j].key # DataRoot BY <1>0, <1>10, <4>1
            <4>3. Extracted(j)' BY <1>8, <4>2
            <4> QED BY <3>1, <4>1, <4>3
        <3>2. CASE p \notin Occupied(m)
            <4>1. tree[p] # "none" BY <2>5, <2>9, <3>2 DEF Occupied
            <4>2. PICK j \in DOMAIN members : Extracted(j) /\ p \in Occupied(members[j]) BY <1>4, <4>1
            <4>3. Extracted(j)' BY <1>0, <1>8, <1>10, <4>2 DEF Extracted
            <4> QED BY <4>2, <4>3
        <3> QED BY <3>1, <3>2
    <2>10. ArtifactType'
        <3>1. at' \in 0..Len(members') /\ written' \in Nat BY <1>0, <1>1, <1>7, <1>10, <2>1
        <3> QED BY <1>1, <1>10, <2>4, <3>1 DEF ArtifactInv, ArtifactType
    <2>11. ExtractionInv'
        <3>1. written' = IF at' = 0 THEN 0 ELSE totals'[at'] BY <1>0, <1>1, <1>10, <2>1
        <3>2. artStep' = "extract" BY <1>0, <1>10
        <3>3. \A p \in Places : tree'[p] # "none" => \E j \in DOMAIN members' : Extracted(j)' /\ p \in Occupied(members'[j])
            BY <1>1, <2>9
        <3>4. \A j \in DOMAIN members' : Extracted(j)' => tree'[Fold[members'[j].key]] = members'[j].kind
            BY <1>1, <2>8
        <3> QED BY <3>1, <3>2, <3>3, <3>4 DEF ExtractionInv
    <2>12. HeaderInv' /\ AgreedInv' /\ CodeInv'
        BY <1>0, <1>1, <1>10 DEF ArtifactInv, HeaderInv, AgreedInv, HeaderFine, CodeInv, RefusedTrue, Total
    <2> QED BY <1>3, <2>10, <2>11, <2>12 DEF ArtifactInv
<1>11. CASE Reject("staging") /\ UNCHANGED output
    <2>1. HeaderInv' /\ AgreedInv' BY <1>11 DEF Reject, HeaderInv, AgreedInv
    <2> QED BY <1>1, <1>11, <2>1, ArtifactGoesOn DEF Reject, output, ArtifactSteps
<1> QED BY <1>9, <1>10, <1>11 DEF ExtractMember

\* The inductive invariant implies the property.
LEMMA ArtifactImplies == ArtifactInv => ArtifactTrue
<1> SUFFICES ASSUME ArtifactInv PROVE ArtifactTrue OBVIOUS
<1>1. AcceptedTrue
    BY DEF AcceptedTrue, ArtifactInv, HeaderInv, MembersInv, Taken, SumsInv, AgreedInv, ArtifactSteps
<1>2. ExtractedTrue
    <2> SUFFICES ASSUME artStep = "extracted"
                 PROVE  /\ written = Total
                        /\ \A j \in DOMAIN members : members[j].key # DataRoot => tree[Fold[members[j].key]] = members[j].kind
                        /\ \A p \in Places : tree[p] # "none" =>
                              \E j \in DOMAIN members : members[j].key # DataRoot /\ p \in Occupied(members[j])
        BY DEF ExtractedTrue, Occupied
    <2>1. /\ members \in Seq(Entries) /\ totals \in Seq(Nat) /\ Len(totals) = Len(members)
          /\ at = Len(members) /\ written = IF at = 0 THEN 0 ELSE totals[at]
        BY DEF ArtifactInv, ArtifactType, ExtractionInv
    <2>2. \A j \in DOMAIN members : Extracted(j) <=> members[j].key # DataRoot BY <2>1 DEF Extracted
    <2>3. written = Total BY <2>1 DEF Total
    <2> QED BY <2>2, <2>3 DEF ArtifactInv, ExtractionInv
<1>3. RefusedTrue BY DEF ArtifactInv, CodeInv
<1> QED BY <1>1, <1>2, <1>3 DEF ArtifactTrue

\* Every step keeps the inductive invariant.
LEMMA ArtifactStep == ArtifactInv /\ [ArtifactNext]_artifactVars => ArtifactInv'
<1> SUFFICES ASSUME ArtifactInv, [ArtifactNext]_artifactVars PROVE ArtifactInv' OBVIOUS
<1>1. CASE \E m \in Entries : NextMember(m) BY <1>1, NextMemberStep
<1>2. CASE \E claimed \in Claims : EndMembers(claimed) BY <1>2, EndMembersStep
<1>3. CASE ExtractMember BY <1>3, ExtractMemberStep
<1>4. CASE UNCHANGED artifactVars
    <2>1. HeaderInv' /\ AgreedInv' BY <1>4 DEF artifactVars, verified, ArtifactInv, HeaderInv, AgreedInv, HeaderFine, Total
    <2>2. artStep \in ArtifactSteps BY DEF ArtifactInv, ArtifactType
    <2> QED BY <1>4, <2>1, <2>2, ArtifactGoesOn DEF artifactVars, verified, Undecryptable, HeaderFine
<1> QED BY <1>1, <1>2, <1>3, <1>4, CiphertextSteps DEF ArtifactNext

\* What verification accepts may be extracted, and what is extracted is what
\* was accepted, for every archive and all limits (VerifyArtifact,
\* ExtractVerifiedRuntimeSnapshot).
THEOREM ArtifactIsTrue == ArtifactSpec => []ArtifactTrue
BY ArtifactInitially, ArtifactStep, ArtifactImplies, PTL DEF ArtifactSpec

(***************************************************************************)
(* The data of the renamed product.                                        *)
(***************************************************************************)
DataTrees == UNION {[D -> Nat] : D \in SUBSET DataFiles}
OwnNames == {"other product", "updates", "preferences"}
Directories == [tree : DataTrees, marker : {"no directory", "none", "valid", "torn"}, own : SUBSET OwnNames]
StartSteps == {"off", "stage", "copy", "publish", "serve", "refused"}

ProductType ==
    /\ legacy = NoTree \/ (legacy \in [DataFiles -> Nat] /\ \A f \in DataFiles : legacy[f] # Torn)
    /\ stable \in Directories /\ staging \in Directories
    /\ start \in StartSteps
    /\ legacyWrites \in Nat /\ dataFaults \in Nat
    /\ worked \in BOOLEAN /\ cut \in BOOLEAN /\ moved \in BOOLEAN /\ straddled \in BOOLEAN /\ unprepared \in BOOLEAN
    /\ refusal # "none" <=> start = "refused"

\* The stable directory by its marker: without one it holds none of the data, and
\* files of the Desktop itself only after a start that had failed.
StableTrue ==
    /\ stable.marker = "no directory" => stable = NoDirectory
    /\ stable.marker \in {"none", "no directory"} /\ legacy # NoTree =>
          /\ stable.tree = NoTree
          /\ stable.own \subseteq {"other product"} \/ unprepared
    /\ stable.marker = "valid" =>
          /\ Whole(stable.tree) \/ cut \/ straddled
          /\ ~(cut \/ moved \/ worked) => stable.tree = copiedFrom
    /\ stable.marker = "torn" => cut

\* Of the file being copied: what it has held since its copy began.
ContentsTrue(f) ==
    /\ \A c \in contents : c \in Nat /\ c # Torn
    /\ ~straddled => contents = {legacy[f]}
    /\ ~moved => contents = {copiedFrom[f]}

\* What a start has found and done so far.
StartTrue ==
    /\ start = "stage" => legacy # NoTree /\ stable \in {NoDirectory, EmptyDirectory}
    /\ start \in {"copy", "publish"} =>
          /\ legacy # NoTree /\ stable = NoDirectory /\ todo \subseteq DataFiles
          /\ DOMAIN staging.tree = DataFiles \ todo /\ staging.own = {}
          /\ copiedFrom \in [DataFiles -> Nat]
          /\ ~straddled => \A f \in DataFiles \ todo : staging.tree[f] # Torn
          /\ ~moved => \A f \in DataFiles \ todo : staging.tree[f] = copiedFrom[f]
    /\ start = "copy" /\ ~moved => legacy = copiedFrom
    /\ start = "copy" => copying \subseteq todo /\ \A f \in copying : ContentsTrue(f)
    /\ start = "publish" => todo = {} /\ staging.marker = "valid"
    /\ start = "serve" /\ legacy # NoTree => stable.marker = "valid"
    /\ start = "refused" => unprepared

\* What the daemon wrote is on the disk.
WorkFlushed ==
    worked => \E f \in DOMAIN stable.tree : stable.tree[f] = Mine /\ f \notin unflushed

ProductInv == ProductType /\ StableTrue /\ StartTrue /\ WorkFlushed /\ RefusedWithCause
-----------------------------------------------------------------------------
\* Directories, field by field.
LEMMA DirectoryFields ==
    /\ NoTree \in DataTrees
    /\ NoDirectory \in Directories /\ EmptyDirectory \in Directories
    /\ NoDirectory.tree = NoTree /\ NoDirectory.marker = "no directory" /\ NoDirectory.own = {}
    /\ EmptyDirectory.tree = NoTree /\ EmptyDirectory.marker = "none" /\ EmptyDirectory.own = {}
    /\ DOMAIN NoTree = {}
<1>1. NoTree \in [{} -> Nat]
    BY DEF NoTree
<1>2. NoTree \in DataTrees
    BY <1>1 DEF DataTrees
<1> QED BY <1>2 DEF NoDirectory, EmptyDirectory, Directories, NoTree

\* A directory is its fields.
LEMMA DirectoryEqual ==
    ASSUME NEW d \in Directories, NEW e \in Directories, d.tree = e.tree, d.marker = e.marker, d.own = e.own
    PROVE  d = e
<1>1. \A T, M, O : \A c \in [tree : T, marker : M, own : O] : c = [tree |-> c.tree, marker |-> c.marker, own |-> c.own]
    OBVIOUS
<1>2. d = [tree |-> d.tree, marker |-> d.marker, own |-> d.own]
    BY <1>1 DEF Directories
<1>3. e = [tree |-> e.tree, marker |-> e.marker, own |-> e.own]
    BY <1>1 DEF Directories
<1> QED BY <1>2, <1>3

\* A tree is its files.
LEMMA TreeEqual ==
    ASSUME NEW s \in DataTrees, NEW c \in [DataFiles -> Nat], DOMAIN s = DataFiles, \A f \in DataFiles : s[f] = c[f]
    PROVE  s = c
BY DEF DataTrees

\* A tree with one more file.
LEMMA TreeWith ==
    ASSUME NEW s \in DataTrees, NEW f \in DataFiles, NEW n \in Nat,
           NEW r, r = [g \in DOMAIN r |-> r[g]], DOMAIN r = DOMAIN s \cup {f}, r[f] = n,
           \A g \in DOMAIN s \ {f} : r[g] = s[g]
    PROVE  r \in DataTrees
<1>1. PICK D \in SUBSET DataFiles : s \in [D -> Nat]
    BY DEF DataTrees
<1>2. r \in [D \cup {f} -> Nat]
    BY <1>1
<1> QED BY <1>2 DEF DataTrees

\* Files as first written are not torn.
LEMMA FirstLegacy ==
    ASSUME legacy \in {NoTree, [f \in DataFiles |-> 1]}
    PROVE  legacy = NoTree \/ (legacy \in [DataFiles -> Nat] /\ \A f \in DataFiles : legacy[f] # Torn)
<1>1. ASSUME legacy = [f \in DataFiles |-> 1]
      PROVE  legacy \in [DataFiles -> Nat] /\ \A f \in DataFiles : legacy[f] # 0
    BY <1>1
<1> QED BY <1>1 DEF Torn

\* Nothing is done, and little is there, at first.
LEMMA ProductInitially == ProductDataInit => ProductInv
<1> SUFFICES ASSUME ProductDataInit PROVE ProductInv OBVIOUS
<1> USE DEF ProductDataInit
<1>1. PICK e \in {NoDirectory, EmptyDirectory, [EmptyDirectory EXCEPT !.own = {"other product"}]} : stable = e
    OBVIOUS
<1>2. stable \in Directories /\ stable.tree = NoTree /\ stable.own \subseteq {"other product"}
      /\ stable.marker \in {"none", "no directory"} /\ (stable.marker = "no directory" => stable = NoDirectory)
    BY ZenonT(40), <1>1, DirectoryFields DEF Directories, OwnNames
<1>3. legacy = NoTree \/ (legacy \in [DataFiles -> Nat] /\ \A f \in DataFiles : legacy[f] # Torn)
    BY FirstLegacy
<1>6. ProductType
    BY <1>2, <1>3, DirectoryFields DEF ProductType, StartSteps
<1>4. StableTrue BY <1>2 DEF StableTrue
<1>5. StartTrue /\ WorkFlushed /\ RefusedWithCause BY DEF StartTrue, WorkFlushed, RefusedWithCause
<1> QED BY <1>4, <1>5, <1>6 DEF ProductInv

\* A start inspects both directories.
LEMMA InspectKeeps ==
    ASSUME ProductInv, Inspect
    PROVE  ProductInv'
<1> USE DEF Inspect, ghosts, Unprepared
<1>1. /\ legacy' = legacy /\ stable' = stable /\ staging' = staging /\ unflushed' = unflushed
      /\ legacyWrites' = legacyWrites /\ copiedFrom' = copiedFrom /\ moved' = moved /\ straddled' = straddled /\ cut' = cut /\ worked' = worked
      /\ start = "off"
    OBVIOUS
<1>8. dataFaults' \in Nat
    BY DEF ProductInv, ProductType, DataFault, NoDataFault
<1>9. unprepared' = unprepared \/ unprepared' = TRUE
    OBVIOUS
<1>2. \/ start' = Verdict /\ Verdict \in {"serve", "stage"} /\ refusal' = refusal
      \/ start' = "refused" /\ refusal' = Verdict /\ Verdict \notin {"serve", "stage"} /\ unprepared'
      \/ start' = "refused" /\ refusal' = "PRODUCT_DATA_READ_FAILED" /\ unprepared'
    BY DEF Proceeds, Refuses
<1>3. /\ Verdict = "serve" => legacy = NoTree \/ stable.marker = "valid"
      /\ Verdict = "stage" => legacy # NoTree /\ stable \in {NoDirectory, EmptyDirectory}
      /\ Verdict = "PRODUCT_DATA_MARKER_INVALID" => stable.marker = "torn"
      /\ Verdict = "PRODUCT_DATA_IDENTITY_CONFLICT" =>
            legacy # NoTree /\ stable \notin {NoDirectory, EmptyDirectory} /\ stable.marker \notin {"valid", "torn"}
      /\ Verdict \in {"serve", "stage", "PRODUCT_DATA_MARKER_INVALID", "PRODUCT_DATA_IDENTITY_CONFLICT"}
    BY DEF Verdict
<1>4. ProductType'
    BY <1>1, <1>2, <1>3, <1>8, <1>9 DEF ProductInv, ProductType, StartSteps
<1>5. StableTrue' /\ WorkFlushed'
    BY <1>1, <1>9 DEF ProductInv, StableTrue, WorkFlushed, Mine, Whole
<1>6. StartTrue'
    BY <1>1, <1>2, <1>3 DEF StartTrue
<1>7. RefusedWithCause'
    <2>1. CASE refusal' = "PRODUCT_DATA_MARKER_INVALID"
        BY <1>1, <1>2, <1>3, <2>1 DEF ProductInv, ProductType, StableTrue, RefusedWithCause
    <2>2. CASE refusal' = "PRODUCT_DATA_IDENTITY_CONFLICT"
        <3>1. legacy # NoTree /\ stable \notin {NoDirectory, EmptyDirectory} /\ stable.marker \notin {"valid", "torn"}
            BY <1>1, <1>2, <1>3, <2>2 DEF ProductInv, ProductType
        <3>2. stable.marker = "none" /\ stable.tree = NoTree /\ stable \in Directories
            BY <3>1 DEF ProductInv, ProductType, StableTrue, Directories
        <3>3. stable.own # {}
            BY <3>1, <3>2, DirectoryFields, DirectoryEqual
        <3>4. unprepared'
            BY <1>1, <1>2, <2>2 DEF ProductInv, ProductType
        <3> QED BY <1>1, <2>2, <3>3, <3>4 DEF RefusedWithCause
    <2> QED BY <2>1, <2>2 DEF RefusedWithCause
<1> QED BY <1>4, <1>5, <1>6, <1>7 DEF ProductInv

\* A start that fails leaves the stable directory, or removed an empty one.
LEMMA FailsKeeps ==
    ASSUME ProductInv, start \in {"stage", "copy", "publish"},
           start' = "refused", refusal' \in {"PRODUCT_DATA_STAGING_FAILED", "PRODUCT_DATA_VERIFY_FAILED"}, unprepared' = TRUE,
           dataFaults' \in Nat, stable' \in {stable, NoDirectory}, staging' \in {staging, NoDirectory},
           legacy' = legacy, unflushed' = unflushed, legacyWrites' = legacyWrites,
           copiedFrom' = copiedFrom, moved' = moved, straddled' = straddled, cut' = cut, worked' = worked
    PROVE  ProductInv'
<1>1. stable \in {NoDirectory, EmptyDirectory}
    BY DEF ProductInv, StartTrue
<1>2. stable.tree = NoTree /\ stable.own = {} /\ stable'.tree = NoTree /\ stable'.own = {}
      /\ stable'.marker \in {"none", "no directory"} /\ (stable'.marker = "no directory" => stable' = NoDirectory)
    BY <1>1, DirectoryFields
<1>3. ~worked
    BY <1>2, DirectoryFields DEF ProductInv, WorkFlushed
<1>4. ProductType'
    BY DirectoryFields DEF ProductInv, ProductType, StartSteps
<1>5. StableTrue' /\ StartTrue' /\ WorkFlushed' /\ RefusedWithCause'
    BY <1>2, <1>3 DEF StableTrue, StartTrue, WorkFlushed, RefusedWithCause
<1> QED BY <1>4, <1>5 DEF ProductInv

\* The staging directory is created.
LEMMA BeginStagingKeeps ==
    ASSUME ProductInv, BeginStaging
    PROVE  ProductInv'
<1> USE DEF BeginStaging
<1>1. CASE FailsEarly /\ stable' \in {stable, NoDirectory} /\ staging' \in {staging, NoDirectory}
    <2>1. dataFaults' \in Nat BY <1>1 DEF FailsEarly, DataFault, ProductInv, ProductType
    <2> QED BY <1>1, <2>1, FailsKeeps DEF FailsEarly, Refuses, Unprepared
<1>2. CASE ~(FailsEarly /\ stable' \in {stable, NoDirectory} /\ staging' \in {staging, NoDirectory})
    <2>1. /\ start = "stage" /\ legacy' = legacy /\ unflushed' = unflushed /\ legacyWrites' = legacyWrites
          /\ dataFaults' = dataFaults /\ start' = "copy" /\ refusal' = refusal /\ todo' = DOMAIN legacy
          /\ stable' = NoDirectory /\ staging' = EmptyDirectory /\ copiedFrom' = legacy /\ moved' = FALSE
          /\ straddled' = FALSE /\ copying' = {} /\ unprepared' = unprepared /\ cut' = cut /\ worked' = worked
        BY <1>2 DEF NoDataFault, Proceeds
    <2>2. legacy # NoTree /\ legacy \in [DataFiles -> Nat] /\ ~worked
        <3>1. stable.tree = NoTree BY <2>1, DirectoryFields DEF ProductInv, StartTrue
        <3> QED BY <2>1, <3>1, DirectoryFields DEF ProductInv, StartTrue, ProductType, WorkFlushed
    <2>3. ProductType'
        BY <2>1, DirectoryFields DEF ProductInv, ProductType, StartSteps
    <2>4. StableTrue' /\ WorkFlushed' /\ RefusedWithCause'
        BY <2>1, <2>2, DirectoryFields DEF ProductInv, ProductType, StableTrue, WorkFlushed, RefusedWithCause
    <2>5. StartTrue'
        BY <2>1, <2>2, DirectoryFields DEF StartTrue
    <2> QED BY <2>3, <2>4, <2>5 DEF ProductInv
<1> QED BY <1>1, <1>2

\* The copy of one file begins.
LEMMA BeginCopyKeeps ==
    ASSUME ProductInv, NEW f \in DataFiles, BeginCopy(f)
    PROVE  ProductInv'
<1> USE DEF BeginCopy
<1>1. CASE FailsStaged
    <2>1. dataFaults' \in Nat BY <1>1 DEF FailsStaged, DataFault, ProductInv, ProductType
    <2> QED BY <1>1, <2>1, FailsKeeps DEF FailsStaged, StopsStaged, Refuses, Unprepared
<1>2. CASE ~FailsStaged
    <2>1. /\ start = "copy" /\ f \in todo /\ legacy' = legacy /\ legacyWrites' = legacyWrites
          /\ dataFaults' = dataFaults /\ todo' = todo /\ copying' = {f} /\ contents' = {legacy[f]}
          /\ stable' = stable /\ staging' = staging /\ start' = start /\ refusal' = refusal /\ unflushed' = unflushed
          /\ copiedFrom' = copiedFrom /\ moved' = moved /\ straddled' = straddled /\ unprepared' = unprepared
          /\ cut' = cut /\ worked' = worked
        BY <1>2 DEF NoDataFault, ghosts
    <2>2. ProductType'
        BY <2>1 DEF ProductInv, ProductType
    <2>3. StableTrue' /\ WorkFlushed' /\ RefusedWithCause'
        BY <2>1 DEF ProductInv, StableTrue, WorkFlushed, RefusedWithCause, Mine, Whole
    <2>4. ContentsTrue(f)'
        <3>1. legacy # NoTree /\ legacy \in [DataFiles -> Nat] /\ legacy[f] # Torn /\ (~moved => legacy = copiedFrom)
            BY <2>1 DEF ProductInv, StartTrue, ProductType
        <3> QED BY <2>1, <3>1 DEF ContentsTrue
    <2>5. StartTrue'
        BY <2>1, <2>4 DEF ProductInv, StartTrue
    <2> QED BY <2>2, <2>3, <2>5 DEF ProductInv
<1> QED BY <1>1, <1>2

\* What is copied is something the file held, unless a write fell into its copy.
LEMMA CopiesAre ==
    ASSUME ProductInv, start = "copy", NEW f \in copying, NEW c \in Copies(f)
    PROVE  c \in Nat /\ (~straddled => c # Torn) /\ (~moved => c = copiedFrom[f])
<1>1. ContentsTrue(f) /\ (~moved => legacy = copiedFrom)
    BY DEF ProductInv, StartTrue
<1>2. CASE contents = {legacy[f]} BY <1>1, <1>2 DEF ContentsTrue, Copies
<1>3. CASE contents # {legacy[f]} BY <1>1, <1>3 DEF ContentsTrue, Copies, Torn
<1> QED BY <1>2, <1>3

\* One file is copied.
LEMMA CopyFileKeeps ==
    ASSUME ProductInv, NEW f \in DataFiles, CopyFile(f)
    PROVE  ProductInv'
<1> USE DEF CopyFile
<1>1. CASE FailsStaged
    <2>1. dataFaults' \in Nat BY <1>1 DEF FailsStaged, DataFault, ProductInv, ProductType
    <2> QED BY <1>1, <2>1, FailsKeeps DEF FailsStaged, StopsStaged, Refuses, Unprepared
<1>3. CASE NoDataFault /\ StopsStaged("PRODUCT_DATA_VERIFY_FAILED")
    <2>1. dataFaults' \in Nat BY <1>3 DEF NoDataFault, ProductInv, ProductType
    <2> QED BY <1>3, <2>1, FailsKeeps DEF StopsStaged, Refuses, Unprepared
<1>2. CASE ~FailsStaged /\ ~(NoDataFault /\ StopsStaged("PRODUCT_DATA_VERIFY_FAILED"))
    <2>0. PICK copy \in Copies(f) :
             staging' = [staging EXCEPT !.tree = [g \in DOMAIN @ \cup {f} |-> IF g = f THEN copy ELSE @[g]]]
        BY <1>2
    <2> DEFINE r == [g \in DOMAIN staging.tree \cup {f} |-> IF g = f THEN copy ELSE staging.tree[g]]
    <2>1. /\ start = "copy" /\ f \in copying /\ legacy' = legacy /\ legacyWrites' = legacyWrites
          /\ dataFaults' = dataFaults /\ todo' = todo \ {f} /\ copying' = {}
          /\ stable' = stable /\ start' = start /\ refusal' = refusal /\ unflushed' = unflushed
          /\ copiedFrom' = copiedFrom /\ moved' = moved /\ straddled' = straddled /\ unprepared' = unprepared
          /\ cut' = cut /\ worked' = worked
        BY <1>2 DEF NoDataFault, ghosts
    <2>2. /\ legacy # NoTree /\ staging \in Directories /\ staging.tree \in DataTrees /\ f \in todo
          /\ copy \in Nat /\ (~straddled => copy # Torn) /\ (~moved => copy = copiedFrom[f])
        <3>1. legacy # NoTree /\ staging \in Directories /\ staging.tree \in DataTrees /\ f \in todo
            BY <2>1 DEF ProductInv, StartTrue, ProductType, Directories
        <3> QED BY <2>1, <3>1, CopiesAre
    <2>3. staging' = [staging EXCEPT !.tree = r]
        BY <2>0
    <2>4. /\ r \in DataTrees /\ DOMAIN r = DOMAIN staging.tree \cup {f} /\ r[f] = copy
          /\ \A g \in DOMAIN staging.tree \ {f} : r[g] = staging.tree[g]
        <3>1. /\ DOMAIN r = DOMAIN staging.tree \cup {f} /\ r[f] = copy /\ r = [g \in DOMAIN r |-> r[g]]
              /\ \A g \in DOMAIN staging.tree \ {f} : r[g] = staging.tree[g]
            OBVIOUS
        <3> HIDE DEF r
        <3> QED BY <2>2, <3>1, TreeWith
    <2> HIDE DEF r
    <2>5. staging' \in Directories /\ staging'.tree = r /\ staging'.marker = staging.marker /\ staging'.own = staging.own
        BY <2>2, <2>3, <2>4 DEF Directories
    <2>6. ProductType'
        BY <2>1, <2>5 DEF ProductInv, ProductType
    <2>7. StableTrue' /\ WorkFlushed' /\ RefusedWithCause'
        BY <2>1 DEF ProductInv, StableTrue, WorkFlushed, RefusedWithCause, Mine, Whole
    <2>8. StartTrue'
        <3> USE <2>1 DEF ProductInv, StartTrue
        <3>1. DOMAIN r = DataFiles \ todo'
            BY <2>2, <2>4
        <3>2. \A g \in DataFiles \ todo' : (~straddled => r[g] # Torn) /\ (~moved => r[g] = copiedFrom[g])
            BY <2>2, <2>4
        <3> QED BY <2>2, <2>5, <3>1, <3>2
    <2> QED BY <2>6, <2>7, <2>8 DEF ProductInv
<1> QED BY <1>1, <1>2, <1>3

\* The marker is written.
LEMMA WriteMarkerKeeps ==
    ASSUME ProductInv, WriteMarker
    PROVE  ProductInv'
<1> USE DEF WriteMarker
<1>1. CASE FailsStaged
    <2>1. dataFaults' \in Nat BY <1>1 DEF FailsStaged, DataFault, ProductInv, ProductType
    <2> QED BY <1>1, <2>1, FailsKeeps DEF FailsStaged, StopsStaged, Refuses, Unprepared
<1>2. CASE ~FailsStaged
    <2>1. /\ start = "copy" /\ todo = {} /\ legacy' = legacy /\ legacyWrites' = legacyWrites
          /\ dataFaults' = dataFaults /\ todo' = todo /\ copying' = copying /\ contents' = contents
          /\ staging' = [staging EXCEPT !.marker = "valid"]
          /\ stable' = stable /\ start' = "publish" /\ refusal' = refusal /\ unflushed' = unflushed
          /\ copiedFrom' = copiedFrom /\ moved' = moved /\ straddled' = straddled /\ unprepared' = unprepared /\ cut' = cut /\ worked' = worked
        BY <1>2 DEF NoDataFault, Proceeds, ghosts, copyVars
    <2>2. staging \in Directories BY DEF ProductInv, ProductType
    <2>3. staging' \in Directories /\ staging'.tree = staging.tree /\ staging'.marker = "valid" /\ staging'.own = staging.own
        BY <2>1, <2>2 DEF Directories
    <2>4. ProductType'
        BY <2>1, <2>3 DEF ProductInv, ProductType, StartSteps
    <2>5. StableTrue' /\ WorkFlushed' /\ RefusedWithCause'
        BY <2>1 DEF ProductInv, StableTrue, WorkFlushed, RefusedWithCause, Mine, Whole
    <2>6. StartTrue'
        BY <2>1, <2>3 DEF ProductInv, StartTrue
    <2> QED BY <2>4, <2>5, <2>6 DEF ProductInv
<1> QED BY <1>1, <1>2

\* The copy becomes the stable directory.
LEMMA PublishCopyKeeps ==
    ASSUME ProductInv, PublishCopy
    PROVE  ProductInv'
<1> USE DEF PublishCopy
<1>1. CASE FailsStaged
    <2>1. dataFaults' \in Nat BY <1>1 DEF FailsStaged, DataFault, ProductInv, ProductType
    <2> QED BY <1>1, <2>1, FailsKeeps DEF FailsStaged, StopsStaged, Refuses, Unprepared
<1>2. CASE ~FailsStaged
    <2>1. /\ start = "publish" /\ legacy' = legacy /\ legacyWrites' = legacyWrites
          /\ dataFaults' = dataFaults /\ staging' = NoDirectory /\ stable' = staging /\ start' = "serve" /\ refusal' = refusal
          /\ copiedFrom' = copiedFrom /\ moved' = moved /\ straddled' = straddled /\ unprepared' = unprepared /\ cut' = cut /\ worked' = worked
        BY <1>2 DEF NoDataFault, Proceeds, ghosts, copyVars
    <2>2. /\ staging.marker = "valid" /\ DOMAIN staging.tree = DataFiles
          /\ ~straddled => \A f \in DataFiles : staging.tree[f] # Torn
          /\ copiedFrom \in [DataFiles -> Nat] /\ stable = NoDirectory
          /\ ~moved => \A f \in DataFiles : staging.tree[f] = copiedFrom[f]
          /\ staging \in Directories /\ staging.tree \in DataTrees
        BY <2>1 DEF ProductInv, StartTrue, ProductType, Directories
    <2>3. ~moved => staging.tree = copiedFrom
        BY <2>2, TreeEqual
    <2>4. ~worked
        BY <2>2, DirectoryFields DEF ProductInv, WorkFlushed
    <2>5. ProductType'
        BY <2>1, DirectoryFields DEF ProductInv, ProductType, StartSteps
    <2>6. StableTrue' /\ WorkFlushed' /\ StartTrue'
        BY <2>1, <2>2, <2>3, <2>4 DEF StableTrue, WorkFlushed, StartTrue, Whole
    <2>7. RefusedWithCause'
        BY <2>1 DEF ProductInv, ProductType, RefusedWithCause
    <2> QED BY <2>5, <2>6, <2>7 DEF ProductInv
<1> QED BY <1>1, <1>2

\* The daemon writes one of its files.
LEMMA ProductWorkKeeps ==
    ASSUME ProductInv, NEW f \in DataFiles, Work(f)
    PROVE  ProductInv'
<1> DEFINE r == [g \in DOMAIN stable.tree \cup {f} |-> IF g = f THEN Mine ELSE stable.tree[g]]
           m == IF Exists(stable) THEN stable.marker ELSE "none"
<1>1. /\ start = "serve" /\ stable' = [stable EXCEPT !.tree = r, !.marker = m]
      /\ unflushed' = unflushed \ {f} /\ worked' = TRUE /\ legacy' = legacy /\ staging' = staging /\ start' = start
      /\ refusal' = refusal /\ legacyWrites' = legacyWrites /\ dataFaults' = dataFaults
      /\ copiedFrom' = copiedFrom /\ moved' = moved /\ straddled' = straddled /\ unprepared' = unprepared /\ cut' = cut
    BY DEF Work
<1>2. stable \in Directories /\ stable.tree \in DataTrees /\ stable.marker \in {"no directory", "none", "valid", "torn"}
    BY DEF ProductInv, ProductType, Directories
<1>3. Mine \in Nat /\ Mine # Torn
    BY ProductDataBounds DEF Mine, Torn
<1>4. /\ r \in DataTrees /\ DOMAIN r = DOMAIN stable.tree \cup {f} /\ r[f] = Mine
      /\ \A g \in DOMAIN stable.tree \ {f} : r[g] = stable.tree[g]
    <2>1. /\ DOMAIN r = DOMAIN stable.tree \cup {f} /\ r[f] = Mine /\ r = [g \in DOMAIN r |-> r[g]]
          /\ \A g \in DOMAIN stable.tree \ {f} : r[g] = stable.tree[g]
        OBVIOUS
    <2> HIDE DEF r
    <2> QED BY <1>2, <1>3, <2>1, TreeWith
<1>5. m \in {"none", "valid", "torn"} /\ (m = "valid" <=> stable.marker = "valid") /\ (m = "torn" => stable.marker = "torn")
    <2>1. stable.marker = "no directory" => stable = NoDirectory BY DEF ProductInv, StableTrue
    <2> QED BY <1>2, <2>1, DirectoryFields DEF Exists
<1> HIDE DEF r, m
<1>6. stable' \in Directories /\ stable'.tree = r /\ stable'.marker = m /\ stable'.own = stable.own
    BY <1>1, <1>2, <1>4, <1>5 DEF Directories
<1>7. ProductType'
    BY <1>1, <1>6 DEF ProductInv, ProductType
<1>8. StableTrue'
    <2>1. legacy # NoTree => m = "valid"
        BY <1>1, <1>5 DEF ProductInv, StartTrue
    <2>2. Whole(stable.tree) => Whole(r)
        BY <1>3, <1>4 DEF Whole
    <2> QED BY <1>1, <1>5, <1>6, <2>1, <2>2 DEF ProductInv, StableTrue
<1>9. StartTrue'
    BY <1>1, <1>5, <1>6 DEF ProductInv, StartTrue
<1>10. WorkFlushed'
    BY <1>1, <1>4, <1>6 DEF WorkFlushed, Mine
<1>11. RefusedWithCause'
    BY <1>1 DEF ProductInv, ProductType, RefusedWithCause
<1> QED BY <1>7, <1>8, <1>9, <1>10, <1>11 DEF ProductInv

\* The Desktop puts a file of its own there.
LEMMA KeepOwnKeeps ==
    ASSUME ProductInv, NEW n \in {"updates", "preferences"}, KeepOwn(n)
    PROVE  ProductInv'
<1> DEFINE m == IF Exists(stable) THEN stable.marker ELSE "none"
           o == stable.own \cup {n}
<1>1. /\ start \in {"serve", "refused"} /\ stable' = [stable EXCEPT !.own = o, !.marker = m]
      /\ unflushed' = unflushed /\ worked' = worked /\ legacy' = legacy /\ staging' = staging /\ start' = start
      /\ refusal' = refusal /\ legacyWrites' = legacyWrites /\ dataFaults' = dataFaults
      /\ copiedFrom' = copiedFrom /\ moved' = moved /\ straddled' = straddled /\ unprepared' = unprepared /\ cut' = cut
    BY DEF KeepOwn, ghosts, copyVars
<1>2. /\ stable \in Directories /\ stable.marker \in {"no directory", "none", "valid", "torn"}
      /\ stable.own \in SUBSET OwnNames
    BY DEF ProductInv, ProductType, Directories
<1>3. /\ m \in {"none", "valid", "torn"} /\ (m = "valid" <=> stable.marker = "valid") /\ (m = "torn" => stable.marker = "torn")
      /\ m = "none" => stable.marker \in {"none", "no directory"}
    <2>1. stable.marker = "no directory" => stable = NoDirectory BY DEF ProductInv, StableTrue
    <2> QED BY <1>2, <2>1, DirectoryFields DEF Exists
<1>4. o \in SUBSET OwnNames /\ o # {} /\ stable.own \subseteq o
    BY <1>2 DEF OwnNames
<1> HIDE DEF m, o
<1>5. stable' \in Directories /\ stable'.tree = stable.tree /\ stable'.marker = m /\ stable'.own = o
    BY <1>1, <1>2, <1>3, <1>4 DEF Directories
<1>6. ProductType'
    BY <1>1, <1>5 DEF ProductInv, ProductType
<1>7. StableTrue'
    <2>1. legacy # NoTree /\ m = "none" => unprepared
        BY <1>1, <1>3 DEF ProductInv, StartTrue
    <2> QED BY <1>1, <1>3, <1>5, <2>1 DEF ProductInv, StableTrue, Whole
<1>8. StartTrue'
    BY <1>1, <1>3, <1>5 DEF ProductInv, StartTrue
<1>9. WorkFlushed'
    BY <1>1, <1>5 DEF ProductInv, WorkFlushed, Mine
<1>10. RefusedWithCause'
    BY <1>1, <1>4, <1>5 DEF ProductInv, RefusedWithCause
<1> QED BY <1>6, <1>7, <1>8, <1>9, <1>10 DEF ProductInv

\* The application of the old name writes one of its files.
LEMMA LegacyWriteKeeps ==
    ASSUME ProductInv, NEW f \in DataFiles, LegacyWrite(f)
    PROVE  ProductInv'
<1>1. /\ legacy # NoTree /\ legacyWrites' = legacyWrites + 1 /\ legacy' = [legacy EXCEPT ![f] = legacyWrites + 2]
      /\ moved' = (moved \/ start = "copy") /\ straddled' = (straddled \/ f \in copying) /\ copying' = copying
      /\ contents' = IF f \in copying THEN contents \cup {legacy'[f]} ELSE contents
      /\ stable' = stable /\ staging' = staging /\ start' = start /\ refusal' = refusal /\ todo' = todo
      /\ unflushed' = unflushed /\ dataFaults' = dataFaults /\ copiedFrom' = copiedFrom
      /\ unprepared' = unprepared /\ cut' = cut /\ worked' = worked
    BY DEF LegacyWrite
<1>2. legacy \in [DataFiles -> Nat] /\ legacyWrites \in Nat /\ \A g \in DataFiles : legacy[g] # Torn
    BY <1>1 DEF ProductInv, ProductType
<1>3. legacy' \in [DataFiles -> Nat] /\ \A g \in DataFiles : legacy'[g] # Torn
    BY <1>1, <1>2 DEF Torn
<1>4. legacy' # NoTree
    <2>1. DOMAIN legacy' = DataFiles /\ DOMAIN legacy = DataFiles BY <1>2, <1>3
    <2> QED BY <2>1, DirectoryFields
<1>5. ProductType'
    BY <1>1, <1>2, <1>3 DEF ProductInv, ProductType
<1>6. StableTrue' /\ WorkFlushed' /\ RefusedWithCause'
    BY <1>1 DEF ProductInv, ProductType, StableTrue, WorkFlushed, RefusedWithCause, Mine, Whole
<1>7. StartTrue'
    <2>1. ASSUME start = "copy", NEW g \in copying PROVE ContentsTrue(g)'
        <3>1. ContentsTrue(g) /\ moved'
            BY <1>1, <2>1 DEF ProductInv, StartTrue
        <3>2. CASE f \in copying BY <1>1, <1>3, <3>1, <3>2 DEF ContentsTrue
        <3>3. CASE f \notin copying
            <4>1. legacy'[g] = legacy[g] BY <1>1, <1>2, <2>1, <3>3
            <4> QED BY <1>1, <3>1, <3>3, <4>1 DEF ContentsTrue
        <3> QED BY <3>2, <3>3
    <2> QED BY <1>1, <1>4, <2>1 DEF ProductInv, StartTrue
<1> QED BY <1>5, <1>6, <1>7 DEF ProductInv

\* The disk is flushed.
LEMMA FlushKeeps ==
    ASSUME ProductInv, Flush
    PROVE  ProductInv'
<1> USE DEF Flush, ghosts, copyVars
<1>1. ProductType' BY DEF ProductInv, ProductType
<1>2. StableTrue' /\ RefusedWithCause' BY DEF ProductInv, StableTrue, RefusedWithCause, Whole
<1>3. StartTrue' BY DEF ProductInv, StartTrue, ContentsTrue
<1>4. WorkFlushed' BY DEF ProductInv, WorkFlushed
<1> QED BY <1>1, <1>2, <1>3, <1>4 DEF ProductInv

\* The Desktop ends.
LEMMA LeavesKeeps ==
    ASSUME ProductInv, Leaves
    PROVE  ProductInv'
<1> USE DEF Leaves, ghosts, copyVars
<1>0. dataFaults' \in Nat BY DEF ProductInv, ProductType, DataFault, NoDataFault
<1>1. ProductType' BY <1>0 DEF ProductInv, ProductType, StartSteps
<1>2. StableTrue' /\ RefusedWithCause' BY DEF ProductInv, StableTrue, RefusedWithCause, Whole
<1>3. StartTrue' /\ WorkFlushed' BY DEF ProductInv, StartTrue, WorkFlushed, Mine
<1> QED BY <1>1, <1>2, <1>3 DEF ProductInv

\* The power is cut.
LEMMA CutPowerKeeps ==
    ASSUME ProductInv, NEW lost \in SUBSET unflushed, CutPower(lost)
    PROVE  ProductInv'
<1> DEFINE r == [f \in DOMAIN stable.tree |-> IF f \in lost THEN Torn ELSE stable.tree[f]]
           m == IF "marker" \in lost THEN "torn" ELSE stable.marker
<1>1. /\ stable' = [stable EXCEPT !.tree = r, !.marker = m] /\ dataFaults' = dataFaults + 1
      /\ unflushed' = {} /\ cut' = TRUE /\ start' = "off" /\ refusal' = "none"
      /\ legacy' = legacy /\ staging' = staging /\ legacyWrites' = legacyWrites
      /\ copiedFrom' = copiedFrom /\ moved' = moved /\ straddled' = straddled /\ unprepared' = unprepared /\ worked' = worked
    BY DEF CutPower, DataFault
<1>2. stable \in Directories /\ stable.tree \in DataTrees /\ stable.marker \in {"no directory", "none", "valid", "torn"}
    BY DEF ProductInv, ProductType, Directories
<1>3. r \in DataTrees /\ DOMAIN r = DOMAIN stable.tree /\ \A f \in DOMAIN stable.tree \ lost : r[f] = stable.tree[f]
    <2>1. PICK D \in SUBSET DataFiles : stable.tree \in [D -> Nat] BY <1>2 DEF DataTrees
    <2>2. r \in [D -> Nat] BY <2>1 DEF Torn
    <2> QED BY <2>1, <2>2 DEF DataTrees
<1>4. m \in {"no directory", "none", "valid", "torn"} /\ (m # "torn" => m = stable.marker)
    BY <1>2
<1>5. stable.tree = NoTree => r = NoTree
    BY DEF NoTree
<1> HIDE DEF r, m
<1>6. stable' \in Directories /\ stable'.tree = r /\ stable'.marker = m /\ stable'.own = stable.own
    BY <1>1, <1>2, <1>3, <1>4 DEF Directories
<1>7. ProductType'
    BY <1>1, <1>6 DEF ProductInv, ProductType, StartSteps
<1>8. StableTrue'
    <2>1. m = "no directory" => stable' = NoDirectory
        <3>1. m = "no directory" => stable = NoDirectory BY <1>4 DEF ProductInv, StableTrue
        <3>2. m = "no directory" => r = NoTree BY <1>5, <3>1, DirectoryFields
        <3> QED BY <1>6, <3>1, <3>2, DirectoryFields, DirectoryEqual
    <2> QED BY <1>1, <1>4, <1>5, <1>6, <2>1 DEF ProductInv, StableTrue
<1>9. StartTrue' /\ RefusedWithCause'
    BY <1>1 DEF StartTrue, RefusedWithCause
<1>10. WorkFlushed'
    BY <1>1, <1>3, <1>6 DEF ProductInv, WorkFlushed, Mine
<1> QED BY <1>7, <1>8, <1>9, <1>10 DEF ProductInv

\* Every step keeps the inductive invariant.
LEMMA ProductInvStep == ProductInv /\ [ProductDataNext]_productVars => ProductInv'
<1> SUFFICES ASSUME ProductInv, [ProductDataNext]_productVars PROVE ProductInv' OBVIOUS
<1>1. CASE UNCHANGED productVars
    <2> USE <1>1 DEF productVars, copyVars, ghosts
    <2>1. ProductType' /\ StableTrue' BY DEF ProductInv, ProductType, StableTrue, Whole
    <2>2. StartTrue' /\ WorkFlushed' /\ RefusedWithCause'
        BY DEF ProductInv, StartTrue, ContentsTrue, WorkFlushed, Mine, RefusedWithCause
    <2> QED BY <2>1, <2>2 DEF ProductInv
<1>2. CASE Inspect BY <1>2, InspectKeeps
<1>3. CASE BeginStaging BY <1>3, BeginStagingKeeps
<1>4. CASE WriteMarker BY <1>4, WriteMarkerKeeps
<1>5. CASE PublishCopy BY <1>5, PublishCopyKeeps
<1>6. CASE Flush BY <1>6, FlushKeeps
<1>7. CASE Leaves BY <1>7, LeavesKeeps
<1>8. ASSUME NEW f \in DataFiles, BeginCopy(f) \/ CopyFile(f) \/ Work(f) \/ LegacyWrite(f) PROVE ProductInv'
    BY <1>8, BeginCopyKeeps, CopyFileKeeps, ProductWorkKeeps, LegacyWriteKeeps
<1>9. ASSUME NEW n \in {"updates", "preferences"}, KeepOwn(n) PROVE ProductInv'
    BY <1>9, KeepOwnKeeps
<1>10. ASSUME NEW lost \in SUBSET unflushed, CutPower(lost) PROVE ProductInv'
    BY <1>10, CutPowerKeeps
<1> QED BY <1>1, <1>2, <1>3, <1>4, <1>5, <1>6, <1>7, <1>8, <1>9, <1>10 DEF ProductDataNext

\* The inductive invariant implies the property.
LEMMA ProductInvImplies == ProductInv => ProductDataKept
BY DEF ProductInv, ProductDataKept, ServesTheCopy, WorkIsKept, StableTrue, StartTrue, WorkFlushed

\* The data of the product outlives the change of its name: the daemon serves a
\* whole copy, its own work is never replaced, and a refusal has its cause.
\* (migrate_legacy_directory, has_valid_marker)
THEOREM ProductDataIsKept == ProductDataSpec => []ProductDataKept
<1>1. ProductInv /\ [ProductDataNext]_productVars => ProductInv' BY ProductInvStep
<1> QED BY <1>1, ProductInitially, ProductInvImplies, PTL DEF ProductDataSpec

(***************************************************************************)
(* The Weixin channel of an instance.                                      *)
(***************************************************************************)
ConnectPcs == {"show", "poll", "write", "file", "undo"}
ErasePcs == {"erase", "eraseFile"}
WorkPcs == ConnectPcs \cup ErasePcs \cup {"bind", "finish"}
ChannelStatuses == {"none", "PENDING", "RUNNING", "SUCCEEDED", "FAILED", "CANCELLED"}
SomeAccount == {NoAccount} \cup Accounts
ChannelRows == [type : {"none", "connect", "disconnect"}, status : ChannelStatuses,
                pc : {"none", "created", "lock"} \cup WorkPcs, account : SomeAccount]
Bindings == [state : {"NONE", "NOT_CONFIGURED", "UNKNOWN", "CONNECTED"}, account : SomeAccount]
Listings == [pc : {"none", "row", "write"}, state : {"none", "NOT_CONFIGURED", "UNKNOWN", "CONNECTED"},
             account : SomeAccount, old : BOOLEAN]
ChannelGhosts == [demoted : BOOLEAN, doubtful : BOOLEAN, forgotten : SUBSET Accounts,
                  unsettled : SUBSET ChannelOps, uncancelled : SUBSET ChannelOps]

ChannelsType ==
    /\ credentials \in [account : SomeAccount, token : Nat] /\ accountFile \in [Accounts -> Nat]
    /\ binding \in Bindings /\ chanOps \in [ChannelOps -> ChannelRows]
    /\ chanLock \in {0} \cup ChannelOps /\ qrShown \subseteq ChannelOps
    /\ withdrawn \subseteq ChannelOps /\ cancelling \subseteq ChannelOps
    /\ listing \in Listings
    /\ channelGhost \in ChannelGhosts

\* Operations begin one after the other, and only the newest can be active.
Latest(i) == i \in Started /\ \A j \in Started : j <= i
OpsInOrder == \E n \in 0..MaxChannelOps : Started = 1..n
OneActiveOp == \A i \in ChannelOps : Active(i) => Latest(i)

\* Who works holds the lock, its row is active, and it knows its account.
WorkersTrue ==
    \A i \in ChannelOps :
        /\ chanOps[i].pc # "none" => i \in Started /\ chanOps[i].type # "none"
        /\ chanOps[i].pc \in WorkPcs => chanLock = i /\ Active(i)
        /\ chanOps[i].pc \in ConnectPcs => chanOps[i].type = "connect"
        /\ chanOps[i].pc \in ErasePcs => chanOps[i].type = "disconnect"
        /\ chanOps[i].pc \in {"write", "file", "undo", "eraseFile"} => chanOps[i].account \in Accounts

\* The assignments of .env are those of a connect.
CredentialsTrue ==
    /\ credentials.account = NoAccount <=> credentials.token = 0
    /\ \A i \in ChannelOps : credentials.token = i =>
          /\ i \in Started
          /\ Active(i) => \/ chanOps[i].pc \in {"file", "undo", "bind", "finish"}
                          \/ i \in channelGhost.uncancelled \cup channelGhost.unsettled

\* What a connect has written.
ConnectWrote ==
    \A i \in ChannelOps : chanOps[i].type = "connect" =>
        /\ chanOps[i].pc \in {"file", "undo", "bind"} => credentials = [account |-> chanOps[i].account, token |-> i]
        /\ chanOps[i].pc = "bind" => chanOps[i].account \in Accounts /\ accountFile[chanOps[i].account] = i

ConnectedHolds == binding.state = "CONNECTED" => credentials.account = binding.account \/ channelGhost.doubtful

\* The files and the row agree.
FilesHeld ==
    /\ credentials.account \in Accounts /\ accountFile[credentials.account] = credentials.token
    /\ binding = Bound("CONNECTED", credentials.account)
Succeeds(i) == chanOps[i].type = "connect" /\ (chanOps[i].pc = "finish" \/ chanOps[i].status = "SUCCEEDED")
SuccessHeld == \A i \in ChannelOps : Latest(i) /\ Succeeds(i) /\ ~channelGhost.demoted => FilesHeld

\* A listing that is not old has read what is there.
ListingFresh ==
    /\ listing.pc # "none" => listing.state # "none"
    /\ ~listing.old /\ listing.pc = "row" => Bound(listing.state, listing.account) = ObservedStatus
    /\ ~listing.old /\ listing.pc = "write" => Bound(listing.state, listing.account) = Promoted(ObservedStatus)

FilesNamed ==
    \A a \in Accounts : accountFile[a] # 0 =>
        \/ credentials.account = a \/ a \in channelGhost.forgotten
        \/ \E i \in ChannelOps : chanOps[i].pc = "eraseFile" /\ chanOps[i].account = a

\* A cancelled context belongs to a cancel that has yet to write the row.
WithdrawnTrue ==
    \A i \in withdrawn : i \in Started /\ (Active(i) => i \in cancelling \cup channelGhost.unsettled)

ChannelsInv ==
    /\ ChannelsType /\ OpsInOrder /\ OneActiveOp /\ WorkersTrue /\ CredentialsTrue /\ ConnectWrote /\ ConnectedHolds
    /\ SuccessHeld /\ ListingFresh /\ FilesNamed /\ WithdrawnTrue
    /\ CancelledWroteNothing /\ QRHasItsWorker /\ AlwaysSettled

\* A row, a listing and a ghost, field by field.
LEMMA ChannelFields ==
    /\ \A r \in ChannelRows : /\ r.type \in {"none", "connect", "disconnect"} /\ r.status \in ChannelStatuses
                              /\ r.pc \in {"none", "created", "lock"} \cup WorkPcs /\ r.account \in SomeAccount
    /\ \A l \in Listings : /\ l.pc \in {"none", "row", "write"} /\ l.account \in SomeAccount
                           /\ l.state \in {"none", "NOT_CONFIGURED", "UNKNOWN", "CONNECTED"} /\ l.old \in BOOLEAN
    /\ \A g \in ChannelGhosts : /\ g.demoted \in BOOLEAN /\ g.doubtful \in BOOLEAN /\ g.forgotten \subseteq Accounts
                                /\ g.unsettled \subseteq ChannelOps /\ g.uncancelled \subseteq ChannelOps
BY DEF ChannelRows, Listings, ChannelGhosts

\* One row changed.
RowIs(rows, i, s, p, a) ==
    /\ rows \in [ChannelOps -> ChannelRows] /\ rows[i].type = chanOps[i].type
    /\ rows[i].status = s /\ rows[i].pc = p /\ rows[i].account = a
    /\ \A j \in ChannelOps \ {i} : rows[j] = chanOps[j]

\* What the actions make of a row.
LEMMA RowChanges ==
    ASSUME ChannelsType, NEW i \in ChannelOps, NEW s \in ChannelStatuses, NEW a \in SomeAccount,
           NEW p \in {"none", "created", "lock"} \cup WorkPcs
    PROVE  /\ RowIs([chanOps EXCEPT ![i].pc = p], i, chanOps[i].status, p, chanOps[i].account)
           /\ RowIs([chanOps EXCEPT ![i].status = s], i, s, chanOps[i].pc, chanOps[i].account)
           /\ RowIs([chanOps EXCEPT ![i].pc = p, ![i].account = a], i, chanOps[i].status, p, a)
           /\ RowIs([chanOps EXCEPT ![i].account = a, ![i].pc = p], i, chanOps[i].status, p, a)
           /\ RowIs([chanOps EXCEPT ![i].status = s, ![i].pc = p], i, s, p, chanOps[i].account)
           /\ RowIs([chanOps EXCEPT ![i] = [@ EXCEPT !.pc = p, !.status = s, !.account = a]], i, s, p, a)
<1> DEFINE r1 == [chanOps[i] EXCEPT !.pc = p]
           r2 == [chanOps[i] EXCEPT !.status = s]
           r3 == [chanOps[i] EXCEPT !.pc = p, !.account = a]
           r5 == [chanOps[i] EXCEPT !.pc = p, !.status = s]
           r6 == [chanOps[i] EXCEPT !.pc = p, !.status = s, !.account = a]
<1>1. chanOps \in [ChannelOps -> ChannelRows] /\ chanOps[i] \in ChannelRows
    BY DEF ChannelsType
<1>2. r1 \in ChannelRows /\ r1.type = chanOps[i].type /\ r1.pc = p /\ r1.status = chanOps[i].status /\ r1.account = chanOps[i].account
    BY <1>1, ChannelFields DEF ChannelRows
<1>3. r2 \in ChannelRows /\ r2.type = chanOps[i].type /\ r2.pc = chanOps[i].pc /\ r2.status = s /\ r2.account = chanOps[i].account
    BY <1>1, ChannelFields DEF ChannelRows
<1>4. r3 \in ChannelRows /\ r3.type = chanOps[i].type /\ r3.pc = p /\ r3.status = chanOps[i].status /\ r3.account = a
    BY <1>1, ChannelFields DEF ChannelRows
<1>5. r5 \in ChannelRows /\ r5.type = chanOps[i].type /\ r5.pc = p /\ r5.status = s /\ r5.account = chanOps[i].account
    BY <1>1, ChannelFields DEF ChannelRows
<1>6. r6 \in ChannelRows /\ r6.type = chanOps[i].type /\ r6.pc = p /\ r6.status = s /\ r6.account = a
    BY <1>1, ChannelFields DEF ChannelRows
<1>7. /\ [chanOps EXCEPT ![i].pc = p] = [chanOps EXCEPT ![i] = r1]
      /\ [chanOps EXCEPT ![i].status = s] = [chanOps EXCEPT ![i] = r2]
      /\ [chanOps EXCEPT ![i] = [@ EXCEPT !.pc = p, !.status = s, !.account = a]] = [chanOps EXCEPT ![i] = r6]
    BY <1>1
<1>8. /\ [chanOps EXCEPT ![i].pc = p, ![i].account = a] = [chanOps EXCEPT ![i] = r3]
      /\ [chanOps EXCEPT ![i].account = a, ![i].pc = p] = [chanOps EXCEPT ![i] = r3]
      /\ [chanOps EXCEPT ![i].status = s, ![i].pc = p] = [chanOps EXCEPT ![i] = r5]
    BY <1>1 DEF ChannelRows
<1>9. ASSUME NEW r \in ChannelRows, r.type = chanOps[i].type
      PROVE  RowIs([chanOps EXCEPT ![i] = r], i, r.status, r.pc, r.account)
    BY <1>1, <1>9 DEF RowIs
<1> HIDE DEF r1, r2, r3, r5, r6
<1>10. /\ RowIs([chanOps EXCEPT ![i] = r1], i, chanOps[i].status, p, chanOps[i].account)
       /\ RowIs([chanOps EXCEPT ![i] = r2], i, s, chanOps[i].pc, chanOps[i].account)
    BY <1>2, <1>3, <1>9
<1>11. /\ RowIs([chanOps EXCEPT ![i] = r3], i, chanOps[i].status, p, a)
       /\ RowIs([chanOps EXCEPT ![i] = r5], i, s, p, chanOps[i].account)
       /\ RowIs([chanOps EXCEPT ![i] = r6], i, s, p, a)
    BY <1>4, <1>5, <1>6, <1>9
<1> QED
    BY <1>7, <1>8, <1>10, <1>11

\* What the actions make of the ghosts.
LEMMA GhostUnsettled ==
    ASSUME NEW g \in ChannelGhosts, NEW i \in ChannelOps
    PROVE  LET h == [g EXCEPT !.unsettled = @ \cup {i}]
           IN  /\ h \in ChannelGhosts /\ h.unsettled = g.unsettled \cup {i} /\ h.uncancelled = g.uncancelled
               /\ h.forgotten = g.forgotten /\ h.demoted = g.demoted /\ h.doubtful = g.doubtful
BY DEF ChannelGhosts

\* An assignment that could not be taken back.
LEMMA GhostUncancelled ==
    ASSUME NEW g \in ChannelGhosts, NEW i \in ChannelOps
    PROVE  LET h == [g EXCEPT !.uncancelled = @ \cup {i}]
           IN  /\ h \in ChannelGhosts /\ h.unsettled = g.unsettled /\ h.uncancelled = g.uncancelled \cup {i}
               /\ h.forgotten = g.forgotten /\ h.demoted = g.demoted /\ h.doubtful = g.doubtful
BY DEF ChannelGhosts

\* Files that are left behind.
LEMMA GhostForgets ==
    ASSUME ChannelsType, NEW accounts \in SUBSET SomeAccount
    PROVE  LET h == Forget(accounts)
           IN  /\ h \in ChannelGhosts /\ h.unsettled = channelGhost.unsettled /\ h.uncancelled = channelGhost.uncancelled
               /\ channelGhost.forgotten \subseteq h.forgotten /\ h.demoted = channelGhost.demoted /\ h.doubtful
               /\ \A a \in Accounts \cap accounts : a # NoAccount /\ accountFile[a] # 0 => a \in h.forgotten
<1> DEFINE A == {a \in accounts \ {NoAccount} : accountFile[a] # 0}
           g == channelGhost
           h == [g EXCEPT !.doubtful = TRUE, !.forgotten = @ \cup A]
<1>1. A \in SUBSET Accounts /\ g \in ChannelGhosts /\ \A a \in Accounts \cap accounts : a # NoAccount /\ accountFile[a] # 0 => a \in A
    BY DEF ChannelsType, SomeAccount
<1>2. h = Forget(accounts)
    BY DEF Forget
<1> HIDE DEF A
<1>3. /\ h \in ChannelGhosts /\ h.unsettled = g.unsettled /\ h.uncancelled = g.uncancelled
      /\ h.forgotten = g.forgotten \cup A /\ h.demoted = g.demoted /\ h.doubtful
    BY <1>1 DEF ChannelGhosts
<1> HIDE DEF h
<1> QED
    BY <1>1, <1>2, <1>3

\* A row or a listing that is written.
LEMMA GhostRewritten ==
    ASSUME NEW g \in ChannelGhosts, NEW d1 \in BOOLEAN, NEW d2 \in BOOLEAN
    PROVE  LET h == [g EXCEPT !.demoted = d1, !.doubtful = d2]
           IN  /\ h \in ChannelGhosts /\ h.unsettled = g.unsettled /\ h.uncancelled = g.uncancelled
               /\ h.forgotten = g.forgotten /\ h.demoted = d1 /\ h.doubtful = d2
BY DEF ChannelGhosts

\* The ghosts only grow, and a listing on its way becomes old.
GhostGrows ==
    /\ channelGhost' \in ChannelGhosts /\ (channelGhost'.demoted <=> channelGhost.demoted)
    /\ channelGhost.doubtful => channelGhost'.doubtful
    /\ channelGhost.forgotten \subseteq channelGhost'.forgotten
    /\ channelGhost.unsettled \subseteq channelGhost'.unsettled
    /\ channelGhost.uncancelled \subseteq channelGhost'.uncancelled
GetsOld == listing' \in Listings /\ listing'.pc = listing.pc /\ listing'.state = listing.state /\ (listing'.old <=> listing.pc # "none")
OldFile(a) == a \in Accounts /\ accountFile[a] # 0 => a \in channelGhost'.forgotten

\* A worker that returns, whatever for.
ReturnsAs(i, s) ==
    /\ RowIs(chanOps', i, s, "none", NoAccount) /\ chanOps[i].pc \notin {"none", "created", "file"}
    /\ chanLock' = (IF chanLock = i THEN 0 ELSE chanLock)
    /\ qrShown' = qrShown \ {i} /\ withdrawn' = withdrawn \ {i}
    /\ UNCHANGED <<accountFile, binding, cancelling>> /\ GhostGrows
    /\ \/ s = chanOps[i].status
       \/ Active(i) /\ (s = "FAILED" \/ (s = "SUCCEEDED" /\ chanOps[i].pc = "finish"))
    /\ Active(i) /\ s = chanOps[i].status => i \in channelGhost'.unsettled \cup withdrawn
    /\ chanOps[i].pc = "eraseFile" => OldFile(chanOps[i].account)
    /\ \/ UNCHANGED <<credentials, listing>>
       \/ /\ chanOps[i].pc = "undo" /\ credentials' = NoCredentials /\ GetsOld
          /\ channelGhost'.doubtful /\ OldFile(chanOps[i].account)
    /\ chanOps[i].pc \in {"undo", "bind", "finish"} /\ s \in {"PENDING", "RUNNING"} =>
          credentials'.token # i \/ i \in channelGhost'.uncancelled \cup channelGhost'.unsettled

\* Whatever a worker returns for, the invariant stays.
LEMMA ReturnsKeep ==
    ASSUME ChannelsInv, NEW i \in ChannelOps, NEW s \in ChannelStatuses, ReturnsAs(i, s)
    PROVE  ChannelsInv'
<1>1. /\ ChannelsType /\ WorkersTrue /\ OneActiveOp /\ NoAccount \notin Accounts /\ chanOps[i] \in ChannelRows
      /\ chanOps[i].status # "none" /\ qrShown \subseteq ChannelOps /\ withdrawn \subseteq ChannelOps
      /\ cancelling \subseteq ChannelOps /\ NoCredentials.account = NoAccount /\ NoCredentials.token = 0 /\ 0 \notin ChannelOps
      /\ NoCredentials \in [account : SomeAccount, token : Nat] /\ Started \subseteq ChannelOps /\ ChannelOps \subseteq Nat
  <2>1. WorkersTrue /\ ChannelsType /\ OneActiveOp
    BY DEF ChannelsInv
  <2>2. chanOps[i].status # "none" /\ chanOps[i] \in ChannelRows
    BY <2>1 DEF ChannelsType, WorkersTrue, ReturnsAs, Started
  <2>3. /\ NoAccount \notin Accounts /\ NoCredentials.account = NoAccount /\ NoCredentials.token = 0 /\ 0 \notin ChannelOps
        /\ NoCredentials \in [account : SomeAccount, token : Nat]
    BY ChannelBounds DEF NoCredentials, SomeAccount, ChannelOps
  <2>4. Started \subseteq ChannelOps /\ ChannelOps \subseteq Nat
    BY ChannelBounds DEF Started, ChannelOps
  <2> QED
    BY <2>1, <2>2, <2>3, <2>4 DEF ChannelsType
<1>2. ReturnsAs(i, s)
    OBVIOUS
<1>3. Started' = Started
    BY <1>1, <1>2 DEF Started, ReturnsAs, RowIs, Active
<1>4. ChannelsType'
    BY <1>1, <1>2, <1>3 DEF ChannelsInv, ChannelsType, RowIs, ReturnsAs, GhostGrows, GetsOld, OldFile
<1>5. OpsInOrder'
    BY <1>1, <1>2, <1>3 DEF ChannelsInv, OpsInOrder, ReturnsAs, GhostGrows, GetsOld, OldFile
<1>6. OneActiveOp'
    BY <1>1, <1>2, <1>3 DEF ChannelsInv, OneActiveOp, Latest, Active, RowIs, ReturnsAs, GhostGrows, GetsOld, OldFile
<1>7. WorkersTrue'
    BY <1>1, <1>2, <1>3 DEF ChannelsInv, WorkersTrue, Active, RowIs, WorkPcs, ConnectPcs, ErasePcs, SomeAccount, ReturnsAs, GhostGrows, GetsOld, OldFile
<1>8. CredentialsTrue'
  <2>1. CASE UNCHANGED <<credentials, listing>>
    BY <1>1, <1>2, <1>3, <2>1 DEF ChannelsInv, CredentialsTrue, Active, RowIs, ReturnsAs, GhostGrows, GetsOld, OldFile
  <2>2. CASE /\ chanOps[i].pc = "undo" /\ credentials' = NoCredentials /\ GetsOld
             /\ channelGhost'.doubtful /\ OldFile(chanOps[i].account)
    BY <1>1, <1>2, <1>3, <2>2 DEF ChannelsInv, CredentialsTrue, Active, RowIs, ReturnsAs, GhostGrows, GetsOld, OldFile
  <2> QED
    BY <1>2, <2>1, <2>2 DEF ReturnsAs
<1>9. ConnectWrote'
  <2>1. CASE UNCHANGED <<credentials, listing>>
    BY <1>1, <1>2, <1>3, <2>1 DEF ChannelsInv, ConnectWrote, RowIs, WorkersTrue, WorkPcs, ConnectPcs, ErasePcs, ReturnsAs, GhostGrows, GetsOld, OldFile
  <2>2. CASE /\ chanOps[i].pc = "undo" /\ credentials' = NoCredentials /\ GetsOld
             /\ channelGhost'.doubtful /\ OldFile(chanOps[i].account)
    BY <1>1, <1>2, <1>3, <2>2 DEF ChannelsInv, ConnectWrote, RowIs, WorkersTrue, WorkPcs, ConnectPcs, ErasePcs, ReturnsAs, GhostGrows, GetsOld, OldFile
  <2> QED
    BY <1>2, <2>1, <2>2 DEF ReturnsAs
<1>10. ConnectedHolds'
    BY <1>1, <1>2, <1>3 DEF ChannelsInv, ConnectedHolds, ReturnsAs, GhostGrows, GetsOld, OldFile
<1>11. SuccessHeld'
  <2>1. CASE UNCHANGED <<credentials, listing>>
    BY <1>1, <1>2, <1>3, <2>1 DEF ChannelsInv, SuccessHeld, Latest, Succeeds, FilesHeld, RowIs, WorkersTrue, WorkPcs, ConnectPcs, ErasePcs, OneActiveOp, Active, ReturnsAs, GhostGrows, GetsOld, OldFile
  <2>2. CASE /\ chanOps[i].pc = "undo" /\ credentials' = NoCredentials /\ GetsOld
             /\ channelGhost'.doubtful /\ OldFile(chanOps[i].account)
    BY <1>1, <1>2, <1>3, <2>2 DEF ChannelsInv, SuccessHeld, Latest, Succeeds, FilesHeld, RowIs, WorkersTrue, WorkPcs, ConnectPcs, ErasePcs, OneActiveOp, Active, ReturnsAs, GhostGrows, GetsOld, OldFile
  <2> QED
    BY <1>2, <2>1, <2>2 DEF ReturnsAs
<1>12. ListingFresh'
    BY <1>1, <1>2, <1>3 DEF ChannelsInv, ListingFresh, ObservedStatus, Promoted, Bound, ReturnsAs, GhostGrows, GetsOld, OldFile
<1>13. FilesNamed'
  <2>1. CASE UNCHANGED <<credentials, listing>>
    BY <1>1, <1>2, <1>3, <2>1 DEF ChannelsInv, FilesNamed, RowIs, ConnectWrote, WorkersTrue, WorkPcs, ConnectPcs, ErasePcs, ReturnsAs, GhostGrows, GetsOld, OldFile
  <2>2. CASE /\ chanOps[i].pc = "undo" /\ credentials' = NoCredentials /\ GetsOld
             /\ channelGhost'.doubtful /\ OldFile(chanOps[i].account)
    BY <1>1, <1>2, <1>3, <2>2 DEF ChannelsInv, FilesNamed, RowIs, ConnectWrote, WorkersTrue, WorkPcs, ConnectPcs, ErasePcs, ReturnsAs, GhostGrows, GetsOld, OldFile
  <2> QED
    BY <1>2, <2>1, <2>2 DEF ReturnsAs
<1>14. WithdrawnTrue'
    BY <1>1, <1>2, <1>3 DEF ChannelsInv, WithdrawnTrue, Active, RowIs, ReturnsAs, GhostGrows, GetsOld, OldFile
<1>15. CancelledWroteNothing'
  <2>1. CASE UNCHANGED <<credentials, listing>>
    BY <1>1, <1>2, <1>3, <2>1 DEF ChannelsInv, CancelledWroteNothing, RowIs, ReturnsAs, GhostGrows, GetsOld, OldFile
  <2>2. CASE /\ chanOps[i].pc = "undo" /\ credentials' = NoCredentials /\ GetsOld
             /\ channelGhost'.doubtful /\ OldFile(chanOps[i].account)
    BY <1>1, <1>2, <1>3, <2>2 DEF ChannelsInv, CancelledWroteNothing, RowIs, ReturnsAs, GhostGrows, GetsOld, OldFile
  <2> QED
    BY <1>2, <2>1, <2>2 DEF ReturnsAs
<1>16. QRHasItsWorker'
    BY <1>1, <1>2, <1>3 DEF ChannelsInv, QRHasItsWorker, Active, RowIs, WorkersTrue, WorkPcs, ConnectPcs, ErasePcs, ReturnsAs, GhostGrows, GetsOld, OldFile
<1>17. AlwaysSettled'
    BY <1>1, <1>2, <1>3 DEF ChannelsInv, AlwaysSettled, AtWork, Active, RowIs, WithdrawnTrue, ReturnsAs, GhostGrows, GetsOld, OldFile
<1> QED
    BY <1>4, <1>5, <1>6, <1>7, <1>8, <1>9, <1>10, <1>11, <1>12, <1>13, <1>14, <1>15, <1>16, <1>17 DEF ChannelsInv

\* What every step may rely on.
LEMMA ChannelFacts ==
    ChannelsInv => /\ ChannelsType /\ WorkersTrue /\ OneActiveOp /\ NoAccount \notin Accounts
                   /\ qrShown \subseteq ChannelOps /\ withdrawn \subseteq ChannelOps /\ cancelling \subseteq ChannelOps
                   /\ NoCredentials.account = NoAccount /\ NoCredentials.token = 0 /\ 0 \notin ChannelOps
                   /\ NoCredentials \in [account : SomeAccount, token : Nat]
                   /\ Started \subseteq ChannelOps /\ ChannelOps \subseteq Nat
                   /\ channelGhost \in ChannelGhosts /\ listing \in Listings /\ binding \in Bindings
                   /\ credentials \in [account : SomeAccount, token : Nat] /\ accountFile \in [Accounts -> Nat]
                   /\ \A i \in ChannelOps : chanOps[i] \in ChannelRows
<1> SUFFICES ASSUME ChannelsInv PROVE ChannelsType /\ WorkersTrue /\ OneActiveOp
    BY ChannelBounds DEF ChannelsType, NoCredentials, SomeAccount, ChannelOps, Started
<1> QED
    BY DEF ChannelsInv

\* A listing that is on its way when something is written becomes old.
LEMMA OutdatedMeans ==
    ASSUME ChannelsInv, Outdated
    PROVE  GetsOld
<1> DEFINE onItsWay == listing.pc # "none"
<1>1. listing \in Listings /\ onItsWay \in BOOLEAN /\ listing' = [listing EXCEPT !.old = onItsWay]
    BY ChannelFacts DEF Outdated
<1> HIDE DEF onItsWay
<1>2. listing' \in Listings /\ listing'.pc = listing.pc /\ listing'.state = listing.state /\ (listing'.old <=> onItsWay)
    BY <1>1, ChannelFields DEF Listings
<1> QED
    BY <1>2 DEF GetsOld, onItsWay

\* What a step that moves a worker on leaves alone.
MovesTo(i, s, p, a) ==
    /\ RowIs(chanOps', i, s, p, a)
    /\ s \in {"PENDING", "RUNNING"} /\ chanOps[i].status \in {"PENDING", "RUNNING"} /\ chanOps[i].pc # "none"
    /\ p \in {"lock"} \cup WorkPcs /\ UNCHANGED <<withdrawn, cancelling>>

\* The worker of an operation is started.
LEMMA StartWorkerKeep ==
    ASSUME ChannelsInv, NEW i \in ChannelOps, StartWorker(i)
    PROVE  ChannelsInv'
<1>1. ChannelsType /\ WorkersTrue /\ OneActiveOp
    BY ChannelFacts
<1>2. /\ RowIs(chanOps', i, chanOps[i].status, "lock", chanOps[i].account) /\ chanOps[i].pc = "created"
      /\ UNCHANGED <<credentials, accountFile, binding, chanLock, qrShown, listing, channelGhost, withdrawn, cancelling>>
    BY <1>1, RowChanges, ChannelFacts, ChannelFields DEF StartWorker, ChannelFiles, Requests
<1>3. Started' = Started
    BY <1>1, <1>2, ChannelFacts DEF Started, RowIs, MovesTo, Active, WorkersTrue
<1>4. ChannelsType'
    BY <1>1, <1>2, <1>3, ChannelFacts DEF ChannelsInv, ChannelsType, RowIs, MovesTo, GhostGrows, GetsOld, OldFile
<1>5. OpsInOrder'
    BY <1>1, <1>2, <1>3, ChannelFacts DEF ChannelsInv, OpsInOrder, MovesTo, GhostGrows, GetsOld, OldFile
<1>6. OneActiveOp'
    BY <1>1, <1>2, <1>3, ChannelFacts DEF ChannelsInv, OneActiveOp, Latest, Active, RowIs, MovesTo, GhostGrows, GetsOld, OldFile
<1>7. WorkersTrue'
    BY <1>1, <1>2, <1>3, ChannelFacts DEF ChannelsInv, WorkersTrue, Active, RowIs, WorkPcs, ConnectPcs, ErasePcs, SomeAccount, MovesTo, GhostGrows, GetsOld, OldFile
<1>8. CredentialsTrue'
    BY <1>1, <1>2, <1>3, ChannelFacts DEF ChannelsInv, CredentialsTrue, Active, RowIs, MovesTo, GhostGrows, GetsOld, OldFile
<1>9. ConnectWrote'
    BY <1>1, <1>2, <1>3, ChannelFacts DEF ChannelsInv, ConnectWrote, RowIs, WorkersTrue, WorkPcs, ConnectPcs, ErasePcs, MovesTo, GhostGrows, GetsOld, OldFile
<1>10. ConnectedHolds'
    BY <1>1, <1>2, <1>3, ChannelFacts DEF ChannelsInv, ConnectedHolds, MovesTo, GhostGrows, GetsOld, OldFile
<1>11. SuccessHeld'
    BY <1>1, <1>2, <1>3, ChannelFacts DEF ChannelsInv, SuccessHeld, Latest, Succeeds, FilesHeld, RowIs, WorkersTrue, WorkPcs, ConnectPcs, ErasePcs, OneActiveOp, Active, MovesTo, GhostGrows, GetsOld, OldFile
<1>12. ListingFresh'
    BY <1>1, <1>2, <1>3, ChannelFacts DEF ChannelsInv, ListingFresh, ObservedStatus, Promoted, Bound, MovesTo, GhostGrows, GetsOld, OldFile
<1>13. FilesNamed'
    BY <1>1, <1>2, <1>3, ChannelFacts DEF ChannelsInv, FilesNamed, RowIs, ConnectWrote, WorkersTrue, WorkPcs, ConnectPcs, ErasePcs, MovesTo, GhostGrows, GetsOld, OldFile
<1>14. WithdrawnTrue'
    BY <1>1, <1>2, <1>3, ChannelFacts DEF ChannelsInv, WithdrawnTrue, Active, RowIs, MovesTo, GhostGrows, GetsOld, OldFile
<1>15. CancelledWroteNothing'
    BY <1>1, <1>2, <1>3, ChannelFacts DEF ChannelsInv, CancelledWroteNothing, RowIs, MovesTo, GhostGrows, GetsOld, OldFile
<1>16. QRHasItsWorker'
    BY <1>1, <1>2, <1>3, ChannelFacts DEF ChannelsInv, QRHasItsWorker, Active, RowIs, WorkersTrue, WorkPcs, ConnectPcs, ErasePcs, MovesTo, GhostGrows, GetsOld, OldFile
<1>17. AlwaysSettled'
    BY <1>1, <1>2, <1>3, ChannelFacts DEF ChannelsInv, AlwaysSettled, AtWork, Active, RowIs, WithdrawnTrue, MovesTo, GhostGrows, GetsOld, OldFile
<1> QED
    BY <1>4, <1>5, <1>6, <1>7, <1>8, <1>9, <1>10, <1>11, <1>12, <1>13, <1>14, <1>15, <1>16, <1>17 DEF ChannelsInv

\* A QR code is shown.
LEMMA ShowQRKeep ==
    ASSUME ChannelsInv, NEW i \in ChannelOps, ShowQR(i)
    PROVE  ChannelsInv'
<1>1. ChannelsType /\ WorkersTrue /\ OneActiveOp
    BY ChannelFacts
<1>2. /\ MovesTo(i, chanOps[i].status, "poll", chanOps[i].account) /\ chanLock = i /\ chanOps[i].pc \in {"show", "poll"}
      /\ qrShown' = qrShown \cup {i}
      /\ UNCHANGED <<credentials, accountFile, binding, chanLock, listing, channelGhost>>
    BY <1>1, RowChanges, ChannelFacts, ChannelFields DEF ShowQR, Works, MovesTo, ChannelFiles, Requests, WorkersTrue, WorkPcs, ConnectPcs, Active
<1>3. Started' = Started
    BY <1>1, <1>2, ChannelFacts DEF Started, RowIs, MovesTo, Active, WorkersTrue
<1>4. ChannelsType'
    BY <1>1, <1>2, <1>3, ChannelFacts DEF ChannelsInv, ChannelsType, RowIs, MovesTo, GhostGrows, GetsOld, OldFile
<1>5. OpsInOrder'
    BY <1>1, <1>2, <1>3, ChannelFacts DEF ChannelsInv, OpsInOrder, MovesTo, GhostGrows, GetsOld, OldFile
<1>6. OneActiveOp'
    BY <1>1, <1>2, <1>3, ChannelFacts DEF ChannelsInv, OneActiveOp, Latest, Active, RowIs, MovesTo, GhostGrows, GetsOld, OldFile
<1>7. WorkersTrue'
    BY <1>1, <1>2, <1>3, ChannelFacts DEF ChannelsInv, WorkersTrue, Active, RowIs, WorkPcs, ConnectPcs, ErasePcs, SomeAccount, MovesTo, GhostGrows, GetsOld, OldFile
<1>8. CredentialsTrue'
    BY <1>1, <1>2, <1>3, ChannelFacts DEF ChannelsInv, CredentialsTrue, Active, RowIs, MovesTo, GhostGrows, GetsOld, OldFile
<1>9. ConnectWrote'
    BY <1>1, <1>2, <1>3, ChannelFacts DEF ChannelsInv, ConnectWrote, RowIs, WorkersTrue, WorkPcs, ConnectPcs, ErasePcs, MovesTo, GhostGrows, GetsOld, OldFile
<1>10. ConnectedHolds'
    BY <1>1, <1>2, <1>3, ChannelFacts DEF ChannelsInv, ConnectedHolds, MovesTo, GhostGrows, GetsOld, OldFile
<1>11. SuccessHeld'
    BY <1>1, <1>2, <1>3, ChannelFacts DEF ChannelsInv, SuccessHeld, Latest, Succeeds, FilesHeld, RowIs, WorkersTrue, WorkPcs, ConnectPcs, ErasePcs, OneActiveOp, Active, MovesTo, GhostGrows, GetsOld, OldFile
<1>12. ListingFresh'
    BY <1>1, <1>2, <1>3, ChannelFacts DEF ChannelsInv, ListingFresh, ObservedStatus, Promoted, Bound, MovesTo, GhostGrows, GetsOld, OldFile
<1>13. FilesNamed'
    BY <1>1, <1>2, <1>3, ChannelFacts DEF ChannelsInv, FilesNamed, RowIs, ConnectWrote, WorkersTrue, WorkPcs, ConnectPcs, ErasePcs, MovesTo, GhostGrows, GetsOld, OldFile
<1>14. WithdrawnTrue'
    BY <1>1, <1>2, <1>3, ChannelFacts DEF ChannelsInv, WithdrawnTrue, Active, RowIs, MovesTo, GhostGrows, GetsOld, OldFile
<1>15. CancelledWroteNothing'
    BY <1>1, <1>2, <1>3, ChannelFacts DEF ChannelsInv, CancelledWroteNothing, RowIs, MovesTo, GhostGrows, GetsOld, OldFile
<1>16. QRHasItsWorker'
    BY <1>1, <1>2, <1>3, ChannelFacts DEF ChannelsInv, QRHasItsWorker, Active, RowIs, WorkersTrue, WorkPcs, ConnectPcs, ErasePcs, MovesTo, GhostGrows, GetsOld, OldFile
<1>17. AlwaysSettled'
    BY <1>1, <1>2, <1>3, ChannelFacts DEF ChannelsInv, AlwaysSettled, AtWork, Active, RowIs, WithdrawnTrue, MovesTo, GhostGrows, GetsOld, OldFile
<1> QED
    BY <1>4, <1>5, <1>6, <1>7, <1>8, <1>9, <1>10, <1>11, <1>12, <1>13, <1>14, <1>15, <1>16, <1>17 DEF ChannelsInv

\* A login is confirmed.
LEMMA ConfirmedKeep ==
    ASSUME ChannelsInv, NEW i \in ChannelOps, NEW a \in Accounts, Confirmed(i, a)
    PROVE  ChannelsInv'
<1>1. ChannelsType /\ WorkersTrue /\ OneActiveOp
    BY ChannelFacts
<1>2. /\ MovesTo(i, chanOps[i].status, "write", a) /\ chanLock = i /\ chanOps[i].pc = "poll"
      /\ UNCHANGED <<credentials, accountFile, binding, chanLock, qrShown, listing, channelGhost>>
    BY <1>1, RowChanges, ChannelFacts, ChannelFields DEF Confirmed, Works, MovesTo, ChannelFiles, Requests, WorkersTrue, WorkPcs, ConnectPcs, Active, SomeAccount
<1>3. Started' = Started
    BY <1>1, <1>2, ChannelFacts DEF Started, RowIs, MovesTo, Active, WorkersTrue
<1>4. ChannelsType'
    BY <1>1, <1>2, <1>3, ChannelFacts DEF ChannelsInv, ChannelsType, RowIs, MovesTo, GhostGrows, GetsOld, OldFile
<1>5. OpsInOrder'
    BY <1>1, <1>2, <1>3, ChannelFacts DEF ChannelsInv, OpsInOrder, MovesTo, GhostGrows, GetsOld, OldFile
<1>6. OneActiveOp'
    BY <1>1, <1>2, <1>3, ChannelFacts DEF ChannelsInv, OneActiveOp, Latest, Active, RowIs, MovesTo, GhostGrows, GetsOld, OldFile
<1>7. WorkersTrue'
    BY <1>1, <1>2, <1>3, ChannelFacts DEF ChannelsInv, WorkersTrue, Active, RowIs, WorkPcs, ConnectPcs, ErasePcs, SomeAccount, MovesTo, GhostGrows, GetsOld, OldFile
<1>8. CredentialsTrue'
    BY <1>1, <1>2, <1>3, ChannelFacts DEF ChannelsInv, CredentialsTrue, Active, RowIs, MovesTo, GhostGrows, GetsOld, OldFile
<1>9. ConnectWrote'
    BY <1>1, <1>2, <1>3, ChannelFacts DEF ChannelsInv, ConnectWrote, RowIs, WorkersTrue, WorkPcs, ConnectPcs, ErasePcs, MovesTo, GhostGrows, GetsOld, OldFile
<1>10. ConnectedHolds'
    BY <1>1, <1>2, <1>3, ChannelFacts DEF ChannelsInv, ConnectedHolds, MovesTo, GhostGrows, GetsOld, OldFile
<1>11. SuccessHeld'
    BY <1>1, <1>2, <1>3, ChannelFacts DEF ChannelsInv, SuccessHeld, Latest, Succeeds, FilesHeld, RowIs, WorkersTrue, WorkPcs, ConnectPcs, ErasePcs, OneActiveOp, Active, MovesTo, GhostGrows, GetsOld, OldFile
<1>12. ListingFresh'
    BY <1>1, <1>2, <1>3, ChannelFacts DEF ChannelsInv, ListingFresh, ObservedStatus, Promoted, Bound, MovesTo, GhostGrows, GetsOld, OldFile
<1>13. FilesNamed'
    BY <1>1, <1>2, <1>3, ChannelFacts DEF ChannelsInv, FilesNamed, RowIs, ConnectWrote, WorkersTrue, WorkPcs, ConnectPcs, ErasePcs, MovesTo, GhostGrows, GetsOld, OldFile
<1>14. WithdrawnTrue'
    BY <1>1, <1>2, <1>3, ChannelFacts DEF ChannelsInv, WithdrawnTrue, Active, RowIs, MovesTo, GhostGrows, GetsOld, OldFile
<1>15. CancelledWroteNothing'
    BY <1>1, <1>2, <1>3, ChannelFacts DEF ChannelsInv, CancelledWroteNothing, RowIs, MovesTo, GhostGrows, GetsOld, OldFile
<1>16. QRHasItsWorker'
    BY <1>1, <1>2, <1>3, ChannelFacts DEF ChannelsInv, QRHasItsWorker, Active, RowIs, WorkersTrue, WorkPcs, ConnectPcs, ErasePcs, MovesTo, GhostGrows, GetsOld, OldFile
<1>17. AlwaysSettled'
    BY <1>1, <1>2, <1>3, ChannelFacts DEF ChannelsInv, AlwaysSettled, AtWork, Active, RowIs, WithdrawnTrue, MovesTo, GhostGrows, GetsOld, OldFile
<1> QED
    BY <1>4, <1>5, <1>6, <1>7, <1>8, <1>9, <1>10, <1>11, <1>12, <1>13, <1>14, <1>15, <1>16, <1>17 DEF ChannelsInv

\* A code expires.
LEMMA ExpireQRKeep ==
    ASSUME ChannelsInv, NEW i \in ChannelOps, ExpireQR(i)
    PROVE  ChannelsInv'
<1>1. ChannelsType /\ WorkersTrue /\ OneActiveOp
    BY ChannelFacts
<1>2. /\ qrShown' = qrShown \ {i}
      /\ UNCHANGED <<credentials, accountFile, binding, chanOps, chanLock, listing, channelGhost, withdrawn, cancelling>>
    BY DEF ExpireQR, ChannelFiles, Requests
<1>3. Started' = Started
    BY <1>1, <1>2, ChannelFacts DEF Started, RowIs, MovesTo, Active, WorkersTrue
<1>4. ChannelsType'
    BY <1>1, <1>2, <1>3, ChannelFacts DEF ChannelsInv, ChannelsType, RowIs, MovesTo, GhostGrows, GetsOld, OldFile
<1>5. OpsInOrder'
    BY <1>1, <1>2, <1>3, ChannelFacts DEF ChannelsInv, OpsInOrder, MovesTo, GhostGrows, GetsOld, OldFile
<1>6. OneActiveOp'
    BY <1>1, <1>2, <1>3, ChannelFacts DEF ChannelsInv, OneActiveOp, Latest, Active, RowIs, MovesTo, GhostGrows, GetsOld, OldFile
<1>7. WorkersTrue'
    BY <1>1, <1>2, <1>3, ChannelFacts DEF ChannelsInv, WorkersTrue, Active, RowIs, WorkPcs, ConnectPcs, ErasePcs, SomeAccount, MovesTo, GhostGrows, GetsOld, OldFile
<1>8. CredentialsTrue'
    BY <1>1, <1>2, <1>3, ChannelFacts DEF ChannelsInv, CredentialsTrue, Active, RowIs, MovesTo, GhostGrows, GetsOld, OldFile
<1>9. ConnectWrote'
    BY <1>1, <1>2, <1>3, ChannelFacts DEF ChannelsInv, ConnectWrote, RowIs, WorkersTrue, WorkPcs, ConnectPcs, ErasePcs, MovesTo, GhostGrows, GetsOld, OldFile
<1>10. ConnectedHolds'
    BY <1>1, <1>2, <1>3, ChannelFacts DEF ChannelsInv, ConnectedHolds, MovesTo, GhostGrows, GetsOld, OldFile
<1>11. SuccessHeld'
    BY <1>1, <1>2, <1>3, ChannelFacts DEF ChannelsInv, SuccessHeld, Latest, Succeeds, FilesHeld, RowIs, WorkersTrue, WorkPcs, ConnectPcs, ErasePcs, OneActiveOp, Active, MovesTo, GhostGrows, GetsOld, OldFile
<1>12. ListingFresh'
    BY <1>1, <1>2, <1>3, ChannelFacts DEF ChannelsInv, ListingFresh, ObservedStatus, Promoted, Bound, MovesTo, GhostGrows, GetsOld, OldFile
<1>13. FilesNamed'
    BY <1>1, <1>2, <1>3, ChannelFacts DEF ChannelsInv, FilesNamed, RowIs, ConnectWrote, WorkersTrue, WorkPcs, ConnectPcs, ErasePcs, MovesTo, GhostGrows, GetsOld, OldFile
<1>14. WithdrawnTrue'
    BY <1>1, <1>2, <1>3, ChannelFacts DEF ChannelsInv, WithdrawnTrue, Active, RowIs, MovesTo, GhostGrows, GetsOld, OldFile
<1>15. CancelledWroteNothing'
    BY <1>1, <1>2, <1>3, ChannelFacts DEF ChannelsInv, CancelledWroteNothing, RowIs, MovesTo, GhostGrows, GetsOld, OldFile
<1>16. QRHasItsWorker'
    BY <1>1, <1>2, <1>3, ChannelFacts DEF ChannelsInv, QRHasItsWorker, Active, RowIs, WorkersTrue, WorkPcs, ConnectPcs, ErasePcs, MovesTo, GhostGrows, GetsOld, OldFile
<1>17. AlwaysSettled'
    BY <1>1, <1>2, <1>3, ChannelFacts DEF ChannelsInv, AlwaysSettled, AtWork, Active, RowIs, WithdrawnTrue, MovesTo, GhostGrows, GetsOld, OldFile
<1> QED
    BY <1>4, <1>5, <1>6, <1>7, <1>8, <1>9, <1>10, <1>11, <1>12, <1>13, <1>14, <1>15, <1>16, <1>17 DEF ChannelsInv

\* A cancel is asked for.
LEMMA CancelChannelKeep ==
    ASSUME ChannelsInv, NEW i \in ChannelOps, CancelChannel(i)
    PROVE  ChannelsInv'
<1>1. ChannelsType /\ WorkersTrue /\ OneActiveOp
    BY ChannelFacts
<1>2. /\ Active(i) /\ i \in Started /\ cancelling' = cancelling \cup {i} /\ withdrawn' \in {withdrawn, withdrawn \cup {i}}
      /\ UNCHANGED <<credentials, accountFile, binding, chanOps, chanLock, qrShown, listing, channelGhost>>
    BY DEF CancelChannel, ChannelFiles, Requests, Active, Started
<1>3. Started' = Started
    BY <1>1, <1>2, ChannelFacts DEF Started, RowIs, MovesTo, Active, WorkersTrue
<1>4. ChannelsType'
    BY <1>1, <1>2, <1>3, ChannelFacts DEF ChannelsInv, ChannelsType, RowIs, MovesTo, GhostGrows, GetsOld, OldFile
<1>5. OpsInOrder'
    BY <1>1, <1>2, <1>3, ChannelFacts DEF ChannelsInv, OpsInOrder, MovesTo, GhostGrows, GetsOld, OldFile
<1>6. OneActiveOp'
    BY <1>1, <1>2, <1>3, ChannelFacts DEF ChannelsInv, OneActiveOp, Latest, Active, RowIs, MovesTo, GhostGrows, GetsOld, OldFile
<1>7. WorkersTrue'
    BY <1>1, <1>2, <1>3, ChannelFacts DEF ChannelsInv, WorkersTrue, Active, RowIs, WorkPcs, ConnectPcs, ErasePcs, SomeAccount, MovesTo, GhostGrows, GetsOld, OldFile
<1>8. CredentialsTrue'
    BY <1>1, <1>2, <1>3, ChannelFacts DEF ChannelsInv, CredentialsTrue, Active, RowIs, MovesTo, GhostGrows, GetsOld, OldFile
<1>9. ConnectWrote'
    BY <1>1, <1>2, <1>3, ChannelFacts DEF ChannelsInv, ConnectWrote, RowIs, WorkersTrue, WorkPcs, ConnectPcs, ErasePcs, MovesTo, GhostGrows, GetsOld, OldFile
<1>10. ConnectedHolds'
    BY <1>1, <1>2, <1>3, ChannelFacts DEF ChannelsInv, ConnectedHolds, MovesTo, GhostGrows, GetsOld, OldFile
<1>11. SuccessHeld'
    BY <1>1, <1>2, <1>3, ChannelFacts DEF ChannelsInv, SuccessHeld, Latest, Succeeds, FilesHeld, RowIs, WorkersTrue, WorkPcs, ConnectPcs, ErasePcs, OneActiveOp, Active, MovesTo, GhostGrows, GetsOld, OldFile
<1>12. ListingFresh'
    BY <1>1, <1>2, <1>3, ChannelFacts DEF ChannelsInv, ListingFresh, ObservedStatus, Promoted, Bound, MovesTo, GhostGrows, GetsOld, OldFile
<1>13. FilesNamed'
    BY <1>1, <1>2, <1>3, ChannelFacts DEF ChannelsInv, FilesNamed, RowIs, ConnectWrote, WorkersTrue, WorkPcs, ConnectPcs, ErasePcs, MovesTo, GhostGrows, GetsOld, OldFile
<1>14. WithdrawnTrue'
    BY <1>1, <1>2, <1>3, ChannelFacts DEF ChannelsInv, WithdrawnTrue, Active, RowIs, MovesTo, GhostGrows, GetsOld, OldFile
<1>15. CancelledWroteNothing'
    BY <1>1, <1>2, <1>3, ChannelFacts DEF ChannelsInv, CancelledWroteNothing, RowIs, MovesTo, GhostGrows, GetsOld, OldFile
<1>16. QRHasItsWorker'
    BY <1>1, <1>2, <1>3, ChannelFacts DEF ChannelsInv, QRHasItsWorker, Active, RowIs, WorkersTrue, WorkPcs, ConnectPcs, ErasePcs, MovesTo, GhostGrows, GetsOld, OldFile
<1>17. AlwaysSettled'
    BY <1>1, <1>2, <1>3, ChannelFacts DEF ChannelsInv, AlwaysSettled, AtWork, Active, RowIs, WithdrawnTrue, MovesTo, GhostGrows, GetsOld, OldFile
<1> QED
    BY <1>4, <1>5, <1>6, <1>7, <1>8, <1>9, <1>10, <1>11, <1>12, <1>13, <1>14, <1>15, <1>16, <1>17 DEF ChannelsInv

\* An operation is created.
LEMMA StartChannelKeep ==
    ASSUME ChannelsInv, NEW i \in ChannelOps, NEW type \in {"connect", "disconnect"}, StartChannel(i, type)
    PROVE  ChannelsInv'
<1>1. ChannelsType /\ WorkersTrue /\ OneActiveOp
    BY ChannelFacts
<1>2. /\ chanOps' \in [ChannelOps -> ChannelRows] /\ chanOps'[i].type = type /\ chanOps'[i].status = "PENDING"
      /\ chanOps'[i].pc = "created" /\ chanOps'[i].account = NoAccount /\ \A j \in ChannelOps \ {i} : chanOps'[j] = chanOps[j]
      /\ \A j \in ChannelOps : ~Active(j) /\ (j < i <=> j \in Started)
      /\ UNCHANGED <<credentials, accountFile, binding, chanLock, qrShown, listing, channelGhost, withdrawn, cancelling>>
  <2> DEFINE row == [NotStarted EXCEPT !.type = type, !.status = "PENDING", !.pc = "created"]
  <2>1. row \in ChannelRows /\ row.type = type /\ row.status = "PENDING" /\ row.pc = "created" /\ row.account = NoAccount
    BY DEF NotStarted, ChannelRows, ChannelStatuses, SomeAccount
  <2>2. chanOps' = [chanOps EXCEPT ![i] = row]
    BY DEF StartChannel
  <2> HIDE DEF row
  <2>3. /\ chanOps' \in [ChannelOps -> ChannelRows] /\ chanOps'[i] = row
        /\ \A j \in ChannelOps \ {i} : chanOps'[j] = chanOps[j]
    BY <1>1, <2>1, <2>2 DEF ChannelsType
  <2> QED
    BY <2>1, <2>3 DEF StartChannel, ChannelFiles, Requests
<1>3. Started' = Started \cup {i} /\ i \notin Started
  <2>1. i \notin Started
    BY <1>2, ChannelFacts
  <2>2. \A j \in ChannelOps : j \in Started' <=> j = i \/ j \in Started
    BY <1>2 DEF Started
  <2>3. Started' \subseteq ChannelOps /\ Started \subseteq ChannelOps
    BY DEF Started
  <2> QED
    BY <2>1, <2>2, <2>3
<1>4. ChannelsType'
    BY <1>1, <1>2, <1>3, ChannelFacts DEF ChannelsInv, ChannelsType, RowIs, MovesTo, GhostGrows, GetsOld, OldFile
<1>5. OpsInOrder'
  <2>1. Started' = 1..i /\ i \in 0..MaxChannelOps
    BY <1>2, <1>3, ChannelBounds, ChannelFacts DEF ChannelOps
  <2> QED
    BY <2>1 DEF OpsInOrder
<1>6. OneActiveOp'
    BY <1>1, <1>2, <1>3, ChannelFacts DEF ChannelsInv, OneActiveOp, Latest, Active, RowIs, MovesTo, GhostGrows, GetsOld, OldFile
<1>7. WorkersTrue'
    BY <1>1, <1>2, <1>3, ChannelFacts DEF ChannelsInv, WorkersTrue, Active, RowIs, WorkPcs, ConnectPcs, ErasePcs, SomeAccount, MovesTo, GhostGrows, GetsOld, OldFile
<1>8. CredentialsTrue'
    BY <1>1, <1>2, <1>3, ChannelFacts DEF ChannelsInv, CredentialsTrue, Active, RowIs, MovesTo, GhostGrows, GetsOld, OldFile
<1>9. ConnectWrote'
    BY <1>1, <1>2, <1>3, ChannelFacts DEF ChannelsInv, ConnectWrote, RowIs, WorkersTrue, WorkPcs, ConnectPcs, ErasePcs, MovesTo, GhostGrows, GetsOld, OldFile
<1>10. ConnectedHolds'
    BY <1>1, <1>2, <1>3, ChannelFacts DEF ChannelsInv, ConnectedHolds, MovesTo, GhostGrows, GetsOld, OldFile
<1>11. SuccessHeld'
    BY <1>1, <1>2, <1>3, ChannelFacts DEF ChannelsInv, SuccessHeld, Latest, Succeeds, FilesHeld, RowIs, WorkersTrue, WorkPcs, ConnectPcs, ErasePcs, OneActiveOp, Active, MovesTo, GhostGrows, GetsOld, OldFile
<1>12. ListingFresh'
    BY <1>1, <1>2, <1>3, ChannelFacts DEF ChannelsInv, ListingFresh, ObservedStatus, Promoted, Bound, MovesTo, GhostGrows, GetsOld, OldFile
<1>13. FilesNamed'
    BY <1>1, <1>2, <1>3, ChannelFacts DEF ChannelsInv, FilesNamed, RowIs, ConnectWrote, WorkersTrue, WorkPcs, ConnectPcs, ErasePcs, MovesTo, GhostGrows, GetsOld, OldFile
<1>14. WithdrawnTrue'
    BY <1>1, <1>2, <1>3, ChannelFacts DEF ChannelsInv, WithdrawnTrue, Active, RowIs, MovesTo, GhostGrows, GetsOld, OldFile
<1>15. CancelledWroteNothing'
    BY <1>1, <1>2, <1>3, ChannelFacts DEF ChannelsInv, CancelledWroteNothing, RowIs, MovesTo, GhostGrows, GetsOld, OldFile
<1>16. QRHasItsWorker'
    BY <1>1, <1>2, <1>3, ChannelFacts DEF ChannelsInv, QRHasItsWorker, Active, RowIs, WorkersTrue, WorkPcs, ConnectPcs, ErasePcs, MovesTo, GhostGrows, GetsOld, OldFile
<1>17. AlwaysSettled'
    BY <1>1, <1>2, <1>3, ChannelFacts DEF ChannelsInv, AlwaysSettled, AtWork, Active, RowIs, WithdrawnTrue, MovesTo, GhostGrows, GetsOld, OldFile
<1> QED
    BY <1>4, <1>5, <1>6, <1>7, <1>8, <1>9, <1>10, <1>11, <1>12, <1>13, <1>14, <1>15, <1>16, <1>17 DEF ChannelsInv

\* A cancel writes the row.
LEMMA CommitCancelKeep ==
    ASSUME ChannelsInv, NEW i \in ChannelOps, CommitCancel(i)
    PROVE  ChannelsInv'
<1>1. ChannelsType /\ WorkersTrue /\ OneActiveOp
    BY ChannelFacts
<1>2. /\ i \in cancelling /\ chanLock = 0 /\ cancelling' = cancelling \ {i}
      /\ UNCHANGED <<credentials, accountFile, binding, chanLock, withdrawn, listing>>
      /\ \/ ~Active(i) /\ UNCHANGED <<chanOps, qrShown, channelGhost>>
         \/ /\ Active(i) /\ RowIs(chanOps', i, "CANCELLED", chanOps[i].pc, chanOps[i].account)
            /\ qrShown' = qrShown \ {i} /\ UNCHANGED channelGhost
         \/ Active(i) /\ UNCHANGED <<chanOps, qrShown>> /\ GhostGrows /\ i \in channelGhost'.unsettled
  <2>1. /\ i \in cancelling /\ chanLock = 0 /\ cancelling' = cancelling \ {i}
        /\ UNCHANGED <<credentials, accountFile, binding, chanLock, withdrawn, listing>>
    BY DEF CommitCancel, ChannelFiles
  <2>2. RowIs([chanOps EXCEPT ![i].status = "CANCELLED"], i, "CANCELLED", chanOps[i].pc, chanOps[i].account)
    BY <1>1, RowChanges, ChannelFacts, ChannelFields DEF ChannelStatuses
  <2>3. channelGhost' = [channelGhost EXCEPT !.unsettled = @ \cup {i}] => GhostGrows /\ i \in channelGhost'.unsettled
    BY ChannelFacts, GhostUnsettled DEF GhostGrows
  <2> QED
    BY <2>1, <2>2, <2>3 DEF CommitCancel
<1>3. Started' = Started
    BY <1>1, <1>2, ChannelFacts DEF Started, RowIs, MovesTo, Active, WorkersTrue
<1>4. ChannelsType'
    BY <1>1, <1>2, <1>3, ChannelFacts DEF ChannelsInv, ChannelsType, RowIs, MovesTo, GhostGrows, GetsOld, OldFile
<1>5. OpsInOrder'
    BY <1>1, <1>2, <1>3, ChannelFacts DEF ChannelsInv, OpsInOrder, MovesTo, GhostGrows, GetsOld, OldFile
<1>6. OneActiveOp'
    BY <1>1, <1>2, <1>3, ChannelFacts DEF ChannelsInv, OneActiveOp, Latest, Active, RowIs, MovesTo, GhostGrows, GetsOld, OldFile
<1>7. WorkersTrue'
    BY <1>1, <1>2, <1>3, ChannelFacts DEF ChannelsInv, WorkersTrue, Active, RowIs, WorkPcs, ConnectPcs, ErasePcs, SomeAccount, MovesTo, GhostGrows, GetsOld, OldFile
<1>8. CredentialsTrue'
    BY <1>1, <1>2, <1>3, ChannelFacts DEF ChannelsInv, CredentialsTrue, Active, RowIs, MovesTo, GhostGrows, GetsOld, OldFile
<1>9. ConnectWrote'
    BY <1>1, <1>2, <1>3, ChannelFacts DEF ChannelsInv, ConnectWrote, RowIs, WorkersTrue, WorkPcs, ConnectPcs, ErasePcs, MovesTo, GhostGrows, GetsOld, OldFile
<1>10. ConnectedHolds'
    BY <1>1, <1>2, <1>3, ChannelFacts DEF ChannelsInv, ConnectedHolds, MovesTo, GhostGrows, GetsOld, OldFile
<1>11. SuccessHeld'
    BY <1>1, <1>2, <1>3, ChannelFacts DEF ChannelsInv, SuccessHeld, Latest, Succeeds, FilesHeld, RowIs, WorkersTrue, WorkPcs, ConnectPcs, ErasePcs, OneActiveOp, Active, MovesTo, GhostGrows, GetsOld, OldFile
<1>12. ListingFresh'
    BY <1>1, <1>2, <1>3, ChannelFacts DEF ChannelsInv, ListingFresh, ObservedStatus, Promoted, Bound, MovesTo, GhostGrows, GetsOld, OldFile
<1>13. FilesNamed'
    BY <1>1, <1>2, <1>3, ChannelFacts DEF ChannelsInv, FilesNamed, RowIs, ConnectWrote, WorkersTrue, WorkPcs, ConnectPcs, ErasePcs, MovesTo, GhostGrows, GetsOld, OldFile
<1>14. WithdrawnTrue'
    BY <1>1, <1>2, <1>3, ChannelFacts DEF ChannelsInv, WithdrawnTrue, Active, RowIs, MovesTo, GhostGrows, GetsOld, OldFile
<1>15. CancelledWroteNothing'
    BY <1>1, <1>2, <1>3, ChannelFacts DEF ChannelsInv, CancelledWroteNothing, RowIs, MovesTo, GhostGrows, GetsOld, OldFile, CredentialsTrue, Active, WorkersTrue, WorkPcs, ConnectPcs, ErasePcs
<1>16. QRHasItsWorker'
    BY <1>1, <1>2, <1>3, ChannelFacts DEF ChannelsInv, QRHasItsWorker, Active, RowIs, WorkersTrue, WorkPcs, ConnectPcs, ErasePcs, MovesTo, GhostGrows, GetsOld, OldFile
<1>17. AlwaysSettled'
    BY <1>1, <1>2, <1>3, ChannelFacts DEF ChannelsInv, AlwaysSettled, AtWork, Active, RowIs, WithdrawnTrue, MovesTo, GhostGrows, GetsOld, OldFile
<1> QED
    BY <1>4, <1>5, <1>6, <1>7, <1>8, <1>9, <1>10, <1>11, <1>12, <1>13, <1>14, <1>15, <1>16, <1>17 DEF ChannelsInv

\* The lock is taken, and the row says that it runs.
LEMMA LockTakenKeep == ASSUME ChannelsInv, NEW i \in ChannelOps, chanOps[i].pc = "lock", chanLock = 0, Active(i), chanLock' = i,
           UNCHANGED <<credentials, accountFile, binding, qrShown, listing, channelGhost, withdrawn, cancelling>>,
           chanOps' = [chanOps EXCEPT ![i].status = "RUNNING", ![i].pc = IF chanOps[i].type = "connect" THEN "show" ELSE "erase"] PROVE ChannelsInv'
<1>1. ChannelsType /\ WorkersTrue /\ OneActiveOp
    BY ChannelFacts
<1>2. /\ MovesTo(i, "RUNNING", IF chanOps[i].type = "connect" THEN "show" ELSE "erase", chanOps[i].account) /\ chanLock = 0
      /\ chanOps[i].type \in {"connect", "disconnect"}
  <2> DEFINE p == IF chanOps[i].type = "connect" THEN "show" ELSE "erase"
  <2>1. /\ p \in {"lock"} \cup WorkPcs /\ p \in {"none", "created", "lock"} \cup WorkPcs
        /\ "RUNNING" \in ChannelStatuses
    BY DEF WorkPcs, ConnectPcs, ErasePcs, ChannelStatuses
  <2>2. chanOps' = [chanOps EXCEPT ![i].status = "RUNNING", ![i].pc = p] /\ chanOps[i].account \in SomeAccount
    BY ChannelFacts, ChannelFields
  <2>3. chanOps[i].type \in {"connect", "disconnect"} /\ chanOps[i].status \in {"PENDING", "RUNNING"}
    BY <1>1, ChannelFacts, ChannelFields DEF WorkersTrue, Active
  <2> HIDE DEF p
  <2>4. RowIs(chanOps', i, "RUNNING", p, chanOps[i].account)
    <3>1. RowIs([chanOps EXCEPT ![i].status = "RUNNING", ![i].pc = p], i, "RUNNING", p, chanOps[i].account)
      BY <1>1, <2>1, <2>2, RowChanges
    <3> QED
      BY <2>2, <3>1
  <2>5. MovesTo(i, "RUNNING", p, chanOps[i].account)
    BY <2>1, <2>3, <2>4 DEF MovesTo
  <2> QED
    BY <2>3, <2>5 DEF p
<1>3. Started' = Started
    BY <1>1, <1>2, ChannelFacts DEF Started, RowIs, MovesTo, Active, WorkersTrue
<1>4. ChannelsType'
    BY <1>1, <1>2, <1>3, ChannelFacts DEF ChannelsInv, ChannelsType, RowIs, MovesTo, GhostGrows, GetsOld, OldFile
<1>5. OpsInOrder'
    BY <1>1, <1>2, <1>3, ChannelFacts DEF ChannelsInv, OpsInOrder, MovesTo, GhostGrows, GetsOld, OldFile
<1>6. OneActiveOp'
    BY <1>1, <1>2, <1>3, ChannelFacts DEF ChannelsInv, OneActiveOp, Latest, Active, RowIs, MovesTo, GhostGrows, GetsOld, OldFile
<1>7. WorkersTrue'
    BY <1>1, <1>2, <1>3, ChannelFacts DEF ChannelsInv, WorkersTrue, Active, RowIs, WorkPcs, ConnectPcs, ErasePcs, SomeAccount, MovesTo, GhostGrows, GetsOld, OldFile
<1>8. CredentialsTrue'
    BY <1>1, <1>2, <1>3, ChannelFacts DEF ChannelsInv, CredentialsTrue, Active, RowIs, MovesTo, GhostGrows, GetsOld, OldFile
<1>9. ConnectWrote'
    BY <1>1, <1>2, <1>3, ChannelFacts DEF ChannelsInv, ConnectWrote, RowIs, WorkersTrue, WorkPcs, ConnectPcs, ErasePcs, MovesTo, GhostGrows, GetsOld, OldFile
<1>10. ConnectedHolds'
    BY <1>1, <1>2, <1>3, ChannelFacts DEF ChannelsInv, ConnectedHolds, MovesTo, GhostGrows, GetsOld, OldFile
<1>11. SuccessHeld'
    BY <1>1, <1>2, <1>3, ChannelFacts DEF ChannelsInv, SuccessHeld, Latest, Succeeds, FilesHeld, RowIs, WorkersTrue, WorkPcs, ConnectPcs, ErasePcs, OneActiveOp, Active, MovesTo, GhostGrows, GetsOld, OldFile
<1>12. ListingFresh'
    BY <1>1, <1>2, <1>3, ChannelFacts DEF ChannelsInv, ListingFresh, ObservedStatus, Promoted, Bound, MovesTo, GhostGrows, GetsOld, OldFile
<1>13. FilesNamed'
    BY <1>1, <1>2, <1>3, ChannelFacts DEF ChannelsInv, FilesNamed, RowIs, ConnectWrote, WorkersTrue, WorkPcs, ConnectPcs, ErasePcs, MovesTo, GhostGrows, GetsOld, OldFile
<1>14. WithdrawnTrue'
    BY <1>1, <1>2, <1>3, ChannelFacts DEF ChannelsInv, WithdrawnTrue, Active, RowIs, MovesTo, GhostGrows, GetsOld, OldFile
<1>15. CancelledWroteNothing'
    BY <1>1, <1>2, <1>3, ChannelFacts DEF ChannelsInv, CancelledWroteNothing, RowIs, MovesTo, GhostGrows, GetsOld, OldFile
<1>16. QRHasItsWorker'
    BY <1>1, <1>2, <1>3, ChannelFacts DEF ChannelsInv, QRHasItsWorker, Active, RowIs, WorkersTrue, WorkPcs, ConnectPcs, ErasePcs, MovesTo, GhostGrows, GetsOld, OldFile
<1>17. AlwaysSettled'
    BY <1>1, <1>2, <1>3, ChannelFacts DEF ChannelsInv, AlwaysSettled, AtWork, Active, RowIs, WithdrawnTrue, MovesTo, GhostGrows, GetsOld, OldFile
<1> QED
    BY <1>4, <1>5, <1>6, <1>7, <1>8, <1>9, <1>10, <1>11, <1>12, <1>13, <1>14, <1>15, <1>16, <1>17 DEF ChannelsInv

\* WriteAssignments, when .env can be written.
Assigns(i) ==
    /\ Works(i, "write") /\ Goes(i, "file") /\ Outdated
    /\ credentials' = [account |-> chanOps[i].account, token |-> i]
    /\ channelGhost' = Forget({credentials.account} \ {chanOps[i].account}) /\ UNCHANGED <<accountFile, binding, cancelling>>

\* The assignments are written.
LEMMA AssignKeep ==
    ASSUME ChannelsInv, NEW i \in ChannelOps, Assigns(i)
    PROVE  ChannelsInv'
<1>1. ChannelsType /\ WorkersTrue /\ OneActiveOp
    BY ChannelFacts
<1>2. /\ MovesTo(i, chanOps[i].status, "file", chanOps[i].account) /\ chanLock = i /\ chanOps[i].pc = "write" /\ GetsOld
      /\ GhostGrows /\ channelGhost'.doubtful
      /\ credentials.account # chanOps[i].account => OldFile(credentials.account)
      /\ UNCHANGED <<accountFile, binding, chanLock, qrShown>> /\ chanOps[i].account \in Accounts /\ chanOps[i].type = "connect"
      /\ credentials'.account = chanOps[i].account /\ credentials'.token = i /\ i \in Nat
  <2>1. /\ MovesTo(i, chanOps[i].status, "file", chanOps[i].account) /\ chanLock = i /\ chanOps[i].pc = "write"
        /\ UNCHANGED <<chanLock, qrShown>> /\ chanOps[i].account \in Accounts /\ chanOps[i].type = "connect"
    BY <1>1, RowChanges, ChannelFacts, ChannelFields DEF Assigns, Works, Goes, MovesTo, WorkersTrue, WorkPcs, ConnectPcs, ErasePcs, Active
  <2>2. GhostGrows /\ channelGhost'.doubtful /\ (credentials.account # chanOps[i].account => OldFile(credentials.account))
    BY <1>1, <2>1, ChannelFacts, GhostForgets, {credentials.account} \ {chanOps[i].account} \in SUBSET SomeAccount DEF Assigns, GhostGrows, OldFile
  <2>3. credentials'.account = chanOps[i].account /\ credentials'.token = i /\ i \in Nat
    BY <2>1, ChannelFacts DEF Assigns, SomeAccount
  <2> QED
    BY <2>1, <2>2, <2>3, OutdatedMeans DEF Assigns
<1>3. Started' = Started
  <2>1. MovesTo(i, chanOps[i].status, "file", chanOps[i].account)
    BY <1>2
  <2> QED
    BY <2>1 DEF Started, MovesTo, RowIs
<1>4. ChannelsType'
  <2>1. credentials' \in [account : SomeAccount, token : Nat]
    BY <1>2 DEF Assigns, SomeAccount
  <2> QED
    BY <1>1, <1>2, <2>1 DEF ChannelsType, MovesTo, RowIs, GhostGrows, GetsOld
<1>5. OpsInOrder'
    BY <1>1, <1>2, <1>3, ChannelFacts DEF ChannelsInv, OpsInOrder, MovesTo, GhostGrows, GetsOld, OldFile
<1>6. OneActiveOp'
    BY <1>1, <1>2, <1>3, ChannelFacts DEF ChannelsInv, OneActiveOp, Latest, Active, RowIs, MovesTo, GhostGrows, GetsOld, OldFile
<1>7. WorkersTrue'
    BY <1>1, <1>2, <1>3, ChannelFacts DEF ChannelsInv, WorkersTrue, Active, RowIs, WorkPcs, ConnectPcs, ErasePcs, SomeAccount, MovesTo, GhostGrows, GetsOld, OldFile
<1>8. CredentialsTrue'
  <2>1. /\ credentials'.account # NoAccount /\ credentials'.token # 0 /\ credentials'.token = i
        /\ i \in Started' /\ chanOps'[i].pc = "file"
    <3>1. credentials'.account = chanOps[i].account /\ chanOps[i].account \in Accounts /\ credentials'.token = i
      BY <1>2
    <3>2. i \in Started' /\ chanOps'[i].pc = "file"
      BY <1>1, <1>2, <1>3 DEF MovesTo, RowIs, WorkersTrue
    <3> QED
      BY <3>1, <3>2, ChannelFacts
  <2> QED
    BY <2>1 DEF CredentialsTrue
<1>9. ConnectWrote'
    BY <1>1, <1>2, <1>3, ChannelFacts DEF ChannelsInv, ConnectWrote, RowIs, WorkersTrue, WorkPcs, ConnectPcs, ErasePcs, MovesTo, GhostGrows, GetsOld, OldFile, Assigns
<1>10. ConnectedHolds'
    BY <1>1, <1>2, <1>3, ChannelFacts DEF ChannelsInv, ConnectedHolds, MovesTo, GhostGrows, GetsOld, OldFile
<1>11. SuccessHeld'
    BY <1>1, <1>2, <1>3, ChannelFacts DEF ChannelsInv, SuccessHeld, Latest, Succeeds, FilesHeld, RowIs, WorkersTrue, WorkPcs, ConnectPcs, ErasePcs, OneActiveOp, Active, MovesTo, GhostGrows, GetsOld, OldFile
<1>12. ListingFresh'
    BY <1>1, <1>2, <1>3, ChannelFacts DEF ChannelsInv, ListingFresh, ObservedStatus, Promoted, Bound, MovesTo, GhostGrows, GetsOld, OldFile
<1>13. FilesNamed'
    BY <1>1, <1>2, <1>3, ChannelFacts DEF ChannelsInv, FilesNamed, RowIs, ConnectWrote, WorkersTrue, WorkPcs, ConnectPcs, ErasePcs, MovesTo, GhostGrows, GetsOld, OldFile
<1>14. WithdrawnTrue'
    BY <1>1, <1>2, <1>3, ChannelFacts DEF ChannelsInv, WithdrawnTrue, Active, RowIs, MovesTo, GhostGrows, GetsOld, OldFile
<1>15. CancelledWroteNothing'
    BY <1>1, <1>2, <1>3, ChannelFacts DEF ChannelsInv, CancelledWroteNothing, RowIs, MovesTo, GhostGrows, GetsOld, OldFile
<1>16. QRHasItsWorker'
  <2>1. MovesTo(i, chanOps[i].status, "file", chanOps[i].account) /\ qrShown' = qrShown /\ qrShown \subseteq ChannelOps
    BY <1>2, ChannelFacts
  <2>2. QRHasItsWorker
    BY DEF ChannelsInv
  <2> QED
    BY <2>1, <2>2 DEF QRHasItsWorker, MovesTo, RowIs, Active
<1>17. AlwaysSettled'
    BY <1>1, <1>2, <1>3, ChannelFacts DEF ChannelsInv, AlwaysSettled, AtWork, Active, RowIs, WithdrawnTrue, MovesTo, GhostGrows, GetsOld, OldFile
<1> QED
    BY <1>4, <1>5, <1>6, <1>7, <1>8, <1>9, <1>10, <1>11, <1>12, <1>13, <1>14, <1>15, <1>16, <1>17 DEF ChannelsInv

\* The account file is written.
LEMMA WriteFileKeep == ASSUME ChannelsInv, NEW i \in ChannelOps, Works(i, "file"), Goes(i, "bind"), Outdated, accountFile' = [accountFile EXCEPT ![chanOps[i].account] = i],
           UNCHANGED <<credentials, binding, channelGhost, cancelling>> PROVE ChannelsInv'
<1>1. ChannelsType /\ WorkersTrue /\ OneActiveOp
    BY ChannelFacts
<1>2. /\ MovesTo(i, chanOps[i].status, "bind", chanOps[i].account) /\ chanLock = i /\ chanOps[i].pc = "file" /\ GetsOld
      /\ accountFile' = [accountFile EXCEPT ![chanOps[i].account] = i]
      /\ UNCHANGED <<credentials, binding, channelGhost, chanLock, qrShown>> /\ chanOps[i].account \in Accounts
      /\ chanOps[i].type = "connect"
    BY <1>1, RowChanges, ChannelFacts, ChannelFields, OutdatedMeans DEF Works, Goes, MovesTo, WorkersTrue, WorkPcs, ConnectPcs, ErasePcs, Active
<1>3. Started' = Started
    BY <1>1, <1>2, ChannelFacts DEF Started, RowIs, MovesTo, Active, WorkersTrue
<1>4. ChannelsType'
    BY <1>1, <1>2, <1>3, ChannelFacts DEF ChannelsInv, ChannelsType, RowIs, MovesTo, GhostGrows, GetsOld, OldFile
<1>5. OpsInOrder'
    BY <1>1, <1>2, <1>3, ChannelFacts DEF ChannelsInv, OpsInOrder, MovesTo, GhostGrows, GetsOld, OldFile
<1>6. OneActiveOp'
    BY <1>1, <1>2, <1>3, ChannelFacts DEF ChannelsInv, OneActiveOp, Latest, Active, RowIs, MovesTo, GhostGrows, GetsOld, OldFile
<1>7. WorkersTrue'
    BY <1>1, <1>2, <1>3, ChannelFacts DEF ChannelsInv, WorkersTrue, Active, RowIs, WorkPcs, ConnectPcs, ErasePcs, SomeAccount, MovesTo, GhostGrows, GetsOld, OldFile
<1>8. CredentialsTrue'
    BY <1>1, <1>2, <1>3, ChannelFacts DEF ChannelsInv, CredentialsTrue, Active, RowIs, MovesTo, GhostGrows, GetsOld, OldFile
<1>9. ConnectWrote'
    BY <1>1, <1>2, <1>3, ChannelFacts DEF ChannelsInv, ConnectWrote, RowIs, WorkersTrue, WorkPcs, ConnectPcs, ErasePcs, MovesTo, GhostGrows, GetsOld, OldFile
<1>10. ConnectedHolds'
    BY <1>1, <1>2, <1>3, ChannelFacts DEF ChannelsInv, ConnectedHolds, MovesTo, GhostGrows, GetsOld, OldFile
<1>11. SuccessHeld'
    BY <1>1, <1>2, <1>3, ChannelFacts DEF ChannelsInv, SuccessHeld, Latest, Succeeds, FilesHeld, RowIs, WorkersTrue, WorkPcs, ConnectPcs, ErasePcs, OneActiveOp, Active, MovesTo, GhostGrows, GetsOld, OldFile
<1>12. ListingFresh'
    BY <1>1, <1>2, <1>3, ChannelFacts DEF ChannelsInv, ListingFresh, ObservedStatus, Promoted, Bound, MovesTo, GhostGrows, GetsOld, OldFile
<1>13. FilesNamed'
    BY <1>1, <1>2, <1>3, ChannelFacts DEF ChannelsInv, FilesNamed, RowIs, ConnectWrote, WorkersTrue, WorkPcs, ConnectPcs, ErasePcs, MovesTo, GhostGrows, GetsOld, OldFile
<1>14. WithdrawnTrue'
    BY <1>1, <1>2, <1>3, ChannelFacts DEF ChannelsInv, WithdrawnTrue, Active, RowIs, MovesTo, GhostGrows, GetsOld, OldFile
<1>15. CancelledWroteNothing'
    BY <1>1, <1>2, <1>3, ChannelFacts DEF ChannelsInv, CancelledWroteNothing, RowIs, MovesTo, GhostGrows, GetsOld, OldFile
<1>16. QRHasItsWorker'
    BY <1>1, <1>2, <1>3, ChannelFacts DEF ChannelsInv, QRHasItsWorker, Active, RowIs, WorkersTrue, WorkPcs, ConnectPcs, ErasePcs, MovesTo, GhostGrows, GetsOld, OldFile
<1>17. AlwaysSettled'
    BY <1>1, <1>2, <1>3, ChannelFacts DEF ChannelsInv, AlwaysSettled, AtWork, Active, RowIs, WithdrawnTrue, MovesTo, GhostGrows, GetsOld, OldFile
<1> QED
    BY <1>4, <1>5, <1>6, <1>7, <1>8, <1>9, <1>10, <1>11, <1>12, <1>13, <1>14, <1>15, <1>16, <1>17 DEF ChannelsInv

\* The account file cannot be written.
LEMMA FileFailsKeep == ASSUME ChannelsInv, NEW i \in ChannelOps, Works(i, "file"), Goes(i, "undo"),
           UNCHANGED <<credentials, accountFile, binding, channelGhost, listing, cancelling>> PROVE ChannelsInv'
<1>1. ChannelsType /\ WorkersTrue /\ OneActiveOp
    BY ChannelFacts
<1>2. /\ MovesTo(i, chanOps[i].status, "undo", chanOps[i].account) /\ chanLock = i /\ chanOps[i].pc = "file"
      /\ UNCHANGED <<chanLock, qrShown>> /\ chanOps[i].account \in Accounts /\ chanOps[i].type = "connect"
    BY <1>1, RowChanges, ChannelFacts, ChannelFields DEF Works, Goes, MovesTo, WorkersTrue, WorkPcs, ConnectPcs, ErasePcs, Active
<1>3. Started' = Started
    BY <1>1, <1>2, ChannelFacts DEF Started, RowIs, MovesTo, Active, WorkersTrue
<1>4. ChannelsType'
    BY <1>1, <1>2, <1>3, ChannelFacts DEF ChannelsInv, ChannelsType, RowIs, MovesTo, GhostGrows, GetsOld, OldFile
<1>5. OpsInOrder'
    BY <1>1, <1>2, <1>3, ChannelFacts DEF ChannelsInv, OpsInOrder, MovesTo, GhostGrows, GetsOld, OldFile
<1>6. OneActiveOp'
    BY <1>1, <1>2, <1>3, ChannelFacts DEF ChannelsInv, OneActiveOp, Latest, Active, RowIs, MovesTo, GhostGrows, GetsOld, OldFile
<1>7. WorkersTrue'
    BY <1>1, <1>2, <1>3, ChannelFacts DEF ChannelsInv, WorkersTrue, Active, RowIs, WorkPcs, ConnectPcs, ErasePcs, SomeAccount, MovesTo, GhostGrows, GetsOld, OldFile
<1>8. CredentialsTrue'
    BY <1>1, <1>2, <1>3, ChannelFacts DEF ChannelsInv, CredentialsTrue, Active, RowIs, MovesTo, GhostGrows, GetsOld, OldFile
<1>9. ConnectWrote'
    BY <1>1, <1>2, <1>3, ChannelFacts DEF ChannelsInv, ConnectWrote, RowIs, WorkersTrue, WorkPcs, ConnectPcs, ErasePcs, MovesTo, GhostGrows, GetsOld, OldFile
<1>10. ConnectedHolds'
    BY <1>1, <1>2, <1>3, ChannelFacts DEF ChannelsInv, ConnectedHolds, MovesTo, GhostGrows, GetsOld, OldFile
<1>11. SuccessHeld'
    BY <1>1, <1>2, <1>3, ChannelFacts DEF ChannelsInv, SuccessHeld, Latest, Succeeds, FilesHeld, RowIs, WorkersTrue, WorkPcs, ConnectPcs, ErasePcs, OneActiveOp, Active, MovesTo, GhostGrows, GetsOld, OldFile
<1>12. ListingFresh'
    BY <1>1, <1>2, <1>3, ChannelFacts DEF ChannelsInv, ListingFresh, ObservedStatus, Promoted, Bound, MovesTo, GhostGrows, GetsOld, OldFile
<1>13. FilesNamed'
    BY <1>1, <1>2, <1>3, ChannelFacts DEF ChannelsInv, FilesNamed, RowIs, ConnectWrote, WorkersTrue, WorkPcs, ConnectPcs, ErasePcs, MovesTo, GhostGrows, GetsOld, OldFile
<1>14. WithdrawnTrue'
    BY <1>1, <1>2, <1>3, ChannelFacts DEF ChannelsInv, WithdrawnTrue, Active, RowIs, MovesTo, GhostGrows, GetsOld, OldFile
<1>15. CancelledWroteNothing'
    BY <1>1, <1>2, <1>3, ChannelFacts DEF ChannelsInv, CancelledWroteNothing, RowIs, MovesTo, GhostGrows, GetsOld, OldFile
<1>16. QRHasItsWorker'
    BY <1>1, <1>2, <1>3, ChannelFacts DEF ChannelsInv, QRHasItsWorker, Active, RowIs, WorkersTrue, WorkPcs, ConnectPcs, ErasePcs, MovesTo, GhostGrows, GetsOld, OldFile
<1>17. AlwaysSettled'
    BY <1>1, <1>2, <1>3, ChannelFacts DEF ChannelsInv, AlwaysSettled, AtWork, Active, RowIs, WithdrawnTrue, MovesTo, GhostGrows, GetsOld, OldFile
<1> QED
    BY <1>4, <1>5, <1>6, <1>7, <1>8, <1>9, <1>10, <1>11, <1>12, <1>13, <1>14, <1>15, <1>16, <1>17 DEF ChannelsInv

\* The assignments are erased.
LEMMA EraseKeep == ASSUME ChannelsInv, NEW i \in ChannelOps, Works(i, "erase"), Outdated, credentials' = NoCredentials,
           chanOps' = [chanOps EXCEPT ![i].account = credentials.account,
                                      ![i].pc = IF credentials.account = NoAccount THEN "bind" ELSE "eraseFile"],
           channelGhost' = Forget({}), UNCHANGED <<chanLock, qrShown, withdrawn, accountFile, binding, cancelling>> PROVE ChannelsInv'
<1>1. ChannelsType /\ WorkersTrue /\ OneActiveOp
    BY ChannelFacts
<1>2. /\ MovesTo(i, chanOps[i].status, IF credentials.account = NoAccount THEN "bind" ELSE "eraseFile", credentials.account)
      /\ chanLock = i /\ chanOps[i].pc = "erase" /\ GetsOld /\ chanOps[i].type = "disconnect"
      /\ credentials' = NoCredentials /\ GhostGrows /\ channelGhost'.doubtful
      /\ UNCHANGED <<accountFile, binding, chanLock, qrShown>>
  <2>1. /\ MovesTo(i, chanOps[i].status, IF credentials.account = NoAccount THEN "bind" ELSE "eraseFile", credentials.account)
        /\ chanLock = i /\ chanOps[i].pc = "erase" /\ chanOps[i].type = "disconnect"
    <3> DEFINE p == IF credentials.account = NoAccount THEN "bind" ELSE "eraseFile"
    <3>1. /\ chanLock = i /\ chanOps[i].pc = "erase" /\ chanOps[i].type = "disconnect"
          /\ chanOps[i].status \in {"PENDING", "RUNNING"} /\ UNCHANGED <<withdrawn, cancelling>>
      BY <1>1 DEF Works, WorkersTrue, WorkPcs, ConnectPcs, ErasePcs, Active
    <3>2. /\ p \in {"lock"} \cup WorkPcs /\ p \in {"none", "created", "lock"} \cup WorkPcs
          /\ chanOps' = [chanOps EXCEPT ![i].account = credentials.account, ![i].pc = p]
      BY DEF WorkPcs, ConnectPcs, ErasePcs
    <3>3. credentials.account \in SomeAccount /\ chanOps[i].status \in ChannelStatuses
      BY ChannelFacts, ChannelFields
    <3> HIDE DEF p
    <3>4. RowIs(chanOps', i, chanOps[i].status, p, credentials.account)
      <4>1. RowIs([chanOps EXCEPT ![i].account = credentials.account, ![i].pc = p], i, chanOps[i].status, p, credentials.account)
        BY <1>1, <3>2, <3>3, RowChanges
      <4> QED
        BY <3>2, <4>1
    <3>5. MovesTo(i, chanOps[i].status, p, credentials.account)
      BY <3>1, <3>2, <3>4 DEF MovesTo
    <3> QED
      BY <3>1, <3>5 DEF p
  <2>2. GhostGrows /\ channelGhost'.doubtful
    BY <1>1, ChannelFacts, GhostForgets, {} \in SUBSET SomeAccount DEF GhostGrows
  <2> QED
    BY <2>1, <2>2, OutdatedMeans
<1>3. Started' = Started
    BY <1>1, <1>2, ChannelFacts DEF Started, RowIs, MovesTo, Active, WorkersTrue
<1>4. ChannelsType'
    BY <1>1, <1>2, <1>3, ChannelFacts DEF ChannelsInv, ChannelsType, RowIs, MovesTo, GhostGrows, GetsOld, OldFile
<1>5. OpsInOrder'
    BY <1>1, <1>2, <1>3, ChannelFacts DEF ChannelsInv, OpsInOrder, MovesTo, GhostGrows, GetsOld, OldFile
<1>6. OneActiveOp'
    BY <1>1, <1>2, <1>3, ChannelFacts DEF ChannelsInv, OneActiveOp, Latest, Active, RowIs, MovesTo, GhostGrows, GetsOld, OldFile
<1>7. WorkersTrue'
    BY <1>1, <1>2, <1>3, ChannelFacts DEF ChannelsInv, WorkersTrue, Active, RowIs, WorkPcs, ConnectPcs, ErasePcs, SomeAccount, MovesTo, GhostGrows, GetsOld, OldFile
<1>8. CredentialsTrue'
    BY <1>1, <1>2, <1>3, ChannelFacts DEF ChannelsInv, CredentialsTrue, Active, RowIs, MovesTo, GhostGrows, GetsOld, OldFile
<1>9. ConnectWrote'
    BY <1>1, <1>2, <1>3, ChannelFacts DEF ChannelsInv, ConnectWrote, RowIs, WorkersTrue, WorkPcs, ConnectPcs, ErasePcs, MovesTo, GhostGrows, GetsOld, OldFile
<1>10. ConnectedHolds'
    BY <1>1, <1>2, <1>3, ChannelFacts DEF ChannelsInv, ConnectedHolds, MovesTo, GhostGrows, GetsOld, OldFile
<1>11. SuccessHeld'
    BY <1>1, <1>2, <1>3, ChannelFacts DEF ChannelsInv, SuccessHeld, Latest, Succeeds, FilesHeld, RowIs, WorkersTrue, WorkPcs, ConnectPcs, ErasePcs, OneActiveOp, Active, MovesTo, GhostGrows, GetsOld, OldFile
<1>12. ListingFresh'
    BY <1>1, <1>2, <1>3, ChannelFacts DEF ChannelsInv, ListingFresh, ObservedStatus, Promoted, Bound, MovesTo, GhostGrows, GetsOld, OldFile
<1>13. FilesNamed'
    BY <1>1, <1>2, <1>3, ChannelFacts DEF ChannelsInv, FilesNamed, RowIs, ConnectWrote, WorkersTrue, WorkPcs, ConnectPcs, ErasePcs, MovesTo, GhostGrows, GetsOld, OldFile
<1>14. WithdrawnTrue'
    BY <1>1, <1>2, <1>3, ChannelFacts DEF ChannelsInv, WithdrawnTrue, Active, RowIs, MovesTo, GhostGrows, GetsOld, OldFile
<1>15. CancelledWroteNothing'
    BY <1>1, <1>2, <1>3, ChannelFacts DEF ChannelsInv, CancelledWroteNothing, RowIs, MovesTo, GhostGrows, GetsOld, OldFile
<1>16. QRHasItsWorker'
    BY <1>1, <1>2, <1>3, ChannelFacts DEF ChannelsInv, QRHasItsWorker, Active, RowIs, WorkersTrue, WorkPcs, ConnectPcs, ErasePcs, MovesTo, GhostGrows, GetsOld, OldFile
<1>17. AlwaysSettled'
    BY <1>1, <1>2, <1>3, ChannelFacts DEF ChannelsInv, AlwaysSettled, AtWork, Active, RowIs, WithdrawnTrue, MovesTo, GhostGrows, GetsOld, OldFile
<1> QED
    BY <1>4, <1>5, <1>6, <1>7, <1>8, <1>9, <1>10, <1>11, <1>12, <1>13, <1>14, <1>15, <1>16, <1>17 DEF ChannelsInv

\* The account file is erased.
LEMMA EraseFileKeep == ASSUME ChannelsInv, NEW i \in ChannelOps, Works(i, "eraseFile"), Goes(i, "bind"), Outdated, accountFile' = [accountFile EXCEPT ![chanOps[i].account] = 0],
           UNCHANGED <<credentials, binding, channelGhost, cancelling>> PROVE ChannelsInv'
<1>1. ChannelsType /\ WorkersTrue /\ OneActiveOp
    BY ChannelFacts
<1>2. /\ MovesTo(i, chanOps[i].status, "bind", chanOps[i].account) /\ chanLock = i /\ chanOps[i].pc = "eraseFile" /\ GetsOld
      /\ accountFile' = [accountFile EXCEPT ![chanOps[i].account] = 0]
      /\ UNCHANGED <<credentials, binding, channelGhost, chanLock, qrShown>> /\ chanOps[i].account \in Accounts
      /\ chanOps[i].type = "disconnect"
    BY <1>1, RowChanges, ChannelFacts, ChannelFields, OutdatedMeans DEF Works, Goes, MovesTo, WorkersTrue, WorkPcs, ConnectPcs, ErasePcs, Active
<1>3. Started' = Started
    BY <1>1, <1>2, ChannelFacts DEF Started, RowIs, MovesTo, Active, WorkersTrue
<1>4. ChannelsType'
    BY <1>1, <1>2, <1>3, ChannelFacts DEF ChannelsInv, ChannelsType, RowIs, MovesTo, GhostGrows, GetsOld, OldFile
<1>5. OpsInOrder'
    BY <1>1, <1>2, <1>3, ChannelFacts DEF ChannelsInv, OpsInOrder, MovesTo, GhostGrows, GetsOld, OldFile
<1>6. OneActiveOp'
    BY <1>1, <1>2, <1>3, ChannelFacts DEF ChannelsInv, OneActiveOp, Latest, Active, RowIs, MovesTo, GhostGrows, GetsOld, OldFile
<1>7. WorkersTrue'
    BY <1>1, <1>2, <1>3, ChannelFacts DEF ChannelsInv, WorkersTrue, Active, RowIs, WorkPcs, ConnectPcs, ErasePcs, SomeAccount, MovesTo, GhostGrows, GetsOld, OldFile
<1>8. CredentialsTrue'
    BY <1>1, <1>2, <1>3, ChannelFacts DEF ChannelsInv, CredentialsTrue, Active, RowIs, MovesTo, GhostGrows, GetsOld, OldFile
<1>9. ConnectWrote'
    BY <1>1, <1>2, <1>3, ChannelFacts DEF ChannelsInv, ConnectWrote, RowIs, WorkersTrue, WorkPcs, ConnectPcs, ErasePcs, MovesTo, GhostGrows, GetsOld, OldFile
<1>10. ConnectedHolds'
    BY <1>1, <1>2, <1>3, ChannelFacts DEF ChannelsInv, ConnectedHolds, MovesTo, GhostGrows, GetsOld, OldFile
<1>11. SuccessHeld'
    BY <1>1, <1>2, <1>3, ChannelFacts DEF ChannelsInv, SuccessHeld, Latest, Succeeds, FilesHeld, RowIs, WorkersTrue, WorkPcs, ConnectPcs, ErasePcs, OneActiveOp, Active, MovesTo, GhostGrows, GetsOld, OldFile
<1>12. ListingFresh'
    BY <1>1, <1>2, <1>3, ChannelFacts DEF ChannelsInv, ListingFresh, ObservedStatus, Promoted, Bound, MovesTo, GhostGrows, GetsOld, OldFile
<1>13. FilesNamed'
    BY <1>1, <1>2, <1>3, ChannelFacts DEF ChannelsInv, FilesNamed, RowIs, ConnectWrote, WorkersTrue, WorkPcs, ConnectPcs, ErasePcs, MovesTo, GhostGrows, GetsOld, OldFile
<1>14. WithdrawnTrue'
    BY <1>1, <1>2, <1>3, ChannelFacts DEF ChannelsInv, WithdrawnTrue, Active, RowIs, MovesTo, GhostGrows, GetsOld, OldFile
<1>15. CancelledWroteNothing'
    BY <1>1, <1>2, <1>3, ChannelFacts DEF ChannelsInv, CancelledWroteNothing, RowIs, MovesTo, GhostGrows, GetsOld, OldFile
<1>16. QRHasItsWorker'
    BY <1>1, <1>2, <1>3, ChannelFacts DEF ChannelsInv, QRHasItsWorker, Active, RowIs, WorkersTrue, WorkPcs, ConnectPcs, ErasePcs, MovesTo, GhostGrows, GetsOld, OldFile
<1>17. AlwaysSettled'
    BY <1>1, <1>2, <1>3, ChannelFacts DEF ChannelsInv, AlwaysSettled, AtWork, Active, RowIs, WithdrawnTrue, MovesTo, GhostGrows, GetsOld, OldFile
<1> QED
    BY <1>4, <1>5, <1>6, <1>7, <1>8, <1>9, <1>10, <1>11, <1>12, <1>13, <1>14, <1>15, <1>16, <1>17 DEF ChannelsInv

\* The row gets the state of the manager.
LEMMA BindRowKeep == ASSUME ChannelsInv, NEW i \in ChannelOps, Works(i, "bind"), Goes(i, "finish"), Outdated,
           binding' = (IF chanOps[i].type = "connect" THEN Bound("CONNECTED", chanOps[i].account) ELSE Bound("NOT_CONFIGURED", NoAccount)),
           channelGhost' = [channelGhost EXCEPT !.demoted = FALSE, !.doubtful = FALSE],
           UNCHANGED <<credentials, accountFile, cancelling>> PROVE ChannelsInv'
<1>1. ChannelsType /\ WorkersTrue /\ OneActiveOp
    BY ChannelFacts
<1>2. /\ MovesTo(i, chanOps[i].status, "finish", chanOps[i].account) /\ chanLock = i /\ chanOps[i].pc = "bind" /\ GetsOld
      /\ binding' = (IF chanOps[i].type = "connect" THEN Bound("CONNECTED", chanOps[i].account) ELSE Bound("NOT_CONFIGURED", NoAccount))
      /\ channelGhost' \in ChannelGhosts /\ channelGhost'.unsettled = channelGhost.unsettled
      /\ channelGhost'.uncancelled = channelGhost.uncancelled /\ channelGhost'.forgotten = channelGhost.forgotten
      /\ UNCHANGED <<credentials, accountFile, chanLock, qrShown>> /\ chanOps[i].account \in SomeAccount /\ binding' \in Bindings
      /\ ConnectWrote
  <2>1. /\ MovesTo(i, chanOps[i].status, "finish", chanOps[i].account) /\ chanLock = i /\ chanOps[i].pc = "bind" /\ GetsOld
        /\ UNCHANGED <<chanLock, qrShown>> /\ chanOps[i].account \in SomeAccount
    BY <1>1, RowChanges, ChannelFacts, ChannelFields, OutdatedMeans DEF Works, Goes, MovesTo, WorkersTrue, WorkPcs, ConnectPcs, ErasePcs, Active
  <2>2. /\ channelGhost' \in ChannelGhosts /\ channelGhost'.unsettled = channelGhost.unsettled
        /\ channelGhost'.uncancelled = channelGhost.uncancelled /\ channelGhost'.forgotten = channelGhost.forgotten
    BY ChannelFacts, GhostRewritten
  <2>3. binding' \in Bindings
    BY <2>1 DEF Bindings, Bound, SomeAccount
  <2> QED
    BY <2>1, <2>2, <2>3 DEF ChannelsInv
<1>3. Started' = Started
    BY <1>1, <1>2, ChannelFacts DEF Started, RowIs, MovesTo, Active, WorkersTrue
<1>4. ChannelsType'
    BY <1>1, <1>2, <1>3, ChannelFacts DEF ChannelsInv, ChannelsType, RowIs, MovesTo, GhostGrows, GetsOld, OldFile
<1>5. OpsInOrder'
    BY <1>1, <1>2, <1>3, ChannelFacts DEF ChannelsInv, OpsInOrder, MovesTo, GhostGrows, GetsOld, OldFile
<1>6. OneActiveOp'
    BY <1>1, <1>2, <1>3, ChannelFacts DEF ChannelsInv, OneActiveOp, Latest, Active, RowIs, MovesTo, GhostGrows, GetsOld, OldFile
<1>7. WorkersTrue'
    BY <1>1, <1>2, <1>3, ChannelFacts DEF ChannelsInv, WorkersTrue, Active, RowIs, WorkPcs, ConnectPcs, ErasePcs, SomeAccount, MovesTo, GhostGrows, GetsOld, OldFile
<1>8. CredentialsTrue'
    BY <1>1, <1>2, <1>3, ChannelFacts DEF ChannelsInv, CredentialsTrue, Active, RowIs, MovesTo, GhostGrows, GetsOld, OldFile
<1>9. ConnectWrote'
    BY <1>1, <1>2, <1>3, ChannelFacts DEF ChannelsInv, ConnectWrote, RowIs, WorkersTrue, WorkPcs, ConnectPcs, ErasePcs, MovesTo, GhostGrows, GetsOld, OldFile
<1>10. ConnectedHolds'
    BY <1>1, <1>2, <1>3, ChannelFacts DEF ChannelsInv, ConnectedHolds, MovesTo, GhostGrows, GetsOld, OldFile, Bound, ConnectWrote
<1>11. SuccessHeld'
    BY <1>1, <1>2, <1>3, ChannelFacts DEF ChannelsInv, SuccessHeld, Latest, Succeeds, FilesHeld, RowIs, WorkersTrue, WorkPcs, ConnectPcs, ErasePcs, OneActiveOp, Active, MovesTo, GhostGrows, GetsOld, OldFile, Bound, ConnectWrote
<1>12. ListingFresh'
    BY <1>1, <1>2, <1>3, ChannelFacts DEF ChannelsInv, ListingFresh, ObservedStatus, Promoted, Bound, MovesTo, GhostGrows, GetsOld, OldFile
<1>13. FilesNamed'
    BY <1>1, <1>2, <1>3, ChannelFacts DEF ChannelsInv, FilesNamed, RowIs, ConnectWrote, WorkersTrue, WorkPcs, ConnectPcs, ErasePcs, MovesTo, GhostGrows, GetsOld, OldFile
<1>14. WithdrawnTrue'
    BY <1>1, <1>2, <1>3, ChannelFacts DEF ChannelsInv, WithdrawnTrue, Active, RowIs, MovesTo, GhostGrows, GetsOld, OldFile
<1>15. CancelledWroteNothing'
    BY <1>1, <1>2, <1>3, ChannelFacts DEF ChannelsInv, CancelledWroteNothing, RowIs, MovesTo, GhostGrows, GetsOld, OldFile
<1>16. QRHasItsWorker'
    BY <1>1, <1>2, <1>3, ChannelFacts DEF ChannelsInv, QRHasItsWorker, Active, RowIs, WorkersTrue, WorkPcs, ConnectPcs, ErasePcs, MovesTo, GhostGrows, GetsOld, OldFile
<1>17. AlwaysSettled'
    BY <1>1, <1>2, <1>3, ChannelFacts DEF ChannelsInv, AlwaysSettled, AtWork, Active, RowIs, WithdrawnTrue, MovesTo, GhostGrows, GetsOld, OldFile
<1> QED
    BY <1>4, <1>5, <1>6, <1>7, <1>8, <1>9, <1>10, <1>11, <1>12, <1>13, <1>14, <1>15, <1>16, <1>17 DEF ChannelsInv

\* What the files say, and what the row makes of it.
LEMMA WhatIsObserved ==
    ASSUME ChannelsInv
    PROVE  /\ ObservedStatus \in Bindings /\ ObservedStatus.state \in {"NOT_CONFIGURED", "UNKNOWN"}
           /\ ObservedStatus.account # NoAccount => ObservedStatus.account = credentials.account
           /\ FilesHeld => ObservedStatus = Bound("UNKNOWN", credentials.account)
<1>1. NoCredentials.account = NoAccount /\ NoAccount \notin Accounts /\ credentials.account \in SomeAccount
    BY ChannelFacts
<1>2. /\ \A a \in SomeAccount : Bound("UNKNOWN", a) \in Bindings /\ Bound("UNKNOWN", a).state = "UNKNOWN" /\ Bound("UNKNOWN", a).account = a
      /\ Bound("NOT_CONFIGURED", NoAccount) \in Bindings /\ Bound("NOT_CONFIGURED", NoAccount).state = "NOT_CONFIGURED"
      /\ Bound("NOT_CONFIGURED", NoAccount).account = NoAccount /\ NoAccount \in SomeAccount
    BY DEF Bound, Bindings, SomeAccount
<1>3. ObservedStatus \in {Bound("NOT_CONFIGURED", NoAccount), Bound("UNKNOWN", credentials.account), Bound("UNKNOWN", NoAccount)}
    BY DEF ObservedStatus
<1>4. FilesHeld => ObservedStatus = Bound("UNKNOWN", credentials.account)
    BY <1>1 DEF FilesHeld, ObservedStatus
<1> QED
    BY <1>1, <1>2, <1>3, <1>4

\* A binding is made of its state and its account.
LEMMA BoundParts ==
    /\ \A b \in Bindings : Bound(b.state, b.account) = b
    /\ \A st \in {"NOT_CONFIGURED", "UNKNOWN", "CONNECTED", "none"}, a \in SomeAccount :
          Bound(st, a).state = st /\ Bound(st, a).account = a /\ (st # "none" => Bound(st, a) \in Bindings)
BY DEF Bound, Bindings

\* A row that says CONNECTED promotes what the files say of its account.
LEMMA WhatIsPromoted ==
    /\ \A st \in {"NOT_CONFIGURED", "UNKNOWN", "CONNECTED", "none"}, a \in SomeAccount :
          /\ Promoted(Bound(st, a)).account = a /\ Promoted(Bound(st, a)).state \in {st, "CONNECTED"}
          /\ Promoted(Bound(st, a)).state = "CONNECTED" => st = "CONNECTED" \/ (st = "UNKNOWN" /\ a # NoAccount)
    /\ ChannelsInv /\ FilesHeld => Promoted(ObservedStatus) = Bound("CONNECTED", credentials.account)
<1>1. ASSUME NEW st \in {"NOT_CONFIGURED", "UNKNOWN", "CONNECTED", "none"}, NEW a \in SomeAccount
      PROVE  /\ Promoted(Bound(st, a)).account = a /\ Promoted(Bound(st, a)).state \in {st, "CONNECTED"}
             /\ Promoted(Bound(st, a)).state = "CONNECTED" => st = "CONNECTED" \/ (st = "UNKNOWN" /\ a # NoAccount)
    BY BoundParts DEF Promoted
<1>2. ASSUME ChannelsInv, FilesHeld PROVE Promoted(ObservedStatus) = Bound("CONNECTED", credentials.account)
  <2>1. /\ ObservedStatus = Bound("UNKNOWN", credentials.account) /\ credentials.account \in SomeAccount
        /\ credentials.account # NoAccount /\ binding = Bound("CONNECTED", credentials.account)
    BY <1>2, WhatIsObserved, ChannelFacts DEF FilesHeld, SomeAccount
  <2>2. ObservedStatus.state = "UNKNOWN" /\ ObservedStatus.account = credentials.account
        /\ binding.state = "CONNECTED" /\ binding.account = credentials.account
    BY <2>1, BoundParts
  <2> QED
    BY <2>1, <2>2 DEF Promoted
<1> QED
    BY <1>1, <1>2

\* A listing reads the files.
LEMMA ReadStatusKeep ==
    ASSUME ChannelsInv, ReadStatus
    PROVE  ChannelsInv'
<1>1. ChannelsType /\ WorkersTrue /\ OneActiveOp
    BY ChannelFacts
<1>2. /\ listing' \in Listings /\ listing'.pc = "row" /\ ~listing'.old /\ listing'.state # "none"
      /\ Bound(listing'.state, listing'.account) = ObservedStatus
      /\ UNCHANGED <<credentials, accountFile, binding, chanOps, chanLock, qrShown, channelGhost, withdrawn, cancelling>>
  <2> DEFINE b == ObservedStatus
  <2>1. b \in Bindings /\ b.state \in {"NOT_CONFIGURED", "UNKNOWN"} /\ b.account \in SomeAccount
    BY WhatIsObserved DEF Bindings
  <2>2. listing' = [pc |-> "row", state |-> b.state, account |-> b.account, old |-> FALSE]
    BY DEF ReadStatus
  <2> HIDE DEF b
  <2>3. /\ listing' \in Listings /\ listing'.pc = "row" /\ ~listing'.old /\ listing'.state = b.state /\ listing'.account = b.account
    BY <2>1, <2>2 DEF Listings
  <2>4. Bound(listing'.state, listing'.account) = b /\ listing'.state # "none"
    BY <2>1, <2>3, BoundParts
  <2> QED
    BY <2>3, <2>4 DEF ReadStatus, ChannelFiles, Requests, b
<1>3. Started' = Started
    BY <1>1, <1>2, ChannelFacts DEF Started, RowIs, MovesTo, Active, WorkersTrue
<1>4. ChannelsType'
    BY <1>1, <1>2, <1>3, ChannelFacts DEF ChannelsInv, ChannelsType, RowIs, MovesTo, GhostGrows, GetsOld, OldFile
<1>5. OpsInOrder'
    BY <1>1, <1>2, <1>3, ChannelFacts DEF ChannelsInv, OpsInOrder, MovesTo, GhostGrows, GetsOld, OldFile
<1>6. OneActiveOp'
    BY <1>1, <1>2, <1>3, ChannelFacts DEF ChannelsInv, OneActiveOp, Latest, Active, RowIs, MovesTo, GhostGrows, GetsOld, OldFile
<1>7. WorkersTrue'
    BY <1>1, <1>2, <1>3, ChannelFacts DEF ChannelsInv, WorkersTrue, Active, RowIs, WorkPcs, ConnectPcs, ErasePcs, SomeAccount, MovesTo, GhostGrows, GetsOld, OldFile
<1>8. CredentialsTrue'
    BY <1>1, <1>2, <1>3, ChannelFacts DEF ChannelsInv, CredentialsTrue, Active, RowIs, MovesTo, GhostGrows, GetsOld, OldFile
<1>9. ConnectWrote'
    BY <1>1, <1>2, <1>3, ChannelFacts DEF ChannelsInv, ConnectWrote, RowIs, WorkersTrue, WorkPcs, ConnectPcs, ErasePcs, MovesTo, GhostGrows, GetsOld, OldFile
<1>10. ConnectedHolds'
    BY <1>1, <1>2, <1>3, ChannelFacts DEF ChannelsInv, ConnectedHolds, MovesTo, GhostGrows, GetsOld, OldFile
<1>11. SuccessHeld'
    BY <1>1, <1>2, <1>3, ChannelFacts DEF ChannelsInv, SuccessHeld, Latest, Succeeds, FilesHeld, RowIs, WorkersTrue, WorkPcs, ConnectPcs, ErasePcs, OneActiveOp, Active, MovesTo, GhostGrows, GetsOld, OldFile
<1>12. ListingFresh'
    BY <1>1, <1>2, <1>3, ChannelFacts DEF ChannelsInv, ListingFresh, ObservedStatus, Promoted, Bound, MovesTo, GhostGrows, GetsOld, OldFile
<1>13. FilesNamed'
    BY <1>1, <1>2, <1>3, ChannelFacts DEF ChannelsInv, FilesNamed, RowIs, ConnectWrote, WorkersTrue, WorkPcs, ConnectPcs, ErasePcs, MovesTo, GhostGrows, GetsOld, OldFile
<1>14. WithdrawnTrue'
    BY <1>1, <1>2, <1>3, ChannelFacts DEF ChannelsInv, WithdrawnTrue, Active, RowIs, MovesTo, GhostGrows, GetsOld, OldFile
<1>15. CancelledWroteNothing'
    BY <1>1, <1>2, <1>3, ChannelFacts DEF ChannelsInv, CancelledWroteNothing, RowIs, MovesTo, GhostGrows, GetsOld, OldFile
<1>16. QRHasItsWorker'
    BY <1>1, <1>2, <1>3, ChannelFacts DEF ChannelsInv, QRHasItsWorker, Active, RowIs, WorkersTrue, WorkPcs, ConnectPcs, ErasePcs, MovesTo, GhostGrows, GetsOld, OldFile
<1>17. AlwaysSettled'
    BY <1>1, <1>2, <1>3, ChannelFacts DEF ChannelsInv, AlwaysSettled, AtWork, Active, RowIs, WithdrawnTrue, MovesTo, GhostGrows, GetsOld, OldFile
<1> QED
    BY <1>4, <1>5, <1>6, <1>7, <1>8, <1>9, <1>10, <1>11, <1>12, <1>13, <1>14, <1>15, <1>16, <1>17 DEF ChannelsInv

\* A listing reads the row.
LEMMA ReadRowKeep ==
    ASSUME ChannelsInv, ReadRow
    PROVE  ChannelsInv'
<1>1. ChannelsType /\ WorkersTrue /\ OneActiveOp
    BY ChannelFacts
<1>2. /\ listing' \in Listings /\ listing'.pc = "write" /\ (listing'.old <=> listing.old) /\ listing.pc = "row" /\ listing'.state # "none"
      /\ Bound(listing'.state, listing'.account) = Promoted(Bound(listing.state, listing.account))
      /\ UNCHANGED <<credentials, accountFile, binding, chanOps, chanLock, qrShown, channelGhost, withdrawn, cancelling>>
  <2> DEFINE b == Promoted(Bound(listing.state, listing.account))
  <2>1. /\ listing.state \in {"NOT_CONFIGURED", "UNKNOWN", "CONNECTED"} /\ listing.account \in SomeAccount
        /\ listing \in Listings /\ listing.pc = "row" /\ listing.old \in BOOLEAN
    BY ChannelFacts, ChannelFields DEF ReadRow, ChannelsInv, ListingFresh
  <2>2. /\ b.state \in {"NOT_CONFIGURED", "UNKNOWN", "CONNECTED"} /\ b.account \in SomeAccount
        /\ b \in Bindings
    <3>1. b \in {Bound(listing.state, listing.account), Bound("CONNECTED", Bound(listing.state, listing.account).account)}
      BY DEF Promoted
    <3> QED
      BY <2>1, <3>1, BoundParts
  <2>3. listing' = [listing EXCEPT !.pc = "write", !.state = b.state, !.account = b.account]
    BY DEF ReadRow
  <2> HIDE DEF b
  <2>4. /\ listing' \in Listings /\ listing'.pc = "write" /\ (listing'.old <=> listing.old)
        /\ listing'.state = b.state /\ listing'.account = b.account
    BY <2>1, <2>2, <2>3 DEF Listings
  <2>5. Bound(listing'.state, listing'.account) = b /\ listing'.state # "none"
    BY <2>2, <2>4, BoundParts
  <2> QED
    BY <2>1, <2>4, <2>5 DEF ReadRow, ChannelFiles, Requests, b
<1>3. Started' = Started
    BY <1>1, <1>2, ChannelFacts DEF Started, RowIs, MovesTo, Active, WorkersTrue
<1>4. ChannelsType'
    BY <1>1, <1>2, <1>3, ChannelFacts DEF ChannelsInv, ChannelsType, RowIs, MovesTo, GhostGrows, GetsOld, OldFile
<1>5. OpsInOrder'
    BY <1>1, <1>2, <1>3, ChannelFacts DEF ChannelsInv, OpsInOrder, MovesTo, GhostGrows, GetsOld, OldFile
<1>6. OneActiveOp'
    BY <1>1, <1>2, <1>3, ChannelFacts DEF ChannelsInv, OneActiveOp, Latest, Active, RowIs, MovesTo, GhostGrows, GetsOld, OldFile
<1>7. WorkersTrue'
    BY <1>1, <1>2, <1>3, ChannelFacts DEF ChannelsInv, WorkersTrue, Active, RowIs, WorkPcs, ConnectPcs, ErasePcs, SomeAccount, MovesTo, GhostGrows, GetsOld, OldFile
<1>8. CredentialsTrue'
    BY <1>1, <1>2, <1>3, ChannelFacts DEF ChannelsInv, CredentialsTrue, Active, RowIs, MovesTo, GhostGrows, GetsOld, OldFile
<1>9. ConnectWrote'
    BY <1>1, <1>2, <1>3, ChannelFacts DEF ChannelsInv, ConnectWrote, RowIs, WorkersTrue, WorkPcs, ConnectPcs, ErasePcs, MovesTo, GhostGrows, GetsOld, OldFile
<1>10. ConnectedHolds'
    BY <1>1, <1>2, <1>3, ChannelFacts DEF ChannelsInv, ConnectedHolds, MovesTo, GhostGrows, GetsOld, OldFile
<1>11. SuccessHeld'
    BY <1>1, <1>2, <1>3, ChannelFacts DEF ChannelsInv, SuccessHeld, Latest, Succeeds, FilesHeld, RowIs, WorkersTrue, WorkPcs, ConnectPcs, ErasePcs, OneActiveOp, Active, MovesTo, GhostGrows, GetsOld, OldFile
<1>12. ListingFresh'
    BY <1>1, <1>2, <1>3, ChannelFacts DEF ChannelsInv, ListingFresh, ObservedStatus, Promoted, Bound, MovesTo, GhostGrows, GetsOld, OldFile
<1>13. FilesNamed'
    BY <1>1, <1>2, <1>3, ChannelFacts DEF ChannelsInv, FilesNamed, RowIs, ConnectWrote, WorkersTrue, WorkPcs, ConnectPcs, ErasePcs, MovesTo, GhostGrows, GetsOld, OldFile
<1>14. WithdrawnTrue'
    BY <1>1, <1>2, <1>3, ChannelFacts DEF ChannelsInv, WithdrawnTrue, Active, RowIs, MovesTo, GhostGrows, GetsOld, OldFile
<1>15. CancelledWroteNothing'
    BY <1>1, <1>2, <1>3, ChannelFacts DEF ChannelsInv, CancelledWroteNothing, RowIs, MovesTo, GhostGrows, GetsOld, OldFile
<1>16. QRHasItsWorker'
    BY <1>1, <1>2, <1>3, ChannelFacts DEF ChannelsInv, QRHasItsWorker, Active, RowIs, WorkersTrue, WorkPcs, ConnectPcs, ErasePcs, MovesTo, GhostGrows, GetsOld, OldFile
<1>17. AlwaysSettled'
    BY <1>1, <1>2, <1>3, ChannelFacts DEF ChannelsInv, AlwaysSettled, AtWork, Active, RowIs, WithdrawnTrue, MovesTo, GhostGrows, GetsOld, OldFile
<1> QED
    BY <1>4, <1>5, <1>6, <1>7, <1>8, <1>9, <1>10, <1>11, <1>12, <1>13, <1>14, <1>15, <1>16, <1>17 DEF ChannelsInv

\* A listing writes the row.
LEMMA WriteRowKeep ==
    ASSUME ChannelsInv, WriteRow
    PROVE  ChannelsInv'
<1>1. ChannelsType /\ WorkersTrue /\ OneActiveOp
    BY ChannelFacts
<1>2. /\ listing' \in Listings /\ listing'.pc = "none" /\ ~listing'.old /\ binding' \in Bindings
      /\ channelGhost' \in ChannelGhosts /\ channelGhost'.unsettled = channelGhost.unsettled
      /\ channelGhost'.uncancelled = channelGhost.uncancelled /\ channelGhost'.forgotten = channelGhost.forgotten
      /\ UNCHANGED <<credentials, accountFile, chanOps, chanLock, qrShown, withdrawn, cancelling>>
      /\ \/ channelGhost'.demoted /\ channelGhost'.doubtful
         \/ /\ channelGhost.demoted <=> channelGhost'.demoted
            /\ binding'.state = "CONNECTED" => binding'.account = credentials.account
            /\ FilesHeld => binding' = Bound("CONNECTED", credentials.account)
  <2>1. /\ listing.state \in {"NOT_CONFIGURED", "UNKNOWN", "CONNECTED"} /\ listing.account \in SomeAccount
        /\ listing \in Listings /\ listing.pc = "write" /\ listing.old \in BOOLEAN /\ channelGhost \in ChannelGhosts
        /\ binding' = Bound(listing.state, listing.account)
    BY ChannelFacts, ChannelFields DEF WriteRow, ChannelsInv, ListingFresh
  <2> DEFINE d1 == channelGhost.demoted \/ listing.old
             d2 == listing.old
  <2>2. d1 \in BOOLEAN /\ d2 \in BOOLEAN /\ channelGhost' = [channelGhost EXCEPT !.demoted = d1, !.doubtful = d2]
    BY <2>1, ChannelFields DEF WriteRow
  <2> HIDE DEF d1, d2
  <2>3. /\ channelGhost' \in ChannelGhosts /\ channelGhost'.unsettled = channelGhost.unsettled
        /\ channelGhost'.uncancelled = channelGhost.uncancelled /\ channelGhost'.forgotten = channelGhost.forgotten
        /\ (channelGhost'.demoted <=> d1) /\ (channelGhost'.doubtful <=> d2)
    <3>1. /\ channelGhost' \in ChannelGhosts /\ channelGhost'.unsettled = channelGhost.unsettled
          /\ channelGhost'.uncancelled = channelGhost.uncancelled /\ channelGhost'.forgotten = channelGhost.forgotten
      <4>1. /\ channelGhost'.unsettled = channelGhost.unsettled /\ channelGhost'.uncancelled = channelGhost.uncancelled
            /\ channelGhost'.forgotten = channelGhost.forgotten
        BY <2>1, <2>2 DEF ChannelGhosts
      <4>2. channelGhost' \in ChannelGhosts
        BY <2>1, <2>2 DEF ChannelGhosts
      <4> QED
        BY <4>1, <4>2
    <3>2. channelGhost'.demoted <=> d1
      BY <2>1, <2>2 DEF ChannelGhosts
    <3>3. channelGhost'.doubtful <=> d2
      BY <2>1, <2>2 DEF ChannelGhosts
    <3> QED
      BY <3>1, <3>2, <3>3
  <2>4. binding' \in Bindings
    BY <2>1, BoundParts
  <2>5. listing' \in Listings /\ listing'.pc = "none" /\ ~listing'.old
    BY DEF WriteRow, NotListing, Listings, SomeAccount
  <2>6. CASE listing.old
    BY <2>3, <2>4, <2>5, <2>6 DEF WriteRow, ChannelFiles, Requests, d1, d2
  <2>7. CASE ~listing.old
    <3>1. binding' = Promoted(ObservedStatus)
      BY <2>1, <2>7 DEF ChannelsInv, ListingFresh
    <3>2. binding'.state = "CONNECTED" => binding'.account = credentials.account
      <4>1. /\ ObservedStatus = Bound(ObservedStatus.state, ObservedStatus.account)
            /\ ObservedStatus.state \in {"NOT_CONFIGURED", "UNKNOWN"} /\ ObservedStatus.account \in SomeAccount
        BY WhatIsObserved, BoundParts DEF Bindings
      <4>2. binding'.account = ObservedStatus.account /\ (binding'.state = "CONNECTED" => ObservedStatus.account # NoAccount)
        BY <3>1, <4>1, WhatIsPromoted
      <4> QED
        BY <4>2, WhatIsObserved
    <3>3. FilesHeld => binding' = Bound("CONNECTED", credentials.account)
      BY <3>1, WhatIsPromoted
    <3>4. channelGhost.demoted <=> channelGhost'.demoted
      BY <2>1, <2>3, <2>7, ChannelFields DEF d1
    <3> QED
      BY <2>3, <2>4, <2>5, <3>2, <3>3, <3>4 DEF WriteRow, ChannelFiles, Requests
  <2> QED
    BY <2>1, <2>6, <2>7
<1>3. Started' = Started
    BY <1>1, <1>2, ChannelFacts DEF Started, RowIs, MovesTo, Active, WorkersTrue
<1>4. ChannelsType'
    BY <1>1, <1>2, <1>3, ChannelFacts DEF ChannelsInv, ChannelsType, RowIs, MovesTo, GhostGrows, GetsOld, OldFile
<1>5. OpsInOrder'
    BY <1>1, <1>2, <1>3, ChannelFacts DEF ChannelsInv, OpsInOrder, MovesTo, GhostGrows, GetsOld, OldFile
<1>6. OneActiveOp'
    BY <1>1, <1>2, <1>3, ChannelFacts DEF ChannelsInv, OneActiveOp, Latest, Active, RowIs, MovesTo, GhostGrows, GetsOld, OldFile
<1>7. WorkersTrue'
    BY <1>1, <1>2, <1>3, ChannelFacts DEF ChannelsInv, WorkersTrue, Active, RowIs, WorkPcs, ConnectPcs, ErasePcs, SomeAccount, MovesTo, GhostGrows, GetsOld, OldFile
<1>8. CredentialsTrue'
    BY <1>1, <1>2, <1>3, ChannelFacts DEF ChannelsInv, CredentialsTrue, Active, RowIs, MovesTo, GhostGrows, GetsOld, OldFile
<1>9. ConnectWrote'
    BY <1>1, <1>2, <1>3, ChannelFacts DEF ChannelsInv, ConnectWrote, RowIs, WorkersTrue, WorkPcs, ConnectPcs, ErasePcs, MovesTo, GhostGrows, GetsOld, OldFile
<1>10. ConnectedHolds'
    BY <1>1, <1>2, <1>3, ChannelFacts DEF ChannelsInv, ConnectedHolds, MovesTo, GhostGrows, GetsOld, OldFile
<1>11. SuccessHeld'
    BY <1>1, <1>2, <1>3, ChannelFacts DEF ChannelsInv, SuccessHeld, Latest, Succeeds, FilesHeld, RowIs, WorkersTrue, WorkPcs, ConnectPcs, ErasePcs, OneActiveOp, Active, MovesTo, GhostGrows, GetsOld, OldFile
<1>12. ListingFresh'
    BY <1>1, <1>2, <1>3, ChannelFacts DEF ChannelsInv, ListingFresh, ObservedStatus, Promoted, Bound, MovesTo, GhostGrows, GetsOld, OldFile
<1>13. FilesNamed'
    BY <1>1, <1>2, <1>3, ChannelFacts DEF ChannelsInv, FilesNamed, RowIs, ConnectWrote, WorkersTrue, WorkPcs, ConnectPcs, ErasePcs, MovesTo, GhostGrows, GetsOld, OldFile
<1>14. WithdrawnTrue'
    BY <1>1, <1>2, <1>3, ChannelFacts DEF ChannelsInv, WithdrawnTrue, Active, RowIs, MovesTo, GhostGrows, GetsOld, OldFile
<1>15. CancelledWroteNothing'
    BY <1>1, <1>2, <1>3, ChannelFacts DEF ChannelsInv, CancelledWroteNothing, RowIs, MovesTo, GhostGrows, GetsOld, OldFile
<1>16. QRHasItsWorker'
    BY <1>1, <1>2, <1>3, ChannelFacts DEF ChannelsInv, QRHasItsWorker, Active, RowIs, WorkersTrue, WorkPcs, ConnectPcs, ErasePcs, MovesTo, GhostGrows, GetsOld, OldFile
<1>17. AlwaysSettled'
    BY <1>1, <1>2, <1>3, ChannelFacts DEF ChannelsInv, AlwaysSettled, AtWork, Active, RowIs, WithdrawnTrue, MovesTo, GhostGrows, GetsOld, OldFile
<1> QED
    BY <1>4, <1>5, <1>6, <1>7, <1>8, <1>9, <1>10, <1>11, <1>12, <1>13, <1>14, <1>15, <1>16, <1>17 DEF ChannelsInv

\* What the actions assert of a ghost they build on.
GhostAfter(g) ==
    /\ g \in ChannelGhosts /\ (g.demoted <=> channelGhost.demoted) /\ (channelGhost.doubtful => g.doubtful)
    /\ channelGhost.forgotten \subseteq g.forgotten /\ channelGhost.unsettled \subseteq g.unsettled
    /\ channelGhost.uncancelled \subseteq g.uncancelled

\* A worker that ends, with what it has left behind.
EndsWith(i, g) ==
    /\ GhostAfter(g) /\ UNCHANGED <<accountFile, binding, cancelling>> /\ chanOps[i].pc \in WorkPcs \ {"file"}
    /\ chanOps[i].pc = "eraseFile" /\ accountFile[chanOps[i].account] # 0 => chanOps[i].account \in g.forgotten
    /\ chanOps[i].pc = "undo" => credentials'.token # i \/ i \in g.uncancelled
    /\ \/ UNCHANGED <<credentials, listing>>
       \/ /\ chanOps[i].pc = "undo" /\ credentials' = NoCredentials /\ GetsOld /\ g.doubtful
          /\ accountFile[chanOps[i].account] # 0 => chanOps[i].account \in g.forgotten

\* finishChannel, whether the row can be written or not.
LEMMA FinishesKeep ==
    ASSUME ChannelsInv, NEW i \in ChannelOps, NEW s \in {"FAILED", "SUCCEEDED"}, NEW g,
           EndsWith(i, g), s = "SUCCEEDED" => chanOps[i].pc = "finish", Finishes(i, s, g)
    PROVE  ChannelsInv'
<1>1. /\ ChannelsType /\ Active(i) /\ chanOps[i].status \in ChannelStatuses /\ s \in ChannelStatuses /\ NoAccount \in SomeAccount
      /\ g \in ChannelGhosts /\ chanOps[i].pc \notin {"none", "created", "file"}
    BY ChannelFacts, ChannelFields DEF EndsWith, GhostAfter, WorkersTrue, ChannelStatuses, SomeAccount, WorkPcs, ConnectPcs, ErasePcs
<1>2. CASE Returns(i, s) /\ channelGhost' = g
  <2>1. RowIs(chanOps', i, s, "none", NoAccount)
    BY <1>1, <1>2, RowChanges DEF Returns
  <2>2. GhostGrows
    BY <1>2 DEF EndsWith, GhostAfter, GhostGrows
  <2>3. ReturnsAs(i, s)
    BY <1>1, <1>2, <2>1, <2>2 DEF ReturnsAs, Returns, EndsWith, OldFile, Active
  <2> QED
    BY <1>1, <2>3, ReturnsKeep
<1>3. CASE Returns(i, chanOps[i].status) /\ channelGhost' = [g EXCEPT !.unsettled = @ \cup {i}]
  <2>1. RowIs(chanOps', i, chanOps[i].status, "none", NoAccount)
    BY <1>1, <1>3, RowChanges DEF Returns
  <2>2. /\ channelGhost' \in ChannelGhosts /\ channelGhost'.unsettled = g.unsettled \cup {i} /\ channelGhost'.uncancelled = g.uncancelled
        /\ channelGhost'.forgotten = g.forgotten /\ channelGhost'.demoted = g.demoted /\ channelGhost'.doubtful = g.doubtful
    BY <1>1, <1>3, GhostUnsettled
  <2>3. GhostGrows /\ i \in channelGhost'.unsettled
    BY <2>2 DEF EndsWith, GhostAfter, GhostGrows
  <2>4. ReturnsAs(i, chanOps[i].status)
    BY <1>1, <1>3, <2>1, <2>2, <2>3 DEF ReturnsAs, Returns, EndsWith, OldFile
  <2> QED
    BY <1>1, <2>4, ReturnsKeep
<1> QED
    BY <1>2, <1>3 DEF Finishes

\* An error of the manager.
LEMMA ManagerFailsKeep ==
    ASSUME ChannelsInv, NEW i \in ChannelOps, NEW g, EndsWith(i, g), chanOps[i].pc \notin {"bind", "finish"}, ManagerFails(i, g)
    PROVE  ChannelsInv'
<1>1. CASE i \in withdrawn /\ Returns(i, chanOps[i].status) /\ channelGhost' = g
  <2>1. /\ ChannelsType /\ Active(i) /\ chanOps[i].status \in ChannelStatuses /\ NoAccount \in SomeAccount
        /\ chanOps[i].pc \notin {"none", "created", "file"}
    BY ChannelFacts, ChannelFields DEF EndsWith, WorkersTrue, SomeAccount, WorkPcs, ConnectPcs, ErasePcs
  <2>2. RowIs(chanOps', i, chanOps[i].status, "none", NoAccount)
    BY <1>1, <2>1, RowChanges DEF Returns
  <2>3. GhostGrows
    BY <1>1 DEF EndsWith, GhostAfter, GhostGrows
  <2>4. ReturnsAs(i, chanOps[i].status)
    BY <1>1, <2>1, <2>2, <2>3 DEF ReturnsAs, Returns, EndsWith, OldFile
  <2> QED
    BY <2>1, <2>4, ReturnsKeep
<1>2. CASE Finishes(i, "FAILED", g)
    BY <1>2, FinishesKeep
<1> QED
    BY <1>1, <1>2 DEF ManagerFails

\* A worker that waits for the lock finds that it is not wanted, or cannot write the row.
LEMMA TakeChannelLockKeep ==
    ASSUME ChannelsInv, NEW i \in ChannelOps, TakeChannelLock(i)
    PROVE  ChannelsInv'
<1>1. /\ ChannelsType /\ chanOps[i].status \in ChannelStatuses /\ NoAccount \in SomeAccount /\ chanOps[i].pc = "lock" /\ chanLock = 0
      /\ UNCHANGED <<credentials, accountFile, binding, listing, cancelling>> /\ channelGhost \in ChannelGhosts
    BY ChannelFacts, ChannelFields DEF TakeChannelLock, SomeAccount, ChannelFiles
<1>2. CASE /\ Returns(i, chanOps[i].status) /\ UNCHANGED channelGhost /\ (~Active(i) \/ i \in withdrawn)
  <2>1. RowIs(chanOps', i, chanOps[i].status, "none", NoAccount)
    BY <1>1, <1>2, RowChanges DEF Returns
  <2>2. ReturnsAs(i, chanOps[i].status)
    BY <1>1, <1>2, <2>1 DEF ReturnsAs, Returns, GhostGrows
  <2> QED
    BY <1>1, <2>2, ReturnsKeep
<1>3. CASE Returns(i, chanOps[i].status) /\ channelGhost' = [channelGhost EXCEPT !.unsettled = @ \cup {i}]
  <2>1. RowIs(chanOps', i, chanOps[i].status, "none", NoAccount)
    BY <1>1, <1>3, RowChanges DEF Returns
  <2>2. GhostGrows /\ i \in channelGhost'.unsettled
    BY <1>1, <1>3, GhostUnsettled DEF GhostGrows
  <2>3. ReturnsAs(i, chanOps[i].status)
    BY <1>1, <1>3, <2>1, <2>2 DEF ReturnsAs, Returns
  <2> QED
    BY <1>1, <2>3, ReturnsKeep
<1>4. CASE /\ Active(i) /\ chanLock' = i /\ UNCHANGED <<qrShown, withdrawn, channelGhost>>
           /\ chanOps' = [chanOps EXCEPT ![i].status = "RUNNING",
                            ![i].pc = IF chanOps[i].type = "connect" THEN "show" ELSE "erase"]
    BY <1>1, <1>4, LockTakenKeep
<1> QED
    BY <1>2, <1>3, <1>4 DEF TakeChannelLock

\* The target cannot be resolved.
LEMMA UnresolvedKeep ==
    ASSUME ChannelsInv, NEW i \in ChannelOps, Unresolved(i)
    PROVE  ChannelsInv'
<1>1. /\ GhostAfter(channelGhost) /\ ChannelsType /\ WorkersTrue /\ credentials.token \in Nat
      /\ \A a \in {"show", "poll", "write", "undo", "erase", "eraseFile", "bind", "finish"} : a \in WorkPcs \ {"file"}
    BY ChannelFacts DEF GhostAfter, WorkPcs, ConnectPcs, ErasePcs
<1>2. EndsWith(i, channelGhost)
    BY <1>1 DEF EndsWith, Unresolved, Works, ChannelFiles
<1> QED
    BY <1>2, FinishesKeep DEF Unresolved

\* The login is not confirmed.
LEMMA NotConfirmedKeep ==
    ASSUME ChannelsInv, NEW i \in ChannelOps, NotConfirmed(i)
    PROVE  ChannelsInv'
<1>1. /\ GhostAfter(channelGhost) /\ ChannelsType /\ WorkersTrue /\ credentials.token \in Nat
      /\ \A a \in {"show", "poll", "write", "undo", "erase", "eraseFile", "bind", "finish"} : a \in WorkPcs \ {"file"}
    BY ChannelFacts DEF GhostAfter, WorkPcs, ConnectPcs, ErasePcs
<1>2. EndsWith(i, channelGhost) /\ chanOps[i].pc \notin {"bind", "finish"}
    BY <1>1 DEF EndsWith, NotConfirmed, Works, ChannelFiles
<1> QED
    BY <1>2, ManagerFailsKeep DEF NotConfirmed

\* The assignments of a connect.
LEMMA WriteAssignmentsKeep ==
    ASSUME ChannelsInv, NEW i \in ChannelOps, WriteAssignments(i)
    PROVE  ChannelsInv'
<1>1. /\ GhostAfter(channelGhost) /\ ChannelsType /\ WorkersTrue /\ credentials.token \in Nat
      /\ \A a \in {"show", "poll", "write", "undo", "erase", "eraseFile", "bind", "finish"} : a \in WorkPcs \ {"file"}
    BY ChannelFacts DEF GhostAfter, WorkPcs, ConnectPcs, ErasePcs
<1>2. CASE UNCHANGED <<credentials, listing>> /\ ManagerFails(i, channelGhost)
  <2>1. EndsWith(i, channelGhost) /\ chanOps[i].pc \notin {"bind", "finish"}
    BY <1>1, <1>2 DEF EndsWith, WriteAssignments, Works
  <2> QED
    BY <1>2, <2>1, ManagerFailsKeep
<1>3. CASE Assigns(i)
    BY <1>3, AssignKeep
<1> QED
    BY <1>2, <1>3 DEF WriteAssignments, Assigns

\* The account file of a connect.
LEMMA WriteAccountKeep ==
    ASSUME ChannelsInv, NEW i \in ChannelOps, WriteAccount(i)
    PROVE  ChannelsInv'
<1>1. /\ GhostAfter(channelGhost) /\ ChannelsType /\ WorkersTrue /\ credentials.token \in Nat
      /\ \A a \in {"show", "poll", "write", "undo", "erase", "eraseFile", "bind", "finish"} : a \in WorkPcs \ {"file"}
    BY ChannelFacts DEF GhostAfter, WorkPcs, ConnectPcs, ErasePcs
<1>2. CASE accountFile' = [accountFile EXCEPT ![chanOps[i].account] = i] /\ Goes(i, "bind") /\ Outdated
    BY <1>2, WriteFileKeep DEF WriteAccount
<1>3. CASE Goes(i, "undo") /\ UNCHANGED <<accountFile, listing>>
    BY <1>3, FileFailsKeep DEF WriteAccount
<1> QED
    BY <1>2, <1>3 DEF WriteAccount

\* The assignments go again.
LEMMA UndoAssignmentsKeep ==
    ASSUME ChannelsInv, NEW i \in ChannelOps, UndoAssignments(i)
    PROVE  ChannelsInv'
<1>1. /\ GhostAfter(channelGhost) /\ ChannelsType /\ WorkersTrue /\ credentials.token \in Nat
      /\ \A a \in {"show", "poll", "write", "undo", "erase", "eraseFile", "bind", "finish"} : a \in WorkPcs \ {"file"}
    BY ChannelFacts DEF GhostAfter, WorkPcs, ConnectPcs, ErasePcs
<1>2. /\ chanOps[i].pc = "undo" /\ chanOps[i].account \in Accounts /\ UNCHANGED <<accountFile, binding, cancelling>>
      /\ {chanOps[i].account} \in SUBSET SomeAccount /\ NoAccount \notin Accounts /\ NoCredentials.token # i
    BY <1>1, ChannelFacts DEF UndoAssignments, Works, WorkersTrue, SomeAccount
<1>3. CASE credentials' = NoCredentials /\ Outdated /\ ManagerFails(i, Forget({chanOps[i].account}))
  <2> DEFINE g == Forget({chanOps[i].account})
  <2>1. GhostAfter(g) /\ g.doubtful /\ (accountFile[chanOps[i].account] # 0 => chanOps[i].account \in g.forgotten)
    BY <1>1, <1>2, GhostForgets DEF GhostAfter
  <2> HIDE DEF g
  <2>2. EndsWith(i, g)
    BY <1>1, <1>2, <1>3, <2>1, OutdatedMeans DEF EndsWith
  <2>3. ManagerFails(i, g)
    BY <1>3 DEF g
  <2> QED
    BY <1>2, <2>2, <2>3, ManagerFailsKeep
<1>4. CASE UNCHANGED <<credentials, listing>> /\ ManagerFails(i, [channelGhost EXCEPT !.uncancelled = @ \cup {i}])
  <2> DEFINE g == [channelGhost EXCEPT !.uncancelled = @ \cup {i}]
  <2>1. GhostAfter(g) /\ i \in g.uncancelled
    BY <1>1, ChannelFacts, GhostUncancelled DEF GhostAfter
  <2> HIDE DEF g
  <2>2. EndsWith(i, g)
    BY <1>1, <1>2, <1>4, <2>1 DEF EndsWith
  <2>3. ManagerFails(i, g)
    BY <1>4 DEF g
  <2> QED
    BY <1>2, <2>2, <2>3, ManagerFailsKeep
<1> QED
    BY <1>3, <1>4 DEF UndoAssignments

\* The assignments of a disconnect.
LEMMA EraseAssignmentsKeep ==
    ASSUME ChannelsInv, NEW i \in ChannelOps, EraseAssignments(i)
    PROVE  ChannelsInv'
<1>1. /\ GhostAfter(channelGhost) /\ ChannelsType /\ WorkersTrue /\ credentials.token \in Nat
      /\ \A a \in {"show", "poll", "write", "undo", "erase", "eraseFile", "bind", "finish"} : a \in WorkPcs \ {"file"}
    BY ChannelFacts DEF GhostAfter, WorkPcs, ConnectPcs, ErasePcs
<1>2. CASE UNCHANGED <<credentials, listing>> /\ ManagerFails(i, channelGhost)
  <2>1. EndsWith(i, channelGhost) /\ chanOps[i].pc \notin {"bind", "finish"}
    BY <1>1, <1>2 DEF EndsWith, EraseAssignments, Works
  <2> QED
    BY <1>2, <2>1, ManagerFailsKeep
<1>3. CASE credentials' = NoCredentials /\ ~(UNCHANGED <<credentials, listing>> /\ ManagerFails(i, channelGhost))
    BY <1>3, EraseKeep DEF EraseAssignments
<1> QED
    BY <1>2, <1>3 DEF EraseAssignments

\* The account file of a disconnect.
LEMMA EraseAccountKeep ==
    ASSUME ChannelsInv, NEW i \in ChannelOps, EraseAccount(i)
    PROVE  ChannelsInv'
<1>1. /\ GhostAfter(channelGhost) /\ ChannelsType /\ WorkersTrue /\ credentials.token \in Nat
      /\ \A a \in {"show", "poll", "write", "undo", "erase", "eraseFile", "bind", "finish"} : a \in WorkPcs \ {"file"}
    BY ChannelFacts DEF GhostAfter, WorkPcs, ConnectPcs, ErasePcs
<1>2. CASE UNCHANGED <<accountFile, listing>> /\ ManagerFails(i, Forget({chanOps[i].account}))
  <2> DEFINE g == Forget({chanOps[i].account})
  <2>1. chanOps[i].pc = "eraseFile" /\ chanOps[i].account \in Accounts /\ NoAccount \notin Accounts
    BY <1>1, ChannelFacts DEF EraseAccount, Works, WorkersTrue
  <2>2. {chanOps[i].account} \in SUBSET SomeAccount
    BY <2>1 DEF SomeAccount
  <2>3. GhostAfter(g) /\ (accountFile[chanOps[i].account] # 0 => chanOps[i].account \in g.forgotten)
    BY <1>1, <2>1, <2>2, GhostForgets DEF GhostAfter
  <2> HIDE DEF g
  <2>4. EndsWith(i, g)
    BY <1>1, <1>2, <2>1, <2>3 DEF EndsWith, EraseAccount
  <2>5. ManagerFails(i, g)
    BY <1>2 DEF g
  <2> QED
    BY <2>1, <2>4, <2>5, ManagerFailsKeep
<1>3. CASE accountFile' = [accountFile EXCEPT ![chanOps[i].account] = 0] /\ Outdated /\ Goes(i, "bind") /\ UNCHANGED channelGhost
    BY <1>3, EraseFileKeep DEF EraseAccount
<1> QED
    BY <1>2, <1>3 DEF EraseAccount

\* The row of a channel.
LEMMA BindKeep ==
    ASSUME ChannelsInv, NEW i \in ChannelOps, Bind(i)
    PROVE  ChannelsInv'
<1>1. /\ GhostAfter(channelGhost) /\ ChannelsType /\ WorkersTrue /\ credentials.token \in Nat
      /\ \A a \in {"show", "poll", "write", "undo", "erase", "eraseFile", "bind", "finish"} : a \in WorkPcs \ {"file"}
    BY ChannelFacts DEF GhostAfter, WorkPcs, ConnectPcs, ErasePcs
<1>2. CASE UNCHANGED <<binding, listing>> /\ Finishes(i, "FAILED", channelGhost)
  <2>1. EndsWith(i, channelGhost)
    BY <1>1, <1>2 DEF EndsWith, Bind, Works, ChannelFiles
  <2> QED
    BY <1>2, <2>1, FinishesKeep
<1>3. CASE ~(UNCHANGED <<binding, listing>> /\ Finishes(i, "FAILED", channelGhost))
    BY <1>3, BindRowKeep DEF Bind, ChannelFiles
<1> QED
    BY <1>2, <1>3

\* An operation succeeds.
LEMMA FinishKeep ==
    ASSUME ChannelsInv, NEW i \in ChannelOps, Finish(i)
    PROVE  ChannelsInv'
<1>1. /\ GhostAfter(channelGhost) /\ ChannelsType /\ WorkersTrue /\ credentials.token \in Nat
      /\ \A a \in {"show", "poll", "write", "undo", "erase", "eraseFile", "bind", "finish"} : a \in WorkPcs \ {"file"}
    BY ChannelFacts DEF GhostAfter, WorkPcs, ConnectPcs, ErasePcs
<1>2. EndsWith(i, channelGhost) /\ chanOps[i].pc = "finish"
    BY <1>1 DEF EndsWith, Finish, Works, ChannelFiles
<1> QED
    BY <1>2, FinishesKeep DEF Finish

\* What RecoverChannels makes of the rows.
LEMMA RecoveredRows ==
    ASSUME ChannelsInv, Restart
    PROVE  /\ chanOps' \in [ChannelOps -> ChannelRows]
           /\ \A j \in ChannelOps :
                 /\ chanOps'[j].type = chanOps[j].type /\ chanOps'[j].pc = "none" /\ chanOps'[j].account = NoAccount
                 /\ ~Active(j) => chanOps'[j].status = chanOps[j].status
                 /\ Active(j) => \/ chanOps'[j].status = "FAILED"
                                 \/ chanOps'[j].status = "SUCCEEDED" /\ chanOps[j].type = "disconnect"
           /\ UNCHANGED binding \/ (binding' = Promoted(ObservedStatus) /\ \E j \in ChannelOps :
                                      Active(j) /\ chanOps[j].type = "disconnect")
<1>1. PICK outcome \in [Interrupted -> {"SUCCEEDED", "FAILED"}] :
          /\ \A j \in Interrupted : outcome[j] \in RecoveredAs(j)
          /\ chanOps' = [j \in ChannelOps |->
                           [chanOps[j] EXCEPT !.pc = "none", !.account = NoAccount,
                                              !.status = IF j \in Interrupted THEN outcome[j] ELSE @]]
          /\ binding' = IF \E j \in Interrupted : outcome[j] = "SUCCEEDED" THEN Promoted(ObservedStatus) ELSE binding
    BY DEF Restart
<1>2. \A j \in ChannelOps : Active(j) <=> j \in Interrupted
    BY DEF Interrupted
<1>3. \A j \in Interrupted : /\ outcome[j] \in {"SUCCEEDED", "FAILED"}
                             /\ outcome[j] = "SUCCEEDED" => chanOps[j].type = "disconnect"
    BY <1>1 DEF RecoveredAs
<1>4. ASSUME NEW j \in ChannelOps
      PROVE  /\ chanOps'[j] \in ChannelRows /\ chanOps'[j].type = chanOps[j].type /\ chanOps'[j].pc = "none"
             /\ chanOps'[j].account = NoAccount
             /\ chanOps'[j].status = IF j \in Interrupted THEN outcome[j] ELSE chanOps[j].status
  <2> DEFINE st == IF j \in Interrupted THEN outcome[j] ELSE chanOps[j].status
             row == [chanOps[j] EXCEPT !.pc = "none", !.account = NoAccount, !.status = st]
  <2>1. st \in ChannelStatuses /\ chanOps[j] \in ChannelRows /\ NoAccount \in SomeAccount
    BY <1>3, ChannelFacts, ChannelFields DEF ChannelStatuses, SomeAccount
  <2>2. chanOps'[j] = row
    BY <1>1
  <2> HIDE DEF st
  <2>3. row \in ChannelRows /\ row.type = chanOps[j].type /\ row.pc = "none" /\ row.account = NoAccount /\ row.status = st
    BY <2>1 DEF ChannelRows
  <2> HIDE DEF row
  <2> QED
    BY <2>2, <2>3 DEF st
<1>5. chanOps' \in [ChannelOps -> ChannelRows]
    BY <1>1, <1>4
<1>6. UNCHANGED binding \/ (binding' = Promoted(ObservedStatus) /\ \E j \in ChannelOps :
                               Active(j) /\ chanOps[j].type = "disconnect")
  <2>1. CASE \E j \in Interrupted : outcome[j] = "SUCCEEDED"
    BY <1>1, <1>3, <2>1 DEF Interrupted
  <2>2. CASE ~\E j \in Interrupted : outcome[j] = "SUCCEEDED"
    BY <1>1, <2>2
  <2> QED
    BY <2>1, <2>2
<1> QED
    BY <1>2, <1>3, <1>4, <1>5, <1>6

\* What a restart leaves behind.
LEMMA RestartGhost ==
    ASSUME ChannelsInv, Restart
    PROVE  /\ GhostGrows /\ channelGhost'.doubtful
           /\ \A i \in ChannelOps : chanOps[i].pc = "eraseFile" /\ chanOps[i].account \in Accounts =>
                 chanOps[i].account \in channelGhost'.forgotten
<1> DEFINE A == {a \in Accounts : \E i \in ChannelOps : chanOps[i].pc = "eraseFile" /\ chanOps[i].account = a}
           g == channelGhost
           h == [g EXCEPT !.doubtful = TRUE, !.forgotten = @ \cup A]
<1>1. A \in SUBSET Accounts /\ g \in ChannelGhosts
    BY ChannelFacts
<1>2. channelGhost' = h
    BY DEF Restart
<1>3. \A i \in ChannelOps : chanOps[i].pc = "eraseFile" /\ chanOps[i].account \in Accounts => chanOps[i].account \in A
    OBVIOUS
<1> HIDE DEF A
<1>4. /\ h \in ChannelGhosts /\ h.unsettled = g.unsettled /\ h.uncancelled = g.uncancelled
      /\ h.forgotten = g.forgotten \cup A /\ h.demoted = g.demoted /\ h.doubtful
    BY <1>1 DEF ChannelGhosts
<1> HIDE DEF h
<1> QED
    BY <1>1, <1>2, <1>3, <1>4 DEF GhostGrows

\* The daemon ends and starts.
LEMMA RestartKeep ==
    ASSUME ChannelsInv, Restart
    PROVE  ChannelsInv'
<1>1. ChannelsType /\ WorkersTrue /\ OneActiveOp
    BY ChannelFacts
<1>2. /\ chanOps' \in [ChannelOps -> ChannelRows]
      /\ \A j \in ChannelOps :
            /\ chanOps'[j].type = chanOps[j].type /\ chanOps'[j].pc = "none" /\ chanOps'[j].account = NoAccount
            /\ ~Active(j) => chanOps'[j].status = chanOps[j].status
            /\ Active(j) => \/ chanOps'[j].status = "FAILED"
                            \/ chanOps'[j].status = "SUCCEEDED" /\ chanOps[j].type = "disconnect"
      /\ binding' \in Bindings /\ (UNCHANGED binding \/ \E j \in ChannelOps : Active(j) /\ chanOps[j].type = "disconnect")
      /\ GhostGrows /\ channelGhost'.doubtful
      /\ \A i \in ChannelOps : chanOps[i].pc = "eraseFile" /\ chanOps[i].account \in Accounts =>
            chanOps[i].account \in channelGhost'.forgotten
      /\ chanLock' = 0 /\ qrShown' = {} /\ withdrawn' = {} /\ cancelling' = {}
      /\ listing' \in Listings /\ listing'.pc = "none" /\ UNCHANGED <<credentials, accountFile>>
  <2>1. listing' \in Listings /\ listing'.pc = "none"
    BY DEF Restart, NotListing, Listings, SomeAccount
  <2>2. binding' \in Bindings
    <3>1. ObservedStatus \in Bindings /\ ObservedStatus.account \in SomeAccount /\ binding \in Bindings
      BY WhatIsObserved, ChannelFacts DEF Bindings
    <3>2. Promoted(ObservedStatus) \in {ObservedStatus, Bound("CONNECTED", ObservedStatus.account)}
      BY DEF Promoted
    <3>3. Promoted(ObservedStatus) \in Bindings
      BY <3>1, <3>2, BoundParts
    <3> QED
      BY <3>1, <3>3, RecoveredRows
  <2> QED
    BY <2>1, <2>2, RecoveredRows, RestartGhost DEF Restart, ChannelFiles
<1>3. Started' = Started
    BY <1>2 DEF Started, Active
<1>4. ChannelsType'
    BY <1>1, <1>2, <1>3, ChannelFacts DEF ChannelsInv, ChannelsType, RowIs, MovesTo, GhostGrows, GetsOld, OldFile
<1>5. OpsInOrder'
    BY <1>1, <1>2, <1>3, ChannelFacts DEF ChannelsInv, OpsInOrder, MovesTo, GhostGrows, GetsOld, OldFile
<1>6. OneActiveOp'
    BY <1>1, <1>2, <1>3, ChannelFacts DEF ChannelsInv, OneActiveOp, Latest, Active, RowIs, MovesTo, GhostGrows, GetsOld, OldFile
<1>7. WorkersTrue'
    BY <1>1, <1>2, <1>3, ChannelFacts DEF ChannelsInv, WorkersTrue, Active, RowIs, WorkPcs, ConnectPcs, ErasePcs, SomeAccount, MovesTo, GhostGrows, GetsOld, OldFile
<1>8. CredentialsTrue'
    BY <1>1, <1>2, <1>3, ChannelFacts DEF ChannelsInv, CredentialsTrue, Active, RowIs, MovesTo, GhostGrows, GetsOld, OldFile
<1>9. ConnectWrote'
    BY <1>1, <1>2, <1>3, ChannelFacts DEF ChannelsInv, ConnectWrote, RowIs, WorkersTrue, WorkPcs, ConnectPcs, ErasePcs, MovesTo, GhostGrows, GetsOld, OldFile
<1>10. ConnectedHolds'
    BY <1>1, <1>2, <1>3, ChannelFacts DEF ChannelsInv, ConnectedHolds, MovesTo, GhostGrows, GetsOld, OldFile
<1>11. SuccessHeld'
    BY <1>1, <1>2, <1>3, ChannelFacts DEF ChannelsInv, SuccessHeld, Latest, Succeeds, FilesHeld, RowIs, WorkersTrue, WorkPcs, ConnectPcs, ErasePcs, OneActiveOp, Active, MovesTo, GhostGrows, GetsOld, OldFile
<1>12. ListingFresh'
    BY <1>1, <1>2, <1>3, ChannelFacts DEF ChannelsInv, ListingFresh, ObservedStatus, Promoted, Bound, MovesTo, GhostGrows, GetsOld, OldFile
<1>13. FilesNamed'
    BY <1>1, <1>2, <1>3, ChannelFacts DEF ChannelsInv, FilesNamed, RowIs, ConnectWrote, WorkersTrue, WorkPcs, ConnectPcs, ErasePcs, MovesTo, GhostGrows, GetsOld, OldFile
<1>14. WithdrawnTrue'
    BY <1>1, <1>2, <1>3, ChannelFacts DEF ChannelsInv, WithdrawnTrue, Active, RowIs, MovesTo, GhostGrows, GetsOld, OldFile
<1>15. CancelledWroteNothing'
    BY <1>1, <1>2, <1>3, ChannelFacts DEF ChannelsInv, CancelledWroteNothing, RowIs, MovesTo, GhostGrows, GetsOld, OldFile
<1>16. QRHasItsWorker'
    BY <1>1, <1>2, <1>3, ChannelFacts DEF ChannelsInv, QRHasItsWorker, Active, RowIs, WorkersTrue, WorkPcs, ConnectPcs, ErasePcs, MovesTo, GhostGrows, GetsOld, OldFile
<1>17. AlwaysSettled'
    BY <1>1, <1>2, <1>3, ChannelFacts DEF ChannelsInv, AlwaysSettled, AtWork, Active, RowIs, WithdrawnTrue, MovesTo, GhostGrows, GetsOld, OldFile
<1> QED
    BY <1>4, <1>5, <1>6, <1>7, <1>8, <1>9, <1>10, <1>11, <1>12, <1>13, <1>14, <1>15, <1>16, <1>17 DEF ChannelsInv

\* Nothing is connected, or somebody logged in without the product.
LEMMA ChannelsInitially == ChannelsInit => ChannelsInv
<1> SUFFICES ASSUME ChannelsInit PROVE ChannelsInv
    OBVIOUS
<1>1. /\ NoAccount \notin Accounts /\ NoAccount \in SomeAccount /\ Accounts \subseteq SomeAccount
      /\ ForeignToken \in Nat /\ ForeignToken # 0 /\ \A i \in ChannelOps : ForeignToken # i /\ 0 # i
    BY ChannelBounds DEF ForeignToken, ChannelOps, SomeAccount
<1>2. NotStarted \in ChannelRows /\ NotStarted.status = "none" /\ NotStarted.pc = "none" /\ NotStarted.type = "none"
    BY <1>1 DEF NotStarted, ChannelRows, ChannelStatuses
<1>3. NotListing \in Listings /\ NotListing.pc = "none"
    BY <1>1 DEF NotListing, Listings
<1>4. /\ credentials \in [account : SomeAccount, token : Nat] /\ accountFile \in [Accounts -> Nat]
      /\ credentials.account = NoAccount <=> credentials.token = 0
      /\ credentials.token \in {0, ForeignToken}
      /\ \A a \in Accounts : accountFile[a] # 0 => credentials.account = a
    BY <1>1 DEF ChannelsInit, NoCredentials
<1>5. \A i \in ChannelOps : chanOps[i] = NotStarted
    BY DEF ChannelsInit
<1>6. Started = {} /\ \A i \in ChannelOps : ~Active(i)
    BY <1>2, <1>5 DEF Started, Active
<1>7. binding \in Bindings /\ binding.state = "NONE"
    BY <1>1 DEF ChannelsInit, Bound, Bindings
<1>8. channelGhost \in ChannelGhosts
    BY DEF ChannelsInit, ChannelGhosts
<1>9. ChannelsType
    BY <1>2, <1>3, <1>4, <1>7, <1>8 DEF ChannelsInit, ChannelsType
<1>10. OpsInOrder
  <2>1. Started = 1..0 /\ 0 \in 0..MaxChannelOps
    BY <1>6, ChannelBounds
  <2> QED
    BY <2>1 DEF OpsInOrder
<1>11. OneActiveOp /\ WorkersTrue /\ ConnectWrote /\ WithdrawnTrue
    BY <1>2, <1>5, <1>6 DEF ChannelsInit, OneActiveOp, WorkersTrue, ConnectWrote, WithdrawnTrue, WorkPcs, ConnectPcs, ErasePcs
<1>12. CredentialsTrue /\ ConnectedHolds /\ FilesNamed
    BY <1>1, <1>4, <1>7 DEF CredentialsTrue, ConnectedHolds, FilesNamed
<1>13. SuccessHeld /\ ListingFresh
    BY <1>3, <1>6 DEF ChannelsInit, SuccessHeld, ListingFresh, Latest
<1>14. CancelledWroteNothing /\ QRHasItsWorker /\ AlwaysSettled
    BY <1>6 DEF ChannelsInit, CancelledWroteNothing, QRHasItsWorker, AlwaysSettled
<1> QED
    BY <1>9, <1>10, <1>11, <1>12, <1>13, <1>14 DEF ChannelsInv

\* The invariant is about the channel's variables only.
LEMMA ChannelsStutter ==
    ASSUME ChannelsInv, UNCHANGED channelVars
    PROVE  ChannelsInv'
<1> USE DEF channelVars
<1>1. ChannelsType' /\ OpsInOrder' /\ OneActiveOp' /\ WorkersTrue' /\ CredentialsTrue'
    BY DEF ChannelsInv, ChannelsType, OpsInOrder, OneActiveOp, WorkersTrue, CredentialsTrue, Started, Latest, Active
<1>2. ConnectWrote' /\ ConnectedHolds' /\ SuccessHeld'
    BY DEF ChannelsInv, ConnectWrote, ConnectedHolds, SuccessHeld, Latest, Started, Succeeds, FilesHeld
<1>3. ListingFresh' /\ FilesNamed' /\ WithdrawnTrue'
    BY DEF ChannelsInv, ListingFresh, FilesNamed, WithdrawnTrue, ObservedStatus, Promoted, Started, Active
<1>4. CancelledWroteNothing' /\ QRHasItsWorker' /\ AlwaysSettled'
    BY DEF ChannelsInv, CancelledWroteNothing, QRHasItsWorker, AlwaysSettled, Started, Active, AtWork
<1> QED
    BY <1>1, <1>2, <1>3, <1>4 DEF ChannelsInv

\* Every step keeps the invariant.
LEMMA ChannelsInvStep == ChannelsInv /\ [ChannelsNext]_channelVars => ChannelsInv'
<1> SUFFICES ASSUME ChannelsInv, [ChannelsNext]_channelVars PROVE ChannelsInv'
    OBVIOUS
<1>1. ASSUME NEW i \in ChannelOps, NEW type \in {"connect", "disconnect"}, StartChannel(i, type) PROVE ChannelsInv'
    BY <1>1, StartChannelKeep
<1>2. ASSUME NEW i \in ChannelOps, \/ StartWorker(i) \/ CancelChannel(i) \/ CommitCancel(i) \/ TakeChannelLock(i) \/ Unresolved(i)
                                   \/ ShowQR(i) \/ ExpireQR(i) \/ NotConfirmed(i)
      PROVE  ChannelsInv'
    BY <1>2, StartWorkerKeep, CancelChannelKeep, CommitCancelKeep, TakeChannelLockKeep, UnresolvedKeep, ShowQRKeep, ExpireQRKeep,
       NotConfirmedKeep
<1>3. ASSUME NEW i \in ChannelOps, NEW a \in Accounts, Confirmed(i, a) PROVE ChannelsInv'
    BY <1>3, ConfirmedKeep
<1>4. ASSUME NEW i \in ChannelOps, \/ WriteAssignments(i) \/ WriteAccount(i) \/ UndoAssignments(i)
                                   \/ EraseAssignments(i) \/ EraseAccount(i) \/ Bind(i) \/ Finish(i)
      PROVE  ChannelsInv'
    BY <1>4, WriteAssignmentsKeep, WriteAccountKeep, UndoAssignmentsKeep, EraseAssignmentsKeep, EraseAccountKeep, BindKeep, FinishKeep
<1>5. CASE ReadStatus \/ ReadRow \/ WriteRow \/ Restart
    BY <1>5, ReadStatusKeep, ReadRowKeep, WriteRowKeep, RestartKeep
<1> QED
    BY <1>1, <1>2, <1>3, <1>4, <1>5, ChannelsStutter DEF ChannelsNext

\* The inductive invariant implies the property.
LEMMA ChannelsInvImplies == ChannelsInv => ChannelsTrue
<1> SUFFICES ASSUME ChannelsInv PROVE ChannelsTrue
    OBVIOUS
<1>1. ConnectedIsThere
    BY DEF ChannelsInv, ConnectedHolds, ConnectedIsThere
<1>2. Last > 0 => Last \in ChannelOps /\ Latest(Last)
  <2>1. PICK n \in 0..MaxChannelOps : Started = 1..n
    BY DEF ChannelsInv, OpsInOrder
  <2>2. Last = n /\ n \in Nat
    BY <2>1, ChannelBounds, FS_Interval DEF Last
  <2> QED
    BY <2>1, <2>2, ChannelBounds DEF Latest, ChannelOps
<1>3. SuccessIsRemembered
  <2> SUFFICES ASSUME Last > 0, chanOps[Last].status = "SUCCEEDED", chanOps[Last].type = "connect", ~channelGhost.demoted
               PROVE  binding.state = "CONNECTED"
    BY DEF SuccessIsRemembered
  <2>1. FilesHeld
    BY <1>2 DEF ChannelsInv, SuccessHeld, Succeeds
  <2> QED
    BY <2>1 DEF FilesHeld, Bound
<1>4. NoFileForgotten
    BY DEF ChannelsInv, FilesNamed, NoFileForgotten, AtWork
<1> QED
    BY <1>1, <1>3, <1>4 DEF ChannelsInv, ChannelsTrue

\* For any number of accounts, connects, disconnects, listings, cancels, crashes and

\* failing writes: a binding that is CONNECTED names the account the files hold, a
\* connect that succeeded stays connected, no account file is forgotten, a cancelled
\* connect left no credentials, a QR code goes with its worker, and a row is settled.
THEOREM ChannelsAreTrue == ChannelsSpec => []ChannelsTrue
BY ChannelsInitially, ChannelsInvStep, ChannelsInvImplies, PTL DEF ChannelsSpec

=============================================================================
