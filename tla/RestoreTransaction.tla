------------------------- MODULE RestoreTransaction -------------------------
(***************************************************************************)
(* A restore replaces the Hermes data directory ("root") by the tree of a  *)
(* backup.  RestoreBackup works in a transaction directory beside root: it *)
(* renames root to txn/previous, the extracted candidate to root, checks   *)
(* the result and then deletes the previous tree.  A phase file tells      *)
(* RecoverInterruptedRestores, which runs before the daemon serves, what   *)
(* an interrupted restore had reached.  Any rename, write or removal may   *)
(* fail, and the daemon may stop between any two of them.                  *)
(*                                                                         *)
(* A tree is a number, new for every candidate and every time profiles     *)
(* work in root; Half is a tree a removal has begun to delete.             *)
(***************************************************************************)
EXTENDS Naturals, FiniteSets

CONSTANTS Txns,        \* transaction directories, one per call of RestoreBackup
          MaxTrees,    \* bound: trees written after the first
          MaxFaults,   \* bound: failing file system calls
          MaxStops     \* bound: crashes of the daemon

ASSUME RestoreBounds == MaxTrees \in Nat /\ MaxFaults \in Nat /\ MaxStops \in Nat

VARIABLES root, txn, rDaemon, rAt, rTxn, verdict,
          wanted, trees, faults, stops

restoreVars == <<root, txn, rDaemon, rAt, rTxn, verdict, wanted, trees, faults, stops>>
bounds == <<faults, stops>>

Nothing == 0
Half == 1
FirstTree == 2
LastTree == FirstTree + MaxTrees
Unused == [open |-> FALSE, phase |-> "absent", candidate |-> Nothing, previous |-> Nothing,
           aside |-> Nothing, before |-> Nothing, outcome |-> "none"]

\* Steps at which a phase is being written, and the phase.
Writes == [writePreparing |-> "preparing", writePrepared |-> "prepared",
           writeMoved |-> "current-moved", writeActivated |-> "activated"]

RestoreInit ==
    /\ root = FirstTree /\ wanted = FirstTree /\ trees = FirstTree
    /\ txn = [t \in Txns |-> Unused]
    /\ rDaemon = "up" /\ rAt = "idle" /\ rTxn \in Txns /\ verdict = "none"
    /\ faults = 0 /\ stops = {}

Fault == faults < MaxFaults /\ faults' = faults + 1 /\ UNCHANGED stops
NoFault == UNCHANGED bounds
Set(field, value) == txn' = [txn EXCEPT ![rTxn][field] = value]
Go(step) == rAt' = step /\ UNCHANGED <<rDaemon, rTxn, verdict, wanted, trees>>

\* What writeRestorePhase leaves when it fails: it truncates before it writes.
LeftByFailedWrite(old, new) == {old, "torn", new}

\* What RemoveAll leaves of a transaction directory it could not remove.
Remains(record) == {[record EXCEPT !.candidate = Nothing, !.aside = Nothing, !.phase = p] : p \in {record.phase, "absent"}}
Closed(outcome) == [txn EXCEPT ![rTxn] = [Unused EXCEPT !.outcome = outcome]]

(***************************************************************************)
(* RestoreBackup.                                                          *)
(***************************************************************************)
BeginRestore(t) ==
    /\ rDaemon = "up" /\ rAt = "idle" /\ txn[t] = Unused /\ root # Nothing
    /\ txn' = [txn EXCEPT ![t].open = TRUE, ![t].before = root]
    /\ rTxn' = t /\ rAt' = "writePreparing" /\ verdict' = "none"
    /\ UNCHANGED <<root, rDaemon, wanted, trees, bounds>>

\* Before root is moved every error removes the transaction directory.
Abandon(answer) == rAt' = "cleanup" /\ verdict' = answer /\ UNCHANGED <<rDaemon, rTxn, wanted, trees>>
Return(answer) ==
    /\ rAt' = "idle" /\ verdict' = answer
    /\ UNCHANGED <<rDaemon, rTxn, wanted, trees>>
Undecided == txn' = [txn EXCEPT ![rTxn].outcome = "RECOVERY_REQUIRED"]

WriteEarlyPhase(step, next) ==
    /\ rAt = step /\ UNCHANGED root
    /\ \/ NoFault /\ Set("phase", Writes[step]) /\ Go(next)
       \/ /\ Fault /\ Abandon("ERROR")
          /\ \E left \in LeftByFailedWrite(txn[rTxn].phase, Writes[step]) : Set("phase", left)

\* Decrypt with the device key, check the identity, extract the candidate.
ExtractCandidate ==
    /\ rAt = "extract" /\ UNCHANGED root
    /\ \/ /\ NoFault /\ trees < LastTree
          /\ Set("candidate", trees + 1) /\ trees' = trees + 1
          /\ rAt' = "writePrepared" /\ UNCHANGED <<rDaemon, rTxn, verdict, wanted>>
       \/ NoFault /\ Abandon("ERROR") /\ UNCHANGED txn

MoveCurrent ==
    /\ rAt = "moveCurrent"
    /\ \/ NoFault /\ Set("previous", root) /\ root' = Nothing /\ Go("writeMoved")
       \/ Fault /\ Abandon("ERROR") /\ UNCHANGED <<root, txn>>

\* Mutant: the failed write of "current-moved" cleans up like the steps before.
WriteMovedCleansUp ==
    /\ rAt = "writeMoved" /\ UNCHANGED root
    /\ \/ NoFault /\ Set("phase", "current-moved") /\ Go("activate")
       \/ Fault /\ Abandon("RECOVERY_REQUIRED") /\ UNCHANGED txn

\* A failed phase write puts the previous tree back, if that rename works, but
\* keeps the directory and asks for recovery.
WriteMoved ==
    /\ rAt = "writeMoved"
    /\ \/ NoFault /\ Set("phase", "current-moved") /\ Go("activate") /\ UNCHANGED root
       \/ /\ Fault /\ Return("RECOVERY_REQUIRED")
          /\ \E left \in LeftByFailedWrite("prepared", "current-moved"), back \in BOOLEAN :
                /\ root' = IF back THEN txn[rTxn].previous ELSE root
                /\ txn' = [txn EXCEPT ![rTxn].phase = left, ![rTxn].outcome = "RECOVERY_REQUIRED",
                                      ![rTxn].previous = IF back THEN Nothing ELSE @]

\* Mutant: ROLLED_BACK is answered without renaming the previous tree back.
ActivateForgetsBack ==
    /\ rAt = "activate"
    /\ \/ /\ NoFault /\ root' = txn[rTxn].candidate
          /\ Set("candidate", Nothing) /\ Go("writeActivated")
       \/ Fault /\ Abandon("ROLLED_BACK") /\ UNCHANGED <<root, txn>>

Activate ==
    /\ rAt = "activate"
    /\ \/ /\ NoFault /\ root' = txn[rTxn].candidate
          /\ Set("candidate", Nothing) /\ Go("writeActivated")
       \/ /\ Fault /\ root' = txn[rTxn].previous
          /\ Set("previous", Nothing) /\ Abandon("ROLLED_BACK")
       \/ Fault /\ Undecided /\ Return("RECOVERY_REQUIRED") /\ UNCHANGED root

WriteActivated ==
    /\ rAt = "writeActivated" /\ UNCHANGED root
    /\ \/ NoFault /\ Set("phase", "activated") /\ Go("postcheck")
       \/ /\ Fault /\ Go("rollback")
          /\ \E left \in LeftByFailedWrite("current-moved", "activated") : Set("phase", left)

\* ListProfiles must work on the new tree; then it is what the user asked for.
Postcheck ==
    /\ rAt = "postcheck" /\ UNCHANGED root
    /\ \/ /\ NoFault /\ Set("outcome", "verified") /\ wanted' = root
          /\ rAt' = "discard" /\ UNCHANGED <<rDaemon, rTxn, verdict, trees>>
       \/ NoFault /\ Go("rollback") /\ UNCHANGED txn

DiscardPrevious ==
    /\ rAt = "discard" /\ UNCHANGED root
    /\ \/ NoFault /\ Set("previous", Nothing) /\ Abandon("SUCCEEDED")
       \/ /\ Fault /\ Return("RECOVERY_REQUIRED")
          /\ txn' = [txn EXCEPT ![rTxn].previous = Half, ![rTxn].outcome = "RECOVERY_REQUIRED"]

\* rollbackRestore: root aside, the previous tree back, everything else removed.
RollbackAside ==
    /\ rAt = "rollback"
    /\ \/ NoFault /\ root' = Nothing /\ Go("rollbackBack") /\ UNCHANGED txn
       \/ Fault /\ Undecided /\ Return("RECOVERY_REQUIRED") /\ UNCHANGED root

RollbackBack ==
    /\ rAt = "rollbackBack"
    /\ \/ NoFault /\ root' = txn[rTxn].previous /\ Set("previous", Nothing) /\ Abandon("ROLLED_BACK")
       \/ Fault /\ Undecided /\ Return("RECOVERY_REQUIRED") /\ UNCHANGED root

\* os.RemoveAll(txn), whose error is ignored.
Cleanup ==
    /\ rAt = "cleanup" /\ UNCHANGED root /\ Return(verdict)
    /\ \/ NoFault /\ txn' = Closed(verdict)
       \/ /\ Fault
          /\ \E left \in Remains(txn[rTxn]) :
                txn' = [txn EXCEPT ![rTxn] = [left EXCEPT !.outcome = verdict]]

(***************************************************************************)
(* RecoverInterruptedRestores, one transaction directory at a time.        *)
(***************************************************************************)
StartDaemon ==
    /\ rDaemon = "down"
    /\ rDaemon' = "recovering"
    /\ UNCHANGED <<root, txn, rAt, rTxn, verdict, wanted, trees, bounds>>

Serve ==
    /\ rDaemon = "recovering" /\ rAt = "idle" /\ \A t \in Txns : ~txn[t].open
    /\ rDaemon' = "up" /\ verdict' = "none"
    /\ UNCHANGED <<root, txn, rAt, rTxn, wanted, trees, bounds>>

Refuse == rDaemon' = "refused" /\ rAt' = "idle"

\* Mutant: the crash between the first rename and the next phase is forgotten.
DecisionNotMoved(record) ==
    LET here == root # Nothing
        there == record.previous # Nothing IN
    CASE record.phase \in {"preparing", "prepared"} /\ here /\ ~there -> "remove"
      [] record.phase = "current-moved" /\ there -> IF here THEN "swap" ELSE "back"
      [] record.phase = "activated" /\ here -> IF there THEN "swap" ELSE "remove"
      [] OTHER -> "manual"

Decision(record) ==
    LET here == root # Nothing
        there == record.previous # Nothing IN
    CASE record.phase = "preparing" /\ here /\ ~there -> "remove"
      [] record.phase = "prepared" /\ here /\ ~there -> "remove"
      [] record.phase = "prepared" /\ ~here /\ there -> "back"
      [] record.phase = "current-moved" /\ there -> IF here THEN "swap" ELSE "back"
      [] record.phase = "activated" /\ here -> IF there THEN "swap" ELSE "remove"
      [] OTHER -> "manual"

RecoverOne(t) ==
    /\ rDaemon = "recovering" /\ rAt = "idle" /\ txn[t].open
    /\ rTxn' = t
    /\ UNCHANGED <<verdict, wanted, trees>>
    /\ LET step == Decision(txn[t]) IN
       \/ /\ step \in {"remove", "manual"} /\ NoFault /\ UNCHANGED <<root, txn>>
          /\ IF step = "manual" THEN Refuse ELSE rAt' = "recoverRemove" /\ UNCHANGED rDaemon
       \/ /\ step = "back" /\ NoFault
          /\ root' = txn[t].previous /\ txn' = [txn EXCEPT ![t].previous = Nothing]
          /\ rAt' = "recoverRemove" /\ UNCHANGED rDaemon
       \/ /\ step = "swap" /\ NoFault /\ txn[t].aside = Nothing
          /\ root' = Nothing /\ txn' = [txn EXCEPT ![t].aside = root]
          /\ rAt' = "recoverBack" /\ UNCHANGED rDaemon
       \/ /\ step = "swap" /\ txn[t].aside # Nothing    \* failed-recovery exists already
          /\ NoFault /\ Refuse /\ UNCHANGED <<root, txn>>
       \/ step \in {"back", "swap"} /\ Fault /\ Refuse /\ UNCHANGED <<root, txn>>

\* The second rename of rollbackInterruptedRestore; the tree moved aside is put
\* back if it fails and that rename works.
RecoverBack ==
    /\ rAt = "recoverBack" /\ UNCHANGED <<rTxn, verdict, wanted, trees>>
    /\ \/ /\ NoFault /\ root' = txn[rTxn].previous /\ Set("previous", Nothing)
          /\ rAt' = "recoverRemove" /\ UNCHANGED rDaemon
       \/ /\ Fault /\ Refuse
          /\ \/ root' = txn[rTxn].aside /\ Set("aside", Nothing)
             \/ UNCHANGED <<root, txn>>

RecoverRemove ==
    /\ rAt = "recoverRemove" /\ UNCHANGED <<root, rTxn, verdict, wanted, trees>>
    /\ \/ /\ NoFault
          /\ txn' = Closed(IF txn[rTxn].outcome = "none" THEN "recovered" ELSE txn[rTxn].outcome)
          /\ rAt' = "idle" /\ UNCHANGED rDaemon
       \/ /\ Fault /\ Refuse
          /\ \E left \in Remains(txn[rTxn]) : txn' = [txn EXCEPT ![rTxn] = left]

(***************************************************************************)
(* The world: profiles work in root, and the daemon stops.                 *)
(***************************************************************************)
\* Profiles only run while no restore does (ensureAllHermesProfilesStopped).
\* Hermes creates its directory when there is none.
WorkInRoot ==
    /\ rDaemon = "up" /\ rAt = "idle" /\ trees < LastTree
    /\ root' = trees + 1 /\ wanted' = trees + 1 /\ trees' = trees + 1
    /\ UNCHANGED <<txn, rDaemon, rAt, rTxn, verdict, bounds>>

\* What the file system shows of a step the crash has cut in two.
CutShort(t) ==
    IF rAt \in DOMAIN Writes THEN {txn[t], [txn[t] EXCEPT !.phase = "torn"]}
    ELSE IF rAt = "discard" THEN {txn[t], [txn[t] EXCEPT !.previous = Half]}
    ELSE IF rAt \in {"cleanup", "recoverRemove"} THEN {txn[t]} \cup Remains(txn[t])
    ELSE {txn[t]}

Stop ==
    /\ rDaemon # "down"
    /\ IF rDaemon = "refused" \/ rAt = "idle" THEN UNCHANGED <<txn, stops>>
       ELSE /\ Cardinality(stops) < MaxStops
            /\ \E left \in CutShort(rTxn) :
                  /\ txn' = [txn EXCEPT ![rTxn] = left]
                  /\ stops' = stops \cup {IF left.phase \in {"torn", "absent"} THEN left.phase ELSE rAt}
    /\ rDaemon' = "down" /\ rAt' = "idle" /\ verdict' = "none"
    /\ UNCHANGED <<root, rTxn, wanted, trees, faults>>

RestoreStep ==
    \/ WriteEarlyPhase("writePreparing", "extract")
    \/ ExtractCandidate
    \/ WriteEarlyPhase("writePrepared", "moveCurrent")
    \/ MoveCurrent \/ WriteMoved \/ Activate \/ WriteActivated
    \/ Postcheck \/ DiscardPrevious \/ RollbackAside \/ RollbackBack \/ Cleanup

RestoreNext ==
    \/ \E t \in Txns : BeginRestore(t) \/ RecoverOne(t)
    \/ RestoreStep \/ StartDaemon \/ Serve \/ RecoverBack \/ RecoverRemove
    \/ WorkInRoot \/ Stop

RestoreSpec == RestoreInit /\ [][RestoreNext]_restoreVars
-----------------------------------------------------------------------------
(***************************************************************************)
(* Properties.                                                             *)
(***************************************************************************)
OnDisk(tree) ==
    \/ root = tree
    \/ \E t \in Txns : txn[t].open /\ tree \in {txn[t].previous, txn[t].aside}

\* The tree profiles last worked in, or the one a restore last verified, is
\* never deleted: not by a step of RestoreBackup, not by a crash, and not by
\* RecoverInterruptedRestores - except that recovery undoes a restore whose
\* previous tree is still there although its postcheck had passed, or although
\* it had answered RECOVERY_REQUIRED (profiles, or a second restore, may have
\* changed root since).
TreeKept ==
    [][OnDisk(wanted) =>
          \/ OnDisk(wanted)'
          \/ /\ rAt = "recoverRemove"
             /\ \E t \in Txns : txn[t].outcome \in {"verified", "RECOVERY_REQUIRED"}]_restoreVars

\* The answer of RestoreBackup is what is on the disk: SUCCEEDED leaves the
\* verified tree and no previous one, ROLLED_BACK and a plain error leave root
\* as the restore found it.
VerdictTrue ==
    rAt = "cleanup" =>
        /\ verdict = "SUCCEEDED" => root = wanted /\ txn[rTxn].outcome = "verified"
        /\ verdict # "SUCCEEDED" => root = txn[rTxn].before
        /\ txn[rTxn].previous = Nothing

\* A crash of the daemon alone makes the next start ask for manual recovery
\* only if it left the phase file torn (a write truncates first) or absent
\* (not yet written, or removed before the rest of the directory), or hit a
\* rollback: between its two renames, or after recovery has put the previous
\* tree back and before it has removed a directory whose phase still says
\* "current-moved"; and it makes a half deleted tree the data directory only if
\* it hit the removal of the previous tree.
StartsClean ==
    /\ rDaemon = "refused" =>
          \/ faults > 0
          \/ stops \cap {"torn", "absent", "rollbackBack", "recoverBack", "recoverRemove"} # {}
    /\ root = Half => faults > 0 \/ "discard" \in stops

\* A restore tells the truth and leaves something to start from.  (RestoreBackup,
\* RecoverInterruptedRestores)
RestoreTrue == VerdictTrue /\ StartsClean
=============================================================================
