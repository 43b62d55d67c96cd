-------------------------- MODULE NodePrerequisites -------------------------
(***************************************************************************)
(* Node, npm and the dependencies of Hermes: an operation of the install   *)
(* use case with its own worker (app/hermes_prerequisites.go) over three   *)
(* things on the disk that are put in place file by file, in place, and    *)
(* are judged by what a probe says of them (runtime/hermes/node_*.go):     *)
(* node.exe by the version it prints, npm by the version in its            *)
(* package.json, the dependencies by a stamp with the digest of the lock   *)
(* file.  Staging directories, private to an operation and deleted by it,  *)
(* are left out: what comes out of them is verified by size and digest.    *)
(***************************************************************************)
EXTENDS Naturals, FiniteSets

CONSTANTS MaxPrereqs,      \* bound: operations
          MaxPrereqFaults, \* bound: failing probes, deletions and updates of the database
          MaxPrereqStops,  \* bound: times the daemon stops
          MaxLocks         \* bound: lock files, one after the other

ASSUME PrereqBounds == MaxPrereqs \in Nat /\ MaxPrereqFaults \in Nat /\ MaxPrereqStops \in Nat
                       /\ MaxLocks \in Nat

VARIABLES request,    \* the rows: [status, code]
          hand,       \* where the worker of each operation is
          context,    \* its context: "live", "cancelled", "deadline"
          nodeExe,    \* node.exe: "none", "old" (another version), "torn", "official"
          npmTree,    \* node_modules/npm: [manifest: package.json, body: the rest]
          lockFile,   \* package-lock.json of the Hermes tree, 0 when absent
          modules,    \* node_modules of that tree: for which lock, and whole or not
          stamp,      \* .yorva-node-deps: the digest in it, written whole or not
          answering,  \* the daemon serves requests
          faultsLeft, stopsLeft,
          mixed,      \* ghost: package.json of the official npm is left beside other files
          keptStamp,  \* ghost: a stamp that could not be removed before npm ci
          movedLock,  \* ghost: the lock was replaced while npm ci ran
          touched,    \* ghost: the lock was replaced since the latest operation
          unsaved     \* ghost: operations whose row could not be updated

diskVars == <<nodeExe, npmTree, modules, stamp, mixed, keptStamp>>
rowVars == <<request, hand, context, unsaved>>
hostVars == <<lockFile, movedLock, touched, answering, stopsLeft>>
prereqVars == <<diskVars, rowVars, hostVars, faultsLeft>>

PrereqIds == 1..MaxPrereqs
NoModules == [lock |-> 0, whole |-> FALSE]
NoNpm == [manifest |-> "none", body |-> "none"]
Endings == {"canceled", "DEPS_TIMEOUT", "DEPS_FAILED", "OTHER"}
OpenRow(i) == request[i].status \in {"PENDING", "RUNNING"}
Created == {i \in PrereqIds : request[i].status # "NONE"}
Latest == CHOOSE i \in Created : \A j \in Created : j <= i

PrereqInit ==
    /\ request = [i \in PrereqIds |-> [status |-> "NONE", code |-> ""]]
    /\ hand = [i \in PrereqIds |-> "none"] /\ context = [i \in PrereqIds |-> "live"]
    /\ lockFile \in 0..1
    /\ \/ nodeExe = "none" /\ npmTree = NoNpm /\ modules = NoModules
       \/ /\ nodeExe \in {"old", "official"} /\ npmTree = [manifest |-> "official", body |-> "official"]
          /\ modules = IF lockFile = 0 THEN NoModules ELSE [lock |-> 1, whole |-> TRUE]
    /\ stamp = modules /\ answering = TRUE /\ faultsLeft = MaxPrereqFaults /\ stopsLeft = MaxPrereqStops
    /\ mixed = FALSE /\ keptStamp = FALSE /\ movedLock = FALSE /\ touched = FALSE /\ unsaved = {}

(***************************************************************************)
(* What an inspection says.                                                *)
(***************************************************************************)
NodeReady == nodeExe = "official"

\* npm runs when its files are there and prints the version of its package.json;
\* with files missing or of two versions it may print it all the same.
NpmMayBeReady == NodeReady /\ npmTree.manifest = "official" /\ npmTree.body # "none"
NpmIsReady == NodeReady /\ npmTree = [manifest |-> "official", body |-> "official"]

DepsReady ==
    /\ NpmMayBeReady /\ lockFile # 0 /\ modules # NoModules
    /\ stamp = [lock |-> lockFile, whole |-> TRUE]

\* InspectPrerequisites: what the disk does not say the latest operation does.
DepsShown ==
    IF DepsReady THEN "READY"
    ELSE IF Created # {} /\ request[Latest].code \in {"DEPS_TIMEOUT", "DEPS_FAILED"}
         THEN request[Latest].code
    ELSE IF NpmMayBeReady /\ lockFile # 0 /\ modules # NoModules THEN "DEPS_FAILED" ELSE "NOT_INSTALLED"

(***************************************************************************)
(* The operation.                                                          *)
(***************************************************************************)
Goto(i, pc) == hand' = [hand EXCEPT ![i] = pc]
SetRow(i, status, code) == request' = [request EXCEPT ![i] = [status |-> status, code |-> code]]
PrereqFault == faultsLeft > 0 /\ faultsLeft' = faultsLeft - 1

\* StartPrerequisites: one active operation, by the query and by the index.
StartPrerequisites(i) ==
    /\ answering /\ request[i].status = "NONE" /\ \A j \in 1..(i - 1) : j \in Created
    /\ \A j \in PrereqIds : ~OpenRow(j)
    /\ SetRow(i, "PENDING", "") /\ Goto(i, "bind") /\ touched' = FALSE
    /\ UNCHANGED <<diskVars, context, unsaved, lockFile, movedLock, answering, stopsLeft, faultsLeft>>

BindPrerequisites(i) ==
    /\ hand[i] = "bind" /\ Goto(i, "begin")
    /\ UNCHANGED <<diskVars, request, context, unsaved, hostVars, faultsLeft>>

\* Mutant: a refused update of the row does not stop the worker.
RunAnyway(i) ==
    /\ hand[i] = "begin" /\ Goto(i, "node")
    /\ request' = [request EXCEPT ![i].status = IF @ = "PENDING" THEN "RUNNING" ELSE @]
    /\ UNCHANGED <<diskVars, context, unsaved, hostVars, faultsLeft>>

\* PENDING to RUNNING under the context of the worker, which gives up without it.
RunPrerequisites(i) ==
    /\ hand[i] = "begin"
    /\ \/ /\ request[i].status = "PENDING" /\ context[i] = "live"
          /\ SetRow(i, "RUNNING", "") /\ Goto(i, "node") /\ UNCHANGED <<unsaved, faultsLeft>>
       \/ /\ request[i].status # "PENDING" \/ context[i] # "live"
          /\ Goto(i, "none") /\ UNCHANGED <<request, unsaved, faultsLeft>>
       \/ PrereqFault /\ Goto(i, "none") /\ unsaved' = unsaved \cup {i} /\ UNCHANGED request
    /\ UNCHANGED <<diskVars, context, hostVars>>

\* Cancel, as for an installation: a bound worker is told and waited for, the
\* row of an operation without one is cancelled.
CancelPrerequisites(i) ==
    /\ answering /\ OpenRow(i)
    /\ IF hand[i] \in {"none", "bind"}
       THEN SetRow(i, "CANCELLED", "CANCELLED") /\ UNCHANGED context
       ELSE /\ context[i] = "live" /\ context' = [context EXCEPT ![i] = "cancelled"]
            /\ UNCHANGED request
    /\ UNCHANGED <<diskVars, hand, unsaved, hostVars, faultsLeft>>

PrereqDeadline(i) ==
    /\ hand[i] \notin {"none", "bind"} /\ context[i] = "live"
    /\ context' = [context EXCEPT ![i] = "deadline"]
    /\ UNCHANGED <<diskVars, request, hand, unsaved, hostVars, faultsLeft>>

\* The end of executePrerequisites: the row is updated unless it is terminal.
EndPrerequisites(i) ==
    /\ hand[i] \in Endings \cup {"done"} /\ Goto(i, "none")
    /\ \/ /\ \/ ~OpenRow(i) /\ UNCHANGED request
             \/ OpenRow(i) /\ hand[i] = "done" /\ SetRow(i, "SUCCEEDED", "")
             \/ OpenRow(i) /\ hand[i] = "canceled" /\ SetRow(i, "CANCELLED", "CANCELLED")
             \/ OpenRow(i) /\ hand[i] \notin {"done", "canceled"} /\ SetRow(i, "FAILED", hand[i])
          /\ UNCHANGED <<unsaved, faultsLeft>>
       \/ PrereqFault /\ unsaved' = unsaved \cup {i} /\ UNCHANGED request
    /\ UNCHANGED <<diskVars, context, hostVars>>

(***************************************************************************)
(* Apply.                                                                  *)
(***************************************************************************)
quietRow == <<request, context, unsaved, hostVars>>

\* How fetching an artifact fails, from the archive shipped or from its source:
\* what is not the cancellation of the context has a code of its own.
FetchFailures(i) == {"OTHER"} \cup (IF context[i] = "cancelled" THEN {"canceled"} ELSE {})

\* It is fetched, verified and unpacked, or is not: unpacking looks at the
\* context for every entry.
Unpack(i, next) ==
    /\ \/ context[i] = "live" /\ Goto(i, next)
       \/ \E failure \in FetchFailures(i) : Goto(i, failure)
    /\ UNCHANGED diskVars

\* ensureNode and ensureNPM up to the placement: skipped when the probe is content.
EnsureNode(i) ==
    /\ hand[i] = "node"
    /\ \/ NodeReady /\ Goto(i, "npm") /\ UNCHANGED <<diskVars, faultsLeft>>
       \/ ~NodeReady /\ Unpack(i, "exe") /\ UNCHANGED faultsLeft
       \/ NodeReady /\ PrereqFault /\ Unpack(i, "exe")
    /\ UNCHANGED quietRow

EnsureNPM(i) ==
    /\ hand[i] = "npm"
    /\ \/ NpmMayBeReady /\ Goto(i, "deps") /\ UNCHANGED <<diskVars, faultsLeft>>
       \/ ~NpmIsReady /\ Unpack(i, "remove") /\ UNCHANGED faultsLeft
       \/ NpmIsReady /\ PrereqFault /\ Unpack(i, "remove")
    /\ UNCHANGED quietRow

\* placeMaterializedTree copies in lexical order over what is there: node.exe
\* before node_modules, package.json of npm after everything else of it.
PlaceNode(i) ==
    /\ \/ hand[i] = "exe" /\ nodeExe' = "torn" /\ Goto(i, "exeEnd") /\ UNCHANGED <<npmTree, mixed>>
       \/ hand[i] = "exeEnd" /\ nodeExe' = "official" /\ Goto(i, "overlay") /\ UNCHANGED <<npmTree, mixed>>
       \/ /\ hand[i] = "overlay" /\ npmTree' = [npmTree EXCEPT !.body = "part"]
          /\ Goto(i, "overlayEnd") /\ mixed' = (npmTree.manifest = "official") /\ UNCHANGED nodeExe
       \/ /\ hand[i] = "overlayEnd" /\ npmTree' = [manifest |-> "bundled", body |-> "bundled"]
          /\ Goto(i, "npm") /\ mixed' = FALSE /\ UNCHANGED nodeExe
       \/ hand[i] \in {"exe", "exeEnd", "overlay", "overlayEnd"} /\ Goto(i, "OTHER")
          /\ UNCHANGED <<nodeExe, npmTree, mixed>>
    /\ UNCHANGED <<modules, stamp, keptStamp, faultsLeft, quietRow>>

\* The old npm is deleted, whatever becomes of that, and the new one put there;
\* the probe has the last word.
PlaceNPM(i) ==
    /\ \/ /\ hand[i] = "remove" /\ npmTree' = NoNpm /\ mixed' = FALSE
          /\ Goto(i, "copy") /\ UNCHANGED faultsLeft
       \/ /\ hand[i] = "remove" /\ npmTree.body # "none" /\ PrereqFault /\ Goto(i, "copy")
          /\ \E m \in {npmTree.manifest, "none"} : /\ npmTree' = [manifest |-> m, body |-> "part"]
                                                  /\ mixed' = (m = "official")
       \/ /\ hand[i] = "copy" /\ npmTree' = [npmTree EXCEPT !.body = "part"] /\ Goto(i, "copyEnd")
          /\ UNCHANGED <<mixed, faultsLeft>>
       \/ /\ hand[i] = "copyEnd" /\ npmTree' = [manifest |-> "official", body |-> "official"]
          /\ mixed' = FALSE
          /\ \/ Goto(i, "deps") /\ UNCHANGED faultsLeft
             \/ PrereqFault /\ Goto(i, "OTHER")
       \/ hand[i] \in {"copy", "copyEnd"} /\ Goto(i, "OTHER") /\ UNCHANGED <<npmTree, mixed, faultsLeft>>
    /\ UNCHANGED <<nodeExe, modules, stamp, keptStamp, quietRow>>

\* Mutant: the stamp of an earlier installation stays while npm ci runs.
DepsWithStamp(i) ==
    /\ hand[i] = "deps" /\ Goto(i, IF lockFile = 0 THEN "done" ELSE "ci")
    /\ UNCHANGED <<diskVars, faultsLeft, quietRow>>

\* Without a lock there is nothing to do; else the stamp goes first, if it can.
InstallDependencies(i) ==
    /\ hand[i] = "deps"
    /\ \/ lockFile = 0 /\ Goto(i, "done") /\ UNCHANGED <<stamp, keptStamp, faultsLeft>>
       \/ lockFile # 0 /\ Goto(i, "ci") /\ stamp' = NoModules /\ keptStamp' = FALSE /\ UNCHANGED faultsLeft
       \/ /\ lockFile # 0 /\ stamp # NoModules /\ PrereqFault /\ Goto(i, "ci")
          /\ keptStamp' = TRUE /\ UNCHANGED stamp
    /\ UNCHANGED <<nodeExe, npmTree, modules, mixed, quietRow>>

\* npm ci: it deletes node_modules and makes it again from the lock.  Start refuses a
\* context that is over; after a deadline that is DEPS_FAILED, for timedOut is set
\* only of a process that ran.
RunCi(i) ==
    /\ hand[i] = "ci"
    /\ \/ /\ context[i] = "live" /\ modules' = [lock |-> lockFile, whole |-> FALSE] /\ Goto(i, "ciEnd")
          /\ movedLock' = FALSE
       \/ context[i] = "cancelled" /\ Goto(i, "canceled") /\ UNCHANGED <<modules, movedLock>>
       \/ Goto(i, "DEPS_FAILED") /\ UNCHANGED <<modules, movedLock>>
    /\ UNCHANGED <<nodeExe, npmTree, stamp, mixed, keptStamp, request, context, unsaved,
                   lockFile, touched, answering, stopsLeft, faultsLeft>>

\* How it ended; one that is stopped may have come to its end, and one that cannot
\* be put under the job object is killed.
EndCi(i) ==
    /\ hand[i] = "ciEnd"
    /\ \/ /\ context[i] = "live" /\ Goto(i, "digest") /\ modules' = [modules EXCEPT !.whole = TRUE]
       \/ /\ \/ context[i] = "cancelled" /\ Goto(i, "canceled")
             \/ Goto(i, "DEPS_TIMEOUT")
             \/ Goto(i, "DEPS_FAILED")
             \/ Goto(i, "OTHER")
          /\ \E w \in BOOLEAN : modules' = [modules EXCEPT !.whole = w]
    /\ UNCHANGED <<nodeExe, npmTree, stamp, mixed, keptStamp, faultsLeft, quietRow>>

\* The digest of the lock as it is now, written in place.
WriteStamp(i) ==
    /\ \/ /\ hand[i] = "digest" /\ lockFile # 0 /\ stamp' = [lock |-> lockFile, whole |-> FALSE]
          /\ keptStamp' = FALSE /\ Goto(i, "stampEnd")
       \/ hand[i] = "stampEnd" /\ stamp' = [stamp EXCEPT !.whole = TRUE] /\ Goto(i, "done") /\ UNCHANGED keptStamp
       \/ hand[i] \in {"digest", "stampEnd"} /\ Goto(i, "DEPS_FAILED") /\ UNCHANGED <<stamp, keptStamp>>
    /\ UNCHANGED <<nodeExe, npmTree, modules, mixed, faultsLeft, quietRow>>

(***************************************************************************)
(* Around it.                                                              *)
(***************************************************************************)
\* Hermes is installed or updated by hand.
ReplaceLock ==
    /\ lockFile < MaxLocks /\ lockFile' = lockFile + 1 /\ touched' = TRUE
    /\ movedLock' = (movedLock \/ \E i \in PrereqIds : hand[i] \in {"ciEnd", "digest"})
    /\ UNCHANGED <<diskVars, rowVars, answering, stopsLeft, faultsLeft>>

DaemonStops ==
    /\ stopsLeft > 0 /\ stopsLeft' = stopsLeft - 1 /\ answering' = FALSE
    /\ hand' = [i \in PrereqIds |-> "none"] /\ context' = [i \in PrereqIds |-> "live"]
    /\ UNCHANGED <<diskVars, request, unsaved, lockFile, movedLock, touched, faultsLeft>>

\* Daemon start: InterruptStale, then requests are served.
DaemonStarts ==
    /\ ~answering /\ answering' = TRUE
    /\ request' = [i \in PrereqIds |-> IF OpenRow(i) THEN [status |-> "FAILED", code |-> "INTERRUPTED"]
                                      ELSE request[i]]
    /\ UNCHANGED <<diskVars, hand, context, unsaved, lockFile, movedLock, touched, stopsLeft, faultsLeft>>

PrereqNext ==
    \/ ReplaceLock \/ DaemonStops \/ DaemonStarts
    \/ \E i \in PrereqIds :
          \/ StartPrerequisites(i) \/ BindPrerequisites(i) \/ RunPrerequisites(i)
          \/ CancelPrerequisites(i) \/ PrereqDeadline(i) \/ EndPrerequisites(i)
          \/ EnsureNode(i) \/ PlaceNode(i) \/ EnsureNPM(i) \/ PlaceNPM(i)
          \/ InstallDependencies(i) \/ RunCi(i) \/ EndCi(i) \/ WriteStamp(i)

PrereqSpec == PrereqInit /\ [][PrereqNext]_prereqVars

(***************************************************************************)
(* Properties.                                                             *)
(***************************************************************************)
Applying(i) == hand[i] \notin {"none", "bind", "begin"}

\* What is shown as READY is what was put there: npm is whole, unless a placement
\* stopped half way and left the package.json of the official npm beside files of
\* another (a Node is placed over an older one, or an npm is deleted in part); the
\* dependencies are what npm ci made of this very lock, unless the lock was
\* replaced while it ran or the stamp of the last time could not be removed.
\* Operations that write keep apart and are seen running; one that is active has
\* a worker, unless it was cancelled before it ran or its row could not be
\* updated.  A success leaves everything ready, and shown so, until the lock
\* changes.
PrerequisitesTrue ==
    /\ NpmMayBeReady => npmTree.body = "official" \/ mixed
    /\ DepsShown = "READY" => modules = [lock |-> lockFile, whole |-> TRUE] \/ movedLock \/ keptStamp
    /\ \A i \in PrereqIds : Applying(i) => /\ request[i].status = "RUNNING"
                                          /\ \A j \in PrereqIds : Applying(j) => j = i
    /\ \A i \in PrereqIds : answering /\ OpenRow(i) /\ hand[i] = "none" =>
                               i \in unsaved \/ (request[i].status = "PENDING" /\ context[i] # "live")
    /\ Created # {} /\ ~touched => (request[Latest].status = "SUCCEEDED" =>
           NpmMayBeReady /\ DepsShown = (IF lockFile = 0 THEN "NOT_INSTALLED" ELSE "READY"))
=============================================================================
