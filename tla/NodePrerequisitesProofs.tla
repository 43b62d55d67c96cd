----------------------- MODULE NodePrerequisitesProofs ----------------------
(***************************************************************************)
(* PrerequisitesTrue for every number of operations, faults, stops and     *)
(* lock files.  It is not inductive: why is a stamp that is whole one of   *)
(* the modules beside it?  Because npm ci only starts when the stamp is    *)
(* gone, and is only stamped when it has ended.  PrereqInv says for each   *)
(* position of a worker what it has left on the disk (AtOK), and that only *)
(* one worker is at such a position, that of the latest operation (RowsOK).*)
(***************************************************************************)
EXTENDS NodePrerequisites, TLAPS

Statuses == {"NONE", "PENDING", "RUNNING", "SUCCEEDED", "FAILED", "CANCELLED"}
Codes == Endings \cup {"", "CANCELLED", "INTERRUPTED"}
Waiting == {"none", "bind", "begin"}
WithNode == {"overlay", "overlayEnd", "npm", "remove", "copy", "copyEnd"}
WithNpm == {"deps", "ci", "ciEnd", "digest", "stampEnd", "done"}
Hands == Waiting \cup {"node", "exe", "exeEnd"} \cup WithNode \cup WithNpm \cup Endings
Trees == [lock : Nat, whole : BOOLEAN]

RowTypes ==
    /\ request \in [PrereqIds -> [status : Statuses, code : Codes]]
    /\ hand \in [PrereqIds -> Hands]
    /\ context \in [PrereqIds -> {"live", "cancelled", "deadline"}]
    /\ answering \in BOOLEAN /\ unsaved \subseteq PrereqIds
DiskTypes ==
    /\ nodeExe \in {"none", "old", "torn", "official"}
    /\ npmTree \in [manifest : {"none", "bundled", "official"},
                    body : {"none", "part", "bundled", "official"}]
    /\ lockFile \in Nat /\ modules \in Trees /\ stamp \in Trees
    /\ mixed \in BOOLEAN /\ keptStamp \in BOOLEAN /\ movedLock \in BOOLEAN /\ touched \in BOOLEAN

Newest(i) == \A j \in PrereqIds : request[j].status # "NONE" => j <= i

\* Rows are created in order and only the latest may be open; a worker that
\* applies is that of a running row; no row is open without a worker but in the
\* two ways PrerequisitesTrue names.
RowsOK ==
    /\ \A i, j \in PrereqIds : j < i /\ request[i].status # "NONE" => request[j].status # "NONE"
    /\ (\A i \in PrereqIds : request[i].status = "NONE") \/
       \E i \in PrereqIds : request[i].status # "NONE" /\ Newest(i)
    /\ \A i \in PrereqIds : OpenRow(i) => Newest(i)
    /\ \A i \in PrereqIds : request[i].status = "SUCCEEDED" => request[i].code = ""
    /\ \A i \in PrereqIds : hand[i] \in {"bind", "begin"} => request[i].status \in {"PENDING", "CANCELLED"}
    /\ \A i \in PrereqIds : hand[i] \notin Waiting => request[i].status = "RUNNING"
    /\ ~answering => \A i \in PrereqIds : hand[i] = "none"
    /\ \A i \in PrereqIds : answering /\ OpenRow(i) /\ hand[i] = "none" =>
                                i \in unsaved \/ (request[i].status = "PENDING" /\ context[i] # "live")

NpmTrue == npmTree.manifest = "official" => npmTree.body = "official" \/ mixed
StampTrue == stamp.whole => modules = [lock |-> stamp.lock, whole |-> TRUE] \/ keptStamp \/ movedLock
DepsDone == lockFile = 0 \/ (stamp = [lock |-> lockFile, whole |-> TRUE] /\ modules.lock # 0)

\* What a worker at pc has found or left on the disk.
AtOK(pc) ==
    /\ pc \in WithNode \cup WithNpm => NodeReady
    /\ pc \in WithNpm => NpmMayBeReady
    /\ pc = "copy" => (npmTree.manifest = "official" => mixed)
    /\ pc \in {"ci", "ciEnd", "digest"} => ~stamp.whole \/ keptStamp
    /\ pc = "ci" => lockFile # 0
    /\ pc \in {"ciEnd", "digest", "stampEnd"} => modules.lock # 0
    /\ pc = "ciEnd" => modules.lock = lockFile \/ movedLock
    /\ pc = "digest" => modules = [lock |-> lockFile, whole |-> TRUE] \/ movedLock
    /\ pc = "stampEnd" => /\ modules = [lock |-> stamp.lock, whole |-> TRUE] \/ movedLock
                          /\ touched \/ stamp.lock = lockFile
    /\ pc = "done" => touched \/ DepsDone

SuccessKept ==
    \A i \in PrereqIds : request[i].status = "SUCCEEDED" /\ Newest(i) =>
                             touched \/ (NpmMayBeReady /\ DepsDone)

DiskOK == NpmTrue /\ StampTrue /\ SuccessKept /\ \A i \in PrereqIds : AtOK(hand[i])

PrereqInv == RowTypes /\ DiskTypes /\ RowsOK /\ DiskOK

(***************************************************************************)
(* A step of a worker that applies leaves the rows alone; no success is    *)
(* the latest operation then, and no other worker is at a position that    *)
(* says anything of the disk.                                              *)
(***************************************************************************)
LEMMA ApplyKeeps ==
    ASSUME PrereqInv, NEW i \in PrereqIds, NEW pc \in Hands \ Waiting,
           hand[i] \notin Waiting, Goto(i, pc),
           UNCHANGED <<request, context, unsaved, answering>>,
           NpmTrue', StampTrue', AtOK(pc)'
    PROVE  RowTypes' /\ RowsOK' /\ DiskOK'
<1>1. /\ hand' \in [PrereqIds -> Hands] /\ hand'[i] = pc
      /\ \A j \in PrereqIds : j # i => hand'[j] = hand[j]
    BY DEF PrereqInv, RowTypes, Goto
<1>2. request[i].status = "RUNNING" /\ OpenRow(i) /\ Newest(i)
    BY DEF PrereqInv, RowsOK, OpenRow
<1>3. ASSUME NEW j \in PrereqIds, j # i PROVE hand[j] \in Waiting
    <2>1. SUFFICES ASSUME hand[j] \notin Waiting PROVE FALSE
        OBVIOUS
    <2>2. request[j].status = "RUNNING" /\ OpenRow(j) /\ Newest(j)
        BY <2>1 DEF PrereqInv, RowsOK, OpenRow
    <2> QED BY <1>2, <1>3, <2>2, PrereqBounds DEF Newest, PrereqIds
<1>4. RowTypes'
    BY <1>1 DEF PrereqInv, RowTypes
<1>5. RowsOK'
    BY <1>1, <1>2 DEF PrereqInv, RowsOK, OpenRow, Newest, Waiting
<1>6. SuccessKept'
    <2>1. SUFFICES ASSUME NEW j \in PrereqIds, request[j].status = "SUCCEEDED", Newest(j) PROVE FALSE
        BY DEF SuccessKept, Newest
    <2>2. j = i
        BY <1>2, <2>1, PrereqBounds DEF Newest, PrereqIds
    <2> QED BY <1>2, <2>1, <2>2
<1>7. ASSUME NEW j \in PrereqIds PROVE AtOK(hand[j])'
    <2>1. CASE j = i
        BY <1>1, <2>1
    <2>2. CASE j # i
        <3>1. hand'[j] \in Waiting
            BY <1>1, <1>3, <2>2
        <3> QED BY <3>1 DEF AtOK, Waiting, WithNode, WithNpm
    <2> QED BY <2>1, <2>2
<1> QED BY <1>4, <1>5, <1>6, <1>7 DEF DiskOK

\* ensureNode: what the probe is content with is left, the rest is unpacked.
LEMMA EnsureNodeKeeps ==
    ASSUME PrereqInv, NEW i \in PrereqIds, EnsureNode(i)
    PROVE  PrereqInv'
<1>1. PICK pc \in {"npm", "exe", "canceled", "OTHER"} : Goto(i, pc) /\ (pc = "npm" => NodeReady)
    BY DEF EnsureNode, Unpack, FetchFailures
<1>2. hand[i] = "node" /\ UNCHANGED <<diskVars, quietRow>>
    BY DEF EnsureNode, Unpack
<1>3. DiskTypes' /\ NpmTrue' /\ StampTrue'
    BY <1>2 DEF PrereqInv, DiskTypes, DiskOK, NpmTrue, StampTrue, diskVars, quietRow, hostVars
<1>4. AtOK(pc)'
    BY <1>1, <1>2 DEF AtOK, WithNode, WithNpm, NodeReady, diskVars
<1>5. pc \in Hands \ Waiting /\ hand[i] \notin Waiting
    BY <1>1, <1>2 DEF Hands, Waiting, WithNode, WithNpm, Endings
<1> QED BY <1>1, <1>2, <1>3, <1>4, <1>5, ApplyKeeps DEF PrereqInv, quietRow, hostVars

\* ensureNPM that finds or fetches the official npm keeps the invariant: what its
\* position claims of npm is what NpmMayBeReady says of the disk.
LEMMA EnsureNPMKeeps ==
    ASSUME PrereqInv, NEW i \in PrereqIds, EnsureNPM(i)
    PROVE  PrereqInv'
<1>1. PICK pc \in {"deps", "remove", "canceled", "OTHER"} : Goto(i, pc) /\ (pc = "deps" => NpmMayBeReady)
    BY DEF EnsureNPM, Unpack, FetchFailures
<1>2. hand[i] = "npm" /\ UNCHANGED <<diskVars, quietRow>>
    BY DEF EnsureNPM, Unpack
<1>3. DiskTypes' /\ NpmTrue' /\ StampTrue'
    BY <1>2 DEF PrereqInv, DiskTypes, DiskOK, NpmTrue, StampTrue, diskVars, quietRow, hostVars
<1>4. NodeReady
    BY <1>2 DEF PrereqInv, DiskOK, AtOK, WithNode
<1>5. AtOK(pc)'
    BY <1>1, <1>2, <1>4 DEF AtOK, WithNode, WithNpm, NodeReady, NpmMayBeReady, diskVars
<1>6. pc \in Hands \ Waiting /\ hand[i] \notin Waiting
    BY <1>1, <1>2 DEF Hands, Waiting, WithNode, WithNpm, Endings
<1> QED BY <1>1, <1>2, <1>3, <1>5, <1>6, ApplyKeeps DEF PrereqInv, quietRow, hostVars

\* placeMaterializedTree of Node: at whatever file it stops, a package.json of the
\* official npm beside other files is known as mixed.
LEMMA PlaceNodeKeeps ==
    ASSUME PrereqInv, NEW i \in PrereqIds, PlaceNode(i)
    PROVE  PrereqInv'
<1>1. PICK pc \in {"exeEnd", "overlay", "overlayEnd", "npm", "OTHER"} :
          /\ Goto(i, pc) /\ DiskTypes' /\ NpmTrue' /\ (pc \in WithNode => nodeExe' = "official")
    <2>1. CASE hand[i] = "exe" /\ nodeExe' = "torn" /\ Goto(i, "exeEnd") /\ UNCHANGED <<npmTree, mixed>>
        BY <2>1 DEF PlaceNode, PrereqInv, DiskTypes, DiskOK, NpmTrue, WithNode, quietRow, hostVars
    <2>2. CASE hand[i] = "exeEnd" /\ nodeExe' = "official" /\ Goto(i, "overlay") /\ UNCHANGED <<npmTree, mixed>>
        BY <2>2 DEF PlaceNode, PrereqInv, DiskTypes, DiskOK, NpmTrue, quietRow, hostVars
    <2>3. CASE /\ hand[i] = "overlay" /\ npmTree' = [npmTree EXCEPT !.body = "part"]
               /\ Goto(i, "overlayEnd") /\ mixed' = (npmTree.manifest = "official") /\ UNCHANGED nodeExe
        <3>1. nodeExe = "official"
            BY <2>3 DEF PrereqInv, DiskOK, AtOK, WithNode, NodeReady
        <3>2. npmTree' \in [manifest : {"none", "bundled", "official"}, body : {"none", "part", "bundled", "official"}]
              /\ npmTree'.manifest = npmTree.manifest
            BY <2>3 DEF PrereqInv, DiskTypes
        <3>3. DiskTypes'
            BY <2>3, <3>2 DEF PlaceNode, PrereqInv, DiskTypes, quietRow, hostVars
        <3>4. NpmTrue'
            BY <2>3, <3>2 DEF NpmTrue
        <3> QED BY <2>3, <3>1, <3>3, <3>4
    <2>4. CASE /\ hand[i] = "overlayEnd" /\ npmTree' = [manifest |-> "bundled", body |-> "bundled"]
               /\ Goto(i, "npm") /\ mixed' = FALSE /\ UNCHANGED nodeExe
        <3>1. nodeExe = "official"
            BY <2>4 DEF PrereqInv, DiskOK, AtOK, WithNode, NodeReady
        <3> QED BY <2>4, <3>1 DEF PlaceNode, PrereqInv, DiskTypes, NpmTrue, quietRow, hostVars
    <2>5. CASE Goto(i, "OTHER") /\ UNCHANGED <<nodeExe, npmTree, mixed>>
        BY <2>5 DEF PlaceNode, PrereqInv, DiskTypes, DiskOK, NpmTrue, WithNode, quietRow, hostVars
    <2> QED BY <2>1, <2>2, <2>3, <2>4, <2>5 DEF PlaceNode
<1>2. hand[i] \in {"exe", "exeEnd", "overlay", "overlayEnd"} /\ UNCHANGED <<modules, stamp, keptStamp, quietRow>>
    BY DEF PlaceNode
<1>3. StampTrue'
    BY <1>2 DEF PrereqInv, DiskOK, StampTrue, quietRow, hostVars
<1>4. AtOK(pc)'
    BY <1>1 DEF AtOK, WithNode, WithNpm, NodeReady
<1>5. pc \in Hands \ Waiting /\ hand[i] \notin Waiting
    BY <1>1, <1>2 DEF Hands, Waiting, WithNode, WithNpm, Endings
<1> QED BY <1>1, <1>2, <1>3, <1>4, <1>5, ApplyKeeps DEF PrereqInv, quietRow, hostVars

\* ensureNPM from the deletion of the old tree to the postcondition.
LEMMA PlaceNPMKeeps ==
    ASSUME PrereqInv, NEW i \in PrereqIds, PlaceNPM(i)
    PROVE  PrereqInv'
<1>1. /\ hand[i] \in {"remove", "copy", "copyEnd"} /\ NodeReady
      /\ UNCHANGED <<nodeExe, modules, stamp, keptStamp, quietRow>>
    BY DEF PlaceNPM, PrereqInv, DiskOK, AtOK, WithNode
<1>2. PICK pc \in {"copy", "copyEnd", "deps", "OTHER"} :
          /\ Goto(i, pc) /\ NpmTrue'
          /\ npmTree' \in [manifest : {"none", "bundled", "official"}, body : {"none", "part", "bundled", "official"}]
          /\ mixed' \in BOOLEAN
          /\ pc = "deps" => npmTree'.manifest = "official" /\ npmTree'.body # "none"
          /\ pc = "copy" => (npmTree'.manifest = "official" => mixed')
    <2>1. CASE hand[i] = "remove" /\ npmTree' = NoNpm /\ mixed' = FALSE /\ Goto(i, "copy")
        BY <2>1 DEF NoNpm, NpmTrue
    <2>2. CASE /\ Goto(i, "copy")
               /\ \E m \in {npmTree.manifest, "none"} : /\ npmTree' = [manifest |-> m, body |-> "part"]
                                                        /\ mixed' = (m = "official")
        <3>1. PICK m \in {npmTree.manifest, "none"} : /\ npmTree' = [manifest |-> m, body |-> "part"]
                                                       /\ mixed' = (m = "official")
            BY <2>2
        <3>2. m \in {"none", "bundled", "official"}
            BY DEF PrereqInv, DiskTypes
        <3> QED BY <2>2, <3>1, <3>2 DEF NpmTrue
    <2>3. CASE hand[i] = "copy" /\ npmTree' = [npmTree EXCEPT !.body = "part"] /\ Goto(i, "copyEnd") /\ UNCHANGED mixed
        <3>1. /\ npmTree' \in [manifest : {"none", "bundled", "official"}, body : {"none", "part", "bundled", "official"}]
              /\ npmTree'.manifest = npmTree.manifest
            BY <2>3 DEF PrereqInv, DiskTypes
        <3>2. npmTree.manifest = "official" => mixed
            BY <2>3 DEF PrereqInv, DiskOK, AtOK
        <3> QED BY <2>3, <3>1, <3>2 DEF NpmTrue, PrereqInv, DiskTypes
    <2>4. CASE /\ npmTree' = [manifest |-> "official", body |-> "official"] /\ mixed' = FALSE
               /\ Goto(i, "deps") \/ Goto(i, "OTHER")
        BY <2>4 DEF NpmTrue
    <2>5. CASE Goto(i, "OTHER") /\ UNCHANGED <<npmTree, mixed>>
        BY <2>5 DEF PrereqInv, DiskTypes, DiskOK, NpmTrue
    <2> QED BY <2>1, <2>2, <2>3, <2>4, <2>5 DEF PlaceNPM
<1>3. DiskTypes'
    BY <1>1, <1>2 DEF PrereqInv, DiskTypes, quietRow, hostVars
<1>4. StampTrue'
    BY <1>1 DEF PrereqInv, DiskOK, StampTrue, quietRow, hostVars
<1>5. AtOK(pc)'
    BY <1>1, <1>2 DEF AtOK, WithNode, WithNpm, NodeReady, NpmMayBeReady
<1>6. pc \in Hands \ Waiting /\ hand[i] \notin Waiting
    BY <1>1, <1>2 DEF Hands, Waiting, WithNode, WithNpm, Endings
<1> QED BY <1>1, <1>2, <1>3, <1>4, <1>5, <1>6, ApplyKeeps DEF PrereqInv, quietRow, hostVars

\* installNodeDependencies up to npm ci: without a lock there is nothing to do,
\* and npm ci never starts beside a stamp that could be removed.
LEMMA InstallDependenciesKeeps ==
    ASSUME PrereqInv, NEW i \in PrereqIds, InstallDependencies(i)
    PROVE  PrereqInv'
<1>1. /\ hand[i] = "deps" /\ NpmMayBeReady /\ NodeReady
      /\ UNCHANGED <<nodeExe, npmTree, modules, mixed, quietRow>>
    BY DEF InstallDependencies, PrereqInv, DiskOK, AtOK, WithNpm
<1>2. PICK pc \in {"done", "ci"} :
          /\ Goto(i, pc) /\ stamp' \in Trees /\ keptStamp' \in BOOLEAN /\ StampTrue'
          /\ IF pc = "done" THEN lockFile = 0 ELSE lockFile # 0 /\ (~stamp'.whole \/ keptStamp')
    <2>1. CASE lockFile = 0 /\ Goto(i, "done") /\ UNCHANGED <<stamp, keptStamp>>
        BY <1>1, <2>1 DEF PrereqInv, DiskTypes, DiskOK, StampTrue, quietRow, hostVars
    <2>2. CASE lockFile # 0 /\ Goto(i, "ci") /\ stamp' = NoModules /\ keptStamp' = FALSE
        BY <2>2 DEF NoModules, Trees, StampTrue
    <2>3. CASE lockFile # 0 /\ Goto(i, "ci") /\ keptStamp' = TRUE /\ UNCHANGED stamp
        BY <2>3 DEF PrereqInv, DiskTypes, StampTrue
    <2> QED BY <2>1, <2>2, <2>3 DEF InstallDependencies
<1>3. DiskTypes' /\ NpmTrue'
    BY <1>1, <1>2 DEF PrereqInv, DiskTypes, DiskOK, NpmTrue, quietRow, hostVars
<1>4. AtOK(pc)'
    BY <1>1, <1>2 DEF AtOK, WithNode, WithNpm, NodeReady, NpmMayBeReady, DepsDone, quietRow, hostVars
<1>5. pc \in Hands \ Waiting /\ hand[i] \notin Waiting
    BY <1>1, <1>2 DEF Hands, Waiting, WithNode, WithNpm, Endings
<1> QED BY <1>1, <1>2, <1>3, <1>4, <1>5, ApplyKeeps DEF PrereqInv, quietRow, hostVars

\* npm ci starts to delete node_modules: there is no stamp then that tells of it.
LEMMA RunCiKeeps ==
    ASSUME PrereqInv, NEW i \in PrereqIds, RunCi(i)
    PROVE  PrereqInv'
<1>1. /\ hand[i] = "ci" /\ NpmMayBeReady /\ NodeReady /\ lockFile # 0 /\ lockFile \in Nat
      /\ ~stamp.whole \/ keptStamp
      /\ UNCHANGED <<nodeExe, npmTree, stamp, mixed, keptStamp, request, context, unsaved,
                     lockFile, touched, answering>>
    BY DEF RunCi, PrereqInv, DiskTypes, DiskOK, AtOK, WithNpm
<1>2. PICK pc \in {"ciEnd", "canceled", "DEPS_FAILED"} :
          /\ Goto(i, pc) /\ modules' \in Trees /\ movedLock' \in BOOLEAN
          /\ pc = "ciEnd" => modules'.lock = lockFile
    <2>1. CASE modules' = [lock |-> lockFile, whole |-> FALSE] /\ Goto(i, "ciEnd") /\ movedLock' = FALSE
        BY <1>1, <2>1 DEF Trees
    <2>2. CASE (Goto(i, "canceled") \/ Goto(i, "DEPS_FAILED")) /\ UNCHANGED <<modules, movedLock>>
        BY <2>2 DEF PrereqInv, DiskTypes
    <2> QED BY <2>1, <2>2 DEF RunCi
<1>3. DiskTypes' /\ NpmTrue' /\ StampTrue'
    BY <1>1, <1>2 DEF PrereqInv, DiskTypes, DiskOK, NpmTrue, StampTrue
<1>4. AtOK(pc)'
    BY <1>1, <1>2 DEF AtOK, WithNode, WithNpm, NodeReady, NpmMayBeReady
<1>5. pc \in Hands \ Waiting /\ hand[i] \notin Waiting
    BY <1>1, <1>2 DEF Hands, Waiting, WithNode, WithNpm, Endings
<1> QED BY <1>1, <1>2, <1>3, <1>4, <1>5, ApplyKeeps DEF PrereqInv

\* npm ci ends, well or not: it was run from the lock that is there, unless that
\* was replaced meanwhile.
LEMMA EndCiKeeps ==
    ASSUME PrereqInv, NEW i \in PrereqIds, EndCi(i)
    PROVE  PrereqInv'
<1>1. /\ hand[i] = "ciEnd" /\ NpmMayBeReady /\ NodeReady /\ modules.lock # 0 /\ modules \in Trees
      /\ ~stamp.whole \/ keptStamp
      /\ modules.lock = lockFile \/ movedLock
      /\ UNCHANGED <<nodeExe, npmTree, stamp, mixed, keptStamp, quietRow>>
    BY DEF EndCi, PrereqInv, DiskTypes, DiskOK, AtOK, WithNpm
<1>2. PICK pc \in {"digest", "canceled", "DEPS_TIMEOUT", "DEPS_FAILED", "OTHER"}, w \in BOOLEAN :
          Goto(i, pc) /\ modules' = [modules EXCEPT !.whole = w] /\ (pc = "digest" => w)
    BY DEF EndCi
<1>3. modules' = [lock |-> modules.lock, whole |-> w] /\ modules' \in Trees
    BY <1>1, <1>2 DEF Trees
<1>4. DiskTypes' /\ NpmTrue' /\ StampTrue'
    BY <1>1, <1>3 DEF PrereqInv, DiskTypes, DiskOK, NpmTrue, StampTrue, quietRow, hostVars
<1>5. AtOK(pc)'
    BY <1>1, <1>2, <1>3 DEF AtOK, WithNode, WithNpm, NodeReady, NpmMayBeReady, quietRow, hostVars
<1>6. pc \in Hands \ Waiting /\ hand[i] \notin Waiting
    BY <1>1, <1>2 DEF Hands, Waiting, WithNode, WithNpm, Endings
<1> QED BY <1>1, <1>2, <1>4, <1>5, <1>6, ApplyKeeps DEF PrereqInv, quietRow, hostVars

\* The stamp is the digest of the lock as it is now: of the modules it stands
\* beside, unless the lock was replaced while npm ci ran.
LEMMA WriteStampKeeps ==
    ASSUME PrereqInv, NEW i \in PrereqIds, WriteStamp(i)
    PROVE  PrereqInv'
<1>1. /\ hand[i] \in {"digest", "stampEnd"} /\ NpmMayBeReady /\ NodeReady /\ modules.lock # 0
      /\ lockFile \in Nat /\ stamp \in Trees /\ keptStamp \in BOOLEAN
      /\ UNCHANGED <<nodeExe, npmTree, modules, mixed, quietRow>>
    BY DEF WriteStamp, PrereqInv, DiskTypes, DiskOK, AtOK, WithNpm
<1>2. PICK pc \in {"stampEnd", "done", "DEPS_FAILED"} :
          /\ Goto(i, pc) /\ stamp' \in Trees /\ keptStamp' \in BOOLEAN /\ StampTrue' /\ AtOK(pc)'
    <2>1. CASE /\ hand[i] = "digest" /\ lockFile # 0 /\ stamp' = [lock |-> lockFile, whole |-> FALSE]
               /\ keptStamp' = FALSE /\ Goto(i, "stampEnd")
        <3>1. modules = [lock |-> lockFile, whole |-> TRUE] \/ movedLock
            BY <2>1 DEF PrereqInv, DiskOK, AtOK
        <3>2. stamp' \in Trees /\ StampTrue'
            BY <1>1, <2>1 DEF Trees, StampTrue
        <3>3. AtOK("stampEnd")'
            BY <1>1, <2>1, <3>1 DEF AtOK, WithNode, WithNpm, NodeReady, NpmMayBeReady, quietRow, hostVars
        <3> QED BY <2>1, <3>2, <3>3
    <2>2. CASE hand[i] = "stampEnd" /\ stamp' = [stamp EXCEPT !.whole = TRUE] /\ Goto(i, "done") /\ UNCHANGED keptStamp
        <3>1. /\ modules = [lock |-> stamp.lock, whole |-> TRUE] \/ movedLock
              /\ touched \/ stamp.lock = lockFile
            BY <2>2 DEF PrereqInv, DiskOK, AtOK
        <3>2. stamp' = [lock |-> stamp.lock, whole |-> TRUE] /\ stamp' \in Trees
            BY <1>1, <2>2 DEF Trees
        <3>3. StampTrue'
            BY <1>1, <2>2, <3>1, <3>2 DEF StampTrue, quietRow, hostVars
        <3>4. AtOK("done")'
            BY <1>1, <2>2, <3>1, <3>2 DEF AtOK, WithNode, WithNpm, NodeReady, NpmMayBeReady, DepsDone, quietRow, hostVars
        <3> QED BY <1>1, <2>2, <3>2, <3>3, <3>4
    <2>3. CASE Goto(i, "DEPS_FAILED") /\ UNCHANGED <<stamp, keptStamp>>
        <3>1. StampTrue' /\ AtOK("DEPS_FAILED")'
            BY <1>1, <2>3 DEF PrereqInv, DiskOK, StampTrue, AtOK, WithNode, WithNpm, quietRow, hostVars
        <3> QED BY <1>1, <2>3, <3>1
    <2> QED BY <2>1, <2>2, <2>3 DEF WriteStamp
<1>3. DiskTypes' /\ NpmTrue'
    BY <1>1, <1>2 DEF PrereqInv, DiskTypes, DiskOK, NpmTrue, quietRow, hostVars
<1>4. pc \in Hands \ Waiting /\ hand[i] \notin Waiting
    BY <1>1, <1>2 DEF Hands, Waiting, WithNode, WithNpm, Endings
<1> QED BY <1>1, <1>2, <1>3, <1>4, ApplyKeeps DEF PrereqInv, quietRow, hostVars

(***************************************************************************)
(* A step that leaves the disk alone: the workers may stop or wait, rows   *)
(* may be written but none is created.                                     *)
(***************************************************************************)
LEMMA RowStepKeeps ==
    ASSUME PrereqInv, UNCHANGED <<diskVars, lockFile, movedLock, touched>>,
           \A j \in PrereqIds : hand'[j] = hand[j] \/ hand'[j] \in Waiting,
           \A j \in PrereqIds : request'[j].status = "NONE" <=> request[j].status = "NONE",
           \A j \in PrereqIds : request'[j].status = "SUCCEEDED" =>
                                    request[j].status = "SUCCEEDED" \/ hand[j] = "done"
    PROVE  DiskTypes' /\ DiskOK' /\ (\A j \in PrereqIds : Newest(j) <=> Newest(j)')
<1>1. DiskTypes' /\ NpmTrue' /\ StampTrue'
    BY DEF PrereqInv, DiskTypes, DiskOK, NpmTrue, StampTrue, diskVars
<1>2. \A j \in PrereqIds : Newest(j) <=> Newest(j)'
    BY DEF Newest
<1>3. ASSUME NEW j \in PrereqIds PROVE AtOK(hand[j])'
    <2>1. CASE hand'[j] = hand[j]
        <3>1. AtOK(hand[j])
            BY DEF PrereqInv, DiskOK
        <3> QED BY <2>1, <3>1 DEF AtOK, NodeReady, NpmMayBeReady, DepsDone, diskVars
    <2>2. CASE hand'[j] \in Waiting
        BY <2>2 DEF AtOK, Waiting, WithNode, WithNpm
    <2> QED BY <2>1, <2>2
<1>4. SuccessKept'
    <2>1. SUFFICES ASSUME NEW j \in PrereqIds, request'[j].status = "SUCCEEDED", Newest(j)
                   PROVE  touched \/ (NpmMayBeReady /\ DepsDone)
        BY <1>2 DEF SuccessKept, NpmMayBeReady, NodeReady, DepsDone, diskVars
    <2>2. CASE request[j].status = "SUCCEEDED"
        BY <2>1, <2>2 DEF PrereqInv, DiskOK, SuccessKept
    <2>3. CASE hand[j] = "done"
        BY <2>3 DEF PrereqInv, DiskOK, AtOK, WithNpm
    <2> QED BY <2>1, <2>2, <2>3
<1> QED BY <1>1, <1>2, <1>3, <1>4 DEF DiskOK

\* The rows of the others, when one is written.
LEMMA SetRowFrame ==
    ASSUME PrereqInv, NEW i \in PrereqIds, NEW status \in Statuses, NEW code \in Codes,
           SetRow(i, status, code)
    PROVE  /\ request' \in [PrereqIds -> [status : Statuses, code : Codes]]
           /\ request'[i].status = status /\ request'[i].code = code
           /\ \A j \in PrereqIds : j # i => request'[j] = request[j]
    BY DEF PrereqInv, RowTypes, SetRow

\* A goroutine that moves on leaves the positions of the others alone.
LEMMA GotoFrame ==
    ASSUME PrereqInv, NEW i \in PrereqIds, NEW pc \in Hands, Goto(i, pc)
    PROVE  /\ hand' \in [PrereqIds -> Hands] /\ hand'[i] = pc
           /\ \A j \in PrereqIds : j # i => hand'[j] = hand[j]
    BY DEF PrereqInv, RowTypes, Goto

\* RowsOK, when no row is created.
LEMMA RowsKeep ==
    ASSUME PrereqInv,
           \A j \in PrereqIds : request'[j].status = "NONE" <=> request[j].status = "NONE",
           \A j \in PrereqIds : OpenRow(j)' => OpenRow(j),
           \A j \in PrereqIds : request'[j].status = "SUCCEEDED" => request'[j].code = "",
           \A j \in PrereqIds : hand'[j] \in {"bind", "begin"} => request'[j].status \in {"PENDING", "CANCELLED"},
           \A j \in PrereqIds : hand'[j] \notin Waiting => request'[j].status = "RUNNING",
           ~answering' => \A j \in PrereqIds : hand'[j] = "none",
           \A j \in PrereqIds : answering' /\ OpenRow(j)' /\ hand'[j] = "none" =>
               j \in unsaved' \/ (request'[j].status = "PENDING" /\ context'[j] # "live")
    PROVE  RowsOK'
<1>1. \A j \in PrereqIds : Newest(j) <=> Newest(j)'
    BY DEF Newest
<1>2. /\ \A j, k \in PrereqIds : k < j /\ request'[j].status # "NONE" => request'[k].status # "NONE"
      /\ (\A j \in PrereqIds : request'[j].status = "NONE") \/
         \E j \in PrereqIds : request'[j].status # "NONE" /\ Newest(j)'
      /\ \A j \in PrereqIds : OpenRow(j)' => Newest(j)'
    BY <1>1 DEF PrereqInv, RowsOK
<1> QED BY <1>2 DEF RowsOK

\* StartPrerequisites: the next row, when none is open.
LEMMA StartKeeps ==
    ASSUME PrereqInv, NEW i \in PrereqIds, StartPrerequisites(i)
    PROVE  PrereqInv'
<1>1. /\ request'[i].status = "PENDING" /\ request'[i].code = ""
      /\ request' \in [PrereqIds -> [status : Statuses, code : Codes]]
      /\ \A j \in PrereqIds : j # i => request'[j] = request[j]
    BY SetRowFrame DEF StartPrerequisites, Statuses, Codes
<1>2. /\ hand' \in [PrereqIds -> Hands] /\ hand'[i] = "bind"
      /\ \A j \in PrereqIds : j # i => hand'[j] = hand[j]
    BY GotoFrame DEF StartPrerequisites, Hands, Waiting
<1>0. \A j \in PrereqIds : j \in Nat
    BY PrereqBounds DEF PrereqIds
<1>3. /\ request[i].status = "NONE" /\ \A j \in PrereqIds : ~OpenRow(j)
      /\ \A j \in PrereqIds : j < i => request[j].status # "NONE"
      /\ \A j \in PrereqIds : hand[j] \in Waiting
      /\ UNCHANGED <<diskVars, context, unsaved, lockFile, movedLock, answering>> /\ touched' = FALSE /\ answering
    <2>1. \A j \in PrereqIds : j < i => request[j].status # "NONE"
        <3>1. SUFFICES ASSUME NEW j \in PrereqIds, j < i PROVE j \in 1..(i - 1)
            BY DEF StartPrerequisites, Created
        <3> QED BY <3>1, PrereqBounds DEF PrereqIds
    <2>2. \A j \in PrereqIds : hand[j] \in Waiting
        BY DEF StartPrerequisites, PrereqInv, RowsOK, OpenRow
    <2> QED BY <2>1, <2>2 DEF StartPrerequisites
<1>4. \A j \in PrereqIds : j > i => request[j].status = "NONE"
    BY <1>3 DEF PrereqInv, RowsOK
<1>5. Newest(i)' /\ \A j \in PrereqIds : Newest(j)' => j = i \/ j > i
    <2>1. \A j \in PrereqIds : j < i \/ j = i \/ j > i
        BY <1>0
    <2>2. ASSUME NEW j \in PrereqIds, request'[j].status # "NONE" PROVE j <= i
        <3>1. i \in Nat /\ j \in Nat
            BY <1>0
        <3>2. CASE j # i
            <4>1. request'[j] = request[j]
                BY <1>1, <3>2
            <4> QED BY <1>4, <2>2, <3>1, <4>1
        <3> QED BY <3>1, <3>2
    <2>3. ASSUME NEW j \in PrereqIds, j < i PROVE ~Newest(j)'
        <3>1. ~(i <= j)
            BY <1>0, <2>3
        <3> QED BY <1>1, <3>1 DEF Newest
    <2> QED BY <2>1, <2>2, <2>3 DEF Newest
<1>6. RowTypes' /\ DiskTypes'
    BY <1>1, <1>2, <1>3 DEF PrereqInv, RowTypes, DiskTypes, diskVars
<1>7. RowsOK'
    <2>1. \A j, k \in PrereqIds : k < j /\ request'[j].status # "NONE" => request'[k].status # "NONE"
        <3>1. SUFFICES ASSUME NEW j \in PrereqIds, NEW k \in PrereqIds, k < j, request'[j].status # "NONE"
                       PROVE  request'[k].status # "NONE"
            OBVIOUS
        <3>2. CASE j = i
            BY <1>1, <1>3, <3>1, <3>2
        <3>3. CASE j # i
            BY ZenonT(40), <1>1, <3>1, <3>3 DEF PrereqInv, RowsOK
        <3> QED BY <3>2, <3>3
    <2>2. \E j \in PrereqIds : request'[j].status # "NONE" /\ Newest(j)'
        BY <1>1, <1>5
    <2>3. \A j \in PrereqIds : OpenRow(j)' => j = i
        BY <1>1, <1>3 DEF OpenRow
    <2>4. \A j \in PrereqIds : request'[j].status = "SUCCEEDED" => request'[j].code = ""
        BY <1>1 DEF PrereqInv, RowsOK
    <2>5. \A j \in PrereqIds : hand'[j] \in {"bind", "begin"} => request'[j].status \in {"PENDING", "CANCELLED"}
        BY <1>1, <1>2 DEF PrereqInv, RowsOK
    <2>6. \A j \in PrereqIds : hand'[j] \in Waiting
        BY <1>2, <1>3 DEF Waiting
    <2> QED BY <1>2, <1>3, <1>5, <2>1, <2>2, <2>3, <2>4, <2>5, <2>6 DEF RowsOK
<1>8. DiskOK'
    <2>1. NpmTrue' /\ StampTrue'
        BY <1>3 DEF PrereqInv, DiskOK, NpmTrue, StampTrue, diskVars
    <2>2. SuccessKept'
        <3>1. SUFFICES ASSUME NEW j \in PrereqIds, request'[j].status = "SUCCEEDED", Newest(j)' PROVE FALSE
            BY DEF SuccessKept
        <3> QED BY <1>1, <1>4, <1>5, <3>1
    <2>3. \A j \in PrereqIds : AtOK(hand[j])'
        BY <1>2, <1>3 DEF AtOK, Waiting, WithNode, WithNpm
    <2> QED BY <2>1, <2>2, <2>3 DEF DiskOK
<1> QED BY <1>6, <1>7, <1>8 DEF PrereqInv

\* A worker is bound.
LEMMA BindKeeps ==
    ASSUME PrereqInv, NEW i \in PrereqIds, BindPrerequisites(i)
    PROVE  PrereqInv'
<1>1. /\ hand' \in [PrereqIds -> Hands] /\ hand'[i] = "begin"
      /\ \A j \in PrereqIds : j # i => hand'[j] = hand[j]
    BY GotoFrame DEF BindPrerequisites, Hands, Waiting
<1>2. hand[i] = "bind" /\ UNCHANGED <<diskVars, request, context, unsaved, hostVars>>
    BY DEF BindPrerequisites
<1>3. RowTypes'
    BY <1>1, <1>2 DEF PrereqInv, RowTypes, hostVars
<1>4. DiskTypes' /\ DiskOK' /\ (\A j \in PrereqIds : Newest(j) <=> Newest(j)')
    BY <1>1, <1>2, RowStepKeeps DEF Waiting, hostVars
<1>5. RowsOK'
    BY <1>1, <1>2, <1>4 DEF PrereqInv, RowsOK, OpenRow, Waiting, hostVars
<1> QED BY <1>3, <1>4, <1>5 DEF PrereqInv

\* RUNNING, or the worker gives up: a row it leaves open was never to run, or
\* could not be updated.
LEMMA RunKeeps ==
    ASSUME PrereqInv, NEW i \in PrereqIds, RunPrerequisites(i)
    PROVE  PrereqInv'
<1>1. hand[i] = "begin" /\ UNCHANGED <<diskVars, context, hostVars>>
      /\ request[i].status \in {"PENDING", "CANCELLED"}
    BY DEF RunPrerequisites, PrereqInv, RowsOK
<1>2. CASE request[i].status = "PENDING" /\ SetRow(i, "RUNNING", "") /\ Goto(i, "node") /\ UNCHANGED unsaved
    <2>1. /\ request'[i].status = "RUNNING" /\ request'[i].code = ""
          /\ request' \in [PrereqIds -> [status : Statuses, code : Codes]]
          /\ \A j \in PrereqIds : j # i => request'[j] = request[j]
        BY <1>2, SetRowFrame DEF Statuses, Codes
    <2>2. /\ hand' \in [PrereqIds -> Hands] /\ hand'[i] = "node"
          /\ \A j \in PrereqIds : j # i => hand'[j] = hand[j]
        BY <1>2, GotoFrame DEF Hands
    <2>3. RowTypes'
        BY <1>1, <1>2, <2>1, <2>2 DEF PrereqInv, RowTypes, hostVars
    <2>4. \A j \in PrereqIds : Newest(j) <=> Newest(j)'
        BY <1>2, <2>1 DEF Newest
    <2>5. RowsOK'
        <3>1. OpenRow(i)
            BY <1>2 DEF OpenRow
        <3>2. \A j, k \in PrereqIds : k < j /\ request'[j].status # "NONE" => request'[k].status # "NONE"
            <4>1. \A j \in PrereqIds : request'[j].status # "NONE" <=> request[j].status # "NONE"
                BY <1>2, <2>1
            <4> QED BY <4>1 DEF PrereqInv, RowsOK
        <3>3. \E j \in PrereqIds : request'[j].status # "NONE" /\ Newest(j)'
            BY <1>2, <2>1, <2>4, <3>1 DEF PrereqInv, RowsOK
        <3>4. \A j \in PrereqIds : OpenRow(j)' => Newest(j)'
            BY <1>2, <2>1, <2>4, <3>1 DEF PrereqInv, RowsOK, OpenRow
        <3>5. ASSUME NEW j \in PrereqIds
              PROVE  /\ request'[j].status = "SUCCEEDED" => request'[j].code = ""
                     /\ hand'[j] \in {"bind", "begin"} => request'[j].status \in {"PENDING", "CANCELLED"}
                     /\ hand'[j] \notin Waiting => request'[j].status = "RUNNING"
            <4>1. CASE j = i
                BY <2>1, <2>2, <4>1
            <4>2. CASE j # i
                BY ZenonT(40), <2>1, <2>2, <4>2 DEF PrereqInv, RowsOK
            <4> QED BY <4>1, <4>2
        <3>6. answering
            BY <1>1 DEF PrereqInv, RowsOK
        <3>7. \A j \in PrereqIds : OpenRow(j)' /\ hand'[j] = "none" =>
                  j \in unsaved \/ (request'[j].status = "PENDING" /\ context[j] # "live")
            BY <2>1, <2>2, <3>6 DEF PrereqInv, RowsOK, OpenRow
        <3> QED BY <1>1, <1>2, <3>2, <3>3, <3>4, <3>5, <3>6, <3>7 DEF RowsOK, hostVars
    <2>6. DiskTypes' /\ NpmTrue' /\ StampTrue'
        BY <1>1 DEF PrereqInv, DiskTypes, DiskOK, NpmTrue, StampTrue, diskVars, hostVars
    <2>7. SuccessKept'
        BY <1>1, <2>1, <2>4 DEF PrereqInv, DiskOK, SuccessKept, NpmMayBeReady, NodeReady, DepsDone, diskVars, hostVars
    <2>8. ASSUME NEW j \in PrereqIds PROVE AtOK(hand[j])'
        <3>1. CASE j = i
            BY <2>2, <3>1 DEF AtOK, WithNode, WithNpm
        <3>2. CASE j # i
            <4>1. AtOK(hand[j])
                BY DEF PrereqInv, DiskOK
            <4> QED BY <1>1, <2>2, <3>2, <4>1 DEF AtOK, NodeReady, NpmMayBeReady, DepsDone, diskVars, hostVars
        <3> QED BY <3>1, <3>2
    <2> QED BY <2>3, <2>5, <2>6, <2>7, <2>8 DEF PrereqInv, DiskOK
<1>3. CASE /\ Goto(i, "none") /\ UNCHANGED request
           /\ \/ (request[i].status # "PENDING" \/ context[i] # "live") /\ UNCHANGED unsaved
              \/ unsaved' = unsaved \cup {i}
    <2>1. /\ hand' \in [PrereqIds -> Hands] /\ hand'[i] = "none"
          /\ \A j \in PrereqIds : j # i => hand'[j] = hand[j]
        BY <1>3, GotoFrame DEF Hands, Waiting
    <2>2. RowTypes'
        BY <1>1, <1>3, <2>1 DEF PrereqInv, RowTypes, hostVars
    <2>3. DiskTypes' /\ DiskOK' /\ (\A j \in PrereqIds : Newest(j) <=> Newest(j)')
        BY <1>1, <1>3, <2>1, RowStepKeeps DEF Waiting, hostVars
    <2>4. \A j \in PrereqIds : answering /\ OpenRow(j) /\ hand'[j] = "none" =>
                                j \in unsaved' \/ (request[j].status = "PENDING" /\ context[j] # "live")
        <3>1. SUFFICES ASSUME NEW j \in PrereqIds, answering, OpenRow(j), hand'[j] = "none"
                       PROVE  j \in unsaved' \/ (request[j].status = "PENDING" /\ context[j] # "live")
            OBVIOUS
        <3>2. CASE j = i
            BY <1>1, <1>3, <3>1, <3>2 DEF OpenRow
        <3>3. CASE j # i
            BY <1>3, <2>1, <3>1, <3>3 DEF PrereqInv, RowsOK
        <3> QED BY <3>2, <3>3
    <2>5. RowsOK'
        BY <1>1, <1>3, <2>1, <2>3, <2>4 DEF PrereqInv, RowsOK, OpenRow, Waiting, hostVars
    <2> QED BY <2>2, <2>3, <2>5 DEF PrereqInv
<1> QED BY <1>2, <1>3 DEF RunPrerequisites

\* Cancel: the row of an operation without a worker, or the context of the worker.
LEMMA CancelKeeps ==
    ASSUME PrereqInv, NEW i \in PrereqIds, CancelPrerequisites(i)
    PROVE  PrereqInv'
<1>1. /\ answering /\ OpenRow(i) /\ UNCHANGED <<diskVars, hand, unsaved, hostVars>>
    BY DEF CancelPrerequisites
<1>2. CASE hand[i] \in {"none", "bind"} /\ SetRow(i, "CANCELLED", "CANCELLED") /\ UNCHANGED context
    <2>1. /\ request'[i].status = "CANCELLED" /\ request'[i].code = "CANCELLED"
          /\ request' \in [PrereqIds -> [status : Statuses, code : Codes]]
          /\ \A j \in PrereqIds : j # i => request'[j] = request[j]
        BY <1>2, SetRowFrame DEF Statuses, Codes
    <2>2. \A j \in PrereqIds : request'[j].status = "NONE" <=> request[j].status = "NONE"
        BY <1>1, <2>1 DEF OpenRow
    <2>3. DiskTypes' /\ DiskOK' /\ (\A j \in PrereqIds : Newest(j) <=> Newest(j)')
        BY <1>1, <2>1, <2>2, RowStepKeeps DEF hostVars
    <2>4. RowTypes'
        BY <1>1, <1>2, <2>1 DEF PrereqInv, RowTypes, hostVars
    <2>5. RowsOK'
        <3>1. ASSUME NEW j \in PrereqIds
              PROVE  /\ OpenRow(j)' => OpenRow(j) /\ j # i
                     /\ request'[j].status = "SUCCEEDED" => request'[j].code = ""
                     /\ hand[j] \in {"bind", "begin"} => request'[j].status \in {"PENDING", "CANCELLED"}
                     /\ hand[j] \notin Waiting => request'[j].status = "RUNNING"
            <4>1. CASE j = i
                BY <1>2, <2>1, <4>1 DEF OpenRow, Waiting
            <4>2. CASE j # i
                BY <2>1, <4>2 DEF PrereqInv, RowsOK, OpenRow
            <4> QED BY <4>1, <4>2
        <3>2. \A j \in PrereqIds : answering /\ OpenRow(j)' /\ hand[j] = "none" =>
                  j \in unsaved \/ (request'[j].status = "PENDING" /\ context[j] # "live")
            BY ZenonT(40), <2>1, <3>1 DEF PrereqInv, RowsOK
        <3> QED BY <1>1, <1>2, <2>2, <3>1, <3>2, RowsKeep DEF hostVars
    <2> QED BY <2>3, <2>4, <2>5 DEF PrereqInv
<1>3. CASE hand[i] \notin {"none", "bind"} /\ context' = [context EXCEPT ![i] = "cancelled"] /\ UNCHANGED request
    <2>1. /\ context' \in [PrereqIds -> {"live", "cancelled", "deadline"}]
          /\ \A j \in PrereqIds : j # i => context'[j] = context[j]
        BY <1>3 DEF PrereqInv, RowTypes
    <2>2. DiskTypes' /\ DiskOK' /\ (\A j \in PrereqIds : Newest(j) <=> Newest(j)')
        BY <1>1, <1>3, RowStepKeeps DEF hostVars
    <2>3. RowTypes'
        BY <1>1, <1>3, <2>1 DEF PrereqInv, RowTypes, hostVars
    <2>4. RowsOK'
        BY ZenonT(40), <1>1, <1>3, <2>1, <2>2 DEF PrereqInv, RowsOK, OpenRow, hostVars
    <2> QED BY <2>2, <2>3, <2>4 DEF PrereqInv
<1> QED BY <1>2, <1>3 DEF CancelPrerequisites

\* The deadline of a worker's context ends no row and moves no worker.
LEMMA DeadlineKeeps ==
    ASSUME PrereqInv, NEW i \in PrereqIds, PrereqDeadline(i)
    PROVE  PrereqInv'
<1>1. /\ hand[i] \notin {"none", "bind"} /\ UNCHANGED <<diskVars, request, hand, unsaved, hostVars>>
      /\ context' \in [PrereqIds -> {"live", "cancelled", "deadline"}]
      /\ \A j \in PrereqIds : j # i => context'[j] = context[j]
    BY DEF PrereqDeadline, PrereqInv, RowTypes
<1>2. DiskTypes' /\ DiskOK' /\ (\A j \in PrereqIds : Newest(j) <=> Newest(j)')
    BY <1>1, RowStepKeeps DEF hostVars
<1>3. RowTypes'
    BY <1>1 DEF PrereqInv, RowTypes, hostVars
<1>4. RowsOK'
    BY <1>1, <1>2 DEF PrereqInv, RowsOK, OpenRow, hostVars
<1> QED BY <1>2, <1>3, <1>4 DEF PrereqInv

\* The worker ends: a row that says success is written over what it has left.
LEMMA EndKeeps ==
    ASSUME PrereqInv, NEW i \in PrereqIds, EndPrerequisites(i)
    PROVE  PrereqInv'
<1>1. /\ hand[i] \in Endings \cup {"done"} /\ UNCHANGED <<diskVars, context, hostVars>>
      /\ request[i].status = "RUNNING" /\ OpenRow(i)
    BY DEF EndPrerequisites, PrereqInv, RowsOK, OpenRow, Endings, Waiting
<1>2. /\ hand' \in [PrereqIds -> Hands] /\ hand'[i] = "none"
      /\ \A j \in PrereqIds : j # i => hand'[j] = hand[j]
    BY GotoFrame DEF EndPrerequisites, Hands, Waiting
<1>3. CASE UNCHANGED request /\ unsaved' = unsaved \cup {i}
    <2>1. DiskTypes' /\ DiskOK' /\ (\A j \in PrereqIds : Newest(j) <=> Newest(j)')
        BY <1>1, <1>2, <1>3, RowStepKeeps DEF Waiting, hostVars
    <2>2. RowTypes'
        BY <1>1, <1>2, <1>3 DEF PrereqInv, RowTypes, hostVars
    <2>3. ASSUME NEW j \in PrereqIds, answering, OpenRow(j), hand'[j] = "none"
          PROVE  j \in unsaved' \/ (request[j].status = "PENDING" /\ context[j] # "live")
        <3>1. CASE j # i
            BY <1>2, <1>3, <2>3, <3>1 DEF PrereqInv, RowsOK
        <3> QED BY <1>3, <3>1
    <2>4. RowsOK'
        BY <1>1, <1>2, <1>3, <2>1, <2>3 DEF PrereqInv, RowsOK, OpenRow, Waiting, hostVars
    <2> QED BY <2>1, <2>2, <2>4 DEF PrereqInv
<1>4. CASE /\ UNCHANGED unsaved
           /\ \E status \in Statuses \ {"NONE", "PENDING", "RUNNING"}, code \in Codes :
                 /\ SetRow(i, status, code)
                 /\ status = "SUCCEEDED" => code = "" /\ hand[i] = "done"
    <2>1. PICK status \in Statuses \ {"NONE", "PENDING", "RUNNING"}, code \in Codes :
                 /\ SetRow(i, status, code)
                 /\ status = "SUCCEEDED" => code = "" /\ hand[i] = "done"
        BY <1>4
    <2>2. /\ request'[i].status = status /\ request'[i].code = code
          /\ request' \in [PrereqIds -> [status : Statuses, code : Codes]]
          /\ \A j \in PrereqIds : j # i => request'[j] = request[j]
        BY <2>1, SetRowFrame
    <2>3. \A j \in PrereqIds : request'[j].status = "NONE" <=> request[j].status = "NONE"
        BY <1>1, <2>2
    <2>4. \A j \in PrereqIds : request'[j].status = "SUCCEEDED" =>
                                   request[j].status = "SUCCEEDED" \/ hand[j] = "done"
        BY <2>1, <2>2
    <2>5. DiskTypes' /\ DiskOK' /\ (\A j \in PrereqIds : Newest(j) <=> Newest(j)')
        BY <1>1, <1>2, <2>3, <2>4, RowStepKeeps DEF Waiting, hostVars
    <2>6. RowTypes'
        BY <1>1, <1>2, <1>4, <2>2 DEF PrereqInv, RowTypes, hostVars
    <2>7. ASSUME NEW j \in PrereqIds
          PROVE  /\ OpenRow(j)' => OpenRow(j) /\ j # i
                 /\ request'[j].status = "SUCCEEDED" => request'[j].code = ""
                 /\ hand'[j] \in {"bind", "begin"} => request'[j].status \in {"PENDING", "CANCELLED"}
                 /\ hand'[j] \notin Waiting => request'[j].status = "RUNNING"
        <3>1. CASE j = i
            BY <1>2, <2>1, <2>2, <3>1 DEF OpenRow, Waiting
        <3>2. CASE j # i
            BY ZenonT(40), <1>2, <2>2, <3>2 DEF PrereqInv, RowsOK, OpenRow
        <3> QED BY <3>1, <3>2
    <2>8. RowsOK'
        <3>1. \A j \in PrereqIds : answering /\ OpenRow(j)' /\ hand'[j] = "none" =>
                  j \in unsaved \/ (request'[j].status = "PENDING" /\ context[j] # "live")
            <4>1. SUFFICES ASSUME NEW j \in PrereqIds, answering, OpenRow(j)', hand'[j] = "none"
                           PROVE  j \in unsaved \/ (request'[j].status = "PENDING" /\ context[j] # "live")
                OBVIOUS
            <4>2. j # i /\ OpenRow(j) /\ hand[j] = "none" /\ request'[j] = request[j]
                BY <1>2, <2>2, <2>7, <4>1
            <4> QED BY <4>1, <4>2 DEF PrereqInv, RowsOK
        <3>2. answering
            BY <1>1 DEF PrereqInv, RowsOK, Endings
        <3> QED BY <1>1, <1>4, <2>3, <2>7, <3>1, <3>2, RowsKeep DEF hostVars
    <2> QED BY <2>5, <2>6, <2>8 DEF PrereqInv
<1>5. EndPrerequisites(i) => (UNCHANGED request /\ unsaved' = unsaved \cup {i}) \/ UNCHANGED unsaved
    BY DEF EndPrerequisites
<1>6. ASSUME ~(UNCHANGED request /\ unsaved' = unsaved \cup {i})
      PROVE  \E status \in Statuses \ {"NONE", "PENDING", "RUNNING"}, code \in Codes :
                 /\ SetRow(i, status, code)
                 /\ status = "SUCCEEDED" => code = "" /\ hand[i] = "done"
    <2>1. CASE hand[i] = "done"
        <3>1. SetRow(i, "SUCCEEDED", "")
            BY <1>1, <1>6, <2>1 DEF EndPrerequisites
        <3> QED BY <2>1, <3>1 DEF Statuses, Codes
    <2>2. CASE hand[i] = "canceled"
        <3>1. SetRow(i, "CANCELLED", "CANCELLED")
            BY <1>1, <1>6, <2>2 DEF EndPrerequisites
        <3>2. "CANCELLED" \in Statuses \ {"NONE", "PENDING", "RUNNING"} /\ "CANCELLED" \in Codes
            BY DEF Statuses, Codes
        <3> QED BY <3>1, <3>2
    <2>3. CASE hand[i] \in Endings \ {"canceled"}
        <3>1. SetRow(i, "FAILED", hand[i])
            BY <1>1, <1>6, <2>3 DEF EndPrerequisites, Endings
        <3>2. "FAILED" \in Statuses \ {"NONE", "PENDING", "RUNNING"} /\ hand[i] \in Codes
            BY <2>3 DEF Statuses, Codes
        <3> QED BY <3>1, <3>2
    <2> QED BY <1>1, <2>1, <2>2, <2>3
<1> QED BY <1>3, <1>4, <1>5, <1>6

(***************************************************************************)
(* Around the operations.                                                  *)
(***************************************************************************)
LEMMA ReplaceLockKeeps ==
    ASSUME PrereqInv, ReplaceLock
    PROVE  PrereqInv'
<1>1. /\ lockFile' = lockFile + 1 /\ touched' = TRUE /\ UNCHANGED <<diskVars, rowVars, answering>>
      /\ movedLock' = (movedLock \/ \E i \in PrereqIds : hand[i] \in {"ciEnd", "digest"})
    BY DEF ReplaceLock
<1>2. RowTypes' /\ RowsOK'
    BY <1>1 DEF PrereqInv, RowTypes, RowsOK, OpenRow, Newest, rowVars
<1>3. DiskTypes' /\ lockFile' # 0
    BY <1>1 DEF PrereqInv, DiskTypes, diskVars
<1>4. NpmTrue' /\ StampTrue' /\ SuccessKept'
    BY <1>1 DEF PrereqInv, DiskOK, NpmTrue, StampTrue, SuccessKept, diskVars
<1>5. ASSUME NEW j \in PrereqIds PROVE AtOK(hand[j])'
    <2>1. AtOK(hand[j]) /\ hand'[j] = hand[j]
        BY <1>1 DEF PrereqInv, DiskOK, rowVars
    <2>2. hand[j] \in {"ciEnd", "digest"} => movedLock'
        BY <1>1
    <2>3. movedLock => movedLock'
        BY <1>1
    <2> QED BY <1>1, <1>3, <2>1, <2>2, <2>3 DEF AtOK, NodeReady, NpmMayBeReady, diskVars, rowVars
<1> QED BY <1>2, <1>3, <1>4, <1>5 DEF PrereqInv, DiskOK

\* A crash leaves the disk as it is and the rows open: nothing of what the workers
\* knew is needed any more.
LEMMA DaemonStopsKeeps ==
    ASSUME PrereqInv, DaemonStops
    PROVE  PrereqInv'
<1>1. /\ answering' = FALSE /\ UNCHANGED <<diskVars, request, unsaved, lockFile, movedLock, touched>>
      /\ hand' = [i \in PrereqIds |-> "none"] /\ context' = [i \in PrereqIds |-> "live"]
    BY DEF DaemonStops
<1>2. \A j \in PrereqIds : hand'[j] = "none"
    BY <1>1
<1>3. RowTypes'
    BY <1>1 DEF PrereqInv, RowTypes, Hands, Waiting
<1>4. DiskTypes' /\ DiskOK' /\ (\A j \in PrereqIds : Newest(j) <=> Newest(j)')
    BY <1>1, <1>2, RowStepKeeps DEF Waiting
<1>5. RowsOK'
    BY ZenonT(40), <1>1, <1>2, <1>4 DEF PrereqInv, RowsOK, OpenRow, Waiting
<1> QED BY <1>3, <1>4, <1>5 DEF PrereqInv

\* A start finds no worker, and InterruptStale ends the rows that were left open.
LEMMA DaemonStartsKeeps ==
    ASSUME PrereqInv, DaemonStarts
    PROVE  PrereqInv'
<1>1. /\ ~answering /\ answering' = TRUE
      /\ UNCHANGED <<diskVars, hand, context, unsaved, lockFile, movedLock, touched>>
      /\ \A j \in PrereqIds : hand[j] = "none"
    BY DEF DaemonStarts, PrereqInv, RowsOK
<1>2. ASSUME NEW j \in PrereqIds
      PROVE  /\ request'[j] \in [status : Statuses, code : Codes] /\ ~OpenRow(j)'
             /\ OpenRow(j) => request'[j].status = "FAILED"
             /\ ~OpenRow(j) => request'[j] = request[j]
    <2>1. CASE OpenRow(j)
        <3>1. request'[j] = [status |-> "FAILED", code |-> "INTERRUPTED"]
            BY <2>1 DEF DaemonStarts
        <3> QED BY <2>1, <3>1 DEF OpenRow, Statuses, Codes
    <2>2. CASE ~OpenRow(j)
        <3>1. request'[j] = request[j]
            BY <2>2 DEF DaemonStarts
        <3> QED BY <2>2, <3>1 DEF OpenRow, PrereqInv, RowTypes
    <2> QED BY <2>1, <2>2
<1>3. request' \in [PrereqIds -> [status : Statuses, code : Codes]]
    BY <1>2 DEF DaemonStarts
<1>4. \A j \in PrereqIds : /\ request'[j].status = "NONE" <=> request[j].status = "NONE"
                           /\ request'[j].status = "SUCCEEDED" => request'[j] = request[j]
    BY <1>2 DEF OpenRow
<1>5. DiskTypes' /\ DiskOK' /\ (\A j \in PrereqIds : Newest(j) <=> Newest(j)')
    BY <1>1, <1>4, RowStepKeeps
<1>6. RowTypes'
    BY <1>1, <1>3 DEF PrereqInv, RowTypes
<1>7. RowsOK'
    <2>1. \A j \in PrereqIds : request'[j].status = "SUCCEEDED" => request'[j].code = ""
        BY ZenonT(40), <1>4 DEF PrereqInv, RowsOK
    <2> QED BY <1>1, <1>2, <1>4, <2>1, RowsKeep DEF Waiting
<1> QED BY <1>5, <1>6, <1>7 DEF PrereqInv

(***************************************************************************)
(* The theorem.                                                            *)
(***************************************************************************)
LEMMA PrereqInitOK == PrereqInit => PrereqInv
<1>1. SUFFICES ASSUME PrereqInit PROVE PrereqInv
    OBVIOUS
<1>2. \A i \in PrereqIds : request[i].status = "NONE" /\ request[i].code = "" /\ hand[i] = "none" /\ context[i] = "live"
    BY <1>1 DEF PrereqInit
<1>3. RowTypes
    BY <1>1 DEF PrereqInit, RowTypes, Statuses, Codes, Hands, Waiting
<1>4. /\ lockFile \in 0..1 /\ stamp = modules /\ mixed = FALSE /\ keptStamp = FALSE
      /\ movedLock = FALSE /\ touched = FALSE
    BY <1>1 DEF PrereqInit
<1>5. /\ nodeExe \in {"none", "old", "official"}
      /\ npmTree = NoNpm \/ npmTree = [manifest |-> "official", body |-> "official"]
      /\ modules = NoModules \/ modules = [lock |-> 1, whole |-> TRUE]
    BY <1>1 DEF PrereqInit
<1>6. lockFile \in Nat /\ modules \in Trees
    <2>1. lockFile \in Nat
        BY <1>4
    <2>2. NoModules \in Trees /\ [lock |-> 1, whole |-> TRUE] \in Trees
        BY DEF NoModules, Trees
    <2> QED BY <1>5, <2>1, <2>2
<1>7. RowsOK
    BY <1>1, <1>2 DEF RowsOK, OpenRow, PrereqInit, Waiting
<1>8. DiskTypes /\ NpmTrue
    <2>1. npmTree \in [manifest : {"none", "bundled", "official"}, body : {"none", "part", "bundled", "official"}]
        BY <1>5 DEF NoNpm
    <2>2. NpmTrue
        BY <1>5 DEF NpmTrue, NoNpm
    <2> QED BY <1>4, <1>5, <1>6, <2>1, <2>2 DEF DiskTypes
<1>9. StampTrue
    BY <1>4, <1>5 DEF StampTrue, NoModules
<1>10. SuccessKept /\ \A i \in PrereqIds : AtOK(hand[i])
    BY <1>2 DEF SuccessKept, AtOK, WithNode, WithNpm
<1> QED BY <1>3, <1>7, <1>8, <1>9, <1>10 DEF PrereqInv, DiskOK

\* A step of another component disturbs nothing the invariant speaks of.
LEMMA PrereqStutters ==
    ASSUME PrereqInv, UNCHANGED prereqVars
    PROVE  PrereqInv'
<1>1. RowTypes' /\ DiskTypes'
    BY DEF PrereqInv, RowTypes, DiskTypes, prereqVars, diskVars, rowVars, hostVars
<1>0. RowsOK'
    BY DEF PrereqInv, RowsOK, OpenRow, Newest, prereqVars, rowVars, hostVars
<1>2. NpmTrue' /\ StampTrue' /\ SuccessKept'
    BY DEF PrereqInv, DiskOK, NpmTrue, StampTrue, SuccessKept, Newest, NpmMayBeReady, NodeReady, DepsDone,
           prereqVars, diskVars, rowVars, hostVars
<1>3. ASSUME NEW j \in PrereqIds PROVE AtOK(hand[j])'
    <2>1. AtOK(hand[j])
        BY DEF PrereqInv, DiskOK
    <2> QED BY <2>1 DEF AtOK, NodeReady, NpmMayBeReady, DepsDone, prereqVars, diskVars, rowVars, hostVars
<1> QED BY <1>0, <1>1, <1>2, <1>3 DEF PrereqInv, DiskOK

\* Every step of requests, workers, stops, starts and hands keeps the invariant.
LEMMA PrereqStep == PrereqInv /\ [PrereqNext]_prereqVars => PrereqInv'
<1>1. SUFFICES ASSUME PrereqInv, [PrereqNext]_prereqVars PROVE PrereqInv'
    OBVIOUS
<1>2. CASE ReplaceLock \/ DaemonStops \/ DaemonStarts
    BY <1>1, <1>2, ReplaceLockKeeps, DaemonStopsKeeps, DaemonStartsKeeps
<1>3. ASSUME NEW i \in PrereqIds,
             \/ StartPrerequisites(i) \/ BindPrerequisites(i) \/ RunPrerequisites(i)
             \/ CancelPrerequisites(i) \/ PrereqDeadline(i) \/ EndPrerequisites(i)
      PROVE  PrereqInv'
    BY <1>1, <1>3, StartKeeps, BindKeeps, RunKeeps, CancelKeeps, DeadlineKeeps, EndKeeps
<1>4. ASSUME NEW i \in PrereqIds,
             \/ EnsureNode(i) \/ PlaceNode(i) \/ EnsureNPM(i) \/ PlaceNPM(i)
             \/ InstallDependencies(i) \/ RunCi(i) \/ EndCi(i) \/ WriteStamp(i)
      PROVE  PrereqInv'
    BY <1>1, <1>4, EnsureNodeKeeps, PlaceNodeKeeps, EnsureNPMKeeps, PlaceNPMKeeps,
       InstallDependenciesKeeps, RunCiKeeps, EndCiKeeps, WriteStampKeeps
<1>5. CASE UNCHANGED prereqVars
    BY <1>1, <1>5, PrereqStutters
<1> QED BY <1>1, <1>2, <1>3, <1>4, <1>5 DEF PrereqNext

\* The operation the inspection looks at is the newest.
LEMMA LatestIsNewest ==
    ASSUME PrereqInv, Created # {}
    PROVE  Latest \in PrereqIds /\ Newest(Latest)
<1>1. PICK i \in PrereqIds : request[i].status # "NONE" /\ Newest(i)
    BY DEF PrereqInv, RowsOK, Created
<1>2. i \in Created /\ \A j \in Created : j <= i
    BY <1>1 DEF Newest, Created
<1>3. Latest \in Created /\ \A j \in Created : j <= Latest
    BY <1>2 DEF Latest
<1> QED BY <1>3 DEF Created, Newest

\* The invariant says what an inspection shows, and what a success left behind.
LEMMA PrereqInvImplies == PrereqInv => PrerequisitesTrue
<1>1. SUFFICES ASSUME PrereqInv PROVE PrerequisitesTrue
    OBVIOUS
<1>2. NpmMayBeReady => npmTree.body = "official" \/ mixed
    BY <1>1 DEF PrereqInv, DiskOK, NpmTrue, NpmMayBeReady
<1>3. DepsShown = "READY" => modules = [lock |-> lockFile, whole |-> TRUE] \/ movedLock \/ keptStamp
    <2>1. DepsShown = "READY" => stamp = [lock |-> lockFile, whole |-> TRUE]
        BY DEF DepsShown, DepsReady
    <2> QED BY <1>1, <2>1 DEF PrereqInv, DiskOK, StampTrue
<1>4. ASSUME NEW i \in PrereqIds, Applying(i)
      PROVE  request[i].status = "RUNNING" /\ \A j \in PrereqIds : Applying(j) => j = i
    <2>1. \A j \in PrereqIds : Applying(j) => request[j].status = "RUNNING" /\ Newest(j)
        BY <1>1 DEF PrereqInv, RowsOK, OpenRow, Applying, Waiting
    <2>2. ASSUME NEW j \in PrereqIds, Applying(j) PROVE j = i
        BY <1>4, <2>1, <2>2, PrereqBounds DEF Newest, PrereqIds
    <2> QED BY <1>4, <2>1, <2>2
<1>5. \A i \in PrereqIds : answering /\ OpenRow(i) /\ hand[i] = "none" =>
                               i \in unsaved \/ (request[i].status = "PENDING" /\ context[i] # "live")
    BY <1>1 DEF PrereqInv, RowsOK
<1>6. ASSUME Created # {}, ~touched, request[Latest].status = "SUCCEEDED"
      PROVE  NpmMayBeReady /\ DepsShown = (IF lockFile = 0 THEN "NOT_INSTALLED" ELSE "READY")
    <2>1. NpmMayBeReady /\ DepsDone /\ request[Latest].code = ""
        BY <1>1, <1>6, LatestIsNewest DEF PrereqInv, RowsOK, DiskOK, SuccessKept
    <2>2. CASE lockFile = 0
        BY <2>1, <2>2 DEF DepsShown, DepsReady
    <2>3. CASE lockFile # 0
        <3>1. stamp = [lock |-> lockFile, whole |-> TRUE] /\ modules.lock # 0
            BY <2>1, <2>3 DEF DepsDone
        <3>2. modules # NoModules
            BY <3>1 DEF NoModules
        <3> QED BY <2>1, <2>3, <3>1, <3>2 DEF DepsShown, DepsReady
    <2> QED BY <2>1, <2>2, <2>3
<1> QED BY <1>2, <1>3, <1>4, <1>5, <1>6 DEF PrerequisitesTrue

\* What Hermes is shown to have is what was put there, whatever stops the daemon,
\* fails, is cancelled or replaced in between, for every number of operations,
\* faults, stops and lock files (executePrerequisites, InspectPrerequisites).
THEOREM PrerequisitesAreTrue == PrereqSpec => []PrerequisitesTrue
<1>1. PrereqInit => PrereqInv
    BY PrereqInitOK
<1>2. PrereqInv /\ [PrereqNext]_prereqVars => PrereqInv'
    BY PrereqStep
<1>3. PrereqInv => PrerequisitesTrue
    BY PrereqInvImplies
<1> QED BY <1>1, <1>2, <1>3, PTL DEF PrereqSpec
=============================================================================
