---------------------------- MODULE ProductData ----------------------------
(***************************************************************************)
(* The product was renamed, and with it the directory its data lives in.   *)
(* The first start under the new name copies the legacy directory into a   *)
(* staging directory, adds a marker and renames it to the stable one,      *)
(* before the daemon is started.  A stable directory that holds anything   *)
(* but a marked copy stops the start; a start that stops leaves the        *)
(* Desktop running, and the Desktop keeps files of its own in the stable   *)
(* directory.  The application of the old name may run meanwhile, and      *)
(* nothing the migration writes is flushed before the rename.              *)
(***************************************************************************)
EXTENDS Naturals, FiniteSets

CONSTANTS DataFiles,        \* what the legacy directory holds
          MaxLegacyWrites,  \* bound: writes of the application of the old name
          MaxDataFaults     \* bound: failing file operations, ends and power cuts

ASSUME ProductDataBounds == MaxLegacyWrites \in Nat /\ MaxDataFaults \in Nat

VARIABLES legacy,    \* its files: the write each is from; or NoTree
          stable, staging,  \* directories: [tree, marker, own], or NoDirectory
          start,     \* where this start of the Desktop is
          refusal,   \* the code of the error it stopped with, or "none"
          todo,      \* the files still to be copied
          copying, contents,  \* the one of them being copied, what it held since its copy began
          unflushed, \* files of the stable directory that are not on the disk
          legacyWrites, dataFaults,
          copiedFrom, moved, straddled, unprepared, cut, worked  \* ghosts: the legacy directory as
                     \* the copy began, whether it was written since, and a file while it was
                     \* itself copied; a start that failed before, a power cut after the copy,
                     \* work of the daemon in the stable directory

copyVars == <<todo, copying, contents>>
ghosts == <<copiedFrom, moved, straddled, unprepared, cut, worked>>
productVars == <<legacy, stable, staging, start, refusal, copyVars, unflushed, legacyWrites, dataFaults, ghosts>>

NoTree == [f \in {} |-> 0]
Torn == 0
Mine == MaxLegacyWrites + 2   \* a file as the daemon of the new name wrote it
NoDirectory == [tree |-> NoTree, marker |-> "no directory", own |-> {}]
EmptyDirectory == [tree |-> NoTree, marker |-> "none", own |-> {}]
Exists(directory) == directory # NoDirectory
Whole(tree) == DOMAIN tree = DataFiles /\ \A f \in DataFiles : tree[f] # Torn

ProductDataInit ==
    /\ legacy \in {NoTree, [f \in DataFiles |-> 1]}
    /\ stable \in {NoDirectory, EmptyDirectory, [EmptyDirectory EXCEPT !.own = {"other product"}]}
    /\ staging = NoDirectory /\ start = "off" /\ refusal = "none" /\ unflushed = {}
    /\ todo = {} /\ copying = {} /\ contents = {} /\ legacyWrites = 0 /\ dataFaults = 0
    /\ copiedFrom = NoTree /\ moved = FALSE /\ straddled = FALSE /\ unprepared = FALSE /\ cut = FALSE /\ worked = FALSE

DataFault == dataFaults < MaxDataFaults /\ dataFaults' = dataFaults + 1
NoDataFault == UNCHANGED dataFaults

Proceeds(step) == start' = step /\ UNCHANGED refusal
Refuses(code) == start' = "refused" /\ refusal' = code
Unprepared == unprepared' = TRUE /\ UNCHANGED <<copiedFrom, moved, straddled, cut, worked>>

\* Mutant: whatever is in the stable directory is taken for a finished migration.
VerdictOfPresence ==
    IF legacy # NoTree /\ stable \in {NoDirectory, EmptyDirectory} THEN "stage" ELSE "serve"

\* migrate_legacy_directory up to the staging directory, and has_valid_marker.
Verdict ==
    IF legacy = NoTree \/ stable.marker = "valid" THEN "serve"
    ELSE IF stable \in {NoDirectory, EmptyDirectory} THEN "stage"
    ELSE IF stable.marker = "torn" THEN "PRODUCT_DATA_MARKER_INVALID"
    ELSE "PRODUCT_DATA_IDENTITY_CONFLICT"

\* A start of the Desktop inspects both directories before the daemon is started.
Inspect ==
    /\ start = "off" /\ UNCHANGED <<legacy, stable, staging, copyVars, unflushed, legacyWrites>>
    /\ \/ /\ NoDataFault
          /\ IF Verdict \in {"serve", "stage"} THEN Proceeds(Verdict) /\ UNCHANGED ghosts
             ELSE Refuses(Verdict) /\ Unprepared
       \/ DataFault /\ Refuses("PRODUCT_DATA_READ_FAILED") /\ Unprepared

\* A failure before the staging directory is created leaves what is there.
FailsEarly ==
    /\ DataFault /\ Refuses("PRODUCT_DATA_STAGING_FAILED") /\ Unprepared /\ UNCHANGED copyVars

\* The empty stable directory is removed, then what an earlier start left staged;
\* and the staging directory is created.
BeginStaging ==
    /\ start = "stage" /\ UNCHANGED <<legacy, unflushed, legacyWrites>>
    /\ \/ /\ NoDataFault /\ Proceeds("copy") /\ todo' = DOMAIN legacy
          /\ copying' = {} /\ contents' = {} /\ stable' = NoDirectory /\ staging' = EmptyDirectory
          /\ copiedFrom' = legacy /\ moved' = FALSE /\ straddled' = FALSE
          /\ UNCHANGED <<unprepared, cut, worked>>
       \/ FailsEarly /\ stable' \in {stable, NoDirectory} /\ staging' \in {staging, NoDirectory}

\* After a failure the staging directory is removed, if it can be.
StopsStaged(code) ==
    /\ Refuses(code) /\ Unprepared /\ staging' \in {staging, NoDirectory}
    /\ copying' = {} /\ contents' = {} /\ UNCHANGED <<stable, todo, unflushed>>
FailsStaged == DataFault /\ StopsStaged("PRODUCT_DATA_STAGING_FAILED")

\* copy_directory: the size of one file is read and its copy begins.
BeginCopy(f) ==
    /\ start = "copy" /\ copying = {} /\ f \in todo /\ UNCHANGED <<legacy, legacyWrites>>
    /\ \/ /\ NoDataFault /\ copying' = {f} /\ contents' = {legacy[f]}
          /\ UNCHANGED <<stable, staging, start, refusal, todo, unflushed, ghosts>>
       \/ FailsStaged

\* Of a file that was written during its copy, the copy may hold parts of both.
Copies(f) == contents \cup (IF contents = {legacy[f]} THEN {} ELSE {Torn})

\* The sizes alone are compared, with the one that was read first.
CopyFile(f) ==
    /\ start = "copy" /\ f \in copying /\ UNCHANGED <<legacy, legacyWrites>>
    /\ \/ /\ NoDataFault /\ todo' = todo \ {f} /\ copying' = {} /\ contents' = {}
          /\ \E copy \in Copies(f) :
                staging' = [staging EXCEPT !.tree =
                               [g \in DOMAIN @ \cup {f} |-> IF g = f THEN copy ELSE @[g]]]
          /\ UNCHANGED <<stable, start, refusal, unflushed, ghosts>>
       \/ contents # {legacy[f]} /\ NoDataFault /\ StopsStaged("PRODUCT_DATA_VERIFY_FAILED")
       \/ FailsStaged

\* The marker is written last, and the directory renamed; neither is flushed.
WriteMarker ==
    /\ start = "copy" /\ todo = {} /\ UNCHANGED <<legacy, legacyWrites>>
    /\ \/ /\ NoDataFault /\ Proceeds("publish") /\ staging' = [staging EXCEPT !.marker = "valid"]
          /\ UNCHANGED <<stable, copyVars, unflushed, ghosts>>
       \/ FailsStaged

PublishCopy ==
    /\ start = "publish" /\ UNCHANGED <<legacy, legacyWrites>>
    /\ \/ /\ NoDataFault /\ Proceeds("serve") /\ stable' = staging /\ staging' = NoDirectory
          /\ unflushed' = DataFiles \cup {"marker"} /\ UNCHANGED <<copyVars, ghosts>>
       \/ FailsStaged

(***************************************************************************)
(* The stable directory in use.                                            *)
(***************************************************************************)
\* The daemon writes its files, and flushes what it writes.
Work(f) ==
    /\ start = "serve"
    /\ stable' = [stable EXCEPT !.tree = [g \in DOMAIN @ \cup {f} |-> IF g = f THEN Mine ELSE @[g]],
                                !.marker = IF Exists(stable) THEN @ ELSE "none"]
    /\ unflushed' = unflushed \ {f} /\ worked' = TRUE
    /\ UNCHANGED <<legacy, staging, start, refusal, copyVars, legacyWrites, dataFaults, copiedFrom,
                   moved, straddled, unprepared, cut>>

\* The Desktop looks for an update to resume, which creates the directory of updates,
\* or saves its preferences: after a start that was refused as after any other.
KeepOwn(name) ==
    /\ start \in {"serve", "refused"} /\ name \notin stable.own
    /\ stable' = [stable EXCEPT !.own = @ \cup {name}, !.marker = IF Exists(stable) THEN @ ELSE "none"]
    /\ UNCHANGED <<legacy, staging, start, refusal, copyVars, unflushed, legacyWrites, dataFaults, ghosts>>

(***************************************************************************)
(* The environment.                                                        *)
(***************************************************************************)
LegacyWrite(f) ==
    /\ legacy # NoTree /\ legacyWrites < MaxLegacyWrites /\ legacyWrites' = legacyWrites + 1
    /\ legacy' = [legacy EXCEPT ![f] = legacyWrites + 2]
    /\ moved' = (moved \/ start = "copy") /\ straddled' = (straddled \/ f \in copying)
    /\ contents' = IF f \in copying THEN contents \cup {legacy'[f]} ELSE contents
    /\ UNCHANGED <<stable, staging, start, refusal, todo, copying, unflushed, dataFaults, copiedFrom,
                   unprepared, cut, worked>>

Flush ==
    /\ unflushed # {} /\ unflushed' = {}
    /\ UNCHANGED <<legacy, stable, staging, start, refusal, copyVars, legacyWrites, dataFaults, ghosts>>

\* The Desktop quits, or is killed in the middle of a start.
Leaves ==
    /\ start # "off" /\ start' = "off" /\ refusal' = "none" /\ todo' = {} /\ copying' = {} /\ contents' = {}
    /\ IF start \in {"serve", "refused"} THEN NoDataFault ELSE DataFault
    /\ UNCHANGED <<legacy, stable, staging, unflushed, legacyWrites, ghosts>>

\* Of a directory that was renamed, any file that was not flushed may be torn.
CutPower(lost) ==
    /\ DataFault /\ lost # {} /\ lost \subseteq unflushed
    /\ stable' = [stable EXCEPT !.tree = [f \in DOMAIN @ |-> IF f \in lost THEN Torn ELSE @[f]],
                                !.marker = IF "marker" \in lost THEN "torn" ELSE @]
    /\ unflushed' = {} /\ cut' = TRUE /\ start' = "off" /\ refusal' = "none"
    /\ todo' = {} /\ copying' = {} /\ contents' = {}
    /\ UNCHANGED <<legacy, staging, legacyWrites, copiedFrom, moved, straddled, unprepared, worked>>

ProductDataNext ==
    \/ Inspect \/ BeginStaging \/ WriteMarker \/ PublishCopy \/ Flush \/ Leaves
    \/ \E f \in DataFiles : BeginCopy(f) \/ CopyFile(f) \/ Work(f) \/ LegacyWrite(f)
    \/ \E name \in {"updates", "preferences"} : KeepOwn(name)
    \/ \E lost \in SUBSET unflushed : CutPower(lost)

ProductDataSpec == ProductDataInit /\ [][ProductDataNext]_productVars
-----------------------------------------------------------------------------
(***************************************************************************)
(* Properties.                                                             *)
(***************************************************************************)
\* With legacy data there, the daemon only ever serves a whole copy of it: exactly
\* what the legacy directory held when the copy began, unless the old application
\* wrote during the copy or the daemon has written since; torn only by a power cut,
\* or by a write of the old application that fell into the copy of that very file.
ServesTheCopy ==
    start = "serve" /\ legacy # NoTree =>
       /\ Whole(stable.tree) \/ cut \/ straddled
       /\ ~(cut \/ moved \/ worked) => stable.tree = copiedFrom

\* What the daemon has written is never replaced by another copy.
WorkIsKept ==
    worked => \E f \in DOMAIN stable.tree : stable.tree[f] = Mine

\* A start that no retry will mend has one of two causes: two directories that each
\* held data, be it only the files the Desktop itself put there after an earlier
\* start had failed; or a power cut after the rename.
RefusedWithCause ==
    /\ refusal = "PRODUCT_DATA_IDENTITY_CONFLICT" =>
          stable.own # {} /\ ("other product" \in stable.own \/ unprepared)
    /\ refusal = "PRODUCT_DATA_MARKER_INVALID" => cut

\* The data of the product outlives the change of its name.
ProductDataKept == ServesTheCopy /\ WorkIsKept /\ RefusedWithCause
=============================================================================
