---------------------------- MODULE ManagedSkills ----------------------------
(***************************************************************************)
(* A managed Skill of an instance lives in three places: the immutable     *)
(* managed store, the row of managed_skills, and the directory projected   *)
(* into the profile, whose marker names the deployment that owns it.  No   *)
(* transaction joins them.  A worker installs, imports, updates, enables,  *)
(* disables or removes; operations on one instance exclude each other, so  *)
(* there is one worker at a time.  Beside it users edit the profile, a     *)
(* restore puts back an older one, calls fail and the daemon stops.        *)
(*                                                                         *)
(* One Skill is modelled; Skills share nothing but the worker.             *)
(***************************************************************************)
EXTENDS Naturals

CONSTANTS MaxReleases,    \* bound: releases of a source
          MaxInstalls,    \* bound: installs and imports
          MaxSkillFaults, \* bound: failing calls
          MaxEdits        \* bound: edits, backups and restores of the profile

ASSUME SkillBounds == MaxReleases \in Nat \ {0} /\ MaxInstalls \in Nat /\ MaxEdits \in Nat

VARIABLES row,        \* the row of managed_skills
          disk,       \* the Skill's directory in the profile
          saved,      \* the same directory in a backup of the profile
          catalog,    \* the release the program's built-in catalog holds
          worker,     \* the operation at work
          installs, skillFaults, edits,
          halfUpdated,  \* ghost: releases updates projected without recording them
          restored,     \* ghost: the directory came back from a backup
          leftBehind    \* ghost: a removal failed and its error was ignored

skillVars == <<row, disk, saved, catalog, worker, installs, skillFaults, edits,
               halfUpdated, restored, leftBehind>>
ghosts == <<halfUpdated, restored, leftBehind>>
profile == <<disk, saved, edits>>

NoRow == [dep |-> 0, src |-> "none", ver |-> 0, desired |-> FALSE, state |-> "none"]
Absent == [kind |-> "absent", dep |-> 0, src |-> "none", ver |-> 0]
External == [Absent EXCEPT !.kind = "external"]
Projection(dep, src, ver) == [kind |-> "managed", dep |-> dep, src |-> src, ver |-> ver]
Modified(tree) == [tree EXCEPT !.kind = "modified"]
NoWorker == [at |-> "idle", action |-> "none", dep |-> 0, src |-> "none", ver |-> 0,
             read |-> NoRow, aside |-> Absent]

SkillsInit ==
    /\ row = NoRow /\ disk \in {Absent, External} /\ saved = Absent /\ catalog = 1
    /\ worker = NoWorker /\ installs = 0 /\ skillFaults = 0 /\ edits = 0
    /\ halfUpdated = {} /\ restored = FALSE /\ leftBehind = FALSE

SkillFault == skillFaults < MaxSkillFaults /\ skillFaults' = skillFaults + 1
NoSkillFault == UNCHANGED skillFaults
At(step) == worker.at = step
Becomes(step) == worker' = [worker EXCEPT !.at = step]
Ends == worker' = NoWorker
New == worker.action \in {"install", "import"}

\* InspectSkillProjection reads with no deployment in hand: any marker will do.
Observed ==
    CASE disk.kind = "absent" -> "NOT_PROJECTED"
      [] disk.kind = "managed" -> "PROJECTED"
      [] disk.kind = "modified" -> "DRIFT_MODIFIED"
      [] OTHER -> "CONFLICT"
\* inspectOwnedDestination: the marker must name the caller's deployment.
Owned(dep) == disk.kind = "managed" /\ disk.dep = dep

(***************************************************************************)
(* start, runWorker and the checks of each action.                         *)
(***************************************************************************)
StartNew(action, src) ==
    /\ At("idle") /\ installs < MaxInstalls /\ installs' = installs + 1
    /\ worker' = [NoWorker EXCEPT !.at = "check", !.action = action, !.src = src, !.dep = installs + 1]
    /\ UNCHANGED <<row, profile, catalog, skillFaults, ghosts>>

StartExisting(action) ==
    /\ At("idle") /\ row # NoRow
    /\ worker' = [NoWorker EXCEPT !.at = "check", !.action = action, !.src = row.src]
    /\ UNCHANGED <<row, profile, catalog, installs, skillFaults, ghosts>>

\* installManaged and importManaged refuse a Skill that has a row.
CheckNew ==
    /\ At("check") /\ New
    /\ IF row # NoRow THEN Ends ELSE Becomes("acquire")
    /\ UNCHANGED <<row, profile, catalog, installs, skillFaults, ghosts>>

\* requireOwnedProjection keeps what it observed in place of the row's state.
CheckOwned ==
    /\ At("check") /\ ~New /\ NoSkillFault
    /\ LET next == CASE worker.action = "update" -> "acquire"
                     [] worker.action = "enable" -> "project"
                     [] worker.action = "disable" -> "unproject"
                     [] OTHER -> IF Observed = "PROJECTED" THEN "unproject" ELSE "deleteRow"
           refused == \/ Observed \in {"CONFLICT", "DRIFT_MODIFIED"}
                      \/ worker.action = "disable" /\ Observed # "PROJECTED"
           sees == [row EXCEPT !.state = Observed] IN
       \/ refused /\ Ends
       \/ /\ ~refused
          /\ worker' = [worker EXCEPT !.at = next, !.read = sees, !.dep = row.dep, !.ver = row.ver]
    /\ UNCHANGED <<row, profile, catalog, installs, ghosts>>

\* AcquireToManaged takes the catalog's release, ImportToManaged the staged one.
\* The catalog knows nothing of an imported Skill: its update ends here.
Acquire ==
    /\ At("acquire") /\ UNCHANGED <<row, profile, catalog, installs, ghosts>>
    /\ LET next == IF New THEN "createRow"
                   ELSE IF worker.read.desired THEN "project" ELSE "replaceRow" IN
       \/ /\ NoSkillFault /\ worker.src = "catalog"
          /\ worker' = [worker EXCEPT !.at = next, !.ver = catalog]
       \/ /\ NoSkillFault /\ worker.action = "import"
          /\ \E ver \in 1..MaxReleases : worker' = [worker EXCEPT !.at = next, !.ver = ver]
       \/ NoSkillFault /\ worker.src = "import" /\ worker.action = "update" /\ Ends
       \/ SkillFault /\ Ends

\* Mutant: the directory is projected before its row is there.
CreateRowLate ==
    /\ At("createRow") /\ UNCHANGED <<row, profile, catalog, installs, ghosts>>
    /\ NoSkillFault /\ Becomes("project")

CreateRow ==
    /\ At("createRow") /\ UNCHANGED <<profile, catalog, installs, ghosts>>
    /\ \/ /\ NoSkillFault /\ Becomes("project")
          /\ row' = [dep |-> worker.dep, src |-> worker.src, ver |-> worker.ver,
                     desired |-> TRUE, state |-> "NOT_PROJECTED"]
       \/ SkillFault /\ Ends /\ UNCHANGED row

(***************************************************************************)
(* Projector.Project, a rename at a time.                                  *)
(***************************************************************************)
\* A failed projection of a new Skill deletes the row again and ignores whether
\* that works; the others leave it.
ProjectFails ==
    \/ ~New /\ Ends /\ UNCHANGED <<row, leftBehind>>
    \/ New /\ Ends /\ row' = NoRow /\ UNCHANGED leftBehind
    \/ New /\ skillFaults > 0 /\ Ends /\ UNCHANGED row /\ leftBehind' = TRUE

Recorded == IF worker.action = "update" THEN "replaceRow" ELSE "updateRow"

ProjectLooks ==
    /\ At("project") /\ NoSkillFault
    /\ UNCHANGED <<profile, catalog, installs, halfUpdated, restored>>
    /\ \/ disk = Absent /\ Becomes("publish") /\ UNCHANGED <<row, leftBehind>>
       \/ /\ Owned(worker.dep) /\ disk.src = worker.src /\ UNCHANGED <<row, leftBehind>>
          /\ Becomes(IF disk.ver = worker.ver THEN Recorded ELSE "moveOld")
       \/ disk # Absent /\ ~(Owned(worker.dep) /\ disk.src = worker.src) /\ ProjectFails

MoveOld ==
    /\ At("moveOld") /\ UNCHANGED <<saved, edits, catalog, installs, halfUpdated, restored>>
    /\ \/ /\ NoSkillFault /\ disk # Absent /\ UNCHANGED <<row, leftBehind>>
          /\ worker' = [worker EXCEPT !.at = "publishOver", !.aside = disk] /\ disk' = Absent
       \/ (SkillFault \/ (NoSkillFault /\ disk = Absent)) /\ ProjectFails /\ UNCHANGED disk

Published == Projection(worker.dep, worker.src, worker.ver)
Unrecorded == halfUpdated' = IF worker.action = "update" THEN halfUpdated \cup {worker.ver} ELSE halfUpdated

Publish ==
    /\ At("publish") /\ UNCHANGED <<saved, edits, catalog, installs, restored>>
    /\ \/ /\ NoSkillFault /\ disk = Absent /\ disk' = Published /\ Becomes("verifyNew")
          /\ Unrecorded /\ UNCHANGED <<row, leftBehind>>
       \/ /\ SkillFault \/ (NoSkillFault /\ disk # Absent)
          /\ ProjectFails /\ UNCHANGED <<disk, halfUpdated>>

\* The old directory comes back when the new one cannot be published; it is
\* deleted with the workspace when that rename fails too.
PublishOver ==
    /\ At("publishOver") /\ UNCHANGED <<saved, edits, catalog, installs, restored>>
    /\ \/ /\ NoSkillFault /\ disk = Absent /\ disk' = Published /\ Becomes("verifyOver")
          /\ Unrecorded /\ UNCHANGED <<row, leftBehind>>
       \/ /\ SkillFault \/ (NoSkillFault /\ disk # Absent)
          /\ ProjectFails /\ UNCHANGED halfUpdated
          /\ disk' \in IF disk = Absent THEN {worker.aside, Absent} ELSE {disk}

\* What was published is inspected once more; otherwise it is moved away and
\* what was there put back, two renames whose errors are ignored.
VerifyPublished ==
    /\ worker.at \in {"verifyNew", "verifyOver"}
    /\ UNCHANGED <<saved, edits, catalog, installs, halfUpdated, restored>>
    /\ LET failed == SkillFault \/ (NoSkillFault /\ disk # Published) IN
       \/ /\ NoSkillFault /\ disk = Published /\ Becomes(Recorded) /\ UNCHANGED <<row, disk, leftBehind>>
       \/ failed /\ ProjectFails /\ disk' = worker.aside
       \/ /\ failed /\ skillFaults > 0 /\ Ends /\ UNCHANGED disk
          /\ row' = (IF New THEN NoRow ELSE row) /\ leftBehind' = TRUE

(***************************************************************************)
(* Projector.Unproject: one rename; the directory goes with the workspace. *)
(***************************************************************************)
Unproject ==
    /\ At("unproject") /\ UNCHANGED <<row, saved, edits, catalog, installs, ghosts>>
    /\ LET next == IF worker.action = "remove" THEN "deleteRow" ELSE "updateRow" IN
       \/ NoSkillFault /\ disk = Absent /\ Becomes(next) /\ UNCHANGED disk
       \/ NoSkillFault /\ Owned(worker.dep) /\ disk' = Absent /\ Becomes(next)
       \/ /\ SkillFault \/ (NoSkillFault /\ disk # Absent /\ ~Owned(worker.dep))
          /\ Ends /\ UNCHANGED disk

(***************************************************************************)
(* The row.                                                                *)
(***************************************************************************)
Restarts == Becomes("restart")

UpdateRow ==
    /\ At("updateRow") /\ UNCHANGED <<profile, catalog, installs, restored, leftBehind>>
    /\ LET on == worker.action # "disable" IN
       \/ /\ NoSkillFault /\ Restarts /\ halfUpdated' = IF on THEN {} ELSE halfUpdated
          /\ row' = [row EXCEPT !.desired = on, !.state = IF on THEN "PROJECTED" ELSE "NOT_PROJECTED"]
       \/ SkillFault /\ Ends /\ UNCHANGED <<row, halfUpdated>>

\* ReplaceManagedSkillRelease compares the whole row, its state being the one
\* observed: a row whose state had fallen behind the directory is stale.
ReplaceRow ==
    /\ At("replaceRow") /\ UNCHANGED <<profile, catalog, installs, restored, leftBehind>>
    /\ \/ /\ NoSkillFault /\ row = worker.read /\ Restarts /\ halfUpdated' = {}
          /\ row' = [row EXCEPT !.ver = worker.ver,
                                !.state = IF row.desired THEN "PROJECTED" ELSE "NOT_PROJECTED"]
       \/ (SkillFault \/ (NoSkillFault /\ row # worker.read)) /\ Ends /\ UNCHANGED <<row, halfUpdated>>

DeleteRow ==
    /\ At("deleteRow") /\ UNCHANGED <<profile, catalog, installs, restored, leftBehind>>
    /\ \/ NoSkillFault /\ row' = NoRow /\ halfUpdated' = {} /\ Restarts
       \/ SkillFault /\ Ends /\ UNCHANGED <<row, halfUpdated>>

\* restartIfRunning fails the operation, but takes nothing back.
Restart ==
    /\ At("restart") /\ Ends /\ (NoSkillFault \/ SkillFault)
    /\ UNCHANGED <<row, profile, catalog, installs, ghosts>>

(***************************************************************************)
(* The world.  RecoverInterrupted only fails the operation.                *)
(***************************************************************************)
StopDaemon ==
    /\ ~At("idle") /\ SkillFault /\ Ends
    /\ UNCHANGED <<row, profile, catalog, installs, ghosts>>

NewProgram ==
    /\ At("idle") /\ catalog < MaxReleases /\ catalog' = catalog + 1
    /\ UNCHANGED <<row, profile, worker, installs, skillFaults, ghosts>>

Edit(tree) == edits < MaxEdits /\ edits' = edits + 1 /\ disk' = tree
EditSkill ==
    /\ UNCHANGED <<row, saved, catalog, worker, installs, skillFaults, ghosts>>
    /\ \/ disk.kind = "managed" /\ Edit(Modified(disk))
       \/ disk # Absent /\ Edit(Absent)
       \/ disk = Absent /\ Edit(External)

SaveProfile ==
    /\ At("idle") /\ edits < MaxEdits /\ edits' = edits + 1 /\ saved' = disk
    /\ UNCHANGED <<row, disk, catalog, worker, installs, skillFaults, ghosts>>

RestoreProfile ==
    /\ At("idle") /\ Edit(saved) /\ restored' = TRUE
    /\ UNCHANGED <<row, saved, catalog, worker, installs, skillFaults, halfUpdated, leftBehind>>

SkillsNext ==
    \/ StartNew("install", "catalog") \/ StartNew("import", "import")
    \/ \E action \in {"update", "enable", "disable", "remove"} : StartExisting(action)
    \/ CheckNew \/ CheckOwned \/ Acquire \/ CreateRow
    \/ ProjectLooks \/ MoveOld \/ Publish \/ PublishOver \/ VerifyPublished \/ Unproject
    \/ UpdateRow \/ ReplaceRow \/ DeleteRow \/ Restart
    \/ StopDaemon \/ NewProgram \/ EditSkill \/ SaveProfile \/ RestoreProfile

SkillsSpec == SkillsInit /\ [][SkillsNext]_skillVars
-----------------------------------------------------------------------------
(***************************************************************************)
(* Properties.                                                             *)
(***************************************************************************)
Entry(projection, enabled) == [projection |-> projection, enabled |-> enabled]

\* What ListSkills may say of a Skill with a row.  One modified directory makes it
\* fail for the whole profile.  A directory without a marker is no projection, but
\* the walk of the native reader finds it if its SKILL.md has this name, enabled
\* unless the configuration of Hermes says otherwise, and the row lends it the rest.
Listings ==
    LET missing == IF row.desired THEN Entry("DRIFT_MISSING", "UNKNOWN") ELSE Entry("NOT_PROJECTED", "DISABLED")
        native == IF row.desired THEN {"ENABLED", "DISABLED"} ELSE {"DISABLED"} IN
    CASE disk.kind = "modified" -> {}
      [] disk.kind = "absent" -> {missing}
      [] disk.kind = "managed" ->
            {IF row.desired THEN Entry("PROJECTED", "ENABLED") ELSE Entry("CONFLICT", "UNKNOWN")}
      [] OTHER -> {missing} \cup {Entry("UNKNOWN", enabled) : enabled \in native}

\* A directory with a marker is owned by the row, whatever failed or crashed: the
\* row is written before the directory and deleted after it.  Only a restored
\* profile, or a removal whose error was ignored, leaves a directory no row owns or
\* the row of another one.  And a Skill listed as ENABLED is the row's and has the
\* release the row names, unless an update was cut between its directory and its
\* row, or somebody else's directory took the place of the projection, which is
\* then listed with the row's release: its projection is UNKNOWN.
SkillsAgree ==
    /\ disk.kind \in {"managed", "modified"} => disk.dep = row.dep \/ restored \/ leftBehind
    /\ At("idle") /\ row # NoRow =>
          \A item \in Listings : item.enabled = "ENABLED" =>
             \/ disk.src = row.src /\ disk.ver = row.ver
             \/ disk.ver \in halfUpdated \/ restored \/ leftBehind
             \/ disk.kind = "external" /\ item.projection = "UNKNOWN"
=============================================================================
