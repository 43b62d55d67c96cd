---------------------------- MODULE DesktopUpdate ---------------------------
(***************************************************************************)
(* How the Desktop updates itself.  One record on disk says how far an     *)
(* update is; a gate lets one command of the panel, one reconciliation or  *)
(* one attempt of the postcheck work at a time, and a download holds it    *)
(* all along.  The panel offers a command for the record it last saw, and  *)
(* forgets that it is busy when it is closed, so commands can queue at the *)
(* gate.  The installer is a process of its own that outlives the Desktop: *)
(* it waits for the Desktop to end, installs the package and writes its    *)
(* exit code, and whoever runs next finds out what became of it.           *)
(***************************************************************************)
EXTENDS Naturals

CONSTANTS MaxRelease,       \* bound: versions that are published
          MaxAttempts,      \* bound: attempts of the postcheck (92 in the code)
          MaxUpdateMishaps  \* bound: failing writes, kills, power cuts, crashes of msiexec

ASSUME UpdateBounds == MaxRelease \in Nat /\ MaxAttempts \in Nat /\ MaxUpdateMishaps \in Nat

VARIABLES record,    \* state.json: phase, offered version (0: none), error_code
          package,   \* the staged package: the version it holds, or 0
          result,    \* installer.exit: "none", "ok", "failed" or "unreadable"
          upGate,    \* who holds UpdateManager.gate across steps
          queued,    \* commands that wait for it
          panel,      \* the record the panel shows, or Unseen
          running,   \* the version of the Desktop that runs, or 0
          exiting,   \* app.exit was called
          installed, \* the version on disk
          atReboot,  \* the version that a reboot puts there, or 0
          installer, \* the installer: where it is, and its package's version
          resume,    \* attempts left to resume_postcheck
          late,      \* ten minutes have passed since the record was started
          updateMishaps,
          ghost      \* what came between, see below

updateVars == <<record, package, result, upGate, queued, panel, running, exiting, installed,
                atReboot, installer, resume, late, updateMishaps, ghost>>

Versions == 1..MaxRelease
Commands == {"check", "download", "install"}
Unseen == [phase |-> "UNSEEN", version |-> 0, error |-> "none"]
NoInstaller == [step |-> "none", version |-> 0, parent |-> FALSE]
Postchecks == {"INSTALLING", "POSTCHECK"}

\* unrecorded: a write of the record failed; overtaken: a command came upon an
\* installation that had begun, or this one upon one that awaits a reboot; reoffered: an offer that is not newer was taken.
NoGhost == [unrecorded |-> FALSE, overtaken |-> FALSE, reoffered |-> FALSE]

UpdateInit ==
    /\ record = [phase |-> "IDLE", version |-> 0, error |-> "none"]
    /\ package = 0 /\ result = "none" /\ upGate = "free" /\ queued = {} /\ panel = Unseen
    /\ running = 1 /\ exiting = FALSE /\ installed = 1 /\ atReboot = 0
    /\ installer = NoInstaller /\ resume = MaxAttempts /\ late = FALSE
    /\ updateMishaps = 0 /\ ghost = NoGhost

UpdateMishap == updateMishaps < MaxUpdateMishaps /\ updateMishaps' = updateMishaps + 1
NoUpdateMishap == UNCHANGED updateMishaps

Recorded(phase) == [record EXCEPT !.phase = phase, !.error = "none"]
Failed(error) == [record EXCEPT !.phase = "FAILED", !.error = error]
Overtaking == record.phase \in Postchecks \/ installer.step # "none"

\* persist_record, for a ghost that is otherwise this.
Stores(r, g) ==
    \/ record' = r /\ ghost' = g /\ NoUpdateMishap
    \/ UNCHANGED record /\ ghost' = [g EXCEPT !.unrecorded = TRUE] /\ UpdateMishap

\* The same in a command, which records that it failed when that fails.
StoresOrFails(r, g) ==
    \/ Stores(r, g)
    \/ record' = Failed("other") /\ ghost' = g /\ UpdateMishap

Idle == UNCHANGED <<running, exiting, installed, atReboot, installer>>

(***************************************************************************)
(* The commands.                                                           *)
(***************************************************************************)
\* A command that waited has the gate.
Begins(command) ==
    /\ running # 0 /\ upGate = "free" /\ command \in queued /\ queued' = queued \ {command}
Overtakes == [ghost EXCEPT !.overtaken = @ \/ Overtaking]

\* check_yorva_update: no release, none that fits, or this one; releases only grow.
Check ==
    /\ Begins("check")
    /\ \/ Stores(Failed("other"), Overtakes)
       \/ \E v \in Versions \cap (record.version..MaxRelease) :
             Stores([phase |-> IF v > running THEN "AVAILABLE" ELSE "UP_TO_DATE",
                     version |-> v, error |-> "none"], Overtakes)
    /\ UNCHANGED <<package, result, upGate, panel, resume, late>> /\ Idle

Downloadable == record.version # 0 /\ record.phase \in {"AVAILABLE", "FAILED"}

RefuseDownload ==
    /\ Begins("download") /\ ~Downloadable /\ Stores(Failed("other"), Overtakes)
    /\ UNCHANGED <<package, result, upGate, panel, resume, late>> /\ Idle

\* DOWNLOADING is recorded, then what was staged is removed; nobody compares the
\* versions again.  When it cannot be recorded the command fails.
BeginDownload ==
    /\ Begins("download") /\ Downloadable
    /\ StoresOrFails(Recorded("DOWNLOADING"), [ghost EXCEPT !.reoffered = @ \/ record.version <= running])
    /\ IF record'.phase = "DOWNLOADING" THEN upGate' = "download" /\ package' = 0
       ELSE UNCHANGED <<upGate, package>>
    /\ UNCHANGED <<result, panel, resume, late>> /\ Idle

\* The package is whole and verified, and gets its name.
NamePackage ==
    /\ upGate = "download" /\ package = 0 /\ package' = record.version
    /\ UNCHANGED <<record, result, upGate, queued, panel, resume, late, updateMishaps, ghost>> /\ Idle

Ready ==
    /\ upGate = "download" /\ package # 0 /\ upGate' = "free"
    /\ record' = Recorded("READY_TO_INSTALL")
    /\ UNCHANGED <<package, result, queued, panel, resume, late, updateMishaps, ghost>> /\ Idle

\* The transfer fails or is cancelled, what arrived is not the package, or a step
\* on the disk fails.
FailDownload ==
    /\ upGate = "download" /\ upGate' = "free" /\ Stores(Failed("other"), ghost)
    /\ UNCHANGED <<package, result, queued, panel, resume, late>> /\ Idle

\* install_update.  A command that fails removes everything that is staged.
Installable == record.phase = "READY_TO_INSTALL" /\ package = record.version

RefuseInstall ==
    /\ Begins("install") /\ ~Installable
    /\ package' = 0 /\ result' = "none" /\ Stores(Failed("install"), Overtakes)
    /\ UNCHANGED <<upGate, panel, resume, late>> /\ Idle

\* Bound: one installer at a time.  INSTALLING may not be recorded either.
BeginInstall ==
    /\ Begins("install") /\ Installable /\ installer = NoInstaller /\ result' = "none"
    /\ \/ /\ record' = Recorded("INSTALLING") /\ late' = FALSE /\ upGate' = "install"
          /\ ghost' = [ghost EXCEPT !.overtaken = atReboot # 0, !.reoffered = @ \/ record.version <= running]
          /\ UNCHANGED package /\ NoUpdateMishap
       \/ /\ UpdateMishap /\ package' = 0 /\ UNCHANGED <<late, upGate>>
          /\ \/ record' = Failed("other") /\ ghost' = Overtakes
             \/ UNCHANGED record /\ ghost' = [Overtakes EXCEPT !.unrecorded = TRUE]
    /\ UNCHANGED <<panel, resume>> /\ Idle

Launch ==
    /\ upGate = "install" /\ upGate' = "free" /\ exiting' = TRUE
    /\ installer' = [step |-> "waiting", version |-> package, parent |-> TRUE]
    /\ UNCHANGED <<record, package, result, queued, panel, running, installed, atReboot, resume, late,
                   updateMishaps, ghost>>

FailLaunch ==
    /\ upGate = "install" /\ upGate' = "free"
    /\ package' = 0 /\ StoresOrFails(Failed("install"), ghost)
    /\ UNCHANGED <<result, queued, panel, resume, late>> /\ Idle

(***************************************************************************)
(* What became of a download or an installation.                           *)
(***************************************************************************)
As(r, staged, code) == [record |-> r, package |-> staged, result |-> code]
Settled(r) == As(r, 0, "none")
Untouched == As(record, package, result)

\* Mutant: an installer that ended well has installed its package.
ReconciledByResult ==
    IF record.phase = "DOWNLOADING" THEN {As(Failed("other"), 0, result)}
    ELSE IF record.phase \notin Postchecks THEN {Untouched}
    ELSE IF result = "unreadable" THEN {}
    ELSE IF result = "failed" THEN {Settled(Failed("install"))}
    ELSE IF result = "none" /\ record.version # running THEN {Untouched}
    ELSE {Settled(Recorded("SUCCEEDED")), Settled(Failed("other")), As(Recorded("POSTCHECK"), package, result)}

\* recover_abandoned_download and reconcile_postcheck; the last case is the daemon:
\* it answers for its recovery, it does not, or it is still starting.
Reconciled ==
    IF record.phase = "DOWNLOADING" THEN {As(Failed("other"), 0, result)}
    ELSE IF record.phase \notin Postchecks THEN {Untouched}
    ELSE IF result = "unreadable" THEN {}
    ELSE IF result = "failed" THEN {Settled(Failed("install"))}
    ELSE IF record.version # running THEN {IF late THEN Settled(Failed("install")) ELSE Untouched}
    ELSE {Settled(Recorded("SUCCEEDED")), Settled(Failed("other")), As(Recorded("POSTCHECK"), package, result)}

Becomes(r) == record' = r.record /\ package' = r.package /\ result' = r.result

\* The record cannot be written, or what was staged for an abandoned download removed.
FailReconciling ==
    /\ UpdateMishap /\ UNCHANGED <<package, result>>
    /\ \/ UNCHANGED record /\ ghost' = [ghost EXCEPT !.unrecorded = TRUE]
       \/ record.phase = "DOWNLOADING" /\ record' = Failed("other") /\ UNCHANGED ghost

\* The panel reads the status: the record as it is while somebody holds the gate.
Look ==
    /\ running # 0
    /\ \/ upGate # "free" /\ panel' = record /\ UNCHANGED <<record, package, result, ghost>> /\ NoUpdateMishap
       \/ upGate = "free" /\ \E r \in Reconciled : Becomes(r) /\ panel' = r.record /\ UNCHANGED ghost /\ NoUpdateMishap
       \/ /\ upGate = "free" /\ panel' = Unseen
          /\ IF Reconciled = {} THEN UNCHANGED <<record, package, result, ghost>> /\ NoUpdateMishap
             ELSE FailReconciling
    /\ UNCHANGED <<upGate, queued, resume, late>> /\ Idle

\* resume_postcheck gives up when the record needs none, is settled, or cannot be
\* read or written; its last attempt settles what is still POSTCHECK, in a second write.
Resume ==
    /\ running # 0 /\ resume > 0 /\ upGate = "free"
    /\ \/ \E r \in Reconciled :
             LET over == resume = 1 /\ r.record.phase = "POSTCHECK"
             IN /\ Becomes(IF over THEN [r EXCEPT !.record = Failed("other")] ELSE r)
                /\ resume' = IF record'.phase \in Postchecks THEN resume - 1 ELSE 0
                /\ UNCHANGED ghost /\ NoUpdateMishap
       \/ Reconciled = {} /\ resume' = 0 /\ UNCHANGED <<record, package, result, ghost>> /\ NoUpdateMishap
       \/ Reconciled # {} /\ resume' = 0 /\ FailReconciling
       \/ /\ resume = 1 /\ resume' = 0 /\ UpdateMishap /\ ghost' = [ghost EXCEPT !.unrecorded = TRUE]
          /\ \E r \in Reconciled : r.record.phase = "POSTCHECK" /\ Becomes(r)
    /\ UNCHANGED <<upGate, queued, panel, late>> /\ Idle

\* The installer waits for the Desktop that launched it for thirty seconds only.
TenMinutes ==
    /\ ~(installer.step = "waiting" /\ installer.parent)
    /\ record.phase \in Postchecks /\ ~late /\ late' = TRUE
    /\ UNCHANGED <<record, package, result, upGate, queued, panel, resume, updateMishaps, ghost>> /\ Idle

(***************************************************************************)
(* The panel, the Desktop's process, the installer and the machine.        *)
(***************************************************************************)
Offered(status) ==
    CASE status.phase = "AVAILABLE" \/ (status.phase = "FAILED" /\ status.version # 0) -> "download"
      [] status.phase = "READY_TO_INSTALL" -> "install"
      [] OTHER -> "check"

Press ==
    /\ panel.phase \notin {"UNSEEN", "DOWNLOADING"} \cup Postchecks
    /\ queued' = queued \cup {Offered(panel)} /\ panel' = Unseen
    /\ UNCHANGED <<record, package, result, upGate, resume, late, updateMishaps, ghost>> /\ Idle

Gone ==
    /\ running' = 0 /\ exiting' = FALSE /\ upGate' = "free" /\ queued' = {} /\ panel' = Unseen
    /\ resume' = 0

\* It exits after the launch, is closed, or is killed.
EndDesktop ==
    /\ running # 0 /\ Gone /\ IF exiting THEN NoUpdateMishap ELSE UpdateMishap
    /\ installer' = [installer EXCEPT !.parent = FALSE]
    /\ UNCHANGED <<record, package, result, installed, atReboot, late, ghost>>

StartDesktop ==
    /\ running = 0 /\ running' = installed /\ resume' = MaxAttempts
    /\ UNCHANGED <<record, package, result, upGate, queued, panel, exiting, installed, atReboot, installer,
                   late, updateMishaps, ghost>>

Outside == UNCHANGED <<record, upGate, queued, panel, running, exiting, resume, late, ghost>>

\* The Desktop did not end in thirty seconds: 1460.
GiveUp ==
    /\ installer.step = "waiting" /\ installer.parent
    /\ result' = "failed" /\ installer' = NoInstaller
    /\ UNCHANGED <<package, installed, atReboot, updateMishaps>> /\ Outside

\* msiexec installs the package, at the next reboot when a Desktop uses the files,
\* or it does not, or it ends without an exit code that is a number of digits.
Install ==
    /\ installer.step = "waiting" /\ ~installer.parent
    /\ \/ /\ package = installer.version /\ package >= installed /\ NoUpdateMishap
          /\ installer' = [installer EXCEPT !.step = "ok"]
          /\ IF running = 0 THEN installed' = package /\ atReboot' = 0
             ELSE atReboot' = package /\ UNCHANGED installed
       \/ /\ UNCHANGED <<installed, atReboot>> /\ NoUpdateMishap
          /\ installer' = [installer EXCEPT !.step = "failed"]
       \/ /\ UNCHANGED <<installed, atReboot>> /\ UpdateMishap
          /\ installer' = [installer EXCEPT !.step = "unreadable"]
    /\ UNCHANGED <<package, result>> /\ Outside

WriteResult ==
    /\ installer.step \in {"ok", "failed", "unreadable"}
    /\ result' = installer.step /\ installer' = NoInstaller
    /\ UNCHANGED <<package, installed, atReboot, updateMishaps>> /\ Outside

PowerCut ==
    /\ UpdateMishap /\ Gone /\ installer' = NoInstaller
    /\ result' \in {result} \cup (IF installer.step \in {"ok", "failed"} THEN {"unreadable"} ELSE {})
    /\ installed' = IF atReboot = 0 THEN installed ELSE atReboot
    /\ atReboot' = 0
    /\ UNCHANGED <<record, package, late, ghost>>

UpdateNext ==
    \/ Check \/ RefuseDownload \/ BeginDownload \/ NamePackage \/ Ready \/ FailDownload
    \/ RefuseInstall \/ BeginInstall \/ Launch \/ FailLaunch
    \/ Look \/ Resume \/ TenMinutes \/ Press \/ EndDesktop \/ StartDesktop
    \/ GiveUp \/ Install \/ WriteResult \/ PowerCut

UpdateSpec == UpdateInit /\ [][UpdateNext]_updateVars
-----------------------------------------------------------------------------
(***************************************************************************)
(* Properties.                                                             *)
(***************************************************************************)
OffersNewer ==
    record.phase = "AVAILABLE" /\ running # 0 => record.version > running \/ ghost.overtaken
ReadyIsStaged == record.phase = "READY_TO_INSTALL" => package = record.version \/ ghost.unrecorded
InstallerHasPackage ==
    installer.step = "waiting" =>
        package = installer.version \/ ghost.overtaken \/ ghost.reoffered \/ late
SuccessIsInstalled ==
    record.phase = "SUCCEEDED" =>
        installed = record.version /\ (installer.step # "waiting" \/ ghost.reoffered)
FailureIsReal ==
    record.phase = "FAILED" /\ record.error = "install" =>
        installed # record.version \/ ghost.overtaken \/ ghost.reoffered \/ late

\* An offer is newer than the program, a package that is offered for installation is
\* staged and stays while the installer needs it, SUCCEEDED means that the offered
\* version is installed, and an installation that FAILED left another version;
\* unless a second command came upon the installation, an offer that was not newer
\* was taken from a failed check, ten minutes passed, or a record was not written.
UpdateTrue ==
    /\ OffersNewer /\ ReadyIsStaged /\ InstallerHasPackage /\ SuccessIsInstalled /\ FailureIsReal
=============================================================================
