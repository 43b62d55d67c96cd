---------------------------- MODULE DesktopProofs ---------------------------
(***************************************************************************)
(* The Desktop, for any number of releases, restarts, children, crashes    *)
(* and failing calls:                                                      *)
(*                                                                         *)
(*   an update of the Desktop is what its record says it is;               *)
(*   the Desktop keeps one daemon, watches every start, and leaves none.   *)
(*                                                                         *)
(* Each part gives the component's inductive invariant, shows that each    *)
(* action keeps it and that it implies the property the runs check.        *)
(***************************************************************************)
EXTENDS DesktopUpdate, DaemonSupervisor, FiniteSetTheorems, TLAPS

-----------------------------------------------------------------------------

(***************************************************************************)
(* The Desktop's update.                                                   *)
(***************************************************************************)
UpdatePhases == {"IDLE", "AVAILABLE", "UP_TO_DATE", "DOWNLOADING", "READY_TO_INSTALL", "INSTALLING", "POSTCHECK",
                 "SUCCEEDED", "FAILED"}
UpdateRecords == [phase : UpdatePhases \cup {"UNSEEN"}, version : Nat, error : {"none", "other", "install"}]
Installers == [step : {"none", "waiting", "ok", "failed", "unreadable"}, version : Nat, parent : BOOLEAN]
Ghosts == [unrecorded : BOOLEAN, overtaken : BOOLEAN, reoffered : BOOLEAN]

UpdateType ==
    /\ record \in UpdateRecords /\ record.phase # "UNSEEN" /\ panel \in UpdateRecords
    /\ package \in Nat /\ running \in Nat /\ installed \in Nat /\ atReboot \in Nat
    /\ result \in {"none", "ok", "failed", "unreadable"} /\ upGate \in {"free", "download", "install"}
    /\ queued \subseteq Commands /\ installer \in Installers /\ ghost \in Ghosts /\ late \in BOOLEAN

\* Versions only grow, and nothing is newer than what the record names.
VersionsGrow ==
    /\ record.version = 0 => installed = 1 /\ package = 0 /\ atReboot = 0 /\ installer.version = 0
    /\ record.version # 0 => installed <= record.version
    /\ package <= record.version /\ installer.version <= record.version
    /\ atReboot # 0 => installed <= atReboot /\ atReboot <= record.version

\* The Desktop that runs is the one installed; without one there is no panel.
SessionOK ==
    /\ running # 0 => running = installed
    /\ running = 0 => queued = {} /\ panel = Unseen /\ upGate = "free"

\* What the holder of the gate relies on.
GateOK ==
    /\ record.phase \notin {"IDLE", "FAILED"} => record.version # 0
    /\ upGate = "download" => record.phase = "DOWNLOADING" /\ record.version # 0 /\ package \in {0, record.version}
    /\ upGate = "install" =>
          /\ record.phase = "INSTALLING" /\ record.version # 0 /\ installer = NoInstaller /\ result = "none"
          /\ atReboot # 0 => ghost.overtaken
          /\ ghost.reoffered \/ installed < record.version

Ordinary == ~ghost.overtaken /\ ~ghost.reoffered /\ ~late
RebootPending == atReboot \notin {0, installed}

\* The installer, and what it leaves, in an ordinary installation.
InstallerOK ==
    /\ installer.step # "none" => result = "none" /\ record.version # 0
    /\ installer.step = "waiting" => ghost.reoffered \/ installed < record.version
    /\ Ordinary /\ installer.step \in {"waiting", "failed"} =>
          record.phase \in Postchecks /\ installed < record.version
    /\ Ordinary /\ installer.step = "waiting" => package = installer.version
    /\ Ordinary /\ result = "failed" /\ record.phase \in Postchecks => installed < record.version
    /\ Ordinary /\ RebootPending =>
          record.phase \in Postchecks /\ result \in {"none", "ok"} /\ installer.step \in {"none", "ok"}

\* What is offered, in an ordinary update, is newer.
OfferOK ==
    /\ Ordinary /\ record.phase \in {"DOWNLOADING", "READY_TO_INSTALL"} => installed < record.version
    /\ Ordinary /\ ("install" \in queued \/ panel.phase = "READY_TO_INSTALL") => installed < record.version
    /\ Ordinary /\ record.phase = "FAILED" /\ record.error = "install" => installed # record.version
    /\ record.phase = "AVAILABLE" /\ ~ghost.overtaken =>
          installed < record.version /\ installer.step = "none"
    /\ record.phase \in {"SUCCEEDED", "POSTCHECK"} => installed = record.version

\* Nothing will look for a release.
Checks(r) == r.phase \in {"IDLE", "UP_TO_DATE", "SUCCEEDED"} \/ (r.phase = "FAILED" /\ r.version = 0)
Unchecked == ~Checks(record) /\ record.phase # "AVAILABLE"
NoCheck == Unchecked /\ "check" \notin queued /\ ~Checks(panel)
PendingOK ==
    ~ghost.overtaken =>
       /\ installed < record.version /\ installer.step = "waiting" => Unchecked
       /\ installed < record.version /\ installer.step = "waiting" /\ ~installer.parent => NoCheck
       /\ RebootPending => NoCheck

UpdateInv ==
    /\ UpdateType /\ VersionsGrow /\ SessionOK /\ GateOK /\ InstallerOK /\ OfferOK /\ PendingOK /\ ReadyIsStaged


\* The records the actions start from, field by field.
LEMMA UpdateConstants ==
    /\ Unseen \in UpdateRecords /\ Unseen.phase = "UNSEEN" /\ Unseen.version = 0
    /\ NoInstaller \in Installers /\ NoInstaller.step = "none" /\ NoInstaller.version = 0 /\ ~NoInstaller.parent
    /\ NoGhost \in Ghosts /\ ~NoGhost.overtaken /\ ~NoGhost.reoffered /\ ~NoGhost.unrecorded
BY DEF Unseen, UpdateRecords, NoInstaller, Installers, NoGhost, Ghosts

\* What is made of a record, a ghost and the installer.
LEMMA UpdateFields ==
    ASSUME UpdateType
    PROVE  /\ record.phase \in UpdatePhases /\ record.version \in Nat /\ record.error \in {"none", "other", "install"}
           /\ installer.step \in {"none", "waiting", "ok", "failed", "unreadable"} /\ installer.version \in Nat
           /\ package \in Nat /\ running \in Nat /\ installed \in Nat /\ atReboot \in Nat
           /\ installer.parent \in BOOLEAN /\ panel.phase \in UpdatePhases \cup {"UNSEEN"} /\ panel.version \in Nat
           /\ ghost.unrecorded \in BOOLEAN /\ ghost.overtaken \in BOOLEAN /\ ghost.reoffered \in BOOLEAN
           /\ \A p \in UpdatePhases : /\ Recorded(p) \in UpdateRecords /\ Recorded(p).phase = p
                                      /\ Recorded(p).version = record.version /\ Recorded(p).error = "none"
           /\ \A e \in {"other", "install"} : /\ Failed(e) \in UpdateRecords /\ Failed(e).phase = "FAILED"
                                              /\ Failed(e).version = record.version /\ Failed(e).error = e
BY DEF UpdateType, UpdateRecords, UpdatePhases, Installers, Ghosts, Recorded, Failed

\* A record that is stored, or is not because the disk fails.
LEMMA StoresFields ==
    ASSUME UpdateType, NEW r \in UpdateRecords, NEW g \in Ghosts, Stores(r, g)
    PROVE  /\ ghost' \in Ghosts /\ ghost'.overtaken = g.overtaken /\ ghost'.reoffered = g.reoffered
           /\ record' = r \/ (record' = record /\ ghost'.unrecorded)
           /\ g.unrecorded => ghost'.unrecorded
BY DEF Stores, Ghosts, UpdateType

\* The same for a command, whose failure may be recorded instead.
LEMMA StoresOrFailsFields ==
    ASSUME UpdateType, NEW r \in UpdateRecords, NEW g \in Ghosts, StoresOrFails(r, g)
    PROVE  /\ ghost' \in Ghosts /\ ghost'.overtaken = g.overtaken /\ ghost'.reoffered = g.reoffered
           /\ record' = r \/ record' = Failed("other") \/ (record' = record /\ ghost'.unrecorded)
           /\ g.unrecorded => ghost'.unrecorded
BY StoresFields DEF StoresOrFails

\* A command that came upon an installation.
LEMMA OvertakesFields ==
    ASSUME UpdateType
    PROVE  /\ Overtakes \in Ghosts /\ Overtakes.reoffered = ghost.reoffered /\ Overtakes.unrecorded = ghost.unrecorded
           /\ Overtakes.overtaken <=> ghost.overtaken \/ Overtaking
BY DEF Overtakes, UpdateType, Ghosts

\* The initial states satisfy the invariant.
LEMMA UpdateInitially == UpdateInit => UpdateInv
<1> SUFFICES ASSUME UpdateInit PROVE UpdateInv
    OBVIOUS
<1>1. record \in UpdateRecords /\ record.phase = "IDLE" /\ record.version = 0 /\ record.error = "none"
    BY DEF UpdateInit, UpdateRecords, UpdatePhases
<1>2. UpdateType
    BY <1>1, UpdateConstants DEF UpdateInit, UpdateType
<1> QED
    BY <1>1, <1>2, UpdateConstants
    DEF UpdateInit, UpdateInv, VersionsGrow, SessionOK, GateOK, InstallerOK, OfferOK, PendingOK, ReadyIsStaged,
        RebootPending, Postchecks, Checks, NoCheck, Unchecked

\* A release is looked for.
LEMMA CheckKeeps == UpdateInv /\ Check => UpdateInv'
<1> SUFFICES ASSUME UpdateInv, Check PROVE UpdateInv'
    OBVIOUS
<1> USE DEF UpdateInv
<1>1. running # 0 /\ upGate = "free" /\ queued' = queued \ {"check"} /\ "check" \in queued /\ UNCHANGED <<package, result, upGate, panel, late>> /\ UNCHANGED <<running, exiting, installed, atReboot, installer>>
    BY DEF Check, Begins, Idle
<1>2. /\ record' \in UpdateRecords /\ ghost' \in Ghosts /\ ghost'.reoffered = ghost.reoffered
      /\ ghost'.overtaken <=> ghost.overtaken \/ Overtaking
      /\ record.version <= record'.version /\ record'.version \in Nat
      /\ \/ record' = record /\ ghost'.unrecorded
         \/ record'.phase = "FAILED" /\ record'.version = record.version /\ record'.error = "other"
         \/ /\ record'.phase \in {"AVAILABLE", "UP_TO_DATE"} /\ record'.version # 0
            /\ record'.phase = "AVAILABLE" => running < record'.version
      /\ ghost.unrecorded => ghost'.unrecorded
  <2>1. Overtakes \in Ghosts
    BY OvertakesFields
  <2>2. CASE Stores(Failed("other"), Overtakes)
    <3>1. Failed("other") \in UpdateRecords
        BY UpdateFields
    <3> QED
        BY <2>1, <2>2, <3>1, StoresFields, OvertakesFields, UpdateFields DEF UpdateType
  <2>3. ASSUME NEW v \in Versions \cap (record.version..MaxRelease),
               Stores([phase |-> IF v > running THEN "AVAILABLE" ELSE "UP_TO_DATE", version |-> v, error |-> "none"],
                      Overtakes)
        PROVE  /\ record' \in UpdateRecords /\ ghost' \in Ghosts /\ ghost'.reoffered = ghost.reoffered
               /\ ghost'.overtaken <=> ghost.overtaken \/ Overtaking
               /\ record.version <= record'.version /\ record'.version \in Nat
               /\ \/ record' = record /\ ghost'.unrecorded
                  \/ /\ record'.phase \in {"AVAILABLE", "UP_TO_DATE"} /\ record'.version # 0
                     /\ record'.phase = "AVAILABLE" => running < record'.version
               /\ ghost.unrecorded => ghost'.unrecorded
    <3> DEFINE found == [phase |-> IF v > running THEN "AVAILABLE" ELSE "UP_TO_DATE", version |-> v, error |-> "none"]
    <3>1. v \in Nat /\ v # 0 /\ record.version <= v
        BY UpdateFields, UpdateBounds DEF Versions
    <3>2. /\ found \in UpdateRecords /\ found.version = v /\ found.phase \in {"AVAILABLE", "UP_TO_DATE"}
          /\ found.phase = "AVAILABLE" => running < v
        BY <3>1 DEF UpdateRecords, UpdatePhases, UpdateType
    <3> HIDE DEF found
    <3>3. record' \in {record, found} /\ (record' = found \/ (record' = record /\ ghost'.unrecorded))
        BY <2>1, <2>3, <3>2, StoresFields DEF found
    <3>4. ghost' \in Ghosts /\ ghost'.overtaken = Overtakes.overtaken /\ ghost'.reoffered = Overtakes.reoffered
          /\ (Overtakes.unrecorded => ghost'.unrecorded)
        BY <2>1, <2>3, <3>2, StoresFields DEF found
    <3> QED
        BY <3>1, <3>2, <3>3, <3>4, OvertakesFields, UpdateFields DEF UpdateType
  <2> QED
    BY <2>2, <2>3 DEF Check
<1>3. UpdateType'
    BY <1>1, <1>2, UpdateFields, UpdateConstants DEF UpdateType, Overtaking
<1>4. VersionsGrow'
    BY <1>1, <1>2, UpdateFields, UpdateConstants DEF VersionsGrow, GateOK, SessionOK, InstallerOK, Overtaking
<1>5. SessionOK'
    BY <1>1, <1>2, UpdateFields, UpdateConstants DEF SessionOK, Overtaking
<1>6. GateOK'
    BY <1>1, <1>2, UpdateFields, UpdateConstants DEF GateOK, SessionOK, VersionsGrow, InstallerOK, Overtaking
<1>7. InstallerOK'
    BY <1>1, <1>2, UpdateFields, UpdateConstants DEF InstallerOK, Ordinary, RebootPending, Postchecks, VersionsGrow, SessionOK, GateOK, OfferOK, Overtaking
<1>8. OfferOK'
    BY <1>1, <1>2, UpdateFields, UpdateConstants DEF OfferOK, Ordinary, RebootPending, Postchecks, VersionsGrow, SessionOK, GateOK, InstallerOK, PendingOK, NoCheck, Unchecked, Checks, Overtaking
<1>9. PendingOK'
    BY <1>1, <1>2, UpdateFields, UpdateConstants DEF PendingOK, RebootPending, NoCheck, Unchecked, Checks, VersionsGrow, SessionOK, GateOK, InstallerOK, OfferOK, Ordinary, Overtaking
<1>10. ReadyIsStaged'
    BY <1>1, <1>2, UpdateFields, UpdateConstants DEF ReadyIsStaged, GateOK, Overtaking
<1> QED
    BY <1>3, <1>4, <1>5, <1>6, <1>7, <1>8, <1>9, <1>10 DEF UpdateInv

\* A download that is refused.
LEMMA RefuseDownloadKeeps == UpdateInv /\ RefuseDownload => UpdateInv'
<1> SUFFICES ASSUME UpdateInv, RefuseDownload PROVE UpdateInv'
    OBVIOUS
<1> USE DEF UpdateInv
<1>1. running # 0 /\ upGate = "free" /\ queued' = queued \ {"download"} /\ "download" \in queued /\ UNCHANGED <<package, result, upGate, panel, late>> /\ UNCHANGED <<running, exiting, installed, atReboot, installer>>
    BY DEF RefuseDownload, Begins, Idle
<1>2. /\ record' \in UpdateRecords /\ ghost' \in Ghosts /\ ghost'.reoffered = ghost.reoffered
      /\ ghost'.overtaken <=> ghost.overtaken \/ Overtaking
      /\ record'.version = record.version
      /\ \/ record' = record /\ ghost'.unrecorded
         \/ record'.phase = "FAILED" /\ record'.error = "other"
      /\ ghost.unrecorded => ghost'.unrecorded
  <2>1. Failed("other") \in UpdateRecords /\ Overtakes \in Ghosts /\ Stores(Failed("other"), Overtakes)
    BY OvertakesFields, UpdateFields DEF RefuseDownload, UpdateType
  <2> QED
    BY <2>1, StoresFields, OvertakesFields, UpdateFields DEF UpdateType
<1>3. UpdateType'
    BY <1>1, <1>2, UpdateFields, UpdateConstants DEF UpdateType, Overtaking
<1>4. VersionsGrow'
    BY <1>1, <1>2, UpdateFields, UpdateConstants DEF VersionsGrow, GateOK, SessionOK, InstallerOK, Overtaking
<1>5. SessionOK'
    BY <1>1, <1>2, UpdateFields, UpdateConstants DEF SessionOK, Overtaking
<1>6. GateOK'
    BY <1>1, <1>2, UpdateFields, UpdateConstants DEF GateOK, SessionOK, VersionsGrow, InstallerOK, Overtaking
<1>7. InstallerOK'
    BY <1>1, <1>2, UpdateFields, UpdateConstants DEF InstallerOK, Ordinary, RebootPending, Postchecks, VersionsGrow, SessionOK, GateOK, OfferOK, Overtaking
<1>8. OfferOK'
    BY <1>1, <1>2, UpdateFields, UpdateConstants DEF OfferOK, Ordinary, RebootPending, Postchecks, VersionsGrow, SessionOK, GateOK, InstallerOK, PendingOK, NoCheck, Unchecked, Checks, Overtaking
<1>9. PendingOK'
    BY <1>1, <1>2, UpdateFields, UpdateConstants DEF PendingOK, RebootPending, NoCheck, Unchecked, Checks, VersionsGrow, SessionOK, GateOK, InstallerOK, OfferOK, Ordinary, Overtaking
<1>10. ReadyIsStaged'
    BY <1>1, <1>2, UpdateFields, UpdateConstants DEF ReadyIsStaged, GateOK, Overtaking
<1> QED
    BY <1>3, <1>4, <1>5, <1>6, <1>7, <1>8, <1>9, <1>10 DEF UpdateInv

\* A download begins.
LEMMA BeginDownloadKeeps == UpdateInv /\ BeginDownload => UpdateInv'
<1> SUFFICES ASSUME UpdateInv, BeginDownload PROVE UpdateInv'
    OBVIOUS
<1> USE DEF UpdateInv
<1>1. running # 0 /\ upGate = "free" /\ queued' = queued \ {"download"} /\ "download" \in queued /\ UNCHANGED <<result, panel, late>> /\ UNCHANGED <<running, exiting, installed, atReboot, installer>>
    BY DEF BeginDownload, Begins, Idle
<1>2. /\ record' \in UpdateRecords /\ ghost' \in Ghosts /\ ghost'.overtaken = ghost.overtaken
      /\ ghost'.reoffered <=> ghost.reoffered \/ record.version <= running
      /\ record.version # 0 /\ record.phase \in {"AVAILABLE", "FAILED"} /\ record'.version = record.version
      /\ \/ record' = record /\ ghost'.unrecorded /\ UNCHANGED <<upGate, package>>
         \/ record'.phase = "FAILED" /\ record'.error = "other" /\ UNCHANGED <<upGate, package>>
         \/ record'.phase = "DOWNLOADING" /\ upGate' = "download" /\ package' = 0
      /\ ghost.unrecorded => ghost'.unrecorded
  <2> DEFINE g == [ghost EXCEPT !.reoffered = @ \/ record.version <= running]
  <2>1. /\ g \in Ghosts /\ g.overtaken = ghost.overtaken /\ g.unrecorded = ghost.unrecorded
        /\ g.reoffered <=> ghost.reoffered \/ record.version <= running
    BY DEF Ghosts, UpdateType
  <2>2. StoresOrFails(Recorded("DOWNLOADING"), g)
    BY DEF BeginDownload
  <2> HIDE DEF g
  <2>3. Recorded("DOWNLOADING") \in UpdateRecords /\ "DOWNLOADING" \in UpdatePhases
    BY UpdateFields DEF UpdatePhases
  <2>4. record.version # 0 /\ record.phase \in {"AVAILABLE", "FAILED"}
    BY DEF BeginDownload, Downloadable
  <2>5. IF record'.phase = "DOWNLOADING" THEN upGate' = "download" /\ package' = 0 ELSE UNCHANGED <<upGate, package>>
    BY DEF BeginDownload
  <2> QED
    BY <2>1, <2>2, <2>3, <2>4, <2>5, StoresOrFailsFields, UpdateFields DEF UpdateType
<1>3. UpdateType'
    BY <1>1, <1>2, UpdateFields, UpdateConstants DEF UpdateType
<1>4. VersionsGrow'
    BY <1>1, <1>2, UpdateFields, UpdateConstants DEF VersionsGrow, GateOK, SessionOK, InstallerOK
<1>5. SessionOK'
    BY <1>1, <1>2, UpdateFields, UpdateConstants DEF SessionOK
<1>6. GateOK'
    BY <1>1, <1>2, UpdateFields, UpdateConstants DEF GateOK, SessionOK, VersionsGrow, InstallerOK
<1>7. InstallerOK'
    BY <1>1, <1>2, UpdateFields, UpdateConstants DEF InstallerOK, Ordinary, RebootPending, Postchecks, VersionsGrow, SessionOK, GateOK, OfferOK
<1>8. OfferOK'
    BY <1>1, <1>2, UpdateFields, UpdateConstants DEF OfferOK, Ordinary, RebootPending, Postchecks, VersionsGrow, SessionOK, GateOK, InstallerOK, PendingOK, NoCheck, Unchecked, Checks
<1>9. PendingOK'
    BY <1>1, <1>2, UpdateFields, UpdateConstants DEF PendingOK, RebootPending, NoCheck, Unchecked, Checks, VersionsGrow, SessionOK, GateOK, InstallerOK, OfferOK, Ordinary
<1>10. ReadyIsStaged'
    BY <1>1, <1>2, UpdateFields, UpdateConstants DEF ReadyIsStaged, GateOK
<1> QED
    BY <1>3, <1>4, <1>5, <1>6, <1>7, <1>8, <1>9, <1>10 DEF UpdateInv

\* The package gets its name.
LEMMA NamePackageKeeps == UpdateInv /\ NamePackage => UpdateInv'
<1> SUFFICES ASSUME UpdateInv, NamePackage PROVE UpdateInv'
    OBVIOUS
<1> USE DEF UpdateInv
<1>1. upGate = "download" /\ package' = record.version /\ UNCHANGED <<record, result, upGate, queued, panel, late, ghost>> /\ UNCHANGED <<running, exiting, installed, atReboot, installer>>
    BY DEF NamePackage, Idle
<1>2. UpdateType'
    BY <1>1, UpdateFields, UpdateConstants DEF UpdateType
<1>3. VersionsGrow'
    BY <1>1, UpdateFields, UpdateConstants DEF VersionsGrow, GateOK, SessionOK, InstallerOK
<1>4. SessionOK'
    BY <1>1, UpdateFields, UpdateConstants DEF SessionOK
<1>5. GateOK'
    BY <1>1, UpdateFields, UpdateConstants DEF GateOK, SessionOK, VersionsGrow, InstallerOK
<1>6. InstallerOK'
    BY <1>1, UpdateFields, UpdateConstants DEF InstallerOK, Ordinary, RebootPending, Postchecks, VersionsGrow, SessionOK, GateOK, OfferOK
<1>7. OfferOK'
    BY <1>1, UpdateFields, UpdateConstants DEF OfferOK, Ordinary, RebootPending, Postchecks, VersionsGrow, SessionOK, GateOK, InstallerOK, PendingOK, NoCheck, Unchecked, Checks
<1>8. PendingOK'
    BY <1>1, UpdateFields, UpdateConstants DEF PendingOK, RebootPending, NoCheck, Unchecked, Checks, VersionsGrow, SessionOK, GateOK, InstallerOK, OfferOK, Ordinary
<1>9. ReadyIsStaged'
    BY <1>1, UpdateFields, UpdateConstants DEF ReadyIsStaged, GateOK
<1> QED
    BY <1>2, <1>3, <1>4, <1>5, <1>6, <1>7, <1>8, <1>9 DEF UpdateInv

\* The package is ready.
LEMMA ReadyKeeps == UpdateInv /\ Ready => UpdateInv'
<1> SUFFICES ASSUME UpdateInv, Ready PROVE UpdateInv'
    OBVIOUS
<1> USE DEF UpdateInv
<1>1. /\ upGate = "download" /\ package # 0 /\ upGate' = "free"
      /\ UNCHANGED <<package, result, queued, panel, late, ghost>> /\ UNCHANGED <<running, exiting, installed, atReboot, installer>>
    BY DEF Ready, Idle
<1>2. record' \in UpdateRecords /\ record'.phase = "READY_TO_INSTALL" /\ record'.version = record.version
    BY UpdateFields DEF Ready, UpdatePhases
<1>3. UpdateType'
    BY <1>1, <1>2, UpdateFields, UpdateConstants DEF UpdateType
<1>4. VersionsGrow'
    BY <1>1, <1>2, UpdateFields, UpdateConstants DEF VersionsGrow, GateOK, SessionOK, InstallerOK
<1>5. SessionOK'
    BY <1>1, <1>2, UpdateFields, UpdateConstants DEF SessionOK
<1>6. GateOK'
    BY <1>1, <1>2, UpdateFields, UpdateConstants DEF GateOK, SessionOK, VersionsGrow, InstallerOK
<1>7. InstallerOK'
    BY <1>1, <1>2, UpdateFields, UpdateConstants DEF InstallerOK, Ordinary, RebootPending, Postchecks, VersionsGrow, SessionOK, GateOK, OfferOK
<1>8. OfferOK'
    BY <1>1, <1>2, UpdateFields, UpdateConstants DEF OfferOK, Ordinary, RebootPending, Postchecks, VersionsGrow, SessionOK, GateOK, InstallerOK, PendingOK, NoCheck, Unchecked, Checks
<1>9. PendingOK'
    BY <1>1, <1>2, UpdateFields, UpdateConstants DEF PendingOK, RebootPending, NoCheck, Unchecked, Checks, VersionsGrow, SessionOK, GateOK, InstallerOK, OfferOK, Ordinary
<1>10. ReadyIsStaged'
    BY <1>1, <1>2, UpdateFields, UpdateConstants DEF ReadyIsStaged, GateOK
<1> QED
    BY <1>3, <1>4, <1>5, <1>6, <1>7, <1>8, <1>9, <1>10 DEF UpdateInv

\* A download fails.
LEMMA FailDownloadKeeps == UpdateInv /\ FailDownload => UpdateInv'
<1> SUFFICES ASSUME UpdateInv, FailDownload PROVE UpdateInv'
    OBVIOUS
<1> USE DEF UpdateInv
<1>1. upGate = "download" /\ upGate' = "free" /\ UNCHANGED <<package, result, queued, panel, late>> /\ UNCHANGED <<running, exiting, installed, atReboot, installer>>
    BY DEF FailDownload, Idle
<1>2. /\ record' \in UpdateRecords /\ ghost' \in Ghosts /\ ghost'.reoffered = ghost.reoffered
      /\ ghost'.overtaken <=> ghost.overtaken
      /\ record'.version = record.version
      /\ \/ record' = record /\ ghost'.unrecorded
         \/ record'.phase = "FAILED" /\ record'.error = "other"
      /\ ghost.unrecorded => ghost'.unrecorded
  <2>1. Failed("other") \in UpdateRecords /\ ghost \in Ghosts /\ Stores(Failed("other"), ghost)
    BY OvertakesFields, UpdateFields DEF FailDownload, UpdateType
  <2> QED
    BY <2>1, StoresFields, OvertakesFields, UpdateFields DEF UpdateType
<1>3. UpdateType'
    BY <1>1, <1>2, UpdateFields, UpdateConstants DEF UpdateType
<1>4. VersionsGrow'
    BY <1>1, <1>2, UpdateFields, UpdateConstants DEF VersionsGrow, GateOK, SessionOK, InstallerOK
<1>5. SessionOK'
    BY <1>1, <1>2, UpdateFields, UpdateConstants DEF SessionOK
<1>6. GateOK'
    BY <1>1, <1>2, UpdateFields, UpdateConstants DEF GateOK, SessionOK, VersionsGrow, InstallerOK
<1>7. InstallerOK'
    BY <1>1, <1>2, UpdateFields, UpdateConstants DEF InstallerOK, Ordinary, RebootPending, Postchecks, VersionsGrow, SessionOK, GateOK, OfferOK
<1>8. OfferOK'
    BY <1>1, <1>2, UpdateFields, UpdateConstants DEF OfferOK, Ordinary, RebootPending, Postchecks, VersionsGrow, SessionOK, GateOK, InstallerOK, PendingOK, NoCheck, Unchecked, Checks
<1>9. PendingOK'
    BY <1>1, <1>2, UpdateFields, UpdateConstants DEF PendingOK, RebootPending, NoCheck, Unchecked, Checks, VersionsGrow, SessionOK, GateOK, InstallerOK, OfferOK, Ordinary
<1>10. ReadyIsStaged'
    BY <1>1, <1>2, UpdateFields, UpdateConstants DEF ReadyIsStaged, GateOK
<1> QED
    BY <1>3, <1>4, <1>5, <1>6, <1>7, <1>8, <1>9, <1>10 DEF UpdateInv

\* An installation is refused, or cannot be recorded.
LEMMA NotInstalledKeeps ==
    ASSUME UpdateInv, Begins("install"), package' = 0, result' = "none", UNCHANGED <<upGate, panel, late>>, Idle,
           record' \in UpdateRecords, ghost' \in Ghosts, ghost'.reoffered = ghost.reoffered,
           ghost'.overtaken <=> ghost.overtaken \/ Overtaking, record'.version = record.version,
           ghost.unrecorded => ghost'.unrecorded,
           \/ record' = record /\ ghost'.unrecorded
           \/ record'.phase = "FAILED" /\ record'.error = "other"
           \/ /\ record'.phase = "FAILED" /\ record'.error = "install"
              /\ record.phase = "READY_TO_INSTALL" => package # record.version
    PROVE  UpdateInv'
<1> USE DEF UpdateInv
<1>1. running # 0 /\ upGate = "free" /\ queued' = queued \ {"install"} /\ "install" \in queued /\ package' = 0 /\ result' = "none" /\ UNCHANGED <<upGate, panel, late>> /\ UNCHANGED <<running, exiting, installed, atReboot, installer>>
    BY DEF Begins, Idle
<1>2. /\ record' \in UpdateRecords /\ ghost' \in Ghosts /\ ghost'.reoffered = ghost.reoffered
      /\ ghost'.overtaken <=> ghost.overtaken \/ Overtaking
      /\ record'.version = record.version
      /\ \/ record' = record /\ ghost'.unrecorded
         \/ record'.phase = "FAILED" /\ record'.error = "other"
         \/ /\ record'.phase = "FAILED" /\ record'.error = "install"
            /\ record.phase = "READY_TO_INSTALL" => package # record.version
      /\ ghost.unrecorded => ghost'.unrecorded
    OBVIOUS
<1>4. UpdateType'
    BY <1>1, <1>2, UpdateFields, UpdateConstants DEF UpdateType, Overtaking
<1>5. VersionsGrow'
    BY <1>1, <1>2, UpdateFields, UpdateConstants DEF VersionsGrow, GateOK, SessionOK, InstallerOK, Overtaking
<1>6. SessionOK'
    BY <1>1, <1>2, UpdateFields, UpdateConstants DEF SessionOK, Overtaking
<1>7. GateOK'
    BY <1>1, <1>2, UpdateFields, UpdateConstants DEF GateOK, SessionOK, VersionsGrow, InstallerOK, Overtaking
<1>8. InstallerOK'
    BY <1>1, <1>2, UpdateFields, UpdateConstants DEF InstallerOK, Ordinary, RebootPending, Postchecks, VersionsGrow, SessionOK, GateOK, OfferOK, Overtaking
<1>9. OfferOK'
    BY <1>1, <1>2, UpdateFields, UpdateConstants DEF OfferOK, Ordinary, RebootPending, Postchecks, VersionsGrow, SessionOK, GateOK, InstallerOK, PendingOK, NoCheck, Unchecked, Checks, Overtaking
<1>10. PendingOK'
    BY <1>1, <1>2, UpdateFields, UpdateConstants DEF PendingOK, RebootPending, NoCheck, Unchecked, Checks, VersionsGrow, SessionOK, GateOK, InstallerOK, OfferOK, Ordinary, Overtaking
<1>11. ReadyIsStaged'
    BY <1>1, <1>2, UpdateFields, UpdateConstants DEF ReadyIsStaged, GateOK, Overtaking
<1> QED
    BY <1>4, <1>5, <1>6, <1>7, <1>8, <1>9, <1>10, <1>11 DEF UpdateInv

\* An installation is refused.
LEMMA RefuseInstallKeeps == UpdateInv /\ RefuseInstall => UpdateInv'
<1> SUFFICES ASSUME UpdateInv, RefuseInstall PROVE UpdateInv'
    OBVIOUS
<1>1. Begins("install") /\ package' = 0 /\ result' = "none" /\ UNCHANGED <<upGate, panel, late>> /\ Idle
    BY DEF RefuseInstall
<1>2. Failed("install") \in UpdateRecords /\ Overtakes \in Ghosts /\ Stores(Failed("install"), Overtakes) /\ UpdateType
    BY OvertakesFields, UpdateFields DEF RefuseInstall, UpdateInv
<1>3. record.phase = "READY_TO_INSTALL" => package # record.version
    BY DEF RefuseInstall, Installable
<1>4. /\ record' \in UpdateRecords /\ ghost' \in Ghosts /\ ghost'.reoffered = ghost.reoffered
      /\ ghost'.overtaken <=> ghost.overtaken \/ Overtaking
      /\ record'.version = record.version
      /\ ghost.unrecorded => ghost'.unrecorded
      /\ \/ record' = record /\ ghost'.unrecorded
         \/ record'.phase = "FAILED" /\ record'.error = "install"
    BY <1>2, StoresFields, OvertakesFields, UpdateFields DEF UpdateType
<1> QED
    BY <1>1, <1>3, <1>4, NotInstalledKeeps

\* An installation begins.
LEMMA InstallBegunKeeps ==
    ASSUME UpdateInv, Begins("install"), Installable, installer = NoInstaller, result' = "none",
           record' = Recorded("INSTALLING"), late' = FALSE, upGate' = "install",
           ghost' = [ghost EXCEPT !.overtaken = atReboot # 0, !.reoffered = @ \/ record.version <= running],
           UNCHANGED <<package, panel>>, Idle
    PROVE  UpdateInv'
<1> USE DEF UpdateInv
<1>1. running # 0 /\ upGate = "free" /\ queued' = queued \ {"install"} /\ "install" \in queued /\ result' = "none" /\ late' = FALSE /\ upGate' = "install"
      /\ installer = NoInstaller /\ record.phase = "READY_TO_INSTALL" /\ package = record.version
      /\ UNCHANGED <<package, panel>> /\ UNCHANGED <<running, exiting, installed, atReboot, installer>>
    BY DEF Begins, Idle, Installable
<1>2. record' \in UpdateRecords /\ record'.phase = "INSTALLING" /\ record'.version = record.version
    BY UpdateFields DEF UpdatePhases
<1>3. /\ ghost' \in Ghosts /\ ghost'.unrecorded = ghost.unrecorded
      /\ ghost'.overtaken <=> atReboot # 0
      /\ ghost'.reoffered <=> ghost.reoffered \/ record.version <= running
    BY DEF Ghosts, UpdateType
<1>4. UpdateType'
    BY <1>1, <1>2, <1>3, UpdateFields, UpdateConstants DEF UpdateType
<1>5. VersionsGrow'
    BY <1>1, <1>2, <1>3, UpdateFields, UpdateConstants DEF VersionsGrow, GateOK, SessionOK, InstallerOK
<1>6. SessionOK'
    BY <1>1, <1>2, <1>3, UpdateFields, UpdateConstants DEF SessionOK
<1>7. GateOK'
    BY <1>1, <1>2, <1>3, UpdateFields, UpdateConstants DEF GateOK, SessionOK, VersionsGrow, InstallerOK
<1>8. InstallerOK'
    BY <1>1, <1>2, <1>3, UpdateFields, UpdateConstants DEF InstallerOK, Ordinary, RebootPending, Postchecks, VersionsGrow, SessionOK, GateOK, OfferOK
<1>9. OfferOK'
    BY <1>1, <1>2, <1>3, UpdateFields, UpdateConstants DEF OfferOK, Ordinary, RebootPending, Postchecks, VersionsGrow, SessionOK, GateOK, InstallerOK, PendingOK, NoCheck, Unchecked, Checks
<1>10. PendingOK'
    BY <1>1, <1>2, <1>3, UpdateFields, UpdateConstants DEF PendingOK, RebootPending, NoCheck, Unchecked, Checks, VersionsGrow, SessionOK, GateOK, InstallerOK, OfferOK, Ordinary
<1>11. ReadyIsStaged'
    BY <1>1, <1>2, <1>3, UpdateFields, UpdateConstants DEF ReadyIsStaged, GateOK
<1> QED
    BY <1>4, <1>5, <1>6, <1>7, <1>8, <1>9, <1>10, <1>11 DEF UpdateInv

\* An installation begins, or cannot be recorded.
LEMMA BeginInstallKeeps == UpdateInv /\ BeginInstall => UpdateInv'
<1> SUFFICES ASSUME UpdateInv, BeginInstall PROVE UpdateInv'
    OBVIOUS
<1>1. Begins("install") /\ Installable /\ installer = NoInstaller /\ result' = "none" /\ UNCHANGED panel /\ Idle
    BY DEF BeginInstall
<1>2. CASE /\ record' = Recorded("INSTALLING") /\ late' = FALSE /\ upGate' = "install"
           /\ ghost' = [ghost EXCEPT !.overtaken = atReboot # 0, !.reoffered = @ \/ record.version <= running]
           /\ UNCHANGED package
    BY <1>1, <1>2, InstallBegunKeeps
<1>3. CASE /\ package' = 0 /\ UNCHANGED <<late, upGate>>
           /\ \/ record' = Failed("other") /\ ghost' = Overtakes
              \/ UNCHANGED record /\ ghost' = [Overtakes EXCEPT !.unrecorded = TRUE]
  <2>1. UpdateType
    BY DEF UpdateInv
  <2>2. /\ record' \in UpdateRecords /\ record'.version = record.version
        /\ record' = record \/ (record'.phase = "FAILED" /\ record'.error = "other")
    BY <1>3, <2>1, UpdateFields DEF UpdateType
  <2>3. /\ ghost' \in Ghosts /\ ghost'.reoffered = ghost.reoffered
        /\ ghost'.overtaken <=> ghost.overtaken \/ Overtaking
        /\ ghost.unrecorded => ghost'.unrecorded
        /\ record' = record => ghost'.unrecorded \/ record = Failed("other")
    BY <1>3, <2>1, OvertakesFields DEF Ghosts
  <2>4. (record' = record /\ ghost'.unrecorded) \/ (record'.phase = "FAILED" /\ record'.error = "other")
    BY <1>3, <2>1, <2>2, <2>3, UpdateFields
  <2> QED
    BY <1>1, <1>3, <2>2, <2>3, <2>4, NotInstalledKeeps
<1> QED
    BY <1>2, <1>3 DEF BeginInstall

\* The installer is launched.
LEMMA LaunchKeeps == UpdateInv /\ Launch => UpdateInv'
<1> SUFFICES ASSUME UpdateInv, Launch PROVE UpdateInv'
    OBVIOUS
<1> USE DEF UpdateInv
<1>1. upGate = "install" /\ upGate' = "free" /\ UNCHANGED <<record, package, result, queued, panel, running, installed, atReboot, late, ghost>>
    BY DEF Launch
<1>2. installer' \in Installers /\ installer'.step = "waiting" /\ installer'.version = package /\ installer'.parent
    BY DEF Launch, Installers, UpdateType
<1>3. UpdateType'
    BY <1>1, <1>2, UpdateFields, UpdateConstants DEF UpdateType
<1>4. VersionsGrow'
    BY <1>1, <1>2, UpdateFields, UpdateConstants DEF VersionsGrow, GateOK, SessionOK, InstallerOK
<1>5. SessionOK'
    BY <1>1, <1>2, UpdateFields, UpdateConstants DEF SessionOK
<1>6. GateOK'
    BY <1>1, <1>2, UpdateFields, UpdateConstants DEF GateOK, SessionOK, VersionsGrow, InstallerOK
<1>7. InstallerOK'
    BY <1>1, <1>2, UpdateFields, UpdateConstants DEF InstallerOK, Ordinary, RebootPending, Postchecks, VersionsGrow, SessionOK, GateOK, OfferOK
<1>8. OfferOK'
    BY <1>1, <1>2, UpdateFields, UpdateConstants DEF OfferOK, Ordinary, RebootPending, Postchecks, VersionsGrow, SessionOK, GateOK, InstallerOK, PendingOK, NoCheck, Unchecked, Checks
<1>9. PendingOK'
    BY <1>1, <1>2, UpdateFields, UpdateConstants DEF PendingOK, RebootPending, NoCheck, Unchecked, Checks, VersionsGrow, SessionOK, GateOK, InstallerOK, OfferOK, Ordinary
<1>10. ReadyIsStaged'
    BY <1>1, <1>2, UpdateFields, UpdateConstants DEF ReadyIsStaged, GateOK
<1> QED
    BY <1>3, <1>4, <1>5, <1>6, <1>7, <1>8, <1>9, <1>10 DEF UpdateInv

\* The installer cannot be launched.
LEMMA FailLaunchKeeps == UpdateInv /\ FailLaunch => UpdateInv'
<1> SUFFICES ASSUME UpdateInv, FailLaunch PROVE UpdateInv'
    OBVIOUS
<1> USE DEF UpdateInv
<1>1. upGate = "install" /\ upGate' = "free" /\ package' = 0 /\ UNCHANGED <<result, queued, panel, late>> /\ UNCHANGED <<running, exiting, installed, atReboot, installer>>
    BY DEF FailLaunch, Idle
<1>2. /\ record' \in UpdateRecords /\ ghost' \in Ghosts /\ ghost'.reoffered = ghost.reoffered
      /\ ghost'.overtaken <=> ghost.overtaken
      /\ record'.version = record.version
      /\ \/ record' = record /\ ghost'.unrecorded
         \/ record'.phase = "FAILED" /\ record'.error \in {"install", "other"}
      /\ ghost.unrecorded => ghost'.unrecorded
  <2>1. Failed("install") \in UpdateRecords /\ ghost \in Ghosts /\ StoresOrFails(Failed("install"), ghost)
    BY OvertakesFields, UpdateFields DEF FailLaunch, UpdateType
  <2> QED
    BY <2>1, StoresOrFailsFields, OvertakesFields, UpdateFields DEF UpdateType
<1>3. UpdateType'
    BY <1>1, <1>2, UpdateFields, UpdateConstants DEF UpdateType
<1>4. VersionsGrow'
    BY <1>1, <1>2, UpdateFields, UpdateConstants DEF VersionsGrow, GateOK, SessionOK, InstallerOK
<1>5. SessionOK'
    BY <1>1, <1>2, UpdateFields, UpdateConstants DEF SessionOK
<1>6. GateOK'
    BY <1>1, <1>2, UpdateFields, UpdateConstants DEF GateOK, SessionOK, VersionsGrow, InstallerOK
<1>7. InstallerOK'
    BY <1>1, <1>2, UpdateFields, UpdateConstants DEF InstallerOK, Ordinary, RebootPending, Postchecks, VersionsGrow, SessionOK, GateOK, OfferOK
<1>8. OfferOK'
    BY <1>1, <1>2, UpdateFields, UpdateConstants DEF OfferOK, Ordinary, RebootPending, Postchecks, VersionsGrow, SessionOK, GateOK, InstallerOK, PendingOK, NoCheck, Unchecked, Checks
<1>9. PendingOK'
    BY <1>1, <1>2, UpdateFields, UpdateConstants DEF PendingOK, RebootPending, NoCheck, Unchecked, Checks, VersionsGrow, SessionOK, GateOK, InstallerOK, OfferOK, Ordinary
<1>10. ReadyIsStaged'
    BY <1>1, <1>2, UpdateFields, UpdateConstants DEF ReadyIsStaged, GateOK
<1> QED
    BY <1>3, <1>4, <1>5, <1>6, <1>7, <1>8, <1>9, <1>10 DEF UpdateInv

\* What a look at the record may find has become of it.
LEMMA ReconciledFields ==
    ASSUME UpdateType, NEW r \in Reconciled
    PROVE  /\ r.record \in UpdateRecords /\ r.record.version = record.version
           /\ \/ r.record = record /\ r.package = package /\ r.result = result
              \/ record.phase = "DOWNLOADING" /\ r.record.phase = "FAILED" /\ r.record.error = "other" /\ r.package = 0 /\ r.result = result
              \/ /\ record.phase \in Postchecks /\ (result = "failed" \/ late)
                 /\ r.record.phase = "FAILED" /\ r.record.error = "install" /\ r.package = 0 /\ r.result = "none"
              \/ /\ record.phase \in Postchecks /\ result \in {"none", "ok"} /\ record.version = running
                 /\ \/ r.record.phase = "SUCCEEDED" /\ r.package = 0 /\ r.result = "none"
                    \/ r.record.phase = "FAILED" /\ r.record.error = "other" /\ r.package = 0 /\ r.result = "none"
                    \/ r.record.phase = "POSTCHECK" /\ r.package = package /\ r.result = result
<1>1. \A rec, staged, exit : /\ As(rec, staged, exit).record = rec /\ As(rec, staged, exit).package = staged
                             /\ As(rec, staged, exit).result = exit
    BY DEF As
<1>2. /\ "SUCCEEDED" \in UpdatePhases /\ "POSTCHECK" \in UpdatePhases
    BY DEF UpdatePhases
<1>3. record \in UpdateRecords /\ result \in {"none", "ok", "failed", "unreadable"}
    BY DEF UpdateType
<1>4. CASE record.phase = "DOWNLOADING"
    BY <1>1, <1>3, <1>4, UpdateFields DEF Reconciled
<1>5. CASE record.phase \notin {"DOWNLOADING"} \cup Postchecks
    BY <1>1, <1>3, <1>5 DEF Reconciled, Untouched
<1>6. ASSUME record.phase \in Postchecks, record.phase # "DOWNLOADING", result = "failed"
      PROVE  /\ r.record \in UpdateRecords /\ r.record.version = record.version
             /\ r.record.phase = "FAILED" /\ r.record.error = "install" /\ r.package = 0 /\ r.result = "none"
  <2>1. r = Settled(Failed("install"))
    BY <1>6 DEF Reconciled
  <2> QED
    BY <1>1, <2>1, UpdateFields DEF Settled
<1>7. CASE record.phase \in Postchecks /\ record.phase # "DOWNLOADING" /\ result # "failed" /\ record.version # running
  <2>1. r = IF late THEN Settled(Failed("install")) ELSE Untouched
    BY <1>7 DEF Reconciled
  <2> QED
    BY <1>1, <1>3, <1>7, <2>1, UpdateFields DEF Settled, Untouched
<1>8. CASE record.phase \in Postchecks /\ record.phase # "DOWNLOADING" /\ result # "failed" /\ record.version = running
  <2>1. r \in {Settled(Recorded("SUCCEEDED")), Settled(Failed("other")), As(Recorded("POSTCHECK"), package, result)}
    BY <1>8 DEF Reconciled
  <2>2. result \in {"none", "ok"}
    BY <1>3, <1>8 DEF Reconciled
  <2> QED
    BY <1>1, <1>2, <1>8, <2>1, <2>2, UpdateFields DEF Settled
<1> QED
    BY <1>4, <1>5, <1>6, <1>7, <1>8 DEF Postchecks

\* What a look at the record may make of it, the package and the result.
Settles ==
    /\ record' \in UpdateRecords /\ record'.version = record.version
    /\ \/ record' = record /\ package' = package /\ result' = result
       \/ record.phase = "POSTCHECK" /\ record'.phase = "FAILED" /\ record'.error = "other" /\ package' = package /\ result' = result
       \/ record.phase = "DOWNLOADING" /\ record'.phase = "FAILED" /\ record'.error = "other" /\ package' \in {0, package} /\ result' = result
       \/ /\ record.phase \in Postchecks /\ (result = "failed" \/ late)
          /\ record'.phase = "FAILED" /\ record'.error = "install" /\ package' = 0 /\ result' = "none"
       \/ /\ record.phase \in Postchecks /\ result \in {"none", "ok"} /\ record.version = running
          /\ \/ record'.phase = "SUCCEEDED" /\ package' = 0 /\ result' = "none"
             \/ record'.phase = "FAILED" /\ record'.error = "other" /\ package' \in {0, package} /\ result' \in {"none", result}
             \/ record'.phase = "POSTCHECK" /\ package' = package /\ result' = result

\* They become what was found, or the last look gives a postcheck up.
LEMMA BecomesSettles ==
    ASSUME UpdateInv, NEW r \in Reconciled, package' = r.package, result' = r.result,
           \/ record' = r.record
           \/ r.record.phase = "POSTCHECK" /\ record' = Failed("other")
    PROVE  Settles
BY ReconciledFields, UpdateFields DEF Settles, Postchecks, UpdateInv

\* A step of that fails.
LEMMA FailReconcilingSettles ==
    ASSUME UpdateInv, FailReconciling
    PROVE  Settles /\ ghost' \in {ghost, [ghost EXCEPT !.unrecorded = TRUE]}
<1>1. UpdateType
    BY DEF UpdateInv
<1>2. record \in UpdateRecords
    BY <1>1 DEF UpdateType
<1> QED
    BY <1>1, <1>2, UpdateFields DEF Settles, FailReconciling

\* Whoever looks at the record, field by field.
LEMMA SettlingKeeps ==
    ASSUME UpdateInv, Settles, upGate = "free", running # 0,
           panel' = panel \/ panel' = record' \/ panel' = Unseen, UNCHANGED <<upGate, queued, late>>,
           UNCHANGED <<running, exiting, installed, atReboot, installer>>,
           ghost' \in Ghosts, ghost'.overtaken = ghost.overtaken, ghost'.reoffered = ghost.reoffered,
           ghost.unrecorded => ghost'.unrecorded
    PROVE  UpdateInv'
<1> USE DEF UpdateInv
<1>1. upGate = "free" /\ running # 0 /\ (panel' = panel \/ panel' = record' \/ panel' = Unseen) /\ UNCHANGED <<upGate, queued, late>>
      /\ UNCHANGED <<running, exiting, installed, atReboot, installer>>
    OBVIOUS
<1>2. /\ record' \in UpdateRecords /\ record'.version = record.version
      /\ \/ record' = record /\ package' = package /\ result' = result
         \/ record.phase = "POSTCHECK" /\ record'.phase = "FAILED" /\ record'.error = "other" /\ package' = package /\ result' = result
         \/ record.phase = "DOWNLOADING" /\ record'.phase = "FAILED" /\ record'.error = "other" /\ package' \in {0, package} /\ result' = result
         \/ /\ record.phase \in Postchecks /\ (result = "failed" \/ late)
            /\ record'.phase = "FAILED" /\ record'.error = "install" /\ package' = 0 /\ result' = "none"
         \/ /\ record.phase \in Postchecks /\ result \in {"none", "ok"} /\ record.version = running
            /\ \/ record'.phase = "SUCCEEDED" /\ package' = 0 /\ result' = "none"
               \/ record'.phase = "FAILED" /\ record'.error = "other" /\ package' \in {0, package} /\ result' \in {"none", result}
               \/ record'.phase = "POSTCHECK" /\ package' = package /\ result' = result
    BY DEF Settles
<1>3. UpdateType'
    BY <1>1, <1>2, UpdateFields, UpdateConstants DEF UpdateType
<1>4. VersionsGrow'
    BY <1>1, <1>2, UpdateFields, UpdateConstants DEF VersionsGrow, GateOK, SessionOK, InstallerOK
<1>5. SessionOK'
    BY <1>1, <1>2, UpdateFields, UpdateConstants DEF SessionOK
<1>6. GateOK'
    BY <1>1, <1>2, UpdateFields, UpdateConstants DEF GateOK, SessionOK, VersionsGrow, InstallerOK
<1>7. InstallerOK'
    BY <1>1, <1>2, UpdateFields, UpdateConstants DEF InstallerOK, Ordinary, RebootPending, Postchecks, VersionsGrow, SessionOK, GateOK, OfferOK
<1>8. OfferOK'
    BY <1>1, <1>2, UpdateFields, UpdateConstants DEF OfferOK, Ordinary, RebootPending, Postchecks, VersionsGrow, SessionOK, GateOK, InstallerOK, PendingOK, NoCheck, Unchecked, Checks
<1>9. PendingOK'
    BY <1>1, <1>2, UpdateFields, UpdateConstants DEF PendingOK, RebootPending, NoCheck, Unchecked, Checks, VersionsGrow, SessionOK, GateOK, InstallerOK, OfferOK, Ordinary
<1>10. ReadyIsStaged'
    BY <1>1, <1>2, UpdateFields, UpdateConstants DEF ReadyIsStaged, GateOK
<1> QED
    BY <1>3, <1>4, <1>5, <1>6, <1>7, <1>8, <1>9, <1>10 DEF UpdateInv

\* Whoever looks at the record.
LEMMA ReconcileKeeps ==
    ASSUME UpdateInv, Settles, upGate = "free", running # 0,
           panel' \in {panel, record', Unseen}, UNCHANGED <<upGate, queued, late>>, Idle,
           ghost' \in {ghost, [ghost EXCEPT !.unrecorded = TRUE]}
    PROVE  UpdateInv'
<1>1. UNCHANGED <<running, exiting, installed, atReboot, installer>>
    BY DEF Idle
<1>2. ghost \in Ghosts
    BY DEF UpdateInv, UpdateType
<1>3. /\ ghost' \in Ghosts /\ ghost'.overtaken = ghost.overtaken /\ ghost'.reoffered = ghost.reoffered
      /\ ghost.unrecorded => ghost'.unrecorded
    BY <1>2 DEF Ghosts
<1> QED
    BY <1>1, <1>3, SettlingKeeps

\* The panel reads the status.
LEMMA LookKeeps == UpdateInv /\ Look => UpdateInv'
<1> SUFFICES ASSUME UpdateInv, Look PROVE UpdateInv'
    OBVIOUS
<1> USE DEF UpdateInv
<1>1. running # 0 /\ UNCHANGED <<upGate, queued, late>> /\ UNCHANGED <<running, exiting, installed, atReboot, installer>>
    BY DEF Look, Idle
<1>2. \/ /\ UNCHANGED <<record, package, result>> /\ panel' \in {record, Unseen}
         /\ ghost' \in Ghosts /\ ghost'.overtaken = ghost.overtaken /\ ghost'.reoffered = ghost.reoffered
         /\ ghost.unrecorded => ghost'.unrecorded
      \/ UpdateInv'
  <2>1. CASE upGate # "free" /\ panel' = record /\ UNCHANGED <<record, package, result, ghost>>
    BY <2>1 DEF UpdateType
  <2>2. ASSUME upGate = "free", NEW r \in Reconciled, Becomes(r), panel' = r.record, UNCHANGED ghost PROVE UpdateInv'
    <3>1. panel' = record' /\ Idle /\ record' = r.record /\ package' = r.package /\ result' = r.result
        BY <2>2 DEF Becomes, Look
    <3>2. Settles
        BY <3>1, BecomesSettles
    <3> QED
        BY <1>1, <2>2, <3>1, <3>2, ReconcileKeeps
  <2>3. CASE panel' = Unseen /\ UNCHANGED <<record, package, result, ghost>>
    BY <2>3 DEF UpdateType
  <2>4. CASE upGate = "free" /\ panel' = Unseen /\ FailReconciling
    BY <1>1, <2>4, FailReconcilingSettles, ReconcileKeeps DEF Look
  <2> QED
    BY <2>1, <2>2, <2>3, <2>4 DEF Look
<1>3. UpdateType'
    BY <1>1, <1>2, UpdateFields, UpdateConstants DEF UpdateType
<1>4. VersionsGrow'
    BY <1>1, <1>2, UpdateFields, UpdateConstants DEF VersionsGrow, GateOK, SessionOK, InstallerOK
<1>5. SessionOK'
    BY <1>1, <1>2, UpdateFields, UpdateConstants DEF SessionOK
<1>6. GateOK'
    BY <1>1, <1>2, UpdateFields, UpdateConstants DEF GateOK, SessionOK, VersionsGrow, InstallerOK
<1>7. InstallerOK'
    BY <1>1, <1>2, UpdateFields, UpdateConstants DEF InstallerOK, Ordinary, RebootPending, Postchecks, VersionsGrow, SessionOK, GateOK, OfferOK
<1>8. OfferOK'
    BY <1>1, <1>2, UpdateFields, UpdateConstants DEF OfferOK, Ordinary, RebootPending, Postchecks, VersionsGrow, SessionOK, GateOK, InstallerOK, PendingOK, NoCheck, Unchecked, Checks
<1>9. PendingOK'
    BY <1>1, <1>2, UpdateFields, UpdateConstants DEF PendingOK, RebootPending, NoCheck, Unchecked, Checks, VersionsGrow, SessionOK, GateOK, InstallerOK, OfferOK, Ordinary
<1>10. ReadyIsStaged'
    BY <1>1, <1>2, UpdateFields, UpdateConstants DEF ReadyIsStaged, GateOK
<1> QED
    BY <1>3, <1>4, <1>5, <1>6, <1>7, <1>8, <1>9, <1>10 DEF UpdateInv

\* The postcheck is resumed after a start.
LEMMA ResumeKeeps == UpdateInv /\ Resume => UpdateInv'
<1> SUFFICES ASSUME UpdateInv, Resume PROVE UpdateInv'
    OBVIOUS
<1>1. running # 0 /\ upGate = "free" /\ UNCHANGED <<upGate, queued, panel, late>> /\ Idle
    BY DEF Resume
<1>2. ASSUME NEW r \in Reconciled, ghost' \in {ghost, [ghost EXCEPT !.unrecorded = TRUE]},
             \/ Becomes(IF resume = 1 /\ r.record.phase = "POSTCHECK" THEN [r EXCEPT !.record = Failed("other")] ELSE r)
             \/ Becomes(r)
      PROVE  UpdateInv'
  <2>1. \E rec, staged, exit : r = [record |-> rec, package |-> staged, result |-> exit]
    BY <1>2 DEF Reconciled, As, Settled, Untouched
  <2>2. /\ \/ record' = r.record
           \/ r.record.phase = "POSTCHECK" /\ record' = Failed("other")
        /\ package' = r.package /\ result' = r.result
    BY <1>2, <2>1 DEF Becomes
  <2>3. Settles
    BY <2>2, BecomesSettles
  <2> QED
    BY <1>1, <1>2, <2>3, ReconcileKeeps
<1>3. CASE UNCHANGED <<record, package, result, ghost>>
  <2>1. UNCHANGED <<record, package, result, upGate, queued, panel, late, ghost, running, installed, atReboot, installer>>
    BY <1>1, <1>3 DEF Idle
  <2> QED
    BY <2>1 DEF UpdateInv, UpdateType, VersionsGrow, SessionOK, GateOK, InstallerOK, Ordinary, RebootPending, Postchecks, OfferOK, PendingOK, NoCheck, Unchecked, Checks, ReadyIsStaged
<1>4. CASE FailReconciling
    BY <1>1, <1>4, FailReconcilingSettles, ReconcileKeeps
<1> QED
    BY <1>2, <1>3, <1>4 DEF Resume

\* Ten minutes pass.
LEMMA TenMinutesKeeps == UpdateInv /\ TenMinutes => UpdateInv'
<1> SUFFICES ASSUME UpdateInv, TenMinutes PROVE UpdateInv'
    OBVIOUS
<1> USE DEF UpdateInv
<1>1. late' = TRUE /\ UNCHANGED <<record, package, result, upGate, queued, panel, ghost>> /\ UNCHANGED <<running, exiting, installed, atReboot, installer>>
    BY DEF TenMinutes, Idle
<1>2. UpdateType'
    BY <1>1, UpdateFields, UpdateConstants DEF UpdateType
<1>3. VersionsGrow'
    BY <1>1, UpdateFields, UpdateConstants DEF VersionsGrow, GateOK, SessionOK, InstallerOK
<1>4. SessionOK'
    BY <1>1, UpdateFields, UpdateConstants DEF SessionOK
<1>5. GateOK'
    BY <1>1, UpdateFields, UpdateConstants DEF GateOK, SessionOK, VersionsGrow, InstallerOK
<1>6. InstallerOK'
    BY <1>1, UpdateFields, UpdateConstants DEF InstallerOK, Ordinary, RebootPending, Postchecks, VersionsGrow, SessionOK, GateOK, OfferOK
<1>7. OfferOK'
    BY <1>1, UpdateFields, UpdateConstants DEF OfferOK, Ordinary, RebootPending, Postchecks, VersionsGrow, SessionOK, GateOK, InstallerOK, PendingOK, NoCheck, Unchecked, Checks
<1>8. PendingOK'
    BY <1>1, UpdateFields, UpdateConstants DEF PendingOK, RebootPending, NoCheck, Unchecked, Checks, VersionsGrow, SessionOK, GateOK, InstallerOK, OfferOK, Ordinary
<1>9. ReadyIsStaged'
    BY <1>1, UpdateFields, UpdateConstants DEF ReadyIsStaged, GateOK
<1> QED
    BY <1>2, <1>3, <1>4, <1>5, <1>6, <1>7, <1>8, <1>9 DEF UpdateInv

\* The panel's command joins the queue.
LEMMA PressKeeps == UpdateInv /\ Press => UpdateInv'
<1> SUFFICES ASSUME UpdateInv, Press PROVE UpdateInv'
    OBVIOUS
<1> USE DEF UpdateInv
<1>1. UNCHANGED <<record, package, result, upGate, late, ghost>> /\ UNCHANGED <<running, exiting, installed, atReboot, installer>>
    BY DEF Press, Idle
<1>2. /\ panel' = Unseen /\ panel.phase # "UNSEEN" /\ queued' \subseteq Commands
      /\ "install" \in queued' => "install" \in queued \/ panel.phase = "READY_TO_INSTALL"
      /\ "check" \in queued' => "check" \in queued \/ Checks(panel)
  <2>1. queued' = queued \cup {Offered(panel)} /\ panel.phase \notin {"UNSEEN", "DOWNLOADING"} \cup Postchecks
    BY DEF Press
  <2>2. panel.phase \in UpdatePhases \cup {"UNSEEN"} /\ queued \subseteq Commands
    BY UpdateFields DEF UpdateType
  <2>3. CASE panel.phase = "AVAILABLE" \/ (panel.phase = "FAILED" /\ panel.version # 0)
    <3>1. Offered(panel) = "download"
        BY <2>3 DEF Offered
    <3> QED
        BY <2>1, <2>2, <3>1 DEF Press, Commands
  <2>4. CASE panel.phase = "READY_TO_INSTALL"
    <3>1. Offered(panel) = "install"
        BY <2>4 DEF Offered
    <3> QED
        BY <2>1, <2>2, <2>4, <3>1 DEF Press, Commands
  <2>5. CASE panel.phase \in {"IDLE", "UP_TO_DATE", "SUCCEEDED"} \/ (panel.phase = "FAILED" /\ panel.version = 0)
    <3>1. Offered(panel) = "check"
        BY <2>5 DEF Offered
    <3> QED
        BY <2>1, <2>2, <2>5, <3>1 DEF Press, Commands, Checks
  <2> QED
    BY <2>1, <2>2, <2>3, <2>4, <2>5 DEF UpdatePhases, Postchecks
<1>3. UpdateType'
    BY <1>1, <1>2, UpdateFields, UpdateConstants DEF UpdateType
<1>4. VersionsGrow'
    BY <1>1, <1>2, UpdateFields, UpdateConstants DEF VersionsGrow, GateOK, SessionOK, InstallerOK
<1>5. SessionOK'
    BY <1>1, <1>2, UpdateFields, UpdateConstants DEF SessionOK
<1>6. GateOK'
    BY <1>1, <1>2, UpdateFields, UpdateConstants DEF GateOK, SessionOK, VersionsGrow, InstallerOK
<1>7. InstallerOK'
    BY <1>1, <1>2, UpdateFields, UpdateConstants DEF InstallerOK, Ordinary, RebootPending, Postchecks, VersionsGrow, SessionOK, GateOK, OfferOK
<1>8. OfferOK'
    BY <1>1, <1>2, UpdateFields, UpdateConstants DEF OfferOK, Ordinary, RebootPending, Postchecks, VersionsGrow, SessionOK, GateOK, InstallerOK, PendingOK, NoCheck, Unchecked, Checks
<1>9. PendingOK'
    BY <1>1, <1>2, UpdateFields, UpdateConstants DEF PendingOK, RebootPending, NoCheck, Unchecked, Checks, VersionsGrow, SessionOK, GateOK, InstallerOK, OfferOK, Ordinary
<1>10. ReadyIsStaged'
    BY <1>1, <1>2, UpdateFields, UpdateConstants DEF ReadyIsStaged, GateOK
<1> QED
    BY <1>3, <1>4, <1>5, <1>6, <1>7, <1>8, <1>9, <1>10 DEF UpdateInv

\* The Desktop ends.
LEMMA EndDesktopKeeps == UpdateInv /\ EndDesktop => UpdateInv'
<1> SUFFICES ASSUME UpdateInv, EndDesktop PROVE UpdateInv'
    OBVIOUS
<1> USE DEF UpdateInv
<1>1. running' = 0 /\ upGate' = "free" /\ queued' = {} /\ panel' = Unseen /\ running # 0 /\ UNCHANGED <<record, package, result, installed, atReboot, late, ghost>>
    BY DEF EndDesktop, Gone
<1>2. installer' \in Installers /\ installer'.step = installer.step /\ installer'.version = installer.version /\ ~installer'.parent
    BY DEF EndDesktop, Installers, UpdateType
<1>3. UpdateType'
    BY <1>1, <1>2, UpdateFields, UpdateConstants DEF UpdateType
<1>4. VersionsGrow'
    BY <1>1, <1>2, UpdateFields, UpdateConstants DEF VersionsGrow, GateOK, SessionOK, InstallerOK
<1>5. SessionOK'
    BY <1>1, <1>2, UpdateFields, UpdateConstants DEF SessionOK
<1>6. GateOK'
    BY <1>1, <1>2, UpdateFields, UpdateConstants DEF GateOK, SessionOK, VersionsGrow, InstallerOK
<1>7. InstallerOK'
    BY <1>1, <1>2, UpdateFields, UpdateConstants DEF InstallerOK, Ordinary, RebootPending, Postchecks, VersionsGrow, SessionOK, GateOK, OfferOK
<1>8. OfferOK'
    BY <1>1, <1>2, UpdateFields, UpdateConstants DEF OfferOK, Ordinary, RebootPending, Postchecks, VersionsGrow, SessionOK, GateOK, InstallerOK, PendingOK, NoCheck, Unchecked, Checks
<1>9. PendingOK'
    BY <1>1, <1>2, UpdateFields, UpdateConstants DEF PendingOK, RebootPending, NoCheck, Unchecked, Checks, VersionsGrow, SessionOK, GateOK, InstallerOK, OfferOK, Ordinary
<1>10. ReadyIsStaged'
    BY <1>1, <1>2, UpdateFields, UpdateConstants DEF ReadyIsStaged, GateOK
<1> QED
    BY <1>3, <1>4, <1>5, <1>6, <1>7, <1>8, <1>9, <1>10 DEF UpdateInv

\* The Desktop is started.
LEMMA StartDesktopKeeps == UpdateInv /\ StartDesktop => UpdateInv'
<1> SUFFICES ASSUME UpdateInv, StartDesktop PROVE UpdateInv'
    OBVIOUS
<1> USE DEF UpdateInv
<1>1. /\ running = 0 /\ running' = installed
      /\ UNCHANGED <<record, package, result, upGate, queued, panel, installed, atReboot, installer, late, ghost>>
    BY DEF StartDesktop
<1>2. UpdateType'
    BY <1>1, UpdateFields, UpdateConstants DEF UpdateType
<1>3. VersionsGrow'
    BY <1>1, UpdateFields, UpdateConstants DEF VersionsGrow, GateOK, SessionOK, InstallerOK
<1>4. SessionOK'
    BY <1>1, UpdateFields, UpdateConstants DEF SessionOK
<1>5. GateOK'
    BY <1>1, UpdateFields, UpdateConstants DEF GateOK, SessionOK, VersionsGrow, InstallerOK
<1>6. InstallerOK'
    BY <1>1, UpdateFields, UpdateConstants DEF InstallerOK, Ordinary, RebootPending, Postchecks, VersionsGrow, SessionOK, GateOK, OfferOK
<1>7. OfferOK'
    BY <1>1, UpdateFields, UpdateConstants DEF OfferOK, Ordinary, RebootPending, Postchecks, VersionsGrow, SessionOK, GateOK, InstallerOK, PendingOK, NoCheck, Unchecked, Checks
<1>8. PendingOK'
    BY <1>1, UpdateFields, UpdateConstants DEF PendingOK, RebootPending, NoCheck, Unchecked, Checks, VersionsGrow, SessionOK, GateOK, InstallerOK, OfferOK, Ordinary
<1>9. ReadyIsStaged'
    BY <1>1, UpdateFields, UpdateConstants DEF ReadyIsStaged, GateOK
<1> QED
    BY <1>2, <1>3, <1>4, <1>5, <1>6, <1>7, <1>8, <1>9 DEF UpdateInv

\* The installer gives up waiting.
LEMMA GiveUpKeeps == UpdateInv /\ GiveUp => UpdateInv'
<1> SUFFICES ASSUME UpdateInv, GiveUp PROVE UpdateInv'
    OBVIOUS
<1> USE DEF UpdateInv
<1>1. installer.step = "waiting" /\ result' = "failed" /\ installer' = NoInstaller /\ UNCHANGED <<package, installed, atReboot>>
      /\ UNCHANGED <<record, upGate, queued, panel, running, late, ghost>>
    BY DEF GiveUp, Outside
<1>2. UpdateType'
    BY <1>1, UpdateFields, UpdateConstants DEF UpdateType
<1>3. VersionsGrow'
    BY <1>1, UpdateFields, UpdateConstants DEF VersionsGrow, GateOK, SessionOK, InstallerOK
<1>4. SessionOK'
    BY <1>1, UpdateFields, UpdateConstants DEF SessionOK
<1>5. GateOK'
    BY <1>1, UpdateFields, UpdateConstants DEF GateOK, SessionOK, VersionsGrow, InstallerOK
<1>6. InstallerOK'
    BY <1>1, UpdateFields, UpdateConstants DEF InstallerOK, Ordinary, RebootPending, Postchecks, VersionsGrow, SessionOK, GateOK, OfferOK
<1>7. OfferOK'
    BY <1>1, UpdateFields, UpdateConstants DEF OfferOK, Ordinary, RebootPending, Postchecks, VersionsGrow, SessionOK, GateOK, InstallerOK, PendingOK, NoCheck, Unchecked, Checks
<1>8. PendingOK'
    BY <1>1, UpdateFields, UpdateConstants DEF PendingOK, RebootPending, NoCheck, Unchecked, Checks, VersionsGrow, SessionOK, GateOK, InstallerOK, OfferOK, Ordinary
<1>9. ReadyIsStaged'
    BY <1>1, UpdateFields, UpdateConstants DEF ReadyIsStaged, GateOK
<1> QED
    BY <1>2, <1>3, <1>4, <1>5, <1>6, <1>7, <1>8, <1>9 DEF UpdateInv

\* The installer installs the package, or does not.
LEMMA InstallKeeps == UpdateInv /\ Install => UpdateInv'
<1> SUFFICES ASSUME UpdateInv, Install PROVE UpdateInv'
    OBVIOUS
<1> USE DEF UpdateInv
<1>1. installer.step = "waiting" /\ ~installer.parent /\ UNCHANGED <<package, result>> /\ UNCHANGED <<record, upGate, queued, panel, running, late, ghost>>
    BY DEF Install, Outside
<1>2. /\ installer' \in Installers /\ installer'.version = installer.version
      /\ \/ /\ package = installer.version /\ installed <= package /\ installer'.step = "ok"
            /\ IF running = 0 THEN installed' = package /\ atReboot' = 0 ELSE atReboot' = package /\ installed' = installed
         \/ installer'.step \in {"failed", "unreadable"} /\ UNCHANGED <<installed, atReboot>>
    BY UpdateFields DEF Install, Installers, UpdateType
<1>3. UpdateType'
    BY <1>1, <1>2, UpdateFields, UpdateConstants DEF UpdateType
<1>4. VersionsGrow'
    BY <1>1, <1>2, UpdateFields, UpdateConstants DEF VersionsGrow, GateOK, SessionOK, InstallerOK
<1>5. SessionOK'
    BY <1>1, <1>2, UpdateFields, UpdateConstants DEF SessionOK
<1>6. GateOK'
    BY <1>1, <1>2, UpdateFields, UpdateConstants DEF GateOK, SessionOK, VersionsGrow, InstallerOK
<1>7. InstallerOK'
    BY <1>1, <1>2, UpdateFields, UpdateConstants DEF InstallerOK, Ordinary, RebootPending, Postchecks, VersionsGrow, SessionOK, GateOK, OfferOK
<1>8. OfferOK'
    BY <1>1, <1>2, UpdateFields, UpdateConstants DEF OfferOK, Ordinary, RebootPending, Postchecks, VersionsGrow, SessionOK, GateOK, InstallerOK, PendingOK, NoCheck, Unchecked, Checks
<1>9. PendingOK'
    BY <1>1, <1>2, UpdateFields, UpdateConstants DEF PendingOK, RebootPending, NoCheck, Unchecked, Checks, VersionsGrow, SessionOK, GateOK, InstallerOK, OfferOK, Ordinary
<1>10. ReadyIsStaged'
    BY <1>1, <1>2, UpdateFields, UpdateConstants DEF ReadyIsStaged, GateOK
<1> QED
    BY <1>3, <1>4, <1>5, <1>6, <1>7, <1>8, <1>9, <1>10 DEF UpdateInv

\* The installer writes its exit code.
LEMMA WriteResultKeeps == UpdateInv /\ WriteResult => UpdateInv'
<1> SUFFICES ASSUME UpdateInv, WriteResult PROVE UpdateInv'
    OBVIOUS
<1> USE DEF UpdateInv
<1>1. installer.step \in {"ok", "failed", "unreadable"} /\ result' = installer.step /\ installer' = NoInstaller
      /\ UNCHANGED <<package, installed, atReboot>> /\ UNCHANGED <<record, upGate, queued, panel, running, late, ghost>>
    BY DEF WriteResult, Outside
<1>2. UpdateType'
    BY <1>1, UpdateFields, UpdateConstants DEF UpdateType
<1>3. VersionsGrow'
    BY <1>1, UpdateFields, UpdateConstants DEF VersionsGrow, GateOK, SessionOK, InstallerOK
<1>4. SessionOK'
    BY <1>1, UpdateFields, UpdateConstants DEF SessionOK
<1>5. GateOK'
    BY <1>1, UpdateFields, UpdateConstants DEF GateOK, SessionOK, VersionsGrow, InstallerOK
<1>6. InstallerOK'
    BY <1>1, UpdateFields, UpdateConstants DEF InstallerOK, Ordinary, RebootPending, Postchecks, VersionsGrow, SessionOK, GateOK, OfferOK
<1>7. OfferOK'
    BY <1>1, UpdateFields, UpdateConstants DEF OfferOK, Ordinary, RebootPending, Postchecks, VersionsGrow, SessionOK, GateOK, InstallerOK, PendingOK, NoCheck, Unchecked, Checks
<1>8. PendingOK'
    BY <1>1, UpdateFields, UpdateConstants DEF PendingOK, RebootPending, NoCheck, Unchecked, Checks, VersionsGrow, SessionOK, GateOK, InstallerOK, OfferOK, Ordinary
<1>9. ReadyIsStaged'
    BY <1>1, UpdateFields, UpdateConstants DEF ReadyIsStaged, GateOK
<1> QED
    BY <1>2, <1>3, <1>4, <1>5, <1>6, <1>7, <1>8, <1>9 DEF UpdateInv

\* The power is cut.
LEMMA PowerCutKeeps == UpdateInv /\ PowerCut => UpdateInv'
<1> SUFFICES ASSUME UpdateInv, PowerCut PROVE UpdateInv'
    OBVIOUS
<1> USE DEF UpdateInv
<1>1. running' = 0 /\ upGate' = "free" /\ queued' = {} /\ panel' = Unseen /\ installer' = NoInstaller /\ atReboot' = 0 /\ UNCHANGED <<record, package, late, ghost>>
    BY DEF PowerCut, Gone
<1>2. /\ result' \in {result, "unreadable"}
      /\ installed' = IF atReboot = 0 THEN installed ELSE atReboot
    BY DEF PowerCut
<1>3. UpdateType'
    BY <1>1, <1>2, UpdateFields, UpdateConstants DEF UpdateType
<1>4. VersionsGrow'
    BY <1>1, <1>2, UpdateFields, UpdateConstants DEF VersionsGrow, GateOK, SessionOK, InstallerOK
<1>5. SessionOK'
    BY <1>1, <1>2, UpdateFields, UpdateConstants DEF SessionOK
<1>6. GateOK'
    BY <1>1, <1>2, UpdateFields, UpdateConstants DEF GateOK, SessionOK, VersionsGrow, InstallerOK
<1>7. InstallerOK'
    BY <1>1, <1>2, UpdateFields, UpdateConstants DEF InstallerOK, Ordinary, RebootPending, Postchecks, VersionsGrow, SessionOK, GateOK, OfferOK
<1>8. OfferOK'
    BY <1>1, <1>2, UpdateFields, UpdateConstants DEF OfferOK, Ordinary, RebootPending, Postchecks, VersionsGrow, SessionOK, GateOK, InstallerOK, PendingOK, NoCheck, Unchecked, Checks
<1>9. PendingOK'
    BY <1>1, <1>2, UpdateFields, UpdateConstants DEF PendingOK, RebootPending, NoCheck, Unchecked, Checks, VersionsGrow, SessionOK, GateOK, InstallerOK, OfferOK, Ordinary
<1>10. ReadyIsStaged'
    BY <1>1, <1>2, UpdateFields, UpdateConstants DEF ReadyIsStaged, GateOK
<1> QED
    BY <1>3, <1>4, <1>5, <1>6, <1>7, <1>8, <1>9, <1>10 DEF UpdateInv

\* Every step keeps the inductive invariant.
LEMMA UpdateInvStep == UpdateInv /\ [UpdateNext]_updateVars => UpdateInv'
<1>1. ASSUME UpdateInv, UNCHANGED updateVars PROVE UpdateInv'
    BY <1>1 DEF updateVars, UpdateInv, UpdateType, VersionsGrow, SessionOK, GateOK, InstallerOK, Ordinary, RebootPending, Postchecks, OfferOK, PendingOK, NoCheck, Unchecked, Checks, ReadyIsStaged
<1> QED
    BY <1>1, CheckKeeps, RefuseDownloadKeeps, BeginDownloadKeeps, NamePackageKeeps, ReadyKeeps, FailDownloadKeeps, RefuseInstallKeeps, BeginInstallKeeps, LaunchKeeps, FailLaunchKeeps, LookKeeps, ResumeKeeps, TenMinutesKeeps, PressKeeps, EndDesktopKeeps, StartDesktopKeeps, GiveUpKeeps, InstallKeeps, WriteResultKeeps, PowerCutKeeps
    DEF UpdateNext

\* The inductive invariant implies the property.
LEMMA UpdateInvImplies == UpdateInv => UpdateTrue
<1> SUFFICES ASSUME UpdateInv PROVE UpdateTrue
    OBVIOUS
<1> USE DEF UpdateInv
<1>1. OffersNewer
    BY UpdateFields DEF OffersNewer, OfferOK, SessionOK
<1>2. ReadyIsStaged /\ InstallerHasPackage
    BY UpdateFields DEF InstallerHasPackage, InstallerOK, Ordinary
<1>3. SuccessIsInstalled
    BY UpdateFields DEF SuccessIsInstalled, OfferOK, InstallerOK
<1>4. FailureIsReal
    BY UpdateFields DEF FailureIsReal, OfferOK, Ordinary
<1> QED
    BY <1>1, <1>2, <1>3, <1>4 DEF UpdateTrue

\* For any number of releases, commands, attempts, crashes and reboots: what is
\* offered is newer and staged, the installer finds its package, SUCCEEDED means
\* installed, and an installation that FAILED is not, but for the cases named.
THEOREM UpdateIsTrue == UpdateSpec => []UpdateTrue
BY UpdateInitially, UpdateInvStep, UpdateInvImplies, PTL DEF UpdateSpec

(***************************************************************************)
(* The daemon that the Desktop keeps.                                      *)
(***************************************************************************)
ChildRecords == [proc : {"none", "booting", "serving", "exited"}, told : BOOLEAN,
                 task : {"none", "guarded", "reading", "done"}, events : Seq({"handshake", "error", "terminated"}),
                 deadline : {"none", "waiting", "done"}, by : {MainThread} \cup Children]
Guarded == {c \in Children : child[c].task = "guarded"}
Waiting == {c \in Children : child[c].deadline = "waiting"}

SupervisorType ==
    /\ status \in {"starting", "ready", "stopping", "stopped", "failed"}
    /\ session \in {NoChild} \cup Children /\ handle \in {NoChild} \cup Children
    /\ retried \in BOOLEAN /\ crossed \in BOOLEAN /\ launches \in Nat
    /\ starts \subseteq {MainThread} \cup Children
    /\ child \in [Children -> ChildRecords]
    /\ main \in {"starts", "run", "launch", "exits", "waits to launch", "waits to exit", "gone"}

\* The children were spawned one after the other, one that was told about is there, and
\* one whose end was reported has ended.
ChildrenTrue ==
    /\ \A c \in Children : c \in Spawned <=> c <= Newest
    /\ handle # NoChild => handle \in Spawned
    /\ \A c \in Children : /\ child[c].task # "none" => c \in Spawned
                           /\ \A i \in DOMAIN child[c].events : child[c].events[i] = "terminated" => child[c].proc = "exited"

\* Unless events met a later start, a start is alone with its child.
StartsApart ==
    /\ \A a, b \in starts : a = b
    /\ starts # {} => Alive = {} /\ Guarded = {}
    /\ starts # {} \/ Guarded # {} => handle = NoChild
    /\ Alive \cup Guarded \subseteq {Newest}
    /\ Alive \subseteq {handle} \cup Guarded
    /\ status = "starting" => starts # {} \/ Guarded # {} \/ (handle = Newest /\ handle # NoChild)
    /\ status = "ready" => handle # NoChild /\ session = handle

\* What was spawned or is about to be, and the restart that is left.
RestartLeft == IF retried THEN 0 ELSE 1
StartsBudget == Newest + Cardinality(starts) + RestartLeft <= 2 * (1 + launches)

\* A start that goes on, goes on somewhere.
StartGoesOn == main # "gone" /\ status = "starting" => starts # {} \/ Guarded # {} \/ Waiting # {}

SupervisorInv ==
    /\ SupervisorType /\ ChildrenTrue /\ (~crossed => StartsApart) /\ StartsBudget
    /\ HandleInUse /\ StartGoesOn /\ NoneLeftBehind

\* What a step that spawns no child makes of the children.
NoMore(children) ==
    /\ children \in [Children -> ChildRecords]
    /\ \A c \in Children :
          /\ children[c].proc = "none" <=> child[c].proc = "none"
          /\ children[c].proc \in {"booting", "serving"} => child[c].proc \in {"booting", "serving"}
          /\ children[c].task = "none" <=> child[c].task = "none"
          /\ children[c].task = "guarded" => child[c].task = "guarded"
          /\ child[c].told => children[c].told
          /\ \A i \in DOMAIN children[c].events :
                children[c].events[i] = "terminated" => children[c].proc = "exited"

\* A child, field by field.
LEMMA ChildFields ==
    ASSUME NEW x \in ChildRecords
    PROVE  /\ x.proc \in {"none", "booting", "serving", "exited"} /\ x.told \in BOOLEAN
           /\ x.task \in {"none", "guarded", "reading", "done"}
           /\ x.events \in Seq({"handshake", "error", "terminated"}) /\ x.deadline \in {"none", "waiting", "done"}
           /\ x.by \in {MainThread} \cup Children
BY DEF ChildRecords

\* The children as they are.
LEMMA NoMoreStays == SupervisorInv => NoMore(child)
BY DEF SupervisorInv, SupervisorType, ChildrenTrue, NoMore

\* The end of a child that is alive, and of none.
LEMMA NoMoreEnds ==
    ASSUME SupervisorInv, NEW x, NoMore(x), NEW c \in {NoChild} \cup Children
    PROVE  /\ NoMore(Ends(x, c))
           /\ \A d \in Children : /\ Ends(x, c)[d].task = x[d].task /\ Ends(x, c)[d].deadline = x[d].deadline
                                  /\ Ends(x, c)[d].told = x[d].told
           /\ c \in Children => Ends(x, c)[c].proc \notin {"booting", "serving"}
           /\ \A d \in Children : d # c => Ends(x, c)[d] = x[d]
<1>1. CASE c \notin Alive
  <2>1. Ends(x, c) = x
    BY <1>1 DEF Ends
  <2>2. c \in Children => x[c].proc \notin {"booting", "serving"}
    BY <1>1 DEF NoMore, Alive
  <2> QED
    BY <2>1, <2>2
<1>2. CASE c \in Alive
  <2>1. c \in Children /\ x[c] \in ChildRecords
    BY <1>2 DEF Alive, NoMore
  <2> DEFINE events == Append(x[c].events, "terminated")
             over == [x[c] EXCEPT !.proc = "exited", !.events = events]
  <2>0. events \in Seq({"handshake", "error", "terminated"})
    BY <2>1, ChildFields
  <2> HIDE DEF events
  <2>2. /\ over \in ChildRecords /\ over.proc = "exited" /\ over.task = x[c].task /\ over.deadline = x[c].deadline
        /\ over.told = x[c].told
    BY <2>0, <2>1, ChildFields DEF ChildRecords
  <2>3. Ends(x, c) = [x EXCEPT ![c] = over]
    BY <1>2, <2>1 DEF Ends, NoMore, events
  <2>4. child[c].proc # "none"
    BY <1>2 DEF Alive
  <2> HIDE DEF over
  <2>5. \A d \in Children : d # c => Ends(x, c)[d] = x[d]
    BY <2>3 DEF NoMore
  <2>6. Ends(x, c)[c] = over /\ Ends(x, c) \in [Children -> ChildRecords]
    BY <2>1, <2>2, <2>3 DEF NoMore
  <2>7. NoMore(Ends(x, c))
    BY <2>1, <2>2, <2>4, <2>5, <2>6 DEF NoMore
  <2> QED
    BY <2>1, <2>2, <2>5, <2>6, <2>7
<1> QED
    BY <1>1, <1>2

\* A child that is told to leave.
LEMMA NoMoreTells ==
    ASSUME NEW x, NoMore(x), NEW c \in {NoChild} \cup Children
    PROVE  /\ NoMore(Tells(x, c))
           /\ \A d \in Children : /\ Tells(x, c)[d].task = x[d].task /\ Tells(x, c)[d].deadline = x[d].deadline
                                  /\ Tells(x, c)[d].proc = x[d].proc
<1>1. CASE c = NoChild
    BY <1>1 DEF Tells
<1>2. CASE c \in Children /\ c # NoChild
  <2> DEFINE told == [x[c] EXCEPT !.told = TRUE]
  <2>1. /\ told \in ChildRecords /\ told.proc = x[c].proc /\ told.task = x[c].task
        /\ told.deadline = x[c].deadline /\ told.events = x[c].events /\ told.told
    <3>1. x[c] \in ChildRecords
      BY <1>2 DEF NoMore
    <3> QED
      BY <3>1, ChildFields DEF ChildRecords
  <2>2. Tells(x, c) = [x EXCEPT ![c] = told]
    BY <1>2 DEF Tells, NoMore
  <2> HIDE DEF told
  <2>3. \A d \in Children : Tells(x, c)[d] = IF d = c THEN told ELSE x[d]
    BY <2>2 DEF NoMore
  <2>4. Tells(x, c) \in [Children -> ChildRecords]
    BY <2>1, <2>2 DEF NoMore
  <2> QED
    BY <2>1, <2>3, <2>4 DEF NoMore
<1> QED
    BY <1>1, <1>2

\* The guard of a child is over: its task ends, or begins to read.
LEMMA NoMoreGuarded ==
    ASSUME SupervisorInv, NEW c \in Guarded
    PROVE  /\ NoMore(Attended(c)) /\ Attended(c)[c].deadline = "waiting" /\ Attended(c)[c].task = "reading"
           /\ \A d \in Children \ {c} : Attended(c)[d] = child[d]
<1> DEFINE attended == [child[c] EXCEPT !.task = "reading", !.deadline = "waiting"]
<1>1. child \in [Children -> ChildRecords] /\ c \in Children /\ child[c].task = "guarded" /\ NoMore(child)
    BY NoMoreStays DEF SupervisorInv, SupervisorType, Guarded
<1>2. /\ attended \in ChildRecords /\ attended.proc = child[c].proc /\ attended.told = child[c].told
      /\ attended.events = child[c].events /\ attended.task = "reading" /\ attended.deadline = "waiting"
    BY ZenonT(40), <1>1, ChildFields DEF ChildRecords
<1>3. Attended(c) = [child EXCEPT ![c] = attended]
    BY <1>1 DEF Attended
<1> HIDE DEF attended
<1>4. \A d \in Children : Attended(c)[d] = IF d = c THEN attended ELSE child[d]
    BY <1>1, <1>3
<1>5. Attended(c) \in [Children -> ChildRecords]
    BY <1>1, <1>2, <1>3
<1> QED
    BY <1>1, <1>2, <1>4, <1>5 DEF NoMore

\* The task of a child takes its next event, and goes on or ends.
LEMMA NoMoreReads ==
    ASSUME SupervisorInv, NEW c \in Children, NEW event, Takes(c, event)
    PROVE  /\ NoMore(Read(c)) /\ NoMore(Leave(c)) /\ c \in Spawned
           /\ \A d \in Children : /\ Read(c)[d].deadline = child[d].deadline /\ Leave(c)[d].deadline = child[d].deadline
                                  /\ Read(c)[d].proc = child[d].proc /\ Leave(c)[d].proc = child[d].proc
                                  /\ Read(c)[d].task = child[d].task
                                  /\ Leave(c)[d].task = IF d = c THEN "done" ELSE child[d].task
           /\ event = "terminated" => child[c].proc = "exited"
           /\ child[c].task = "reading"
<1> DEFINE rest == Tail(child[c].events)
           read == [child[c] EXCEPT !.events = rest]
           left == [child[c] EXCEPT !.events = rest, !.task = "done"]
<1>1. /\ child \in [Children -> ChildRecords] /\ NoMore(child) /\ child[c].task = "reading"
      /\ child[c].events # <<>> /\ Head(child[c].events) = event
    BY NoMoreStays DEF SupervisorInv, SupervisorType, Takes
<1>2. child[c].events \in Seq({"handshake", "error", "terminated"})
    BY <1>1, ChildFields
<1>3. /\ rest \in Seq({"handshake", "error", "terminated"}) /\ 1 \in DOMAIN child[c].events
      /\ child[c].events[1] = event
      /\ \A i \in DOMAIN rest : i + 1 \in DOMAIN child[c].events /\ rest[i] = child[c].events[i + 1]
    BY <1>1, <1>2
<1>4. \A i \in DOMAIN rest : rest[i] = "terminated" => child[c].proc = "exited"
    BY <1>1, <1>3 DEF NoMore
<1>5. event = "terminated" => child[c].proc = "exited"
    BY <1>1, <1>3 DEF NoMore
<1> HIDE DEF rest
<1>6. /\ read \in ChildRecords /\ read.proc = child[c].proc /\ read.told = child[c].told
      /\ read.events = rest /\ read.task = "reading" /\ read.deadline = child[c].deadline
      /\ left \in ChildRecords /\ left.proc = child[c].proc /\ left.told = child[c].told
      /\ left.events = rest /\ left.task = "done" /\ left.deadline = child[c].deadline
    BY ZenonT(40), <1>1, <1>3, ChildFields DEF ChildRecords
<1>7. Read(c) = [child EXCEPT ![c] = read] /\ Leave(c) = [child EXCEPT ![c] = left]
    BY <1>1 DEF Read, Leave, rest
<1> HIDE DEF read, left
<1>8. \A d \in Children : /\ Read(c)[d] = (IF d = c THEN read ELSE child[d])
                          /\ Leave(c)[d] = (IF d = c THEN left ELSE child[d])
    BY <1>1, <1>7
<1>9. Read(c) \in [Children -> ChildRecords] /\ Leave(c) \in [Children -> ChildRecords]
    BY <1>1, <1>6, <1>7
<1>10. NoMore(Read(c)) /\ NoMore(Leave(c))
    BY <1>1, <1>4, <1>6, <1>8, <1>9 DEF NoMore
<1>11. c \in Spawned
    BY <1>1 DEF SupervisorInv, ChildrenTrue
<1> QED
    BY <1>1, <1>5, <1>6, <1>8, <1>10, <1>11

\* How many children there are.
LEMMA NewestCounts ==
    ASSUME SupervisorInv
    PROVE  Newest \in Nat /\ IsFiniteSet(Spawned) /\ IsFiniteSet(starts) /\ Cardinality(starts) \in Nat
<1>1. IsFiniteSet(Children)
    BY FS_Interval, SupervisorBounds DEF Children
<1>2. IsFiniteSet(Spawned) /\ IsFiniteSet({MainThread} \cup Children)
    BY <1>1, FS_Subset, FS_AddElement, FS_Union, FS_Singleton DEF Spawned
<1>3. IsFiniteSet(starts)
    BY <1>2, FS_Subset DEF SupervisorInv, SupervisorType
<1> QED
    BY <1>2, <1>3, FS_CardinalityType DEF Newest

\* A step that spawns no child leaves what is known of them.
LEMMA NoMoreKeeps ==
    ASSUME SupervisorInv, NoMore(child'), handle' \in {NoChild} \cup Spawned
    PROVE  /\ ChildrenTrue' /\ Newest' = Newest /\ Spawned' = Spawned
           /\ Alive' \subseteq Alive /\ Guarded' \subseteq Guarded
           /\ \A c \in Children : child[c].told => child'[c].told
<1>1. Spawned' = Spawned
    BY DEF NoMore, Spawned
<1>2. Newest' = Newest
    BY <1>1 DEF Newest
<1>3. Alive' \subseteq Alive /\ Guarded' \subseteq Guarded
    BY DEF NoMore, Alive, Guarded
<1>4. ChildrenTrue'
    BY <1>1, <1>2 DEF SupervisorInv, ChildrenTrue, NoMore
<1> QED
    BY <1>1, <1>2, <1>3, <1>4 DEF NoMore

\* A step that spawns no child keeps the invariant if it keeps what it can disturb.
LEMMA CalmStepKeeps ==
    ASSUME SupervisorInv, NoMore(child'), handle' \in {NoChild} \cup Spawned, SupervisorType',
           ~crossed' => StartsApart', StartsBudget', HandleInUse', StartGoesOn',
           main' = "gone" => main = "gone" \/ \A c \in Children : child'[c].told
    PROVE  SupervisorInv'
<1>1. NoneLeftBehind'
    BY NoMoreKeeps DEF SupervisorInv, NoneLeftBehind, Alive
<1> QED
    BY <1>1, NoMoreKeeps DEF SupervisorInv

\* The budget, when a start is over or nothing begins.
LEMMA BudgetKept ==
    ASSUME SupervisorInv, NoMore(child'), handle' \in {NoChild} \cup Spawned, UNCHANGED <<retried, launches>>,
           starts' = starts \/ \E who \in starts : starts' = starts \ {who}
    PROVE  StartsBudget'
<1>1. Newest' = Newest
    BY NoMoreKeeps
<1>2. Newest \in Nat /\ Cardinality(starts) \in Nat /\ launches \in Nat
    BY NewestCounts DEF SupervisorInv, SupervisorType
<1>3. Cardinality(starts') \in Nat /\ Cardinality(starts') <= Cardinality(starts)
  <2>1. CASE starts' = starts
    BY <1>2, <2>1
  <2>2. ASSUME NEW who \in starts, starts' = starts \ {who} PROVE Cardinality(starts') \in Nat /\ Cardinality(starts') <= Cardinality(starts)
    <3>1. IsFiniteSet(starts)
        BY NewestCounts
    <3>2. Cardinality(starts \ {who}) = Cardinality(starts) - 1 /\ IsFiniteSet(starts \ {who})
        BY <3>1, FS_RemoveElement
    <3> QED
        BY <1>2, <2>2, <3>2, FS_CardinalityType
  <2> QED
    BY <2>1, <2>2
<1>4. StartsBudget
    BY DEF SupervisorInv
<1>5. RestartLeft' = RestartLeft /\ RestartLeft \in {0, 1}
    BY DEF RestartLeft
<1> QED
    BY <1>1, <1>2, <1>3, <1>4, <1>5 DEF StartsBudget

\* One start more.
LEMMA OneMoreStart ==
    ASSUME NEW S, IsFiniteSet(S), Cardinality(S) \in Nat, NEW x
    PROVE  Cardinality(S \cup {x}) \in Nat /\ Cardinality(S \cup {x}) <= Cardinality(S) + 1
<1>1. Cardinality(S \cup {x}) = IF x \in S THEN Cardinality(S) ELSE Cardinality(S) + 1
    BY FS_AddElement
<1>2. Cardinality(S \cup {x}) = Cardinality(S) \/ Cardinality(S \cup {x}) = Cardinality(S) + 1
    BY <1>1
<1> QED
    BY <1>2

\* An event that meets a later start is noticed.
LEMMA CrossesMeans ==
    ASSUME SupervisorInv, NEW c \in Children, Crosses(c)
    PROVE  crossed' \in BOOLEAN /\ (~crossed' => ~crossed /\ c = Newest /\ starts = {})
<1>1. crossed \in BOOLEAN
    BY DEF SupervisorInv, SupervisorType
<1> QED
    BY <1>1 DEF Crosses

\* fail_startup ends the child it controls.
LEMMA StartupFails ==
    ASSUME SupervisorInv, NEW x, NoMore(x), FailStartup(x)
    PROVE  /\ NoMore(child') /\ handle' \in {NoChild} \cup Spawned
           /\ \A d \in Children : child'[d].task = x[d].task /\ child'[d].deadline = x[d].deadline
           /\ \/ status \in {"stopping", "stopped"} /\ UNCHANGED <<status, handle>> /\ child' = x
              \/ /\ status' = "failed" /\ handle' = NoChild
                 /\ handle \in Children => child'[handle].proc \notin {"booting", "serving"}
<1>1. handle \in {NoChild} \cup Children /\ (handle # NoChild => handle \in Spawned)
    BY DEF SupervisorInv, SupervisorType, ChildrenTrue
<1>2. /\ NoMore(Ends(x, handle)) /\ (handle \in Children => Ends(x, handle)[handle].proc \notin {"booting", "serving"})
      /\ \A d \in Children : Ends(x, handle)[d].task = x[d].task /\ Ends(x, handle)[d].deadline = x[d].deadline
    BY <1>1, NoMoreEnds
<1> QED
    BY <1>1, <1>2 DEF FailStartup

\* The initial states satisfy the invariant.
LEMMA SupervisorInitially == SupervisorInit => SupervisorInv
<1> SUFFICES ASSUME SupervisorInit PROVE SupervisorInv
    OBVIOUS
<1>1. /\ Unborn \in ChildRecords /\ Unborn.proc = "none" /\ Unborn.task = "none" /\ Unborn.events = <<>>
    BY DEF Unborn, ChildRecords
<1>2. child \in [Children -> ChildRecords] /\ \A c \in Children : child[c] = Unborn
    BY <1>1 DEF SupervisorInit
<1>3. Spawned = {} /\ Alive = {} /\ Guarded = {} /\ Newest = 0
    BY <1>1, <1>2, FS_EmptySet DEF Spawned, Alive, Guarded, Newest
<1>4. SupervisorType
    BY <1>2 DEF SupervisorInit, SupervisorType
<1>5. ChildrenTrue
    BY <1>1, <1>2, <1>3, SupervisorBounds DEF SupervisorInit, ChildrenTrue, Children, NoChild
<1>6. StartsApart
    BY <1>3 DEF SupervisorInit, StartsApart, NoChild
<1>7. Cardinality(starts) \in {0, 1}
    BY FS_EmptySet, FS_Singleton DEF SupervisorInit
<1>8. StartsBudget
    BY <1>3, <1>7 DEF SupervisorInit, StartsBudget, RestartLeft
<1>9. HandleInUse /\ StartGoesOn /\ NoneLeftBehind
    BY <1>3 DEF SupervisorInit, HandleInUse, StartGoesOn, NoneLeftBehind
<1> QED
    BY <1>4, <1>5, <1>6, <1>8, <1>9 DEF SupervisorInv

\* A start fails before it has a child.
LEMMA StartFailsKeeps ==
    ASSUME SupervisorInv, NEW who \in {MainThread} \cup Children, StartFails(who)
    PROVE  SupervisorInv'
<1>1. SupervisorType /\ ChildrenTrue /\ HandleInUse /\ StartGoesOn
    BY DEF SupervisorInv
<1>2. /\ NoMore(child') /\ UNCHANGED <<session, retried, launches, crossed>> /\ who \in starts /\ starts' = starts \ {who}
      /\ \A d \in Children : child'[d].task = child[d].task /\ child'[d].deadline = child[d].deadline
      /\ main # "gone" /\ main' \in {main, "run"}
      /\ \/ status \in {"stopping", "stopped"} /\ UNCHANGED <<status, handle, child>>
         \/ /\ status' = "failed" /\ handle' = NoChild
            /\ handle \in Children => child'[handle].proc \notin {"booting", "serving"}
    BY NoMoreStays, StartupFails DEF StartFails, Running, StartOver
<1>3. handle' \in {NoChild} \cup Spawned /\ NoMore(child')
    BY <1>1, <1>2 DEF ChildrenTrue, Guarded
<1>4. /\ Newest' = Newest /\ Spawned' = Spawned /\ Alive' \subseteq Alive /\ Guarded' \subseteq Guarded
      /\ Newest \in Nat /\ NoChild \notin Alive
    BY <1>3, NoMoreKeeps, NewestCounts DEF Alive, Children, NoChild
<1>5. SupervisorType'
  <2>1. retried' \in BOOLEAN /\ crossed' \in BOOLEAN
    BY <1>1, <1>2 DEF SupervisorType
  <2>2. handle' \in {NoChild} \cup Children /\ child' \in [Children -> ChildRecords]
    BY <1>1, <1>3 DEF NoMore, Spawned
  <2>3. launches' \in Nat
    <3>1. launches \in Nat
      BY <1>1 DEF SupervisorType
    <3>2. launches' = launches \/ launches' = launches + 1
      BY <1>2
    <3> QED
      BY <3>1, <3>2
  <2>6. starts' \subseteq {MainThread} \cup Children
    BY <1>1, <1>2 DEF SupervisorType
  <2>4. status' \in {"starting", "ready", "stopping", "stopped", "failed"} /\ session' \in {NoChild} \cup Children
    BY <1>1, <1>2 DEF SupervisorType
  <2>5. main' \in {"starts", "run", "launch", "exits", "waits to launch", "waits to exit", "gone"}
    BY <1>1, <1>2 DEF SupervisorType
  <2> QED
    BY <2>1, <2>2, <2>3, <2>4, <2>5, <2>6 DEF SupervisorType
<1>6. Guarded' = Guarded /\ (handle' # handle => handle \notin Alive')
  <2>1. Guarded' = Guarded
    BY <1>1, <1>2, <1>4 DEF Alive, Guarded, Waiting
  <2>2. (handle' # handle => handle \notin Alive')
    BY <1>1, <1>2, <1>4 DEF Alive, Guarded, Waiting
  <2> QED
    BY <2>1, <2>2
<1>7. ASSUME ~crossed' PROVE StartsApart'
  <2>1. ~crossed /\ StartsApart
    BY <1>2, <1>7 DEF SupervisorInv
  <2> QED
    BY <1>2, <1>4, <1>6, <1>7, <2>1 DEF StartsApart
<1>8. StartsBudget'
    BY <1>2, <1>3, BudgetKept
<1>9. HandleInUse'
    BY <1>1, <1>2 DEF HandleInUse
<1>10. StartGoesOn'
    BY <1>1, <1>2, <1>6 DEF StartGoesOn
<1> QED
    BY <1>2, <1>3, <1>5, <1>7, <1>8, <1>9, <1>10, CalmStepKeeps

\* The bootstrap line cannot be written.
LEMMA BootstrapFailsKeeps ==
    ASSUME SupervisorInv, NEW c \in Children, BootstrapFails(c)
    PROVE  SupervisorInv'
<1>1. SupervisorType /\ ChildrenTrue /\ HandleInUse /\ StartGoesOn
    BY DEF SupervisorInv
<1>2. /\ NoMore(child') /\ UNCHANGED <<session, retried, launches, crossed, starts>> /\ c \in Guarded
      /\ \A d \in Children : child'[d].deadline = child[d].deadline
      /\ \A d \in Children \ {c} : child'[d].task = child[d].task
      /\ child'[c].task = "done" /\ child'[c].proc \notin {"booting", "serving"}
      /\ main # "gone" /\ main' \in {main, "run"}
      /\ \/ status \in {"stopping", "stopped"} /\ UNCHANGED <<status, handle>>
         \/ /\ status' = "failed" /\ handle' = NoChild
            /\ handle \in Children => child'[handle].proc \notin {"booting", "serving"}
  <2> DEFINE ended == Ends(child, c)
             done == [ended[c] EXCEPT !.task = "done"]
             x == [ended EXCEPT ![c].task = "done"]
  <2>1. /\ NoMore(ended) /\ ended[c].proc \notin {"booting", "serving"}
        /\ \A d \in Children : ended[d].task = child[d].task /\ ended[d].deadline = child[d].deadline
    BY NoMoreStays, NoMoreEnds
  <2>2. child[c].task = "guarded" /\ FailStartup(x)
    BY DEF BootstrapFails
  <2> HIDE DEF ended
  <2>3. /\ done \in ChildRecords /\ done.proc = ended[c].proc /\ done.told = ended[c].told
        /\ done.events = ended[c].events /\ done.task = "done" /\ done.deadline = ended[c].deadline
    BY <2>1, ChildFields DEF ChildRecords, NoMore
  <2>4. x = [ended EXCEPT ![c] = done]
    BY <2>1 DEF NoMore
  <2> HIDE DEF done, x
  <2>5. x \in [Children -> ChildRecords] /\ \A d \in Children : x[d] = IF d = c THEN done ELSE ended[d]
    BY <2>1, <2>3, <2>4 DEF NoMore
  <2>6. NoMore(x)
    BY <2>1, <2>2, <2>3, <2>5 DEF NoMore
  <2>7. /\ NoMore(child')
        /\ \A d \in Children : child'[d].task = x[d].task /\ child'[d].deadline = x[d].deadline
        /\ child'[c].proc \notin {"booting", "serving"}
        /\ \/ status \in {"stopping", "stopped"} /\ UNCHANGED <<status, handle>>
           \/ /\ status' = "failed" /\ handle' = NoChild
              /\ handle \in Children => child'[handle].proc \notin {"booting", "serving"}
    <3>1. Ends(x, handle)[c].proc \notin {"booting", "serving"}
      <4>1. x[c].proc \notin {"booting", "serving"}
        BY <2>1, <2>3, <2>5
      <4>2. handle \in {NoChild} \cup Children
        BY <1>1 DEF SupervisorType
      <4> QED
        BY <2>6, <4>1, <4>2, NoMoreEnds
    <3> QED
        BY <2>1, <2>2, <2>3, <2>5, <2>6, <3>1, StartupFails DEF FailStartup
  <2> QED
    BY <2>1, <2>2, <2>3, <2>5, <2>7 DEF BootstrapFails, Running, StartOver, Guarded
<1>3. handle' \in {NoChild} \cup Spawned /\ NoMore(child')
    BY <1>1, <1>2 DEF ChildrenTrue, Guarded
<1>4. /\ Newest' = Newest /\ Spawned' = Spawned /\ Alive' \subseteq Alive /\ Guarded' \subseteq Guarded
      /\ Newest \in Nat /\ NoChild \notin Alive
    BY <1>3, NoMoreKeeps, NewestCounts DEF Alive, Children, NoChild
<1>5. SupervisorType'
  <2>1. retried' \in BOOLEAN /\ crossed' \in BOOLEAN
    BY <1>1, <1>2 DEF SupervisorType
  <2>2. handle' \in {NoChild} \cup Children /\ child' \in [Children -> ChildRecords]
    BY <1>1, <1>3 DEF NoMore, Spawned
  <2>3. launches' \in Nat
    <3>1. launches \in Nat
      BY <1>1 DEF SupervisorType
    <3>2. launches' = launches \/ launches' = launches + 1
      BY <1>2
    <3> QED
      BY <3>1, <3>2
  <2>6. starts' \subseteq {MainThread} \cup Children
    BY <1>1, <1>2 DEF SupervisorType
  <2>4. status' \in {"starting", "ready", "stopping", "stopped", "failed"} /\ session' \in {NoChild} \cup Children
    BY <1>1, <1>2 DEF SupervisorType
  <2>5. main' \in {"starts", "run", "launch", "exits", "waits to launch", "waits to exit", "gone"}
    BY <1>1, <1>2 DEF SupervisorType
  <2> QED
    BY <2>1, <2>2, <2>3, <2>4, <2>5, <2>6 DEF SupervisorType
<1>6. Guarded' = Guarded \ {c} /\ c \notin Alive' /\ (handle' # handle => handle \notin Alive')
  <2>1. Guarded' = Guarded \ {c}
    BY <1>1, <1>2, <1>4 DEF Alive, Guarded, Waiting
  <2>2. c \notin Alive'
    BY <1>1, <1>2, <1>4 DEF Alive, Guarded, Waiting
  <2>3. (handle' # handle => handle \notin Alive')
    BY <1>1, <1>2, <1>4 DEF Alive, Guarded, Waiting
  <2> QED
    BY <2>1, <2>2, <2>3
<1>7. ASSUME ~crossed' PROVE StartsApart'
  <2>1. ~crossed /\ StartsApart
    BY <1>2, <1>7 DEF SupervisorInv
  <2> QED
    BY <1>2, <1>4, <1>6, <1>7, <2>1 DEF StartsApart
<1>8. StartsBudget'
    BY <1>2, <1>3, BudgetKept
<1>9. HandleInUse'
    BY <1>1, <1>2 DEF HandleInUse
<1>10. StartGoesOn'
    BY <1>1, <1>2, <1>6 DEF StartGoesOn
<1> QED
    BY <1>2, <1>3, <1>5, <1>7, <1>8, <1>9, <1>10, CalmStepKeeps

\* A child is set, or killed when it comes too late.
LEMMA SetChildKeeps ==
    ASSUME SupervisorInv, NEW c \in Children, SetChild(c)
    PROVE  SupervisorInv'
<1>1. SupervisorType /\ ChildrenTrue /\ HandleInUse /\ StartGoesOn
    BY DEF SupervisorInv
<1>2. /\ NoMore(child') /\ UNCHANGED <<status, session, retried, launches, crossed, starts>> /\ c \in Guarded
      /\ \A d \in Children \ {c} : child'[d].task = child[d].task /\ child'[d].deadline = child[d].deadline
      /\ child'[c].task = "reading" /\ child'[c].deadline = "waiting"
      /\ main # "gone" /\ main' \in {main, "run"}
      /\ \/ status = "starting" /\ handle = NoChild /\ handle' = c
         \/ /\ ~(status = "starting" /\ handle = NoChild) /\ UNCHANGED handle
            /\ child'[c].proc \notin {"booting", "serving"}
  <2>1. c \in Guarded
    BY DEF SetChild, Guarded
  <2>2. /\ NoMore(Attended(c)) /\ Attended(c)[c].deadline = "waiting" /\ Attended(c)[c].task = "reading"
        /\ \A d \in Children \ {c} : Attended(c)[d] = child[d]
    BY <2>1, NoMoreGuarded
  <2>3. /\ NoMore(Ends(Attended(c), c)) /\ Ends(Attended(c), c)[c].proc \notin {"booting", "serving"}
        /\ \A d \in Children : /\ Ends(Attended(c), c)[d].task = Attended(c)[d].task
                               /\ Ends(Attended(c), c)[d].deadline = Attended(c)[d].deadline
    BY <2>2, NoMoreEnds
  <2> QED
    BY <2>1, <2>2, <2>3 DEF SetChild, Running, StartOver
<1>3. handle' \in {NoChild} \cup Spawned /\ NoMore(child')
    BY <1>1, <1>2 DEF ChildrenTrue, Guarded
<1>4. /\ Newest' = Newest /\ Spawned' = Spawned /\ Alive' \subseteq Alive /\ Guarded' \subseteq Guarded
      /\ Newest \in Nat /\ NoChild \notin Alive
    BY <1>3, NoMoreKeeps, NewestCounts DEF Alive, Children, NoChild
<1>5. SupervisorType'
  <2>1. retried' \in BOOLEAN /\ crossed' \in BOOLEAN
    BY <1>1, <1>2 DEF SupervisorType
  <2>2. handle' \in {NoChild} \cup Children /\ child' \in [Children -> ChildRecords]
    BY <1>1, <1>3 DEF NoMore, Spawned
  <2>3. launches' \in Nat
    <3>1. launches \in Nat
      BY <1>1 DEF SupervisorType
    <3>2. launches' = launches \/ launches' = launches + 1
      BY <1>2
    <3> QED
      BY <3>1, <3>2
  <2>6. starts' \subseteq {MainThread} \cup Children
    BY <1>1, <1>2 DEF SupervisorType
  <2>4. status' \in {"starting", "ready", "stopping", "stopped", "failed"} /\ session' \in {NoChild} \cup Children
    BY <1>1, <1>2 DEF SupervisorType
  <2>5. main' \in {"starts", "run", "launch", "exits", "waits to launch", "waits to exit", "gone"}
    BY <1>1, <1>2 DEF SupervisorType
  <2> QED
    BY <2>1, <2>2, <2>3, <2>4, <2>5, <2>6 DEF SupervisorType
<1>6. Guarded' = Guarded \ {c} /\ c \in Waiting' /\ (handle' = c \/ c \notin Alive')
  <2>1. Guarded' = Guarded \ {c}
    BY <1>1, <1>2, <1>4 DEF Alive, Guarded, Waiting
  <2>2. c \in Waiting'
    BY <1>1, <1>2, <1>4 DEF Alive, Guarded, Waiting
  <2>3. (handle' = c \/ c \notin Alive')
    BY <1>1, <1>2, <1>4 DEF Alive, Guarded, Waiting
  <2> QED
    BY <2>1, <2>2, <2>3
<1>7. ASSUME ~crossed' PROVE StartsApart'
  <2>1. ~crossed /\ StartsApart
    BY <1>2, <1>7 DEF SupervisorInv
  <2>2. c = Newest /\ Guarded = {c} /\ starts = {} /\ handle = NoChild
    BY <1>2, <2>1 DEF StartsApart
  <2>3. Guarded' = {} /\ starts' = {} /\ Alive' \subseteq {c}
    BY <1>2, <1>4, <1>6, <2>1, <2>2 DEF StartsApart
  <2>4. CASE handle' = c /\ status = "starting"
    <3>1. c # NoChild
      BY DEF Children, NoChild
    <3> QED
      BY <1>2, <1>4, <2>1, <2>2, <2>3, <2>4, <3>1 DEF StartsApart
  <2>5. ASSUME ~(status = "starting" /\ handle = NoChild), handle' = handle, c \notin Alive'
        PROVE  StartsApart'
    <3>1. Alive' = {} /\ status # "starting" /\ status # "ready"
      BY <2>1, <2>2, <2>3, <2>5 DEF StartsApart
    <3> QED
      BY <1>2, <1>4, <2>1, <2>2, <2>3, <2>5, <3>1 DEF StartsApart
  <2>6. child'[c].proc \notin {"booting", "serving"} => c \notin Alive'
    BY DEF Alive
  <2>7. CASE ~(status = "starting" /\ handle = NoChild) /\ UNCHANGED handle /\ child'[c].proc \notin {"booting", "serving"}
    BY <2>5, <2>6, <2>7
  <2> QED
    BY <1>2, <2>4, <2>6, <2>7
<1>8. StartsBudget'
    BY <1>2, <1>3, BudgetKept
<1>9. HandleInUse'
    BY <1>1, <1>2 DEF HandleInUse
<1>10. StartGoesOn'
    BY <1>1, <1>2, <1>6 DEF StartGoesOn
<1> QED
    BY <1>2, <1>3, <1>5, <1>7, <1>8, <1>9, <1>10, CalmStepKeeps

\* A handshake is taken.
LEMMA TakeHandshakeKeeps ==
    ASSUME SupervisorInv, NEW c \in Children, TakeHandshake(c)
    PROVE  SupervisorInv'
<1>1. SupervisorType /\ ChildrenTrue /\ HandleInUse /\ StartGoesOn
    BY DEF SupervisorInv
<1>2. /\ NoMore(child') /\ UNCHANGED <<retried, launches, starts, main>> /\ main # "gone"
      /\ c \in Spawned /\ child[c].task = "reading"
      /\ \A d \in Children : child'[d].deadline = child[d].deadline /\ (child'[d].task = "guarded" <=> child[d].task = "guarded")
      /\ UNCHANGED handle /\ child'[c].task = "reading"
      /\ \/ status = "starting" /\ status' = "ready" /\ session' = c /\ crossed' \in BOOLEAN /\ (~crossed' => ~crossed /\ c = Newest /\ starts = {})
         \/ UNCHANGED <<status, session, crossed>> /\ status # "starting"
    BY ZenonT(40), NoMoreReads, CrossesMeans, <1>1 DEF TakeHandshake, Takes, Running, SupervisorType
<1>3. handle' \in {NoChild} \cup Spawned /\ NoMore(child')
    BY <1>1, <1>2 DEF ChildrenTrue, Guarded
<1>4. /\ Newest' = Newest /\ Spawned' = Spawned /\ Alive' \subseteq Alive /\ Guarded' \subseteq Guarded
      /\ Newest \in Nat /\ NoChild \notin Alive
    BY <1>3, NoMoreKeeps, NewestCounts DEF Alive, Children, NoChild
<1>5. SupervisorType'
  <2>1. retried' \in BOOLEAN /\ crossed' \in BOOLEAN
    BY <1>1, <1>2 DEF SupervisorType
  <2>2. handle' \in {NoChild} \cup Children /\ child' \in [Children -> ChildRecords]
    BY <1>1, <1>3 DEF NoMore, Spawned
  <2>3. launches' \in Nat
    <3>1. launches \in Nat
      BY <1>1 DEF SupervisorType
    <3>2. launches' = launches \/ launches' = launches + 1
      BY <1>2
    <3> QED
      BY <3>1, <3>2
  <2>6. starts' \subseteq {MainThread} \cup Children
    BY <1>1, <1>2 DEF SupervisorType
  <2>4. status' \in {"starting", "ready", "stopping", "stopped", "failed"} /\ session' \in {NoChild} \cup Children
    BY <1>1, <1>2 DEF SupervisorType
  <2>5. main' \in {"starts", "run", "launch", "exits", "waits to launch", "waits to exit", "gone"}
    BY <1>1, <1>2 DEF SupervisorType
  <2> QED
    BY <2>1, <2>2, <2>3, <2>4, <2>5, <2>6 DEF SupervisorType
<1>6. Guarded' = Guarded /\ c \notin Guarded
  <2>1. Guarded' = Guarded
    BY <1>1, <1>2, <1>4 DEF Alive, Guarded, Waiting
  <2>2. c \notin Guarded
    BY <1>1, <1>2, <1>4 DEF Alive, Guarded, Waiting
  <2> QED
    BY <2>1, <2>2
<1>7. ASSUME ~crossed' PROVE StartsApart'
  <2>1. ~crossed /\ StartsApart
    BY <1>2, <1>7 DEF SupervisorInv
  <2>2. CASE UNCHANGED <<status, session, crossed>>
    BY <1>2, <1>4, <1>6, <2>1, <2>2 DEF StartsApart
  <2>3. CASE status = "starting" /\ status' = "ready" /\ session' = c /\ c = Newest /\ starts = {}
    <3>1. Guarded = {} /\ handle = c /\ handle # NoChild
        BY <1>6, <2>1, <2>3 DEF StartsApart
    <3> QED
        BY <1>2, <1>4, <1>6, <2>1, <2>3, <3>1 DEF StartsApart
  <2> QED
    BY <1>2, <1>7, <2>2, <2>3
<1>8. StartsBudget'
    BY <1>2, <1>3, BudgetKept
<1>9. HandleInUse'
    BY <1>1, <1>2 DEF HandleInUse
<1>10. StartGoesOn'
    BY <1>1, <1>2, <1>6 DEF StartGoesOn
<1> QED
    BY <1>2, <1>3, <1>5, <1>7, <1>8, <1>9, <1>10, CalmStepKeeps

\* An error is taken.
LEMMA TakeErrorKeeps ==
    ASSUME SupervisorInv, NEW c \in Children, TakeError(c)
    PROVE  SupervisorInv'
<1>1. SupervisorType /\ ChildrenTrue /\ HandleInUse /\ StartGoesOn
    BY DEF SupervisorInv
<1>2. /\ NoMore(child') /\ UNCHANGED <<retried, launches, starts, main>> /\ main # "gone"
      /\ c \in Spawned /\ child[c].task = "reading"
      /\ \A d \in Children : child'[d].deadline = child[d].deadline /\ (child'[d].task = "guarded" <=> child[d].task = "guarded")
      /\ UNCHANGED session /\ crossed' \in BOOLEAN /\ (~crossed' => ~crossed /\ c = Newest /\ starts = {})
      /\ \/ status \in {"stopping", "stopped"} /\ UNCHANGED <<status, handle>>
         \/ /\ status' = "failed" /\ handle' = NoChild
            /\ handle \in Children => child'[handle].proc \notin {"booting", "serving"}
    BY NoMoreReads, StartupFails, CrossesMeans DEF TakeError, Takes, Running
<1>3. handle' \in {NoChild} \cup Spawned /\ NoMore(child')
    BY <1>1, <1>2 DEF ChildrenTrue, Guarded
<1>4. /\ Newest' = Newest /\ Spawned' = Spawned /\ Alive' \subseteq Alive /\ Guarded' \subseteq Guarded
      /\ Newest \in Nat /\ NoChild \notin Alive
    BY <1>3, NoMoreKeeps, NewestCounts DEF Alive, Children, NoChild
<1>5. SupervisorType'
  <2>1. retried' \in BOOLEAN /\ crossed' \in BOOLEAN
    BY <1>1, <1>2 DEF SupervisorType
  <2>2. handle' \in {NoChild} \cup Children /\ child' \in [Children -> ChildRecords]
    BY <1>1, <1>3 DEF NoMore, Spawned
  <2>3. launches' \in Nat
    <3>1. launches \in Nat
      BY <1>1 DEF SupervisorType
    <3>2. launches' = launches \/ launches' = launches + 1
      BY <1>2
    <3> QED
      BY <3>1, <3>2
  <2>6. starts' \subseteq {MainThread} \cup Children
    BY <1>1, <1>2 DEF SupervisorType
  <2>4. status' \in {"starting", "ready", "stopping", "stopped", "failed"} /\ session' \in {NoChild} \cup Children
    BY <1>1, <1>2 DEF SupervisorType
  <2>5. main' \in {"starts", "run", "launch", "exits", "waits to launch", "waits to exit", "gone"}
    BY <1>1, <1>2 DEF SupervisorType
  <2> QED
    BY <2>1, <2>2, <2>3, <2>4, <2>5, <2>6 DEF SupervisorType
<1>6. Guarded' = Guarded /\ (handle' # handle => handle \notin Alive')
  <2>1. Guarded' = Guarded
    BY <1>1, <1>2, <1>4 DEF Alive, Guarded, Waiting
  <2>2. (handle' # handle => handle \notin Alive')
    BY <1>1, <1>2, <1>4 DEF Alive, Guarded, Waiting
  <2> QED
    BY <2>1, <2>2
<1>7. ASSUME ~crossed' PROVE StartsApart'
  <2>1. ~crossed /\ StartsApart
    BY <1>2, <1>7 DEF SupervisorInv
  <2> QED
    BY <1>2, <1>4, <1>6, <1>7, <2>1 DEF StartsApart
<1>8. StartsBudget'
    BY <1>2, <1>3, BudgetKept
<1>9. HandleInUse'
    BY <1>1, <1>2 DEF HandleInUse
<1>10. StartGoesOn'
    BY <1>1, <1>2, <1>6 DEF StartGoesOn
<1> QED
    BY <1>2, <1>3, <1>5, <1>7, <1>8, <1>9, <1>10, CalmStepKeeps

\* The end of a child is taken, and it is restarted once.
LEMMA TakeTerminatedKeeps ==
    ASSUME SupervisorInv, NEW c \in Children, TakeTerminated(c)
    PROVE  SupervisorInv'
<1>1. SupervisorType /\ ChildrenTrue /\ HandleInUse /\ StartGoesOn
    BY DEF SupervisorInv
<1>2. /\ NoMore(child') /\ UNCHANGED <<launches, main, session>> /\ main # "gone"
      /\ c \in Spawned /\ child[c].task = "reading"
      /\ \A d \in Children : child'[d].deadline = child[d].deadline /\ (child'[d].task = "guarded" <=> child[d].task = "guarded")
      /\ child[c].proc = "exited" /\ handle' = NoChild /\ crossed' \in BOOLEAN /\ (~crossed' => ~crossed /\ c = Newest /\ starts = {})
      /\ \/ /\ status = "ready" /\ status' = "starting" /\ ~retried /\ retried' = TRUE /\ starts' = starts \cup {c}
         \/ status' \in {"stopped", "failed"} /\ UNCHANGED <<retried, starts>>
  <2>1. handle \in {NoChild} \cup Children /\ NoMore(Leave(c))
    BY <1>1, NoMoreReads DEF TakeTerminated, SupervisorType
  <2>2. NoMore(Tells(Leave(c), handle)) /\ \A d \in Children :
            /\ Tells(Leave(c), handle)[d].task = Leave(c)[d].task
            /\ Tells(Leave(c), handle)[d].deadline = Leave(c)[d].deadline
    BY <2>1, NoMoreTells
  <2> QED
    BY <2>2, NoMoreReads, CrossesMeans DEF TakeTerminated, Takes, Running
<1>3. handle' \in {NoChild} \cup Spawned /\ NoMore(child')
    BY <1>1, <1>2 DEF ChildrenTrue, Guarded
<1>4. /\ Newest' = Newest /\ Spawned' = Spawned /\ Alive' \subseteq Alive /\ Guarded' \subseteq Guarded
      /\ Newest \in Nat /\ NoChild \notin Alive
    BY <1>3, NoMoreKeeps, NewestCounts DEF Alive, Children, NoChild
<1>5. SupervisorType'
  <2>1. retried' \in BOOLEAN /\ crossed' \in BOOLEAN
    BY <1>1, <1>2 DEF SupervisorType
  <2>2. handle' \in {NoChild} \cup Children /\ child' \in [Children -> ChildRecords]
    BY <1>1, <1>3 DEF NoMore, Spawned
  <2>3. launches' \in Nat
    <3>1. launches \in Nat
      BY <1>1 DEF SupervisorType
    <3>2. launches' = launches \/ launches' = launches + 1
      BY <1>2
    <3> QED
      BY <3>1, <3>2
  <2>6. starts' \subseteq {MainThread} \cup Children
    BY <1>1, <1>2 DEF SupervisorType
  <2>4. status' \in {"starting", "ready", "stopping", "stopped", "failed"} /\ session' \in {NoChild} \cup Children
    BY <1>1, <1>2 DEF SupervisorType
  <2>5. main' \in {"starts", "run", "launch", "exits", "waits to launch", "waits to exit", "gone"}
    BY <1>1, <1>2 DEF SupervisorType
  <2> QED
    BY <2>1, <2>2, <2>3, <2>4, <2>5, <2>6 DEF SupervisorType
<1>6. Guarded' = Guarded /\ c \notin Guarded /\ c \notin Alive'
  <2>1. Guarded' = Guarded
    BY <1>1, <1>2, <1>4 DEF Alive, Guarded, Waiting
  <2>2. c \notin Guarded
    BY <1>1, <1>2, <1>4 DEF Alive, Guarded, Waiting
  <2>3. c \notin Alive'
    BY <1>1, <1>2, <1>4 DEF Alive, Guarded, Waiting
  <2> QED
    BY <2>1, <2>2, <2>3
<1>7. ASSUME ~crossed' PROVE StartsApart'
  <2>1. ~crossed /\ StartsApart
    BY <1>2, <1>7 DEF SupervisorInv
  <2> QED
    BY <1>2, <1>4, <1>6, <1>7, <2>1 DEF StartsApart
<1>8. StartsBudget'
  <2>1. Cardinality(starts) \in Nat /\ IsFiniteSet(starts) /\ launches \in Nat
    BY <1>1, NewestCounts DEF SupervisorType
  <2>2. Cardinality(starts \cup {c}) \in Nat /\ Cardinality(starts \cup {c}) <= Cardinality(starts) + 1
    BY <2>1, OneMoreStart
  <2>3. StartsBudget /\ RestartLeft \in {0, 1}
    BY DEF SupervisorInv, RestartLeft
  <2>4. CASE UNCHANGED <<retried, starts>>
    <3>1. RestartLeft' = RestartLeft
        BY <2>4 DEF RestartLeft
    <3> QED
        BY <1>2, <1>4, <2>1, <2>3, <2>4, <3>1 DEF StartsBudget
  <2>5. CASE ~retried /\ retried' = TRUE /\ launches' = launches /\ starts' = starts \cup {c}
    <3>1. RestartLeft = 1 /\ RestartLeft' = 0
        BY <2>5 DEF RestartLeft
    <3> QED
        BY <1>2, <1>4, <2>1, <2>2, <2>3, <2>5, <3>1 DEF StartsBudget
  <2> QED
    BY <1>2, <2>4, <2>5
<1>9. HandleInUse'
    BY <1>1, <1>2 DEF HandleInUse
<1>10. StartGoesOn'
    BY <1>1, <1>2, <1>6 DEF StartGoesOn
<1> QED
    BY <1>2, <1>3, <1>5, <1>7, <1>8, <1>9, <1>10, CalmStepKeeps

\* A deadline is over.
LEMMA NoMoreDeadline ==
    ASSUME SupervisorInv, NEW c \in Children
    PROVE  /\ NoMore([child EXCEPT ![c].deadline = "done"])
           /\ \A d \in Children : [child EXCEPT ![c].deadline = "done"][d].task = child[d].task
<1> DEFINE over == [child[c] EXCEPT !.deadline = "done"]
           x == [child EXCEPT ![c].deadline = "done"]
<1>1. child \in [Children -> ChildRecords] /\ NoMore(child)
    BY NoMoreStays DEF SupervisorInv, SupervisorType
<1>2. /\ over \in ChildRecords /\ over.proc = child[c].proc /\ over.told = child[c].told
      /\ over.events = child[c].events /\ over.task = child[c].task
    BY <1>1, ChildFields DEF ChildRecords
<1>3. x = [child EXCEPT ![c] = over]
    BY <1>1
<1> HIDE DEF over, x
<1>4. x \in [Children -> ChildRecords] /\ \A d \in Children : x[d] = IF d = c THEN over ELSE child[d]
    BY <1>1, <1>2, <1>3
<1>5. NoMore(x) /\ \A d \in Children : x[d].task = child[d].task
    BY <1>1, <1>2, <1>4 DEF NoMore
<1> QED
    BY <1>5 DEF x

\* A deadline is no longer needed.
LEMMA DeadlineOverKeeps ==
    ASSUME SupervisorInv, NEW c \in Children, DeadlineOver(c)
    PROVE  SupervisorInv'
<1>1. SupervisorType /\ ChildrenTrue /\ HandleInUse /\ StartGoesOn
    BY DEF SupervisorInv
<1>2. /\ NoMore(child') /\ UNCHANGED <<status, session, handle, retried, starts, main, launches, crossed>>
      /\ \A d \in Children : child'[d].task = child[d].task
      /\ main # "gone" /\ status # "starting"
    BY NoMoreDeadline DEF DeadlineOver, Running
<1>3. handle' \in {NoChild} \cup Spawned /\ NoMore(child')
    BY <1>1, <1>2 DEF ChildrenTrue, Guarded
<1>4. /\ Newest' = Newest /\ Spawned' = Spawned /\ Alive' \subseteq Alive /\ Guarded' \subseteq Guarded
      /\ Newest \in Nat /\ NoChild \notin Alive
    BY <1>3, NoMoreKeeps, NewestCounts DEF Alive, Children, NoChild
<1>5. SupervisorType'
  <2>1. retried' \in BOOLEAN /\ crossed' \in BOOLEAN
    BY <1>1, <1>2 DEF SupervisorType
  <2>2. handle' \in {NoChild} \cup Children /\ child' \in [Children -> ChildRecords]
    BY <1>1, <1>3 DEF NoMore, Spawned
  <2>3. launches' \in Nat
    <3>1. launches \in Nat
      BY <1>1 DEF SupervisorType
    <3>2. launches' = launches \/ launches' = launches + 1
      BY <1>2
    <3> QED
      BY <3>1, <3>2
  <2>6. starts' \subseteq {MainThread} \cup Children
    BY <1>1, <1>2 DEF SupervisorType
  <2>4. status' \in {"starting", "ready", "stopping", "stopped", "failed"} /\ session' \in {NoChild} \cup Children
    BY <1>1, <1>2 DEF SupervisorType
  <2>5. main' \in {"starts", "run", "launch", "exits", "waits to launch", "waits to exit", "gone"}
    BY <1>1, <1>2 DEF SupervisorType
  <2> QED
    BY <2>1, <2>2, <2>3, <2>4, <2>5, <2>6 DEF SupervisorType
<1>6. Guarded' = Guarded
    BY <1>1, <1>2 DEF Guarded
<1>7. ASSUME ~crossed' PROVE StartsApart'
  <2>1. ~crossed /\ StartsApart
    BY <1>2, <1>7 DEF SupervisorInv
  <2> QED
    BY <1>2, <1>4, <1>6, <1>7, <2>1 DEF StartsApart
<1>8. StartsBudget'
    BY <1>2, <1>3, BudgetKept
<1>9. HandleInUse'
    BY <1>1, <1>2 DEF HandleInUse
<1>10. StartGoesOn'
    BY <1>1, <1>2, <1>6 DEF StartGoesOn
<1> QED
    BY <1>2, <1>3, <1>5, <1>7, <1>8, <1>9, <1>10, CalmStepKeeps

\* A deadline strikes.
LEMMA DeadlineStrikesKeeps ==
    ASSUME SupervisorInv, NEW c \in Children, DeadlineStrikes(c)
    PROVE  SupervisorInv'
<1>1. SupervisorType /\ ChildrenTrue /\ HandleInUse /\ StartGoesOn
    BY DEF SupervisorInv
<1>2. /\ NoMore(child') /\ UNCHANGED <<session, retried, starts, main, launches>>
      /\ main # "gone" /\ status' = "failed" /\ handle' = NoChild /\ crossed' \in BOOLEAN /\ (~crossed' => ~crossed /\ c = Newest /\ starts = {})
      /\ \A d \in Children : child'[d].task = child[d].task
      /\ handle \in Children => child'[handle].proc \notin {"booting", "serving"}
  <2> DEFINE x == [child EXCEPT ![c].deadline = "done"]
  <2>1. NoMore(x) /\ (\A d \in Children : x[d].task = child[d].task) /\ child' = Ends(x, handle)
    BY NoMoreDeadline DEF DeadlineStrikes
  <2>2. handle \in {NoChild} \cup Children
    BY <1>1 DEF SupervisorType
  <2> HIDE DEF x
  <2>3. /\ NoMore(child') /\ \A d \in Children : child'[d].task = child[d].task
        /\ handle \in Children => child'[handle].proc \notin {"booting", "serving"}
    BY <2>1, <2>2, NoMoreEnds
  <2> QED
    BY <2>3, CrossesMeans DEF DeadlineStrikes, Running
<1>3. handle' \in {NoChild} \cup Spawned /\ NoMore(child')
    BY <1>1, <1>2 DEF ChildrenTrue, Guarded
<1>4. /\ Newest' = Newest /\ Spawned' = Spawned /\ Alive' \subseteq Alive /\ Guarded' \subseteq Guarded
      /\ Newest \in Nat /\ NoChild \notin Alive
    BY <1>3, NoMoreKeeps, NewestCounts DEF Alive, Children, NoChild
<1>5. SupervisorType'
  <2>1. retried' \in BOOLEAN /\ crossed' \in BOOLEAN
    BY <1>1, <1>2 DEF SupervisorType
  <2>2. handle' \in {NoChild} \cup Children /\ child' \in [Children -> ChildRecords]
    BY <1>1, <1>3 DEF NoMore, Spawned
  <2>3. launches' \in Nat
    <3>1. launches \in Nat
      BY <1>1 DEF SupervisorType
    <3>2. launches' = launches \/ launches' = launches + 1
      BY <1>2
    <3> QED
      BY <3>1, <3>2
  <2>6. starts' \subseteq {MainThread} \cup Children
    BY <1>1, <1>2 DEF SupervisorType
  <2>4. status' \in {"starting", "ready", "stopping", "stopped", "failed"} /\ session' \in {NoChild} \cup Children
    BY <1>1, <1>2 DEF SupervisorType
  <2>5. main' \in {"starts", "run", "launch", "exits", "waits to launch", "waits to exit", "gone"}
    BY <1>1, <1>2 DEF SupervisorType
  <2> QED
    BY <2>1, <2>2, <2>3, <2>4, <2>5, <2>6 DEF SupervisorType
<1>6. Guarded' = Guarded /\ (handle' # handle => handle \notin Alive')
  <2>1. Guarded' = Guarded
    BY <1>1, <1>2, <1>4 DEF Alive, Guarded, Waiting
  <2>2. (handle' # handle => handle \notin Alive')
    BY <1>1, <1>2, <1>4 DEF Alive, Guarded, Waiting
  <2> QED
    BY <2>1, <2>2
<1>7. ASSUME ~crossed' PROVE StartsApart'
  <2>1. ~crossed /\ StartsApart
    BY <1>2, <1>7 DEF SupervisorInv
  <2> QED
    BY <1>2, <1>4, <1>6, <1>7, <2>1 DEF StartsApart
<1>8. StartsBudget'
    BY <1>2, <1>3, BudgetKept
<1>9. HandleInUse'
    BY <1>1, <1>2 DEF HandleInUse
<1>10. StartGoesOn'
    BY <1>1, <1>2, <1>6 DEF StartGoesOn
<1> QED
    BY <1>2, <1>3, <1>5, <1>7, <1>8, <1>9, <1>10, CalmStepKeeps

\* When the Desktop is gone every child is told.
LEMMA NoMoreThen ==
    ASSUME NEW x, NoMore(x), NEW why \in {"install", "exit"}, Then(x, why)
    PROVE  /\ NoMore(child')
           /\ \A d \in Children : child'[d].task = x[d].task /\ child'[d].proc = x[d].proc
           /\ main' \in {"gone", "launch"} /\ (main' = "gone" => \A d \in Children : child'[d].told)
<1>1. CASE why = "install"
    BY <1>1 DEF Then, NextFor
<1>2. CASE why = "exit"
  <2>1. child' = [d \in Children |-> [x[d] EXCEPT !.told = TRUE]]
    BY <1>2 DEF Then
  <2>2. ASSUME NEW d \in Children
        PROVE  /\ child'[d] \in ChildRecords /\ child'[d].proc = x[d].proc /\ child'[d].task = x[d].task
               /\ child'[d].events = x[d].events /\ child'[d].told
    <3>1. x[d] \in ChildRecords
        BY DEF NoMore
    <3>2. [x[d] EXCEPT !.told = TRUE] \in ChildRecords
        BY <3>1 DEF ChildRecords
    <3>3. child'[d] = [x[d] EXCEPT !.told = TRUE]
        BY <2>1
    <3> QED
        BY <3>1, <3>2, <3>3 DEF ChildRecords
  <2>3. child' \in [Children -> ChildRecords]
    BY <2>1, <2>2
  <2>4. NoMore(child')
    BY <2>2, <2>3 DEF NoMore
  <2> QED
    BY <1>2, <2>2, <2>4 DEF Then, NextFor
<1> QED
    BY <1>1, <1>2

\* The main thread begins to stop the daemon.
LEMMA StopBeginsKeeps ==
    ASSUME SupervisorInv, NEW why \in {"install", "exit"}, StopBegins(why)
    PROVE  SupervisorInv'
<1>1. SupervisorType /\ ChildrenTrue /\ HandleInUse /\ StartGoesOn
    BY DEF SupervisorInv
<1>2. /\ NoMore(child') /\ UNCHANGED <<session, retried, starts, launches, crossed>>
      /\ \A d \in Children : child'[d].task = child[d].task
      /\ main' \in {"gone", "launch", "waits to launch", "waits to exit"}
      /\ main' = "gone" => \A d \in Children : child'[d].told
      /\ \/ UNCHANGED handle /\ (handle # NoChild => status' = "stopping") /\ status' \in {"stopped", "stopping"}
         \/ /\ status' = "stopped" /\ handle' = NoChild
            /\ handle \in Children => child'[handle].proc \notin {"booting", "serving"}
  <2>1. handle \in {NoChild} \cup Children
    BY <1>1 DEF SupervisorType
  <2>2. CASE handle = NoChild /\ status' = "stopped" /\ Then(child, why) /\ UNCHANGED handle
    BY <2>2, NoMoreStays, NoMoreThen DEF StopBegins
  <2>3. CASE status' = "stopping" /\ main' = Waits(why) /\ child' = Tells(child, handle) /\ UNCHANGED handle
    BY <2>1, <2>3, NoMoreStays, NoMoreTells DEF StopBegins, Waits
  <2>4. CASE status' = "stopped" /\ handle' = NoChild /\ Then(Ends(child, handle), why)
    <3>1. /\ NoMore(Ends(child, handle)) /\ \A d \in Children : Ends(child, handle)[d].task = child[d].task
          /\ handle \in Children => Ends(child, handle)[handle].proc \notin {"booting", "serving"}
        BY <2>1, NoMoreStays, NoMoreEnds
    <3>2. /\ NoMore(child')
          /\ \A d \in Children : child'[d].task = Ends(child, handle)[d].task /\ child'[d].proc = Ends(child, handle)[d].proc
          /\ main' \in {"gone", "launch"} /\ (main' = "gone" => \A d \in Children : child'[d].told)
        BY <2>4, <3>1, NoMoreThen
    <3> QED
        BY <2>4, <3>1, <3>2 DEF StopBegins
  <2> QED
    BY <2>2, <2>3, <2>4 DEF StopBegins
<1>3. handle' \in {NoChild} \cup Spawned /\ NoMore(child')
    BY <1>1, <1>2 DEF ChildrenTrue, Guarded
<1>4. /\ Newest' = Newest /\ Spawned' = Spawned /\ Alive' \subseteq Alive /\ Guarded' \subseteq Guarded
      /\ Newest \in Nat /\ NoChild \notin Alive
    BY <1>3, NoMoreKeeps, NewestCounts DEF Alive, Children, NoChild
<1>5. SupervisorType'
  <2>1. retried' \in BOOLEAN /\ crossed' \in BOOLEAN
    BY <1>1, <1>2 DEF SupervisorType
  <2>2. handle' \in {NoChild} \cup Children /\ child' \in [Children -> ChildRecords]
    BY <1>1, <1>3 DEF NoMore, Spawned
  <2>3. launches' \in Nat
    <3>1. launches \in Nat
      BY <1>1 DEF SupervisorType
    <3>2. launches' = launches \/ launches' = launches + 1
      BY <1>2
    <3> QED
      BY <3>1, <3>2
  <2>6. starts' \subseteq {MainThread} \cup Children
    BY <1>1, <1>2 DEF SupervisorType
  <2>4. status' \in {"starting", "ready", "stopping", "stopped", "failed"} /\ session' \in {NoChild} \cup Children
    BY <1>1, <1>2 DEF SupervisorType
  <2>5. main' \in {"starts", "run", "launch", "exits", "waits to launch", "waits to exit", "gone"}
    BY <1>1, <1>2 DEF SupervisorType
  <2> QED
    BY <2>1, <2>2, <2>3, <2>4, <2>5, <2>6 DEF SupervisorType
<1>6. Guarded' = Guarded /\ (handle' # handle => handle \notin Alive')
  <2>1. Guarded' = Guarded
    BY <1>1, <1>2, <1>4 DEF Alive, Guarded, Waiting
  <2>2. (handle' # handle => handle \notin Alive')
    BY <1>1, <1>2, <1>4 DEF Alive, Guarded, Waiting
  <2> QED
    BY <2>1, <2>2
<1>7. ASSUME ~crossed' PROVE StartsApart'
  <2>1. ~crossed /\ StartsApart
    BY <1>2, <1>7 DEF SupervisorInv
  <2> QED
    BY <1>2, <1>4, <1>6, <1>7, <2>1 DEF StartsApart
<1>8. StartsBudget'
    BY <1>2, <1>3, BudgetKept
<1>9. HandleInUse'
    BY <1>1, <1>2 DEF HandleInUse
<1>10. StartGoesOn'
    BY <1>1, <1>2, <1>6 DEF StartGoesOn
<1> QED
    BY <1>2, <1>3, <1>5, <1>7, <1>8, <1>9, <1>10, CalmStepKeeps

\* The stop is over: the child has ended or is killed.
LEMMA StopEndsKeeps ==
    ASSUME SupervisorInv, NEW why \in {"install", "exit"}, StopEnds(why)
    PROVE  SupervisorInv'
<1>1. SupervisorType /\ ChildrenTrue /\ HandleInUse /\ StartGoesOn
    BY DEF SupervisorInv
<1>2. /\ NoMore(child') /\ UNCHANGED <<session, retried, starts, launches, crossed>>
      /\ \A d \in Children : child'[d].task = child[d].task
      /\ main' \in {"gone", "launch"}
      /\ main' = "gone" => \A d \in Children : child'[d].told
      /\ status' = "stopped" /\ handle' = NoChild
      /\ handle \in Children => child'[handle].proc \notin {"booting", "serving"}
  <2>1. handle \in {NoChild} \cup Children /\ Then(Ends(child, handle), why)
    BY <1>1 DEF SupervisorType, StopEnds
  <2>2. /\ NoMore(Ends(child, handle)) /\ \A d \in Children : Ends(child, handle)[d].task = child[d].task
        /\ handle \in Children => Ends(child, handle)[handle].proc \notin {"booting", "serving"}
    BY <2>1, NoMoreStays, NoMoreEnds
  <2>3. /\ NoMore(child')
        /\ \A d \in Children : child'[d].task = Ends(child, handle)[d].task /\ child'[d].proc = Ends(child, handle)[d].proc
        /\ main' \in {"gone", "launch"} /\ (main' = "gone" => \A d \in Children : child'[d].told)
    BY <2>1, <2>2, NoMoreThen
  <2> QED
    BY <2>2, <2>3 DEF StopEnds
<1>3. handle' \in {NoChild} \cup Spawned /\ NoMore(child')
    BY <1>1, <1>2 DEF ChildrenTrue, Guarded
<1>4. /\ Newest' = Newest /\ Spawned' = Spawned /\ Alive' \subseteq Alive /\ Guarded' \subseteq Guarded
      /\ Newest \in Nat /\ NoChild \notin Alive
    BY <1>3, NoMoreKeeps, NewestCounts DEF Alive, Children, NoChild
<1>5. SupervisorType'
  <2>1. retried' \in BOOLEAN /\ crossed' \in BOOLEAN
    BY <1>1, <1>2 DEF SupervisorType
  <2>2. handle' \in {NoChild} \cup Children /\ child' \in [Children -> ChildRecords]
    BY <1>1, <1>3 DEF NoMore, Spawned
  <2>3. launches' \in Nat
    <3>1. launches \in Nat
      BY <1>1 DEF SupervisorType
    <3>2. launches' = launches \/ launches' = launches + 1
      BY <1>2
    <3> QED
      BY <3>1, <3>2
  <2>6. starts' \subseteq {MainThread} \cup Children
    BY <1>1, <1>2 DEF SupervisorType
  <2>4. status' \in {"starting", "ready", "stopping", "stopped", "failed"} /\ session' \in {NoChild} \cup Children
    BY <1>1, <1>2 DEF SupervisorType
  <2>5. main' \in {"starts", "run", "launch", "exits", "waits to launch", "waits to exit", "gone"}
    BY <1>1, <1>2 DEF SupervisorType
  <2> QED
    BY <2>1, <2>2, <2>3, <2>4, <2>5, <2>6 DEF SupervisorType
<1>6. Guarded' = Guarded /\ (handle' # handle => handle \notin Alive')
  <2>1. Guarded' = Guarded
    BY <1>1, <1>2, <1>4 DEF Alive, Guarded, Waiting
  <2>2. (handle' # handle => handle \notin Alive')
    BY <1>1, <1>2, <1>4 DEF Alive, Guarded, Waiting
  <2> QED
    BY <2>1, <2>2
<1>7. ASSUME ~crossed' PROVE StartsApart'
  <2>1. ~crossed /\ StartsApart
    BY <1>2, <1>7 DEF SupervisorInv
  <2> QED
    BY <1>2, <1>4, <1>6, <1>7, <2>1 DEF StartsApart
<1>8. StartsBudget'
    BY <1>2, <1>3, BudgetKept
<1>9. HandleInUse'
    BY <1>1, <1>2 DEF HandleInUse
<1>10. StartGoesOn'
    BY <1>1, <1>2, <1>6 DEF StartGoesOn
<1> QED
    BY <1>2, <1>3, <1>5, <1>7, <1>8, <1>9, <1>10, CalmStepKeeps

\* The installer runs.
LEMMA LaunchedKeeps ==
    ASSUME SupervisorInv, Launched
    PROVE  SupervisorInv'
<1>1. SupervisorType /\ ChildrenTrue /\ HandleInUse /\ StartGoesOn
    BY DEF SupervisorInv
<1>2. /\ NoMore(child') /\ UNCHANGED <<status, session, handle, retried, starts, child, launches, crossed>>
      /\ main' = "exits" /\ main # "gone"
    BY NoMoreStays DEF Launched
<1>3. handle' \in {NoChild} \cup Spawned /\ NoMore(child')
    BY <1>1, <1>2 DEF ChildrenTrue, Guarded
<1>4. /\ Newest' = Newest /\ Spawned' = Spawned /\ Alive' \subseteq Alive /\ Guarded' \subseteq Guarded
      /\ Newest \in Nat /\ NoChild \notin Alive
    BY <1>3, NoMoreKeeps, NewestCounts DEF Alive, Children, NoChild
<1>5. SupervisorType'
  <2>1. retried' \in BOOLEAN /\ crossed' \in BOOLEAN
    BY <1>1, <1>2 DEF SupervisorType
  <2>2. handle' \in {NoChild} \cup Children /\ child' \in [Children -> ChildRecords]
    BY <1>1, <1>3 DEF NoMore, Spawned
  <2>3. launches' \in Nat
    <3>1. launches \in Nat
      BY <1>1 DEF SupervisorType
    <3>2. launches' = launches \/ launches' = launches + 1
      BY <1>2
    <3> QED
      BY <3>1, <3>2
  <2>6. starts' \subseteq {MainThread} \cup Children
    BY <1>1, <1>2 DEF SupervisorType
  <2>4. status' \in {"starting", "ready", "stopping", "stopped", "failed"} /\ session' \in {NoChild} \cup Children
    BY <1>1, <1>2 DEF SupervisorType
  <2>5. main' \in {"starts", "run", "launch", "exits", "waits to launch", "waits to exit", "gone"}
    BY <1>1, <1>2 DEF SupervisorType
  <2> QED
    BY <2>1, <2>2, <2>3, <2>4, <2>5, <2>6 DEF SupervisorType
<1>6. Guarded' = Guarded /\ Waiting' = Waiting
  <2>1. Guarded' = Guarded
    BY <1>1, <1>2, <1>4 DEF Alive, Guarded, Waiting
  <2>2. Waiting' = Waiting
    BY <1>1, <1>2, <1>4 DEF Alive, Guarded, Waiting
  <2> QED
    BY <2>1, <2>2
<1>7. ASSUME ~crossed' PROVE StartsApart'
  <2>1. ~crossed /\ StartsApart
    BY <1>2, <1>7 DEF SupervisorInv
  <2> QED
    BY <1>2, <1>4, <1>6, <1>7, <2>1 DEF StartsApart
<1>8. StartsBudget'
    BY <1>2, <1>3, BudgetKept
<1>9. HandleInUse'
    BY <1>1, <1>2 DEF HandleInUse
<1>10. StartGoesOn'
    BY <1>1, <1>2, <1>6 DEF StartGoesOn
<1> QED
    BY <1>2, <1>3, <1>5, <1>7, <1>8, <1>9, <1>10, CalmStepKeeps

\* The installer could not be launched, and the daemon is started again.
LEMMA LaunchFailsKeeps ==
    ASSUME SupervisorInv, LaunchFails
    PROVE  SupervisorInv'
<1>1. SupervisorType /\ ChildrenTrue /\ HandleInUse /\ StartGoesOn
    BY DEF SupervisorInv
<1>2. /\ NoMore(child') /\ UNCHANGED <<session, handle, child>> /\ main # "gone" /\ main' \in {"starts", "run"}
      /\ launches' = launches + 1 /\ crossed' \in BOOLEAN /\ (~crossed' => ~crossed /\ starts = {} /\ Guarded = {})
      /\ \/ /\ handle = NoChild /\ status' = "starting" /\ retried' = FALSE /\ starts' = starts \cup {MainThread}
         \/ UNCHANGED <<status, retried, starts>>
    BY <1>1, NoMoreStays DEF LaunchFails, InProgress, Guarded, SupervisorType
<1>3. handle' \in {NoChild} \cup Spawned /\ NoMore(child')
    BY <1>1, <1>2 DEF ChildrenTrue, Guarded
<1>4. /\ Newest' = Newest /\ Spawned' = Spawned /\ Alive' \subseteq Alive /\ Guarded' \subseteq Guarded
      /\ Newest \in Nat /\ NoChild \notin Alive
    BY <1>3, NoMoreKeeps, NewestCounts DEF Alive, Children, NoChild
<1>5. SupervisorType'
  <2>1. retried' \in BOOLEAN /\ crossed' \in BOOLEAN
    BY <1>1, <1>2 DEF SupervisorType
  <2>2. handle' \in {NoChild} \cup Children /\ child' \in [Children -> ChildRecords]
    BY <1>1, <1>3 DEF NoMore, Spawned
  <2>3. launches' \in Nat
    <3>1. launches \in Nat
      BY <1>1 DEF SupervisorType
    <3>2. launches' = launches \/ launches' = launches + 1
      BY <1>2
    <3> QED
      BY <3>1, <3>2
  <2>6. starts' \subseteq {MainThread} \cup Children
    BY <1>1, <1>2 DEF SupervisorType
  <2>4. status' \in {"starting", "ready", "stopping", "stopped", "failed"} /\ session' \in {NoChild} \cup Children
    BY <1>1, <1>2 DEF SupervisorType
  <2>5. main' \in {"starts", "run", "launch", "exits", "waits to launch", "waits to exit", "gone"}
    BY <1>1, <1>2 DEF SupervisorType
  <2> QED
    BY <2>1, <2>2, <2>3, <2>4, <2>5, <2>6 DEF SupervisorType
<1>6. Guarded' = Guarded /\ Waiting' = Waiting
  <2>1. Guarded' = Guarded
    BY <1>1, <1>2, <1>4 DEF Alive, Guarded, Waiting
  <2>2. Waiting' = Waiting
    BY <1>1, <1>2, <1>4 DEF Alive, Guarded, Waiting
  <2> QED
    BY <2>1, <2>2
<1>7. ASSUME ~crossed' PROVE StartsApart'
  <2>1. ~crossed /\ StartsApart
    BY <1>2, <1>7 DEF SupervisorInv
  <2> QED
    BY <1>2, <1>4, <1>6, <1>7, <2>1 DEF StartsApart
<1>8. StartsBudget'
  <2>1. Cardinality(starts) \in Nat /\ IsFiniteSet(starts) /\ launches \in Nat
    BY <1>1, NewestCounts DEF SupervisorType
  <2>2. Cardinality(starts \cup {MainThread}) \in Nat /\ Cardinality(starts \cup {MainThread}) <= Cardinality(starts) + 1
    BY <2>1, OneMoreStart
  <2>3. StartsBudget /\ RestartLeft \in {0, 1}
    BY DEF SupervisorInv, RestartLeft
  <2>4. CASE UNCHANGED <<retried, starts>>
    <3>1. RestartLeft' = RestartLeft
        BY <2>4 DEF RestartLeft
    <3> QED
        BY <1>2, <1>4, <2>1, <2>3, <2>4, <3>1 DEF StartsBudget
  <2>5. CASE retried' = FALSE /\ launches' = launches + 1 /\ starts' = starts \cup {MainThread}
    <3>1. RestartLeft' = 1
        BY <2>5 DEF RestartLeft
    <3> QED
        BY <1>2, <1>4, <2>1, <2>2, <2>3, <2>5, <3>1 DEF StartsBudget
  <2> QED
    BY <1>2, <2>4, <2>5
<1>9. HandleInUse'
    BY <1>1, <1>2 DEF HandleInUse
<1>10. StartGoesOn'
    BY <1>1, <1>2, <1>6 DEF StartGoesOn
<1> QED
    BY <1>2, <1>3, <1>5, <1>7, <1>8, <1>9, <1>10, CalmStepKeeps

\* A child ends: it obeys or dies.
LEMMA ObeysKeeps ==
    ASSUME SupervisorInv, NEW c \in Children, Obeys(c) \/ Dies(c)
    PROVE  SupervisorInv'
<1>1. SupervisorType /\ ChildrenTrue /\ HandleInUse /\ StartGoesOn
    BY DEF SupervisorInv
<1>2. /\ NoMore(child') /\ UNCHANGED <<status, session, handle, retried, starts, main, launches, crossed>>
      /\ \A d \in Children : child'[d].task = child[d].task /\ child'[d].deadline = child[d].deadline
    BY NoMoreStays, NoMoreEnds DEF Obeys, Dies
<1>3. handle' \in {NoChild} \cup Spawned /\ NoMore(child')
    BY <1>1, <1>2 DEF ChildrenTrue, Guarded
<1>4. /\ Newest' = Newest /\ Spawned' = Spawned /\ Alive' \subseteq Alive /\ Guarded' \subseteq Guarded
      /\ Newest \in Nat /\ NoChild \notin Alive
    BY <1>3, NoMoreKeeps, NewestCounts DEF Alive, Children, NoChild
<1>5. SupervisorType'
  <2>1. retried' \in BOOLEAN /\ crossed' \in BOOLEAN
    BY <1>1, <1>2 DEF SupervisorType
  <2>2. handle' \in {NoChild} \cup Children /\ child' \in [Children -> ChildRecords]
    BY <1>1, <1>3 DEF NoMore, Spawned
  <2>3. launches' \in Nat
    <3>1. launches \in Nat
      BY <1>1 DEF SupervisorType
    <3>2. launches' = launches \/ launches' = launches + 1
      BY <1>2
    <3> QED
      BY <3>1, <3>2
  <2>6. starts' \subseteq {MainThread} \cup Children
    BY <1>1, <1>2 DEF SupervisorType
  <2>4. status' \in {"starting", "ready", "stopping", "stopped", "failed"} /\ session' \in {NoChild} \cup Children
    BY <1>1, <1>2 DEF SupervisorType
  <2>5. main' \in {"starts", "run", "launch", "exits", "waits to launch", "waits to exit", "gone"}
    BY <1>1, <1>2 DEF SupervisorType
  <2> QED
    BY <2>1, <2>2, <2>3, <2>4, <2>5, <2>6 DEF SupervisorType
<1>6. Guarded' = Guarded /\ Waiting' = Waiting
  <2>1. Guarded' = Guarded
    BY <1>1, <1>2, <1>4 DEF Alive, Guarded, Waiting
  <2>2. Waiting' = Waiting
    BY <1>1, <1>2, <1>4 DEF Alive, Guarded, Waiting
  <2> QED
    BY <2>1, <2>2
<1>7. ASSUME ~crossed' PROVE StartsApart'
  <2>1. ~crossed /\ StartsApart
    BY <1>2, <1>7 DEF SupervisorInv
  <2> QED
    BY <1>2, <1>4, <1>6, <1>7, <2>1 DEF StartsApart
<1>8. StartsBudget'
    BY <1>2, <1>3, BudgetKept
<1>9. HandleInUse'
    BY <1>1, <1>2 DEF HandleInUse
<1>10. StartGoesOn'
    BY <1>1, <1>2, <1>6 DEF StartGoesOn
<1> QED
    BY <1>2, <1>3, <1>5, <1>7, <1>8, <1>9, <1>10, CalmStepKeeps

\* A child boots, or writes a bad line.
LEMMA WritesKeeps ==
    ASSUME SupervisorInv, NEW c \in Children, Boots(c) \/ WritesBadLine(c)
    PROVE  SupervisorInv'
<1>1. SupervisorType /\ ChildrenTrue /\ HandleInUse /\ StartGoesOn
    BY DEF SupervisorInv
<1>2. /\ NoMore(child') /\ UNCHANGED <<status, session, handle, retried, starts, main, launches, crossed>>
      /\ \A d \in Children : child'[d].task = child[d].task /\ child'[d].deadline = child[d].deadline
  <2>1. child \in [Children -> ChildRecords] /\ NoMore(child) /\ c \in Alive
    BY NoMoreStays DEF SupervisorInv, SupervisorType, Boots, WritesBadLine, Alive
  <2>2. PICK proc \in {"booting", "serving"}, line \in {"handshake", "error"} :
            child' = [child EXCEPT ![c] = [child[c] EXCEPT !.proc = proc, !.events = Append(child[c].events, line)]]
    <3>1. child[c].proc \in {"booting", "serving"}
        BY <2>1 DEF Alive
    <3>2. CASE Boots(c)
        BY <2>1, <3>2 DEF Boots
    <3>3. CASE WritesBadLine(c)
      <4> DEFINE bad == [child[c] EXCEPT !.proc = child[c].proc, !.events = Append(child[c].events, "error")]
      <4>1. bad = [child[c] EXCEPT !.events = Append(child[c].events, "error")]
        BY <2>1 DEF ChildRecords
      <4> QED
        BY <2>1, <3>1, <3>3, <4>1 DEF WritesBadLine
    <3> QED
        BY <3>2, <3>3
  <2> DEFINE events == Append(child[c].events, line)
             wrote == [child[c] EXCEPT !.proc = proc, !.events = events]
  <2>3. child[c].events \in Seq({"handshake", "error", "terminated"})
    BY <2>1, ChildFields
  <2>4. events \in Seq({"handshake", "error", "terminated"}) /\ child[c] \in ChildRecords
    BY <2>1, <2>3
  <2>10. \A i \in DOMAIN events : events[i] = line \/ (i \in DOMAIN child[c].events /\ events[i] = child[c].events[i])
    BY <2>3
  <2> HIDE DEF events
  <2>5. /\ wrote \in ChildRecords /\ wrote.proc = proc /\ wrote.told = child[c].told /\ wrote.task = child[c].task
        /\ wrote.events = events /\ wrote.deadline = child[c].deadline
    BY <2>4 DEF ChildRecords
  <2>6. child' = [child EXCEPT ![c] = wrote]
    BY <2>2 DEF events
  <2> HIDE DEF wrote
  <2>7. child' \in [Children -> ChildRecords] /\ \A d \in Children : child'[d] = IF d = c THEN wrote ELSE child[d]
    BY <2>1, <2>5, <2>6
  <2>8. child[c].proc \in {"booting", "serving"} /\ \A i \in DOMAIN wrote.events : wrote.events[i] # "terminated"
    BY <2>1, <2>5, <2>10 DEF Alive, NoMore
  <2>9. NoMore(child')
    BY <2>1, <2>5, <2>7, <2>8 DEF NoMore
  <2> QED
    BY <2>5, <2>7, <2>9 DEF Boots, WritesBadLine
<1>3. handle' \in {NoChild} \cup Spawned /\ NoMore(child')
    BY <1>1, <1>2 DEF ChildrenTrue, Guarded
<1>4. /\ Newest' = Newest /\ Spawned' = Spawned /\ Alive' \subseteq Alive /\ Guarded' \subseteq Guarded
      /\ Newest \in Nat /\ NoChild \notin Alive
    BY <1>3, NoMoreKeeps, NewestCounts DEF Alive, Children, NoChild
<1>5. SupervisorType'
  <2>1. retried' \in BOOLEAN /\ crossed' \in BOOLEAN
    BY <1>1, <1>2 DEF SupervisorType
  <2>2. handle' \in {NoChild} \cup Children /\ child' \in [Children -> ChildRecords]
    BY <1>1, <1>3 DEF NoMore, Spawned
  <2>3. launches' \in Nat
    <3>1. launches \in Nat
      BY <1>1 DEF SupervisorType
    <3>2. launches' = launches \/ launches' = launches + 1
      BY <1>2
    <3> QED
      BY <3>1, <3>2
  <2>6. starts' \subseteq {MainThread} \cup Children
    BY <1>1, <1>2 DEF SupervisorType
  <2>4. status' \in {"starting", "ready", "stopping", "stopped", "failed"} /\ session' \in {NoChild} \cup Children
    BY <1>1, <1>2 DEF SupervisorType
  <2>5. main' \in {"starts", "run", "launch", "exits", "waits to launch", "waits to exit", "gone"}
    BY <1>1, <1>2 DEF SupervisorType
  <2> QED
    BY <2>1, <2>2, <2>3, <2>4, <2>5, <2>6 DEF SupervisorType
<1>6. Guarded' = Guarded /\ Waiting' = Waiting
  <2>1. Guarded' = Guarded
    BY <1>1, <1>2, <1>4 DEF Alive, Guarded, Waiting
  <2>2. Waiting' = Waiting
    BY <1>1, <1>2, <1>4 DEF Alive, Guarded, Waiting
  <2> QED
    BY <2>1, <2>2
<1>7. ASSUME ~crossed' PROVE StartsApart'
  <2>1. ~crossed /\ StartsApart
    BY <1>2, <1>7 DEF SupervisorInv
  <2> QED
    BY <1>2, <1>4, <1>6, <1>7, <2>1 DEF StartsApart
<1>8. StartsBudget'
    BY <1>2, <1>3, BudgetKept
<1>9. HandleInUse'
    BY <1>1, <1>2 DEF HandleInUse
<1>10. StartGoesOn'
    BY <1>1, <1>2, <1>6 DEF StartGoesOn
<1> QED
    BY <1>2, <1>3, <1>5, <1>7, <1>8, <1>9, <1>10, CalmStepKeeps

\* A child is spawned.
LEMMA SpawnKeeps ==
    ASSUME SupervisorInv, NEW who \in {MainThread} \cup Children, Spawn(who)
    PROVE  SupervisorInv'
<1>1. /\ SupervisorType /\ ChildrenTrue /\ HandleInUse /\ StartGoesOn /\ StartsBudget
      /\ Newest \in Nat /\ IsFiniteSet(Spawned) /\ IsFiniteSet(starts) /\ Cardinality(starts) \in Nat
    BY NewestCounts DEF SupervisorInv
<1> DEFINE c == Newest + 1
           new == [Unborn EXCEPT !.proc = "booting", !.task = "guarded", !.by = who]
<1>2. /\ who \in starts /\ starts' = starts \ {who} /\ c \in Children
      /\ UNCHANGED <<status, session, handle, retried, main, launches, crossed>> /\ main # "gone"
    BY <1>1, SupervisorBounds DEF Spawn, Running, Children
<1>0. Unborn \in ChildRecords /\ Unborn.events = <<>>
    BY DEF Unborn, ChildRecords
<1>3. /\ new \in ChildRecords /\ new.proc = "booting" /\ new.task = "guarded" /\ new.events = <<>>
    BY <1>0 DEF ChildRecords
<1>4. child' = [child EXCEPT ![c] = new]
    BY DEF Spawn
<1> HIDE DEF new
<1>5. child' \in [Children -> ChildRecords] /\ \A d \in Children : child'[d] = IF d = c THEN new ELSE child[d]
    BY <1>1, <1>2, <1>3, <1>4 DEF SupervisorType
<1>6. c \notin Spawned /\ Spawned' = Spawned \cup {c}
    BY <1>1, <1>2, <1>3, <1>5 DEF ChildrenTrue, Spawned, Children
<1>7. Newest' = Newest + 1
    BY <1>1, <1>6, FS_AddElement DEF Newest
<1>8. Alive' = Alive \cup {c} /\ Guarded' = Guarded \cup {c}
    BY <1>2, <1>3, <1>5 DEF Alive, Guarded
<1> HIDE DEF c
<1>9. c = Newest + 1
    BY DEF c
<1>10. SupervisorType'
    BY <1>1, <1>2, <1>5 DEF SupervisorType
<1>11. ChildrenTrue'
  <2>1. \A d \in Children : d \in Spawned' <=> d <= Newest'
    BY <1>1, <1>6, <1>7, <1>9 DEF ChildrenTrue, Children
  <2> QED
    BY <1>1, <1>2, <1>3, <1>5, <1>6, <2>1 DEF ChildrenTrue
<1>12. ASSUME ~crossed' PROVE StartsApart'
  <2>1. StartsApart
    BY <1>2, <1>12 DEF SupervisorInv
  <2>2. starts' = {} /\ Alive = {} /\ Guarded = {} /\ handle = NoChild
    BY <1>2, <2>1 DEF StartsApart
  <2>3. status # "ready"
    BY <2>1, <2>2 DEF StartsApart
  <2> QED
    BY <1>2, <1>7, <1>8, <1>9, <2>2, <2>3 DEF StartsApart
<1>13. StartsBudget'
  <2>1. Cardinality(starts') = Cardinality(starts) - 1
    BY <1>1, <1>2, FS_RemoveElement
  <2>2. RestartLeft' = RestartLeft /\ RestartLeft \in {0, 1} /\ launches \in Nat
    BY <1>1, <1>2 DEF RestartLeft, SupervisorType
  <2> QED
    BY <1>1, <1>2, <1>7, <2>1, <2>2 DEF StartsBudget
<1>14. HandleInUse' /\ NoneLeftBehind'
    BY <1>1, <1>2 DEF HandleInUse, NoneLeftBehind
<1>15. StartGoesOn'
    BY <1>8 DEF StartGoesOn
<1> QED
    BY <1>10, <1>11, <1>12, <1>13, <1>14, <1>15 DEF SupervisorInv

\* The invariant does not depend on what is not a variable of the supervisor.
LEMMA SupervisorStutters ==
    ASSUME SupervisorInv, UNCHANGED supervisorVars
    PROVE  SupervisorInv'
<1> USE DEF supervisorVars
<1>1. NoMore(child')
    BY NoMoreStays
<1>2. Alive' = Alive /\ Guarded' = Guarded /\ Waiting' = Waiting
    BY DEF Alive, Guarded, Waiting
<1>3. handle' \in {NoChild} \cup Spawned /\ SupervisorType' /\ HandleInUse'
    BY DEF SupervisorInv, SupervisorType, ChildrenTrue, HandleInUse
<1>4. Newest' = Newest
    BY <1>1, <1>3, NoMoreKeeps
<1>5. ~crossed' => StartsApart'
    BY <1>2, <1>4 DEF SupervisorInv, StartsApart
<1>6. StartsBudget' /\ StartGoesOn'
    BY <1>1, <1>2, <1>3, BudgetKept DEF SupervisorInv, StartGoesOn
<1> QED
    BY <1>1, <1>3, <1>5, <1>6, CalmStepKeeps

\* Every step keeps the invariant.
LEMMA SupervisorInvStep == SupervisorInv /\ [SupervisorNext]_supervisorVars => SupervisorInv'
<1> SUFFICES ASSUME SupervisorInv, [SupervisorNext]_supervisorVars PROVE SupervisorInv'
    OBVIOUS
<1>1. ASSUME NEW who \in {MainThread} \cup Children, StartFails(who) \/ Spawn(who) PROVE SupervisorInv'
    BY <1>1, StartFailsKeeps, SpawnKeeps
<1>2. ASSUME NEW why \in {"install", "exit"}, StopBegins(why) \/ StopEnds(why) PROVE SupervisorInv'
    BY <1>2, StopBeginsKeeps, StopEndsKeeps
<1>3. ASSUME NEW c \in Children, \/ BootstrapFails(c) \/ SetChild(c) \/ TakeHandshake(c) \/ TakeError(c) \/ TakeTerminated(c)
                                 \/ DeadlineOver(c) \/ DeadlineStrikes(c)
      PROVE  SupervisorInv'
    BY <1>3, BootstrapFailsKeeps, SetChildKeeps, TakeHandshakeKeeps, TakeErrorKeeps, TakeTerminatedKeeps, DeadlineOverKeeps,
       DeadlineStrikesKeeps
<1>4. ASSUME NEW c \in Children, Boots(c) \/ Obeys(c) \/ Dies(c) \/ WritesBadLine(c) PROVE SupervisorInv'
    BY <1>4, ObeysKeeps, WritesKeeps
<1>5. CASE Launched \/ LaunchFails
    BY <1>5, LaunchedKeeps, LaunchFailsKeeps
<1> QED
    BY <1>1, <1>2, <1>3, <1>4, <1>5, SupervisorStutters DEF SupervisorNext

\* The inductive invariant implies the property.
LEMMA SupervisorInvImplies == SupervisorInv => SupervisorTrue
<1> SUFFICES ASSUME SupervisorInv PROVE SupervisorTrue
    OBVIOUS
<1>1. OneDaemon
  <2>1. CASE crossed
    BY <2>1 DEF OneDaemon
  <2>2. CASE ~crossed
    <3>1. Alive \subseteq {Newest}
        BY <2>2 DEF SupervisorInv, StartsApart
    <3>2. Cardinality(Alive) <= Cardinality({Newest}) /\ Cardinality({Newest}) = 1
        BY <3>1, FS_Singleton, FS_Subset
    <3> QED
        BY <3>2 DEF OneDaemon
  <2> QED
    BY <2>1, <2>2 DEF SupervisorInv, SupervisorType
<1>2. ReadyIsTheChild
    BY DEF SupervisorInv, StartsApart, ReadyIsTheChild
<1>3. RestartsOnce
  <2>1. RestartLeft \in {0, 1}
    BY DEF RestartLeft
  <2>2. Newest \in Nat /\ Cardinality(starts) \in Nat /\ launches \in Nat /\ StartsBudget
    BY NewestCounts DEF SupervisorInv, SupervisorType
  <2> QED
    BY <2>1, <2>2 DEF StartsBudget, RestartsOnce
<1>4. StartIsWatched
    BY DEF SupervisorInv, StartGoesOn, StartIsWatched, Running, InProgress, Guarded, Waiting
<1> QED
    BY <1>1, <1>2, <1>3, <1>4 DEF SupervisorTrue, SupervisorInv

\* For any number of children, crashes, failing starts and updates that were not

\* launched: one daemon at a time, the one that Ready shows is the one the Desktop
\* controls, every start has its deadline, none is left behind, and there is one
\* restart for each deliberate start.
THEOREM SupervisorIsTrue == SupervisorSpec => []SupervisorTrue
BY SupervisorInitially, SupervisorInvStep, SupervisorInvImplies, PTL DEF SupervisorSpec

=============================================================================
