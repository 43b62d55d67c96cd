------------------------ MODULE MigrationProtection ------------------------
(***************************************************************************)
(* Opening the database (sqlite.Open).  A program whose embedded schema is *)
(* newer than the database copies the database aside (VACUUM INTO), writes *)
(* a state file RUNNING, migrates one version per transaction, verifies,   *)
(* records a history row, writes SUCCEEDED and trims the old copies.  On   *)
(* any error, and at the next start after a crash, the copy is put back.   *)
(*                                                                         *)
(* The database is its schema version and the number of writes made by the *)
(* daemons that served it; "mixed" is what SQLite makes of a restored file *)
(* when it rolls a rollback journal of another file's pages back into it.  *)
(***************************************************************************)
EXTENDS Naturals, FiniteSets

CONSTANTS MaxVersion,      \* bound: schema versions the installed programs embed
          MaxProtections,  \* maxProtectionFiles
          MaxWrites,       \* bound: writes of serving daemons
          MaxIOFaults,     \* bound: failing file system or SQL calls
          MaxKills,        \* bound: crashes of the process
          MaxRuns          \* bound: protected migrations begun

ASSUME MigrationBounds ==
    MaxVersion \in Nat \ {0} /\ MaxProtections \in Nat \ {0} /\ MaxRuns \in Nat

VARIABLES db,          \* the database file
          journal,     \* a hot rollback journal: the database it belongs to, or none
          protections, \* the copies, by run number
          state,       \* the state file: the run it describes
          run,         \* the process's migrationRun
          program,     \* the schema version the installed program embeds
          step, writes, ioFaults, kills, runs,
          mixedIn      \* ghost: a restore replaced a database that had a hot journal

migrationVars == <<db, journal, protections, state, run, program, step,
                   writes, ioFaults, kills, runs, mixedIn>>
counters == <<writes, runs, mixedIn, program>>

Database(version, data) == [version |-> version, data |-> data, sound |-> TRUE]
Mixed(old) == [old EXCEPT !.sound = FALSE]
NoJournal == [hot |-> FALSE, db |-> Database(0, 0)]
NoRun == [id |-> 0, status |-> "NONE", source |-> 0, target |-> 0]

MigrationInit ==
    /\ \E version \in 0..MaxVersion : db = Database(version, 0) /\ program \in version..MaxVersion
    /\ journal = NoJournal /\ protections = {} /\ state = NoRun /\ run = NoRun
    /\ program # 0
    /\ step = "down" /\ writes = 0 /\ ioFaults = 0 /\ kills = 0 /\ runs = 0 /\ mixedIn = FALSE

IOFault == ioFaults < MaxIOFaults /\ ioFaults' = ioFaults + 1 /\ UNCHANGED kills
NoIOFault == UNCHANGED <<ioFaults, kills>>
To(next) == step' = next
Exit == To("down")

\* The copy of a run; protection names sort by source, then target, then time.
CopyOf(r) == {p \in protections : p.id = r.id}
After(p, q) ==
    \/ p.source > q.source
    \/ p.source = q.source /\ p.target > q.target
    \/ p.source = q.source /\ p.target = q.target /\ p.id > q.id
Kept == {p \in protections : Cardinality({q \in protections : After(q, p)}) < MaxProtections}

(***************************************************************************)
(* restoreMigrationSource: check the copy's digest, copy it beside the     *)
(* database and rename it over it; a run from an empty database deletes    *)
(* the file instead.  The -wal and -shm files go, the -journal file stays. *)
(***************************************************************************)
CanRestore(r) == r.source = 0 \/ CopyOf(r) # {}

Restored(r) ==
    IF r.source = 0
    THEN /\ db' = Database(0, 0) /\ journal' = NoJournal /\ UNCHANGED mixedIn
    ELSE /\ \E p \in CopyOf(r) : db' = p.db
         /\ mixedIn' = (mixedIn \/ journal.hot) /\ UNCHANGED journal

\* writeMigrationState writes a temporary file and renames it over the state
\* file: a write that fails changes nothing.
WriteState(r) == state' = r
FailWrite == UNCHANGED state

(***************************************************************************)
(* One start of the daemon, up to the point where it serves.               *)
(***************************************************************************)
Open ==
    /\ step = "down" /\ runs < MaxRuns
    /\ UNCHANGED <<db, journal, protections, state, run, counters, ioFaults, kills>>
    /\ To(CASE state.status = "RUNNING" -> "restoreInterrupted"
            [] state.status = "RECOVERY_REQUIRED" -> "down"
            [] OTHER -> "connect")

RestoreInterrupted ==
    /\ step = "restoreInterrupted" /\ run' = state
    /\ UNCHANGED <<protections, state, writes, runs, program>>
    /\ \/ CanRestore(state) /\ NoIOFault /\ Restored(state) /\ To("writeRestoredThenOpen")
       \/ /\ ~CanRestore(state) /\ NoIOFault /\ To("writeRecovery")
          /\ UNCHANGED <<db, journal, mixedIn>>
       \/ IOFault /\ To("writeRecovery") /\ UNCHANGED <<db, journal, mixedIn>>

\* Recovery goes on to open the database; a failed migration ends the start.
WriteRestored(at, next) ==
    /\ step = at /\ UNCHANGED <<db, journal, protections, run, counters>>
    /\ LET done == [run EXCEPT !.status = "RESTORED"] IN
       \/ NoIOFault /\ WriteState(done) /\ To(next)
       \/ /\ IOFault /\ FailWrite
          /\ To(IF at = "writeRestoredThenOpen" THEN "writeRecovery" ELSE "down")

WriteRecovery ==
    /\ step = "writeRecovery" /\ Exit
    /\ UNCHANGED <<db, journal, protections, run, counters>>
    /\ LET lost == [run EXCEPT !.status = "RECOVERY_REQUIRED"] IN
       \/ NoIOFault /\ WriteState(lost)
       \/ IOFault /\ FailWrite

\* The first read of the database rolls a hot journal back.  A database newer
\* than the program is refused.
Connect ==
    /\ step = "connect"
    /\ UNCHANGED <<protections, state, run, counters, ioFaults, kills>>
    /\ journal' = NoJournal
    /\ IF ~journal.hot THEN UNCHANGED db
       ELSE IF journal.db = db THEN UNCHANGED db ELSE db' \in {db, Mixed(db)}
    /\ To(IF db.version > program THEN "down"
          ELSE IF db.version < program THEN "protect" ELSE "verify")

BeginProtection ==
    /\ step = "protect" /\ UNCHANGED <<db, journal, writes, program, mixedIn>>
    /\ \/ /\ NoIOFault /\ runs' = runs + 1
          /\ run' = [id |-> runs + 1, status |-> "RUNNING", source |-> db.version, target |-> program]
          /\ protections' = protections \cup
                (IF db.version = 0 THEN {}
                 ELSE {[id |-> runs + 1, source |-> db.version, target |-> program, db |-> db]})
          /\ To("writeRunning") /\ UNCHANGED state
       \/ IOFault /\ Exit /\ UNCHANGED <<protections, state, run, runs>>

WriteRunning ==
    /\ step = "writeRunning" /\ UNCHANGED <<db, journal, run, counters>>
    /\ \/ NoIOFault /\ WriteState(run) /\ To("migrate") /\ UNCHANGED protections
       \/ IOFault /\ FailWrite /\ Exit /\ protections' = protections \ CopyOf(run)

MigrateOne ==
    /\ step = "migrate" /\ UNCHANGED <<journal, protections, state, run, counters>>
    /\ \/ /\ db.version < program /\ NoIOFault /\ To("migrate")
          /\ db' = [db EXCEPT !.version = @ + 1]
       \/ db.version = program /\ NoIOFault /\ To("verify") /\ UNCHANGED db
       \/ IOFault /\ To("failAndRestore") /\ UNCHANGED db

\* quick_check and foreign_key_check may or may not see that pages are mixed.
Verify ==
    /\ step = "verify" /\ UNCHANGED <<db, journal, protections, state, run, counters>>
    /\ LET migrating == state.status = "RUNNING" IN
       \/ NoIOFault /\ To(IF migrating THEN "history" ELSE "serving")
       \/ /\ \/ IOFault
             \/ NoIOFault /\ ~db.sound
          /\ To(IF migrating THEN "failAndRestore" ELSE "down")

\* completeMigration: the history row, the state file, the trimming.
WriteHistory ==
    /\ step = "history" /\ UNCHANGED <<db, journal, protections, state, run, counters>>
    /\ \/ NoIOFault /\ To("writeSucceeded")
       \/ IOFault /\ To("failAndRestore")

WriteSucceeded ==
    /\ step = "writeSucceeded" /\ UNCHANGED <<db, journal, protections, run, counters>>
    /\ LET done == [run EXCEPT !.status = "SUCCEEDED"] IN
       \/ NoIOFault /\ WriteState(done) /\ To("retain")
       \/ IOFault /\ FailWrite /\ To("failAndRestore")

RetainProtections ==
    /\ step = "retain" /\ UNCHANGED <<db, journal, state, run, counters>>
    /\ \/ NoIOFault /\ protections' = Kept /\ To("serving")
       \/ /\ IOFault /\ To("failAndRestore")
          /\ \E removed \in SUBSET (protections \ Kept) : protections' = protections \ removed

\* Mutant: a copy that cannot be put back is reported RESTORED all the same.
FailAndRestoreIgnored ==
    /\ step = "failAndRestore" /\ UNCHANGED <<protections, state, run, writes, runs, program>>
    /\ To("writeRestored")
    /\ \/ CanRestore(run) /\ NoIOFault /\ Restored(run)
       \/ ~CanRestore(run) /\ NoIOFault /\ UNCHANGED <<db, journal, mixedIn>>
       \/ IOFault /\ UNCHANGED <<db, journal, mixedIn>>

FailAndRestore ==
    /\ step = "failAndRestore" /\ UNCHANGED <<protections, state, run, writes, runs, program>>
    /\ \/ CanRestore(run) /\ NoIOFault /\ Restored(run) /\ To("writeRestored")
       \/ /\ ~CanRestore(run) /\ NoIOFault /\ To("writeRecovery")
          /\ UNCHANGED <<db, journal, mixedIn>>
       \/ IOFault /\ To("writeRecovery") /\ UNCHANGED <<db, journal, mixedIn>>

(***************************************************************************)
(* The world.                                                              *)
(***************************************************************************)
Write ==
    /\ step = "serving" /\ writes < MaxWrites
    /\ writes' = writes + 1 /\ db' = [db EXCEPT !.data = writes + 1]
    /\ UNCHANGED <<journal, protections, state, run, program, step, ioFaults, kills, runs, mixedIn>>

Quit ==
    /\ step = "serving" /\ Exit
    /\ UNCHANGED <<db, journal, protections, state, run, counters, ioFaults, kills>>

InstallProgram ==
    /\ step = "down" /\ program' \in (1..MaxVersion) \ {program}
    /\ UNCHANGED <<db, journal, protections, state, run, step, writes, ioFaults, kills, runs, mixedIn>>

\* A crash inside a commit leaves the journal that undoes it (the default
\* rollback journal: no journal_mode is set).
Kill ==
    /\ step \notin {"down", "serving"} /\ kills < MaxKills /\ kills' = kills + 1 /\ Exit
    /\ UNCHANGED <<db, protections, state, run, counters, ioFaults>>
    /\ \/ UNCHANGED journal
       \/ /\ \/ step = "migrate" /\ db.version < program
             \/ step = "history"
          /\ journal' = [hot |-> TRUE, db |-> db]

MigrationNext ==
    \/ Open \/ RestoreInterrupted \/ WriteRecovery \/ Connect
    \/ WriteRestored("writeRestoredThenOpen", "connect") \/ WriteRestored("writeRestored", "down")
    \/ BeginProtection \/ WriteRunning \/ MigrateOne \/ Verify
    \/ WriteHistory \/ WriteSucceeded \/ RetainProtections \/ FailAndRestore
    \/ Write \/ Quit \/ InstallProgram \/ Kill

MigrationSpec == MigrationInit /\ [][MigrationNext]_migrationVars
-----------------------------------------------------------------------------
(***************************************************************************)
(* Properties.                                                             *)
(***************************************************************************)
\* A daemon only serves a database of its own schema version that holds every
\* write ever served, whatever failed or crashed before - except that a copy
\* put back while a rollback journal of the interrupted commit still lay
\* beside the database may have been mixed with that journal's pages.
ServesMigrated ==
    step = "serving" =>
        /\ db.version = program /\ db.data = writes
        /\ db.sound \/ mixedIn

\* Between starts the state file tells the truth about the file beside it:
\* a run that may have to be undone still has its copy, SUCCEEDED means the
\* target was reached and RESTORED that the source is back.  A process still
\* at work, or an error after SUCCEEDED was written, is what it cannot show.
StateTruthful ==
    step = "down" =>
        /\ state.status = "RUNNING" =>
              \/ state.source = 0
              \/ \E p \in CopyOf(state) : p.db.data = writes
        /\ state.status = "SUCCEEDED" => db.version = state.target \/ ioFaults > 0
        /\ state.status = "RESTORED" => db.version = state.source
        /\ state.status = "RECOVERY_REQUIRED" => ioFaults > 0

\* Neither the database served nor the state file lies about a migration.
\* (openWithMigrationFS, protectPendingMigration)
MigrationTrue == ServesMigrated /\ StateTruthful
=============================================================================
