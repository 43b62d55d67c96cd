---------------------------- MODULE MCDataSafety ----------------------------
(***************************************************************************)
(* What outlives a process: the Hermes data directory under restore, the   *)
(* database under migration, the backups and the snapshot a backup is made *)
(* of, the credentials of a channel, the daemon that the Desktop keeps,    *)
(* the update of the Desktop and the data it was renamed with, Node, npm   *)
(* and the dependencies of Hermes, and a backup that is read again.  They  *)
(* share no state, so one run checks them side by side: "part" is chosen   *)
(* initially and only that part takes steps.                               *)
(***************************************************************************)
EXTENDS RestoreTransaction, MigrationProtection, BackupStore, BackupSnapshot,
        DaemonSupervisor, DesktopUpdate, ChannelConnection, ProductData,
        NodePrerequisites, BackupArtifact

\* A directory, its name in capitals, and a name in it.
MCAbove == [k \in Keys |-> IF k = "d/x" THEN {"d"} ELSE {}]
MCFold == [k \in Names |-> IF k = "D" THEN "d" ELSE k]

\* The accounts are interchangeable: it does not matter which was there before.
FirstAccount == CHOOSE a \in Accounts : TRUE

VARIABLE part

AllVars == <<part, restoreVars, migrationVars, backupVars, snapshotVars, supervisorVars, updateVars,
             channelVars, productVars, prereqVars, artifactVars>>
Parts == {"restore", "migration", "backups", "snapshot", "supervisor", "update", "channels", "product", "prerequisites",
          "artifact"}

\* A part that takes no steps stays in one of its initial states.
Only(p, initial) == part # p => initial

MCInit ==
    /\ part \in Parts
    /\ RestoreInit /\ Only("restore", rTxn = CHOOSE t \in Txns : TRUE)
    /\ MigrationInit /\ Only("migration", db = Database(1, 0) /\ program = 1)
    /\ BackupInit
    /\ SnapshotInit /\ Only("snapshot", Present(bytes) = {})
    /\ SupervisorInit /\ Only("supervisor", main = "run")
    /\ UpdateInit
    /\ ChannelsInit /\ Only("channels", credentials = NoCredentials)
    /\ credentials.account \in {NoAccount, FirstAccount}
    /\ ProductDataInit /\ Only("product", legacy = NoTree /\ stable = NoDirectory)
    /\ PrereqInit /\ Only("prerequisites", nodeExe = "none" /\ lockFile = 0)
    /\ ArtifactInit /\ Only("artifact", use = "verify" /\ header = NoHeader)

OthersStill ==
    /\ part # "restore" => UNCHANGED restoreVars
    /\ part # "migration" => UNCHANGED migrationVars
    /\ part # "backups" => UNCHANGED backupVars
    /\ part # "snapshot" => UNCHANGED snapshotVars
    /\ part # "supervisor" => UNCHANGED supervisorVars
    /\ part # "update" => UNCHANGED updateVars
    /\ part # "channels" => UNCHANGED channelVars
    /\ part # "product" => UNCHANGED productVars
    /\ part # "prerequisites" => UNCHANGED prereqVars
    /\ part # "artifact" => UNCHANGED artifactVars

MCNext ==
    /\ UNCHANGED part /\ OthersStill
    /\ \/ part = "restore" /\ RestoreNext
       \/ part = "migration" /\ MigrationNext
       \/ part = "backups" /\ BackupNext
       \/ part = "snapshot" /\ SnapshotNext
       \/ part = "supervisor" /\ SupervisorNext
       \/ part = "update" /\ UpdateNext
       \/ part = "channels" /\ ChannelsNext
       \/ part = "product" /\ ProductDataNext
       \/ part = "prerequisites" /\ PrereqNext
       \/ part = "artifact" /\ ArtifactNext

MCSpec == MCInit /\ [][MCNext]_AllVars
=============================================================================
