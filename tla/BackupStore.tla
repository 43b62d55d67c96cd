---------------------------- MODULE BackupStore ----------------------------
(***************************************************************************)
(* Backups as three stores that no transaction joins: the protected device *)
(* key of the secret store, the encrypted artifact at a destination, and   *)
(* the row of the backup index.  CreateBackup makes the key at its first   *)
(* use, publishes a verified artifact without replacing a file and then    *)
(* inserts the row; DeleteBackup removes the artifact and then the row.    *)
(* Workers run beside each other (a cancelled one works on beside its      *)
(* successor), each under a context that may be cancelled at any step.     *)
(***************************************************************************)
EXTENDS Naturals, FiniteSets

CONSTANTS Jobs,       \* calls of CreateBackup, each with its own backup id
          Paths,      \* destinations the user or the data directory offers
          NoPath,
          MaxErrors,  \* bound: failing calls
          MaxExits    \* bound: crashes of the daemon

ASSUME BackupBounds == NoPath \notin Paths /\ 0 \notin Jobs /\ MaxErrors \in Nat /\ MaxExits \in Nat

VARIABLES key,        \* the protected file of the device key reference, or 0
          artifacts,  \* what lies at each destination
          index,      \* the rows: backup id to destination, or NoPath
          grants,     \* destinations granted and not yet consumed
          job,        \* what each call is doing
          keys, errors, exits,
          halfway     \* ghost: jobs stopped between two of the stores

backupVars == <<key, artifacts, index, grants, job, keys, errors, exits, halfway>>

Empty == [of |-> 0, key |-> 0]
IdleJob == [at |-> "new", path |-> NoPath, key |-> 0, cancelled |-> FALSE]

BackupInit ==
    /\ key = 0 /\ keys = 0 /\ errors = 0 /\ exits = 0
    /\ artifacts = [p \in Paths |-> Empty]
    /\ index = [j \in Jobs |-> NoPath]
    /\ grants = {} /\ job = [j \in Jobs |-> IdleJob] /\ halfway = {}

Error == errors < MaxErrors /\ errors' = errors + 1
NoError == UNCHANGED errors
Ok(j) == NoError /\ ~job[j].cancelled
\* Most calls take the context, and fail once it is cancelled.
Fails(j) == Error \/ (NoError /\ job[j].cancelled)
Step(j, at) == job' = [job EXCEPT ![j].at = at]
Done(j) == Step(j, "done")
(***************************************************************************)
(* The destination registry: one grant, one use.                           *)
(***************************************************************************)
\* InspectLocalDestination grants only a path where nothing lies.
Grant(p) ==
    /\ p \notin grants /\ artifacts[p] = Empty
    /\ grants' = grants \cup {p}
    /\ UNCHANGED <<key, artifacts, index, job, keys, errors, exits, halfway>>

Expire(p) ==
    /\ p \in grants /\ grants' = grants \ {p}
    /\ UNCHANGED <<key, artifacts, index, job, keys, errors, exits, halfway>>

\* CreateBackup up to the destination; the backup id is new.
Consume(j, p) ==
    /\ job[j].at = "new" /\ p \in grants
    /\ grants' = grants \ {p}
    /\ job' = [job EXCEPT ![j].at = "inspectKey", ![j].path = p]
    /\ UNCHANGED <<key, artifacts, index, keys, errors, exits, halfway>>

(***************************************************************************)
(* useDeviceKey: Inspect, Generate when there is none, Get.  The store's   *)
(* lock is held by each call, not across them, and the identity is made    *)
(* outside it.                                                             *)
(***************************************************************************)
InspectKey(j) ==
    /\ job[j].at = "inspectKey"
    /\ UNCHANGED <<key, artifacts, index, grants, keys, exits, halfway>>
    /\ \/ Ok(j) /\ Step(j, IF key = 0 THEN "makeKey" ELSE "getKey")
       \/ Fails(j) /\ Done(j)

MakeKey(j) ==
    /\ job[j].at = "makeKey" /\ Ok(j)
    /\ keys' = keys + 1
    /\ job' = [job EXCEPT ![j].at = "putKey", ![j].key = keys + 1]
    /\ UNCHANGED <<key, artifacts, index, grants, exits, errors, halfway>>

\* Mutant: the protected file is moved over an existing one.
PutKeyReplacing(j) ==
    /\ job[j].at = "putKey"
    /\ UNCHANGED <<artifacts, index, grants, keys, exits, halfway>>
    /\ \/ NoError /\ key' = job[j].key /\ Step(j, "getKey")
       \/ Error /\ Done(j) /\ UNCHANGED key

\* put moves a complete protected file into place and never replaces one;
\* ErrAlreadyExists is no error here.
PutKey(j) ==
    /\ job[j].at = "putKey"
    /\ UNCHANGED <<artifacts, index, grants, keys, exits, halfway>>
    /\ \/ /\ NoError /\ key' = (IF key = 0 THEN job[j].key ELSE key)
          /\ Step(j, "getKey")
       \/ Error /\ Done(j) /\ UNCHANGED key

GetKey(j) ==
    /\ job[j].at = "getKey"
    /\ UNCHANGED <<key, artifacts, index, grants, keys, exits, halfway>>
    /\ \/ Ok(j) /\ job' = [job EXCEPT ![j].at = "publish", ![j].key = key]
       \/ Fails(j) /\ Done(j)

(***************************************************************************)
(* publishVerifiedArtifact: encrypt into a staging file, verify it, look   *)
(* at the destination again, publish without replacing, then sync, reopen  *)
(* and hash what was published.                                            *)
(***************************************************************************)
Publish(j) ==
    /\ job[j].at = "publish"
    /\ UNCHANGED <<key, index, grants, keys, exits, halfway>>
    /\ \/ /\ Ok(j) /\ artifacts[job[j].path] = Empty
          /\ artifacts' = [artifacts EXCEPT ![job[j].path] = [of |-> j, key |-> job[j].key]]
          /\ Step(j, "rehash")
       \/ /\ Fails(j) \/ (NoError /\ artifacts[job[j].path] # Empty)
          /\ Done(j) /\ UNCHANGED artifacts

\* Past the rename every failure is PUBLISHED_RECONCILE_REQUIRED: the file stays.
Rehash(j) ==
    /\ job[j].at = "rehash"
    /\ UNCHANGED <<key, artifacts, index, grants, keys, exits>>
    /\ \/ Ok(j) /\ Step(j, "insert") /\ UNCHANGED halfway
       \/ Fails(j) /\ Done(j) /\ halfway' = halfway \cup {j}

InsertIndex(j) ==
    /\ job[j].at = "insert"
    /\ UNCHANGED <<key, artifacts, grants, keys, exits, halfway>>
    /\ \/ Ok(j) /\ index' = [index EXCEPT ![j] = job[j].path] /\ Done(j)
       \/ Fails(j) /\ Step(j, "withdraw") /\ UNCHANGED index

\* A failed insert removes the artifact again, after verifying it under the
\* same context: when that is cancelled, the artifact stays.
Withdraw(j) ==
    /\ job[j].at = "withdraw" /\ Done(j)
    /\ UNCHANGED <<key, index, grants, keys, exits>>
    /\ \/ Ok(j) /\ artifacts' = [artifacts EXCEPT ![job[j].path] = Empty] /\ UNCHANGED halfway
       \/ Fails(j) /\ halfway' = halfway \cup {j} /\ UNCHANGED artifacts

(***************************************************************************)
(* DeleteBackup.  It runs as the job of the backup it deletes.             *)
(***************************************************************************)
\* getIndex and verifyIndexedArtifact: the artifact must be the indexed one.
StartDelete(j) ==
    /\ job[j].at = "done" /\ index[j] # NoPath /\ artifacts[index[j]].of = j
    /\ job' = [job EXCEPT ![j].at = "remove", ![j].cancelled = FALSE]
    /\ UNCHANGED <<key, artifacts, index, grants, keys, errors, exits, halfway>>

RemoveArtifact(j) ==
    /\ job[j].at = "remove"
    /\ UNCHANGED <<key, index, grants, keys, exits, halfway>>
    /\ \/ /\ NoError /\ Step(j, "deleteRow")
          /\ artifacts' = [artifacts EXCEPT ![index[j]] = Empty]
       \/ Error /\ Done(j) /\ UNCHANGED artifacts

DeleteRow(j) ==
    /\ job[j].at = "deleteRow" /\ Done(j)
    /\ UNCHANGED <<key, artifacts, grants, keys, exits>>
    /\ \/ Ok(j) /\ index' = [index EXCEPT ![j] = NoPath] /\ UNCHANGED halfway
       \/ Fails(j) /\ halfway' = halfway \cup {j} /\ UNCHANGED index

(***************************************************************************)
(* The world.                                                              *)
(***************************************************************************)
Working(j) == job[j].at \notin {"new", "done"}

CancelJob(j) ==
    /\ Working(j) /\ ~job[j].cancelled
    /\ job' = [job EXCEPT ![j].cancelled = TRUE]
    /\ UNCHANGED <<key, artifacts, index, grants, keys, errors, exits, halfway>>

\* The daemon stops: contexts, grants and workers go; the three stores stay.
ExitDaemon ==
    /\ IF \E j \in Jobs : Working(j) THEN exits < MaxExits /\ exits' = exits + 1 ELSE UNCHANGED exits
    /\ grants' = {}
    /\ job' = [j \in Jobs |-> IF Working(j) THEN [job[j] EXCEPT !.at = "done"] ELSE job[j]]
    /\ halfway' = halfway \cup {j \in Jobs : job[j].at \in {"rehash", "insert", "withdraw", "deleteRow"}}
    /\ UNCHANGED <<key, artifacts, index, keys, errors>>

BackupNext ==
    \/ \E p \in Paths : Grant(p) \/ Expire(p)
    \/ \E j \in Jobs, p \in Paths : Consume(j, p)
    \/ \E j \in Jobs :
          \/ InspectKey(j) \/ MakeKey(j) \/ PutKey(j) \/ GetKey(j)
          \/ Publish(j) \/ Rehash(j) \/ InsertIndex(j) \/ Withdraw(j)
          \/ StartDelete(j) \/ RemoveArtifact(j) \/ DeleteRow(j) \/ CancelJob(j)
    \/ ExitDaemon

BackupSpec == BackupInit /\ [][BackupNext]_backupVars
-----------------------------------------------------------------------------
(***************************************************************************)
(* Properties.                                                             *)
(***************************************************************************)
\* The three stores agree: an indexed backup lies at its destination and can
\* be decrypted with the one device key; what lies at a destination is indexed.
\* Only a call that stopped between two of them (a crash, a cancelled context,
\* a failed second write) may leave them apart.
BackupsAgree ==
    /\ \A j \in Jobs : index[j] # NoPath /\ job[j].at # "deleteRow" /\ j \notin halfway =>
          artifacts[index[j]] = [of |-> j, key |-> key]
    /\ \A j \in Jobs, p \in Paths : artifacts[p].of = j =>
          /\ artifacts[p].key = key
          /\ index[j] = p \/ job[j].at \in {"rehash", "insert", "withdraw"} \/ j \in halfway
=============================================================================
