--------------------------- MODULE CredentialFile ---------------------------
(***************************************************************************)
(* The .env of a profile holds the credential of its model provider, those *)
(* of its channels and those of its MCP servers, beside lines of the user. *)
(* Every writer reads the file, works out the new contents, and commits:   *)
(* it compares the file with what it read before it stages its copy and    *)
(* again before it renames the copy over the file, and then reads it back. *)
(* The model page and the channel worker hold the lock of the instance;    *)
(* the MCP worker does not, and Hermes and the user edit the file as they  *)
(* like.                                                                   *)
(***************************************************************************)
EXTENDS Naturals, Sequences, SequencesExt

CONSTANTS MaxSaves,      \* bound: credentials saved or deleted
          MaxEnvEdits,   \* bound: edits by Hermes or the user
          MaxEnvFaults   \* bound: failing file operations and stops of the daemon

ASSUME EnvBounds == MaxSaves \in Nat /\ MaxEnvEdits \in Nat /\ MaxEnvFaults \in Nat

VARIABLES env,       \* the lines of .env, in order
          account,   \* the account file of the channel: the save it is from, or None
          writer,    \* what each writer is doing
          told,      \* per writer: the save it last put in the file, None, or Unknown
          saves, envEdits, envFaults,
          overtaken  \* ghost: writers whose file was changed after their last look

envVars == <<env, account, writer, told, saves, envEdits, envFaults, overtaken>>

Writers == {"model", "channel", "server"}
\* The keys in the order they are written.  Two of the keys of a channel stand for all.
Owns == [model |-> <<"MODEL">>, channel |-> <<"ID", "TOKEN">>, server |-> <<"SERVER">>]
Keys(w) == {Owns[w][i] : i \in DOMAIN Owns[w]}
EveryKey == UNION {Keys(w) : w \in Writers}
HoldsInstanceLock == {"model", "channel"}

None == 0
Unknown == MaxSaves + 1
ByUser == MaxSaves + 2

IdleWriter == [at |-> "idle", save |-> None, saw |-> <<>>, copy |-> <<>>, undo |-> FALSE]

EnvInit ==
    /\ env \in {<<>>, <<[key |-> "comment", value |-> ByUser]>>} /\ account = None
    /\ writer = [w \in Writers |-> IdleWriter] /\ told = [w \in Writers |-> None]
    /\ saves = 0 /\ envEdits = 0 /\ envFaults = 0 /\ overtaken = {}

(***************************************************************************)
(* The contents.                                                           *)
(***************************************************************************)
Assignments(lines, key) == {i \in DOMAIN lines : lines[i].key = key}
\* Two lines that assign one key are refused.
Ambiguous(lines, w) == \E key \in Keys(w) : \E i, j \in Assignments(lines, key) : i # j

\* replaceCredentialAssignment: in place, or at the end.
Assigned(lines, key, value) ==
    IF Assignments(lines, key) = {} THEN Append(lines, [key |-> key, value |-> value])
    ELSE [i \in DOMAIN lines |-> IF lines[i].key = key THEN [lines[i] EXCEPT !.value = value]
                                 ELSE lines[i]]

\* deleteCredentialAssignment: the line goes, if there is one.
Without(lines, key) ==
    IF Assignments(lines, key) = {} THEN lines
    ELSE RemoveAt(lines, CHOOSE i \in Assignments(lines, key) : TRUE)

\* setAssignments and deleteAssignments: one key after the other, both in one commit.
SetAll(lines, w, value) ==
    LET first == Assigned(lines, Owns[w][1], value) IN
    IF Len(Owns[w]) = 1 THEN first ELSE Assigned(first, Owns[w][2], value)
DeleteAll(lines, w) ==
    LET first == Without(lines, Owns[w][1]) IN
    IF Len(Owns[w]) = 1 THEN first ELSE Without(first, Owns[w][2])
Contents(lines, w, value) == IF value = None THEN DeleteAll(lines, w) ELSE SetAll(lines, w, value)

(***************************************************************************)
(* A writer.                                                               *)
(***************************************************************************)
EnvFault == envFaults < MaxEnvFaults /\ envFaults' = envFaults + 1
NoEnvFault == UNCHANGED envFaults
WriterAt(w, step) == writer[w].at = step
Steps(w, step) == writer' = [writer EXCEPT ![w].at = step]
Unchanged(w) == env = writer[w].saw
Rests(w) == writer' = [writer EXCEPT ![w] = IdleWriter]
\* The caller learns that it failed, and not what the file holds.
FailsNow(w) == Rests(w) /\ told' = [told EXCEPT ![w] = Unknown]
counts == <<saves, envEdits>>

\* Set or Delete up to the commit, a save of None being a deletion.  A file that
\* already says so is left alone.
ReadEnv(w, save) ==
    /\ WriterAt(w, "idle") /\ saves < MaxSaves /\ saves' = saves + 1
    /\ w \in HoldsInstanceLock => \A v \in HoldsInstanceLock : WriterAt(v, "idle")
    /\ LET new == Contents(env, w, save) IN
       IF Ambiguous(env, w) THEN UNCHANGED <<writer, told>>
       ELSE /\ told' = (IF new = env THEN [told EXCEPT ![w] = save] ELSE told)
            /\ writer' = IF new = env /\ w # "channel" THEN writer
                         ELSE [writer EXCEPT ![w] =
                                 [at |-> IF new = env THEN "account" ELSE "look", save |-> save,
                                  saw |-> env, copy |-> new, undo |-> FALSE]]
    /\ overtaken' = overtaken \ {w}
    /\ UNCHANGED <<env, account, envEdits, envFaults>>

\* The first comparison, and the staged copy.
Stage(w) ==
    /\ WriterAt(w, "look") /\ UNCHANGED <<env, account, counts, overtaken>>
    /\ \/ NoEnvFault /\ Unchanged(w) /\ Steps(w, "lookAgain") /\ UNCHANGED told
       \/ ~Unchanged(w) /\ NoEnvFault /\ FailsNow(w)
       \/ EnvFault /\ FailsNow(w)

\* Mutant: the staged copy is renamed without a second comparison.
RenameAtOnce(w) ==
    /\ WriterAt(w, "lookAgain") /\ Steps(w, "rename") /\ UNCHANGED <<env, account, counts, told, envFaults>>
    /\ overtaken' = overtaken \ {w}

\* The second comparison.
LookAgain(w) ==
    /\ WriterAt(w, "lookAgain") /\ UNCHANGED <<env, account, counts>> /\ NoEnvFault
    /\ overtaken' = overtaken \ {w}
    /\ \/ Unchanged(w) /\ Steps(w, "rename") /\ UNCHANGED told
       \/ ~Unchanged(w) /\ FailsNow(w)

\* The rename.  What came after the second comparison is lost with the old file.
RenameOver(w) ==
    /\ WriterAt(w, "rename") /\ UNCHANGED <<account, counts>>
    /\ \/ /\ NoEnvFault /\ Steps(w, "confirm")
          /\ env' = writer[w].copy
          /\ told' = [v \in Writers |-> IF v = w THEN writer[w].save
                                        ELSE IF w \in overtaken THEN Unknown ELSE told[v]]
          /\ overtaken' = (overtaken \ {w}) \cup {v \in Writers \ {w} : WriterAt(v, "rename")}
       \/ EnvFault /\ FailsNow(w) /\ UNCHANGED <<env, overtaken>>

\* The file is read back.  A channel goes on to its account file.
Confirm(w) ==
    /\ WriterAt(w, "confirm") /\ UNCHANGED <<env, account, counts, overtaken>> /\ NoEnvFault
    /\ LET goesOn == w = "channel" /\ ~writer[w].undo IN
       \/ env = writer[w].copy /\ goesOn /\ Steps(w, "account") /\ UNCHANGED told
       \/ env = writer[w].copy /\ ~goesOn /\ ~writer[w].undo /\ Rests(w) /\ UNCHANGED told
       \/ (env # writer[w].copy \/ writer[w].undo) /\ FailsNow(w)

\* SetWeixin writes the account file, and takes its assignments back when it cannot;
\* Delete removes the account file that the ID line named, and fails when it cannot.
FinishAccount ==
    /\ WriterAt("channel", "account") /\ UNCHANGED <<env, counts, overtaken>>
    /\ LET save == writer["channel"].save
           back == Contents(env, "channel", None) IN
       \/ /\ NoEnvFault /\ Rests("channel") /\ UNCHANGED told
          /\ account' = IF save # None THEN save
                        ELSE IF \E i \in Assignments(writer["channel"].saw, "ID") :
                                   writer["channel"].saw[i].value = account
                        THEN None ELSE account
       \/ EnvFault /\ UNCHANGED account /\ (save = None \/ Ambiguous(env, "channel") \/ back = env) /\ FailsNow("channel")
       \/ /\ EnvFault /\ UNCHANGED <<account, told>> /\ save # None /\ ~Ambiguous(env, "channel") /\ back # env
          /\ writer' = [writer EXCEPT !["channel"] = [at |-> "look", save |-> None, saw |-> env,
                                                     copy |-> back, undo |-> TRUE]]

(***************************************************************************)
(* The other hands.                                                        *)
(***************************************************************************)
\* Hermes or the user writes a line of the file: the writer of its key no longer knows.
EditEnv(new, key) ==
    /\ envEdits < MaxEnvEdits /\ envEdits' = envEdits + 1
    /\ env' = new
    /\ told' = [w \in Writers |-> IF key \in Keys(w) THEN Unknown ELSE told[w]]
    /\ overtaken' = overtaken \cup {w \in Writers : WriterAt(w, "rename")}
    /\ UNCHANGED <<account, writer, saves, envFaults>>

HandEdit ==
    \/ \E i \in DOMAIN env : EditEnv(RemoveAt(env, i), env[i].key)
    \/ \E key \in EveryKey \cup {"comment"} : EditEnv(Append(env, [key |-> key, value |-> ByUser]), key)

\* A stop leaves the file as it is, and at most a staged copy beside it.
StopWriters ==
    /\ EnvFault /\ writer' = [w \in Writers |-> IdleWriter] /\ overtaken' = {}
    /\ told' = [w \in Writers |-> IF WriterAt(w, "idle") THEN told[w] ELSE Unknown]
    /\ UNCHANGED <<env, account, counts>>

WriterStep(w) == Stage(w) \/ LookAgain(w) \/ RenameOver(w) \/ Confirm(w)

EnvNext ==
    \/ \E w \in Writers : WriterStep(w) \/ ReadEnv(w, saves + 1) \/ ReadEnv(w, None)
    \/ FinishAccount \/ StopWriters
    \/ HandEdit

EnvSpec == EnvInit /\ [][EnvNext]_envVars
-----------------------------------------------------------------------------
(***************************************************************************)
(* Properties.                                                             *)
(***************************************************************************)
\* A credential whose saving or deletion was reported done is what the file holds,
\* all the keys of a channel and its account file alike, whatever the other writers
\* did since (a deletion leaves an account file that the ID line no longer named).
\* What takes the knowledge away: a later call that failed, a hand on
\* those very lines, and another writer overtaken between its second look and its
\* rename, which puts back the file it had read.
EnvTrue ==
    /\ \A w \in Writers : WriterAt(w, "idle") /\ told[w] # Unknown =>
          \A key \in Keys(w) :
             {env[i].value : i \in Assignments(env, key)} = {told[w]} \ {None}
    /\ WriterAt("channel", "idle") /\ told["channel"] \notin {None, Unknown} => account = told["channel"]
=============================================================================
