---------------------------- MODULE SharedModels ----------------------------
(***************************************************************************)
(* Shared models: a provider connection (a row and a secret in the secret  *)
(* store), profiles that use it, the default of the Runtime, and per       *)
(* instance the binding that says which profile was applied and how it     *)
(* went.  An application is an operation whose worker sets one instance    *)
(* after another and records each outcome.  Cancelling cuts the worker's   *)
(* context and ends the operation; the worker notices later, and the next  *)
(* application may start beside it.                                        *)
(***************************************************************************)
EXTENDS Naturals, FiniteSets, Sequences

CONSTANTS MaxHosts,        \* the instances are 1..MaxHosts
          MaxProfiles,     \* bound: profiles at one time
          MaxApplications, \* bound: applications
          MaxModelMishaps  \* bound: failing calls, stops, deletions, new defaults,
                           \*   changes of an instance by its own page

ASSUME ModelBounds == MaxApplications \in Nat /\ MaxModelMishaps \in Nat
                      /\ MaxHosts \in Nat /\ MaxProfiles \in Nat

VARIABLES connection,   \* row and secret of the provider connection
          creating,     \* CreateModelProviderConnection between secret and row
          deleting,     \* how far DeleteModelProviderConnection is
          inserting,    \* profiles whose creation has seen the connection
          profiles,     \* the profile rows
          default,      \* the row of runtime_model_defaults
          bound,        \* the rows of instance_model_bindings
          configured,   \* the profile each instance really runs with
          application,  \* per application: its row and its worker
          modelMishaps,
          patched,      \* ghost: instances changed by their own page since they were bound
          beside        \* ghost: instances that a worker bound, set or recorded while
                        \*   another was still busy, until one that is alone binds them

adminVars == <<connection, creating, deleting, inserting, profiles, default>>
modelVars == <<adminVars, bound, configured, application, modelMishaps, patched, beside>>

Hosts == 1..MaxHosts
Profiles == 1..MaxProfiles
NoProfile == 0
Applications == 1..MaxApplications
\* An instance that runs with none of the profiles.
PartlySet == MaxProfiles + 1
OwnModel == MaxProfiles + 2
NoApplication == [status |-> "NONE", profile |-> NoProfile, targets |-> <<>>, at |-> "none",
                  next |-> 1, result |-> "none", cut |-> FALSE, cancelling |-> FALSE,
                  end |-> "none"]

ModelsInit ==
    /\ connection = [row |-> FALSE, secret |-> FALSE] /\ creating = "no" /\ deleting = "no"
    /\ inserting = {} /\ profiles = {} /\ default = NoProfile
    /\ bound = [h \in Hosts |-> [profile |-> NoProfile, state |-> "none", by |-> 0]]
    /\ configured = [h \in Hosts |-> NoProfile]
    /\ application = [a \in Applications |-> NoApplication]
    /\ modelMishaps = 0 /\ patched = {} /\ beside = {}

ModelMishap == modelMishaps < MaxModelMishaps /\ modelMishaps' = modelMishaps + 1
NoMishapHere == UNCHANGED modelMishaps
hostVars == <<bound, configured, application, patched, beside>>

(***************************************************************************)
(* Connections, profiles and the default.                                  *)
(***************************************************************************)
PutSecret ==
    /\ creating = "no" /\ ~connection.row /\ ~connection.secret
    /\ creating' = "row" /\ connection' = [connection EXCEPT !.secret = TRUE]
    /\ UNCHANGED <<deleting, inserting, profiles, default, hostVars, modelMishaps>>

\* A failing insert takes the secret back and ignores whether that works.
InsertConnection ==
    /\ creating = "row"
    /\ \/ NoMishapHere /\ creating' = "done" /\ connection' = [connection EXCEPT !.row = TRUE]
       \/ ModelMishap /\ creating' = "no" /\ connection' = [connection EXCEPT !.secret = FALSE]
       \/ ModelMishap /\ creating' = "lost" /\ UNCHANGED connection
    /\ UNCHANGED <<deleting, inserting, profiles, default, hostVars>>

\* DeleteModelProviderConnection: no profile uses it; then the secret goes, then
\* the row, which its foreign key holds when a profile has come in between.
CheckUnused ==
    /\ deleting = "no" /\ connection.row /\ profiles = {} /\ deleting' = "secret" /\ ModelMishap
    /\ UNCHANGED <<connection, creating, inserting, profiles, default, hostVars>>

\* What fails from here on is counted with the deletion.
DeleteSecret ==
    /\ deleting = "secret" /\ NoMishapHere
    /\ \/ deleting' = "row" /\ connection' = [connection EXCEPT !.secret = FALSE]
       \/ deleting' = "no" /\ UNCHANGED connection
    /\ UNCHANGED <<creating, inserting, profiles, default, hostVars>>

DeleteConnection ==
    /\ deleting = "row" /\ deleting' = "failed" /\ NoMishapHere
    /\ \/ profiles = {} /\ connection' = [connection EXCEPT !.row = FALSE]
       \/ UNCHANGED connection
    /\ UNCHANGED <<creating, inserting, profiles, default, hostVars>>

\* CreateModelProfile reads the connection, then inserts; one request at a time.
InUse == profiles \cup inserting \cup {application[a].profile : a \in Applications}
BeginProfile(p) ==
    /\ connection.row /\ inserting = {} /\ inserting' = {p}
    /\ p \notin InUse /\ \A q \in Profiles : q < p => q \in InUse
    /\ UNCHANGED <<connection, creating, deleting, profiles, default, hostVars, modelMishaps>>

InsertProfile(p) ==
    /\ p \in inserting /\ inserting' = inserting \ {p}
    /\ profiles' = IF connection.row THEN profiles \cup {p} ELSE profiles
    /\ UNCHANGED <<connection, creating, deleting, default, hostVars, modelMishaps>>

\* The default and the bindings hold a profile, by a check and by a foreign key.
DeleteProfile(p) ==
    /\ p \in profiles /\ default # p /\ \A h \in Hosts : bound[h].profile # p
    /\ profiles' = profiles \ {p} /\ ModelMishap
    /\ UNCHANGED <<connection, creating, deleting, inserting, default, hostVars>>

SetDefault(p) ==
    /\ p \in profiles \cup {NoProfile} /\ p # default /\ default' = p
    /\ ModelMishap /\ UNCHANGED <<connection, creating, deleting, inserting, profiles, hostVars>>

(***************************************************************************)
(* StartModelProfileApplication: the operation, then a PENDING binding for *)
(* each instance, then the worker.                                         *)
(***************************************************************************)
Open(a) == application[a].status \in {"PENDING", "RUNNING"}
Busy(a) == application[a].at \notin {"none", "done"}
AtPoint(a, point) == application[a].at = point
Moves(a, point) == application' = [application EXCEPT ![a].at = point]
Target(a) == application[a].targets[application[a].next]
LastTarget(a) == application[a].next = Len(application[a].targets)
\* The worker ends.  How its row ended (SUCCEEDED, FAILED, CANCELLED) tells nothing
\* apart here.
Leaves(a, end, status) ==
    application' = [application EXCEPT ![a] =
        [NoApplication EXCEPT !.at = "done", !.cancelling = application[a].cancelling,
                              !.end = IF application[a].end = "unrecorded" THEN "unrecorded" ELSE end,
                              !.status = status]]
WorksAlone(a) == \A b \in Applications \ {a} : ~Busy(b)
\* The ghost, for what a worker does to an instance beside another one.
Beside(a, host) == beside' = IF WorksAlone(a) THEN beside ELSE beside \cup {host}
\* An upsert of a binding; the foreign key wants the profile.
Upsert(a, host, state) ==
    bound' = IF application[a].profile \in profiles
             THEN [bound EXCEPT ![host] = [profile |-> application[a].profile, state |-> state,
                                       by |-> IF state = "PENDING" THEN a ELSE 0]]
             ELSE bound

StartApplication(a, p, targets) ==
    /\ application[a] = NoApplication /\ \A b \in Applications : b < a => application[b] # NoApplication
    /\ p \in profiles /\ \A b \in Applications : ~Open(b)
    /\ application' = [application EXCEPT ![a] = [NoApplication EXCEPT !.status = "PENDING", !.profile = p,
                                                     !.targets = targets, !.at = "bind"]]
    /\ UNCHANGED <<adminVars, bound, configured, modelMishaps, patched, beside>>

BindNext(a) ==
    /\ AtPoint(a, "bind") /\ UNCHANGED <<adminVars, configured>>
    /\ \/ /\ NoMishapHere /\ application[a].profile \in profiles
          /\ Upsert(a, Target(a), "PENDING") /\ patched' = patched \ {Target(a)}
          /\ beside' = IF WorksAlone(a) THEN beside \ {Target(a)} ELSE beside \cup {Target(a)}
          /\ application' = [application EXCEPT ![a].at = IF LastTarget(a) THEN "claim" ELSE "bind",
                                                ![a].next = IF LastTarget(a) THEN 1 ELSE @ + 1]
       \/ /\ ModelMishap \/ (NoMishapHere /\ application[a].profile \notin profiles)
          /\ Leaves(a, "notStarted", "TERMINAL") /\ UNCHANGED <<bound, patched, beside>>

(***************************************************************************)
(* runModelProfileApplication.                                             *)
(***************************************************************************)
IsCut(a) == application[a].cut

\* A worker that finds its row ended, or its context cut, leaves the bindings.
Claim(a) ==
    /\ AtPoint(a, "claim") /\ UNCHANGED <<adminVars, bound, configured, patched, beside>>
    /\ \/ NoMishapHere /\ (IsCut(a) \/ ~Open(a)) /\ Leaves(a, "notClaimed", application[a].status)
       \/ /\ NoMishapHere /\ ~IsCut(a) /\ Open(a)
          /\ application' = [application EXCEPT ![a].status = "RUNNING", ![a].at = "secret"]
       \/ ModelMishap /\ Leaves(a, "notClaimed", application[a].status)

UseSecret(a) ==
    /\ AtPoint(a, "secret") /\ UNCHANGED <<adminVars, bound, configured, patched, beside>>
    /\ \/ NoMishapHere /\ ~IsCut(a) /\ connection.secret /\ Moves(a, "apply")
       \/ NoMishapHere /\ (IsCut(a) \/ ~connection.secret) /\ Moves(a, "failAll")
       \/ ModelMishap /\ Moves(a, "failAll")

\* saveModelCredentialConfiguration, under the locks of the installation and the
\* instance: credential, provider, model, selection, one after the other.
Save(a) ==
    /\ AtPoint(a, "apply") /\ ~IsCut(a) /\ UNCHANGED <<adminVars, bound>> /\ Beside(a, Target(a))
    /\ LET host == Target(a)
           others == \E b \in Applications \ {a} : Open(b)
           outcome(result) == application' = [application EXCEPT ![a].at = "record", ![a].result = result] IN
       \/ /\ NoMishapHere /\ ~others /\ outcome("SUCCEEDED")
          /\ configured' = [configured EXCEPT ![host] = application[a].profile] /\ patched' = patched \ {host}
       \/ /\ ModelMishap /\ outcome("FAILED") /\ UNCHANGED patched
          /\ \E made \in {configured[host], PartlySet, application[a].profile} :
                configured' = [configured EXCEPT ![host] = made]
       \/ ModelMishap /\ outcome("SKIPPED") /\ UNCHANGED <<configured, patched>>
       \/ NoMishapHere /\ others /\ outcome("FAILED") /\ UNCHANGED <<configured, patched>>

\* The outcome of an instance is written, and the worker goes on; or it cannot be
\* written, and the worker goes on just the same.
WriteOutcome(a, state, onwards) ==
    LET goesOn(lost) ==
          application' = [application EXCEPT ![a].at = IF LastTarget(a) THEN "finish" ELSE onwards,
                             ![a].next = IF LastTarget(a) THEN @ ELSE @ + 1,
                             ![a].end = IF lost THEN "unrecorded" ELSE @] IN
    \/ NoMishapHere /\ Upsert(a, Target(a), state) /\ goesOn(application[a].profile \notin profiles)
    \/ ModelMishap /\ UNCHANGED bound /\ goesOn(TRUE)

\* The outcome is recorded whatever became of the operation.
Record(a) ==
    /\ AtPoint(a, "record") /\ UNCHANGED <<adminVars, configured, patched>> /\ Beside(a, Target(a))
    /\ WriteOutcome(a, application[a].result, "apply")

\* Mutant: a cut worker leaves the instances it has not reached.
StopAtCut(a) ==
    /\ AtPoint(a, "apply") /\ IsCut(a) /\ Moves(a, "finish")
    /\ UNCHANGED <<adminVars, bound, configured, patched, beside, modelMishaps>>

SkipRemaining(a) ==
    /\ AtPoint(a, "apply") /\ IsCut(a) /\ Moves(a, "skip")
    /\ UNCHANGED <<adminVars, bound, configured, patched, beside, modelMishaps>>

\* skipRemainingModelBindings and failAllModelBindings, a row at a time.
WriteRemaining(a) ==
    /\ application[a].at \in {"skip", "failAll"} /\ UNCHANGED <<adminVars, configured, patched, beside>>
    /\ WriteOutcome(a, IF AtPoint(a, "skip") THEN "SKIPPED" ELSE "FAILED", application[a].at)

FinishApplication(a) ==
    /\ AtPoint(a, "finish") /\ UNCHANGED <<adminVars, bound, configured, patched, beside>>
    /\ \/ NoMishapHere /\ Leaves(a, "finished", "TERMINAL")
       \/ ModelMishap /\ Leaves(a, "finished", application[a].status)

(***************************************************************************)
(* CancelModelProfileApplication cuts the worker, if there is one by now,  *)
(* and then ends the operation.                                            *)
(***************************************************************************)
CutWorker(a) ==
    /\ Open(a) /\ ~application[a].cancelling
    /\ application' = [application EXCEPT ![a].cancelling = TRUE, ![a].cut = @ \/ ~AtPoint(a, "bind")]
    /\ UNCHANGED <<adminVars, bound, configured, patched, beside, modelMishaps>>

EndCancelled(a) ==
    /\ application[a].cancelling
    /\ application' = [application EXCEPT ![a].cancelling = FALSE,
                                          ![a].status = "TERMINAL"]
    /\ UNCHANGED <<adminVars, bound, configured, patched, beside, modelMishaps>>

(***************************************************************************)
(* The world.                                                              *)
(***************************************************************************)
\* PatchModelConfiguration and SaveModelCredentialConfiguration of one instance
\* wait for no worker, but for an active operation; they leave its binding alone.
PatchHost(h) ==
    /\ ModelMishap /\ \A a \in Applications : ~Open(a)
    /\ configured' = [configured EXCEPT ![h] = OwnModel] /\ patched' = patched \cup {h}
    /\ UNCHANGED <<adminVars, bound, application, beside>>

\* RecoverModelProfileApplications fails the active operations.
RestartModels ==
    /\ ModelMishap
    /\ application' = [a \in Applications |->
                          IF application[a] = NoApplication THEN NoApplication
                          ELSE [NoApplication EXCEPT !.at = "done",
                                    !.end = IF Busy(a) THEN "stopped" ELSE application[a].end,
                                    !.status = "TERMINAL"]]
    /\ creating' = (IF creating = "row" THEN "lost" ELSE creating)
    /\ deleting' = (IF deleting = "row" THEN "failed" ELSE IF deleting = "secret" THEN "no" ELSE deleting)
    /\ inserting' = {}
    /\ UNCHANGED <<connection, profiles, default, bound, configured, patched, beside>>

AdminStep ==
    \/ PutSecret \/ InsertConnection \/ CheckUnused \/ DeleteSecret \/ DeleteConnection
    \/ \E p \in Profiles : BeginProfile(p) \/ InsertProfile(p) \/ DeleteProfile(p)
    \/ \E p \in Profiles \cup {NoProfile} : SetDefault(p)

ApplicationStep(a) ==
    \/ BindNext(a) \/ Claim(a) \/ UseSecret(a) \/ Save(a) \/ Record(a) \/ SkipRemaining(a)
    \/ WriteRemaining(a) \/ FinishApplication(a) \/ CutWorker(a) \/ EndCancelled(a)

\* The targets are sorted.  Bound: every list begins with the first instance.
TargetLists == {[i \in 1..n |-> i] : n \in Hosts}

ModelsNext ==
    \/ AdminStep \/ RestartModels
    \/ \E h \in Hosts : PatchHost(h)
    \/ \E a \in Applications :
          \/ ApplicationStep(a)
          \/ \E p \in Profiles, targets \in TargetLists : StartApplication(a, p, targets)

ModelsSpec == ModelsInit /\ [][ModelsNext]_modelVars
-----------------------------------------------------------------------------
(***************************************************************************)
(* Properties.                                                             *)
(***************************************************************************)
\* Once no worker is busy, what the bindings say can be relied on: a binding is
\* PENDING only if its application was cut or refused before its worker claimed
\* it, its outcome could not be written, or the daemon stopped (and then nothing
\* will ever end it); a binding that
\* SUCCEEDED names the profile its instance runs with, unless the instance was
\* changed by its own page since, or a cancelled worker was still at it while the
\* next application bound, set or recorded it; a profile has its connection, and the
\* connection its secret unless a deletion was under way when the profile came.
ModelsAgree == (\A a \in Applications : ~Busy(a)) =>
    /\ \A h \in Hosts :
          /\ bound[h].state = "PENDING" =>
                application[bound[h].by].end \in {"notStarted", "notClaimed", "stopped", "unrecorded"}
          /\ bound[h].state = "SUCCEEDED" => configured[h] = bound[h].profile \/ h \in patched \cup beside
    /\ profiles # {} => connection.row /\ (connection.secret \/ deleting # "no")
    /\ connection.secret => connection.row \/ creating # "no"
=============================================================================
