--------------------------- MODULE ModelValidation --------------------------
(***************************************************************************)
(* The model of one instance: the provider and the model that its profile  *)
(* is configured with, two scalars that Hermes sets one at a time, and the *)
(* credential of each provider in its .env.  The pages of the instance and *)
(* the reads of a validation hold the lock of the instance; the probe of a *)
(* validation, which may take most of a minute, does not.  A validation is *)
(* an operation whose row keeps a fingerprint of the provider and model it *)
(* was started for, and the page shows its outcome while they are the ones *)
(* configured.                                                             *)
(***************************************************************************)
EXTENDS Naturals, FiniteSets

CONSTANTS MaxValidations,  \* bound: validations ever started
          MaxPages,        \* bound: requests that change the model or a credential
          MaxModelHands,   \* bound: changes by Hermes or the user
          MaxProbeFaults   \* bound: failing commands and stops of the daemon

ASSUME ValidationBounds == MaxValidations \in Nat /\ MaxPages \in Nat
                           /\ MaxModelHands \in Nat /\ MaxProbeFaults \in Nat

VARIABLES chosen,      \* what the profile is configured with
          secretFor,   \* the providers whose credential .env holds
          page,        \* the request that holds the lock of the instance
          reported,    \* what the last such request reported, and nothing changed since
          validation,  \* per validation: its row and its worker
          proved,      \* ghost: what the probe of a validation really asked, unless it failed
          pages, modelHands, probeFaults

validationVars == <<chosen, secretFor, page, reported, validation, proved, pages, modelHands, probeFaults>>

Providers == {"P", "Q"}
ModelChoices == [provider : Providers, model : {"m", "n"}]
NotChosen == [provider |-> "none", model |-> "none"]
Validations == 1..MaxValidations
NoPage == [at |-> "idle", wants |-> NotChosen, before |-> NotChosen]
NoValidation == [status |-> "NONE", pin |-> NotChosen, at |-> "none", result |-> "none", cut |-> FALSE,
                 cancelling |-> FALSE]

ValidationInit ==
    /\ chosen \in {NotChosen, [provider |-> "P", model |-> "m"]}
    /\ secretFor = {chosen.provider} \cap Providers
    /\ page = NoPage /\ reported = NotChosen
    /\ validation = [v \in Validations |-> NoValidation] /\ proved = [v \in Validations |-> NotChosen]
    /\ pages = 0 /\ modelHands = 0 /\ probeFaults = 0

ProbeFault == probeFaults < MaxProbeFaults /\ probeFaults' = probeFaults + 1
NoProbeFault == UNCHANGED probeFaults
\* The lock of the instance is free.  A validation holds it within one step.
Unlocked == page.at = "idle"
validations == <<validation, proved>>

(***************************************************************************)
(* PatchModelConfiguration, SaveModelCredentialConfiguration and           *)
(* DeleteModelCredential, under the lock.                                  *)
(***************************************************************************)
Turn(step) == page' = [page EXCEPT !.at = step]
GivesUp == page' = NoPage /\ reported' = NotChosen

BeginPage(wants, first) ==
    /\ Unlocked /\ pages < MaxPages /\ pages' = pages + 1
    /\ page' = [NoPage EXCEPT !.at = first, !.wants = wants] /\ reported' = NotChosen
    /\ UNCHANGED <<chosen, secretFor, validations, modelHands, probeFaults>>

\* commit may report a failure after its rename.
SetCredential ==
    /\ page.at = "credential" /\ UNCHANGED <<chosen, validations, pages, modelHands>>
    /\ \/ /\ NoProbeFault /\ Turn("read") /\ UNCHANGED reported
          /\ secretFor' = secretFor \cup {page.wants.provider}
       \/ ProbeFault /\ GivesUp /\ secretFor' \in {secretFor, secretFor \cup {page.wants.provider}}

DeleteCredential ==
    /\ page.at = "delete" /\ GivesUp /\ UNCHANGED <<chosen, validations, pages, modelHands>>
    /\ LET without == secretFor \ {chosen.provider} IN
       \/ NoProbeFault /\ secretFor' = without
       \/ ProbeFault /\ secretFor' \in {secretFor, without}

\* ApplyModelConfig reads what is there: nothing is to be done, or it reads again.
ReadBefore ==
    /\ page.at = "read" /\ UNCHANGED <<chosen, secretFor, validations, pages, modelHands>>
    /\ \/ NoProbeFault /\ page.wants.provider \notin secretFor /\ GivesUp
       \/ /\ NoProbeFault /\ page.wants.provider \in secretFor /\ chosen = page.wants
          /\ page' = NoPage /\ reported' = chosen
       \/ /\ NoProbeFault /\ page.wants.provider \in secretFor /\ chosen # page.wants
          /\ page' = [page EXCEPT !.at = "confirm", !.before = chosen] /\ UNCHANGED reported
       \/ ProbeFault /\ GivesUp

ConfirmBefore ==
    /\ page.at = "confirm" /\ NoProbeFault /\ UNCHANGED <<chosen, secretFor, validations, pages, modelHands>>
    /\ \/ chosen # page.before /\ GivesUp
       \/ /\ chosen = page.before /\ UNCHANGED reported
          /\ Turn(IF chosen.provider # page.wants.provider THEN "provider" ELSE "model")

\* A command that fails, or is cut off at its deadline, may have done its work.
SetScalar(step, next, changed) ==
    /\ page.at = step /\ UNCHANGED <<secretFor, validations, pages, modelHands>>
    /\ \/ NoProbeFault /\ Turn(next) /\ UNCHANGED reported /\ chosen' = changed
       \/ ProbeFault /\ GivesUp /\ chosen' \in {chosen, changed}

SetProvider == SetScalar("provider", "check", [chosen EXCEPT !.provider = page.wants.provider])
SetModel == SetScalar("model", "final", [chosen EXCEPT !.model = page.wants.model])

CheckProvider ==
    /\ page.at = "check" /\ NoProbeFault /\ UNCHANGED <<chosen, secretFor, validations, pages, modelHands>>
    /\ LET expected == [page.before EXCEPT !.provider = page.wants.provider] IN
       \/ chosen # expected /\ GivesUp
       \/ /\ chosen = expected /\ UNCHANGED reported
          /\ Turn(IF chosen.model # page.wants.model THEN "model" ELSE "final")

FinalRead ==
    /\ page.at = "final" /\ UNCHANGED <<chosen, secretFor, validations, pages, modelHands>>
    /\ \/ /\ NoProbeFault /\ chosen = page.wants /\ chosen.provider \in secretFor
          /\ page' = NoPage /\ reported' = chosen
       \/ NoProbeFault /\ (chosen # page.wants \/ page.wants.provider \notin secretFor) /\ GivesUp
       \/ ProbeFault /\ GivesUp

(***************************************************************************)
(* A validation.                                                           *)
(***************************************************************************)
Current(v) == validation[v].status \in {"PENDING", "RUNNING"}
IsAt(v, step) == validation[v].at = step
Turns(v, change) == validation' = [validation EXCEPT ![v] = change]
Done(v, status) == Turns(v, [validation[v] EXCEPT !.at = "done", !.status = status,
                                                     !.cut = FALSE, !.result = "none"])
Configured == chosen \in ModelChoices /\ chosen.provider \in secretFor
settings == <<chosen, secretFor, page, reported, pages, modelHands>>

StartValidation(v) ==
    /\ validation[v] = NoValidation /\ \A u \in Validations : u < v => validation[u] # NoValidation
    /\ Unlocked /\ Configured /\ \A u \in Validations : ~Current(u)
    /\ Turns(v, [NoValidation EXCEPT !.status = "PENDING", !.pin = chosen, !.at = "claim"])
    /\ UNCHANGED <<settings, proved, probeFaults>>

\* A failing update leaves the row PENDING with no worker: until somebody cancels it
\* or the daemon starts again.
ClaimValidation(v) ==
    /\ IsAt(v, "claim") /\ UNCHANGED <<settings, proved>>
    /\ \/ /\ NoProbeFault /\ Current(v) /\ ~validation[v].cut
          /\ Turns(v, [validation[v] EXCEPT !.status = "RUNNING", !.at = "look"])
       \/ /\ NoProbeFault /\ (~Current(v) \/ validation[v].cut)
          /\ Done(v, validation[v].status)
       \/ ProbeFault /\ Done(v, validation[v].status)

Result(v, outcome) == Turns(v, [validation[v] EXCEPT !.at = "finish", !.result = outcome])

\* Mutant: what is configured now is probed, whatever the validation was started for.
LookOnly(v) ==
    /\ IsAt(v, "look") /\ Unlocked /\ Configured /\ proved' = [proved EXCEPT ![v] = chosen]
    /\ Turns(v, [validation[v] EXCEPT !.at = "probe"]) /\ UNCHANGED <<settings, probeFaults>>

\* Under the lock once more: still configured, and still with the same.
LookAtPin(v) ==
    /\ IsAt(v, "look") /\ Unlocked /\ UNCHANGED settings
    /\ \/ /\ NoProbeFault /\ Configured /\ chosen = validation[v].pin /\ ~validation[v].cut
          /\ Turns(v, [validation[v] EXCEPT !.at = "probe"]) /\ proved' = [proved EXCEPT ![v] = chosen]
       \/ NoProbeFault /\ (~Configured \/ chosen # validation[v].pin \/ validation[v].cut)
          /\ Result(v, "not passed") /\ UNCHANGED proved
       \/ ProbeFault /\ Result(v, "not passed") /\ UNCHANGED proved

\* ValidateModel asks the provider, without the lock.
ProbeModel(v) ==
    /\ IsAt(v, "probe") /\ UNCHANGED settings /\ NoProbeFault
    /\ \/ /\ proved[v].provider \in secretFor /\ ~validation[v].cut
          /\ Result(v, "passed") /\ UNCHANGED proved
       \/ Result(v, "not passed") /\ proved' = [proved EXCEPT ![v] = NotChosen]

\* A row that has ended meanwhile is left alone.
FinishValidation(v) ==
    /\ IsAt(v, "finish") /\ UNCHANGED <<settings, proved>>
    /\ LET ended == IF ~Current(v) THEN validation[v].status
                    ELSE IF validation[v].result = "passed" THEN "SUCCEEDED" ELSE "FAILED" IN
       \/ NoProbeFault /\ Done(v, ended)
       \/ ProbeFault /\ Done(v, validation[v].status)

\* CancelModelValidation cuts the worker off, and then writes the row; it tries three
\* times, and a row changes twice at most.
CutValidation(v) ==
    /\ Current(v) /\ ~validation[v].cancelling
    /\ Turns(v, [validation[v] EXCEPT !.cancelling = TRUE, !.cut = TRUE])
    /\ UNCHANGED <<settings, proved, probeFaults>>

CancelValidation(v) ==
    /\ validation[v].cancelling
    /\ Turns(v, [validation[v] EXCEPT !.cancelling = FALSE,
                                        !.status = IF Current(v) THEN "CANCELLED" ELSE @])
    /\ UNCHANGED <<settings, proved, probeFaults>>

(***************************************************************************)
(* The other hands, and the restart.                                       *)
(***************************************************************************)
ChangedByHand ==
    /\ modelHands < MaxModelHands /\ modelHands' = modelHands + 1 /\ reported' = NotChosen
    /\ \/ chosen' \in ModelChoices \ {chosen} /\ UNCHANGED secretFor
       \/ UNCHANGED chosen /\ \E p \in secretFor : secretFor' = secretFor \ {p}
    /\ UNCHANGED <<page, validations, pages, probeFaults>>

\* RecoverModelValidations fails what is active.
RestartValidations ==
    /\ ProbeFault /\ page' = NoPage /\ UNCHANGED <<chosen, secretFor, proved, pages, modelHands>>
    /\ reported' = (IF Unlocked THEN reported ELSE NotChosen)
    /\ validation' = [v \in Validations |->
           IF validation[v] = NoValidation THEN NoValidation
           ELSE [NoValidation EXCEPT !.at = "done", !.pin = validation[v].pin,
                                     !.status = IF Current(v) THEN "FAILED" ELSE validation[v].status]]

PageStep ==
    \/ \E wants \in ModelChoices, first \in {"credential", "read"} : BeginPage(wants, first)
    \/ BeginPage(NotChosen, "delete")
    \/ SetCredential \/ DeleteCredential \/ ReadBefore \/ ConfirmBefore
    \/ SetProvider \/ CheckProvider \/ SetModel \/ FinalRead

ValidationStep(v) ==
    \/ StartValidation(v) \/ ClaimValidation(v) \/ LookAtPin(v) \/ ProbeModel(v)
    \/ FinishValidation(v) \/ CutValidation(v) \/ CancelValidation(v)

ValidationNext ==
    \/ PageStep \/ ChangedByHand \/ RestartValidations
    \/ \E v \in Validations : ValidationStep(v)

ValidationSpec == ValidationInit /\ [][ValidationNext]_validationVars
-----------------------------------------------------------------------------
(***************************************************************************)
(* Properties.                                                             *)
(***************************************************************************)
Ended(v) == validation[v].status \in {"SUCCEEDED", "FAILED", "CANCELLED"}
\* modelConfigurationView shows the latest validation that has ended, if it was of
\* what is configured.
Shows(v) == Ended(v) /\ (\A u \in Validations : u > v => ~Ended(u)) /\ validation[v].pin = chosen

\* The page says that a validation passed only when a probe of the very provider and
\* model that it shows beside it passed, whatever was changed between the request,
\* the worker and the probe (the fingerprint leaves the credential out: a page may
\* show PASSED over a credential that no probe has seen); a change that was reported
\* done is what the profile is configured with, and never half of it; and one
\* validation at most is unfinished.
ValidationTrue ==
    /\ \A v \in Validations : Shows(v) /\ validation[v].status = "SUCCEEDED" => proved[v] = chosen
    /\ reported # NotChosen => chosen = reported
    /\ Cardinality({v \in Validations : Current(v)}) <= 1
=============================================================================
