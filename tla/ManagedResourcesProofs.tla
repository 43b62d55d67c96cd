----------------------- MODULE ManagedResourcesProofs -----------------------
(***************************************************************************)
(* The managed resources of an instance, for any number of operations,     *)
(* validations, releases, hands on the profile, faults and restarts:       *)
(*                                                                         *)
(*   a model is reported valid only for the credential and the route that  *)
(*   were probed, and one validation at most is unfinished;                *)
(*   what the managed store names is there with the digest of its row, or  *)
(*   the deviation has its cause;                                          *)
(*   a directory with a marker in the profile is the one the row names;    *)
(*   an MCP server's entry, credential, readiness and row agree;           *)
(*   the binding of a shared model says how its application ended;         *)
(*   what was reported saved in the credential file is there;              *)
(*   what is said about an upgrade follows from the evidence.              *)
(*                                                                         *)
(* The components share nothing; each part gives the component's inductive *)
(* invariant, shows that each action keeps it and that it implies the      *)
(* property the runs check.                                                *)
(***************************************************************************)
EXTENDS ModelValidation, SkillStore, ManagedSkills, McpBindings, SharedModels, CredentialFile,
        UpgradePlan, FiniteSetTheorems, SequenceTheorems, TLAPS

-----------------------------------------------------------------------------
(***************************************************************************)
(* The model and its probe.                                                *)
(***************************************************************************)
AnyChoice == [provider : {"P", "Q", "none"}, model : {"m", "n", "none"}]
PageSteps == {"idle", "credential", "delete", "read", "confirm", "provider", "check", "model", "final"}
Statuses == {"NONE", "PENDING", "RUNNING", "SUCCEEDED", "FAILED", "CANCELLED"}
WorkerSteps == {"none", "claim", "look", "probe", "finish", "done"}
ValidationRows == [status : Statuses, pin : AnyChoice, at : WorkerSteps,
                   result : {"none", "passed", "not passed"}, cut : BOOLEAN, cancelling : BOOLEAN]

ValidationType ==
    /\ chosen \in AnyChoice /\ reported \in AnyChoice
    /\ page \in [at : PageSteps, wants : AnyChoice, before : AnyChoice]
    /\ validation \in [Validations -> ValidationRows]
    /\ proved \in [Validations -> AnyChoice]

\* What was reported stands as long as no request is at work.
ReportTrue == reported # NotChosen => chosen = reported /\ page.at = "idle"

\* Between the comparison under the lock and the answer, and ever after a success, the
\* probe was of what the row was started for.
ProbeTrue(v) ==
    /\ validation[v].status = "SUCCEEDED" => validation[v].at = "done"
    /\ \/ validation[v].at = "probe"
       \/ validation[v].at = "finish" /\ validation[v].result = "passed"
       \/ validation[v].status = "SUCCEEDED"
       => proved[v] = validation[v].pin

OneCurrent == \A u, v \in Validations : Current(u) /\ Current(v) => u = v

ValidationInv == ValidationType /\ ReportTrue /\ (\A v \in Validations : ProbeTrue(v)) /\ OneCurrent

\* The initial states satisfy it.
LEMMA ValidationInitially == ValidationInit => ValidationInv
<1> SUFFICES ASSUME ValidationInit PROVE ValidationInv
    OBVIOUS
<1>1. NotChosen \in AnyChoice /\ chosen \in AnyChoice
    BY DEF ValidationInit, NotChosen, AnyChoice
<1>2. ValidationType
    BY <1>1 DEF ValidationType, ValidationInit, NoPage, NoValidation, PageSteps, ValidationRows, Statuses, WorkerSteps
<1> QED
    BY <1>2 DEF ValidationInv, ValidationInit, ReportTrue, ProbeTrue, OneCurrent, Current, NoValidation

\* A request of the page that holds the lock leaves the validations alone, and has
\* reported nothing before it is done.
LEMMA PageKeeps == ValidationInv /\ PageStep => ValidationInv'
<1> SUFFICES ASSUME ValidationInv, PageStep PROVE ValidationInv'
    OBVIOUS
<1>1. UNCHANGED <<validation, proved>>
    BY DEF PageStep, BeginPage, SetCredential, DeleteCredential, ReadBefore, ConfirmBefore, SetProvider,
           CheckProvider, SetModel, SetScalar, FinalRead, validations
<1>2. (\A v \in Validations : ProbeTrue(v))' /\ OneCurrent'
    BY <1>1 DEF ValidationInv, ProbeTrue, OneCurrent, Current
<1>3. NotChosen \in AnyChoice /\ ModelChoices \subseteq AnyChoice
    BY DEF NotChosen, ModelChoices, Providers, AnyChoice
<1>4. NoPage \in [at : PageSteps, wants : AnyChoice, before : AnyChoice] /\ NoPage.at = "idle"
    BY <1>3 DEF NoPage, PageSteps
<1> DEFINE Good == /\ chosen' \in AnyChoice /\ reported' \in AnyChoice
                   /\ page' \in [at : PageSteps, wants : AnyChoice, before : AnyChoice]
                   /\ ReportTrue'
<1> USE DEF ValidationInv, ValidationType, ReportTrue, Turn, GivesUp
<1>5. ASSUME NEW wants \in AnyChoice, NEW first \in {"credential", "read", "delete"}, BeginPage(wants, first) PROVE Good
    BY <1>3, <1>4, <1>5 DEF BeginPage, PageSteps
<1>6. ASSUME SetCredential PROVE Good
    BY <1>3, <1>4, <1>6 DEF SetCredential, PageSteps
<1>7. ASSUME DeleteCredential PROVE Good
    BY <1>3, <1>4, <1>7 DEF DeleteCredential, PageSteps
<1>8. ASSUME ReadBefore PROVE Good
    BY <1>3, <1>4, <1>8 DEF ReadBefore, PageSteps
<1>9. ASSUME ConfirmBefore PROVE Good
    BY <1>3, <1>4, <1>9 DEF ConfirmBefore, PageSteps
<1>10. ASSUME NEW step \in PageSteps \ {"idle"}, NEW next \in PageSteps \ {"idle"}, NEW changed \in AnyChoice,
              SetScalar(step, next, changed)
       PROVE  Good
    BY <1>3, <1>4, <1>10 DEF SetScalar
<1>11. [chosen EXCEPT !.provider = page.wants.provider] \in AnyChoice
       /\ [chosen EXCEPT !.model = page.wants.model] \in AnyChoice
    BY DEF AnyChoice
<1>12. ASSUME CheckProvider PROVE Good
    BY <1>3, <1>4, <1>12 DEF CheckProvider, PageSteps
<1>13. ASSUME FinalRead PROVE Good
    BY <1>3, <1>4, <1>13 DEF FinalRead, PageSteps
<1>14. Good
    BY <1>3, <1>5, <1>6, <1>7, <1>8, <1>9, <1>10, <1>11, <1>12, <1>13
       DEF PageStep, SetProvider, SetModel, PageSteps
<1> QED
    BY <1>1, <1>2, <1>14

\* What a step of a validation changes of its row is a row again.
LEMMA RowChanges ==
    ASSUME ValidationType, NEW v \in Validations
    PROVE  \A mine \in ValidationRows : Turns(v, mine) =>
              /\ validation' \in [Validations -> ValidationRows]
              /\ validation'[v] = mine /\ \A u \in Validations \ {v} : validation'[u] = validation[u]
BY DEF ValidationType, Turns

\* A step of a validation.
LEMMA ValidationKeeps ==
    ASSUME ValidationInv, NEW v \in Validations, ValidationStep(v)
    PROVE  ValidationInv'
<1> DEFINE mine == validation[v]
           row1 == validation'[v]
<1>1. /\ mine.status \in Statuses /\ mine.pin \in AnyChoice /\ mine.at \in WorkerSteps
      /\ mine.result \in {"none", "passed", "not passed"} /\ mine.cut \in BOOLEAN /\ mine.cancelling \in BOOLEAN
      /\ mine \in ValidationRows
    BY DEF ValidationInv, ValidationType, ValidationRows
<1>2. NotChosen \in AnyChoice /\ ModelChoices \subseteq AnyChoice
    BY DEF NotChosen, ModelChoices, Providers, AnyChoice
<1> DEFINE Kept ==
              /\ row1 \in ValidationRows /\ proved'[v] \in AnyChoice /\ ProbeTrue(v)'
              /\ Current(v)' => Current(v) \/ \A u \in Validations : ~Current(u)
           Others ==
              /\ DOMAIN validation' = Validations /\ DOMAIN proved' = Validations
              /\ validation' = [u \in Validations |-> validation'[u]] /\ proved' = [u \in Validations |-> proved'[u]]
              /\ \A u \in Validations \ {v} : validation'[u] = validation[u] /\ proved'[u] = proved[u]
              /\ UNCHANGED settings
<1>3. ASSUME Kept, Others PROVE ValidationInv'
  <2>1. ValidationType'
    BY <1>3 DEF ValidationInv, ValidationType, settings
  <2>2. ReportTrue'
    BY <1>3 DEF ValidationInv, ReportTrue, settings
  <2>3. ASSUME NEW u \in Validations PROVE ProbeTrue(u)'
    BY <1>3, <2>3 DEF ValidationInv, ProbeTrue
  <2>4. OneCurrent'
    <3> SUFFICES ASSUME NEW u \in Validations, NEW w \in Validations, Current(u)', Current(w)' PROVE u = w
        BY DEF OneCurrent
    <3>1. \A x \in Validations \ {v} : Current(x)' => Current(x)
        BY <1>3 DEF Current
    <3> QED
        BY <1>3, <3>1 DEF ValidationInv, OneCurrent
  <2> QED
    BY <2>1, <2>2, <2>3, <2>4 DEF ValidationInv
<1>4. chosen \in AnyChoice /\ DOMAIN validation = Validations /\ DOMAIN proved = Validations
      /\ (\A u \in Validations : validation[u] \in ValidationRows /\ proved[u] \in AnyChoice) /\ ProbeTrue(v)
    BY DEF ValidationInv, ValidationType
<1> DEFINE Changes(change) ==
              /\ change \in ValidationRows /\ Turns(v, change) /\ UNCHANGED settings
              /\ change.status \in {"PENDING", "RUNNING"} =>
                    mine.status \in {"PENDING", "RUNNING"} \/ \A u \in Validations : ~Current(u)
              /\ change.status = "SUCCEEDED" => change.at = "done"
           Proves(change, p) ==
              \/ change.at = "probe"
              \/ change.at = "finish" /\ change.result = "passed"
              \/ change.status = "SUCCEEDED"
              => p = change.pin
<1>5. ASSUME NEW change, Changes(change), NEW p \in AnyChoice, Proves(change, p), proved' = [proved EXCEPT ![v] = p]
      PROVE  ValidationInv'
  <2>1. /\ DOMAIN validation' = Validations /\ validation' = [u \in Validations |-> validation'[u]]
        /\ row1 = change /\ \A u \in Validations \ {v} : validation'[u] = validation[u]
    BY <1>4, <1>5 DEF Turns
  <2>2. proved'[v] = p /\ \A u \in Validations \ {v} : proved'[u] = proved[u]
    BY <1>4, <1>5
  <2>3. DOMAIN proved' = Validations /\ proved' = [u \in Validations |-> proved'[u]]
    BY <1>4, <1>5
  <2>4. Kept
    BY <1>5, <2>1, <2>2 DEF ProbeTrue, Current
  <2>5. Others
    BY <1>5, <2>1, <2>2, <2>3
  <2> QED
    BY <1>3, <2>4, <2>5
<1>6. ASSUME NEW change, Changes(change), Proves(change, proved[v]), UNCHANGED proved
      PROVE  ValidationInv'
  <2>1. proved' = [proved EXCEPT ![v] = proved[v]]
    BY <1>6 DEF ValidationInv, ValidationType
  <2> QED
    BY <1>4, <1>5, <1>6, <2>1
<1> HIDE DEF Kept, Others
<1>8. CASE StartValidation(v)
  <2> DEFINE new == [NoValidation EXCEPT !.status = "PENDING", !.pin = chosen, !.at = "claim"]
  <2>1. Turns(v, new) /\ UNCHANGED settings /\ UNCHANGED proved /\ \A u \in Validations : ~Current(u)
    BY <1>8 DEF StartValidation
  <2>2. NoValidation \in ValidationRows
    BY <1>2 DEF NoValidation, ValidationRows, Statuses, WorkerSteps
  <2>3. new \in ValidationRows
    BY <1>4, <2>2 DEF ValidationRows, Statuses, WorkerSteps
  <2>4. new.status = "PENDING" /\ new.at = "claim"
    BY DEF NoValidation
  <2> HIDE DEF new
  <2> QED
    BY <1>6, <2>1, <2>3, <2>4
<1>9. CASE ClaimValidation(v)
  <2>1. mine.at = "claim" /\ mine.status # "SUCCEEDED"
    BY <1>4, <1>9 DEF ClaimValidation, IsAt, ProbeTrue
  <2> DEFINE claimed == [mine EXCEPT !.status = "RUNNING", !.at = "look"]
             over == [mine EXCEPT !.at = "done", !.status = mine.status, !.cut = FALSE, !.result = "none"]
  <2>2. UNCHANGED settings /\ UNCHANGED proved
    BY <1>9 DEF ClaimValidation
  <2>3. (Turns(v, claimed) /\ mine.status \in {"PENDING", "RUNNING"}) \/ Turns(v, over)
    BY <1>9 DEF ClaimValidation, Done, Current
  <2>4. claimed \in ValidationRows /\ claimed.status = "RUNNING" /\ claimed.at = "look"
    BY <1>1 DEF ValidationRows, Statuses, WorkerSteps
  <2>5. over \in ValidationRows /\ over.status = mine.status /\ over.at = "done"
    BY <1>1 DEF ValidationRows, Statuses, WorkerSteps
  <2> HIDE DEF claimed, over
  <2>6. CASE Turns(v, claimed) /\ mine.status \in {"PENDING", "RUNNING"}
    BY <1>6, <2>2, <2>4, <2>6
  <2>7. CASE Turns(v, over)
    BY <1>6, <2>1, <2>2, <2>5, <2>7
  <2> QED
    BY <2>3, <2>6, <2>7
<1>10. CASE LookAtPin(v)
  <2>1. mine.at = "look" /\ mine.status # "SUCCEEDED"
    BY <1>4, <1>10 DEF LookAtPin, IsAt, ProbeTrue
  <2> DEFINE asked == [mine EXCEPT !.at = "probe"]
             refused == [mine EXCEPT !.at = "finish", !.result = "not passed"]
  <2>2. UNCHANGED settings
    BY <1>10 DEF LookAtPin
  <2>3. \/ Turns(v, asked) /\ proved' = [proved EXCEPT ![v] = chosen] /\ chosen = mine.pin
        \/ Turns(v, refused) /\ UNCHANGED proved
    BY <1>10 DEF LookAtPin, Result
  <2>4. asked \in ValidationRows /\ asked.status = mine.status /\ asked.at = "probe" /\ asked.pin = mine.pin
    BY <1>1 DEF ValidationRows, WorkerSteps
  <2>5. refused \in ValidationRows /\ refused.status = mine.status /\ refused.at = "finish" /\ refused.result = "not passed"
    BY <1>1 DEF ValidationRows, WorkerSteps
  <2> HIDE DEF asked, refused
  <2>6. CASE Turns(v, asked) /\ proved' = [proved EXCEPT ![v] = chosen] /\ chosen = mine.pin
    BY <1>4, <1>5, <2>1, <2>2, <2>4, <2>6
  <2>7. CASE Turns(v, refused) /\ UNCHANGED proved
    BY <1>6, <2>1, <2>2, <2>5, <2>7
  <2> QED
    BY <2>3, <2>6, <2>7
<1>11. CASE ProbeModel(v)
  <2>1. mine.at = "probe" /\ mine.status # "SUCCEEDED" /\ proved[v] = mine.pin
    BY <1>4, <1>11 DEF ProbeModel, IsAt, ProbeTrue
  <2> DEFINE passed == [mine EXCEPT !.at = "finish", !.result = "passed"]
             refused == [mine EXCEPT !.at = "finish", !.result = "not passed"]
  <2>2. UNCHANGED settings
    BY <1>11 DEF ProbeModel
  <2>3. \/ Turns(v, passed) /\ UNCHANGED proved
        \/ Turns(v, refused) /\ proved' = [proved EXCEPT ![v] = NotChosen]
    BY <1>11 DEF ProbeModel, Result
  <2>4. passed \in ValidationRows /\ passed.status = mine.status /\ passed.at = "finish" /\ passed.pin = mine.pin
    BY <1>1 DEF ValidationRows, WorkerSteps
  <2>5. refused \in ValidationRows /\ refused.status = mine.status /\ refused.at = "finish" /\ refused.result = "not passed"
    BY <1>1 DEF ValidationRows, WorkerSteps
  <2> HIDE DEF passed, refused
  <2>6. CASE Turns(v, passed) /\ UNCHANGED proved
    BY <1>6, <2>1, <2>2, <2>4, <2>6
  <2>7. CASE Turns(v, refused) /\ proved' = [proved EXCEPT ![v] = NotChosen]
    BY <1>2, <1>5, <2>1, <2>2, <2>5, <2>7
  <2> QED
    BY <2>3, <2>6, <2>7
<1>12. CASE FinishValidation(v)
  <2>1. mine.at = "finish" /\ mine.status # "SUCCEEDED" /\ (mine.result = "passed" => proved[v] = mine.pin)
    BY <1>4, <1>12 DEF FinishValidation, IsAt, ProbeTrue
  <2>2. PICK s \in Statuses : Done(v, s) /\ s \in {mine.status, "SUCCEEDED", "FAILED"} /\ (s = "SUCCEEDED" => mine.result = "passed")
    BY <1>1, <1>12, <2>1 DEF FinishValidation, Statuses
  <2> DEFINE over == [mine EXCEPT !.at = "done", !.status = s, !.cut = FALSE, !.result = "none"]
  <2>3. Turns(v, over) /\ UNCHANGED settings /\ UNCHANGED proved
    BY <1>12, <2>2 DEF FinishValidation, Done
  <2>4. over \in ValidationRows /\ over.status = s /\ over.at = "done" /\ over.pin = mine.pin
    BY <1>1 DEF ValidationRows, WorkerSteps
  <2> HIDE DEF over
  <2> QED
    BY <1>6, <2>1, <2>2, <2>3, <2>4
<1>13. CASE CutValidation(v)
  <2> DEFINE cut == [mine EXCEPT !.cancelling = TRUE, !.cut = TRUE]
  <2>1. Turns(v, cut) /\ UNCHANGED settings /\ UNCHANGED proved
    BY <1>13 DEF CutValidation
  <2>2. cut \in ValidationRows /\ cut.status = mine.status /\ cut.at = mine.at /\ cut.pin = mine.pin /\ cut.result = mine.result
    BY <1>1 DEF ValidationRows
  <2> HIDE DEF cut
  <2> QED
    BY <1>4, <1>6, <2>1, <2>2 DEF ProbeTrue
<1>14. CASE CancelValidation(v)
  <2>1. PICK s \in {mine.status, "CANCELLED"} : Turns(v, [mine EXCEPT !.cancelling = FALSE, !.status = s])
    BY <1>14 DEF CancelValidation
  <2> DEFINE left == [mine EXCEPT !.cancelling = FALSE, !.status = s]
  <2>2. Turns(v, left) /\ UNCHANGED settings /\ UNCHANGED proved
    BY <1>14, <2>1 DEF CancelValidation
  <2>3. left \in ValidationRows /\ left.status = s /\ left.at = mine.at /\ left.pin = mine.pin /\ left.result = mine.result
    BY <1>1 DEF ValidationRows, Statuses
  <2> HIDE DEF left
  <2> QED
    BY <1>4, <1>6, <2>1, <2>2, <2>3 DEF ProbeTrue
<1> QED
    BY <1>8, <1>9, <1>10, <1>11, <1>12, <1>13, <1>14 DEF ValidationStep

\* Hands on the configuration take back what was reported.
LEMMA ByHandKeeps == ValidationInv /\ ChangedByHand => ValidationInv'
<1> SUFFICES ASSUME ValidationInv, ChangedByHand PROVE ValidationInv'
    OBVIOUS
<1>1. NotChosen \in AnyChoice /\ ModelChoices \subseteq AnyChoice
    BY DEF NotChosen, ModelChoices, Providers, AnyChoice
<1>2. reported' = NotChosen /\ chosen' \in AnyChoice /\ UNCHANGED <<page, validation, proved>>
    BY <1>1 DEF ChangedByHand, validations, ValidationInv, ValidationType
<1> QED
    BY <1>1, <1>2 DEF ValidationInv, ValidationType, ReportTrue, ProbeTrue, OneCurrent, Current

\* A restart fails what was active.
LEMMA RestartKeeps == ValidationInv /\ RestartValidations => ValidationInv'
<1> SUFFICES ASSUME ValidationInv, RestartValidations PROVE ValidationInv'
    OBVIOUS
<1>1. NotChosen \in AnyChoice
    BY DEF NotChosen, AnyChoice
<1>2. NoPage \in [at : PageSteps, wants : AnyChoice, before : AnyChoice] /\ NoPage.at = "idle"
    BY <1>1 DEF NoPage, PageSteps
<1>3. ASSUME NEW v \in Validations
      PROVE  /\ validation'[v] \in ValidationRows /\ ~Current(v)' /\ ProbeTrue(v)'
  <2>1. validation[v] \in ValidationRows /\ validation[v].pin \in AnyChoice /\ validation[v].status \in Statuses
        /\ proved'[v] = proved[v]
    BY DEF ValidationInv, ValidationType, ValidationRows, RestartValidations
  <2>2. CASE validation[v] = NoValidation
    BY <1>1, <2>1, <2>2 DEF RestartValidations, NoValidation, Current, ProbeTrue
  <2>3. CASE validation[v] # NoValidation
    <3> DEFINE s == IF Current(v) THEN "FAILED" ELSE validation[v].status
    <3>1. validation'[v] = [status |-> s, pin |-> validation[v].pin, at |-> "done", result |-> "none",
                            cut |-> FALSE, cancelling |-> FALSE]
        BY <2>3 DEF RestartValidations, NoValidation
    <3>2. s \in Statuses /\ s \notin {"PENDING", "RUNNING"} /\ (s = "SUCCEEDED" => validation[v].status = "SUCCEEDED")
        BY <2>1 DEF Current, Statuses
    <3> HIDE DEF s
    <3>3. ProbeTrue(v)
        BY DEF ValidationInv
    <3>4. \A t \in Statuses, p \in AnyChoice :
             [status |-> t, pin |-> p, at |-> "done", result |-> "none", cut |-> FALSE, cancelling |-> FALSE]
                \in ValidationRows
        BY DEF ValidationRows, WorkerSteps
    <3>6. validation'[v] \in ValidationRows
        BY <2>1, <3>1, <3>2, <3>4
    <3>5. validation'[v].status = s /\ validation'[v].at = "done" /\ validation'[v].pin = validation[v].pin
        BY <3>1
    <3> QED
        BY <2>1, <3>2, <3>3, <3>5, <3>6 DEF ProbeTrue, Current
  <2> QED
    BY <2>2, <2>3
<1>4. validation' \in [Validations -> ValidationRows]
    BY <1>3 DEF RestartValidations
<1>5. ValidationType' /\ ReportTrue'
    BY <1>1, <1>2, <1>4 DEF RestartValidations, ValidationInv, ValidationType, ReportTrue, Unlocked
<1> QED
    BY <1>3, <1>5 DEF ValidationInv, OneCurrent

\* Every step keeps the inductive invariant.
LEMMA ValidationInvStep == ValidationInv /\ [ValidationNext]_validationVars => ValidationInv'
<1>1. ASSUME ValidationInv, UNCHANGED validationVars PROVE ValidationInv'
    BY <1>1 DEF validationVars, ValidationInv, ValidationType, ReportTrue, ProbeTrue, OneCurrent, Current
<1> QED
    BY <1>1, PageKeeps, ValidationKeeps, ByHandKeeps, RestartKeeps DEF ValidationNext

\* The inductive invariant implies the property.
LEMMA ValidationInvImplies == ValidationInv => ValidationTrue
<1> SUFFICES ASSUME ValidationInv PROVE ValidationTrue
    OBVIOUS
<1> DEFINE S == {v \in Validations : Current(v)}
<1>1. Cardinality(S) <= 1
  <2>1. CASE S = {}
    BY <2>1, FS_EmptySet
  <2>2. CASE S # {}
    <3>1. PICK v \in Validations : S = {v}
        BY <2>2 DEF ValidationInv, OneCurrent
    <3>2. Cardinality(S) = 1
        BY <3>1, FS_Singleton
    <3> QED
        BY <3>2
  <2> QED
    BY <2>1, <2>2
<1>2. ASSUME NEW v \in Validations, Shows(v), validation[v].status = "SUCCEEDED" PROVE proved[v] = chosen
    BY <1>2 DEF Shows, ValidationInv, ProbeTrue
<1>3. reported # NotChosen => chosen = reported
    BY DEF ValidationInv, ReportTrue
<1> QED
    BY <1>1, <1>2, <1>3 DEF ValidationTrue

\* For any number of validations, requests, hands and faults: the page says PASSED
\* only of what a probe was of, a reported change is what is configured, and one
\* validation at most is unfinished.
THEOREM ValidationIsTrue == ValidationSpec => []ValidationTrue
BY ValidationInitially, ValidationInvStep, ValidationInvImplies, PTL DEF ValidationSpec

-----------------------------------------------------------------------------
(***************************************************************************)
(* The managed store.                                                      *)
(***************************************************************************)
ImportSteps == {"idle", "check", "read", "look", "publish", "return", "done"}
Outcomes == {"none", "ok", "missing", "refused", "conflict", "failed"}
Importers == [at : ImportSteps, ref : Refs \cup {NoRef}, content : Digests \cup {"none"}, outcome : Outcomes]
Selections == [content : Sources, kind : {"ZIP", "DIRECTORY"}]

StoreType ==
    /\ selected \in [Refs -> Selections \cup {Unchosen}]
    /\ staged \in [Refs -> {"absent", "partly", "whole"}]
    /\ dialog \in Refs \cup {NoRef}
    /\ importer \in Importers
    /\ store \in [Digests -> {"absent", "whole", "torn", "other"}]
    /\ unsynced \subseteq {d \in Digests : store[d] # "absent"}
    /\ taken \subseteq Refs /\ strays \subseteq Refs

\* A reference the panel or the worker goes by was selected, and its staged source is
\* whole until somebody begins to remove it.
RefTrue(r) ==
    /\ selected[r] = Unchosen => staged[r] = "absent" /\ r \notin {dialog, importer.ref} \cup taken \cup strays
    /\ r \in {dialog, importer.ref} => staged[r] = "whole" \/ r \in taken

\* What the worker has read, found and left behind.
ImporterTrue ==
    /\ importer.at \in {"look", "publish"} => Digest \in Digests
    /\ importer.at \in {"check", "read", "look", "publish"} => importer.outcome = "none"
    /\ Digest = "part" => taken # {}
    /\ importer.at = "check" /\ importer.ref = NoRef => Digest = Catalog
    /\ importer.at = "read" /\ importer.ref = NoRef => Digest = Catalog
    /\ importer.at \in {"idle", "done"} => importer.ref \in {NoRef} \cup taken \cup strays
    /\ importer.outcome = "ok" => Digest \in Digests

StoreInv == StoreType /\ (\A r \in Refs : RefTrue(r)) /\ ImporterTrue /\ SkillStoreTrue

\* The initial states satisfy the invariant.
LEMMA StoreInitially == SkillStoreInit => StoreInv
<1> SUFFICES ASSUME SkillStoreInit PROVE StoreInv
    OBVIOUS
<1>0. NoRef \notin Refs
    BY SkillStoreBounds DEF Refs, NoRef
<1>1. StoreType
    BY DEF SkillStoreInit, StoreType, NoImporter, Importers, ImportSteps, Outcomes, Digests
<1>2. \A r \in Refs : RefTrue(r)
    BY <1>0 DEF SkillStoreInit, RefTrue, NoImporter
<1>3. ImporterTrue
    BY DEF SkillStoreInit, ImporterTrue, NoImporter, Digest
<1>4. SkillStoreTrue
    BY DEF SkillStoreInit, SkillStoreTrue, StoreImmutable, ResultIsThere, ConflictHasCause, MissingHasCause,
           NoStraySources, NoImporter
<1> QED
    BY <1>1, <1>2, <1>3, <1>4 DEF StoreInv

\* The panel: selecting.
LEMMA SelectKeeps ==
    ASSUME StoreInv, NEW content \in Sources, NEW kind \in {"ZIP", "DIRECTORY"}, Select(content, kind)
    PROVE  StoreInv'
<1>1. PICK ref \in Refs :
         /\ selected[ref] = Unchosen /\ selected' = [selected EXCEPT ![ref] = [content |-> content, kind |-> kind]]
         /\ \/ dialog' = ref /\ staged' = [staged EXCEPT ![ref] = "whole"] /\ UNCHANGED strays
            \/ UNCHANGED <<dialog, staged, strays>>
            \/ staged' = [staged EXCEPT ![ref] = "partly"] /\ strays' = strays \cup {ref} /\ UNCHANGED dialog
    BY DEF Select
<1>2. UNCHANGED <<importer, hasRow, store, unsynced, taken, handled>> /\ dialog = NoRef
    BY DEF Select, kept
<1>3. [content |-> content, kind |-> kind] \in Selections /\ [content |-> content, kind |-> kind] # Unchosen
    BY DEF Selections, Unchosen, Sources, Flaws
<1>4. NoRef \notin Refs
    BY SkillStoreBounds DEF Refs, NoRef
<1>5. StoreType'
    BY <1>1, <1>2, <1>3 DEF StoreInv, StoreType
<1>6. ASSUME NEW r \in Refs PROVE RefTrue(r)'
    BY <1>1, <1>2, <1>3, <1>4 DEF StoreInv, StoreType, RefTrue
<1>7. ImporterTrue'
    BY <1>1, <1>2 DEF StoreInv, ImporterTrue, Digest
<1>8. (StoreImmutable /\ ResultIsThere /\ ConflictHasCause /\ MissingHasCause)'
    BY <1>1, <1>2 DEF StoreInv, SkillStoreTrue, StoreImmutable, ResultIsThere, ConflictHasCause, MissingHasCause, Digest
<1>9. NoStraySources'
    BY <1>1, <1>2, <1>4 DEF StoreInv, StoreType, SkillStoreTrue, NoStraySources
<1> QED
    BY <1>5, <1>6, <1>7, <1>8, <1>9 DEF StoreInv, SkillStoreTrue

\* The panel: closing.
LEMMA DiscardKeeps == StoreInv /\ Discard => StoreInv'
<1> SUFFICES ASSUME StoreInv, Discard PROVE StoreInv'
    OBVIOUS
<1>1. NoRef \notin Refs
    BY SkillStoreBounds DEF Refs, NoRef
<1> USE DEF Discard, TakenNow, kept, picked, seen, ImporterAt, ImporterGoes, Returns
<1>2. StoreType'
    BY <1>1 DEF StoreInv, StoreType, Importers, ImportSteps, Outcomes, NoImporter
<1>3. ASSUME NEW r \in Refs PROVE RefTrue(r)'
    BY <1>1 DEF StoreInv, StoreType, RefTrue, Importers, NoImporter
<1>4. ImporterTrue'
    BY <1>1 DEF StoreInv, StoreType, RefTrue, ImporterTrue, Digest, Importers, NoImporter
<1>5. StoreImmutable'
    BY <1>1 DEF StoreInv, StoreType, ImporterTrue, SkillStoreTrue, StoreImmutable, Digest
<1>6. ResultIsThere' /\ ConflictHasCause'
    BY <1>1 DEF StoreInv, StoreType, ImporterTrue, SkillStoreTrue, ResultIsThere, ConflictHasCause, Digest, Importers, NoImporter
<1>7. MissingHasCause'
    BY <1>1 DEF StoreInv, StoreType, RefTrue, ImporterTrue, SkillStoreTrue, MissingHasCause, Importers, NoImporter
<1>8. NoStraySources'
    BY <1>1 DEF StoreInv, StoreType, RefTrue, ImporterTrue, SkillStoreTrue, NoStraySources, Importers, NoImporter
<1> QED
    BY <1>2, <1>3, <1>4, <1>5, <1>6, <1>7, <1>8 DEF StoreInv, SkillStoreTrue

\* The end of a removal.
LEMMA RemovedKeeps == StoreInv /\ (\E r \in Refs : Removed(r)) => StoreInv'
<1> SUFFICES ASSUME StoreInv, (\E r \in Refs : Removed(r)) PROVE StoreInv'
    OBVIOUS
<1>1. NoRef \notin Refs
    BY SkillStoreBounds DEF Refs, NoRef
<1> USE DEF Removed, kept, picked, seen, ImporterAt, ImporterGoes, Returns
<1>2. StoreType'
    BY <1>1 DEF StoreInv, StoreType, Importers, ImportSteps, Outcomes, NoImporter
<1>3. ASSUME NEW r \in Refs PROVE RefTrue(r)'
    BY <1>1 DEF StoreInv, StoreType, RefTrue, Importers, NoImporter
<1>4. ImporterTrue'
    BY <1>1 DEF StoreInv, StoreType, RefTrue, ImporterTrue, Digest, Importers, NoImporter
<1>5. StoreImmutable'
    BY <1>1 DEF StoreInv, StoreType, ImporterTrue, SkillStoreTrue, StoreImmutable, Digest
<1>6. ResultIsThere' /\ ConflictHasCause'
    BY <1>1 DEF StoreInv, StoreType, ImporterTrue, SkillStoreTrue, ResultIsThere, ConflictHasCause, Digest, Importers, NoImporter
<1>7. MissingHasCause'
    BY <1>1 DEF StoreInv, StoreType, RefTrue, ImporterTrue, SkillStoreTrue, MissingHasCause, Importers, NoImporter
<1>8. NoStraySources'
    BY <1>1 DEF StoreInv, StoreType, RefTrue, ImporterTrue, SkillStoreTrue, NoStraySources, Importers, NoImporter
<1> QED
    BY <1>2, <1>3, <1>4, <1>5, <1>6, <1>7, <1>8 DEF StoreInv, SkillStoreTrue

\* An import is accepted.
LEMMA StartImportKeeps == StoreInv /\ StartImport => StoreInv'
<1> SUFFICES ASSUME StoreInv, StartImport PROVE StoreInv'
    OBVIOUS
<1>1. NoRef \notin Refs
    BY SkillStoreBounds DEF Refs, NoRef
<1> USE DEF StartImport, kept, picked, seen, ImporterAt, ImporterGoes, Returns
<1>2. StoreType'
    BY <1>1 DEF StoreInv, StoreType, Importers, ImportSteps, Outcomes, NoImporter
<1>3. ASSUME NEW r \in Refs PROVE RefTrue(r)'
    BY <1>1 DEF StoreInv, StoreType, RefTrue, Importers, NoImporter
<1>4. ImporterTrue'
    BY <1>1 DEF StoreInv, StoreType, RefTrue, ImporterTrue, Digest, Importers, NoImporter
<1>5. StoreImmutable'
    BY <1>1 DEF StoreInv, StoreType, ImporterTrue, SkillStoreTrue, StoreImmutable, Digest
<1>6. ResultIsThere' /\ ConflictHasCause'
    BY <1>1 DEF StoreInv, StoreType, ImporterTrue, SkillStoreTrue, ResultIsThere, ConflictHasCause, Digest, Importers, NoImporter
<1>7. MissingHasCause'
    BY <1>1 DEF StoreInv, StoreType, RefTrue, ImporterTrue, SkillStoreTrue, MissingHasCause, Importers, NoImporter
<1>8. NoStraySources'
    BY <1>1 DEF StoreInv, StoreType, RefTrue, ImporterTrue, SkillStoreTrue, NoStraySources, Importers, NoImporter
<1> QED
    BY <1>2, <1>3, <1>4, <1>5, <1>6, <1>7, <1>8 DEF StoreInv, SkillStoreTrue

\* An install from the catalog is accepted.
LEMMA StartInstallKeeps == StoreInv /\ StartInstall => StoreInv'
<1> SUFFICES ASSUME StoreInv, StartInstall PROVE StoreInv'
    OBVIOUS
<1>1. NoRef \notin Refs
    BY SkillStoreBounds DEF Refs, NoRef
<1> USE DEF StartInstall, Digests, Catalog, kept, picked, seen, ImporterAt, ImporterGoes, Returns
<1>2. StoreType'
    BY <1>1 DEF StoreInv, StoreType, Importers, ImportSteps, Outcomes, NoImporter
<1>3. ASSUME NEW r \in Refs PROVE RefTrue(r)'
    BY <1>1 DEF StoreInv, StoreType, RefTrue, Importers, NoImporter
<1>4. ImporterTrue'
    BY <1>1 DEF StoreInv, StoreType, RefTrue, ImporterTrue, Digest, Importers, NoImporter
<1>5. StoreImmutable'
    BY <1>1 DEF StoreInv, StoreType, ImporterTrue, SkillStoreTrue, StoreImmutable, Digest
<1>6. ResultIsThere' /\ ConflictHasCause'
    BY <1>1 DEF StoreInv, StoreType, ImporterTrue, SkillStoreTrue, ResultIsThere, ConflictHasCause, Digest, Importers, NoImporter
<1>7. MissingHasCause'
    BY <1>1 DEF StoreInv, StoreType, RefTrue, ImporterTrue, SkillStoreTrue, MissingHasCause, Importers, NoImporter
<1>8. NoStraySources'
    BY <1>1 DEF StoreInv, StoreType, RefTrue, ImporterTrue, SkillStoreTrue, NoStraySources, Importers, NoImporter
<1> QED
    BY <1>2, <1>3, <1>4, <1>5, <1>6, <1>7, <1>8 DEF StoreInv, SkillStoreTrue

\* What a step of the worker makes of its record.
LEMMA ImporterChanges ==
    ASSUME StoreType
    PROVE  /\ importer.ref \in Refs \cup {NoRef} /\ importer.content \in Digests \cup {"none"}
           /\ importer.at \in ImportSteps /\ importer.outcome \in Outcomes
           /\ \A step \in ImportSteps : ImporterGoes(step) =>
                 /\ importer' \in Importers /\ importer'.at = step /\ importer'.outcome = importer.outcome
                 /\ importer'.ref = importer.ref /\ importer'.content = importer.content
           /\ \A o \in Outcomes : Returns(o) =>
                 /\ importer' \in Importers /\ importer'.at = "return" /\ importer'.outcome = o
                 /\ importer'.ref = importer.ref /\ importer'.content = importer.content
           /\ \A c \in Digests : importer' = [importer EXCEPT !.at = "look", !.content = c] =>
                 /\ importer' \in Importers /\ importer'.at = "look" /\ importer'.outcome = importer.outcome
                 /\ importer'.ref = importer.ref /\ importer'.content = c
<1>1. importer \in Importers
    BY DEF StoreType
<1>2. ASSUME NEW step \in ImportSteps, ImporterGoes(step)
      PROVE  /\ importer' \in Importers /\ importer'.at = step /\ importer'.outcome = importer.outcome
             /\ importer'.ref = importer.ref /\ importer'.content = importer.content
    BY <1>1, <1>2 DEF ImporterGoes, Importers
<1>3. ASSUME NEW o \in Outcomes, Returns(o)
      PROVE  /\ importer' \in Importers /\ importer'.at = "return" /\ importer'.outcome = o
             /\ importer'.ref = importer.ref /\ importer'.content = importer.content
    BY <1>1, <1>3 DEF Returns, Importers, ImportSteps
<1>4. ASSUME NEW c \in Digests, importer' = [importer EXCEPT !.at = "look", !.content = c]
      PROVE  /\ importer' \in Importers /\ importer'.at = "look" /\ importer'.outcome = importer.outcome
             /\ importer'.ref = importer.ref /\ importer'.content = c
    BY <1>1, <1>4 DEF Importers, ImportSteps
<1> QED
    BY <1>1, <1>2, <1>3, <1>4 DEF Importers

\* The row is looked for.
LEMMA CheckRowKeeps == StoreInv /\ CheckRow => StoreInv'
<1> SUFFICES ASSUME StoreInv, CheckRow PROVE StoreInv'
    OBVIOUS
<1>1. NoRef \notin Refs
    BY SkillStoreBounds DEF Refs, NoRef
<1>2. /\ UNCHANGED <<selected, staged, dialog, hasRow, store, unsynced, taken, handled>>
      /\ importer' \in Importers /\ importer'.ref = importer.ref /\ importer'.content = importer.content
      /\ importer.at = "check" /\ importer.outcome = "none"
      /\ \/ importer'.at = "read" /\ importer'.outcome = "none" /\ UNCHANGED strays
         \/ /\ importer'.at = "done" /\ importer'.outcome = "failed"
            /\ strays' = strays \cup ({importer.ref} \ {NoRef})
  <2>1. /\ UNCHANGED <<selected, staged, dialog, hasRow, store, unsynced, taken, handled>>
        /\ importer.at = "check" /\ importer.outcome = "none"
    BY DEF CheckRow, picked, kept, ImporterAt, ImporterTrue, StoreInv
  <2>2. /\ "read" \in ImportSteps /\ importer \in Importers
        /\ [importer EXCEPT !.at = "done", !.outcome = "failed"] \in Importers
    BY DEF ImportSteps, Outcomes, Importers, StoreInv, StoreType
  <2>4. \/ ImporterGoes("read") /\ UNCHANGED strays
        \/ /\ importer' = [importer EXCEPT !.at = "done", !.outcome = "failed"]
           /\ strays' = strays \cup ({importer.ref} \ {NoRef})
    BY DEF CheckRow
  <2>5. CASE ImporterGoes("read") /\ UNCHANGED strays
    BY <2>1, <2>2, <2>5, ImporterChanges DEF StoreInv
  <2>6. CASE importer' = [importer EXCEPT !.at = "done", !.outcome = "failed"]
             /\ strays' = strays \cup ({importer.ref} \ {NoRef})
    <3>1. /\ importer'.at = "done" /\ importer'.outcome = "failed" /\ importer'.ref = importer.ref
          /\ importer'.content = importer.content /\ importer' \in Importers
        BY <2>2, <2>6 DEF Importers
    <3> QED
        BY <2>1, <2>6, <3>1
  <2> QED
    BY <2>4, <2>5, <2>6
<1>3. StoreType'
    BY <1>1, <1>2 DEF StoreInv, StoreType, Importers
<1>4. ASSUME NEW r \in Refs PROVE RefTrue(r)'
    BY <1>1, <1>2 DEF StoreInv, StoreType, RefTrue
<1>5. ImporterTrue'
    BY <1>1, <1>2 DEF StoreInv, ImporterTrue, Digest
<1>6. StoreImmutable'
    BY <1>2 DEF StoreInv, StoreType, ImporterTrue, SkillStoreTrue, StoreImmutable, Digest
<1>7. ResultIsThere' /\ ConflictHasCause'
    BY <1>2 DEF StoreInv, StoreType, ImporterTrue, SkillStoreTrue, ResultIsThere, ConflictHasCause, StoreImmutable, Digest
<1>8. MissingHasCause'
    BY <1>2 DEF StoreInv, SkillStoreTrue, MissingHasCause
<1>9. NoStraySources'
    BY <1>1, <1>2 DEF StoreInv, StoreType, SkillStoreTrue, NoStraySources
<1> QED
    BY <1>3, <1>4, <1>5, <1>6, <1>7, <1>8, <1>9 DEF StoreInv, SkillStoreTrue

\* The staged source is read.
LEMMA ReadSourceKeeps == StoreInv /\ ReadSource => StoreInv'
<1> SUFFICES ASSUME StoreInv, ReadSource PROVE StoreInv'
    OBVIOUS
<1>1. NoRef \notin Refs
    BY SkillStoreBounds DEF Refs, NoRef
<1>2. /\ UNCHANGED <<selected, staged, dialog, hasRow, store, unsynced, taken, strays, handled>>
      /\ importer' \in Importers /\ importer'.ref = importer.ref /\ importer.at = "read" /\ importer.outcome = "none"
      /\ \/ /\ importer'.at = "look" /\ importer'.outcome = "none" /\ importer'.content \in Digests
            /\ importer'.content = "part" => taken # {}
         \/ /\ importer'.at = "return" /\ importer'.content = importer.content /\ importer'.outcome = "refused"
         \/ /\ importer'.at = "return" /\ importer'.content = importer.content /\ importer'.outcome = "missing"
            /\ importer.ref \in taken
  <2> USE DEF StoreInv
  <2>1. UNCHANGED <<selected, staged, dialog, hasRow, store, unsynced, taken, strays, handled>> /\ importer.at = "read"
        /\ importer.outcome = "none"
    BY DEF ReadSource, picked, kept, seen, ImporterAt, ImporterTrue
  <2>2. Catalog \in Digests /\ Catalog # "part" /\ "v1" \in Digests /\ "part" \in Digests
    BY DEF Digests, Catalog
  <2>3. "look" \in ImportSteps /\ "missing" \in Outcomes /\ "refused" \in Outcomes
    BY DEF ImportSteps, Outcomes
  <2>4. CASE importer.ref = NoRef
    <3>1. ImporterGoes("look") /\ importer.content = Catalog
        BY <2>1, <2>4 DEF ReadSource, ImporterTrue, Digest
    <3> QED
        BY <2>1, <2>2, <2>3, <3>1, ImporterChanges
  <2>5. CASE importer.ref # NoRef
    <3> DEFINE ref == importer.ref
    <3>1. ref \in Refs /\ RefTrue(ref) /\ staged[ref] \in {"absent", "partly", "whole"}
        BY <2>5, ImporterChanges DEF StoreType
    <3>2. staged[ref] = "whole" \/ ref \in taken
        BY <3>1 DEF RefTrue
    <3>3. CASE staged[ref] # "whole" /\ Returns("missing")
        BY <2>1, <2>3, <3>2, <3>3, ImporterChanges
    <3>4. CASE Returns("refused")
        BY <2>1, <2>3, <3>4, ImporterChanges
    <3>5. CASE staged[ref] = "whole" /\ ~Rejected(selected[ref].content)
               /\ importer' = [importer EXCEPT !.at = "look", !.content = selected[ref].content]
      <4>1. selected[ref] \in Selections
        BY <3>1, <3>5 DEF RefTrue, StoreType
      <4>2. selected[ref].content = "v1"
        BY <3>5, <4>1 DEF Selections, Sources, Rejected
      <4> QED
        BY <2>1, <2>2, <3>5, <4>2, ImporterChanges
    <3>6. CASE staged[ref] # "whole" /\ importer' = [importer EXCEPT !.at = "look", !.content = "part"]
        BY <2>1, <2>2, <3>2, <3>6, ImporterChanges
    <3> QED
        BY <2>5, <3>3, <3>4, <3>5, <3>6 DEF ReadSource
  <2> QED
    BY <2>4, <2>5
<1>3. StoreType'
    BY <1>2 DEF StoreInv, StoreType
<1>4. ASSUME NEW r \in Refs PROVE RefTrue(r)'
    BY <1>1, <1>2 DEF StoreInv, StoreType, RefTrue
<1>5. ImporterTrue'
    BY <1>1, <1>2 DEF StoreInv, ImporterTrue, Digest
<1>6. StoreImmutable'
    BY <1>2 DEF StoreInv, StoreType, ImporterTrue, SkillStoreTrue, StoreImmutable, Digest
<1>7. ResultIsThere' /\ ConflictHasCause'
    BY <1>2 DEF StoreInv, StoreType, ImporterTrue, SkillStoreTrue, ResultIsThere, ConflictHasCause, StoreImmutable, Digest
<1>8. MissingHasCause'
    BY <1>2 DEF StoreInv, SkillStoreTrue, MissingHasCause
<1>9. NoStraySources'
    BY <1>1, <1>2 DEF StoreInv, StoreType, SkillStoreTrue, NoStraySources
<1> QED
    BY <1>3, <1>4, <1>5, <1>6, <1>7, <1>8, <1>9 DEF StoreInv, SkillStoreTrue

\* The destination is looked at.
LEMMA LookKeeps == StoreInv /\ LookAtDestination => StoreInv'
<1> SUFFICES ASSUME StoreInv, LookAtDestination PROVE StoreInv'
    OBVIOUS
<1>1. NoRef \notin Refs
    BY SkillStoreBounds DEF Refs, NoRef
<1>2. /\ UNCHANGED <<selected, staged, dialog, hasRow, store, unsynced, taken, strays, handled>>
      /\ importer' \in Importers /\ importer'.ref = importer.ref /\ importer'.content = importer.content
      /\ importer.at = "look" /\ importer.outcome = "none" /\ importer.content \in Digests
      /\ \/ importer'.at = "return" /\ importer'.outcome = "ok" /\ store[Digest] = "whole"
         \/ importer'.at = "return" /\ importer'.outcome = "conflict" /\ store[Digest] \in {"torn", "other"}
         \/ importer'.at = "publish" /\ importer'.outcome = "none"
         \/ importer'.at = "return" /\ importer'.outcome = "failed"
  <2>1. UNCHANGED <<selected, staged, dialog, hasRow, store, unsynced, taken, strays, handled>> /\ importer.at = "look"
        /\ importer.outcome = "none" /\ importer.content \in Digests
    BY DEF LookAtDestination, picked, kept, seen, ImporterAt, ImporterTrue, StoreInv, Digest
  <2>2. "publish" \in ImportSteps /\ {"ok", "conflict", "failed"} \subseteq Outcomes
    BY DEF ImportSteps, Outcomes
  <2>3. \/ Returns("ok") /\ store[Digest] = "whole"
        \/ Returns("conflict") /\ store[Digest] \in {"torn", "other"}
        \/ ImporterGoes("publish")
        \/ Returns("failed")
    BY DEF LookAtDestination
  <2> QED
    BY <2>1, <2>2, <2>3, ImporterChanges DEF StoreInv
<1>3. StoreType'
    BY <1>2 DEF StoreInv, StoreType
<1>4. ASSUME NEW r \in Refs PROVE RefTrue(r)'
    BY <1>1, <1>2 DEF StoreInv, StoreType, RefTrue
<1>5. ImporterTrue'
    BY <1>1, <1>2 DEF StoreInv, ImporterTrue, Digest
<1>6. StoreImmutable'
    BY <1>2 DEF StoreInv, StoreType, ImporterTrue, SkillStoreTrue, StoreImmutable, Digest
<1>7. ResultIsThere' /\ ConflictHasCause'
    BY <1>2 DEF StoreInv, StoreType, ImporterTrue, SkillStoreTrue, ResultIsThere, ConflictHasCause, StoreImmutable, Digest
<1>8. MissingHasCause'
    BY <1>2 DEF StoreInv, SkillStoreTrue, MissingHasCause
<1>9. NoStraySources'
    BY <1>1, <1>2 DEF StoreInv, StoreType, SkillStoreTrue, NoStraySources
<1> QED
    BY <1>3, <1>4, <1>5, <1>6, <1>7, <1>8, <1>9 DEF StoreInv, SkillStoreTrue

\* The copy is renamed into the store.
LEMMA PublishSkillKeeps == StoreInv /\ PublishSkill => StoreInv'
<1> SUFFICES ASSUME StoreInv, PublishSkill PROVE StoreInv'
    OBVIOUS
<1>1. NoRef \notin Refs
    BY SkillStoreBounds DEF Refs, NoRef
<1>2. /\ UNCHANGED <<selected, staged, dialog, hasRow, taken, strays, handled>>
      /\ importer' \in Importers /\ importer'.ref = importer.ref /\ importer'.content = importer.content
      /\ importer.at = "publish" /\ importer.outcome = "none" /\ importer.content \in Digests /\ importer'.at = "return"
      /\ \/ importer'.outcome = "ok" /\ store' = [store EXCEPT ![Digest] = "whole"] /\ unsynced' = unsynced \cup {Digest}
         \/ importer'.outcome = "failed" /\ UNCHANGED <<store, unsynced>>
  <2>1. UNCHANGED <<selected, staged, dialog, hasRow, taken, strays, handled>> /\ importer.at = "publish"
        /\ importer.outcome = "none" /\ importer.content \in Digests
    BY DEF PublishSkill, picked, seen, ImporterAt, ImporterTrue, StoreInv, Digest
  <2>2. {"ok", "failed"} \subseteq Outcomes /\ DOMAIN store = Digests
    BY DEF Outcomes, StoreInv, StoreType
  <2>3. \/ /\ Returns("ok") /\ unsynced' = unsynced \cup {Digest}
           /\ store' = [d \in DOMAIN store \cup {Digest} |-> IF d = Digest THEN "whole" ELSE store[d]]
        \/ Returns("failed") /\ UNCHANGED <<store, unsynced>>
    BY DEF PublishSkill
  <2>4. DOMAIN store \cup {Digest} = DOMAIN store
    BY <2>1, <2>2 DEF Digest
  <2>5. \/ Returns("ok") /\ unsynced' = unsynced \cup {Digest} /\ store' = [store EXCEPT ![Digest] = "whole"]
        \/ Returns("failed") /\ UNCHANGED <<store, unsynced>>
    BY <2>1, <2>2, <2>3, <2>4 DEF Digest
  <2> QED
    BY <2>1, <2>2, <2>5, ImporterChanges DEF StoreInv
<1>3. StoreType'
    BY <1>2 DEF StoreInv, StoreType, Digest
<1>4. ASSUME NEW r \in Refs PROVE RefTrue(r)'
    BY <1>1, <1>2 DEF StoreInv, StoreType, RefTrue
<1>5. ImporterTrue'
    BY <1>1, <1>2 DEF StoreInv, ImporterTrue, Digest
<1>6. StoreImmutable'
    BY <1>2 DEF StoreInv, StoreType, ImporterTrue, SkillStoreTrue, StoreImmutable, Digest
<1>7. ResultIsThere' /\ ConflictHasCause'
    BY <1>2 DEF StoreInv, StoreType, ImporterTrue, SkillStoreTrue, ResultIsThere, ConflictHasCause, StoreImmutable, Digest
<1>8. MissingHasCause'
    BY <1>2 DEF StoreInv, SkillStoreTrue, MissingHasCause
<1>9. NoStraySources'
    BY <1>1, <1>2 DEF StoreInv, StoreType, SkillStoreTrue, NoStraySources
<1> QED
    BY <1>3, <1>4, <1>5, <1>6, <1>7, <1>8, <1>9 DEF StoreInv, SkillStoreTrue

\* The staged source is removed.
LEMMA ReturnKeeps == StoreInv /\ Return => StoreInv'
<1> SUFFICES ASSUME StoreInv, Return PROVE StoreInv'
    OBVIOUS
<1>1. NoRef \notin Refs
    BY SkillStoreBounds DEF Refs, NoRef
<1>2. /\ UNCHANGED <<selected, dialog, store, unsynced, handled>>
      /\ importer' \in Importers /\ importer'.ref = importer.ref /\ importer'.content = importer.content
      /\ importer.at = "return" /\ importer'.at = "done" /\ importer'.outcome = importer.outcome
      /\ \/ importer.ref = NoRef /\ UNCHANGED <<staged, strays, taken>>
         \/ /\ importer.ref \in Refs /\ taken' = taken \cup {importer.ref} /\ strays' \in {strays, strays \cup {importer.ref}}
            /\ \/ staged' = staged
               \/ staged' = [staged EXCEPT ![importer.ref] = "absent"]
               \/ staged[importer.ref] # "absent" /\ staged' = [staged EXCEPT ![importer.ref] = "partly"]
  <2>1. UNCHANGED <<selected, dialog, store, unsynced, handled>> /\ importer.at = "return" /\ ImporterGoes("done")
    BY DEF Return, ImporterAt
  <2>2. "done" \in ImportSteps /\ importer.ref \in Refs \cup {NoRef}
    BY ImporterChanges DEF ImportSteps, StoreInv
  <2>3. \/ importer.ref = NoRef /\ UNCHANGED <<staged, strays, taken>>
        \/ /\ importer.ref \in Refs /\ taken' = taken \cup {importer.ref} /\ strays' \in {strays, strays \cup {importer.ref}}
           /\ \/ staged' = staged
              \/ staged' = [staged EXCEPT ![importer.ref] = "absent"]
              \/ staged[importer.ref] # "absent" /\ staged' = [staged EXCEPT ![importer.ref] = "partly"]
    BY <2>2 DEF Return, TakenNow, StoreInv, StoreType
  <2> QED
    BY <2>1, <2>2, <2>3, ImporterChanges DEF StoreInv
<1>3. StoreType'
    BY <1>2 DEF StoreInv, StoreType
<1>4. ASSUME NEW r \in Refs PROVE RefTrue(r)'
    BY <1>1, <1>2 DEF StoreInv, StoreType, RefTrue
<1>5. ImporterTrue'
    BY <1>1, <1>2 DEF StoreInv, ImporterTrue, Digest
<1>6. StoreImmutable'
    BY <1>2 DEF StoreInv, StoreType, ImporterTrue, SkillStoreTrue, StoreImmutable, Digest
<1>7. ResultIsThere' /\ ConflictHasCause'
    BY <1>2 DEF StoreInv, StoreType, ImporterTrue, SkillStoreTrue, ResultIsThere, ConflictHasCause, StoreImmutable, Digest
<1>8. MissingHasCause'
    BY <1>2 DEF StoreInv, SkillStoreTrue, MissingHasCause
<1>9. NoStraySources'
    BY <1>1, <1>2 DEF StoreInv, StoreType, SkillStoreTrue, NoStraySources
<1> QED
    BY <1>3, <1>4, <1>5, <1>6, <1>7, <1>8, <1>9 DEF StoreInv, SkillStoreTrue

\* The operation is over.
LEMMA EndImportKeeps == StoreInv /\ EndImport => StoreInv'
<1> SUFFICES ASSUME StoreInv, EndImport PROVE StoreInv'
    OBVIOUS
<1>1. NoRef \notin Refs
    BY SkillStoreBounds DEF Refs, NoRef
<1> USE DEF EndImport, kept, picked, seen, ImporterAt, ImporterGoes, Returns
<1>2. StoreType'
    BY <1>1 DEF StoreInv, StoreType, Importers, ImportSteps, Outcomes, NoImporter
<1>3. ASSUME NEW r \in Refs PROVE RefTrue(r)'
    BY <1>1 DEF StoreInv, StoreType, RefTrue, Importers, NoImporter
<1>4. ImporterTrue'
    BY <1>1 DEF StoreInv, StoreType, RefTrue, ImporterTrue, Digest, Importers, NoImporter
<1>5. StoreImmutable'
    BY <1>1 DEF StoreInv, StoreType, ImporterTrue, SkillStoreTrue, StoreImmutable, Digest
<1>6. ResultIsThere' /\ ConflictHasCause'
    BY <1>1 DEF StoreInv, StoreType, ImporterTrue, SkillStoreTrue, ResultIsThere, ConflictHasCause, Digest, Importers, NoImporter
<1>7. MissingHasCause'
    BY <1>1 DEF StoreInv, StoreType, RefTrue, ImporterTrue, SkillStoreTrue, MissingHasCause, Importers, NoImporter
<1>8. NoStraySources'
    BY <1>1 DEF StoreInv, StoreType, RefTrue, ImporterTrue, SkillStoreTrue, NoStraySources, Importers, NoImporter
<1> QED
    BY <1>2, <1>3, <1>4, <1>5, <1>6, <1>7, <1>8 DEF StoreInv, SkillStoreTrue

\* The row is removed.
LEMMA RemoveRowKeeps == StoreInv /\ RemoveRow => StoreInv'
<1> SUFFICES ASSUME StoreInv, RemoveRow PROVE StoreInv'
    OBVIOUS
<1>1. NoRef \notin Refs
    BY SkillStoreBounds DEF Refs, NoRef
<1> USE DEF RemoveRow, kept, picked, seen, ImporterAt, ImporterGoes, Returns
<1>2. StoreType'
    BY <1>1 DEF StoreInv, StoreType, Importers, ImportSteps, Outcomes, NoImporter
<1>3. ASSUME NEW r \in Refs PROVE RefTrue(r)'
    BY <1>1 DEF StoreInv, StoreType, RefTrue, Importers, NoImporter
<1>4. ImporterTrue'
    BY <1>1 DEF StoreInv, StoreType, RefTrue, ImporterTrue, Digest, Importers, NoImporter
<1>5. StoreImmutable'
    BY <1>1 DEF StoreInv, StoreType, ImporterTrue, SkillStoreTrue, StoreImmutable, Digest
<1>6. ResultIsThere' /\ ConflictHasCause'
    BY <1>1 DEF StoreInv, StoreType, ImporterTrue, SkillStoreTrue, ResultIsThere, ConflictHasCause, Digest, Importers, NoImporter
<1>7. MissingHasCause'
    BY <1>1 DEF StoreInv, StoreType, RefTrue, ImporterTrue, SkillStoreTrue, MissingHasCause, Importers, NoImporter
<1>8. NoStraySources'
    BY <1>1 DEF StoreInv, StoreType, RefTrue, ImporterTrue, SkillStoreTrue, NoStraySources, Importers, NoImporter
<1> QED
    BY <1>2, <1>3, <1>4, <1>5, <1>6, <1>7, <1>8 DEF StoreInv, SkillStoreTrue

\* Another daemon is started.
LEMMA NextDaemonKeeps == StoreInv /\ (\E lost \in SUBSET unsynced : NextDaemon(lost)) => StoreInv'
<1> SUFFICES ASSUME StoreInv, (\E lost \in SUBSET unsynced : NextDaemon(lost)) PROVE StoreInv'
    OBVIOUS
<1>1. NoRef \notin Refs
    BY SkillStoreBounds DEF Refs, NoRef
<1> USE DEF NextDaemon, TakenNow, kept, picked, seen, ImporterAt, ImporterGoes, Returns
<1>2. StoreType'
    BY <1>1 DEF StoreInv, StoreType, Importers, ImportSteps, Outcomes, NoImporter
<1>3. ASSUME NEW r \in Refs PROVE RefTrue(r)'
    BY <1>1 DEF StoreInv, StoreType, RefTrue, Importers, NoImporter
<1>4. ImporterTrue'
    BY <1>1 DEF StoreInv, StoreType, RefTrue, ImporterTrue, Digest, Importers, NoImporter
<1>5. StoreImmutable'
    BY <1>1 DEF StoreInv, StoreType, ImporterTrue, SkillStoreTrue, StoreImmutable, Digest
<1>6. ResultIsThere' /\ ConflictHasCause'
    BY <1>1 DEF StoreInv, StoreType, ImporterTrue, SkillStoreTrue, ResultIsThere, ConflictHasCause, Digest, Importers, NoImporter
<1>7. MissingHasCause'
    BY <1>1 DEF StoreInv, StoreType, RefTrue, ImporterTrue, SkillStoreTrue, MissingHasCause, Importers, NoImporter
<1>8. NoStraySources'
    BY <1>1 DEF StoreInv, StoreType, RefTrue, ImporterTrue, SkillStoreTrue, NoStraySources, Importers, NoImporter
<1> QED
    BY <1>2, <1>3, <1>4, <1>5, <1>6, <1>7, <1>8 DEF StoreInv, SkillStoreTrue

\* A hand on the store.
LEMMA TamperKeeps == StoreInv /\ (\E d \in DOMAIN store : Tamper(d)) => StoreInv'
<1> SUFFICES ASSUME StoreInv, (\E d \in DOMAIN store : Tamper(d)) PROVE StoreInv'
    OBVIOUS
<1>1. NoRef \notin Refs
    BY SkillStoreBounds DEF Refs, NoRef
<1> USE DEF Tamper, kept, picked, seen, ImporterAt, ImporterGoes, Returns
<1>2. StoreType'
    BY <1>1 DEF StoreInv, StoreType, Importers, ImportSteps, Outcomes, NoImporter
<1>3. ASSUME NEW r \in Refs PROVE RefTrue(r)'
    BY <1>1 DEF StoreInv, StoreType, RefTrue, Importers, NoImporter
<1>4. ImporterTrue'
    BY <1>1 DEF StoreInv, StoreType, RefTrue, ImporterTrue, Digest, Importers, NoImporter
<1>5. StoreImmutable'
    BY <1>1 DEF StoreInv, StoreType, ImporterTrue, SkillStoreTrue, StoreImmutable, Digest
<1>6. ResultIsThere' /\ ConflictHasCause'
    BY <1>1 DEF StoreInv, StoreType, ImporterTrue, SkillStoreTrue, ResultIsThere, ConflictHasCause, Digest, Importers, NoImporter
<1>7. MissingHasCause'
    BY <1>1 DEF StoreInv, StoreType, RefTrue, ImporterTrue, SkillStoreTrue, MissingHasCause, Importers, NoImporter
<1>8. NoStraySources'
    BY <1>1 DEF StoreInv, StoreType, RefTrue, ImporterTrue, SkillStoreTrue, NoStraySources, Importers, NoImporter
<1> QED
    BY <1>2, <1>3, <1>4, <1>5, <1>6, <1>7, <1>8 DEF StoreInv, SkillStoreTrue

\* Every step keeps the inductive invariant.
LEMMA StoreInvStep == StoreInv /\ [SkillStoreNext]_storeVars => StoreInv'
<1>1. ASSUME StoreInv, UNCHANGED storeVars PROVE StoreInv'
    BY <1>1 DEF storeVars, StoreInv, StoreType, RefTrue, ImporterTrue, Digest, SkillStoreTrue, StoreImmutable,
                ResultIsThere, ConflictHasCause, MissingHasCause, NoStraySources
<1> QED
    BY <1>1, SelectKeeps, DiscardKeeps, RemovedKeeps, StartImportKeeps, StartInstallKeeps, CheckRowKeeps,
       ReadSourceKeeps, LookKeeps, PublishSkillKeeps, ReturnKeeps, EndImportKeeps, RemoveRowKeeps,
       NextDaemonKeeps, TamperKeeps
       DEF SkillStoreNext

\* For any number of selections, imports, failures and hands: what the store holds is
\* whole under its digest but for a hand or a power cut, a result is there, a conflict
\* or a missing source has its cause, and nothing is left behind without one.
THEOREM SkillStoreIsTrue == SkillStoreSpec => []SkillStoreTrue
<1>1. StoreInv => SkillStoreTrue
    BY DEF StoreInv
<1> QED
    BY <1>1, StoreInitially, StoreInvStep, PTL DEF SkillStoreSpec

-----------------------------------------------------------------------------
(***************************************************************************)
(* Managed Skills.                                                         *)
(***************************************************************************)
SkillActions == {"none", "install", "import", "update", "enable", "disable", "remove"}
SkillSteps == {"idle", "check", "acquire", "createRow", "project", "moveOld", "publish", "publishOver", "verifyNew",
               "verifyOver", "unproject", "updateRow", "replaceRow", "deleteRow", "restart"}
SkillSources == {"none", "catalog", "import"}
SkillRows == [dep : Nat, src : SkillSources, ver : Nat, desired : BOOLEAN,
              state : {"none", "NOT_PROJECTED", "PROJECTED", "DRIFT_MODIFIED", "CONFLICT"}]
SkillTrees == [kind : {"absent", "external", "managed", "modified"}, dep : Nat, src : SkillSources, ver : Nat]
SkillWorkers == [at : SkillSteps, action : SkillActions, dep : Nat, src : SkillSources, ver : Nat,
                 read : SkillRows, aside : SkillTrees]

SkillsType ==
    /\ row \in SkillRows /\ disk \in SkillTrees /\ saved \in SkillTrees /\ worker \in SkillWorkers
    /\ row # NoRow => row.dep # 0
    /\ catalog \in Nat /\ installs \in Nat /\ restored \in BOOLEAN /\ leftBehind \in BOOLEAN

Undisturbed == ~restored /\ ~leftBehind
Marked(tree) == tree.kind \in {"managed", "modified"}
\* A directory with a marker is the row's, and of a release the row, or an update that
\* was not recorded, names.
OfTheRow(tree) ==
    Marked(tree) =>
       /\ tree.dep # 0 /\ tree.dep = row.dep /\ tree.src = row.src
       /\ row.desired => tree.ver = row.ver \/ tree.ver \in halfUpdated

\* What the worker holds agrees with the row, from its checks to its last write.
WorkerKnows ==
    /\ worker.at = "check" /\ ~New =>
          worker.action \in {"update", "enable", "disable", "remove"} /\ worker.src = row.src /\ row.dep # 0
    /\ worker.at \in {"check", "acquire", "createRow"} /\ New => worker.dep # 0
    /\ worker.at \in {"acquire", "createRow"} /\ New => row = NoRow
    /\ worker.at = "createRow" => New
    /\ worker.at \in {"project", "moveOld", "publish", "publishOver", "verifyNew", "verifyOver", "unproject",
                      "updateRow", "replaceRow", "deleteRow"} \/ (worker.at = "acquire" /\ ~New) =>
          worker.dep # 0 /\ worker.dep = row.dep /\ worker.src = row.src
    /\ worker.at = "acquire" /\ ~New => worker.action = "update" /\ worker.read.desired = row.desired
    /\ worker.at \in {"project", "moveOld", "publish", "publishOver", "verifyNew", "verifyOver", "unproject",
                      "updateRow"} =>
          worker.action = "update" \/ worker.ver = row.ver
    /\ worker.at \in {"project", "moveOld", "publish", "publishOver", "verifyNew", "verifyOver"} =>
          New \/ worker.action \in {"update", "enable"}
    /\ worker.at = "unproject" => worker.action \in {"disable", "remove"}
    /\ worker.at = "updateRow" => worker.action # "update"
    /\ worker.at \in {"check", "acquire", "createRow", "project", "moveOld", "publish", "verifyNew"} =>
          worker.aside = Absent

\* What the worker has put into the profile, or is about to.
WorkerOwns ==
    /\ worker.at \in {"moveOld", "publishOver", "verifyOver"} => ~New
    /\ worker.at \in {"project", "publish"} /\ New => ~Marked(disk)
    /\ worker.at = "deleteRow" => ~Marked(disk)
    /\ worker.at \in {"publishOver", "verifyOver"} => OfTheRow(worker.aside)
    /\ worker.at = "updateRow" /\ worker.action # "disable" /\ Marked(disk) => disk.ver = worker.ver
    /\ worker.at = "replaceRow" /\ row.desired /\ Marked(disk) => disk.ver = worker.ver

SkillsInv ==
    /\ SkillsType /\ WorkerKnows
    /\ Undisturbed => OfTheRow(disk) /\ WorkerOwns

\* Facts about the records the actions start from.
LEMMA SkillConstants ==
    /\ NoRow \in SkillRows /\ NoRow.dep = 0 /\ NoRow.desired = FALSE
    /\ Absent \in SkillTrees /\ External \in SkillTrees /\ ~Marked(Absent) /\ ~Marked(External)
    /\ NoWorker \in SkillWorkers /\ NoWorker.at = "idle" /\ NoWorker.aside = Absent
BY DEF NoRow, SkillRows, Absent, External, SkillTrees, Marked, NoWorker, SkillWorkers, SkillSteps, SkillActions,
       SkillSources

\* The fields of the worker, and what a step makes of them.
LEMMA WorkerMoves ==
    ASSUME SkillsType
    PROVE  /\ worker.at \in SkillSteps /\ worker.action \in SkillActions /\ worker.dep \in Nat
           /\ worker.src \in SkillSources /\ worker.ver \in Nat /\ worker.read \in SkillRows
           /\ worker.aside \in SkillTrees
           /\ \A step \in SkillSteps : Becomes(step) =>
                 /\ worker' \in SkillWorkers /\ worker'.at = step /\ worker'.action = worker.action
                 /\ worker'.dep = worker.dep /\ worker'.src = worker.src /\ worker'.ver = worker.ver
                 /\ worker'.read = worker.read /\ worker'.aside = worker.aside
           /\ \A step \in SkillSteps, v \in Nat : worker' = [worker EXCEPT !.at = step, !.ver = v] =>
                 /\ worker' \in SkillWorkers /\ worker'.at = step /\ worker'.action = worker.action
                 /\ worker'.dep = worker.dep /\ worker'.src = worker.src /\ worker'.ver = v
                 /\ worker'.read = worker.read /\ worker'.aside = worker.aside
<1>1. worker \in SkillWorkers
    BY DEF SkillsType
<1>2. ASSUME NEW step \in SkillSteps, Becomes(step)
      PROVE  /\ worker' \in SkillWorkers /\ worker'.at = step /\ worker'.action = worker.action
             /\ worker'.dep = worker.dep /\ worker'.src = worker.src /\ worker'.ver = worker.ver
             /\ worker'.read = worker.read /\ worker'.aside = worker.aside
    BY <1>1, <1>2 DEF Becomes, SkillWorkers
<1>3. ASSUME NEW step \in SkillSteps, NEW v \in Nat, worker' = [worker EXCEPT !.at = step, !.ver = v]
      PROVE  /\ worker' \in SkillWorkers /\ worker'.at = step /\ worker'.action = worker.action
             /\ worker'.dep = worker.dep /\ worker'.src = worker.src /\ worker'.ver = v
             /\ worker'.read = worker.read /\ worker'.aside = worker.aside
    BY <1>1, <1>3 DEF SkillWorkers
<1> QED
    BY <1>1, <1>2, <1>3 DEF SkillWorkers

\* A worker that ends leaves nothing to claim.
LEMMA WorkerEnds == Ends => worker' \in SkillWorkers /\ WorkerKnows' /\ WorkerOwns'
<1> SUFFICES ASSUME Ends PROVE worker' \in SkillWorkers /\ WorkerKnows' /\ WorkerOwns'
    OBVIOUS
<1>1. worker' \in SkillWorkers /\ worker'.at = "idle"
    BY SkillConstants DEF Ends
<1> QED
    BY <1>1 DEF WorkerKnows, WorkerOwns

\* The initial states satisfy the invariant.
LEMMA SkillsInitially == SkillsInit => SkillsInv
<1> SUFFICES ASSUME SkillsInit PROVE SkillsInv
    OBVIOUS
<1>1. SkillsType
    BY SkillConstants DEF SkillsInit, SkillsType
<1>2. WorkerKnows /\ WorkerOwns /\ OfTheRow(disk)
    BY SkillConstants DEF SkillsInit, WorkerKnows, WorkerOwns, OfTheRow, NoWorker
<1> QED
    BY <1>1, <1>2 DEF SkillsInv

\* Ending without a change of the row or the directory.
LEMMA EndKeeps ==
    ASSUME SkillsInv, Ends, UNCHANGED <<row, disk, saved, catalog, installs, halfUpdated, restored, leftBehind>>
    PROVE  SkillsInv'
<1>1. SkillsType'
    BY WorkerEnds DEF SkillsInv, SkillsType
<1>2. Undisturbed' => OfTheRow(disk)'
    BY DEF SkillsInv, Undisturbed, OfTheRow, Marked
<1> QED
    BY <1>1, <1>2, WorkerEnds DEF SkillsInv

\* A projection that fails with the directory gone, put back or someone's.
LEMMA ProjectFailureKeeps ==
    ASSUME SkillsInv, ProjectFails, disk' \in SkillTrees, UNCHANGED <<saved, catalog, installs, halfUpdated, restored>>,
           Undisturbed => OfTheRow(disk') /\ (New => ~Marked(disk'))
    PROVE  SkillsInv'
<1>1. Ends /\ (row' = row \/ (New /\ row' = NoRow)) /\ (leftBehind' = leftBehind \/ leftBehind' = TRUE)
    BY DEF ProjectFails
<1>2. SkillsType'
    BY <1>1, WorkerEnds, SkillConstants DEF SkillsInv, SkillsType
<1>3. Undisturbed' => OfTheRow(disk)'
    BY <1>1 DEF SkillsInv, SkillsType, Undisturbed, OfTheRow, Marked
<1> QED
    BY <1>1, <1>2, <1>3, WorkerEnds DEF SkillsInv

\* An install or an import is accepted.
LEMMA StartNewKeeps == SkillsInv /\ (StartNew("install", "catalog") \/ StartNew("import", "import")) => SkillsInv'
<1> SUFFICES ASSUME SkillsInv, (StartNew("install", "catalog") \/ StartNew("import", "import")) PROVE SkillsInv'
    OBVIOUS
<1> USE DEF At
<1>1. /\ UNCHANGED <<row, disk, saved, catalog, halfUpdated, restored, leftBehind>> /\ installs' \in Nat
      /\ worker' \in SkillWorkers /\ worker'.at = "check" /\ worker'.dep # 0 /\ worker'.aside = Absent
      /\ worker'.action \in {"install", "import"}
  <2>1. ASSUME NEW action \in {"install", "import"}, NEW src \in {"catalog", "import"}, StartNew(action, src)
        PROVE  /\ UNCHANGED <<row, disk, saved, catalog, halfUpdated, restored, leftBehind>> /\ installs' \in Nat
               /\ worker' \in SkillWorkers /\ worker'.at = "check" /\ worker'.dep # 0 /\ worker'.aside = Absent
               /\ worker'.action = action
    <3>1. worker' = [at |-> "check", action |-> action, dep |-> installs + 1, src |-> src, ver |-> 0,
                     read |-> NoRow, aside |-> Absent]
        BY <2>1 DEF StartNew, NoWorker
    <3>2. installs + 1 \in Nat /\ installs' = installs + 1
        BY <2>1 DEF StartNew, SkillsInv, SkillsType
    <3>3. worker' \in SkillWorkers
        BY <3>1, <3>2, SkillConstants DEF SkillWorkers, SkillSteps, SkillActions, SkillSources
    <3>4. UNCHANGED <<row, disk, saved, catalog, halfUpdated, restored, leftBehind>>
        BY <2>1 DEF StartNew, profile, ghosts
    <3>6. installs + 1 # 0
        BY DEF SkillsInv, SkillsType
    <3>5. worker'.at = "check" /\ worker'.dep # 0 /\ worker'.aside = Absent /\ worker'.action = action
        BY <3>1, <3>6
    <3> QED
        BY <3>2, <3>3, <3>4, <3>5
  <2> QED
    BY <2>1
<1>2. SkillsType'
    BY <1>1, WorkerMoves, SkillConstants DEF SkillsInv, SkillsType
<1>3. WorkerKnows'
    BY <1>1, WorkerMoves, SkillConstants DEF SkillsInv, SkillsType, WorkerKnows, New
<1>4. Undisturbed' => OfTheRow(disk)'
    BY <1>1, WorkerMoves, SkillConstants DEF SkillsInv, SkillsType, WorkerKnows, WorkerOwns, Undisturbed, OfTheRow, Marked, New
<1>5. Undisturbed' => WorkerOwns'
    BY <1>1, WorkerMoves, SkillConstants DEF SkillsInv, SkillsType, WorkerKnows, WorkerOwns, Undisturbed, OfTheRow, Marked, New
<1> QED
    BY <1>2, <1>3, <1>4, <1>5 DEF SkillsInv

\* An operation on a Skill that has a row is accepted.
LEMMA StartExistingKeeps == SkillsInv /\ (\E action \in {"update", "enable", "disable", "remove"} : StartExisting(action)) => SkillsInv'
<1> SUFFICES ASSUME SkillsInv, (\E action \in {"update", "enable", "disable", "remove"} : StartExisting(action)) PROVE SkillsInv'
    OBVIOUS
<1> USE DEF At
<1>1. /\ UNCHANGED <<row, disk, saved, catalog, installs, halfUpdated, restored, leftBehind>>
      /\ worker' \in SkillWorkers /\ worker'.at = "check" /\ worker'.aside = Absent
      /\ worker'.action \in {"update", "enable", "disable", "remove"} /\ worker'.src = row.src /\ row # NoRow
  <2>1. PICK action \in {"update", "enable", "disable", "remove"} : StartExisting(action)
    OBVIOUS
  <2>2. worker' = [at |-> "check", action |-> action, dep |-> 0, src |-> row.src, ver |-> 0,
                   read |-> NoRow, aside |-> Absent]
    BY <2>1 DEF StartExisting, NoWorker
  <2>3. row.src \in SkillSources
    BY DEF SkillsInv, SkillsType, SkillRows
  <2>4. worker' \in SkillWorkers
    BY <2>2, <2>3, SkillConstants DEF SkillWorkers, SkillSteps, SkillActions
  <2>5. UNCHANGED <<row, disk, saved, catalog, installs, halfUpdated, restored, leftBehind>> /\ row # NoRow
    BY <2>1 DEF StartExisting, profile, ghosts
  <2>6. worker'.at = "check" /\ worker'.aside = Absent /\ worker'.action = action /\ worker'.src = row.src
    BY <2>2
  <2> QED
    BY <2>1, <2>4, <2>5, <2>6
<1>2. SkillsType'
    BY <1>1, WorkerMoves, SkillConstants DEF SkillsInv, SkillsType
<1>3. WorkerKnows'
    BY <1>1, WorkerMoves, SkillConstants DEF SkillsInv, SkillsType, WorkerKnows, New
<1>4. Undisturbed' => OfTheRow(disk)'
    BY <1>1, WorkerMoves, SkillConstants DEF SkillsInv, SkillsType, WorkerKnows, WorkerOwns, Undisturbed, OfTheRow, Marked, New
<1>5. Undisturbed' => WorkerOwns'
    BY <1>1, WorkerMoves, SkillConstants DEF SkillsInv, SkillsType, WorkerKnows, WorkerOwns, Undisturbed, OfTheRow, Marked, New
<1> QED
    BY <1>2, <1>3, <1>4, <1>5 DEF SkillsInv

\* A Skill that has a row is not installed again.
LEMMA CheckNewKeeps == SkillsInv /\ CheckNew => SkillsInv'
<1> SUFFICES ASSUME SkillsInv, CheckNew PROVE SkillsInv'
    OBVIOUS
<1>1. UNCHANGED <<row, disk, saved, catalog, installs, halfUpdated, restored, leftBehind>>
    BY DEF CheckNew, profile, ghosts
<1>2. CASE Ends
    BY <1>1, <1>2, EndKeeps
<1>3. CASE row = NoRow /\ Becomes("acquire") /\ New /\ worker.at = "check"
  <2>1. "acquire" \in SkillSteps /\ SkillsType
    BY DEF SkillSteps, SkillsInv
  <2>2. /\ worker' \in SkillWorkers /\ worker'.at = "acquire" /\ worker'.action = worker.action
        /\ worker'.dep = worker.dep /\ worker'.src = worker.src /\ worker'.aside = worker.aside
    BY <1>3, <2>1, WorkerMoves
  <2>3. SkillsType'
    BY <1>1, <2>1, <2>2 DEF SkillsType
  <2>4. WorkerKnows'
    BY <1>1, <1>3, <2>2 DEF SkillsInv, WorkerKnows, New
  <2>5. Undisturbed' => OfTheRow(disk)' /\ WorkerOwns'
    BY <1>1, <2>2 DEF SkillsInv, Undisturbed, OfTheRow, Marked, WorkerOwns
  <2> QED
    BY <2>3, <2>4, <2>5 DEF SkillsInv
<1> QED
    BY <1>2, <1>3 DEF CheckNew, At

\* What the profile holds is inspected before an existing Skill is touched.
LEMMA CheckOwnedKeeps == SkillsInv /\ CheckOwned => SkillsInv'
<1> SUFFICES ASSUME SkillsInv, CheckOwned PROVE SkillsInv'
    OBVIOUS
<1> USE DEF At
<1> DEFINE Moved ==
           /\ UNCHANGED <<row, disk, saved, catalog, installs, halfUpdated, restored, leftBehind>>
           /\ worker' \in SkillWorkers /\ worker'.at \in {"acquire", "project", "unproject", "deleteRow"}
           /\ worker'.dep = row.dep /\ row.dep # 0 /\ worker'.src = row.src /\ worker'.ver = row.ver
           /\ worker'.read.desired = row.desired /\ worker'.aside = Absent
           /\ worker'.at = "acquire" => worker'.action = "update"
           /\ worker'.at = "project" => worker'.action = "enable"
           /\ worker'.at = "unproject" => worker'.action \in {"disable", "remove"}
           /\ worker'.at = "deleteRow" => worker'.action = "remove" /\ ~Marked(disk)
<1>1. Moved \/ (Ends /\ UNCHANGED <<row, disk, saved, catalog, installs, halfUpdated, restored, leftBehind>>)
  <2> DEFINE next == CASE worker.action = "update" -> "acquire"
                       [] worker.action = "enable" -> "project"
                       [] worker.action = "disable" -> "unproject"
                       [] OTHER -> IF Observed = "PROJECTED" THEN "unproject" ELSE "deleteRow"
             sees == [row EXCEPT !.state = Observed]
             found == Observed \in {"CONFLICT", "DRIFT_MODIFIED"} \/ (worker.action = "disable" /\ Observed # "PROJECTED")
  <2>1. UNCHANGED <<row, disk, saved, catalog, installs, halfUpdated, restored, leftBehind>> /\ worker.at = "check" /\ ~New
    BY DEF CheckOwned, profile, ghosts
  <2>2. worker.action \in {"update", "enable", "disable", "remove"} /\ worker.aside = Absent
    BY <2>1 DEF SkillsInv, WorkerKnows
  <2>12. worker.src = row.src /\ row.dep # 0
    BY <2>1 DEF SkillsInv, WorkerKnows
  <2>3. sees \in SkillRows /\ sees.desired = row.desired
    BY DEF SkillsInv, SkillsType, SkillRows, Observed
  <2>4. row.dep \in Nat /\ row.ver \in Nat /\ row.src \in SkillSources
    BY DEF SkillsInv, SkillsType, SkillRows
  <2>5. next \in {"acquire", "project", "unproject", "deleteRow"} /\ next \in SkillSteps
    BY <2>2 DEF SkillSteps
  <2>6. Observed = "NOT_PROJECTED" => ~Marked(disk)
    BY DEF Observed, Marked
  <2>7. next = "deleteRow" => Observed = "NOT_PROJECTED" \/ found
    BY <2>2 DEF Observed
  <2>8. /\ next = "acquire" => worker.action = "update"
        /\ next = "project" => worker.action = "enable"
        /\ next = "unproject" => worker.action \in {"disable", "remove"}
        /\ next = "deleteRow" => worker.action = "remove"
    BY <2>2
  <2>9. (found /\ Ends) \/ (~found /\ worker' = [worker EXCEPT !.at = next, !.read = sees, !.dep = row.dep, !.ver = row.ver])
    BY DEF CheckOwned
  <2> HIDE DEF next, sees, found
  <2>10. CASE ~found /\ worker' = [worker EXCEPT !.at = next, !.read = sees, !.dep = row.dep, !.ver = row.ver]
    <3>1. /\ worker' \in SkillWorkers /\ worker'.at = next /\ worker'.action = worker.action /\ worker'.dep = row.dep
          /\ worker'.src = worker.src /\ worker'.ver = row.ver /\ worker'.read = sees /\ worker'.aside = worker.aside
        BY <2>3, <2>4, <2>5, <2>10 DEF SkillsInv, SkillsType, SkillWorkers
    <3> QED
        BY <2>1, <2>2, <2>3, <2>5, <2>6, <2>7, <2>8, <2>10, <2>12, <3>1 DEF New
  <2> QED
    BY <2>1, <2>9, <2>10
<1>2. ASSUME Moved PROVE SkillsInv'
  <2>1. SkillsType'
    BY <1>2, WorkerMoves, SkillConstants DEF SkillsInv, SkillsType
  <2>2. WorkerKnows'
    BY <1>2, WorkerMoves, SkillConstants DEF SkillsInv, WorkerKnows, New
  <2>3. Undisturbed' => OfTheRow(disk)'
    BY <1>2, WorkerMoves, SkillConstants DEF SkillsInv, WorkerKnows, WorkerOwns, Undisturbed, OfTheRow, Marked, New
  <2>4. Undisturbed' => WorkerOwns'
    BY <1>2, WorkerMoves, SkillConstants DEF SkillsInv, WorkerKnows, WorkerOwns, Undisturbed, OfTheRow, Marked, New
  <2> QED
    BY <2>1, <2>2, <2>3, <2>4 DEF SkillsInv
<1> QED
    BY <1>1, <1>2, EndKeeps

\* A release is taken from the catalog, or the staged one.
LEMMA AcquireKeeps == SkillsInv /\ Acquire => SkillsInv'
<1> SUFFICES ASSUME SkillsInv, Acquire PROVE SkillsInv'
    OBVIOUS
<1> USE DEF At
<1> DEFINE Moved ==
           /\ UNCHANGED <<row, disk, saved, catalog, installs, halfUpdated, restored, leftBehind>>
           /\ worker.at = "acquire" /\ worker' \in SkillWorkers /\ worker'.action = worker.action
           /\ worker'.dep = worker.dep /\ worker'.src = worker.src /\ worker'.aside = worker.aside
           /\ worker'.at = IF New THEN "createRow" ELSE IF worker.read.desired THEN "project" ELSE "replaceRow"
<1>1. Moved \/ (Ends /\ UNCHANGED <<row, disk, saved, catalog, installs, halfUpdated, restored, leftBehind>>)
  <2> DEFINE next == IF New THEN "createRow" ELSE IF worker.read.desired THEN "project" ELSE "replaceRow"
  <2>1. UNCHANGED <<row, disk, saved, catalog, installs, halfUpdated, restored, leftBehind>> /\ worker.at = "acquire"
    BY DEF Acquire, profile, ghosts
  <2>2. next \in SkillSteps /\ catalog \in Nat /\ 1..MaxReleases \subseteq Nat /\ SkillsType
    BY DEF SkillSteps, SkillsInv, SkillsType
  <2>3. Ends \/ \E v \in Nat : worker' = [worker EXCEPT !.at = next, !.ver = v]
    BY <2>2 DEF Acquire
  <2>4. next = IF New THEN "createRow" ELSE IF worker.read.desired THEN "project" ELSE "replaceRow"
    OBVIOUS
  <2> HIDE DEF next
  <2>5. ASSUME NEW v \in Nat, worker' = [worker EXCEPT !.at = next, !.ver = v] PROVE Moved
    <3>1. /\ worker' \in SkillWorkers /\ worker'.at = next /\ worker'.action = worker.action
          /\ worker'.dep = worker.dep /\ worker'.src = worker.src /\ worker'.aside = worker.aside
        BY <2>2, <2>5, WorkerMoves
    <3> QED
        BY <2>1, <2>4, <3>1
  <2> QED
    BY <2>1, <2>3, <2>5
<1>2. ASSUME Moved PROVE SkillsInv'
  <2>1. SkillsType'
    BY <1>2, WorkerMoves, SkillConstants DEF SkillsInv, SkillsType
  <2>2. WorkerKnows'
    BY <1>2, WorkerMoves, SkillConstants DEF SkillsInv, WorkerKnows, New
  <2>3. Undisturbed' => OfTheRow(disk)'
    BY <1>2, WorkerMoves, SkillConstants DEF SkillsInv, WorkerKnows, WorkerOwns, Undisturbed, OfTheRow, Marked, New
  <2>4. Undisturbed' => WorkerOwns'
    BY <1>2, WorkerMoves, SkillConstants DEF SkillsInv, WorkerKnows, WorkerOwns, Undisturbed, OfTheRow, Marked, New
  <2> QED
    BY <2>1, <2>2, <2>3, <2>4 DEF SkillsInv
<1> QED
    BY <1>1, <1>2, EndKeeps

\* The row is written before the directory.
LEMMA CreateRowKeeps == SkillsInv /\ CreateRow => SkillsInv'
<1> SUFFICES ASSUME SkillsInv, CreateRow PROVE SkillsInv'
    OBVIOUS
<1> USE DEF At
<1> DEFINE Moved ==
           /\ UNCHANGED <<disk, saved, catalog, installs, halfUpdated, restored, leftBehind>>
           /\ row' \in SkillRows /\ row'.dep = worker.dep /\ row'.src = worker.src /\ row'.ver = worker.ver /\ row'.desired
           /\ worker.at = "createRow" /\ worker'.at = "project" /\ worker' \in SkillWorkers
           /\ worker'.action = worker.action /\ worker'.dep = worker.dep /\ worker'.src = worker.src
           /\ worker'.ver = worker.ver /\ worker'.aside = worker.aside
<1>1. Moved \/ (Ends /\ UNCHANGED <<row, disk, saved, catalog, installs, halfUpdated, restored, leftBehind>>)
  <2>1. UNCHANGED <<disk, saved, catalog, installs, halfUpdated, restored, leftBehind>> /\ worker.at = "createRow"
    BY DEF CreateRow, profile, ghosts
  <2>2. "project" \in SkillSteps /\ SkillsType
    BY DEF SkillSteps, SkillsInv
  <2>3. CASE Ends /\ UNCHANGED row
    BY <2>1, <2>3
  <2>4. CASE Becomes("project") /\ row' = [dep |-> worker.dep, src |-> worker.src, ver |-> worker.ver,
                                           desired |-> TRUE, state |-> "NOT_PROJECTED"]
    <3>1. row' \in SkillRows /\ row'.dep = worker.dep /\ row'.src = worker.src /\ row'.ver = worker.ver /\ row'.desired
        BY <2>2, <2>4, WorkerMoves DEF SkillRows
    <3> QED
        BY <2>1, <2>2, <2>4, <3>1, WorkerMoves
  <2> QED
    BY <2>3, <2>4 DEF CreateRow
<1>2. ASSUME Moved PROVE SkillsInv'
  <2>1. SkillsType'
    BY <1>2, WorkerMoves, SkillConstants DEF SkillsInv, SkillsType, WorkerKnows, New
  <2>2. WorkerKnows'
    BY <1>2, WorkerMoves, SkillConstants DEF SkillsInv, WorkerKnows, New
  <2>3. Undisturbed' => OfTheRow(disk)'
    BY <1>2, WorkerMoves, SkillConstants DEF SkillsInv, WorkerKnows, WorkerOwns, Undisturbed, OfTheRow, Marked, New
  <2>4. Undisturbed' => WorkerOwns'
    BY <1>2, WorkerMoves, SkillConstants DEF SkillsInv, WorkerKnows, WorkerOwns, Undisturbed, OfTheRow, Marked, New
  <2> QED
    BY <2>1, <2>2, <2>3, <2>4 DEF SkillsInv
<1> QED
    BY <1>1, <1>2, EndKeeps

\* The projection looks at what is there.
LEMMA ProjectLooksKeeps == SkillsInv /\ ProjectLooks => SkillsInv'
<1> SUFFICES ASSUME SkillsInv, ProjectLooks PROVE SkillsInv'
    OBVIOUS
<1> USE DEF At
<1> DEFINE Moved ==
           /\ UNCHANGED <<row, disk, saved, catalog, installs, halfUpdated, restored, leftBehind>>
           /\ worker.at = "project" /\ worker' \in SkillWorkers /\ worker'.action = worker.action /\ worker'.dep = worker.dep
           /\ worker'.src = worker.src /\ worker'.ver = worker.ver
           /\ \/ worker'.at = "publish" /\ worker'.aside = worker.aside
              \/ worker'.at = "replaceRow" /\ worker.action = "update" /\ disk.ver = worker.ver
              \/ worker'.at = "updateRow" /\ worker.action # "update" /\ disk.ver = worker.ver
              \/ worker'.at = "moveOld" /\ worker'.aside = worker.aside /\ Marked(disk)
           Failed ==
           /\ ProjectFails /\ disk' \in SkillTrees /\ UNCHANGED <<saved, catalog, installs, halfUpdated, restored>>
           /\ Undisturbed => OfTheRow(disk') /\ (New => ~Marked(disk'))
<1>0. /\ "publish" \in SkillSteps /\ "moveOld" \in SkillSteps /\ "publishOver" \in SkillSteps /\ "verifyNew" \in SkillSteps
      /\ "verifyOver" \in SkillSteps /\ "replaceRow" \in SkillSteps /\ "updateRow" \in SkillSteps /\ SkillsType
    BY DEF SkillSteps, SkillsInv
<1>1. Moved \/ Failed
  <2>1. UNCHANGED <<disk, saved, catalog, installs, halfUpdated, restored>> /\ worker.at = "project"
    BY DEF ProjectLooks, profile
  <2>2. CASE ProjectFails
    BY <1>0, <2>1, <2>2 DEF SkillsInv, SkillsType, WorkerOwns, OfTheRow, Marked
  <2>3. CASE disk = Absent /\ Becomes("publish") /\ UNCHANGED <<row, leftBehind>>
    BY <1>0, <2>1, <2>3, WorkerMoves
  <2>4. CASE /\ Owned(worker.dep) /\ UNCHANGED <<row, leftBehind>>
             /\ Becomes(IF disk.ver = worker.ver THEN Recorded ELSE "moveOld")
    <3>1. CASE disk.ver = worker.ver
      <4>1. Recorded \in {"replaceRow", "updateRow"} /\ (Recorded = "replaceRow" <=> worker.action = "update") /\ Becomes(Recorded)
        BY <2>4, <3>1 DEF Recorded
      <4>2. /\ worker'.at = Recorded /\ worker' \in SkillWorkers /\ worker'.action = worker.action /\ worker'.dep = worker.dep
            /\ worker'.src = worker.src /\ worker'.ver = worker.ver
        BY <1>0, <4>1, WorkerMoves
      <4> QED
        BY <2>1, <2>4, <3>1, <4>1, <4>2
    <3>2. CASE disk.ver # worker.ver
      <4>1. Becomes("moveOld") /\ Marked(disk)
        BY <2>4, <3>2 DEF Owned, Marked
      <4> QED
        BY <1>0, <2>1, <2>4, <4>1, WorkerMoves
    <3> QED
        BY <3>1, <3>2
  <2> QED
    BY <2>2, <2>3, <2>4 DEF ProjectLooks
<1>2. ASSUME Moved PROVE SkillsInv'
  <2>1. SkillsType'
    BY <1>2, WorkerMoves, SkillConstants DEF SkillsInv, SkillsType
  <2>2. WorkerKnows'
    BY <1>2, WorkerMoves, SkillConstants DEF SkillsInv, WorkerKnows, New
  <2>3. Undisturbed' => OfTheRow(disk)'
    BY <1>2, WorkerMoves, SkillConstants DEF SkillsInv, WorkerKnows, WorkerOwns, Undisturbed, OfTheRow, Marked, New
  <2>4. Undisturbed' => WorkerOwns'
    BY <1>2, WorkerMoves, SkillConstants DEF SkillsInv, WorkerKnows, WorkerOwns, Undisturbed, OfTheRow, Marked, New
  <2> QED
    BY <2>1, <2>2, <2>3, <2>4 DEF SkillsInv
<1> QED
    BY <1>1, <1>2, ProjectFailureKeeps

\* The old directory is moved aside.
LEMMA MoveOldKeeps == SkillsInv /\ MoveOld => SkillsInv'
<1> SUFFICES ASSUME SkillsInv, MoveOld PROVE SkillsInv'
    OBVIOUS
<1> USE DEF At
<1> DEFINE Moved ==
           /\ UNCHANGED <<row, saved, catalog, installs, halfUpdated, restored, leftBehind>> /\ disk' = Absent
           /\ worker.at = "moveOld" /\ worker' \in SkillWorkers /\ worker'.action = worker.action /\ worker'.dep = worker.dep
           /\ worker'.src = worker.src /\ worker'.ver = worker.ver
           /\ worker'.at = "publishOver" /\ worker'.aside = disk
           Failed ==
           /\ ProjectFails /\ disk' \in SkillTrees /\ UNCHANGED <<saved, catalog, installs, halfUpdated, restored>>
           /\ Undisturbed => OfTheRow(disk') /\ (New => ~Marked(disk'))
<1>0. /\ "publish" \in SkillSteps /\ "moveOld" \in SkillSteps /\ "publishOver" \in SkillSteps /\ "verifyNew" \in SkillSteps
      /\ "verifyOver" \in SkillSteps /\ "replaceRow" \in SkillSteps /\ "updateRow" \in SkillSteps /\ SkillsType
    BY DEF SkillSteps, SkillsInv
<1>1. Moved \/ Failed
  <2>1. UNCHANGED <<saved, catalog, installs, halfUpdated, restored>> /\ worker.at = "moveOld"
    BY DEF MoveOld
  <2>2. CASE ProjectFails /\ UNCHANGED disk
    BY <1>0, <2>1, <2>2 DEF SkillsInv, SkillsType, WorkerOwns, OfTheRow, Marked
  <2>3. CASE /\ UNCHANGED <<row, leftBehind>> /\ disk' = Absent
             /\ worker' = [worker EXCEPT !.at = "publishOver", !.aside = disk]
    <3>1. /\ worker' \in SkillWorkers /\ worker'.at = "publishOver" /\ worker'.action = worker.action
          /\ worker'.dep = worker.dep /\ worker'.src = worker.src /\ worker'.ver = worker.ver /\ worker'.aside = disk
        BY <1>0, <2>3 DEF SkillsType, SkillWorkers
    <3> QED
        BY <2>1, <2>3, <3>1
  <2> QED
    BY <2>2, <2>3 DEF MoveOld
<1>2. ASSUME Moved PROVE SkillsInv'
  <2>1. SkillsType'
    BY <1>2, WorkerMoves, SkillConstants DEF SkillsInv, SkillsType
  <2>2. WorkerKnows'
    BY <1>2, WorkerMoves, SkillConstants DEF SkillsInv, WorkerKnows, New
  <2>3. Undisturbed' => OfTheRow(disk)'
    BY <1>2, WorkerMoves, SkillConstants DEF SkillsInv, WorkerKnows, WorkerOwns, Undisturbed, OfTheRow, Marked, New
  <2>4. Undisturbed' => WorkerOwns'
    BY <1>2, WorkerMoves, SkillConstants DEF SkillsInv, WorkerKnows, WorkerOwns, Undisturbed, OfTheRow, Marked, New
  <2> QED
    BY <2>1, <2>2, <2>3, <2>4 DEF SkillsInv
<1> QED
    BY <1>1, <1>2, ProjectFailureKeeps

\* A Skill is published where none was.
LEMMA PublishKeeps == SkillsInv /\ Publish => SkillsInv'
<1> SUFFICES ASSUME SkillsInv, Publish PROVE SkillsInv'
    OBVIOUS
<1> USE DEF At
<1> DEFINE Moved ==
           /\ UNCHANGED <<row, saved, catalog, installs, restored, leftBehind>>
           /\ halfUpdated' = IF worker.action = "update" THEN halfUpdated \cup {worker.ver} ELSE halfUpdated
           /\ disk' \in SkillTrees /\ disk'.dep = worker.dep /\ disk'.src = worker.src /\ disk'.ver = worker.ver
           /\ worker.at = "publish" /\ worker' \in SkillWorkers /\ worker'.action = worker.action /\ worker'.dep = worker.dep
           /\ worker'.src = worker.src /\ worker'.ver = worker.ver
           /\ worker'.at = "verifyNew" /\ worker'.aside = worker.aside
           Failed ==
           /\ ProjectFails /\ disk' \in SkillTrees /\ UNCHANGED <<saved, catalog, installs, halfUpdated, restored>>
           /\ Undisturbed => OfTheRow(disk') /\ (New => ~Marked(disk'))
<1>0. /\ "publish" \in SkillSteps /\ "moveOld" \in SkillSteps /\ "publishOver" \in SkillSteps /\ "verifyNew" \in SkillSteps
      /\ "verifyOver" \in SkillSteps /\ "replaceRow" \in SkillSteps /\ "updateRow" \in SkillSteps /\ SkillsType
    BY DEF SkillSteps, SkillsInv
<1>1. Moved \/ Failed
  <2>1. UNCHANGED <<saved, catalog, installs, restored>> /\ worker.at = "publish"
    BY DEF Publish
  <2>7. Published \in SkillTrees /\ Published.dep = worker.dep /\ Published.src = worker.src /\ Published.ver = worker.ver
        /\ Published.kind = "managed"
    BY <1>0, WorkerMoves DEF Published, Projection, SkillTrees
  <2>2. CASE ProjectFails /\ UNCHANGED <<disk, halfUpdated>>
    BY <1>0, <2>1, <2>2 DEF SkillsInv, SkillsType, WorkerOwns, OfTheRow, Marked
  <2>3. CASE disk' = Published /\ Becomes("verifyNew") /\ Unrecorded /\ UNCHANGED <<row, leftBehind>>
    <3>1. /\ worker'.at = "verifyNew" /\ worker' \in SkillWorkers /\ worker'.action = worker.action /\ worker'.dep = worker.dep
          /\ worker'.src = worker.src /\ worker'.ver = worker.ver /\ worker'.aside = worker.aside
        BY <1>0, <2>3, WorkerMoves
    <3> QED
        BY <2>1, <2>3, <2>7, <3>1 DEF Unrecorded
  <2> QED
    BY <2>2, <2>3 DEF Publish
<1>2. ASSUME Moved PROVE SkillsInv'
  <2>1. SkillsType'
    BY <1>2, WorkerMoves, SkillConstants DEF SkillsInv, SkillsType
  <2>2. WorkerKnows'
    BY <1>2, WorkerMoves, SkillConstants DEF SkillsInv, WorkerKnows, New
  <2>3. Undisturbed' => OfTheRow(disk)'
    BY <1>2, WorkerMoves, SkillConstants DEF SkillsInv, WorkerKnows, WorkerOwns, Undisturbed, OfTheRow, Marked, New
  <2>4. Undisturbed' => WorkerOwns'
    BY <1>2, WorkerMoves, SkillConstants DEF SkillsInv, WorkerKnows, WorkerOwns, Undisturbed, OfTheRow, Marked, New
  <2> QED
    BY <2>1, <2>2, <2>3, <2>4 DEF SkillsInv
<1> QED
    BY <1>1, <1>2, ProjectFailureKeeps

\* A release is published in the place of another.
LEMMA PublishOverKeeps == SkillsInv /\ PublishOver => SkillsInv'
<1> SUFFICES ASSUME SkillsInv, PublishOver PROVE SkillsInv'
    OBVIOUS
<1> USE DEF At
<1> DEFINE Moved ==
           /\ UNCHANGED <<row, saved, catalog, installs, restored, leftBehind>>
           /\ halfUpdated' = IF worker.action = "update" THEN halfUpdated \cup {worker.ver} ELSE halfUpdated
           /\ disk' \in SkillTrees /\ disk'.dep = worker.dep /\ disk'.src = worker.src /\ disk'.ver = worker.ver
           /\ worker.at = "publishOver" /\ worker' \in SkillWorkers /\ worker'.action = worker.action /\ worker'.dep = worker.dep
           /\ worker'.src = worker.src /\ worker'.ver = worker.ver
           /\ worker'.at = "verifyOver" /\ worker'.aside = worker.aside
           Failed ==
           /\ ProjectFails /\ disk' \in SkillTrees /\ UNCHANGED <<saved, catalog, installs, halfUpdated, restored>>
           /\ Undisturbed => OfTheRow(disk') /\ (New => ~Marked(disk'))
<1>0. /\ "publish" \in SkillSteps /\ "moveOld" \in SkillSteps /\ "publishOver" \in SkillSteps /\ "verifyNew" \in SkillSteps
      /\ "verifyOver" \in SkillSteps /\ "replaceRow" \in SkillSteps /\ "updateRow" \in SkillSteps /\ SkillsType
    BY DEF SkillSteps, SkillsInv
<1>1. Moved \/ Failed
  <2>1. UNCHANGED <<saved, catalog, installs, restored>> /\ worker.at = "publishOver"
    BY DEF PublishOver
  <2>7. Published \in SkillTrees /\ Published.dep = worker.dep /\ Published.src = worker.src /\ Published.ver = worker.ver
        /\ Published.kind = "managed"
    BY <1>0, WorkerMoves DEF Published, Projection, SkillTrees
  <2>2. CASE ProjectFails /\ UNCHANGED halfUpdated /\ disk' \in {worker.aside, Absent, disk}
    <3>1. disk' \in SkillTrees
        BY <1>0, <2>2, WorkerMoves, SkillConstants DEF SkillsType
    <3>2. Undisturbed => OfTheRow(disk') /\ ~New
        BY <2>1, <2>2, SkillConstants DEF SkillsInv, WorkerOwns, OfTheRow
    <3> QED
        BY <2>1, <2>2, <3>1, <3>2
  <2>3. CASE disk' = Published /\ Becomes("verifyOver") /\ Unrecorded /\ UNCHANGED <<row, leftBehind>>
    <3>1. /\ worker'.at = "verifyOver" /\ worker' \in SkillWorkers /\ worker'.action = worker.action /\ worker'.dep = worker.dep
          /\ worker'.src = worker.src /\ worker'.ver = worker.ver /\ worker'.aside = worker.aside
        BY <1>0, <2>3, WorkerMoves
    <3> QED
        BY <2>1, <2>3, <2>7, <3>1 DEF Unrecorded
  <2> QED
    BY <2>2, <2>3 DEF PublishOver
<1>2. ASSUME Moved PROVE SkillsInv'
  <2>1. SkillsType'
    BY <1>2, WorkerMoves, SkillConstants DEF SkillsInv, SkillsType
  <2>2. WorkerKnows'
    BY <1>2, WorkerMoves, SkillConstants DEF SkillsInv, WorkerKnows, New
  <2>3. Undisturbed' => OfTheRow(disk)'
    BY <1>2, WorkerMoves, SkillConstants DEF SkillsInv, WorkerKnows, WorkerOwns, Undisturbed, OfTheRow, Marked, New
  <2>4. Undisturbed' => WorkerOwns'
    BY <1>2, WorkerMoves, SkillConstants DEF SkillsInv, WorkerKnows, WorkerOwns, Undisturbed, OfTheRow, Marked, New
  <2> QED
    BY <2>1, <2>2, <2>3, <2>4 DEF SkillsInv
<1> QED
    BY <1>1, <1>2, ProjectFailureKeeps

\* What was published is inspected; what is not as it should be is put back.
LEMMA VerifyKeeps == SkillsInv /\ VerifyPublished => SkillsInv'
<1> SUFFICES ASSUME SkillsInv, VerifyPublished PROVE SkillsInv'
    OBVIOUS
<1>1. UNCHANGED <<saved, catalog, installs, halfUpdated, restored>> /\ worker.at \in {"verifyNew", "verifyOver"} /\ SkillsType
    BY DEF VerifyPublished, SkillsInv
<1>2. CASE ProjectFails /\ disk' = worker.aside
  <2>1. disk' \in SkillTrees
    BY <1>1, <1>2, WorkerMoves
  <2>2. Undisturbed => OfTheRow(disk') /\ (New => ~Marked(disk'))
    BY <1>1, <1>2, SkillConstants DEF SkillsInv, WorkerKnows, WorkerOwns, OfTheRow
  <2> QED
    BY <1>1, <1>2, <2>1, <2>2, ProjectFailureKeeps
<1>3. CASE Ends /\ UNCHANGED disk /\ row' \in {row, NoRow} /\ leftBehind' = TRUE
  <2>1. SkillsType' /\ ~Undisturbed'
    BY <1>1, <1>3, WorkerEnds, SkillConstants DEF SkillsType, Undisturbed
  <2> QED
    BY <1>3, <2>1, WorkerEnds DEF SkillsInv
<1>4. CASE disk = Published /\ Becomes(Recorded) /\ UNCHANGED <<row, disk, leftBehind>>
  <2>1. Recorded \in {"replaceRow", "updateRow"} /\ (Recorded = "replaceRow" <=> worker.action = "update")
        /\ "replaceRow" \in SkillSteps /\ "updateRow" \in SkillSteps
    BY DEF Recorded, SkillSteps
  <2>2. disk.ver = worker.ver
    BY <1>4 DEF Published, Projection
  <2>3. /\ worker'.at = Recorded /\ worker' \in SkillWorkers /\ worker'.action = worker.action /\ worker'.dep = worker.dep
        /\ worker'.src = worker.src /\ worker'.ver = worker.ver
    BY <1>1, <1>4, <2>1, WorkerMoves
  <2>4. SkillsType'
    BY <1>1, <1>4, <2>3 DEF SkillsType
  <2>5. WorkerKnows'
    BY <1>1, <1>4, <2>1, <2>3 DEF SkillsInv, WorkerKnows, New
  <2>6. Undisturbed' => OfTheRow(disk)'
    BY <1>1, <1>4 DEF SkillsInv, Undisturbed, OfTheRow, Marked
  <2>7. Undisturbed' => WorkerOwns'
    BY <1>1, <1>4, <2>1, <2>2, <2>3 DEF WorkerOwns
  <2> QED
    BY <2>4, <2>5, <2>6, <2>7 DEF SkillsInv
<1> QED
    BY <1>2, <1>3, <1>4 DEF VerifyPublished

\* The directory of a Skill is taken out of the profile.
LEMMA UnprojectKeeps == SkillsInv /\ Unproject => SkillsInv'
<1> SUFFICES ASSUME SkillsInv, Unproject PROVE SkillsInv'
    OBVIOUS
<1> USE DEF At
<1> DEFINE Moved ==
           /\ UNCHANGED <<row, saved, catalog, installs, halfUpdated, restored, leftBehind>> /\ disk' = Absent
           /\ worker.at = "unproject" /\ worker' \in SkillWorkers /\ worker'.action = worker.action /\ worker'.dep = worker.dep
           /\ worker'.src = worker.src /\ worker'.ver = worker.ver
           /\ \/ worker'.at = "deleteRow" /\ worker.action = "remove"
              \/ worker'.at = "updateRow" /\ worker.action = "disable"
<1>1. Moved \/ (Ends /\ UNCHANGED <<row, disk, saved, catalog, installs, halfUpdated, restored, leftBehind>>)
  <2> DEFINE next == IF worker.action = "remove" THEN "deleteRow" ELSE "updateRow"
  <2>1. UNCHANGED <<row, saved, catalog, installs, halfUpdated, restored, leftBehind>> /\ worker.at = "unproject"
    BY DEF Unproject, ghosts
  <2>2. next \in SkillSteps /\ SkillsType /\ worker.action \in {"disable", "remove"}
    BY <2>1 DEF SkillSteps, SkillsInv, WorkerKnows
  <2>3. (Ends /\ UNCHANGED disk) \/ (disk' = Absent /\ Becomes(next))
    BY DEF Unproject
  <2>4. next = "deleteRow" <=> worker.action = "remove"
    OBVIOUS
  <2>5. next \in {"deleteRow", "updateRow"}
    OBVIOUS
  <2> HIDE DEF next
  <2>6. CASE disk' = Absent /\ Becomes(next)
    <3>1. /\ worker' \in SkillWorkers /\ worker'.at = next /\ worker'.action = worker.action
          /\ worker'.dep = worker.dep /\ worker'.src = worker.src /\ worker'.ver = worker.ver
        BY <2>2, <2>6, WorkerMoves
    <3> QED
        BY <2>1, <2>2, <2>4, <2>5, <2>6, <3>1
  <2> QED
    BY <2>1, <2>3, <2>6
<1>2. ASSUME Moved PROVE SkillsInv'
  <2>1. SkillsType'
    BY <1>2, WorkerMoves, SkillConstants DEF SkillsInv, SkillsType
  <2>2. WorkerKnows'
    BY <1>2, WorkerMoves, SkillConstants DEF SkillsInv, WorkerKnows, New
  <2>3. Undisturbed' => OfTheRow(disk)'
    BY <1>2, WorkerMoves, SkillConstants DEF SkillsInv, WorkerKnows, WorkerOwns, Undisturbed, OfTheRow, Marked, New
  <2>4. Undisturbed' => WorkerOwns'
    BY <1>2, WorkerMoves, SkillConstants DEF SkillsInv, WorkerKnows, WorkerOwns, Undisturbed, OfTheRow, Marked, New
  <2> QED
    BY <2>1, <2>2, <2>3, <2>4 DEF SkillsInv
<1> QED
    BY <1>1, <1>2, EndKeeps

\* The row follows the directory.
LEMMA UpdateRowKeeps == SkillsInv /\ UpdateRow => SkillsInv'
<1> SUFFICES ASSUME SkillsInv, UpdateRow PROVE SkillsInv'
    OBVIOUS
<1> USE DEF At
<1> DEFINE Moved ==
           /\ UNCHANGED <<disk, saved, catalog, installs, restored, leftBehind>>
           /\ worker.at = "updateRow" /\ worker'.at = "restart" /\ worker' \in SkillWorkers
           /\ row' \in SkillRows /\ row'.dep = row.dep /\ row'.src = row.src /\ row'.ver = row.ver
           /\ row'.desired => worker.action # "disable"
<1>1. Moved \/ (Ends /\ UNCHANGED <<row, disk, saved, catalog, installs, halfUpdated, restored, leftBehind>>)
  <2>1. UNCHANGED <<disk, saved, catalog, installs, restored, leftBehind>> /\ worker.at = "updateRow"
    BY DEF UpdateRow, profile
  <2>2. "restart" \in SkillSteps /\ SkillsType
    BY DEF SkillSteps, SkillsInv
  <2>3. CASE Ends /\ UNCHANGED <<row, halfUpdated>>
    BY <2>1, <2>3
  <2>4. CASE Becomes("restart") /\ \E on \in BOOLEAN :
                /\ on <=> worker.action # "disable"
                /\ halfUpdated' = IF on THEN {} ELSE halfUpdated
                /\ row' = [row EXCEPT !.desired = on, !.state = IF on THEN "PROJECTED" ELSE "NOT_PROJECTED"]
    <3>1. /\ row' \in SkillRows /\ row'.dep = row.dep /\ row'.src = row.src /\ row'.ver = row.ver
          /\ row'.desired => worker.action # "disable"
        BY <2>1, <2>2, <2>4 DEF SkillsType, SkillRows
    <3>2. worker' \in SkillWorkers /\ worker'.at = "restart"
        BY <2>2, <2>4, WorkerMoves
    <3> QED
        BY <2>1, <3>1, <3>2
  <2> QED
    BY <2>3, <2>4 DEF UpdateRow, Restarts
<1>2. ASSUME Moved PROVE SkillsInv'
  <2>1. SkillsType'
    BY <1>2, WorkerMoves, SkillConstants DEF SkillsInv, SkillsType, WorkerKnows, New
  <2>2. WorkerKnows'
    BY <1>2, WorkerMoves, SkillConstants DEF SkillsInv, WorkerKnows, New
  <2>3. Undisturbed' => OfTheRow(disk)'
    BY <1>2, WorkerMoves, SkillConstants DEF SkillsInv, WorkerKnows, WorkerOwns, Undisturbed, OfTheRow, Marked, New
  <2>4. Undisturbed' => WorkerOwns'
    BY <1>2, WorkerMoves, SkillConstants DEF SkillsInv, WorkerKnows, WorkerOwns, Undisturbed, OfTheRow, Marked, New
  <2> QED
    BY <2>1, <2>2, <2>3, <2>4 DEF SkillsInv
<1> QED
    BY <1>1, <1>2, EndKeeps

\* The row names the new release.
LEMMA ReplaceRowKeeps == SkillsInv /\ ReplaceRow => SkillsInv'
<1> SUFFICES ASSUME SkillsInv, ReplaceRow PROVE SkillsInv'
    OBVIOUS
<1> USE DEF At
<1> DEFINE Moved ==
           /\ UNCHANGED <<disk, saved, catalog, installs, restored, leftBehind>>
           /\ worker.at = "replaceRow" /\ worker'.at = "restart" /\ worker' \in SkillWorkers
           /\ row' \in SkillRows /\ row'.dep = row.dep /\ row'.src = row.src /\ row'.ver = worker.ver
           /\ row'.desired = row.desired
<1>1. Moved \/ (Ends /\ UNCHANGED <<row, disk, saved, catalog, installs, halfUpdated, restored, leftBehind>>)
  <2>1. UNCHANGED <<disk, saved, catalog, installs, restored, leftBehind>> /\ worker.at = "replaceRow"
    BY DEF ReplaceRow, profile
  <2>2. "restart" \in SkillSteps /\ SkillsType
    BY DEF SkillSteps, SkillsInv
  <2>3. CASE Ends /\ UNCHANGED <<row, halfUpdated>>
    BY <2>1, <2>3
  <2>4. CASE Becomes("restart") /\ halfUpdated' = {} /\ row' = [row EXCEPT !.ver = worker.ver,
                                !.state = IF row.desired THEN "PROJECTED" ELSE "NOT_PROJECTED"]
    <3>1. row' \in SkillRows /\ row'.dep = row.dep /\ row'.src = row.src /\ row'.ver = worker.ver
           /\ row'.desired = row.desired
        BY <2>1, <2>2, <2>4, WorkerMoves DEF SkillsType, SkillRows
    <3> QED
        BY <2>1, <2>2, <2>4, <3>1, WorkerMoves
  <2> QED
    BY <2>3, <2>4 DEF ReplaceRow, Restarts
<1>2. ASSUME Moved PROVE SkillsInv'
  <2>1. SkillsType'
    BY <1>2, WorkerMoves, SkillConstants DEF SkillsInv, SkillsType, WorkerKnows, New
  <2>2. WorkerKnows'
    BY <1>2, WorkerMoves, SkillConstants DEF SkillsInv, WorkerKnows, New
  <2>3. Undisturbed' => OfTheRow(disk)'
    BY <1>2, WorkerMoves, SkillConstants DEF SkillsInv, WorkerKnows, WorkerOwns, Undisturbed, OfTheRow, Marked, New
  <2>4. Undisturbed' => WorkerOwns'
    BY <1>2, WorkerMoves, SkillConstants DEF SkillsInv, WorkerKnows, WorkerOwns, Undisturbed, OfTheRow, Marked, New
  <2> QED
    BY <2>1, <2>2, <2>3, <2>4 DEF SkillsInv
<1> QED
    BY <1>1, <1>2, EndKeeps

\* The row goes after the directory.
LEMMA DeleteRowKeeps == SkillsInv /\ DeleteRow => SkillsInv'
<1> SUFFICES ASSUME SkillsInv, DeleteRow PROVE SkillsInv'
    OBVIOUS
<1> USE DEF At
<1> DEFINE Moved ==
           /\ UNCHANGED <<disk, saved, catalog, installs, restored, leftBehind>>
           /\ worker.at = "deleteRow" /\ worker'.at = "restart" /\ worker' \in SkillWorkers
           /\ row' = NoRow
<1>1. Moved \/ (Ends /\ UNCHANGED <<row, disk, saved, catalog, installs, halfUpdated, restored, leftBehind>>)
  <2>1. UNCHANGED <<disk, saved, catalog, installs, restored, leftBehind>> /\ worker.at = "deleteRow"
    BY DEF DeleteRow, profile
  <2>2. "restart" \in SkillSteps /\ SkillsType
    BY DEF SkillSteps, SkillsInv
  <2>3. CASE Ends /\ UNCHANGED <<row, halfUpdated>>
    BY <2>1, <2>3
  <2>4. CASE Becomes("restart") /\ halfUpdated' = {} /\ row' = NoRow
    <3>1. row' = NoRow
        BY <2>1, <2>2, <2>4
    <3> QED
        BY <2>1, <2>2, <2>4, <3>1, WorkerMoves
  <2> QED
    BY <2>3, <2>4 DEF DeleteRow, Restarts
<1>2. ASSUME Moved PROVE SkillsInv'
  <2>1. SkillsType'
    BY <1>2, WorkerMoves, SkillConstants DEF SkillsInv, SkillsType
  <2>2. WorkerKnows'
    BY <1>2, WorkerMoves, SkillConstants DEF SkillsInv, WorkerKnows, New
  <2>3. Undisturbed' => OfTheRow(disk)'
    BY <1>2, WorkerMoves, SkillConstants DEF SkillsInv, WorkerKnows, WorkerOwns, Undisturbed, OfTheRow, Marked, New
  <2>4. Undisturbed' => WorkerOwns'
    BY <1>2, WorkerMoves, SkillConstants DEF SkillsInv, WorkerKnows, WorkerOwns, Undisturbed, OfTheRow, Marked, New
  <2> QED
    BY <2>1, <2>2, <2>3, <2>4 DEF SkillsInv
<1> QED
    BY <1>1, <1>2, EndKeeps

\* A restart that fails, a daemon that stops, a new program, and hands on the profile.
LEMMA SkillWorldKeeps ==
    SkillsInv /\ (Restart \/ StopDaemon \/ NewProgram \/ EditSkill \/ SaveProfile \/ RestoreProfile) => SkillsInv'
<1> SUFFICES ASSUME SkillsInv PROVE Restart \/ StopDaemon \/ NewProgram \/ EditSkill \/ SaveProfile \/ RestoreProfile => SkillsInv'
    OBVIOUS
<1>1. Restart \/ StopDaemon => SkillsInv'
    BY EndKeeps DEF Restart, StopDaemon, profile, ghosts
<1>2. ASSUME NewProgram \/ SaveProfile PROVE SkillsInv'
  <2>1. UNCHANGED <<row, disk, worker, installs, halfUpdated, restored, leftBehind>> /\ saved' \in SkillTrees /\ catalog' \in Nat
    BY <1>2 DEF NewProgram, SaveProfile, profile, ghosts, SkillsInv, SkillsType
  <2> QED
    BY <2>1 DEF SkillsInv, SkillsType, WorkerKnows, WorkerOwns, OfTheRow, Marked, Undisturbed, New
<1>3. ASSUME EditSkill PROVE SkillsInv'
  <2>1. UNCHANGED <<row, saved, catalog, worker, installs, halfUpdated, restored, leftBehind>>
    BY <1>3 DEF EditSkill, ghosts
  <2>2. /\ disk' \in SkillTrees
        /\ Marked(disk') => Marked(disk) /\ disk'.dep = disk.dep /\ disk'.src = disk.src /\ disk'.ver = disk.ver
    <3>1. CASE disk.kind = "managed" /\ disk' = Modified(disk)
        BY <3>1 DEF SkillsInv, SkillsType, SkillTrees, Modified, Marked
    <3>2. CASE disk' \in {Absent, External}
        BY <3>2, SkillConstants
    <3> QED
        BY <1>3, <3>1, <3>2 DEF EditSkill, Edit
  <2>3. SkillsType' /\ WorkerKnows'
    BY <2>1, <2>2 DEF SkillsInv, SkillsType, WorkerKnows, New
  <2>4. Undisturbed' => OfTheRow(disk)' /\ WorkerOwns'
    BY <2>1, <2>2 DEF SkillsInv, Undisturbed, OfTheRow, WorkerOwns, Marked, New
  <2> QED
    BY <2>3, <2>4 DEF SkillsInv
<1>4. ASSUME RestoreProfile PROVE SkillsInv'
  <2>1. UNCHANGED <<row, saved, catalog, worker, installs, halfUpdated, leftBehind>> /\ disk' = saved /\ restored' = TRUE
    BY <1>4 DEF RestoreProfile, Edit
  <2> QED
    BY <2>1 DEF SkillsInv, SkillsType, WorkerKnows, Undisturbed, New
<1> QED
    BY <1>1, <1>2, <1>3, <1>4

\* Every step keeps the inductive invariant.
LEMMA SkillsInvStep == SkillsInv /\ [SkillsNext]_skillVars => SkillsInv'
<1>1. ASSUME SkillsInv, UNCHANGED skillVars PROVE SkillsInv'
    BY <1>1 DEF skillVars, SkillsInv, SkillsType, WorkerKnows, WorkerOwns, OfTheRow, Marked, Undisturbed, New
<1> QED
    BY <1>1, StartNewKeeps, StartExistingKeeps, CheckNewKeeps, CheckOwnedKeeps, AcquireKeeps, CreateRowKeeps,
       ProjectLooksKeeps, MoveOldKeeps, PublishKeeps, PublishOverKeeps, VerifyKeeps, UnprojectKeeps,
       UpdateRowKeeps, ReplaceRowKeeps, DeleteRowKeeps, SkillWorldKeeps
       DEF SkillsNext

\* The inductive invariant implies the property.
LEMMA SkillsInvImplies == SkillsInv => SkillsAgree
<1> SUFFICES ASSUME SkillsInv PROVE SkillsAgree
    OBVIOUS
<1>1. Undisturbed \/ restored \/ leftBehind
    BY DEF Undisturbed, SkillsInv, SkillsType
<1>2. disk.kind \in {"absent", "external", "managed", "modified"}
    BY DEF SkillsInv, SkillsType, SkillTrees
<1>3. ASSUME NEW item \in Listings, item.enabled = "ENABLED"
      PROVE  (disk.kind = "managed" /\ row.desired) \/ (disk.kind = "external" /\ item.projection = "UNKNOWN")
    BY <1>2, <1>3 DEF Listings, Entry
<1> QED
    BY <1>1, <1>3 DEF SkillsInv, OfTheRow, Marked, SkillsAgree

\* For any number of releases, installs, failing calls and edits: a directory with a
\* marker is owned by the row, and a Skill listed as ENABLED has the release the row
\* names, but for a restored profile, an ignored error, an unrecorded update and
\* somebody else's directory in its place. (ListSkills, Projector.List)
THEOREM SkillsAlwaysAgree == SkillsSpec => []SkillsAgree
BY SkillsInitially, SkillsInvStep, SkillsInvImplies, PTL DEF SkillsSpec

-----------------------------------------------------------------------------
(***************************************************************************)
(* MCP servers.                                                            *)
(***************************************************************************)
McpSteps == {"none", "done", "start", "add", "secret", "tools", "probe", "observe", "list", "bind", "cleanup", "remove",
             "wipe", "unbind", "finish"}
McpLapses == {"edited", "overlap", "stopped", "cleanedUp", "leftOver", "halfRemoved", "unsure"}
McpRequests == [status : {"NONE", "PENDING", "RUNNING", "TERMINAL"}, action : Actions \cup {"none"}, at : McpSteps,
                gives : BOOLEAN, cut : BOOLEAN, cutting : BOOLEAN, probed : Nat]

McpType ==
    /\ entry \in {"absent", "managed", "foreign"} /\ credential \in Nat /\ ready \in Nat /\ binding \in BOOLEAN
    /\ request \in [Requests -> McpRequests] /\ lapses \subseteq McpLapses

\* Which operations come by which calls.
McpPath(r) ==
    /\ request[r].at \notin {"none", "done"} => request[r].action \in Actions
    /\ request[r].at \in {"add", "list", "bind", "cleanup"} => request[r].action = "install"
    /\ request[r].at \in {"remove", "unbind"} => request[r].action = "remove"
    /\ request[r].at = "wipe" => request[r].action \in {"install", "remove"}

\* Workers side by side were noticed.
OneWorker == "overlap" \notin lapses => \A r, s \in Requests : Working(r) /\ Working(s) => r = s

\* What a worker that is alone relies on.
WorkerKnowsMcp(r) ==
    /\ request[r].at = "bind" => entry = "managed"
    /\ request[r].at \in {"wipe", "unbind"} => entry = "absent"
    /\ request[r].at = "observe" => request[r].probed = credential
Installing(r) ==
    request[r].action = "install" /\ request[r].at \in {"secret", "tools", "probe", "observe", "list", "bind", "cleanup"}
Removing(r) == request[r].action = "remove" /\ request[r].at \in {"wipe", "unbind"}

\* The four places agree, or a worker is on its way to it.
PlacesAgree ==
    /\ binding /\ entry # "managed" =>
          lapses \cap {"cleanedUp", "halfRemoved"} # {} \/ \E r \in Requests : Removing(r)
    /\ entry = "managed" /\ ~binding => "leftOver" \in lapses \/ \E r \in Requests : Installing(r)
    /\ credential # 0 /\ entry # "managed" =>
          lapses \cap {"leftOver", "halfRemoved"} # {} \/ \E r \in Requests : AtCall(r, "wipe")
    /\ credential # 0 /\ ready # 0 => ready = credential \/ "unsure" \in lapses

Calm == lapses \cap {"edited", "overlap", "stopped"} = {}
McpInv ==
    /\ McpType /\ (\A r \in Requests : McpPath(r)) /\ OneWorker
    /\ Calm => PlacesAgree /\ \A r \in Requests : WorkerKnowsMcp(r)


\* What a call makes of its operation.
Stands(r, step) ==
    /\ request' \in [Requests -> McpRequests] /\ \A o \in Requests \ {r} : request'[o] = request[o]
    /\ request'[r].at = step /\ request'[r].action = request[r].action /\ request'[r].probed = request[r].probed
Left(r) ==
    /\ request' \in [Requests -> McpRequests] /\ \A o \in Requests \ {r} : request'[o] = request[o]
    /\ request'[r].at = "done" /\ request'[r].action = "none"
FailStep(r) == IF request[r].action = "install" THEN "cleanup" ELSE "finish"

\* An operation, field by field.
LEMMA McpFields ==
    ASSUME McpType, NEW r \in Requests
    PROVE  /\ request[r] \in McpRequests /\ request[r].at \in McpSteps /\ request[r].action \in Actions \cup {"none"}
           /\ request[r].probed \in Nat /\ request[r].status \in {"NONE", "PENDING", "RUNNING", "TERMINAL"}
           /\ r \in Nat /\ r # 0
BY McpBounds DEF McpType, McpRequests, Requests

\* The calls of an operation go on, fail or end.
LEMMA GoesStands ==
    ASSUME McpType, NEW r \in Requests, NEW step \in McpSteps, Goes(r, step)
    PROVE  Stands(r, step)
BY DEF Goes, Stands, McpType, McpRequests

\* ... it fails,
LEMMA FailsStands ==
    ASSUME McpType, NEW r \in Requests, Fails(r)
    PROVE  Stands(r, FailStep(r))
<1>1. FailStep(r) \in McpSteps
    BY DEF FailStep, McpSteps
<1> QED
    BY <1>1, GoesStands DEF Fails, FailStep

\* ... it is over,
LEMMA OverLeaves ==
    ASSUME McpType, NEW r \in Requests, NEW s \in {"NONE", "PENDING", "RUNNING", "TERMINAL"}, Over(r, s)
    PROVE  Left(r)
<1>1. [NoRequest EXCEPT !.at = "done", !.status = s] \in McpRequests
    BY DEF NoRequest, McpRequests, McpSteps
<1>2. request'[r] = [NoRequest EXCEPT !.at = "done", !.status = s] /\ \A o \in Requests \ {r} : request'[o] = request[o]
    BY DEF Over, McpType
<1> QED
    BY <1>1, <1>2 DEF Over, Left, McpType, NoRequest

\* ... it is answered or fails,
LEMMA AnswersStands ==
    ASSUME McpType, NEW r \in Requests, NEW step \in McpSteps, Answers(r, step)
    PROVE  Stands(r, step) \/ Stands(r, FailStep(r))
BY GoesStands, FailsStands DEF Answers, CallFails

\* ... it is refused or fails.
LEMMA FailsOrStands ==
    ASSUME McpType, NEW r \in Requests, NEW why \in BOOLEAN, FailsOr(r, why)
    PROVE  Stands(r, FailStep(r))
BY FailsStands DEF FailsOr, CallFails, Refused

\* A worker that is not noticed beside another is alone.
LEMMA AloneWhenCalm ==
    ASSUME McpInv, Calm, NEW r \in Requests, Working(r)
    PROVE  \A o \in Requests \ {r} : request[o].at \in {"none", "done"}
BY DEF McpInv, OneWorker, Calm, Working

\* The initial states satisfy the invariant.
LEMMA McpInitially == McpInit => McpInv
<1> SUFFICES ASSUME McpInit PROVE McpInv
    OBVIOUS
<1>1. NoRequest \in McpRequests /\ NoRequest.at = "none" /\ NoRequest.action = "none"
    BY DEF NoRequest, McpRequests, McpSteps
<1>2. request \in [Requests -> McpRequests] /\ \A r \in Requests : request[r].at = "none"
    BY <1>1 DEF McpInit
<1> QED
    BY <1>2
    DEF McpInit, McpInv, McpType, McpPath, OneWorker, Working, PlacesAgree, WorkerKnowsMcp

\* A call of an operation leaves workers as they are, but its own.
LEMMA OneWorkerKept ==
    ASSUME McpInv, NEW r \in Requests, Working(r), \A o \in Requests \ {r} : request'[o] = request[o],
           "overlap" \notin lapses' => "overlap" \notin lapses \/ Alone(r)
    PROVE  OneWorker'
BY DEF McpInv, OneWorker, Working, Alone

\* The operation becomes RUNNING, or was ended before.
LEMMA BeginMutationKeeps == ASSUME McpInv, NEW r \in Requests, BeginMutation(r) PROVE McpInv'
<1>1. McpType /\ McpPath(r)
    BY DEF McpInv
<1>2. /\ UNCHANGED <<entry, credential, ready, binding, lapses>>
      /\ \/ Left(r)
         \/ /\ request[r].action \in Actions
            /\ \E step \in {"add", "secret", "tools", "probe", "remove"} :
                  Stands(r, step) /\ step = FirstCall[request[r].action]
  <2>1. CASE \E s \in {request[r].status} : Over(r, s)
    BY <1>1, <2>1, OverLeaves, McpFields DEF BeginMutation, files
  <2>2. CASE request' = [request EXCEPT ![r].status = "RUNNING", ![r].at = FirstCall[request[r].action]]
    <3>1. request[r].action \in Actions
        BY <1>1 DEF McpPath, BeginMutation, AtCall
    <3>2. PICK step \in {"add", "secret", "tools", "probe", "remove"} : step = FirstCall[request[r].action]
        BY <3>1 DEF FirstCall, Actions
    <3> DEFINE begun == [request[r] EXCEPT !.status = "RUNNING", !.at = step]
    <3>3. /\ begun \in McpRequests /\ begun.at = step /\ begun.action = request[r].action
          /\ begun.probed = request[r].probed
        BY <1>1, McpFields DEF McpRequests, McpSteps
    <3>4. request' = [request EXCEPT ![r] = begun]
        BY <1>1, <2>2, <3>2 DEF McpType
    <3> HIDE DEF begun
    <3>5. Stands(r, step)
        BY <1>1, <3>3, <3>4 DEF Stands, McpType
    <3> QED
        BY <3>1, <3>2, <3>5 DEF BeginMutation, files
  <2> QED
    BY <2>1, <2>2 DEF BeginMutation
<1>3. Working(r) /\ request[r].at = "start"
    BY DEF BeginMutation, AtCall, Working
<1>4. McpType'
  <2>1. request' \in [Requests -> McpRequests] /\ binding' \in BOOLEAN /\ lapses' \subseteq McpLapses
    BY <1>1, <1>2 DEF McpType, Stands, Left, McpLapses
  <2>2. entry' \in {"absent", "managed", "foreign"} /\ credential' \in Nat /\ ready' \in Nat
    BY <1>1, <1>2, McpFields DEF McpType
  <2> QED
    BY <2>1, <2>2 DEF McpType
<1>5. \A q \in Requests : McpPath(q)'
    BY <1>1, <1>2, <1>3, McpFields DEF McpInv, McpPath, Stands, Left, FailStep, Actions, FirstCall
<1>6. OneWorker'
    BY <1>2, <1>3, OneWorkerKept DEF Stands, Left
<1>7. ASSUME Calm' PROVE PlacesAgree' /\ \A q \in Requests : WorkerKnowsMcp(q)'
  <2>1. Calm /\ \A o \in Requests \ {r} : request[o].at \in {"none", "done"} /\ request'[o] = request[o]
    BY <1>2, <1>3, <1>7, AloneWhenCalm DEF Calm, Stands, Left
  <2>2. PlacesAgree /\ WorkerKnowsMcp(r)
    BY <2>1 DEF McpInv
  <2>3. PlacesAgree'
    BY <1>1, <1>2, <1>3, <1>7, <2>1, <2>2, McpFields DEF PlacesAgree, Stands, Left, FailStep, Removing, Installing, AtCall, McpPath, WorkerKnowsMcp, Calm, FirstCall
  <2>4. \A q \in Requests : WorkerKnowsMcp(q)'
    BY <1>1, <1>2, <1>3, <1>7, <2>1, <2>2, McpFields DEF PlacesAgree, Stands, Left, FailStep, WorkerKnowsMcp, McpPath, Calm, AtCall, FirstCall
  <2> QED BY <2>3, <2>4
<1> QED BY <1>4, <1>5, <1>6, <1>7 DEF McpInv

\* An install writes the entry.
LEMMA AddEntryKeeps == ASSUME McpInv, NEW r \in Requests, AddEntry(r) PROVE McpInv'
<1>1. McpType /\ McpPath(r)
    BY DEF McpInv
<1>2. /\ UNCHANGED <<credential, binding>>
      /\ \/ /\ entry = "absent" /\ entry' = "managed" /\ ready' = 0
            /\ (lapses' = {} /\ Alone(r)) \/ lapses' = lapses
            /\ \E step \in {"secret", "tools", "probe", "cleanup"} : Stands(r, step)
         \/ UNCHANGED <<ready, lapses>> /\ Stands(r, "cleanup") /\ entry' = entry
         \/ UNCHANGED <<ready, lapses>> /\ Stands(r, "cleanup") /\ entry = "absent" /\ entry' = "managed"
  <2>1. FailStep(r) = "cleanup"
    BY <1>1 DEF McpPath, AddEntry, AtCall, FailStep
  <2>2. {"secret", "tools", "probe"} \subseteq McpSteps
    BY DEF McpSteps
  <2>3. ASSUME NEW next \in {"secret", "tools", "probe"}, Answers(r, next)
        PROVE  \E step \in {"secret", "tools", "probe", "cleanup"} : Stands(r, step)
    BY <1>1, <2>1, <2>2, <2>3, AnswersStands
  <2>4. ASSUME FailsOr(r, ~Live(r) \/ entry # "absent") PROVE Stands(r, "cleanup")
    BY <1>1, <2>1, <2>4, FailsStands DEF FailsOr, CallFails, Refused
  <2> QED
    BY <2>3, <2>4 DEF AddEntry, AfterSecret, FailsOr
<1>3. Working(r) /\ request[r].at = "add"
    BY DEF AddEntry, AtCall, Working
<1>4. McpType'
  <2>1. request' \in [Requests -> McpRequests] /\ binding' \in BOOLEAN /\ lapses' \subseteq McpLapses
    BY <1>1, <1>2 DEF McpType, Stands, Left, McpLapses
  <2>2. entry' \in {"absent", "managed", "foreign"} /\ credential' \in Nat /\ ready' \in Nat
    BY <1>1, <1>2, McpFields DEF McpType
  <2> QED
    BY <2>1, <2>2 DEF McpType
<1>5. \A q \in Requests : McpPath(q)'
    BY <1>1, <1>2, <1>3, McpFields DEF McpInv, McpPath, Stands, Left, FailStep, Actions
<1>6. OneWorker'
    BY <1>2, <1>3, OneWorkerKept DEF Stands, Left
<1>7. ASSUME Calm' PROVE PlacesAgree' /\ \A q \in Requests : WorkerKnowsMcp(q)'
  <2>1. \A o \in Requests \ {r} : request[o].at \in {"none", "done"} /\ request'[o] = request[o]
    <3>1. CASE Calm
        BY <1>2, <1>3, <3>1, AloneWhenCalm DEF Stands
    <3>2. CASE Alone(r)
        BY <1>2, <3>2 DEF Alone, Working, Stands
    <3> QED
        BY <1>2, <1>7, <3>1, <3>2 DEF Calm
  <2>2. Calm => PlacesAgree
    BY DEF McpInv
  <2>3. PlacesAgree'
    BY <1>1, <1>2, <1>3, <1>7, <2>1, <2>2, McpFields DEF PlacesAgree, Stands, Left, FailStep, Removing, Installing, AtCall, McpPath, WorkerKnowsMcp, Calm
  <2>4. \A q \in Requests : WorkerKnowsMcp(q)'
    BY <1>1, <1>2, <1>3, <1>7, <2>1, <2>2, McpFields DEF PlacesAgree, Stands, Left, FailStep, WorkerKnowsMcp, McpPath, Calm, AtCall
  <2> QED BY <2>3, <2>4
<1> QED BY <1>4, <1>5, <1>6, <1>7 DEF McpInv

\* The credential is written.
LEMMA WriteSecretKeeps == ASSUME McpInv, NEW r \in Requests, WriteSecret(r) PROVE McpInv'
<1>1. McpType /\ McpPath(r)
    BY DEF McpInv
<1>2. /\ UNCHANGED <<entry, binding>>
      /\ \/ /\ entry = "managed" /\ credential' = r /\ ready' = 0 /\ lapses' = lapses \ {"unsure"}
            /\ \/ Stands(r, FailStep(r))
               \/ request[r].action = "install" /\ (Stands(r, "tools") \/ Stands(r, "probe"))
               \/ request[r].action # "install" /\ Stands(r, "finish")
         \/ credential' = r /\ UNCHANGED ready /\ lapses' = lapses \cup {"unsure"} /\ Stands(r, FailStep(r))
         \/ UNCHANGED <<credential, ready, lapses>> /\ Stands(r, FailStep(r))
    BY <1>1, GoesStands, FailsStands
    DEF WriteSecret, Answers, CallFails, FailsOr, Refused, AfterSecret, McpSteps, Lapse, Remembers
<1>3. Working(r) /\ request[r].at = "secret"
    BY DEF WriteSecret, AtCall, Working
<1>4. McpType'
  <2>1. request' \in [Requests -> McpRequests] /\ binding' \in BOOLEAN /\ lapses' \subseteq McpLapses
    BY <1>1, <1>2 DEF McpType, Stands, Left, McpLapses
  <2>2. entry' \in {"absent", "managed", "foreign"} /\ credential' \in Nat /\ ready' \in Nat
    BY <1>1, <1>2, McpFields DEF McpType
  <2> QED
    BY <2>1, <2>2 DEF McpType
<1>5. \A q \in Requests : McpPath(q)'
    BY <1>1, <1>2, <1>3, McpFields DEF McpInv, McpPath, Stands, Left, FailStep, Actions
<1>6. OneWorker'
    BY <1>2, <1>3, OneWorkerKept DEF Stands, Left
<1>7. ASSUME Calm' PROVE PlacesAgree' /\ \A q \in Requests : WorkerKnowsMcp(q)'
  <2>1. Calm /\ \A o \in Requests \ {r} : request[o].at \in {"none", "done"} /\ request'[o] = request[o]
    BY <1>2, <1>3, <1>7, AloneWhenCalm DEF Calm, Stands, Left
  <2>2. PlacesAgree /\ WorkerKnowsMcp(r)
    BY <2>1 DEF McpInv
  <2>3. PlacesAgree'
    <3>1. request'[r].action = request[r].action /\ request'[r].at \in {"cleanup", "finish", "tools", "probe"}
          /\ (request[r].action = "install" => request'[r].at # "finish")
        BY <1>2 DEF Stands, FailStep
    <3>2. /\ (\E q \in Requests : Removing(q)') <=> (\E q \in Requests : Removing(q))
          /\ (\E q \in Requests : AtCall(q, "wipe")') <=> (\E q \in Requests : AtCall(q, "wipe"))
          /\ (\E q \in Requests : Installing(q)) => \E q \in Requests : Installing(q)'
        BY <1>3, <2>1, <3>1 DEF Removing, AtCall, Installing
    <3>3. entry = "managed" /\ credential' # 0 /\ ready' # 0 => ready' = credential' \/ "unsure" \in lapses'
        BY <1>2, <2>2 DEF PlacesAgree
    <3>4. lapses' = lapses \/ lapses' = lapses \cup {"unsure"} \/ lapses' = lapses \ {"unsure"}
        BY <1>2
    <3>5. UNCHANGED <<entry, binding>> /\ (entry # "managed" => UNCHANGED <<credential, ready, lapses>>)
        BY <1>2, <1>3 DEF WriteSecret
    <3> QED
        BY <2>2, <3>2, <3>3, <3>4, <3>5 DEF PlacesAgree
  <2>4. \A q \in Requests : WorkerKnowsMcp(q)'
    BY <1>1, <1>2, <1>3, <1>7, <2>1, <2>2, McpFields DEF PlacesAgree, Stands, Left, FailStep, WorkerKnowsMcp, McpPath, Calm, AtCall
  <2> QED BY <2>3, <2>4
<1> QED BY <1>4, <1>5, <1>6, <1>7 DEF McpInv

\* The tools are chosen.
LEMMA ChooseToolsKeeps == ASSUME McpInv, NEW r \in Requests, ChooseTools(r) PROVE McpInv'
<1>1. McpType /\ McpPath(r)
    BY DEF McpInv
<1>2. /\ UNCHANGED <<entry, credential, binding>>
      /\ UNCHANGED <<ready, lapses>> \/ (ready' = 0 /\ lapses' = lapses \ {"unsure"})
      /\ \/ Stands(r, FailStep(r))
         \/ request[r].action = "install" /\ Stands(r, "probe")
         \/ request[r].action # "install" /\ Stands(r, "finish")
    BY <1>1, GoesStands, FailsStands DEF ChooseTools, Answers, CallFails, FailsOr, Refused, McpSteps, files, Remembers
<1>3. Working(r) /\ request[r].at = "tools"
    BY DEF ChooseTools, AtCall, Working
<1>4. McpType'
  <2>1. request' \in [Requests -> McpRequests] /\ binding' \in BOOLEAN /\ lapses' \subseteq McpLapses
    BY <1>1, <1>2 DEF McpType, Stands, Left, McpLapses
  <2>2. entry' \in {"absent", "managed", "foreign"} /\ credential' \in Nat /\ ready' \in Nat
    BY <1>1, <1>2, McpFields DEF McpType
  <2> QED
    BY <2>1, <2>2 DEF McpType
<1>5. \A q \in Requests : McpPath(q)'
    BY <1>1, <1>2, <1>3, McpFields DEF McpInv, McpPath, Stands, Left, FailStep, Actions
<1>6. OneWorker'
    BY <1>2, <1>3, OneWorkerKept DEF Stands, Left
<1>7. ASSUME Calm' PROVE PlacesAgree' /\ \A q \in Requests : WorkerKnowsMcp(q)'
  <2>1. Calm /\ \A o \in Requests \ {r} : request[o].at \in {"none", "done"} /\ request'[o] = request[o]
    BY <1>2, <1>3, <1>7, AloneWhenCalm DEF Calm, Stands, Left
  <2>2. PlacesAgree /\ WorkerKnowsMcp(r)
    BY <2>1 DEF McpInv
  <2>3. PlacesAgree'
    BY <1>1, <1>2, <1>3, <1>7, <2>1, <2>2, McpFields DEF PlacesAgree, Stands, Left, FailStep, Removing, Installing, AtCall, McpPath, WorkerKnowsMcp, Calm
  <2>4. \A q \in Requests : WorkerKnowsMcp(q)'
    BY <1>1, <1>2, <1>3, <1>7, <2>1, <2>2, McpFields DEF PlacesAgree, Stands, Left, FailStep, WorkerKnowsMcp, McpPath, Calm, AtCall
  <2> QED BY <2>3, <2>4
<1> QED BY <1>4, <1>5, <1>6, <1>7 DEF McpInv

\* The server is asked.
LEMMA ProbeKeeps == ASSUME McpInv, NEW r \in Requests, Probe(r) PROVE McpInv'
<1>1. McpType /\ McpPath(r)
    BY DEF McpInv
<1>2. /\ UNCHANGED <<entry, credential, binding>>
      /\ UNCHANGED <<ready, lapses>> \/ (ready' = 0 /\ lapses' = lapses \ {"unsure"})
      /\ \/ Stands(r, FailStep(r))
         \/ /\ request' \in [Requests -> McpRequests] /\ \A o \in Requests \ {r} : request'[o] = request[o]
            /\ request'[r].at = "observe" /\ request'[r].action = request[r].action /\ request'[r].probed = credential
  <2>1. CASE request' = [request EXCEPT ![r].at = "observe", ![r].probed = credential]
    <3>1. "observe" \in McpSteps /\ credential \in Nat
        BY <1>1 DEF McpSteps, McpType
    <3> DEFINE asked == [request[r] EXCEPT !.at = "observe", !.probed = credential]
    <3>2. asked \in McpRequests /\ asked.at = "observe" /\ asked.action = request[r].action /\ asked.probed = credential
        BY <1>1, <3>1, McpFields DEF McpRequests
    <3>3. request' = [request EXCEPT ![r] = asked]
        BY <1>1, <2>1 DEF McpType
    <3> HIDE DEF asked
    <3>4. request'[r] = asked /\ request' \in [Requests -> McpRequests] /\ \A o \in Requests \ {r} : request'[o] = request[o]
        BY <1>1, <3>2, <3>3 DEF McpType
    <3> QED
        BY <2>1, <3>2, <3>4, <1>1 DEF Probe, files, Fails, Goes, Refused, Remembers
  <2>2. CASE Fails(r)
    BY <1>1, <2>2, FailsStands DEF Probe, files, Remembers
  <2> QED
    BY <2>1, <2>2 DEF Probe, Refused
<1>3. Working(r) /\ request[r].at = "probe"
    BY DEF Probe, AtCall, Working
<1>4. McpType'
  <2>1. request' \in [Requests -> McpRequests] /\ binding' \in BOOLEAN /\ lapses' \subseteq McpLapses
    BY <1>1, <1>2 DEF McpType, Stands, Left, McpLapses
  <2>2. entry' \in {"absent", "managed", "foreign"} /\ credential' \in Nat /\ ready' \in Nat
    BY <1>1, <1>2, McpFields DEF McpType
  <2> QED
    BY <2>1, <2>2 DEF McpType
<1>5. \A q \in Requests : McpPath(q)'
    BY <1>1, <1>2, <1>3, McpFields DEF McpInv, McpPath, Stands, Left, FailStep, Actions
<1>6. OneWorker'
    BY <1>2, <1>3, OneWorkerKept DEF Stands, Left
<1>7. ASSUME Calm' PROVE PlacesAgree' /\ \A q \in Requests : WorkerKnowsMcp(q)'
  <2>1. Calm /\ \A o \in Requests \ {r} : request[o].at \in {"none", "done"} /\ request'[o] = request[o]
    BY <1>2, <1>3, <1>7, AloneWhenCalm DEF Calm, Stands, Left
  <2>2. PlacesAgree /\ WorkerKnowsMcp(r)
    BY <2>1 DEF McpInv
  <2>3. PlacesAgree'
    BY <1>1, <1>2, <1>3, <1>7, <2>1, <2>2, McpFields DEF PlacesAgree, Stands, Left, FailStep, Removing, Installing, AtCall, McpPath, WorkerKnowsMcp, Calm
  <2>4. \A q \in Requests : WorkerKnowsMcp(q)'
    BY <1>1, <1>2, <1>3, <1>7, <2>1, <2>2, McpFields DEF PlacesAgree, Stands, Left, FailStep, WorkerKnowsMcp, McpPath, Calm, AtCall
  <2> QED BY <2>3, <2>4
<1> QED BY <1>4, <1>5, <1>6, <1>7 DEF McpInv

\* The answer is recorded.
LEMMA ObserveKeeps == ASSUME McpInv, NEW r \in Requests, Observe(r) PROVE McpInv'
<1>1. McpType /\ McpPath(r)
    BY DEF McpInv
<1>2. /\ UNCHANGED <<entry, credential, binding>> /\ ready' = request[r].probed /\ lapses' = lapses \ {"unsure"}
      /\ \/ request[r].action = "install" /\ Stands(r, "list")
         \/ request[r].action # "install" /\ Stands(r, "finish")
    BY <1>1, GoesStands, FailsStands DEF Observe, McpSteps, files, Remembers
<1>3. Working(r) /\ request[r].at = "observe"
    BY DEF Observe, AtCall, Working
<1>4. McpType'
  <2>1. request' \in [Requests -> McpRequests] /\ binding' \in BOOLEAN /\ lapses' \subseteq McpLapses
    BY <1>1, <1>2 DEF McpType, Stands, Left, McpLapses
  <2>2. entry' \in {"absent", "managed", "foreign"} /\ credential' \in Nat /\ ready' \in Nat
    BY <1>1, <1>2, McpFields DEF McpType
  <2> QED
    BY <2>1, <2>2 DEF McpType
<1>5. \A q \in Requests : McpPath(q)'
    BY <1>1, <1>2, <1>3, McpFields DEF McpInv, McpPath, Stands, Left, FailStep, Actions
<1>6. OneWorker'
    BY <1>2, <1>3, OneWorkerKept DEF Stands, Left
<1>7. ASSUME Calm' PROVE PlacesAgree' /\ \A q \in Requests : WorkerKnowsMcp(q)'
  <2>1. Calm /\ \A o \in Requests \ {r} : request[o].at \in {"none", "done"} /\ request'[o] = request[o]
    BY <1>2, <1>3, <1>7, AloneWhenCalm DEF Calm, Stands, Left
  <2>2. PlacesAgree /\ WorkerKnowsMcp(r)
    BY <2>1 DEF McpInv
  <2>3. PlacesAgree'
    BY <1>1, <1>2, <1>3, <1>7, <2>1, <2>2, McpFields DEF PlacesAgree, Stands, Left, FailStep, Removing, Installing, AtCall, McpPath, WorkerKnowsMcp, Calm
  <2>4. \A q \in Requests : WorkerKnowsMcp(q)'
    BY <1>1, <1>2, <1>3, <1>7, <2>1, <2>2, McpFields DEF PlacesAgree, Stands, Left, FailStep, WorkerKnowsMcp, McpPath, Calm, AtCall
  <2> QED BY <2>3, <2>4
<1> QED BY <1>4, <1>5, <1>6, <1>7 DEF McpInv

\* The install must see its server ready.
LEMMA CheckReadyKeeps == ASSUME McpInv, NEW r \in Requests, CheckReady(r) PROVE McpInv'
<1>1. McpType /\ McpPath(r)
    BY DEF McpInv
<1>2. /\ UNCHANGED <<entry, credential, ready, binding, lapses>>
      /\ \/ Stands(r, FailStep(r))
         \/ entry = "managed" /\ Stands(r, "bind")
  <2>1. Shown = "READY" => entry = "managed"
    BY <1>1 DEF Shown, McpType
  <2> QED
    BY <1>1, <2>1, GoesStands, FailsStands DEF CheckReady, FailsOr, CallFails, Refused, McpSteps, files
<1>3. Working(r) /\ request[r].at = "list"
    BY DEF CheckReady, AtCall, Working
<1>4. McpType'
  <2>1. request' \in [Requests -> McpRequests] /\ binding' \in BOOLEAN /\ lapses' \subseteq McpLapses
    BY <1>1, <1>2 DEF McpType, Stands, Left, McpLapses
  <2>2. entry' \in {"absent", "managed", "foreign"} /\ credential' \in Nat /\ ready' \in Nat
    BY <1>1, <1>2, McpFields DEF McpType
  <2> QED
    BY <2>1, <2>2 DEF McpType
<1>5. \A q \in Requests : McpPath(q)'
    BY <1>1, <1>2, <1>3, McpFields DEF McpInv, McpPath, Stands, Left, FailStep, Actions
<1>6. OneWorker'
    BY <1>2, <1>3, OneWorkerKept DEF Stands, Left
<1>7. ASSUME Calm' PROVE PlacesAgree' /\ \A q \in Requests : WorkerKnowsMcp(q)'
  <2>1. Calm /\ \A o \in Requests \ {r} : request[o].at \in {"none", "done"} /\ request'[o] = request[o]
    BY <1>2, <1>3, <1>7, AloneWhenCalm DEF Calm, Stands, Left
  <2>2. PlacesAgree /\ WorkerKnowsMcp(r)
    BY <2>1 DEF McpInv
  <2>3. PlacesAgree'
    BY <1>1, <1>2, <1>3, <1>7, <2>1, <2>2, McpFields DEF PlacesAgree, Stands, Left, FailStep, Removing, Installing, AtCall, McpPath, WorkerKnowsMcp, Calm
  <2>4. \A q \in Requests : WorkerKnowsMcp(q)'
    BY <1>1, <1>2, <1>3, <1>7, <2>1, <2>2, McpFields DEF PlacesAgree, Stands, Left, FailStep, WorkerKnowsMcp, McpPath, Calm, AtCall
  <2> QED BY <2>3, <2>4
<1> QED BY <1>4, <1>5, <1>6, <1>7 DEF McpInv

\* The row is written.
LEMMA BindKeeps == ASSUME McpInv, NEW r \in Requests, Bind(r) PROVE McpInv'
<1>1. McpType /\ McpPath(r)
    BY DEF McpInv
<1>2. /\ UNCHANGED <<entry, credential, ready, lapses>>
      /\ \/ Stands(r, FailStep(r)) /\ binding' = binding
         \/ binding' = TRUE /\ Stands(r, "finish")
    BY <1>1, GoesStands, FailsStands DEF Bind, FailsOr, CallFails, Refused, McpSteps, files
<1>3. Working(r) /\ request[r].at = "bind"
    BY DEF Bind, AtCall, Working
<1>4. McpType'
  <2>1. request' \in [Requests -> McpRequests] /\ binding' \in BOOLEAN /\ lapses' \subseteq McpLapses
    BY <1>1, <1>2 DEF McpType, Stands, Left, McpLapses
  <2>2. entry' \in {"absent", "managed", "foreign"} /\ credential' \in Nat /\ ready' \in Nat
    BY <1>1, <1>2, McpFields DEF McpType
  <2> QED
    BY <2>1, <2>2 DEF McpType
<1>5. \A q \in Requests : McpPath(q)'
    BY <1>1, <1>2, <1>3, McpFields DEF McpInv, McpPath, Stands, Left, FailStep, Actions
<1>6. OneWorker'
    BY <1>2, <1>3, OneWorkerKept DEF Stands, Left
<1>7. ASSUME Calm' PROVE PlacesAgree' /\ \A q \in Requests : WorkerKnowsMcp(q)'
  <2>1. Calm /\ \A o \in Requests \ {r} : request[o].at \in {"none", "done"} /\ request'[o] = request[o]
    BY <1>2, <1>3, <1>7, AloneWhenCalm DEF Calm, Stands, Left
  <2>2. PlacesAgree /\ WorkerKnowsMcp(r)
    BY <2>1 DEF McpInv
  <2>3. PlacesAgree'
    BY <1>1, <1>2, <1>3, <1>7, <2>1, <2>2, McpFields DEF PlacesAgree, Stands, Left, FailStep, Removing, Installing, AtCall, McpPath, WorkerKnowsMcp, Calm
  <2>4. \A q \in Requests : WorkerKnowsMcp(q)'
    BY <1>1, <1>2, <1>3, <1>7, <2>1, <2>2, McpFields DEF PlacesAgree, Stands, Left, FailStep, WorkerKnowsMcp, McpPath, Calm, AtCall
  <2> QED BY <2>3, <2>4
<1> QED BY <1>4, <1>5, <1>6, <1>7 DEF McpInv

\* A failed install removes the entry it finds.
LEMMA CleanupKeeps == ASSUME McpInv, NEW r \in Requests, Cleanup(r) PROVE McpInv'
<1>1. McpType /\ McpPath(r)
    BY DEF McpInv
<1>2. /\ UNCHANGED <<credential, ready, binding>>
      /\ \/ /\ entry = "managed" /\ entry' = "absent" /\ Stands(r, "wipe")
            /\ lapses' = IF binding THEN lapses \cup {"cleanedUp"} ELSE lapses
         \/ entry # "managed" /\ Stands(r, "finish") /\ UNCHANGED <<entry, lapses>>
         \/ Stands(r, "finish") /\ lapses' = lapses \cup {"leftOver"} /\ UNCHANGED entry
         \/ /\ entry = "managed" /\ entry' = "absent" /\ Stands(r, "finish")
            /\ lapses' = lapses \cup {"leftOver"} \cup (IF binding THEN {"cleanedUp"} ELSE {})
    BY <1>1, GoesStands, FailsStands DEF Cleanup, McpSteps, Lapse
<1>3. Working(r) /\ request[r].at = "cleanup"
    BY DEF Cleanup, AtCall, Working
<1>4. McpType'
  <2>1. request' \in [Requests -> McpRequests] /\ binding' \in BOOLEAN /\ lapses' \subseteq McpLapses
    BY <1>1, <1>2 DEF McpType, Stands, Left, McpLapses
  <2>2. entry' \in {"absent", "managed", "foreign"} /\ credential' \in Nat /\ ready' \in Nat
    BY <1>1, <1>2, McpFields DEF McpType
  <2> QED
    BY <2>1, <2>2 DEF McpType
<1>5. \A q \in Requests : McpPath(q)'
    BY <1>1, <1>2, <1>3, McpFields DEF McpInv, McpPath, Stands, Left, FailStep, Actions
<1>6. OneWorker'
    BY <1>2, <1>3, OneWorkerKept DEF Stands, Left
<1>7. ASSUME Calm' PROVE PlacesAgree' /\ \A q \in Requests : WorkerKnowsMcp(q)'
  <2>1. Calm /\ \A o \in Requests \ {r} : request[o].at \in {"none", "done"} /\ request'[o] = request[o]
    BY <1>2, <1>3, <1>7, AloneWhenCalm DEF Calm, Stands, Left
  <2>2. PlacesAgree /\ WorkerKnowsMcp(r)
    BY <2>1 DEF McpInv
  <2>3. PlacesAgree'
    BY <1>1, <1>2, <1>3, <1>7, <2>1, <2>2, McpFields DEF PlacesAgree, Stands, Left, FailStep, Removing, Installing, AtCall, McpPath, WorkerKnowsMcp, Calm
  <2>4. \A q \in Requests : WorkerKnowsMcp(q)'
    BY <1>1, <1>2, <1>3, <1>7, <2>1, <2>2, McpFields DEF PlacesAgree, Stands, Left, FailStep, WorkerKnowsMcp, McpPath, Calm, AtCall
  <2> QED BY <2>3, <2>4
<1> QED BY <1>4, <1>5, <1>6, <1>7 DEF McpInv

\* The entry is removed first.
LEMMA RemoveEntryKeeps == ASSUME McpInv, NEW r \in Requests, RemoveEntry(r) PROVE McpInv'
<1>1. McpType /\ McpPath(r)
    BY DEF McpInv
<1>2. /\ UNCHANGED <<credential, ready, binding>>
      /\ \/ entry = "managed" /\ entry' = "absent" /\ Stands(r, "wipe") /\ UNCHANGED lapses
         \/ /\ entry = "managed" /\ entry' = "absent" /\ Stands(r, FailStep(r))
            /\ lapses' = lapses \cup {"halfRemoved"}
         \/ Stands(r, FailStep(r)) /\ UNCHANGED <<entry, lapses>>
    BY <1>1, GoesStands, FailsStands DEF RemoveEntry, FailsOr, CallFails, Refused, McpSteps, Lapse
<1>3. Working(r) /\ request[r].at = "remove"
    BY DEF RemoveEntry, AtCall, Working
<1>4. McpType'
  <2>1. request' \in [Requests -> McpRequests] /\ binding' \in BOOLEAN /\ lapses' \subseteq McpLapses
    BY <1>1, <1>2 DEF McpType, Stands, Left, McpLapses
  <2>2. entry' \in {"absent", "managed", "foreign"} /\ credential' \in Nat /\ ready' \in Nat
    BY <1>1, <1>2, McpFields DEF McpType
  <2> QED
    BY <2>1, <2>2 DEF McpType
<1>5. \A q \in Requests : McpPath(q)'
    BY <1>1, <1>2, <1>3, McpFields DEF McpInv, McpPath, Stands, Left, FailStep, Actions
<1>6. OneWorker'
    BY <1>2, <1>3, OneWorkerKept DEF Stands, Left
<1>7. ASSUME Calm' PROVE PlacesAgree' /\ \A q \in Requests : WorkerKnowsMcp(q)'
  <2>1. Calm /\ \A o \in Requests \ {r} : request[o].at \in {"none", "done"} /\ request'[o] = request[o]
    BY <1>2, <1>3, <1>7, AloneWhenCalm DEF Calm, Stands, Left
  <2>2. PlacesAgree /\ WorkerKnowsMcp(r)
    BY <2>1 DEF McpInv
  <2>3. PlacesAgree'
    BY <1>1, <1>2, <1>3, <1>7, <2>1, <2>2, McpFields DEF PlacesAgree, Stands, Left, FailStep, Removing, Installing, AtCall, McpPath, WorkerKnowsMcp, Calm
  <2>4. \A q \in Requests : WorkerKnowsMcp(q)'
    BY <1>1, <1>2, <1>3, <1>7, <2>1, <2>2, McpFields DEF PlacesAgree, Stands, Left, FailStep, WorkerKnowsMcp, McpPath, Calm, AtCall
  <2> QED BY <2>3, <2>4
<1> QED BY <1>4, <1>5, <1>6, <1>7 DEF McpInv

\* The credential is wiped.
LEMMA WipeKeeps == ASSUME McpInv, NEW r \in Requests, Wipe(r) PROVE McpInv'
<1>1. McpType /\ McpPath(r)
    BY DEF McpInv
<1>2. /\ UNCHANGED <<entry, binding>>
      /\ \/ /\ credential' = 0 /\ ready' = 0 /\ lapses' = lapses \ {"unsure"}
            /\ Stands(r, IF request[r].action = "install" THEN "finish" ELSE "unbind")
         \/ /\ credential' \in {credential, 0} /\ UNCHANGED ready /\ lapses' = lapses \cup {"halfRemoved"}
            /\ Stands(r, "finish")
    BY <1>1, GoesStands, FailsStands DEF Wipe, McpSteps, Lapse, Remembers
<1>3. Working(r) /\ request[r].at = "wipe"
    BY DEF Wipe, AtCall, Working
<1>4. McpType'
  <2>1. request' \in [Requests -> McpRequests] /\ binding' \in BOOLEAN /\ lapses' \subseteq McpLapses
    BY <1>1, <1>2 DEF McpType, Stands, Left, McpLapses
  <2>2. entry' \in {"absent", "managed", "foreign"} /\ credential' \in Nat /\ ready' \in Nat
    BY <1>1, <1>2, McpFields DEF McpType
  <2> QED
    BY <2>1, <2>2 DEF McpType
<1>5. \A q \in Requests : McpPath(q)'
    BY <1>1, <1>2, <1>3, McpFields DEF McpInv, McpPath, Stands, Left, FailStep, Actions
<1>6. OneWorker'
    BY <1>2, <1>3, OneWorkerKept DEF Stands, Left
<1>7. ASSUME Calm' PROVE PlacesAgree' /\ \A q \in Requests : WorkerKnowsMcp(q)'
  <2>1. Calm /\ \A o \in Requests \ {r} : request[o].at \in {"none", "done"} /\ request'[o] = request[o]
    BY <1>2, <1>3, <1>7, AloneWhenCalm DEF Calm, Stands, Left
  <2>2. PlacesAgree /\ WorkerKnowsMcp(r)
    BY <2>1 DEF McpInv
  <2>3. PlacesAgree'
    BY <1>1, <1>2, <1>3, <1>7, <2>1, <2>2, McpFields DEF PlacesAgree, Stands, Left, FailStep, Removing, Installing, AtCall, McpPath, WorkerKnowsMcp, Calm
  <2>4. \A q \in Requests : WorkerKnowsMcp(q)'
    BY <1>1, <1>2, <1>3, <1>7, <2>1, <2>2, McpFields DEF PlacesAgree, Stands, Left, FailStep, WorkerKnowsMcp, McpPath, Calm, AtCall
  <2> QED BY <2>3, <2>4
<1> QED BY <1>4, <1>5, <1>6, <1>7 DEF McpInv

\* The row goes last.
LEMMA UnbindKeeps == ASSUME McpInv, NEW r \in Requests, Unbind(r) PROVE McpInv'
<1>1. McpType /\ McpPath(r)
    BY DEF McpInv
<1>2. /\ UNCHANGED <<entry, credential, ready>>
      /\ \/ entry = "absent" /\ binding' = FALSE /\ Stands(r, "finish") /\ UNCHANGED lapses
         \/ Stands(r, FailStep(r)) /\ lapses' = lapses \cup {"halfRemoved"} /\ UNCHANGED binding
    BY <1>1, GoesStands, FailsStands DEF Unbind, FailsOr, CallFails, Refused, McpSteps, Lapse, files
<1>3. Working(r) /\ request[r].at = "unbind"
    BY DEF Unbind, AtCall, Working
<1>4. McpType'
  <2>1. request' \in [Requests -> McpRequests] /\ binding' \in BOOLEAN /\ lapses' \subseteq McpLapses
    BY <1>1, <1>2 DEF McpType, Stands, Left, McpLapses
  <2>2. entry' \in {"absent", "managed", "foreign"} /\ credential' \in Nat /\ ready' \in Nat
    BY <1>1, <1>2, McpFields DEF McpType
  <2> QED
    BY <2>1, <2>2 DEF McpType
<1>5. \A q \in Requests : McpPath(q)'
    BY <1>1, <1>2, <1>3, McpFields DEF McpInv, McpPath, Stands, Left, FailStep, Actions
<1>6. OneWorker'
    BY <1>2, <1>3, OneWorkerKept DEF Stands, Left
<1>7. ASSUME Calm' PROVE PlacesAgree' /\ \A q \in Requests : WorkerKnowsMcp(q)'
  <2>1. Calm /\ \A o \in Requests \ {r} : request[o].at \in {"none", "done"} /\ request'[o] = request[o]
    BY <1>2, <1>3, <1>7, AloneWhenCalm DEF Calm, Stands, Left
  <2>2. PlacesAgree /\ WorkerKnowsMcp(r)
    BY <2>1 DEF McpInv
  <2>3. PlacesAgree'
    BY <1>1, <1>2, <1>3, <1>7, <2>1, <2>2, McpFields DEF PlacesAgree, Stands, Left, FailStep, Removing, Installing, AtCall, McpPath, WorkerKnowsMcp, Calm
  <2>4. \A q \in Requests : WorkerKnowsMcp(q)'
    BY <1>1, <1>2, <1>3, <1>7, <2>1, <2>2, McpFields DEF PlacesAgree, Stands, Left, FailStep, WorkerKnowsMcp, McpPath, Calm, AtCall
  <2> QED BY <2>3, <2>4
<1> QED BY <1>4, <1>5, <1>6, <1>7 DEF McpInv

\* The operation is over.
LEMMA FinishKeeps == ASSUME McpInv, NEW r \in Requests, Finish(r) PROVE McpInv'
<1>1. McpType /\ McpPath(r)
    BY DEF McpInv
<1>2. UNCHANGED <<entry, credential, ready, binding, lapses>> /\ Left(r)
    BY <1>1, OverLeaves, McpFields DEF Finish, files
<1>3. Working(r) /\ request[r].at = "finish"
    BY DEF Finish, AtCall, Working
<1>4. McpType'
  <2>1. request' \in [Requests -> McpRequests] /\ binding' \in BOOLEAN /\ lapses' \subseteq McpLapses
    BY <1>1, <1>2 DEF McpType, Stands, Left, McpLapses
  <2>2. entry' \in {"absent", "managed", "foreign"} /\ credential' \in Nat /\ ready' \in Nat
    BY <1>1, <1>2, McpFields DEF McpType
  <2> QED
    BY <2>1, <2>2 DEF McpType
<1>5. \A q \in Requests : McpPath(q)'
    BY <1>1, <1>2, <1>3, McpFields DEF McpInv, McpPath, Stands, Left, FailStep, Actions
<1>6. OneWorker'
    BY <1>2, <1>3, OneWorkerKept DEF Stands, Left
<1>7. ASSUME Calm' PROVE PlacesAgree' /\ \A q \in Requests : WorkerKnowsMcp(q)'
  <2>1. Calm /\ \A o \in Requests \ {r} : request[o].at \in {"none", "done"} /\ request'[o] = request[o]
    BY <1>2, <1>3, <1>7, AloneWhenCalm DEF Calm, Stands, Left
  <2>2. PlacesAgree /\ WorkerKnowsMcp(r)
    BY <2>1 DEF McpInv
  <2>3. PlacesAgree'
    BY <1>1, <1>2, <1>3, <1>7, <2>1, <2>2, McpFields DEF PlacesAgree, Stands, Left, FailStep, Removing, Installing, AtCall, McpPath, WorkerKnowsMcp, Calm
  <2>4. \A q \in Requests : WorkerKnowsMcp(q)'
    BY <1>1, <1>2, <1>3, <1>7, <2>1, <2>2, McpFields DEF PlacesAgree, Stands, Left, FailStep, WorkerKnowsMcp, McpPath, Calm, AtCall
  <2> QED BY <2>3, <2>4
<1> QED BY <1>4, <1>5, <1>6, <1>7 DEF McpInv


\* An operation is accepted.
LEMMA StartMutationKeeps ==
    ASSUME McpInv, NEW r \in Requests, NEW action \in Actions, StartMutation(r, action)
    PROVE  McpInv'
<1>1. McpType
    BY DEF McpInv
<1>2. /\ request[r] = NoRequest /\ UNCHANGED <<entry, credential, ready, binding>>
      /\ (Quiet /\ lapses' = lapses) \/ lapses' = lapses \cup {"overlap"}
    BY DEF StartMutation, files, Lapse
<1>3. PICK gives \in BOOLEAN : request' = [request EXCEPT ![r] = [NoRequest EXCEPT !.status = "PENDING",
                                                !.action = action, !.at = "start", !.gives = gives]]
    BY DEF StartMutation
<1>4. /\ request' \in [Requests -> McpRequests] /\ \A o \in Requests \ {r} : request'[o] = request[o]
      /\ request'[r].at = "start" /\ request'[r].action = action
    BY <1>1, <1>3 DEF McpType, McpRequests, McpSteps, NoRequest
<1>5. request[r].at = "none"
    BY <1>2 DEF NoRequest
<1>6. McpType'
    BY <1>1, <1>2, <1>4 DEF McpType, McpLapses
<1>7. \A q \in Requests : McpPath(q)'
    BY <1>4 DEF McpInv, McpPath
<1>8. OneWorker'
    BY <1>2, <1>4 DEF OneWorker, Quiet, Working
<1>9. ASSUME Calm' PROVE PlacesAgree' /\ \A q \in Requests : WorkerKnowsMcp(q)'
  <2>1. Calm /\ lapses' = lapses /\ PlacesAgree /\ \A q \in Requests : WorkerKnowsMcp(q)
    BY <1>2, <1>9 DEF Calm, McpInv
  <2>2. PlacesAgree'
    BY <1>2, <1>4, <1>5, <2>1 DEF PlacesAgree, Removing, Installing, AtCall
  <2>3. \A q \in Requests : WorkerKnowsMcp(q)'
    BY <1>2, <1>4, <1>5, <2>1 DEF WorkerKnowsMcp
  <2> QED BY <2>2, <2>3
<1> QED BY <1>6, <1>7, <1>8, <1>9 DEF McpInv

\* A cancellation changes the row, and what the worker sees of it.
LEMMA CancelKeeps ==
    ASSUME McpInv, NEW r \in Requests, Cancel(r) \/ Cut(r)
    PROVE  McpInv'
<1>1. McpType
    BY DEF McpInv
<1>2. UNCHANGED <<entry, credential, ready, binding, lapses>>
    BY DEF Cancel, Cut, files
<1>3. \/ request' = [request EXCEPT ![r].status = "TERMINAL", ![r].cutting = Working(r)]
      \/ request' = [request EXCEPT ![r].cutting = FALSE, ![r].cut = TRUE]
    BY DEF Cancel, Cut
<1>4. /\ request' \in [Requests -> McpRequests]
      /\ \A q \in Requests : /\ request'[q].at = request[q].at /\ request'[q].action = request[q].action
                             /\ request'[q].probed = request[q].probed
  <2>1. PICK marked \in McpRequests :
            /\ request' = [request EXCEPT ![r] = marked]
            /\ marked.at = request[r].at /\ marked.action = request[r].action /\ marked.probed = request[r].probed
    <3>1. CASE request' = [request EXCEPT ![r].status = "TERMINAL", ![r].cutting = Working(r)]
      <4> DEFINE over == [request[r] EXCEPT !.status = "TERMINAL", !.cutting = Working(r)]
      <4>1. Working(r) \in BOOLEAN
        BY DEF Working
      <4>2. /\ over \in McpRequests /\ over.at = request[r].at /\ over.action = request[r].action
            /\ over.probed = request[r].probed
        BY <1>1, <4>1, McpFields DEF McpRequests
      <4>3. request' = [request EXCEPT ![r] = over]
        BY <1>1, <3>1 DEF McpType
      <4> HIDE DEF over
      <4> QED
        BY <4>2, <4>3
    <3>2. CASE request' = [request EXCEPT ![r].cutting = FALSE, ![r].cut = TRUE]
      <4> DEFINE marked == [request[r] EXCEPT !.cutting = FALSE, !.cut = TRUE]
      <4>1. /\ marked \in McpRequests /\ marked.at = request[r].at /\ marked.action = request[r].action
            /\ marked.probed = request[r].probed
        BY <1>1, McpFields DEF McpRequests
      <4>2. request' = [request EXCEPT ![r] = marked]
        BY <1>1, <3>2 DEF McpType
      <4> HIDE DEF marked
      <4> QED
        BY <4>1, <4>2
    <3> QED
        BY <1>3, <3>1, <3>2
  <2> QED
    BY <1>1, <2>1 DEF McpType
<1> QED
    BY <1>1, <1>2, <1>4
    DEF McpInv, McpType, McpPath, OneWorker, Working, PlacesAgree, WorkerKnowsMcp, Calm, Removing, Installing, AtCall

\* The world: an observation grows old, hands on the profile, a restart.
LEMMA McpWorldKeeps ==
    ASSUME McpInv, ReadyExpires \/ EditProfile \/ RestartDaemon
    PROVE  McpInv'
<1>1. McpType
    BY DEF McpInv
<1>2. CASE ReadyExpires
    BY <1>2
    DEF ReadyExpires, Remembers, files, McpInv, McpType, McpPath, OneWorker, Working, PlacesAgree, WorkerKnowsMcp, Calm, Removing,
        Installing, AtCall
<1>3. CASE EditProfile
  <2>1. /\ UNCHANGED <<ready, binding, request>> /\ lapses' = lapses \cup {"edited"}
        /\ entry' \in {"absent", "managed", "foreign"} /\ credential' \in Nat
    BY <1>1, <1>3, McpBounds DEF EditProfile, Lapse, ByHand, McpType
  <2> QED
    BY <1>1, <2>1 DEF McpInv, McpType, McpPath, OneWorker, Working, Calm, McpLapses
<1>4. CASE RestartDaemon
  <2>1. /\ ready' = 0 /\ UNCHANGED <<entry, credential, binding>>
        /\ (Quiet /\ lapses' = lapses \ {"unsure"}) \/ lapses' = lapses \cup {"stopped"}
    BY <1>4 DEF RestartDaemon, files
  <2>2. NoRequest \in McpRequests /\ NoRequest.at = "none"
    BY DEF NoRequest, McpRequests, McpSteps
  <2>3. LET over == [NoRequest EXCEPT !.at = "done", !.status = "TERMINAL"]
        IN  over \in McpRequests /\ over.at = "done"
    BY DEF NoRequest, McpRequests, McpSteps
  <2>4. request' \in [Requests -> McpRequests] /\ \A q \in Requests : request'[q].at \in {"none", "done"}
    BY <1>4, <2>2, <2>3 DEF RestartDaemon
  <2>5. ASSUME Calm' PROVE PlacesAgree'
    BY <2>1, <2>5 DEF McpInv, PlacesAgree, Calm, Quiet, Working, Removing, Installing, AtCall
  <2> QED
    BY <1>1, <2>1, <2>4, <2>5
    DEF McpInv, McpType, McpPath, OneWorker, Working, WorkerKnowsMcp, McpLapses
<1> QED
    BY <1>2, <1>3, <1>4

\* Every step keeps the inductive invariant.
LEMMA McpInvStep == McpInv /\ [McpNext]_mcpVars => McpInv'
<1>1. ASSUME McpInv, UNCHANGED mcpVars PROVE McpInv'
    BY <1>1
    DEF mcpVars, McpInv, McpType, McpPath, OneWorker, Working, PlacesAgree, WorkerKnowsMcp, Calm, Removing, Installing,
        AtCall
<1>2. ASSUME McpInv, NEW r \in Requests, MutationStep(r) PROVE McpInv'
    BY <1>2, BeginMutationKeeps, AddEntryKeeps, WriteSecretKeeps, ChooseToolsKeeps, ProbeKeeps, ObserveKeeps,
       CheckReadyKeeps, BindKeeps, CleanupKeeps, RemoveEntryKeeps, WipeKeeps, UnbindKeeps, FinishKeeps
    DEF MutationStep
<1> QED
    BY <1>1, <1>2, StartMutationKeeps, CancelKeeps, McpWorldKeeps DEF McpNext

\* The inductive invariant implies the property.
LEMMA McpInvImplies == McpInv => McpAgrees
<1> SUFFICES ASSUME McpInv, Quiet PROVE
          /\ binding /\ entry # "managed" => Excused({"cleanedUp", "halfRemoved"})
          /\ entry = "managed" /\ ~binding => Excused({"leftOver"})
          /\ credential # 0 /\ entry # "managed" => Excused({"leftOver", "halfRemoved"})
          /\ Shown = "READY" => ready = credential \/ Excused({"unsure"})
    BY DEF McpAgrees
<1>1. CASE ~Calm
    BY <1>1 DEF Calm, Excused
<1>2. CASE Calm
  <2>1. PlacesAgree /\ \A r \in Requests : request[r].at \in {"none", "done"}
    BY <1>2 DEF McpInv, Quiet, Working
  <2>2. Shown = "READY" => entry = "managed" /\ credential # 0 /\ ready # 0
    BY DEF Shown, McpInv, McpType
  <2> QED
    BY <2>1, <2>2 DEF PlacesAgree, Excused, Removing, Installing, AtCall
<1> QED
    BY <1>1, <1>2

\* For any number of operations, workers side by side, failing calls and restarts:
\* once no worker is busy, entry, credential, readiness and row agree, but for the
\* lapses named.
THEOREM McpPlacesAgree == McpSpec => []McpAgrees
BY McpInitially, McpInvStep, McpInvImplies, PTL DEF McpSpec

-----------------------------------------------------------------------------
(***************************************************************************)
(* What is said about an upgrade.                                          *)
(***************************************************************************)
EvidencePoints == DOMAIN PossibleEvidence
MachinePoints == DOMAIN PossibleMachine

\* Every point has one of its possible values.
IsEvidence(e) == DOMAIN e = EvidencePoints /\ \A f \in EvidencePoints : e[f] \in PossibleEvidence[f]
IsMachine(m) == DOMAIN m = MachinePoints /\ \A f \in MachinePoints : m[f] \in PossibleMachine[f]

PlanInv == IsEvidence(evidence) /\ IsMachine(machine) /\ judged = Judged(evidence, machine)

\* The evidence, point by point.
LEMMA EvidencePossible ==
    ASSUME NEW e, IsEvidence(e)
    PROVE  /\ e.managed \in {"MANAGED", "UNMANAGED", "UNKNOWN"}
           /\ e.pointer \in {"VALID", "MISSING", "INVALID", "UNKNOWN"}
           /\ e.names \in BOOLEAN /\ e.sealed \in BOOLEAN /\ e.protectionID \in BOOLEAN
           /\ e.wellFormed \in BOOLEAN /\ e.restoreRequired \in BOOLEAN
           /\ e.current \in EvidenceStates /\ e.target \in EvidenceStates /\ e.inventory \in EvidenceStates
           /\ e.protection \in EvidenceStates /\ e.record \in EvidenceStates /\ e.postchecks \in EvidenceStates
           /\ e.identity \in Snapshots /\ e.compiled \in Snapshots /\ e.observed \in Snapshots
           /\ e.from \in Snapshots /\ e.to \in Snapshots
           /\ e.upgrade \in Verdicts /\ e.rollback \in Verdicts
BY DEF IsEvidence, EvidencePoints, PossibleEvidence

\* The ideal, and a change of one point.
LEMMA IdealIsPossible == IsEvidence(IdealEvidence) /\ IsMachine(IdealMachine)
<1>1. DOMAIN IdealEvidence = EvidencePoints /\ DOMAIN IdealMachine = MachinePoints
    BY DEF EvidencePoints, IdealEvidence, PossibleEvidence, MachinePoints, IdealMachine, PossibleMachine
<1>2. \A f \in EvidencePoints : IdealEvidence[f] \in PossibleEvidence[f]
  <2>1. \A f \in {"managed", "pointer", "current", "identity", "target", "compiled", "observed", "inventory"} :
        IdealEvidence[f] \in PossibleEvidence[f]
    BY DEF IdealEvidence, PossibleEvidence, EvidenceStates, Snapshots, Verdicts, Features, Always
  <2>2. \A f \in {"protection", "record", "from", "to", "upgrade", "rollback", "postchecks"} :
        IdealEvidence[f] \in PossibleEvidence[f]
    BY DEF IdealEvidence, PossibleEvidence, EvidenceStates, Snapshots, Verdicts, Features, Always
  <2>3. /\ IdealEvidence.names \in PossibleEvidence.names
        /\ IdealEvidence.sealed \in PossibleEvidence.sealed
        /\ IdealEvidence.protectionID \in PossibleEvidence.protectionID
        /\ IdealEvidence.wellFormed \in PossibleEvidence.wellFormed
        /\ IdealEvidence.restoreRequired \in PossibleEvidence.restoreRequired
    BY DEF IdealEvidence, PossibleEvidence
  <2>4. /\ IdealEvidence.features \in PossibleEvidence.features
        /\ IdealEvidence.qualified \in PossibleEvidence.qualified
    BY DEF IdealEvidence, PossibleEvidence
  <2> QED
    BY ZenonT(40), <2>1, <2>2, <2>3, <2>4 DEF EvidencePoints, PossibleEvidence
<1>3. \A f \in MachinePoints : IdealMachine[f] \in PossibleMachine[f]
  <2>1. IdealMachine["installed"] \in PossibleMachine["installed"]
    BY DEF IdealMachine, PossibleMachine
  <2>2. /\ IdealMachine.supported \in PossibleMachine.supported
        /\ IdealMachine.activeRecord \in PossibleMachine.activeRecord
        /\ IdealMachine.sameVersion \in PossibleMachine.sameVersion
        /\ IdealMachine.launcher \in PossibleMachine.launcher
        /\ IdealMachine.lineage \in PossibleMachine.lineage
        /\ IdealMachine.tree \in PossibleMachine.tree
        /\ IdealMachine.pinned \in PossibleMachine.pinned
    BY DEF IdealMachine, PossibleMachine
  <2> QED
    BY <2>1, <2>2 DEF MachinePoints, PossibleMachine
<1> QED
    BY <1>1, <1>2, <1>3 DEF IsEvidence, IsMachine

\* ... is possible too.
LEMMA DeviationIsPossible ==
    /\ \A e, f, value : IsEvidence(e) /\ f \in EvidencePoints /\ value \in PossibleEvidence[f] =>
          IsEvidence([e EXCEPT ![f] = value])
    /\ \A m, f, value : IsMachine(m) /\ f \in MachinePoints /\ value \in PossibleMachine[f] =>
          IsMachine([m EXCEPT ![f] = value])
BY DEF IsEvidence, IsMachine

\* The invariant holds initially and is kept.
LEMMA PlanInvHolds == PlanSpec => []PlanInv
<1>1. PlanInit => PlanInv
    BY IdealIsPossible DEF PlanInit, PlanInv
<1>2. PlanInv /\ [PlanNext]_planVars => PlanInv'
  <2> SUFFICES ASSUME PlanInv, [PlanNext]_planVars PROVE PlanInv'
    OBVIOUS
  <2>1. ASSUME NEW f \in DOMAIN evidence, Deviate(f) PROVE PlanInv'
    BY <2>1, DeviationIsPossible DEF PlanInv, Deviate, IsEvidence
  <2>2. ASSUME NEW f \in DOMAIN machine, Differ(f) PROVE PlanInv'
    BY <2>2, DeviationIsPossible DEF PlanInv, Differ, IsMachine
  <2>3. CASE UNCHANGED planVars
    BY <2>3 DEF planVars, PlanInv
  <2> QED
    BY <2>1, <2>2, <2>3 DEF PlanNext
<1> QED
    BY <1>1, <1>2, PTL DEF PlanSpec

\* A reason is there exactly when its condition holds.
LEMMA ReasonGiven ==
    ASSUME NEW about, NEW condition \in BOOLEAN, NEW what
    PROVE  /\ Because(about, condition, what) = {} <=> ~condition
           /\ \A r : r \in Because(about, condition, what) <=> condition /\ r = <<about, what>>
BY DEF Because

\* Evidence that is not verified gives its reason.
LEMMA UnverifiedGiven ==
    ASSUME NEW about, NEW state \in EvidenceStates
    PROVE  /\ Unverified(about, state) = {} <=> state = "VERIFIED"
           /\ \A r : r \in Unverified(about, state) <=>
                 \/ state = "UNKNOWN" /\ r = <<about, "UNKNOWN">>
                 \/ state \in {"MISSING", "INVALID"} /\ r = <<about, "INVALID">>
BY DEF Unverified, EvidenceStates

\* What is made of the reasons.
LEMMA AvailabilityGiven ==
    ASSUME NEW reasons
    PROVE  /\ Availability(reasons) = "AVAILABLE" <=> reasons = {}
           /\ Availability(reasons) = "UNKNOWN" <=> reasons # {} /\ \E r \in reasons : <<r[1], "UNKNOWN">> \in reasons
           /\ Availability(reasons) = "BLOCKED" <=> reasons # {} /\ \A r \in reasons : <<r[1], "UNKNOWN">> \notin reasons
BY DEF Availability

\* What is not offered can be told from the points.
LEMMA AvailableMeans ==
    ASSUME NEW e, IsEvidence(e), BuildUpgradePlan(e) = "AVAILABLE"
    PROVE  /\ e.managed = "MANAGED" /\ e.pointer = "VALID" /\ e.names /\ e.current = "VERIFIED" /\ e.sealed
           /\ e.identity # "malformed" /\ e.target = "VERIFIED" /\ e.compiled = e.observed /\ e.compiled # "malformed"
           /\ e.inventory = "VERIFIED" /\ e.protection = "VERIFIED" /\ e.protectionID
           /\ e.record = "VERIFIED" /\ e.wellFormed /\ e.from # "malformed" /\ e.to # "malformed"
           /\ e.from = e.identity /\ e.to = e.compiled /\ e.upgrade = "PROVEN" /\ e.rollback = "PROVEN"
           /\ e.postchecks = "VERIFIED" /\ Required(e.features) \subseteq e.qualified
<1>1. UpgradeReasons(e) = {}
    BY AvailabilityGiven DEF BuildUpgradePlan
<1>2. ActiveReasons(e) = {} /\ CurrentReasons(e) = {} /\ TargetReasons(e) = {} /\ Unverified("INVENTORY", e.inventory) = {}
      /\ ProtectionReasons(e) = {} /\ CompatibilityReasons(e, e.identity, e.compiled, TRUE) = {} /\ PostcheckReasons(e) = {}
    BY <1>1 DEF UpgradeReasons
<1>3. e.managed = "MANAGED" /\ e.pointer = "VALID"
    BY <1>2, EvidencePossible DEF ActiveReasons, Because
<1>4. e.current = "VERIFIED" /\ e.sealed /\ e.identity # "malformed"
    BY ZenonT(40), <1>2, EvidencePossible, UnverifiedGiven DEF CurrentReasons, Because, Exact
<1>5. e.names
    BY <1>2, <1>3, <1>4, EvidencePossible DEF ActiveReasons, Because
<1>6. e.target = "VERIFIED" /\ e.compiled = e.observed /\ e.compiled # "malformed"
    BY ZenonT(40), <1>2, EvidencePossible, UnverifiedGiven DEF TargetReasons, Because, TargetExact
<1>7. e.inventory = "VERIFIED"
    BY <1>2, EvidencePossible, UnverifiedGiven
<1>8. e.protection = "VERIFIED" /\ e.protectionID
    BY <1>2, EvidencePossible, UnverifiedGiven DEF ProtectionReasons, Because
<1>9. e.record = "VERIFIED" /\ e.wellFormed /\ e.from # "malformed" /\ e.to # "malformed"
    BY ZenonT(40), <1>2, EvidencePossible, UnverifiedGiven DEF CompatibilityReasons
<1>10. e.from = e.identity /\ e.to = e.compiled /\ e.upgrade = "PROVEN" /\ e.rollback = "PROVEN"
    BY <1>2, <1>9, EvidencePossible DEF CompatibilityReasons, Because, Verdicts
<1>11. e.postchecks = "VERIFIED" /\ Required(e.features) \subseteq e.qualified
    BY <1>2, EvidencePossible, UnverifiedGiven DEF PostcheckReasons, Because
<1> QED
    BY <1>3, <1>4, <1>5, <1>6, <1>7, <1>8, <1>9, <1>10, <1>11

\* What is known after the upgrade, point by point.
LEMMA AfterUpgradeMeans ==
    ASSUME NEW e, IsEvidence(e)
    PROVE  LET a == AfterUpgrade(e) IN
           /\ a.identity = e.compiled /\ a.sealed = TRUE /\ a.names = TRUE
           /\ a.managed = e.managed /\ a.pointer = e.pointer /\ a.current = e.current /\ a.inventory = e.inventory
           /\ a.protection = e.protection /\ a.protectionID = e.protectionID /\ a.record = e.record
           /\ a.wellFormed = e.wellFormed /\ a.from = e.from /\ a.to = e.to /\ a.upgrade = e.upgrade
           /\ a.rollback = e.rollback /\ a.restoreRequired = e.restoreRequired /\ a.postchecks = e.postchecks
           /\ a.features = e.features /\ a.qualified = e.qualified
BY DEF AfterUpgrade, IsEvidence, EvidencePoints, PossibleEvidence

\* No upgrade is offered that could not be undone.
LEMMA AvailableCanBeUndone ==
    ASSUME NEW e, IsEvidence(e), BuildUpgradePlan(e) = "AVAILABLE"
    PROVE  AssessRollback(AfterUpgrade(e), PreviousOf(e)) = "AVAILABLE"
<1> DEFINE a == AfterUpgrade(e)
           previous == PreviousOf(e)
<1>1. /\ a.identity = e.compiled /\ a.sealed = TRUE /\ a.names = TRUE
      /\ a.managed = e.managed /\ a.pointer = e.pointer /\ a.current = e.current /\ a.inventory = e.inventory
      /\ a.protection = e.protection /\ a.protectionID = e.protectionID /\ a.record = e.record
      /\ a.wellFormed = e.wellFormed /\ a.from = e.from /\ a.to = e.to /\ a.upgrade = e.upgrade
      /\ a.rollback = e.rollback /\ a.restoreRequired = e.restoreRequired /\ a.postchecks = e.postchecks
      /\ a.features = e.features /\ a.qualified = e.qualified
    BY AfterUpgradeMeans
<1>0. /\ previous.state = e.current /\ previous.sealed = e.sealed /\ previous.identity = e.identity
      /\ previous.active = FALSE
    BY DEF PreviousOf
<1> HIDE DEF a, previous
<1>2. ActiveReasons(a) = {} /\ CurrentReasons(a) = {} /\ PreviousReasons(previous) = {}
    BY <1>0, <1>1, AvailableMeans DEF ActiveReasons, CurrentReasons, PreviousReasons, Because, Exact
<1>3. Because("PREVIOUS", previous.active, "SAME") = {} /\ Unverified("INVENTORY", a.inventory) = {}
    BY <1>0, <1>1, AvailableMeans DEF Because, Unverified
<1>4. CompatibilityReasons(a, previous.identity, a.identity, FALSE) = {}
    BY <1>0, <1>1, AvailableMeans DEF CompatibilityReasons, Because
<1>5. ProtectionReasons(a) = {} /\ PostcheckReasons(a) = {}
    BY <1>1, AvailableMeans DEF ProtectionReasons, PostcheckReasons, Because
<1>6. AssessRollback(a, previous) = Availability({})
    BY <1>2, <1>3, <1>4, <1>5 DEF AssessRollback
<1> QED
    BY <1>6, AvailabilityGiven DEF a, previous

\* Something the plan asks about is unknown.
NotKnown(e) ==
    \/ "UNKNOWN" \in {e.managed, e.pointer, e.current, e.target, e.inventory, e.protection, e.record, e.postchecks}
    \/ /\ e.record = "VERIFIED" /\ e.wellFormed /\ "malformed" \notin {e.from, e.to}
       /\ "UNKNOWN" \in {e.upgrade, e.rollback}

\* What is unknown has a reason that says so, and nothing else has.
LEMMA UnknownReason ==
    ASSUME NEW e, IsEvidence(e)
    PROVE  NotKnown(e) <=> \E r \in UpgradeReasons(e) : <<r[1], "UNKNOWN">> \in UpgradeReasons(e)
<1>1. ASSUME NotKnown(e) PROVE \E about : <<about, "UNKNOWN">> \in UpgradeReasons(e)
  <2>1. CASE e.managed = "UNKNOWN"
    BY <2>1 DEF UpgradeReasons, ActiveReasons, Because
  <2>2. CASE e.pointer = "UNKNOWN"
    BY <2>2 DEF UpgradeReasons, ActiveReasons, Because
  <2>3. CASE e.current = "UNKNOWN"
    BY <2>3 DEF UpgradeReasons, CurrentReasons, Unverified
  <2>4. CASE e.target = "UNKNOWN"
    BY <2>4 DEF UpgradeReasons, TargetReasons, Unverified
  <2>5. CASE e.inventory = "UNKNOWN"
    BY <2>5 DEF UpgradeReasons, Unverified
  <2>6. CASE e.protection = "UNKNOWN"
    BY <2>6 DEF UpgradeReasons, ProtectionReasons, Unverified
  <2>7. CASE e.record = "UNKNOWN"
    BY <2>7 DEF UpgradeReasons, CompatibilityReasons, Unverified
  <2>8. CASE e.postchecks = "UNKNOWN"
    BY <2>8 DEF UpgradeReasons, PostcheckReasons, Unverified
  <2>9. CASE /\ e.record = "VERIFIED" /\ e.wellFormed /\ "malformed" \notin {e.from, e.to}
             /\ "UNKNOWN" \in {e.upgrade, e.rollback}
    BY <2>9 DEF UpgradeReasons, CompatibilityReasons, Because
  <2> QED
    BY <1>1, <2>1, <2>2, <2>3, <2>4, <2>5, <2>6, <2>7, <2>8, <2>9 DEF NotKnown
<1>2. ASSUME NEW about, <<about, "UNKNOWN">> \in UpgradeReasons(e) PROVE NotKnown(e)
  <2> DEFINE r == <<about, "UNKNOWN">>
  <2>1. r # <<"MANAGED", "INVALID">> /\ \A x : r # <<x, "INVALID">>
    OBVIOUS
  <2>2. CASE r \in ActiveReasons(e)
    BY <2>1, <2>2 DEF ActiveReasons, Because, NotKnown
  <2>3. CASE r \in CurrentReasons(e)
    BY <2>1, <2>3, EvidencePossible, UnverifiedGiven DEF CurrentReasons, Because, NotKnown
  <2>4. CASE r \in TargetReasons(e)
    BY <2>1, <2>4, EvidencePossible, UnverifiedGiven DEF TargetReasons, Because, NotKnown
  <2>5. CASE r \in Unverified("INVENTORY", e.inventory)
    BY <2>1, <2>5, EvidencePossible, UnverifiedGiven DEF NotKnown
  <2>6. CASE r \in ProtectionReasons(e)
    BY <2>1, <2>6, EvidencePossible, UnverifiedGiven DEF ProtectionReasons, Because, NotKnown
  <2>7. CASE r \in CompatibilityReasons(e, e.identity, e.compiled, TRUE)
    BY <2>1, <2>7, EvidencePossible, UnverifiedGiven DEF CompatibilityReasons, Because, NotKnown
  <2>8. CASE r \in PostcheckReasons(e)
    BY <2>1, <2>8, EvidencePossible, UnverifiedGiven DEF PostcheckReasons, Because, NotKnown
  <2> QED
    BY <1>2, <2>2, <2>3, <2>4, <2>5, <2>6, <2>7, <2>8 DEF UpgradeReasons
<1>3. \A about : <<about, "UNKNOWN">>[1] = about
    OBVIOUS
<1> QED
    BY <1>1, <1>2, <1>3

\* What is missing is told from what is not known.
LEMMA UnknownToldApart == PlanInv => UnknownIsTold
<1> SUFFICES ASSUME PlanInv PROVE UnknownIsTold
    OBVIOUS
<1>1. IsEvidence(evidence) /\ judged.plan = BuildUpgradePlan(evidence)
    BY DEF PlanInv, Judged
<1>2. Unknowns = {} <=> ~NotKnown(evidence)
    BY DEF Unknowns, NotKnown
<1>3. judged.plan = "BLOCKED" => ~NotKnown(evidence)
    BY <1>1, UnknownReason, AvailabilityGiven DEF BuildUpgradePlan
<1>4. judged.plan = "UNKNOWN" => NotKnown(evidence)
    BY <1>1, UnknownReason, AvailabilityGiven DEF BuildUpgradePlan
<1> QED
    BY <1>2, <1>3, <1>4 DEF UnknownIsTold

\* What the adapter answers about a machine that does not run the target.
LEMMA GatheredIsUnknown ==
    ASSUME NEW m, IsMachine(m), m.installed # "target"
    PROVE  /\ BuildUpgradePlan(Gathered(m)) = "UNKNOWN"
           /\ Public(UpgradeReasons(Gathered(m))) # {}
           /\ ~ObservedManaged(m) => "MANAGED_EVIDENCE" \in Public(UpgradeReasons(Gathered(m)))
<1> DEFINE e == Gathered(m)
<1>1. /\ e.managed = IF ObservedManaged(m) THEN "MANAGED" ELSE "UNKNOWN"
      /\ e.identity = (IF m.installed = "other" THEN "malformed" ELSE m.installed)
      /\ e.inventory = "UNKNOWN" /\ e.compiled = "target"
    BY DEF Gathered, IdealEvidence
<1>2. m.installed \in {"old", "other"}
    BY DEF IsMachine, MachinePoints, PossibleMachine, IdealMachine
<1> HIDE DEF e
<1>3. ~TargetActive(e)
    BY <1>1, <1>2 DEF TargetActive
<1>4. <<"INVENTORY", "UNKNOWN">> \in UpgradeReasons(e)
    BY <1>1 DEF UpgradeReasons, Unverified
<1>5. ~ObservedManaged(m) => <<"MANAGED", "UNKNOWN">> \in UpgradeReasons(e)
    BY <1>1 DEF UpgradeReasons, ActiveReasons, Because
<1>6. BuildUpgradePlan(e) = "UNKNOWN"
    BY <1>3, <1>4, AvailabilityGiven DEF BuildUpgradePlan
<1>7. "INVENTORY" \in Public(UpgradeReasons(e))
    BY <1>4 DEF Public, Said
<1>8. ~ObservedManaged(m) => "MANAGED_EVIDENCE" \in Public(UpgradeReasons(e))
    BY <1>5 DEF Public, Said
<1> QED
    BY <1>6, <1>7, <1>8 DEF e

\* ... and what an answer never says.
LEMMA AnswerOfTarget ==
    ASSUME NEW m, m.installed = "target"
    PROVE  /\ PlanUpgrade(m).state = "UP_TO_DATE" /\ PlanUpgrade(m).reasons = {}
           /\ PlanUpgrade(m).compatibility = "NOT_REQUIRED"
           /\ PlanUpgrade(m).current = "target"
BY DEF PlanUpgrade

\* The version an answer names is the installed one.
LEMMA AnswerNamesInstalled ==
    ASSUME NEW m
    PROVE  PlanUpgrade(m).current = m.installed
<1> DEFINE e == Gathered(m)
<1>1. e.current = "VERIFIED" => ObservedManaged(m)
    BY DEF Gathered, IdealEvidence
<1>2. ObservedManaged(m) => m.sameVersion
    BY DEF ObservedManaged
<1>3. PlanUpgrade(m).current = IF m.installed # "target" /\ e.current = "VERIFIED" THEN RecordVersion(m) ELSE m.installed
    BY DEF PlanUpgrade
<1> HIDE DEF e
<1> QED
    BY <1>1, <1>2, <1>3 DEF RecordVersion

\* What is not available is never complete.
LEMMA AnswerIsNoOffer ==
    ASSUME NEW m, BuildUpgradePlan(Gathered(m)) # "AVAILABLE"
    PROVE  ~PlanUpgrade(m).complete
BY DEF PlanUpgrade

\* The adapter always has an answer that the application takes.
LEMMA AnswerAlwaysTaken ==
    ASSUME NEW m, IsMachine(m), NEW p, p = PlanUpgrade(m)
    PROVE  /\ Accepted(p, m) /\ ~Executable(p)
           /\ p.state = "UP_TO_DATE" <=> p.reasons = {}
           /\ ~p.managed /\ p.state # "UP_TO_DATE" => "MANAGED_EVIDENCE" \in p.reasons
<1>1. ~p.qualified
    BY DEF PlanUpgrade
<1>2. CASE m.installed = "target"
  <2>1. ~p.complete
    BY <1>2 DEF PlanUpgrade
  <2> QED
    BY <1>1, <1>2, <2>1, AnswerOfTarget, AnswerNamesInstalled DEF Accepted, Valid, Executable
<1>3. CASE m.installed # "target"
  <2>1. p.state = "UNKNOWN" /\ p.reasons = Public(UpgradeReasons(Gathered(m)))
    BY <1>3, GatheredIsUnknown DEF PlanUpgrade
  <2>2. BuildUpgradePlan(Gathered(m)) # "AVAILABLE"
    BY <1>3, GatheredIsUnknown
  <2>3. ~p.complete
    BY <2>2, AnswerIsNoOffer
  <2>4. p.managed = ObservedManaged(m)
    BY DEF PlanUpgrade
  <2> QED
    BY <1>1, <1>3, <2>1, <2>3, <2>4, GatheredIsUnknown, AnswerNamesInstalled DEF Accepted, Valid, Executable
<1> QED
    BY <1>2, <1>3

\* For all evidence and every machine: no upgrade is offered that could not be undone,
\* what is missing is told from what is not known, and the answer of the adapter is
\* one the application takes.
THEOREM PlansAreTrue == PlanSpec => []PlansTrue
<1>1. PlanInv => UndoneIfDone
    BY AvailableCanBeUndone DEF PlanInv, Judged, UndoneIfDone
<1>2. PlanInv => AnswerIsTaken
    BY AnswerAlwaysTaken DEF PlanInv, Judged, AnswerIsTaken
<1>3. PlanInv => PlansTrue
    BY <1>1, <1>2, UnknownToldApart DEF PlansTrue
<1> QED
    BY <1>3, PlanInvHolds, PTL

-----------------------------------------------------------------------------
(***************************************************************************)
(* Shared models: a binding is PENDING only while its application holds it *)
(* or ended for a cause, and what a worker has set and not yet recorded is *)
(* its own unless another worker was beside it.                            *)
(***************************************************************************)
ModelEnds == {"notStarted", "notClaimed", "stopped", "unrecorded"}
WorkPoints == {"claim", "secret", "apply", "record", "skip", "failAll"}
BusyPoints == WorkPoints \cup {"bind", "finish"}
ModelOutcomes == {"none", "SUCCEEDED", "FAILED", "SKIPPED"}
ApplicationRecords ==
    [status : {"NONE", "PENDING", "RUNNING", "TERMINAL"}, profile : Profiles \cup {NoProfile},
     targets : Seq(Hosts), at : BusyPoints \cup {"none", "done"}, next : Nat, result : ModelOutcomes,
     cut : BOOLEAN, cancelling : BOOLEAN, end : ModelEnds \cup {"none", "finished"}]
BindingRecords == [profile : Profiles \cup {NoProfile}, state : ModelOutcomes \cup {"PENDING"},
                   by : Applications \cup {0}]

\* The instances whose binding an application has made PENDING and not yet ended.
HeldIn(r) ==
    {h \in Hosts : \/ r.at = "bind" /\ h < r.next
                   \/ r.at \in WorkPoints /\ r.next <= h /\ h <= Len(r.targets)}
PlaceOK(r) == r.at \in BusyPoints =>
    /\ r.targets \in TargetLists /\ r.next \in 1..Len(r.targets) /\ r.end \in {"none", "unrecorded"}
    /\ (r.at = "record" => r.result # "none")

ModelTypes ==
    /\ connection \in [row : BOOLEAN, secret : BOOLEAN]
    /\ creating \in {"no", "row", "done", "lost"} /\ deleting \in {"no", "secret", "row", "failed"}
    /\ inserting \subseteq Profiles /\ profiles \subseteq Profiles
    /\ application \in [Applications -> ApplicationRecords]
    /\ bound \in [Hosts -> BindingRecords]
    /\ configured \in [Hosts -> Nat] /\ patched \subseteq Hosts /\ beside \subseteq Hosts

\* The secret comes before the row and goes before it; a profile holds the row.
ConnectionOK ==
    /\ creating \in {"no", "row"} => ~connection.row /\ deleting = "no"
    /\ creating = "no" => ~connection.secret
    /\ creating = "row" => connection.secret
    /\ connection.row /\ deleting \in {"no", "secret"} => connection.secret
    /\ profiles # {} => connection.row

BindingOK(h) ==
    /\ bound[h].state # "none" => bound[h].profile \in profiles
    /\ bound[h].state = "PENDING" =>
          /\ bound[h].by \in Applications
          /\ \/ application[bound[h].by].end \in ModelEnds
             \/ h \in HeldIn(application[bound[h].by]) /\ bound[h].profile = application[bound[h].by].profile
    /\ bound[h].state = "SUCCEEDED" => configured[h] = bound[h].profile \/ h \in patched \cup beside

HoldsOK(a) == \A h \in HeldIn(application[a]) : bound[h].state # "SUCCEEDED" \/ h \in beside
ResultOK(a) ==
    application[a].at = "record" /\ application[a].result = "SUCCEEDED" =>
        \/ configured[application[a].next] = application[a].profile
        \/ application[a].next \in patched \cup beside
ApplicationOK(a) == PlaceOK(application[a]) /\ HoldsOK(a) /\ ResultOK(a)

ModelsInv ==
    /\ ModelTypes /\ ConnectionOK
    /\ \A h \in Hosts : BindingOK(h)
    /\ \A a \in Applications : ApplicationOK(a)

\* The lists of targets name the instances in their order.
LEMMA TargetListFacts ==
    ASSUME NEW list \in TargetLists
    PROVE  list \in Seq(Hosts) /\ Len(list) \in Hosts /\ \A i \in 1..Len(list) : list[i] = i
<1>1. PICK n \in Hosts : list = [i \in 1..n |-> i]
    BY DEF TargetLists
<1>2. n \in Nat /\ n <= MaxHosts
    BY ModelBounds DEF Hosts
<1>3. list \in [1..n -> Hosts]
    BY <1>1, <1>2, ModelBounds DEF Hosts
<1>4. list \in Seq(Hosts) /\ Len(list) = n
    BY <1>2, <1>3
<1> QED BY <1>1, <1>2, <1>4

\* A worker past its start points at one of its targets, which is an instance.
LEMMA TargetFacts ==
    ASSUME ModelsInv, NEW a \in Applications, Busy(a)
    PROVE  /\ application[a].at \in BusyPoints
           /\ Target(a) = application[a].next /\ Target(a) \in Hosts
           /\ Len(application[a].targets) \in Hosts
           /\ application[a].next <= Len(application[a].targets)
           /\ (LastTarget(a) <=> application[a].next = Len(application[a].targets))
<1>1. application[a] \in ApplicationRecords
    BY DEF ModelsInv, ModelTypes
<1>2. application[a].at \in BusyPoints
    BY <1>1 DEF ApplicationRecords, Busy
<1>3. application[a].targets \in TargetLists /\ application[a].next \in 1..Len(application[a].targets)
    BY <1>2 DEF ModelsInv, ApplicationOK, PlaceOK
<1>4. /\ Len(application[a].targets) \in Hosts
      /\ application[a].targets[application[a].next] = application[a].next
    BY <1>3, TargetListFacts
<1>5. application[a].next \in Hosts
    BY <1>3, <1>4, ModelBounds DEF Hosts
<1> QED BY <1>2, <1>3, <1>4, <1>5, ModelBounds DEF Target, LastTarget, Hosts

\* One application changes, to a record that holds no more instances.
LEMMA MovesKeeps ==
    ASSUME ModelsInv, NEW a \in Applications, NEW r \in ApplicationRecords,
           application' = [application EXCEPT ![a] = r],
           UNCHANGED <<adminVars, bound, configured, patched, beside>>,
           PlaceOK(r), HeldIn(r) \subseteq HeldIn(application[a]),
           \A h \in HeldIn(application[a]) : bound[h].state = "PENDING" /\ bound[h].by = a =>
               r.end \in ModelEnds \/ (h \in HeldIn(r) /\ r.profile = application[a].profile),
           application[a].end \in ModelEnds => r.end \in ModelEnds,
           r.at = "record" /\ r.result = "SUCCEEDED" =>
               /\ application[a].at = "record" /\ application[a].result = "SUCCEEDED"
               /\ r.next = application[a].next /\ r.profile = application[a].profile
    PROVE  ModelsInv'
<1>1. /\ application' \in [Applications -> ApplicationRecords] /\ application'[a] = r
      /\ \A b \in Applications : b # a => application'[b] = application[b]
      /\ application[a] \in ApplicationRecords
    BY DEF ModelsInv, ModelTypes
<1>2. ModelTypes' /\ ConnectionOK'
    BY <1>1 DEF ModelsInv, ModelTypes, ConnectionOK, adminVars
<1>3. ASSUME NEW h \in Hosts PROVE BindingOK(h)'
    <2>1. BindingOK(h) /\ bound[h] \in BindingRecords
        BY DEF ModelsInv, ModelTypes
    <2>2. CASE bound[h].state = "PENDING" /\ bound[h].by = a
        BY <1>1, <2>1, <2>2 DEF BindingOK, adminVars
    <2>3. CASE ~(bound[h].state = "PENDING" /\ bound[h].by = a)
        BY <1>1, <2>1, <2>3 DEF BindingOK, adminVars
    <2> QED BY <2>2, <2>3
<1>4. ASSUME NEW b \in Applications PROVE ApplicationOK(b)'
    <2>1. ApplicationOK(b)
        BY DEF ModelsInv
    <2>2. CASE b # a
        BY <1>1, <2>1, <2>2 DEF ApplicationOK, HoldsOK, ResultOK
    <2>3. CASE b = a
        <3>1. HoldsOK(a)'
            BY <1>1, <2>1, <2>3 DEF ApplicationOK, HoldsOK
        <3>2. ResultOK(a)'
            BY <1>1, <2>1, <2>3 DEF ApplicationOK, ResultOK
        <3> QED BY <1>1, <2>3, <3>1, <3>2 DEF ApplicationOK
    <2> QED BY <2>2, <2>3
<1> QED BY <1>2, <1>3, <1>4 DEF ModelsInv

\* One application changes, and with it one instance and its binding: what else is
\* as before, and what has become of the binding and of what the application holds.
TouchFrame(a, r, t) ==
    /\ application' = [application EXCEPT ![a] = r] /\ UNCHANGED adminVars
    /\ bound' \in [Hosts -> BindingRecords] /\ configured' \in [Hosts -> Nat]
    /\ patched' \subseteq Hosts /\ beside' \subseteq Hosts
    /\ \A h \in Hosts \ {t} : /\ bound'[h] = bound[h] /\ configured'[h] = configured[h]
                              /\ (h \in patched' <=> h \in patched) /\ (h \in beside' <=> h \in beside)
TouchBinding(a, t) ==
    /\ bound'[t].state # "none" => bound'[t].profile \in profiles
    /\ bound'[t].state = "PENDING" => bound'[t] = bound[t] \/ bound'[t].by = a
    /\ bound'[t].state = "SUCCEEDED" => configured'[t] = bound'[t].profile \/ t \in patched' \cup beside'
    /\ ~WorksAlone(a) =>
          \/ t \in beside'
          \/ /\ bound'[t].state # "SUCCEEDED" /\ configured'[t] = configured[t]
             /\ (t \in patched => t \in patched') /\ (t \in beside => t \in beside')
TouchHolds(a, r) ==
    /\ \A h \in Hosts : bound'[h].state = "PENDING" /\ bound'[h].by = a =>
          r.end \in ModelEnds \/ (h \in HeldIn(r) /\ bound'[h].profile = r.profile)
    /\ \A h \in HeldIn(r) : bound'[h].state # "SUCCEEDED" \/ h \in beside'
    /\ r.at = "record" /\ r.result = "SUCCEEDED" =>
          configured'[r.next] = r.profile \/ r.next \in patched' \cup beside'

\* Such a step keeps the invariant.
LEMMA TouchKeeps ==
    ASSUME ModelsInv, NEW a \in Applications, NEW r \in ApplicationRecords, NEW t \in Hosts,
           TouchFrame(a, r, t), TouchBinding(a, t), TouchHolds(a, r), PlaceOK(r)
    PROVE  ModelsInv'
<1>1. /\ application' \in [Applications -> ApplicationRecords] /\ application'[a] = r
      /\ \A b \in Applications : b # a => application'[b] = application[b]
    BY DEF ModelsInv, ModelTypes, TouchFrame
<1>2. ModelTypes' /\ ConnectionOK'
    BY <1>1 DEF TouchFrame, ModelsInv, ModelTypes, ConnectionOK, adminVars
<1>3. ASSUME NEW h \in Hosts PROVE BindingOK(h)'
    <2>1. BindingOK(h) /\ profiles' = profiles
        BY DEF ModelsInv, TouchFrame, adminVars
    <2>2. bound'[h].state # "none" => bound'[h].profile \in profiles'
        BY <2>1 DEF BindingOK, TouchFrame, TouchBinding
    <2>3. bound'[h].state = "SUCCEEDED" => configured'[h] = bound'[h].profile \/ h \in patched' \cup beside'
        BY <2>1 DEF BindingOK, TouchFrame, TouchBinding
    <2>4. CASE bound'[h].state = "PENDING" /\ bound'[h].by = a
        BY <1>1, <2>2, <2>3, <2>4 DEF BindingOK, TouchHolds
    <2>5. CASE bound'[h].state = "PENDING" /\ bound'[h].by # a
        <3>1. bound'[h] = bound[h]
            BY <2>5 DEF TouchFrame, TouchBinding
        <3>2. bound[h].by \in Applications /\ application'[bound[h].by] = application[bound[h].by]
            BY <1>1, <2>1, <2>5, <3>1 DEF BindingOK
        <3> QED BY <2>1, <2>2, <2>3, <2>5, <3>1, <3>2 DEF BindingOK
    <2>6. CASE bound'[h].state # "PENDING"
        BY <2>2, <2>3, <2>6 DEF BindingOK
    <2> QED BY <2>4, <2>5, <2>6
<1>4. ASSUME NEW b \in Applications, b # a PROVE ApplicationOK(b)'
    <2>1. ApplicationOK(b) /\ application'[b] = application[b]
        BY <1>1, <1>4 DEF ModelsInv
    <2>2. application[b].at \in BusyPoints => ~WorksAlone(a)
        BY <1>4 DEF WorksAlone, Busy, BusyPoints, WorkPoints
    <2>3. HoldsOK(b)'
        <3>1. SUFFICES ASSUME NEW h \in HeldIn(application[b])
                       PROVE  bound'[h].state # "SUCCEEDED" \/ h \in beside'
            BY <2>1 DEF HoldsOK
        <3>2. h \in Hosts /\ application[b].at \in BusyPoints
            BY DEF HeldIn, BusyPoints
        <3>3. bound[h].state # "SUCCEEDED" \/ h \in beside
            BY <2>1 DEF ApplicationOK, HoldsOK
        <3>4. CASE h = t
            BY <2>2, <3>2, <3>4 DEF TouchBinding
        <3>5. CASE h # t
            BY <3>2, <3>3, <3>5 DEF TouchFrame
        <3> QED BY <3>4, <3>5
    <2>4. ResultOK(b)'
        <3>1. SUFFICES ASSUME application[b].at = "record", application[b].result = "SUCCEEDED"
                       PROVE  \/ configured'[application[b].next] = application[b].profile
                              \/ application[b].next \in patched' \cup beside'
            BY <2>1 DEF ResultOK
        <3>2. ~WorksAlone(a) /\ Busy(b)
            BY <2>2, <3>1 DEF BusyPoints, WorkPoints, Busy
        <3>3. application[b].next \in Hosts
            BY <3>2, TargetFacts
        <3>4. \/ configured[application[b].next] = application[b].profile
              \/ application[b].next \in patched \cup beside
            BY <2>1, <3>1 DEF ApplicationOK, ResultOK
        <3>5. CASE application[b].next = t
            BY <3>2, <3>4, <3>5 DEF TouchBinding
        <3>6. CASE application[b].next # t
            BY <3>3, <3>4, <3>6 DEF TouchFrame
        <3> QED BY <3>5, <3>6
    <2> QED BY <2>1, <2>3, <2>4 DEF ApplicationOK
<1>5. ApplicationOK(a)'
    BY <1>1 DEF ApplicationOK, HoldsOK, ResultOK, TouchHolds
<1> QED BY <1>2, <1>3, <1>4, <1>5 DEF ModelsInv

\* What a request to the connection, a profile or the default leaves alone.
LEMMA AdminFrame ==
    ASSUME ModelsInv, UNCHANGED hostVars, ModelTypes', ConnectionOK',
           \A h \in Hosts : bound[h].state # "none" => bound[h].profile \in profiles'
    PROVE  ModelsInv'
<1>1. ASSUME NEW h \in Hosts PROVE BindingOK(h)'
    BY DEF ModelsInv, BindingOK, hostVars
<1>2. ASSUME NEW a \in Applications PROVE ApplicationOK(a)'
    BY DEF ModelsInv, ApplicationOK, HoldsOK, ResultOK, hostVars
<1> QED BY <1>1, <1>2 DEF ModelsInv

\* The requests to the connection, a profile and the default.
LEMMA AdminKeeps == ModelsInv /\ AdminStep => ModelsInv'
<1> SUFFICES ASSUME ModelsInv, AdminStep PROVE ModelsInv'
    OBVIOUS
<1>0. /\ connection \in [row : BOOLEAN, secret : BOOLEAN]
      /\ \A h \in Hosts : bound[h].state # "none" => bound[h].profile \in profiles
    BY DEF ModelsInv, ModelTypes, BindingOK
<1>1. CASE PutSecret
    BY <1>0, <1>1, AdminFrame DEF PutSecret, ModelsInv, ModelTypes, ConnectionOK, hostVars
<1>2. CASE InsertConnection
    BY <1>0, <1>2, AdminFrame DEF InsertConnection, ModelsInv, ModelTypes, ConnectionOK, hostVars
<1>3. CASE CheckUnused
    BY <1>0, <1>3, AdminFrame DEF CheckUnused, ModelsInv, ModelTypes, ConnectionOK, hostVars
<1>4. CASE DeleteSecret
    BY <1>0, <1>4, AdminFrame DEF DeleteSecret, ModelsInv, ModelTypes, ConnectionOK, hostVars
<1>5. CASE DeleteConnection
    BY <1>0, <1>5, AdminFrame DEF DeleteConnection, ModelsInv, ModelTypes, ConnectionOK, hostVars
<1>6. ASSUME NEW p \in Profiles, BeginProfile(p) PROVE ModelsInv'
    BY <1>0, <1>6, AdminFrame DEF BeginProfile, ModelsInv, ModelTypes, ConnectionOK, hostVars
<1>7. ASSUME NEW p \in Profiles, InsertProfile(p) PROVE ModelsInv'
    BY <1>0, <1>7, AdminFrame DEF InsertProfile, ModelsInv, ModelTypes, ConnectionOK, hostVars
<1>8. ASSUME NEW p \in Profiles, DeleteProfile(p) PROVE ModelsInv'
    BY <1>0, <1>8, AdminFrame DEF DeleteProfile, ModelsInv, ModelTypes, ConnectionOK, hostVars
<1>9. ASSUME NEW p \in Profiles \cup {NoProfile}, SetDefault(p) PROVE ModelsInv'
    BY <1>0, <1>9, AdminFrame DEF SetDefault, ModelsInv, ModelTypes, ConnectionOK, hostVars
<1> QED BY <1>1, <1>2, <1>3, <1>4, <1>5, <1>6, <1>7, <1>8, <1>9 DEF AdminStep

\* What is known of an application and of what it holds.
LEMMA ApplicationFacts ==
    ASSUME ModelsInv, NEW a \in Applications
    PROVE  /\ application[a] \in ApplicationRecords /\ PlaceOK(application[a])
           /\ \A h \in Hosts : /\ bound[h] \in BindingRecords /\ configured[h] \in Nat
                               /\ bound[h].state # "none" => bound[h].profile \in profiles
           /\ \A h \in Hosts : bound[h].state = "PENDING" /\ bound[h].by = a =>
                 \/ application[a].end \in ModelEnds
                 \/ h \in HeldIn(application[a]) /\ bound[h].profile = application[a].profile
           /\ \A h \in HeldIn(application[a]) : bound[h].state # "SUCCEEDED" \/ h \in beside
    BY DEF ModelsInv, ModelTypes, BindingOK, ApplicationOK, HoldsOK

\* An application that was not started is a record like the others.
LEMMA NoApplicationFacts ==
    /\ NoApplication \in ApplicationRecords /\ NoApplication.at = "none" /\ NoApplication.end = "none"
    /\ NoApplication.result = "none"
<1>1. <<>> \in Seq(Hosts)
    OBVIOUS
<1> QED BY <1>1 DEF ApplicationRecords, NoApplication, ModelEnds, ModelOutcomes, NoProfile

\* An application that ends keeps the cause of what it leaves PENDING.
LEMMA LeavesKeeps ==
    ASSUME ModelsInv, NEW a \in Applications, Busy(a),
           NEW end \in ModelEnds \cup {"finished"}, NEW status \in {"NONE", "PENDING", "RUNNING", "TERMINAL"},
           Leaves(a, end, status), end \in ModelEnds \/ AtPoint(a, "finish"),
           UNCHANGED <<adminVars, bound, configured, patched, beside>>
    PROVE  ModelsInv'
<1> DEFINE old == application[a]
           r == [NoApplication EXCEPT !.at = "done", !.cancelling = old.cancelling,
                     !.end = IF old.end = "unrecorded" THEN "unrecorded" ELSE end, !.status = status]
<1>1. old \in ApplicationRecords /\ old.at \in BusyPoints /\ old.end \in {"none", "unrecorded"}
    BY ApplicationFacts, TargetFacts DEF PlaceOK
<1>2. /\ r \in ApplicationRecords /\ r.at = "done"
      /\ r.end = IF old.end = "unrecorded" THEN "unrecorded" ELSE end
    <2>1. r.end \in ModelEnds \cup {"none", "finished"} /\ old.cancelling \in BOOLEAN
        BY <1>1, NoApplicationFacts DEF ApplicationRecords, ModelEnds
    <2> QED BY <2>1, NoApplicationFacts DEF ApplicationRecords
<1>3. HeldIn(r) = {} /\ PlaceOK(r)
    BY <1>2 DEF HeldIn, PlaceOK, WorkPoints, BusyPoints
<1>4. HeldIn(old) # {} => end \in ModelEnds
    BY DEF HeldIn, WorkPoints, AtPoint
<1>5. r.end \in ModelEnds \/ (end = "finished" /\ old.end = "none")
    BY <1>1, <1>2 DEF ModelEnds
<1>6. application' = [application EXCEPT ![a] = r]
    BY DEF Leaves
<1> HIDE DEF r
<1>7. \A h \in HeldIn(old) : bound[h].state = "PENDING" /\ bound[h].by = a => r.end \in ModelEnds
    BY <1>4, <1>5 DEF ModelEnds
<1>8. old.end \in ModelEnds => r.end \in ModelEnds
    BY <1>1, <1>5 DEF ModelEnds
<1> QED BY <1>2, <1>3, <1>6, <1>7, <1>8, MovesKeeps

\* A worker that goes on beside no change of a binding.
LEMMA GoesOnKeeps ==
    ASSUME ModelsInv, NEW a \in Applications, Busy(a), NEW r \in ApplicationRecords,
           application' = [application EXCEPT ![a] = r],
           UNCHANGED <<adminVars, bound, configured, patched, beside>>,
           r.at \in BusyPoints, r.targets = application[a].targets, r.next = application[a].next,
           r.profile = application[a].profile, r.end = application[a].end,
           r.result = application[a].result,
           \/ r.at = application[a].at
           \/ application[a].at \in WorkPoints /\ r.at \in WorkPoints \ {"record"}
    PROVE  ModelsInv'
<1>1. PlaceOK(application[a]) /\ application[a].at \in BusyPoints
    BY ApplicationFacts, TargetFacts
<1>2. PlaceOK(r)
    BY <1>1 DEF PlaceOK
<1>3. HeldIn(r) = HeldIn(application[a])
    BY DEF HeldIn, WorkPoints
<1> QED BY <1>2, <1>3, MovesKeeps

\* CancelModelProfileApplication, also of an application that has no worker any more.
LEMMA CancelApplicationKeeps ==
    ASSUME ModelsInv, NEW a \in Applications, CutWorker(a) \/ EndCancelled(a)
    PROVE  ModelsInv'
<1>1. application[a] \in ApplicationRecords /\ PlaceOK(application[a])
    BY ApplicationFacts
<1>2. PICK r \in ApplicationRecords :
        /\ application' = [application EXCEPT ![a] = r]
        /\ r.at = application[a].at /\ r.targets = application[a].targets /\ r.next = application[a].next
        /\ r.profile = application[a].profile /\ r.end = application[a].end /\ r.result = application[a].result
    <2>1. CASE CutWorker(a)
        <3> DEFINE r == [application[a] EXCEPT !.cancelling = TRUE, !.cut = @ \/ ~AtPoint(a, "bind")]
        <3>1. r \in ApplicationRecords /\ application' = [application EXCEPT ![a] = r]
            BY <1>1, <2>1 DEF CutWorker, ApplicationRecords
        <3> QED BY <1>1, <3>1 DEF ApplicationRecords
    <2>2. CASE EndCancelled(a)
        <3> DEFINE r == [application[a] EXCEPT !.cancelling = FALSE, !.status = "TERMINAL"]
        <3>1. r \in ApplicationRecords /\ application' = [application EXCEPT ![a] = r]
            BY <1>1, <2>2 DEF EndCancelled, ApplicationRecords
        <3> QED BY <1>1, <3>1 DEF ApplicationRecords
    <2> QED BY <2>1, <2>2
<1>3. UNCHANGED <<adminVars, bound, configured, patched, beside>>
    BY DEF CutWorker, EndCancelled
<1>4. PlaceOK(r) /\ HeldIn(r) = HeldIn(application[a])
    BY <1>1, <1>2 DEF PlaceOK, HeldIn
<1> QED BY <1>2, <1>3, <1>4, MovesKeeps

\* A worker claims its row, or leaves without it.
LEMMA ClaimKeeps ==
    ASSUME ModelsInv, NEW a \in Applications, Claim(a)
    PROVE  ModelsInv'
<1>1. application[a] \in ApplicationRecords /\ application[a].at = "claim" /\ Busy(a)
    BY ApplicationFacts DEF Claim, AtPoint, Busy
<1>2. UNCHANGED <<adminVars, bound, configured, patched, beside>>
    BY DEF Claim
<1>3. CASE Leaves(a, "notClaimed", application[a].status)
    <2>1. application[a].status \in {"NONE", "PENDING", "RUNNING", "TERMINAL"}
        BY <1>1 DEF ApplicationRecords
    <2> QED BY <1>1, <1>2, <1>3, <2>1, LeavesKeeps DEF ModelEnds
<1>4. CASE application' = [application EXCEPT ![a].status = "RUNNING", ![a].at = "secret"]
    <2> DEFINE r == [application[a] EXCEPT !.status = "RUNNING", !.at = "secret"]
    <2>1. r \in ApplicationRecords /\ application' = [application EXCEPT ![a] = r]
        BY <1>1, <1>4 DEF ApplicationRecords, BusyPoints, WorkPoints
    <2>2. /\ r.at = "secret" /\ r.targets = application[a].targets /\ r.next = application[a].next
          /\ r.profile = application[a].profile /\ r.end = application[a].end /\ r.result = application[a].result
        BY <1>1 DEF ApplicationRecords
    <2> HIDE DEF r
    <2> QED BY <1>1, <1>2, <2>1, <2>2, GoesOnKeeps DEF WorkPoints, BusyPoints
<1> QED BY <1>3, <1>4 DEF Claim

\* The secret is read, or all bindings will fail; a cut worker skips the rest.
LEMMA SecretKeeps ==
    ASSUME ModelsInv, NEW a \in Applications, UseSecret(a) \/ SkipRemaining(a)
    PROVE  ModelsInv'
<1>1. /\ application[a] \in ApplicationRecords /\ application[a].at \in {"secret", "apply"} /\ Busy(a)
      /\ UNCHANGED <<adminVars, bound, configured, patched, beside>>
    BY ApplicationFacts DEF UseSecret, SkipRemaining, AtPoint, Busy
<1>2. PICK point \in {"apply", "failAll", "skip"} : Moves(a, point)
    BY DEF UseSecret, SkipRemaining
<1> DEFINE r == [application[a] EXCEPT !.at = point]
<1>3. r \in ApplicationRecords /\ application' = [application EXCEPT ![a] = r]
    BY <1>1, <1>2 DEF ApplicationRecords, BusyPoints, WorkPoints, Moves
<1>4. /\ r.at = point /\ r.targets = application[a].targets /\ r.next = application[a].next
      /\ r.profile = application[a].profile /\ r.end = application[a].end /\ r.result = application[a].result
    BY <1>1 DEF ApplicationRecords
<1> HIDE DEF r
<1> QED BY <1>1, <1>3, <1>4, GoesOnKeeps DEF WorkPoints, BusyPoints

\* A worker that has recorded all ends.
LEMMA FinishApplicationKeeps ==
    ASSUME ModelsInv, NEW a \in Applications, FinishApplication(a)
    PROVE  ModelsInv'
<1>1. /\ application[a] \in ApplicationRecords /\ AtPoint(a, "finish") /\ Busy(a)
      /\ UNCHANGED <<adminVars, bound, configured, patched, beside>>
    BY ApplicationFacts DEF FinishApplication, AtPoint, Busy
<1>2. application[a].status \in {"NONE", "PENDING", "RUNNING", "TERMINAL"}
    BY <1>1 DEF ApplicationRecords
<1> QED BY <1>1, <1>2, LeavesKeeps DEF FinishApplication

\* An upsert changes one binding, to the profile of the application, which exists.
LEMMA UpsertFacts ==
    ASSUME ModelsInv, NEW a \in Applications, NEW t \in Hosts,
           NEW state \in {"PENDING", "SUCCEEDED", "FAILED", "SKIPPED"}, Upsert(a, t, state)
    PROVE  /\ bound' \in [Hosts -> BindingRecords]
           /\ \A h \in Hosts \ {t} : bound'[h] = bound[h]
           /\ application[a].profile \notin profiles => bound' = bound
           /\ application[a].profile \in profiles =>
                 /\ bound'[t].profile = application[a].profile /\ bound'[t].state = state
                 /\ bound'[t].by = IF state = "PENDING" THEN a ELSE 0
<1>1. application[a].profile \in Profiles \cup {NoProfile} /\ bound \in [Hosts -> BindingRecords]
    BY ApplicationFacts DEF ApplicationRecords, ModelsInv, ModelTypes
<1> DEFINE upserted == [profile |-> application[a].profile, state |-> state, by |-> IF state = "PENDING" THEN a ELSE 0]
<1>2. /\ upserted \in BindingRecords /\ upserted.profile = application[a].profile /\ upserted.state = state
      /\ upserted.by = IF state = "PENDING" THEN a ELSE 0
    BY <1>1 DEF BindingRecords, ModelOutcomes
<1>3. bound' = IF application[a].profile \in profiles THEN [bound EXCEPT ![t] = upserted] ELSE bound
    BY DEF Upsert
<1> HIDE DEF upserted
<1> QED BY <1>1, <1>2, <1>3

\* The PENDING binding of a target, or the end of an application that could not write it.
LEMMA BindNextKeeps ==
    ASSUME ModelsInv, NEW a \in Applications, BindNext(a)
    PROVE  ModelsInv'
<1> DEFINE old == application[a]
           t == Target(a)
           r == [old EXCEPT !.at = IF LastTarget(a) THEN "claim" ELSE "bind",
                            !.next = IF LastTarget(a) THEN 1 ELSE old.next + 1]
<1>1. old \in ApplicationRecords /\ PlaceOK(old) /\ old.at = "bind" /\ Busy(a) /\ UNCHANGED <<adminVars, configured>>
    BY ApplicationFacts DEF BindNext, AtPoint, Busy
<1>2. /\ t = old.next /\ t \in Hosts /\ Len(old.targets) \in Hosts /\ old.next <= Len(old.targets)
      /\ (LastTarget(a) <=> old.next = Len(old.targets))
    BY <1>1, TargetFacts
<1>3. CASE Leaves(a, "notStarted", "TERMINAL") /\ UNCHANGED <<bound, patched, beside>>
    BY <1>1, <1>3, LeavesKeeps DEF ModelEnds
<1>4. CASE /\ old.profile \in profiles /\ Upsert(a, t, "PENDING") /\ patched' = patched \ {t}
           /\ beside' = (IF WorksAlone(a) THEN beside \ {t} ELSE beside \cup {t})
           /\ application' = [application EXCEPT ![a].at = IF LastTarget(a) THEN "claim" ELSE "bind",
                                                 ![a].next = IF LastTarget(a) THEN 1 ELSE @ + 1]
    <2>1. r \in ApplicationRecords /\ application' = [application EXCEPT ![a] = r]
        <3>1. application \in [Applications -> ApplicationRecords] /\ old.next + 1 \in Nat
            BY <1>1 DEF ModelsInv, ModelTypes, ApplicationRecords
        <3>2. r \in ApplicationRecords
            <4>1. CASE LastTarget(a)
                BY <1>1, <4>1 DEF ApplicationRecords, BusyPoints, WorkPoints
            <4>2. CASE ~LastTarget(a)
                BY <1>1, <3>1, <4>2 DEF ApplicationRecords, BusyPoints, WorkPoints
            <4> QED BY <4>1, <4>2
        <3>3. application' = [application EXCEPT ![a] = r]
            BY <1>4, <3>1 DEF ApplicationRecords
        <3> QED BY <3>2, <3>3
    <2>2. /\ r.at = IF LastTarget(a) THEN "claim" ELSE "bind"
          /\ r.next = IF LastTarget(a) THEN 1 ELSE old.next + 1
          /\ r.targets = old.targets /\ r.profile = old.profile /\ r.end = old.end
        BY <1>1 DEF ApplicationRecords
    <2> HIDE DEF r
    <2>3. /\ bound' \in [Hosts -> BindingRecords] /\ \A h \in Hosts \ {t} : bound'[h] = bound[h]
          /\ bound'[t].profile = old.profile /\ bound'[t].state = "PENDING" /\ bound'[t].by = a
        BY <1>2, <1>4, UpsertFacts
    <2>4. old.next \in Nat /\ Len(old.targets) \in Nat /\ 1 <= old.next /\ old.next <= Len(old.targets)
        BY <1>1, <1>2, ModelBounds DEF Hosts, PlaceOK, BusyPoints
    <2>5. PlaceOK(r)
        BY <1>1, <1>2, <2>2, <2>4 DEF PlaceOK, BusyPoints, WorkPoints
    <2>6. \A h \in Hosts : h \in HeldIn(r) <=> h = t \/ h \in HeldIn(old)
        BY <1>1, <1>2, <2>2, <2>4, ModelBounds DEF HeldIn, WorkPoints, Hosts
    <2>7. \A h \in Hosts : bound'[h].state = "PENDING" /\ bound'[h].by = a =>
             r.end \in ModelEnds \/ (h \in HeldIn(r) /\ bound'[h].profile = r.profile)
        BY <1>2, <2>2, <2>3, <2>6, ApplicationFacts
    <2>8. \A h \in Hosts \ {t} : (h \in patched' <=> h \in patched) /\ (h \in beside' <=> h \in beside)
        BY <1>4
    <2>9. \A h \in HeldIn(r) : bound'[h].state # "SUCCEEDED" \/ h \in beside'
        <3>1. SUFFICES ASSUME NEW h \in Hosts, h # t, h \in HeldIn(old)
                       PROVE  bound'[h].state # "SUCCEEDED" \/ h \in beside'
            BY <1>2, <2>3, <2>6 DEF HeldIn
        <3> QED BY <2>3, <2>8, <3>1, ApplicationFacts
    <2>10. ~WorksAlone(a) => t \in beside'
        BY <1>4
    <2>11. r.at # "record" /\ patched' \subseteq Hosts /\ beside' \subseteq Hosts /\ configured' \in [Hosts -> Nat]
        BY <1>1, <1>2, <1>4, <2>2 DEF ModelsInv, ModelTypes
    <2>12. \A h \in Hosts \ {t} : /\ bound'[h] = bound[h] /\ configured'[h] = configured[h]
                                    /\ (h \in patched' <=> h \in patched) /\ (h \in beside' <=> h \in beside)
        BY <1>1, <2>3, <2>8
    <2>13. TouchFrame(a, r, t)
        BY <1>1, <2>1, <2>3, <2>11, <2>12 DEF TouchFrame
    <2>14. TouchBinding(a, t)
        BY <1>4, <2>3, <2>10 DEF TouchBinding
    <2>15. TouchHolds(a, r)
        BY <2>7, <2>9, <2>11 DEF TouchHolds
    <2> QED BY <1>2, <2>1, <2>5, <2>13, <2>14, <2>15, TouchKeeps
<1> QED BY <1>1, <1>3, <1>4 DEF BindNext

\* The instance is set, or left, or set by half; what was its outcome is to be recorded.
LEMMA SaveKeeps ==
    ASSUME ModelsInv, NEW a \in Applications, Save(a)
    PROVE  ModelsInv'
<1> DEFINE old == application[a]
           t == Target(a)
<1>1. old \in ApplicationRecords /\ PlaceOK(old) /\ old.at = "apply" /\ Busy(a) /\ UNCHANGED <<adminVars, bound>>
    BY ApplicationFacts DEF Save, AtPoint, Busy
<1>2. t = old.next /\ t \in Hosts
    BY <1>1, TargetFacts
<1>3. beside' = (IF WorksAlone(a) THEN beside ELSE beside \cup {t})
    BY DEF Save, Beside
<1>4. PICK result \in {"SUCCEEDED", "FAILED", "SKIPPED"} :
        /\ application' = [application EXCEPT ![a].at = "record", ![a].result = result]
        /\ result = "SUCCEEDED" => configured' = [configured EXCEPT ![t] = old.profile] /\ patched' = patched \ {t}
        /\ result # "SUCCEEDED" => patched' = patched
        /\ \E made \in {configured[t], PartlySet, old.profile} : configured' = [configured EXCEPT ![t] = made]
    <2>1. configured = [configured EXCEPT ![t] = configured[t]]
        BY <1>2 DEF ModelsInv, ModelTypes
    <2> QED BY <2>1 DEF Save
<1> DEFINE r == [old EXCEPT !.at = "record", !.result = result]
<1>5. r \in ApplicationRecords /\ application' = [application EXCEPT ![a] = r]
    BY <1>1, <1>4 DEF ApplicationRecords, BusyPoints, WorkPoints, ModelOutcomes
<1>6. /\ r.at = "record" /\ r.result = result /\ r.next = old.next
      /\ r.targets = old.targets /\ r.profile = old.profile /\ r.end = old.end
    BY <1>1 DEF ApplicationRecords
<1> HIDE DEF r
<1>7. PlaceOK(r) /\ HeldIn(r) = HeldIn(old)
    BY <1>1, <1>6 DEF PlaceOK, HeldIn, BusyPoints, WorkPoints
<1>8. /\ configured' \in [Hosts -> Nat] /\ \A h \in Hosts \ {t} : configured'[h] = configured[h]
      /\ result = "SUCCEEDED" => configured'[t] = old.profile
    <2>1. PartlySet \in Nat /\ old.profile \in Nat /\ configured \in [Hosts -> Nat]
        BY <1>1, ModelBounds DEF PartlySet, ApplicationRecords, Profiles, NoProfile, ModelsInv, ModelTypes
    <2> QED BY <1>2, <1>4, <2>1
<1>9. t \in HeldIn(old)
    <2>1. Len(old.targets) \in Hosts /\ old.next <= Len(old.targets)
        BY <1>1, TargetFacts
    <2> QED BY <1>1, <1>2, <2>1, ModelBounds DEF HeldIn, WorkPoints, Hosts
<1>10. /\ patched' \subseteq Hosts /\ beside' \subseteq Hosts
       /\ \A h \in Hosts \ {t} : (h \in patched' <=> h \in patched) /\ (h \in beside' <=> h \in beside)
       /\ beside \subseteq beside'
    BY <1>2, <1>3, <1>4 DEF ModelsInv, ModelTypes
<1>11. /\ bound' = bound /\ bound \in [Hosts -> BindingRecords]
       /\ bound[t].state # "SUCCEEDED" \/ t \in beside
       /\ bound[t].state # "none" => bound[t].profile \in profiles
       /\ \A h \in HeldIn(r) : bound'[h].state # "SUCCEEDED" \/ h \in beside'
       /\ \A h \in Hosts : bound'[h].state = "PENDING" /\ bound'[h].by = a =>
             r.end \in ModelEnds \/ (h \in HeldIn(r) /\ bound'[h].profile = r.profile)
    BY <1>1, <1>2, <1>6, <1>7, <1>9, <1>10, ApplicationFacts DEF ModelsInv, ModelTypes
<1>12. ~WorksAlone(a) => t \in beside'
    BY <1>3
<1>13. bound'[t].state = "SUCCEEDED" => t \in beside'
    BY <1>10, <1>11
<1>14. r.result = "SUCCEEDED" => configured'[r.next] = r.profile
    BY <1>2, <1>6, <1>8
<1>15. \A h \in Hosts \ {t} : /\ bound'[h] = bound[h] /\ configured'[h] = configured[h]
                                /\ (h \in patched' <=> h \in patched) /\ (h \in beside' <=> h \in beside)
    BY <1>8, <1>10, <1>11
<1>16. bound' \in [Hosts -> BindingRecords] /\ bound'[t] = bound[t]
    BY <1>11
<1>17. TouchFrame(a, r, t)
    BY <1>1, <1>5, <1>8, <1>10, <1>15, <1>16 DEF TouchFrame
<1>18. TouchBinding(a, t)
    BY <1>11, <1>12, <1>13, <1>16 DEF TouchBinding
<1>19. TouchHolds(a, r)
    BY <1>11, <1>14 DEF TouchHolds
<1> QED BY <1>2, <1>5, <1>7, <1>17, <1>18, <1>19, TouchKeeps

\* Once a row is written or given up the worker goes to the next instance.
LEMMA GoesOnFacts ==
    ASSUME ModelsInv, NEW a \in Applications, NEW r \in ApplicationRecords,
           application[a].at \in {"record", "skip", "failAll"},
           r.at = IF LastTarget(a) THEN "finish" ELSE IF application[a].at = "record" THEN "apply" ELSE application[a].at,
           r.next = IF LastTarget(a) THEN application[a].next ELSE application[a].next + 1,
           r.targets = application[a].targets, r.profile = application[a].profile,
           r.end = application[a].end \/ r.end = "unrecorded"
    PROVE  /\ PlaceOK(r) /\ r.at # "record"
           /\ \A h \in Hosts : h \in HeldIn(r) <=> h # Target(a) /\ h \in HeldIn(application[a])
<1> DEFINE old == application[a]
<1>1. Busy(a) /\ old.at \in WorkPoints /\ old \in ApplicationRecords /\ PlaceOK(old)
    BY ApplicationFacts DEF Busy, WorkPoints
<1>2. /\ Target(a) = old.next /\ Target(a) \in Hosts /\ Len(old.targets) \in Hosts /\ old.next <= Len(old.targets)
      /\ (LastTarget(a) <=> old.next = Len(old.targets))
    BY <1>1, TargetFacts
<1>3. old.next \in Nat /\ Len(old.targets) \in Nat /\ 1 <= old.next
    BY <1>2, ModelBounds DEF Hosts
<1>4. PlaceOK(r) /\ r.at # "record"
    BY <1>1, <1>2, <1>3 DEF PlaceOK, BusyPoints, WorkPoints
<1>5. \A h \in Hosts : h \in HeldIn(old) <=> old.next <= h /\ h <= Len(old.targets)
    BY <1>1 DEF HeldIn, WorkPoints
<1>6. \A h \in Hosts : h \in Nat
    BY ModelBounds DEF Hosts
<1>7. CASE LastTarget(a)
    <2>1. \A h \in Hosts : h \notin HeldIn(r)
        BY <1>7 DEF HeldIn, WorkPoints
    <2> QED BY <1>2, <1>3, <1>4, <1>5, <1>6, <1>7, <2>1
<1>8. CASE ~LastTarget(a)
    <2>1. r.at \in WorkPoints /\ r.next = old.next + 1 /\ Len(r.targets) = Len(old.targets)
        BY <1>1, <1>8 DEF WorkPoints
    <2>2. \A h \in Hosts : h \in HeldIn(r) <=> r.next <= h /\ h <= Len(r.targets)
        BY <2>1 DEF HeldIn, WorkPoints
    <2> QED BY <1>2, <1>3, <1>4, <1>5, <1>6, <2>1, <2>2
<1> QED BY <1>7, <1>8

\* The outcome of an instance is written, or it is given up and stays PENDING.
LEMMA OutcomeKeeps ==
    ASSUME ModelsInv, NEW a \in Applications, NEW state \in {"SUCCEEDED", "FAILED", "SKIPPED"},
           NEW onwards \in {"apply", "skip", "failAll"}, WriteOutcome(a, state, onwards),
           application[a].at \in {"record", "skip", "failAll"},
           onwards = IF application[a].at = "record" THEN "apply" ELSE application[a].at,
           UNCHANGED <<adminVars, configured, patched>>,
           IF application[a].at = "record"
           THEN Beside(a, Target(a)) /\ state = application[a].result
           ELSE UNCHANGED beside /\ state # "SUCCEEDED"
    PROVE  ModelsInv'
<1> DEFINE old == application[a]
           t == Target(a)
<1>1. old \in ApplicationRecords /\ PlaceOK(old) /\ Busy(a)
    BY ApplicationFacts DEF Busy
<1>2. t = old.next /\ t \in Hosts
    BY <1>1, TargetFacts
<1>3. beside' \in {beside, beside \cup {t}} /\ (old.at = "record" /\ ~WorksAlone(a) => t \in beside')
    BY DEF Beside
<1>4. PICK lost \in BOOLEAN :
        /\ application' = [application EXCEPT ![a].at = IF LastTarget(a) THEN "finish" ELSE onwards,
                              ![a].next = IF LastTarget(a) THEN @ ELSE @ + 1,
                              ![a].end = IF lost THEN "unrecorded" ELSE @]
        /\ \/ Upsert(a, t, state) /\ (lost <=> old.profile \notin profiles)
           \/ lost /\ bound' = bound
    BY DEF WriteOutcome
<1> DEFINE r == [old EXCEPT !.at = IF LastTarget(a) THEN "finish" ELSE onwards,
                            !.next = IF LastTarget(a) THEN old.next ELSE old.next + 1,
                            !.end = IF lost THEN "unrecorded" ELSE old.end]
<1>5. r \in ApplicationRecords /\ application' = [application EXCEPT ![a] = r]
    <2>1. application \in [Applications -> ApplicationRecords] /\ old.next \in Nat /\ old.next + 1 \in Nat
        BY <1>1 DEF ModelsInv, ModelTypes, ApplicationRecords
    <2>2. /\ (IF LastTarget(a) THEN "finish" ELSE onwards) \in BusyPoints \cup {"none", "done"}
          /\ (IF LastTarget(a) THEN old.next ELSE old.next + 1) \in Nat
          /\ (IF lost THEN "unrecorded" ELSE old.end) \in ModelEnds \cup {"none", "finished"}
        BY <1>1, <2>1 DEF ApplicationRecords, BusyPoints, WorkPoints, ModelEnds
    <2>3. r \in ApplicationRecords
        BY <1>1, <2>2 DEF ApplicationRecords
    <2>4. application' = [application EXCEPT ![a] = r]
        <3>1. CASE lost
            BY <1>4, <2>1, <3>1 DEF ApplicationRecords
        <3>2. CASE ~lost
            BY <1>4, <2>1, <3>2 DEF ApplicationRecords
        <3> QED BY <3>1, <3>2
    <2> QED BY <2>3, <2>4
<1>6. /\ r.at = IF LastTarget(a) THEN "finish" ELSE onwards
      /\ r.next = IF LastTarget(a) THEN old.next ELSE old.next + 1
      /\ r.targets = old.targets /\ r.profile = old.profile /\ r.end = IF lost THEN "unrecorded" ELSE old.end
    BY <1>1 DEF ApplicationRecords
<1> HIDE DEF r
<1>7. PlaceOK(r) /\ r.at # "record" /\ \A h \in Hosts : h \in HeldIn(r) <=> h # t /\ h \in HeldIn(old)
    BY <1>1, <1>5, <1>6, GoesOnFacts
<1>8. /\ beside' \subseteq Hosts /\ patched' \subseteq Hosts /\ configured' \in [Hosts -> Nat] /\ beside \subseteq beside'
      /\ \A h \in Hosts \ {t} : h \in beside' <=> h \in beside
    BY <1>1, <1>2, <1>3 DEF ModelsInv, ModelTypes
<1>9. /\ bound' \in [Hosts -> BindingRecords] /\ \A h \in Hosts \ {t} : bound'[h] = bound[h]
      /\ \/ bound' = bound /\ lost
         \/ /\ bound'[t].state = state /\ bound'[t].profile = old.profile /\ old.profile \in profiles
    <2>1. bound \in [Hosts -> BindingRecords]
        BY DEF ModelsInv, ModelTypes
    <2>2. CASE lost /\ bound' = bound
        BY <2>1, <2>2
    <2>3. CASE Upsert(a, t, state) /\ (lost <=> old.profile \notin profiles)
        BY <1>2, <2>1, <2>3, UpsertFacts
    <2> QED BY <1>4, <2>2, <2>3
<1>10. \A h \in HeldIn(old) : h \in Hosts /\ (bound[h].state # "SUCCEEDED" \/ h \in beside)
    BY ApplicationFacts DEF HeldIn
<1>11. \A h \in HeldIn(r) : bound'[h].state # "SUCCEEDED" \/ h \in beside'
    <2>1. \A h \in HeldIn(r) : h \in Hosts
        BY DEF HeldIn
    <2> QED BY <1>7, <1>8, <1>9, <1>10, <2>1
<1>12. /\ \A h \in Hosts : bound[h].state # "none" => bound[h].profile \in profiles
       /\ bound[t].state = "SUCCEEDED" => configured[t] = bound[t].profile \/ t \in patched \cup beside
       /\ state = "SUCCEEDED" => configured[t] = old.profile \/ t \in patched \cup beside
    BY <1>1, <1>2 DEF ModelsInv, BindingOK, ApplicationOK, ResultOK
<1>13. /\ bound'[t].state # "none" => bound'[t].profile \in profiles
       /\ bound'[t].state = "SUCCEEDED" => configured'[t] = bound'[t].profile \/ t \in patched' \cup beside'
       /\ bound'[t].state = "PENDING" => bound'[t] = bound[t]
    BY <1>1, <1>2, <1>8, <1>9, <1>12
<1>14. ASSUME NEW h \in Hosts, bound'[h].state = "PENDING", bound'[h].by = a
       PROVE  r.end \in ModelEnds \/ (h \in HeldIn(r) /\ bound'[h].profile = r.profile)
    <2>1. CASE lost
        BY <1>6, <2>1 DEF ModelEnds
    <2>2. CASE ~lost
        <3>1. h # t
            BY <1>9, <1>14, <2>2
        <3> QED BY <1>6, <1>7, <1>9, <1>14, <2>2, <3>1, ApplicationFacts
    <2> QED BY <2>1, <2>2
<1>15. ~WorksAlone(a) => t \in beside' \/ bound'[t].state # "SUCCEEDED"
    <2>1. CASE old.at = "record"
        BY <1>3, <2>1
    <2>2. CASE old.at # "record"
        <3>1. t \in HeldIn(old)
            <4>1. Len(old.targets) \in Hosts /\ old.next <= Len(old.targets)
                BY <1>1, TargetFacts
            <4> QED BY <1>1, <1>2, <2>2, <4>1, ModelBounds DEF HeldIn, WorkPoints, Hosts
        <3> QED BY <1>8, <1>9, <1>10, <2>2, <3>1
    <2> QED BY <2>1, <2>2
<1>16. \A h \in Hosts \ {t} : /\ bound'[h] = bound[h] /\ configured'[h] = configured[h]
                                /\ (h \in patched' <=> h \in patched) /\ (h \in beside' <=> h \in beside)
    BY <1>1, <1>8, <1>9
<1>17. TouchFrame(a, r, t)
    BY <1>1, <1>5, <1>8, <1>9, <1>16 DEF TouchFrame
<1>18. TouchBinding(a, t)
    <2>1. (t \in beside => t \in beside') /\ configured' = configured /\ patched' = patched
        BY <1>3
    <2> QED BY <1>13, <1>15, <2>1 DEF TouchBinding
<1>19. TouchHolds(a, r)
    BY <1>7, <1>11, <1>14 DEF TouchHolds
<1> QED BY <1>2, <1>5, <1>7, <1>17, <1>18, <1>19, TouchKeeps

\* ... by the worker that has changed the instance,
LEMMA RecordKeeps ==
    ASSUME ModelsInv, NEW a \in Applications, Record(a)
    PROVE  ModelsInv'
<1>1. application[a].at = "record" /\ application[a].result \in {"SUCCEEDED", "FAILED", "SKIPPED"}
    BY ApplicationFacts DEF Record, AtPoint, PlaceOK, BusyPoints, WorkPoints, ApplicationRecords, ModelOutcomes
<1> QED BY <1>1, OutcomeKeeps DEF Record

\* ... or by the one that has not reached it.
LEMMA WriteRemainingKeeps ==
    ASSUME ModelsInv, NEW a \in Applications, WriteRemaining(a)
    PROVE  ModelsInv'
<1>1. PICK state \in {"SKIPPED", "FAILED"} : WriteOutcome(a, state, application[a].at)
    BY DEF WriteRemaining
<1> QED BY <1>1, OutcomeKeeps DEF WriteRemaining

\* The row of an application, which has bound nothing so far.
LEMMA StartApplicationKeeps ==
    ASSUME ModelsInv, NEW a \in Applications, NEW p \in Profiles, NEW targets \in TargetLists,
           StartApplication(a, p, targets)
    PROVE  ModelsInv'
<1> DEFINE r == [NoApplication EXCEPT !.status = "PENDING", !.profile = p, !.targets = targets, !.at = "bind"]
<1>1. targets \in Seq(Hosts) /\ Len(targets) \in Hosts
    BY TargetListFacts
<1>2. /\ r \in ApplicationRecords /\ r.at = "bind" /\ r.next = 1 /\ r.end = "none" /\ r.targets = targets
      /\ application[a] = NoApplication /\ application' = [application EXCEPT ![a] = r]
      /\ UNCHANGED <<adminVars, bound, configured, patched, beside>>
    BY <1>1 DEF StartApplication, NoApplication, ApplicationRecords, ModelEnds, ModelOutcomes, BusyPoints
<1> HIDE DEF r
<1>3. NoApplication.end = "none" /\ NoApplication.at = "none"
    BY DEF NoApplication
<1>4. HeldIn(r) = {} /\ HeldIn(NoApplication) = {}
    BY <1>2, <1>3, ModelBounds DEF HeldIn, Hosts, WorkPoints
<1>5. PlaceOK(r)
    BY <1>1, <1>2, ModelBounds DEF PlaceOK, Hosts
<1> QED BY <1>2, <1>3, <1>4, <1>5, MovesKeeps DEF ModelEnds

\* The page of an instance sets another model, and leaves its binding alone.
LEMMA PatchHostKeeps ==
    ASSUME ModelsInv, NEW t \in Hosts, PatchHost(t)
    PROVE  ModelsInv'
<1>1. /\ configured' = [configured EXCEPT ![t] = OwnModel] /\ patched' = patched \cup {t}
      /\ UNCHANGED <<adminVars, bound, application, beside>> /\ OwnModel \in Nat
    BY ModelBounds DEF PatchHost, OwnModel
<1>2. ModelTypes' /\ ConnectionOK'
    BY <1>1 DEF ModelsInv, ModelTypes, ConnectionOK, adminVars
<1>3. \A h \in Hosts : (configured'[h] = configured[h] \/ h = t) /\ (h \in patched => h \in patched') /\ t \in patched'
    BY <1>1 DEF ModelsInv, ModelTypes
<1>4. ASSUME NEW h \in Hosts PROVE BindingOK(h)'
    BY <1>1, <1>3 DEF ModelsInv, BindingOK, adminVars
<1>5. ASSUME NEW a \in Applications PROVE ApplicationOK(a)'
    <2>1. application[a].at = "record" => application[a].next \in Hosts
        BY TargetFacts DEF Busy
    <2> QED BY <1>1, <1>3, <2>1 DEF ModelsInv, ApplicationOK, HoldsOK, ResultOK
<1> QED BY <1>2, <1>4, <1>5 DEF ModelsInv

\* The daemon stops: no worker is left, and what it held says so.
LEMMA RestartModelsKeeps ==
    ASSUME ModelsInv, RestartModels
    PROVE  ModelsInv'
<1> DEFINE left(a) == [NoApplication EXCEPT !.at = "done",
                           !.end = IF Busy(a) THEN "stopped" ELSE application[a].end, !.status = "TERMINAL"]
<1>1. /\ application' = [a \in Applications |-> IF application[a] = NoApplication THEN NoApplication ELSE left(a)]
      /\ UNCHANGED <<connection, profiles, default, bound, configured, patched, beside>>
      /\ creating' = (IF creating = "row" THEN "lost" ELSE creating)
      /\ deleting' = (IF deleting = "row" THEN "failed" ELSE IF deleting = "secret" THEN "no" ELSE deleting)
      /\ inserting' = {}
    BY DEF RestartModels
<1>2. ASSUME NEW a \in Applications
      PROVE  /\ left(a) \in ApplicationRecords /\ left(a).at = "done"
             /\ left(a).end = IF Busy(a) THEN "stopped" ELSE application[a].end
    <2>1. (IF Busy(a) THEN "stopped" ELSE application[a].end) \in ModelEnds \cup {"none", "finished"}
        BY ApplicationFacts DEF ApplicationRecords, ModelEnds
    <2> QED BY <2>1, NoApplicationFacts DEF ApplicationRecords
<1>3. /\ NoApplication \in ApplicationRecords /\ NoApplication.at = "none" /\ NoApplication.end = "none"
    BY NoApplicationFacts
<1> HIDE DEF left
<1>4. ASSUME NEW a \in Applications
      PROVE  /\ application'[a] \in ApplicationRecords /\ application'[a].at \in {"none", "done"}
             /\ application[a].end \in ModelEnds \/ HeldIn(application[a]) # {} => application'[a].end \in ModelEnds
    <2>1. HeldIn(application[a]) # {} => Busy(a)
        BY DEF HeldIn, Busy, WorkPoints
    <2> QED BY <1>1, <1>2, <1>3, <2>1 DEF ModelEnds, Busy
<1>5. ModelTypes'
    BY <1>1, <1>4 DEF ModelsInv, ModelTypes
<1>6. ConnectionOK'
    BY <1>1 DEF ModelsInv, ModelTypes, ConnectionOK
<1>7. ASSUME NEW h \in Hosts PROVE BindingOK(h)'
    <2>1. BindingOK(h)
        BY DEF ModelsInv
    <2>2. bound[h].state = "PENDING" => bound[h].by \in Applications /\ application'[bound[h].by].end \in ModelEnds
        BY <1>4, <2>1 DEF BindingOK
    <2> QED BY <1>1, <2>1, <2>2 DEF BindingOK
<1>8. ASSUME NEW a \in Applications PROVE ApplicationOK(a)'
    <2>1. application'[a].at \notin BusyPoints \cup WorkPoints
        BY <1>4 DEF BusyPoints, WorkPoints
    <2> QED BY <2>1 DEF ApplicationOK, PlaceOK, HoldsOK, ResultOK, HeldIn, BusyPoints, WorkPoints
<1> QED BY <1>5, <1>6, <1>7, <1>8 DEF ModelsInv

\* Nothing is bound and nothing applied at first.
LEMMA ModelsInitInv == ModelsInit => ModelsInv
<1> SUFFICES ASSUME ModelsInit PROVE ModelsInv
    OBVIOUS
<1>1. NoApplication \in ApplicationRecords /\ NoApplication.at = "none"
    BY DEF ApplicationRecords, NoApplication, ModelEnds, ModelOutcomes, NoProfile
<1>2. ModelTypes
    <2>1. application \in [Applications -> ApplicationRecords]
        BY <1>1 DEF ModelsInit
    <2>2. bound \in [Hosts -> BindingRecords]
        BY DEF ModelsInit, BindingRecords, ModelOutcomes
    <2> QED BY <2>1, <2>2 DEF ModelsInit, ModelTypes, NoProfile
<1>3. ConnectionOK
    BY DEF ModelsInit, ConnectionOK
<1>4. ASSUME NEW h \in Hosts PROVE BindingOK(h)
    BY DEF ModelsInit, BindingOK
<1>5. ASSUME NEW a \in Applications PROVE ApplicationOK(a)
    <2>1. application[a].at = "none"
        BY <1>1 DEF ModelsInit
    <2> QED BY <2>1 DEF ApplicationOK, PlaceOK, HoldsOK, ResultOK, HeldIn, BusyPoints, WorkPoints
<1> QED BY <1>2, <1>3, <1>4, <1>5 DEF ModelsInv

\* A step that changes nothing here.
LEMMA ModelsStutter == ModelsInv /\ UNCHANGED modelVars => ModelsInv'
BY DEF modelVars, adminVars, ModelsInv, ModelTypes, ConnectionOK, BindingOK, ApplicationOK, HoldsOK, ResultOK

\* Every step of requests, workers, pages and restarts keeps the invariant.
LEMMA ModelsStep == ModelsInv /\ [ModelsNext]_modelVars => ModelsInv'
<1> SUFFICES ASSUME ModelsInv, [ModelsNext]_modelVars PROVE ModelsInv'
    OBVIOUS
<1>1. CASE AdminStep
    BY <1>1, AdminKeeps
<1>2. CASE RestartModels
    BY <1>2, RestartModelsKeeps
<1>3. ASSUME NEW h \in Hosts, PatchHost(h) PROVE ModelsInv'
    BY <1>3, PatchHostKeeps
<1>4. ASSUME NEW a \in Applications, ApplicationStep(a) PROVE ModelsInv'
    BY <1>4, BindNextKeeps, ClaimKeeps, SecretKeeps, SaveKeeps, RecordKeeps, WriteRemainingKeeps, FinishApplicationKeeps,
       CancelApplicationKeeps DEF ApplicationStep
<1>5. ASSUME NEW a \in Applications, NEW p \in Profiles, NEW targets \in TargetLists,
             StartApplication(a, p, targets)
      PROVE  ModelsInv'
    BY <1>5, StartApplicationKeeps
<1>6. CASE UNCHANGED modelVars
    BY <1>6, ModelsStutter
<1> QED BY <1>1, <1>2, <1>3, <1>4, <1>5, <1>6 DEF ModelsNext

\* With no worker busy nothing is held, so the invariant says what the bindings say.
LEMMA ModelsInvImplies == ModelsInv => ModelsAgree
<1> SUFFICES ASSUME ModelsInv, \A a \in Applications : ~Busy(a)
             PROVE  /\ \A h \in Hosts :
                          /\ bound[h].state = "PENDING" => application[bound[h].by].end \in ModelEnds
                          /\ bound[h].state = "SUCCEEDED" =>
                                configured[h] = bound[h].profile \/ h \in patched \cup beside
                    /\ profiles # {} => connection.row /\ (connection.secret \/ deleting # "no")
                    /\ connection.secret => connection.row \/ creating # "no"
    BY DEF ModelsAgree, ModelEnds
<1>1. \A a \in Applications : HeldIn(application[a]) = {}
    BY DEF HeldIn, Busy, WorkPoints
<1>2. \A h \in Hosts : BindingOK(h)
    BY DEF ModelsInv
<1>3. ConnectionOK
    BY DEF ModelsInv
<1> QED BY <1>1, <1>2, <1>3 DEF BindingOK, ConnectionOK

\* Once no worker is busy, a binding that is PENDING has a cause that nothing will
\* undo, one that SUCCEEDED names the profile its instance runs with (but for its own
\* page, or a cancelled worker beside the next), and a profile has its connection with
\* its secret, for any number of instances, profiles, applications and failing calls.
THEOREM ModelsAlwaysAgree == ModelsSpec => []ModelsAgree
BY ModelsInitInv, ModelsStep, ModelsInvImplies, PTL DEF ModelsSpec

-----------------------------------------------------------------------------
(***************************************************************************)
(* The credential file and its three writers.                              *)
(***************************************************************************)
\* The lines of the file, and what a writer keeps of them.
EnvLines == [key : EveryKey \cup {"comment"}, value : Nat]
CommitSteps == {"idle", "look", "lookAgain", "rename", "confirm", "account"}
EnvWriters == [at : CommitSteps, save : 0..MaxSaves, saw : Seq(EnvLines), copy : Seq(EnvLines),
               undo : BOOLEAN]

EnvType ==
    /\ env \in Seq(EnvLines) /\ account \in 0..MaxSaves
    /\ writer \in [Writers -> EnvWriters] /\ told \in [Writers -> 0..Unknown]
    /\ saves \in 0..MaxSaves /\ overtaken \subseteq Writers

\* What the lines say of one key, and of all the keys of a writer.
Values(lines, key) == {lines[i].value : i \in Assignments(lines, key)}
Says(lines, w, save) == \A key \in Keys(w) : Values(lines, key) = {save} \ {None}
\* The keys of the other writers are as they were.
SparesOthers(old, new, w) == \A v \in Writers \ {w} : \A key \in Keys(v) : Values(new, key) = Values(old, key)

\* The copy is the file the writer saw with its own keys set.
CopyTrue(w) ==
    writer[w].at \in {"look", "lookAgain", "rename"} =>
        Says(writer[w].copy, w, writer[w].save) /\ SparesOthers(writer[w].saw, writer[w].copy, w)
\* Until somebody overtakes it, the file is the one it saw.
StillSeen(w) == writer[w].at = "rename" /\ w \notin overtaken => env = writer[w].saw
ToldTrue(w) == told[w] # Unknown => Says(env, w, told[w])

\* From its rename to the account file a channel has been told of this save.
AccountTrue ==
    /\ \/ writer["channel"].at = "account"
       \/ writer["channel"].at = "confirm" /\ ~writer["channel"].undo
       => told["channel"] \in {writer["channel"].save, Unknown}
    /\ writer["channel"].at = "idle" /\ told["channel"] \notin {None, Unknown} => account = told["channel"]

EnvInv == EnvType /\ (\A w \in Writers : CopyTrue(w) /\ StillSeen(w) /\ ToldTrue(w)) /\ AccountTrue

\* The writers' keys are their own.
LEMMA KeysApart ==
    /\ Keys("model") = {"MODEL"} /\ Keys("channel") = {"ID", "TOKEN"} /\ Keys("server") = {"SERVER"}
    /\ EveryKey = {"MODEL", "ID", "TOKEN", "SERVER"}
    /\ \A v, w \in Writers : v # w => Keys(v) \cap Keys(w) = {}
<1>1. Keys("model") = {"MODEL"}
    <2>1. Owns.model = <<"MODEL">> /\ DOMAIN <<"MODEL">> = {1} /\ <<"MODEL">>[1] = "MODEL"
        BY DEF Owns
    <2> QED BY <2>1 DEF Keys
<1>2. Keys("server") = {"SERVER"}
    <2>1. Owns.server = <<"SERVER">> /\ DOMAIN <<"SERVER">> = {1} /\ <<"SERVER">>[1] = "SERVER"
        BY DEF Owns
    <2> QED BY <2>1 DEF Keys
<1>3. Keys("channel") = {"ID", "TOKEN"}
    <2>1. Owns.channel = <<"ID", "TOKEN">> /\ DOMAIN <<"ID", "TOKEN">> = {1, 2}
          /\ <<"ID", "TOKEN">>[1] = "ID" /\ <<"ID", "TOKEN">>[2] = "TOKEN"
        BY DEF Owns
    <2> QED BY <2>1 DEF Keys
<1>4. EveryKey = {"MODEL", "ID", "TOKEN", "SERVER"}
    BY <1>1, <1>2, <1>3 DEF EveryKey, Writers
<1> QED BY <1>1, <1>2, <1>3, <1>4 DEF Writers

\* The new lines differ from the old ones in what they say of one key.
Changes(old, new, key, values) ==
    /\ new \in Seq(EnvLines) /\ Values(new, key) = values
    /\ \A other : other # key => Values(new, other) = Values(old, other)

\* Setting a key makes it the only value of this key and touches no other.
LEMMA AssignedSays ==
    ASSUME NEW lines \in Seq(EnvLines), NEW key \in EveryKey, NEW value \in Nat
    PROVE  Changes(lines, Assigned(lines, key, value), key, {value})
<1> DEFINE line == [key |-> key, value |-> value]
           new == Assigned(lines, key, value)
<1>1. line \in EnvLines /\ line.key = key /\ line.value = value
    BY DEF EnvLines
<1>2. Len(lines) \in Nat /\ DOMAIN lines = 1..Len(lines) /\ (\A i \in 1..Len(lines) : lines[i] \in EnvLines)
    BY LenProperties, ElementOfSeq
<1> HIDE DEF line
<1>3. CASE Assignments(lines, key) = {}
    <2>1. new = Append(lines, line)
        BY <1>3 DEF Assigned, line
    <2> HIDE DEF new
    <2>2. /\ new \in Seq(EnvLines) /\ DOMAIN new = 1..(Len(lines) + 1)
          /\ new[Len(lines) + 1] = line /\ \A i \in 1..Len(lines) : new[i] = lines[i]
        BY <1>1, <1>2, <2>1
    <2>3. Assignments(new, key) = {Len(lines) + 1}
        BY <1>1, <1>2, <1>3, <2>2 DEF Assignments
    <2>4. Values(new, key) = {value}
        BY <1>1, <2>2, <2>3 DEF Values
    <2>5. ASSUME NEW other, other # key
          PROVE  Values(new, other) = Values(lines, other)
        <3>1. Assignments(new, other) = Assignments(lines, other)
            BY <1>1, <1>2, <2>2, <2>5 DEF Assignments
        <3>2. \A i \in Assignments(lines, other) : new[i] = lines[i]
            BY <1>2, <2>2 DEF Assignments
        <3> QED BY <3>1, <3>2 DEF Values
    <2> QED BY <2>2, <2>4, <2>5 DEF new, Changes
<1>4. CASE Assignments(lines, key) # {}
    <2>1. new = [i \in DOMAIN lines |-> IF lines[i].key = key THEN [lines[i] EXCEPT !.value = value] ELSE lines[i]]
        BY <1>4 DEF Assigned
    <2> HIDE DEF new
    <2>2. DOMAIN new = 1..Len(lines) /\ \A i \in 1..Len(lines) :
             new[i] \in EnvLines /\ new[i].key = lines[i].key
             /\ new[i].value = IF lines[i].key = key THEN value ELSE lines[i].value
        BY <1>2, <2>1 DEF EnvLines
    <2>3. new \in Seq(EnvLines)
        BY <1>2, <2>1, <2>2
    <2>4. \A other : Assignments(new, other) = Assignments(lines, other)
        BY <1>2, <2>2 DEF Assignments
    <2>5. \A i \in Assignments(lines, key) : new[i].value = value
        BY <1>2, <2>2 DEF Assignments
    <2>6. Values(new, key) = {value}
        BY <1>4, <2>4, <2>5 DEF Values
    <2>7. \A other : other # key => \A i \in Assignments(lines, other) : new[i].value = lines[i].value
        BY <1>2, <2>2 DEF Assignments
    <2>8. \A other : other # key => Values(new, other) = Values(lines, other)
        BY <2>4, <2>7 DEF Values
    <2> QED BY <2>3, <2>6, <2>8 DEF new, Changes
<1> QED BY <1>3, <1>4

\* A line removed: what the others say stays.
LEMMA RemovedLine ==
    ASSUME NEW lines \in Seq(EnvLines), NEW at \in DOMAIN lines
    PROVE  /\ RemoveAt(lines, at) \in Seq(EnvLines)
           /\ DOMAIN RemoveAt(lines, at) = 1..(Len(lines) - 1)
           /\ \A i \in 1..(Len(lines) - 1) : RemoveAt(lines, at)[i] = lines[IF i < at THEN i ELSE i + 1]
<1>1. Len(lines) \in Nat /\ DOMAIN lines = 1..Len(lines) /\ (\A i \in 1..Len(lines) : lines[i] \in EnvLines)
    BY LenProperties, ElementOfSeq
<1> DEFINE before == SubSeq(lines, 1, at - 1)
           after == SubSeq(lines, at + 1, Len(lines))
<1>2. at \in 1..Len(lines) /\ at - 1 \in Int /\ at + 1 \in Int
    BY <1>1
<1>3. /\ before \in Seq(EnvLines) /\ Len(before) = at - 1
      /\ \A i \in 1..(at - 1) : before[i] = lines[i]
    <2>1. \A i \in 1..(at - 1) : lines[i] \in EnvLines
        BY <1>1, <1>2
    <2>2. /\ before \in Seq(EnvLines) /\ Len(before) = IF 1 <= at - 1 THEN (at - 1) - 1 + 1 ELSE 0
          /\ \A i \in 1..((at - 1) - 1 + 1) : before[i] = lines[1 + i - 1]
        BY <1>2, <2>1, SubSeqProperties
    <2> HIDE DEF before
    <2>3. at \in Int /\ 1 <= at
        BY <1>1, <1>2
    <2>4. Len(before) = at - 1
        <3>1. Len(before) = IF 1 <= at - 1 THEN (at - 1) - 1 + 1 ELSE 0
            BY <2>2
        <3> QED BY <2>3, <3>1
    <2>5. \A i \in 1..(at - 1) : i \in 1..((at - 1) - 1 + 1) /\ 1 + i - 1 = i
        BY <2>3
    <2> QED BY <2>2, <2>4, <2>5
<1>4. /\ after \in Seq(EnvLines) /\ Len(after) = Len(lines) - at
      /\ \A i \in 1..(Len(lines) - at) : after[i] = lines[at + i]
    <2>1. \A i \in (at + 1)..Len(lines) : lines[i] \in EnvLines
        BY <1>1, <1>2
    <2>2. /\ after \in Seq(EnvLines)
          /\ Len(after) = IF at + 1 <= Len(lines) THEN Len(lines) - (at + 1) + 1 ELSE 0
          /\ \A i \in 1..(Len(lines) - (at + 1) + 1) : after[i] = lines[(at + 1) + i - 1]
        BY <1>1, <1>2, <2>1, SubSeqProperties
    <2> HIDE DEF after
    <2>3. Len(after) = Len(lines) - at
        <3>1. Len(after) = IF at + 1 <= Len(lines) THEN Len(lines) - (at + 1) + 1 ELSE 0
            BY <2>2
        <3>2. at \in Int /\ Len(lines) \in Int /\ at <= Len(lines)
            BY <1>1, <1>2
        <3> QED BY <3>1, <3>2
    <2>4. \A i \in 1..(Len(lines) - at) : i \in 1..(Len(lines) - (at + 1) + 1) /\ (at + 1) + i - 1 = at + i
        <3>1. at \in Int /\ Len(lines) \in Int
            BY <1>1, <1>2
        <3> QED BY <3>1
    <2> QED BY <2>2, <2>3, <2>4
<1>5. RemoveAt(lines, at) = before \o after
    BY DEF RemoveAt
<1> HIDE DEF before, after
<1>6. /\ before \o after \in Seq(EnvLines) /\ Len(before \o after) = Len(lines) - 1
      /\ \A i \in 1..(Len(lines) - 1) : (before \o after)[i] = IF i <= at - 1 THEN before[i] ELSE after[i - (at - 1)]
    <2>1. /\ before \o after \in Seq(EnvLines) /\ Len(before \o after) = Len(before) + Len(after)
          /\ \A i \in 1..(Len(before) + Len(after)) :
                (before \o after)[i] = IF i <= Len(before) THEN before[i] ELSE after[i - Len(before)]
        BY <1>3, <1>4, ConcatProperties
    <2>2. Len(before) + Len(after) = Len(lines) - 1
        BY <1>1, <1>2, <1>3, <1>4
    <2> QED BY <1>3, <2>1, <2>2
<1>7. \A i \in 1..(Len(lines) - 1) : (before \o after)[i] = lines[IF i < at THEN i ELSE i + 1]
    <2> SUFFICES ASSUME NEW i \in 1..(Len(lines) - 1)
                 PROVE  (before \o after)[i] = lines[IF i < at THEN i ELSE i + 1]
        OBVIOUS
    <2>1. i \in Int /\ at \in Int /\ Len(lines) \in Int /\ 1 <= i /\ i <= Len(lines) - 1
        BY <1>1, <1>2
    <2>2. (before \o after)[i] = IF i <= at - 1 THEN before[i] ELSE after[i - (at - 1)]
        BY <1>6
    <2>3. CASE i < at
        <3>1. i \in 1..(at - 1) /\ i <= at - 1
            BY <2>1, <2>3
        <3>2. before[i] = lines[i]
            BY <1>3, <3>1
        <3> QED BY <2>2, <2>3, <3>1, <3>2
    <2>4. CASE ~(i < at)
        <3>1. i - (at - 1) \in 1..(Len(lines) - at) /\ at + (i - (at - 1)) = i + 1 /\ ~(i <= at - 1)
            BY <2>1, <2>4
        <3>2. after[i - (at - 1)] = lines[at + (i - (at - 1))]
            BY <1>4, <3>1
        <3> QED BY <2>2, <2>4, <3>1, <3>2
    <2> QED BY <2>3, <2>4
<1>8. DOMAIN (before \o after) = 1..(Len(lines) - 1)
    BY <1>6, LenProperties
<1> QED BY <1>5, <1>6, <1>7, <1>8

\* The values of the keys that the removed line is not of.
LEMMA RemovedSays ==
    ASSUME NEW lines \in Seq(EnvLines), NEW at \in DOMAIN lines
    PROVE  \A other : other # lines[at].key => Values(RemoveAt(lines, at), other) = Values(lines, other)
<1> SUFFICES ASSUME NEW other, other # lines[at].key
             PROVE  Values(RemoveAt(lines, at), other) = Values(lines, other)
    OBVIOUS
<1> DEFINE new == RemoveAt(lines, at)
<1>1. Len(lines) \in Nat /\ DOMAIN lines = 1..Len(lines) /\ at \in 1..Len(lines)
    BY LenProperties
<1>2. /\ DOMAIN new = 1..(Len(lines) - 1)
      /\ \A i \in 1..(Len(lines) - 1) : new[i] = lines[IF i < at THEN i ELSE i + 1]
    BY RemovedLine
<1> HIDE DEF new
<1>3. ASSUME NEW i \in Assignments(new, other)
      PROVE  \E j \in Assignments(lines, other) : lines[j] = new[i]
    <2>1. i \in 1..(Len(lines) - 1) /\ new[i].key = other
        BY <1>2, <1>3 DEF Assignments
    <2> DEFINE j == IF i < at THEN i ELSE i + 1
    <2>2. j \in 1..Len(lines) /\ lines[j] = new[i]
        BY <1>1, <1>2, <2>1
    <2> HIDE DEF j
    <2> QED BY <1>1, <2>1, <2>2 DEF Assignments
<1>4. ASSUME NEW j \in Assignments(lines, other)
      PROVE  \E i \in Assignments(new, other) : new[i] = lines[j]
    <2>1. j \in 1..Len(lines) /\ lines[j].key = other /\ j # at
        BY <1>1, <1>4 DEF Assignments
    <2> DEFINE i == IF j < at THEN j ELSE j - 1
    <2>2. i \in 1..(Len(lines) - 1) /\ (IF i < at THEN i ELSE i + 1) = j
        BY <1>1, <2>1
    <2> HIDE DEF i
    <2>3. new[i] = lines[j]
        BY <1>2, <2>2
    <2> QED BY <1>2, <2>1, <2>2, <2>3 DEF Assignments
<1>5. Values(new, other) = Values(lines, other)
    BY <1>3, <1>4 DEF Values
<1> QED BY <1>5 DEF new

\* One line at most assigns the key.
Single(lines, key) == \A i, j \in Assignments(lines, key) : i = j

\* Deleting a key that one line at most assigns leaves no value of it, and touches no other.
LEMMA WithoutSays ==
    ASSUME NEW lines \in Seq(EnvLines), NEW key, Single(lines, key)
    PROVE  /\ Changes(lines, Without(lines, key), key, {})
           /\ \A other : Single(lines, other) => Single(Without(lines, key), other)
<1> DEFINE new == Without(lines, key)
<1>1. CASE Assignments(lines, key) = {}
    <2>1. new = lines
        BY <1>1 DEF Without
    <2>2. Values(lines, key) = {}
        BY <1>1 DEF Values
    <2> QED BY <2>1, <2>2 DEF Changes
<1>2. CASE Assignments(lines, key) # {}
    <2>1. PICK at \in Assignments(lines, key) : new = RemoveAt(lines, at)
        BY <1>2 DEF Without
    <2>2. at \in DOMAIN lines /\ lines[at].key = key
        BY DEF Assignments
    <2>3. Len(lines) \in Nat /\ DOMAIN lines = 1..Len(lines) /\ at \in 1..Len(lines)
        BY <2>2, LenProperties
    <2>4. /\ new \in Seq(EnvLines) /\ DOMAIN new = 1..(Len(lines) - 1)
          /\ \A i \in 1..(Len(lines) - 1) : new[i] = lines[IF i < at THEN i ELSE i + 1]
        BY <2>1, <2>2, RemovedLine
    <2>5. \A other : other # key => Values(new, other) = Values(lines, other)
        BY <2>1, <2>2, RemovedSays
    <2> HIDE DEF new
    <2>6. ASSUME NEW other, NEW i \in Assignments(new, other)
          PROVE  /\ (IF i < at THEN i ELSE i + 1) \in Assignments(lines, other)
                 /\ (IF i < at THEN i ELSE i + 1) # at /\ i \in Nat
        <3>1. i \in 1..(Len(lines) - 1) /\ new[i].key = other
            BY <2>4, <2>6 DEF Assignments
        <3>2. (IF i < at THEN i ELSE i + 1) \in 1..Len(lines) /\ (IF i < at THEN i ELSE i + 1) # at
            BY <2>3, <3>1
        <3> QED BY <2>3, <2>4, <3>1, <3>2 DEF Assignments
    <2>7. Assignments(new, key) = {}
        BY <2>6 DEF Single
    <2>8. Values(new, key) = {}
        BY <2>7 DEF Values
    <2>9. ASSUME NEW other, Single(lines, other), NEW i \in Assignments(new, other), NEW j \in Assignments(new, other)
          PROVE  i = j
        <3>1. (IF i < at THEN i ELSE i + 1) = (IF j < at THEN j ELSE j + 1)
            BY <2>6, <2>9 DEF Single
        <3>2. i \in Nat /\ j \in Nat
            BY <2>6
        <3> QED BY <2>3, <3>1, <3>2
    <2>10. \A other : Single(lines, other) => Single(new, other)
        BY <2>9 DEF Single
    <2> QED BY <2>4, <2>5, <2>8, <2>10 DEF new, Changes
<1> QED BY <1>1, <1>2

\* A writer's new contents say what it saves, and of the others what the file said.
LEMMA ContentsSays ==
    ASSUME NEW lines \in Seq(EnvLines), NEW w \in Writers, ~Ambiguous(lines, w), NEW value \in Nat
    PROVE  LET new == Contents(lines, w, value) IN
           new \in Seq(EnvLines) /\ Says(new, w, value) /\ SparesOthers(lines, new, w)
<1>1. \A key \in Keys(w) : key \in EveryKey /\ Single(lines, key)
    BY DEF Ambiguous, Single, EveryKey
<1>2. /\ w \in {"model", "server"} => Len(Owns[w]) = 1 /\ Keys(w) = {Owns[w][1]}
      /\ w = "channel" => Len(Owns[w]) = 2 /\ Owns[w][1] = "ID" /\ Owns[w][2] = "TOKEN" /\ Keys(w) = {"ID", "TOKEN"}
      /\ w \in {"model", "server", "channel"}
    BY KeysApart DEF Owns, Writers
<1> DEFINE new == Contents(lines, w, value)
<1>3. ASSUME value # None
      PROVE  /\ new \in Seq(EnvLines) /\ (\A key \in Keys(w) : Values(new, key) = {value})
             /\ \A other : other \notin Keys(w) => Values(new, other) = Values(lines, other)
    <2> DEFINE first == Assigned(lines, Owns[w][1], value)
    <2>1. Owns[w][1] \in Keys(w) /\ Owns[w][1] \in EveryKey
        BY <1>1, <1>2
    <2>2. Changes(lines, first, Owns[w][1], {value})
        BY <2>1, AssignedSays
    <2>3. CASE w # "channel"
        <3>1. new = first
            BY <1>2, <1>3, <2>3 DEF Contents, SetAll
        <3> HIDE DEF first, new
        <3> QED BY <1>2, <2>2, <2>3, <3>1 DEF Changes
    <2>4. CASE w = "channel"
        <3>1. new = Assigned(first, "TOKEN", value)
            BY <1>2, <1>3, <2>4 DEF Contents, SetAll
        <3> HIDE DEF first, new
        <3>2. first \in Seq(EnvLines) /\ "TOKEN" \in EveryKey
            BY <2>2, KeysApart DEF Changes
        <3>3. Changes(first, Assigned(first, "TOKEN", value), "TOKEN", {value})
            BY <3>2, AssignedSays
        <3> QED BY <1>2, <2>2, <2>4, <3>1, <3>3 DEF Changes
    <2> QED BY <2>3, <2>4
<1>4. ASSUME value = None
      PROVE  /\ new \in Seq(EnvLines) /\ (\A key \in Keys(w) : Values(new, key) = {})
             /\ \A other : other \notin Keys(w) => Values(new, other) = Values(lines, other)
    <2> DEFINE first == Without(lines, Owns[w][1])
    <2>1. Owns[w][1] \in Keys(w) /\ Single(lines, Owns[w][1])
        BY <1>1, <1>2
    <2>2. Changes(lines, first, Owns[w][1], {}) /\ \A other : Single(lines, other) => Single(first, other)
        BY <2>1, WithoutSays
    <2>3. CASE w # "channel"
        <3>1. new = first
            BY <1>2, <1>4, <2>3 DEF Contents, DeleteAll
        <3> HIDE DEF first, new
        <3> QED BY <1>2, <2>2, <2>3, <3>1 DEF Changes
    <2>4. CASE w = "channel"
        <3>1. new = Without(first, "TOKEN")
            BY <1>2, <1>4, <2>4 DEF Contents, DeleteAll
        <3> HIDE DEF first
        <3> HIDE DEF new
        <3>2. first \in Seq(EnvLines) /\ Single(first, "TOKEN")
            BY <1>1, <1>2, <2>2, <2>4 DEF Changes
        <3>3. Changes(first, Without(first, "TOKEN"), "TOKEN", {})
            BY <3>2, WithoutSays
        <3> QED BY <1>2, <2>2, <2>4, <3>1, <3>3 DEF Changes
    <2> QED BY <2>3, <2>4
<1> HIDE DEF new
<1>5. Says(new, w, value)
    BY <1>3, <1>4 DEF Says
<1>6. SparesOthers(lines, new, w)
    BY <1>3, <1>4, KeysApart DEF SparesOthers
<1> QED BY <1>3, <1>4, <1>5, <1>6 DEF new

\* What an unchanged key says of a writer stays said.
LEMMA SaysStays ==
    ASSUME NEW old, NEW new, NEW w \in Writers, NEW v \in Writers, v # w, NEW save,
           SparesOthers(old, new, w), Says(old, v, save)
    PROVE  Says(new, v, save)
BY DEF SparesOthers, Says

\* The bounds keep the marks apart from the saves.
LEMMA SavesAndMarks == None \in 0..MaxSaves /\ Unknown \notin 0..MaxSaves /\ ByUser \in Nat
                       /\ None # Unknown /\ 0..MaxSaves \subseteq 0..Unknown /\ Unknown \in 0..Unknown
                       /\ 0..MaxSaves \subseteq Nat
BY EnvBounds DEF None, Unknown, ByUser

\* The record of a writer at rest.
LEMMA IdleTyped == IdleWriter \in EnvWriters /\ IdleWriter.at = "idle"
BY SavesAndMarks DEF IdleWriter, EnvWriters, CommitSteps

\* The initial states satisfy it.
LEMMA EnvInitially == EnvInit => EnvInv
<1> SUFFICES ASSUME EnvInit PROVE EnvInv
    OBVIOUS
<1>1. /\ writer = [w \in Writers |-> IdleWriter] /\ told = [w \in Writers |-> None]
      /\ account = None /\ saves = 0 /\ overtaken = {}
    BY DEF EnvInit
<1>2. env \in Seq(EnvLines) /\ \A key \in EveryKey : Values(env, key) = {}
    <2>1. CASE env = <<>>
        BY <2>1 DEF Values, Assignments
    <2>2. CASE env = <<[key |-> "comment", value |-> ByUser]>>
        <3> DEFINE line == [key |-> "comment", value |-> ByUser]
        <3>1. line \in EnvLines /\ line.key = "comment"
            BY SavesAndMarks DEF EnvLines
        <3> HIDE DEF line
        <3>2. env = <<line>>
            BY <2>2 DEF line
        <3>3. env \in Seq(EnvLines) /\ DOMAIN env = {1} /\ env[1] = line
            BY <3>1, <3>2
        <3>4. \A key \in EveryKey : Assignments(env, key) = {}
            BY <3>1, <3>3, KeysApart DEF Assignments
        <3> QED BY <3>3, <3>4 DEF Values
    <2> QED BY <2>1, <2>2 DEF EnvInit
<1>3. EnvType
    BY <1>1, <1>2, SavesAndMarks, IdleTyped, EnvBounds DEF EnvType
<1>4. \A w \in Writers : CopyTrue(w) /\ StillSeen(w)
    BY <1>1, IdleTyped DEF CopyTrue, StillSeen
<1>5. \A w \in Writers : ToldTrue(w)
    BY <1>1, <1>2 DEF ToldTrue, Says, EveryKey
<1>6. AccountTrue
    BY <1>1, IdleTyped DEF AccountTrue, Writers
<1> QED BY <1>3, <1>4, <1>5, <1>6 DEF EnvInv

\* What a writer that turns to another position leaves alone: the file and the account,
\* and what was told of the others.
LEMMA WriterMoves ==
    ASSUME EnvInv, NEW w \in Writers, NEW record \in EnvWriters,
           writer' = [writer EXCEPT ![w] = record], env' = env, account' = account,
           saves' \in 0..MaxSaves, overtaken' \subseteq Writers, overtaken \ {w} \subseteq overtaken',
           told' \in [Writers -> 0..Unknown], \A v \in Writers \ {w} : told'[v] = told[v],
           record.at \in {"look", "lookAgain", "rename"} =>
               Says(record.copy, w, record.save) /\ SparesOthers(record.saw, record.copy, w),
           record.at = "rename" /\ w \notin overtaken' => env = record.saw,
           told'[w] # Unknown => Says(env, w, told'[w]),
           w = "channel" =>
               /\ record.at = "account" \/ (record.at = "confirm" /\ ~record.undo) =>
                      told'[w] \in {record.save, Unknown}
               /\ record.at = "idle" /\ told'[w] \notin {None, Unknown} => account = told'[w]
    PROVE  EnvInv'
<1>1. EnvType /\ writer'[w] = record /\ (\A v \in Writers \ {w} : writer'[v] = writer[v])
      /\ writer' \in [Writers -> EnvWriters]
    BY DEF EnvInv, EnvType
<1>2. EnvType'
    BY <1>1 DEF EnvType
<1>3. CopyTrue(w)' /\ StillSeen(w)' /\ ToldTrue(w)'
    BY <1>1 DEF CopyTrue, StillSeen, ToldTrue
<1>4. ASSUME NEW v \in Writers, v # w
      PROVE  CopyTrue(v)' /\ StillSeen(v)' /\ ToldTrue(v)'
    BY <1>1, <1>4 DEF EnvInv, CopyTrue, StillSeen, ToldTrue
<1>5. AccountTrue'
    BY <1>1 DEF EnvInv, AccountTrue, Writers
<1> QED BY <1>2, <1>3, <1>4, <1>5 DEF EnvInv

\* A call that failed, or that never knew.
LEMMA WriterFails ==
    ASSUME EnvInv, NEW w \in Writers, FailsNow(w), env' = env, account' = account,
           saves' \in 0..MaxSaves, overtaken' \subseteq Writers, overtaken \ {w} \subseteq overtaken'
    PROVE  EnvInv'
<1>1. writer' = [writer EXCEPT ![w] = IdleWriter] /\ told' = [told EXCEPT ![w] = Unknown] /\ EnvType
    BY DEF FailsNow, Rests, EnvInv
<1>2. told' \in [Writers -> 0..Unknown] /\ told'[w] = Unknown /\ \A v \in Writers \ {w} : told'[v] = told[v]
    BY <1>1, SavesAndMarks DEF EnvType
<1> QED BY <1>1, <1>2, IdleTyped, WriterMoves

\* The file is read and the new contents are worked out.
LEMMA ReadKeeps ==
    ASSUME EnvInv, NEW w \in Writers, NEW save \in 0..MaxSaves, ReadEnv(w, save)
    PROVE  EnvInv'
<1> DEFINE new == Contents(env, w, save)
           record == [at |-> IF new = env THEN "account" ELSE "look", save |-> save,
                      saw |-> env, copy |-> new, undo |-> FALSE]
<1>1. /\ EnvType /\ writer[w].at = "idle" /\ saves' = saves + 1 /\ saves < MaxSaves
      /\ overtaken' = overtaken \ {w} /\ env' = env /\ account' = account
    BY DEF ReadEnv, WriterAt, EnvInv
<1>2. saves' \in 0..MaxSaves /\ overtaken' \subseteq Writers /\ overtaken \ {w} \subseteq overtaken'
    BY <1>1, EnvBounds DEF EnvType
<1>3. env \in Seq(EnvLines) /\ writer[w] \in EnvWriters /\ writer = [writer EXCEPT ![w] = writer[w]]
      /\ save \in Nat /\ save # Unknown /\ save \in 0..Unknown
    BY <1>1, SavesAndMarks DEF EnvType
<1>4. CASE Ambiguous(env, w)
    <2>1. writer' = writer /\ told' = told
        BY <1>4 DEF ReadEnv
    <2>2. told' \in [Writers -> 0..Unknown] /\ (told'[w] # Unknown => Says(env, w, told'[w]))
        BY <1>1, <2>1 DEF EnvType, EnvInv, ToldTrue
    <2>3. w = "channel" => (told'[w] \notin {None, Unknown} => account = told'[w])
        BY <1>1, <2>1 DEF EnvInv, AccountTrue
    <2> QED BY <1>1, <1>2, <1>3, <2>1, <2>2, <2>3, WriterMoves
<1>5. CASE ~Ambiguous(env, w)
    <2>1. new \in Seq(EnvLines) /\ Says(new, w, save) /\ SparesOthers(env, new, w)
        BY <1>3, <1>5, ContentsSays
    <2>2. /\ told' = (IF new = env THEN [told EXCEPT ![w] = save] ELSE told)
          /\ writer' = IF new = env /\ w # "channel" THEN writer ELSE [writer EXCEPT ![w] = record]
        BY <1>5 DEF ReadEnv
    <2>3. /\ record \in EnvWriters
          /\ record.at = (IF new = env THEN "account" ELSE "look") /\ record.save = save
          /\ record.saw = env /\ record.copy = new /\ record.undo = FALSE
        BY <1>3, <2>1 DEF EnvWriters, CommitSteps
    <2> HIDE DEF new, record
    <2>4. told' \in [Writers -> 0..Unknown] /\ (\A v \in Writers \ {w} : told'[v] = told[v])
          /\ (new = env => told'[w] = save) /\ (new # env => told'[w] = told[w])
        BY <1>1, <1>3, <2>2 DEF EnvType
    <2>5. told'[w] # Unknown => Says(env, w, told'[w])
        BY <2>1, <2>4 DEF EnvInv, ToldTrue
    <2>6. CASE new = env /\ w # "channel"
        <3>1. writer' = [writer EXCEPT ![w] = writer[w]]
            BY <1>3, <2>2, <2>6
        <3> QED BY <1>1, <1>2, <1>3, <2>4, <2>5, <2>6, <3>1, WriterMoves
    <2>7. CASE ~(new = env /\ w # "channel")
        <3>1. writer' = [writer EXCEPT ![w] = record]
            BY <2>2, <2>7
        <3>2. record.at \in {"account", "look"} /\ (record.at = "account" => told'[w] = save)
            BY <2>3, <2>4
        <3>3. Says(record.copy, w, record.save) /\ SparesOthers(record.saw, record.copy, w)
            BY <2>1, <2>3
        <3> QED BY <1>1, <1>2, <2>3, <2>4, <2>5, <3>1, <3>2, <3>3, WriterMoves
    <2> QED BY <2>6, <2>7
<1> QED BY <1>4, <1>5

\* The positions a writer moves to leave the rest of its record.
LEMMA SteppedFields ==
    ASSUME NEW record \in EnvWriters, NEW at \in CommitSteps
    PROVE  /\ [record EXCEPT !.at = at] \in EnvWriters
           /\ [record EXCEPT !.at = at].at = at /\ [record EXCEPT !.at = at].save = record.save
           /\ [record EXCEPT !.at = at].saw = record.saw /\ [record EXCEPT !.at = at].copy = record.copy
           /\ [record EXCEPT !.at = at].undo = record.undo
BY DEF EnvWriters

\* The first and the second comparison.
LEMMA LooksKeep ==
    ASSUME EnvInv, NEW w \in Writers, Stage(w) \/ LookAgain(w)
    PROVE  EnvInv'
<1>1. /\ EnvType /\ writer[w] \in EnvWriters /\ writer[w].at \in {"look", "lookAgain"}
      /\ env' = env /\ account' = account /\ saves' = saves
      /\ overtaken' \subseteq Writers /\ overtaken \ {w} \subseteq overtaken'
    BY DEF Stage, LookAgain, WriterAt, EnvInv, EnvType, counts
<1>2. CASE FailsNow(w)
    BY <1>1, <1>2, WriterFails DEF EnvType
<1>3. ASSUME NEW at \in {"lookAgain", "rename"}, Unchanged(w), Steps(w, at), told' = told
      PROVE  EnvInv'
    <2> DEFINE record == [writer[w] EXCEPT !.at = at]
    <2>1. /\ record \in EnvWriters /\ record.at = at /\ record.save = writer[w].save
          /\ record.saw = writer[w].saw /\ record.copy = writer[w].copy
        <3>1. writer[w] \in EnvWriters /\ at \in CommitSteps
            BY <1>1 DEF CommitSteps
        <3> QED BY ONLY <3>1, SteppedFields DEF record
    <2>2. writer' = [writer EXCEPT ![w] = record]
        BY <1>1, <1>3 DEF Steps, EnvType
    <2> HIDE DEF record
    <2>3. Says(record.copy, w, record.save) /\ SparesOthers(record.saw, record.copy, w) /\ env = record.saw
        BY <1>1, <1>3, <2>1 DEF EnvInv, CopyTrue, Unchanged
    <2>4. told' \in [Writers -> 0..Unknown] /\ (told'[w] # Unknown => Says(env, w, told'[w]))
        BY <1>1, <1>3 DEF EnvType, EnvInv, ToldTrue
    <2> QED BY <1>1, <1>3, <2>1, <2>2, <2>3, <2>4, WriterMoves DEF EnvType
<1> QED BY <1>2, <1>3 DEF Stage, LookAgain

\* The rename.
LEMMA RenameKeeps ==
    ASSUME EnvInv, NEW w \in Writers, RenameOver(w)
    PROVE  EnvInv'
<1>1. /\ EnvType /\ writer[w] \in EnvWriters /\ writer[w].at = "rename" /\ writer[w].save \in 0..Unknown
      /\ writer[w].copy \in Seq(EnvLines) /\ account' = account /\ saves' = saves
    BY SavesAndMarks DEF RenameOver, WriterAt, EnvInv, EnvType, EnvWriters, counts
<1>2. CASE FailsNow(w) /\ UNCHANGED <<env, overtaken>>
    BY <1>1, <1>2, WriterFails DEF EnvType
<1>3. CASE /\ Steps(w, "confirm") /\ env' = writer[w].copy
           /\ told' = [v \in Writers |-> IF v = w THEN writer[w].save
                                         ELSE IF w \in overtaken THEN Unknown ELSE told[v]]
           /\ overtaken' = (overtaken \ {w}) \cup {v \in Writers \ {w} : WriterAt(v, "rename")}
    <2> DEFINE record == [writer[w] EXCEPT !.at = "confirm"]
    <2>1. /\ record \in EnvWriters /\ record.at = "confirm" /\ record.save = writer[w].save
          /\ record.undo = writer[w].undo
        <3>1. writer[w] \in EnvWriters /\ "confirm" \in CommitSteps
            BY <1>1 DEF CommitSteps
        <3> QED BY ONLY <3>1, SteppedFields DEF record
    <2>2. writer' = [writer EXCEPT ![w] = record]
        BY <1>1, <1>3 DEF Steps, EnvType
    <2> HIDE DEF record
    <2>3. writer'[w] = record /\ (\A v \in Writers \ {w} : writer'[v] = writer[v])
          /\ writer' \in [Writers -> EnvWriters]
        BY <1>1, <2>1, <2>2 DEF EnvType
    <2>4. /\ told' \in [Writers -> 0..Unknown] /\ told'[w] = writer[w].save
          /\ \A v \in Writers \ {w} : told'[v] = (IF w \in overtaken THEN Unknown ELSE told[v])
        BY <1>1, <1>3, SavesAndMarks DEF EnvType
    <2>5. EnvType'
        BY <1>1, <1>3, <2>3, <2>4 DEF EnvType
    <2>6. Says(writer[w].copy, w, writer[w].save) /\ SparesOthers(writer[w].saw, writer[w].copy, w)
          /\ (w \notin overtaken => env = writer[w].saw)
        BY <1>1 DEF EnvInv, CopyTrue, StillSeen
    <2>7. CopyTrue(w)' /\ StillSeen(w)' /\ ToldTrue(w)'
        <3>1. Says(writer[w].copy, w, writer[w].save) => Says(env', w, told'[w])
            BY <1>3, <2>4
        <3> QED BY <2>1, <2>3, <2>6, <3>1 DEF CopyTrue, StillSeen, ToldTrue
    <2>8. ASSUME NEW v \in Writers, v # w
          PROVE  CopyTrue(v)' /\ StillSeen(v)' /\ ToldTrue(v)'
        <3>1. writer'[v] = writer[v] /\ (writer[v].at = "rename" => v \in overtaken')
            BY <1>3, <2>3, <2>8 DEF WriterAt
        <3>2. told'[v] # Unknown => w \notin overtaken /\ told'[v] = told[v]
            BY <2>4, <2>8
        <3>3. told'[v] # Unknown => Says(env', v, told'[v])
            BY <1>3, <2>6, <2>8, <3>2, SaysStays DEF EnvInv, ToldTrue
        <3> QED BY <3>1, <3>3 DEF EnvInv, CopyTrue, StillSeen, ToldTrue
    <2>9. AccountTrue'
        <3>1. CASE w = "channel"
            BY <2>1, <2>3, <2>4, <3>1 DEF AccountTrue
        <3>2. CASE w # "channel"
            BY <1>1, <2>3, <2>4, <3>2 DEF EnvInv, AccountTrue, Writers
        <3> QED BY <3>1, <3>2
    <2> QED BY <2>5, <2>7, <2>8, <2>9 DEF EnvInv
<1> QED BY <1>2, <1>3 DEF RenameOver

\* The file is read back.
LEMMA ConfirmKeeps ==
    ASSUME EnvInv, NEW w \in Writers, Confirm(w)
    PROVE  EnvInv'
<1>1. /\ EnvType /\ writer[w] \in EnvWriters /\ writer[w].at = "confirm" /\ env' = env /\ account' = account
      /\ saves' = saves /\ overtaken' = overtaken
    BY DEF Confirm, WriterAt, EnvInv, EnvType, counts
<1>2. CASE FailsNow(w)
    BY <1>1, <1>2, WriterFails DEF EnvType
<1>3. told' = told =>
         told' \in [Writers -> 0..Unknown] /\ (told'[w] # Unknown => Says(env, w, told'[w]))
    BY <1>1 DEF EnvType, EnvInv, ToldTrue
<1>4. CASE w = "channel" /\ ~writer[w].undo /\ Steps(w, "account") /\ told' = told
    <2> DEFINE record == [writer[w] EXCEPT !.at = "account"]
    <2>1. record \in EnvWriters /\ record.at = "account" /\ record.save = writer[w].save
        <3>1. writer[w] \in EnvWriters /\ "account" \in CommitSteps
            BY <1>1 DEF CommitSteps
        <3> QED BY ONLY <3>1, SteppedFields DEF record
    <2>2. writer' = [writer EXCEPT ![w] = record]
        BY <1>1, <1>4 DEF Steps, EnvType
    <2>3. told'[w] \in {writer[w].save, Unknown}
        BY <1>1, <1>4 DEF EnvInv, AccountTrue
    <2> HIDE DEF record
    <2> QED BY <1>1, <1>3, <1>4, <2>1, <2>2, <2>3, WriterMoves DEF EnvType
<1>5. CASE w # "channel" /\ Rests(w) /\ told' = told
    BY <1>1, <1>3, <1>5, IdleTyped, WriterMoves DEF Rests, EnvType
<1> QED BY <1>2, <1>4, <1>5 DEF Confirm

\* The account file of a channel is written, kept, or given up.
LEMMA AccountKeeps ==
    ASSUME EnvInv, FinishAccount
    PROVE  EnvInv'
<1> DEFINE w == "channel"
           save == writer["channel"].save
           back == Contents(env, "channel", None)
<1>1. /\ EnvType /\ w \in Writers /\ writer[w] \in EnvWriters /\ writer[w].at = "account" /\ env' = env
      /\ saves' = saves /\ overtaken' = overtaken /\ save \in 0..MaxSaves /\ env \in Seq(EnvLines)
    BY DEF FinishAccount, WriterAt, EnvInv, EnvType, EnvWriters, Writers, counts
<1>2. CASE FailsNow("channel") /\ account' = account
    BY <1>1, <1>2, WriterFails DEF EnvType
<1>3. CASE /\ Rests("channel") /\ told' = told /\ account' \in 0..MaxSaves /\ (save # None => account' = save)
    <2>1. /\ writer'[w] = IdleWriter /\ (\A v \in Writers \ {w} : writer'[v] = writer[v])
          /\ writer' \in [Writers -> EnvWriters]
        BY <1>1, <1>3, IdleTyped DEF Rests, EnvType
    <2>2. EnvType'
        BY <1>1, <1>3, <2>1 DEF EnvType
    <2>3. told[w] \in {save, Unknown}
        BY <1>1 DEF EnvInv, AccountTrue
    <2>4. AccountTrue'
        BY <1>3, <2>1, <2>3, IdleTyped DEF AccountTrue
    <2>5. \A v \in Writers : CopyTrue(v)' /\ StillSeen(v)' /\ ToldTrue(v)'
        BY <1>1, <1>3, <2>1, IdleTyped DEF EnvInv, CopyTrue, StillSeen, ToldTrue
    <2> QED BY <2>2, <2>4, <2>5 DEF EnvInv
<1>4. CASE /\ account' = account /\ told' = told /\ ~Ambiguous(env, "channel")
           /\ writer' = [writer EXCEPT !["channel"] = [at |-> "look", save |-> None, saw |-> env,
                                                      copy |-> back, undo |-> TRUE]]
    <2>1. back \in Seq(EnvLines) /\ Says(back, w, None) /\ SparesOthers(env, back, w)
        BY <1>1, <1>4, ContentsSays, SavesAndMarks
    <2> DEFINE record == [at |-> "look", save |-> None, saw |-> env, copy |-> back, undo |-> TRUE]
    <2>2. /\ record \in EnvWriters /\ record.at = "look" /\ record.save = None /\ record.saw = env
          /\ record.copy = back
        BY <1>1, <2>1, SavesAndMarks DEF EnvWriters, CommitSteps
    <2>3. writer' = [writer EXCEPT ![w] = record]
        BY <1>4
    <2>4. told' \in [Writers -> 0..Unknown] /\ (told'[w] # Unknown => Says(env, w, told'[w]))
        BY <1>1, <1>4 DEF EnvType, EnvInv, ToldTrue
    <2> HIDE DEF record, back
    <2>5. Says(record.copy, w, record.save) /\ SparesOthers(record.saw, record.copy, w)
        BY <2>1, <2>2
    <2> QED BY <1>1, <1>4, <2>2, <2>3, <2>4, <2>5, WriterMoves DEF EnvType
<1>5. CASE /\ Rests("channel") /\ UNCHANGED told
           /\ account' = IF save # None THEN save
                         ELSE IF \E i \in Assignments(writer["channel"].saw, "ID") :
                                    writer["channel"].saw[i].value = account
                         THEN None ELSE account
    BY <1>1, <1>3, <1>5, SavesAndMarks DEF EnvType
<1> QED BY <1>2, <1>4, <1>5 DEF FinishAccount

\* A hand on one line of the file.
LEMMA HandKeeps ==
    ASSUME EnvInv, NEW new \in Seq(EnvLines), NEW key, EditEnv(new, key),
           \A other : other # key => Values(new, other) = Values(env, other)
    PROVE  EnvInv'
<1>1. /\ EnvType /\ env' = new /\ account' = account /\ writer' = writer /\ saves' = saves
      /\ overtaken' = overtaken \cup {w \in Writers : WriterAt(w, "rename")}
      /\ told' = [w \in Writers |-> IF key \in Keys(w) THEN Unknown ELSE told[w]]
    BY DEF EditEnv, EnvInv
<1>2. /\ told' \in [Writers -> 0..Unknown]
      /\ \A w \in Writers : told'[w] = IF key \in Keys(w) THEN Unknown ELSE told[w]
    BY <1>1, SavesAndMarks DEF EnvType
<1>3. EnvType'
    BY <1>1, <1>2 DEF EnvType
<1>4. ASSUME NEW w \in Writers
      PROVE  CopyTrue(w)' /\ StillSeen(w)' /\ ToldTrue(w)'
    <2>1. CopyTrue(w)'
        BY <1>1 DEF EnvInv, CopyTrue
    <2>2. StillSeen(w)'
        BY <1>1 DEF StillSeen, WriterAt
    <2>3. CASE told'[w] # Unknown
        <3>1. key \notin Keys(w) /\ told'[w] = told[w]
            BY <1>2, <2>3
        <3>2. Says(env, w, told[w])
            BY <2>3, <3>1 DEF EnvInv, ToldTrue
        <3>3. Says(new, w, told[w])
            BY <3>1, <3>2 DEF Says
        <3> QED BY <1>1, <2>1, <2>2, <3>1, <3>3 DEF ToldTrue
    <2>4. CASE told'[w] = Unknown
        BY <2>1, <2>2, <2>4 DEF ToldTrue
    <2> QED BY <2>3, <2>4
<1>5. AccountTrue'
    BY <1>1, <1>2 DEF EnvInv, AccountTrue, Writers
<1> QED BY <1>3, <1>4, <1>5 DEF EnvInv

\* Hermes or the user takes a line out, or puts one in.
LEMMA EditKeeps ==
    ASSUME EnvInv, HandEdit
    PROVE  EnvInv'
<1>1. env \in Seq(EnvLines)
    BY DEF EnvInv, EnvType
<1>2. ASSUME NEW i \in DOMAIN env, EditEnv(RemoveAt(env, i), env[i].key)
      PROVE  EnvInv'
    <2>1. RemoveAt(env, i) \in Seq(EnvLines)
        BY <1>1, RemovedLine
    <2>2. \A other : other # env[i].key => Values(RemoveAt(env, i), other) = Values(env, other)
        BY <1>1, RemovedSays
    <2> QED BY <1>2, <2>1, <2>2, HandKeeps
<1>3. ASSUME NEW key \in EveryKey \cup {"comment"}, EditEnv(Append(env, [key |-> key, value |-> ByUser]), key)
      PROVE  EnvInv'
    <2> DEFINE line == [key |-> key, value |-> ByUser]
               new == Append(env, line)
    <2>1. line \in EnvLines /\ line.key = key
        BY SavesAndMarks DEF EnvLines
    <2>2. Len(env) \in Nat /\ DOMAIN env = 1..Len(env)
        BY <1>1, LenProperties
    <2> HIDE DEF line
    <2>3. /\ new \in Seq(EnvLines) /\ DOMAIN new = 1..(Len(env) + 1) /\ new[Len(env) + 1] = line
          /\ \A i \in 1..Len(env) : new[i] = env[i]
        BY <1>1, <2>1, <2>2
    <2>4. EditEnv(new, key)
        BY <1>3 DEF line
    <2> HIDE DEF new
    <2>5. ASSUME NEW other, other # key
          PROVE  Values(new, other) = Values(env, other)
        <3>1. Assignments(new, other) = Assignments(env, other)
            BY <2>1, <2>2, <2>3, <2>5 DEF Assignments
        <3>2. \A i \in Assignments(env, other) : new[i] = env[i]
            BY <2>2, <2>3 DEF Assignments
        <3> QED BY <3>1, <3>2 DEF Values
    <2> QED BY <2>3, <2>4, <2>5, HandKeeps
<1> QED BY <1>2, <1>3 DEF HandEdit

\* A stop of the daemon.
LEMMA StopKeeps ==
    ASSUME EnvInv, StopWriters
    PROVE  EnvInv'
<1>1. /\ EnvType /\ env' = env /\ account' = account /\ saves' = saves /\ overtaken' = {}
      /\ writer' \in [Writers -> EnvWriters] /\ \A w \in Writers : writer'[w] = IdleWriter
    BY IdleTyped DEF StopWriters, EnvInv, counts
<1>2. /\ told' \in [Writers -> 0..Unknown]
      /\ \A w \in Writers : told'[w] = IF writer[w].at = "idle" THEN told[w] ELSE Unknown
    BY <1>1, SavesAndMarks DEF StopWriters, EnvType, WriterAt
<1>3. EnvType'
    BY <1>1, <1>2 DEF EnvType
<1>4. \A w \in Writers : CopyTrue(w)' /\ StillSeen(w)' /\ ToldTrue(w)'
    BY <1>1, <1>2, IdleTyped DEF EnvInv, CopyTrue, StillSeen, ToldTrue
<1>5. AccountTrue'
    BY <1>1, <1>2, IdleTyped DEF EnvInv, AccountTrue, Writers
<1> QED BY <1>3, <1>4, <1>5 DEF EnvInv

\* Every step keeps the invariant.
LEMMA EnvPreserved == EnvInv /\ [EnvNext]_envVars => EnvInv'
<1> SUFFICES ASSUME EnvInv, [EnvNext]_envVars PROVE EnvInv'
    OBVIOUS
<1>1. ASSUME NEW w \in Writers, WriterStep(w) PROVE EnvInv'
    BY <1>1, LooksKeep, RenameKeeps, ConfirmKeeps DEF WriterStep
<1>2. ASSUME NEW w \in Writers, ReadEnv(w, saves + 1) PROVE EnvInv'
    <2>1. saves + 1 \in 0..MaxSaves
        BY <1>2, EnvBounds DEF ReadEnv, EnvInv, EnvType
    <2> QED BY <1>2, <2>1, ReadKeeps
<1>3. ASSUME NEW w \in Writers, ReadEnv(w, None) PROVE EnvInv'
    BY <1>3, SavesAndMarks, ReadKeeps
<1>4. CASE FinishAccount
    BY <1>4, AccountKeeps
<1>5. CASE StopWriters
    BY <1>5, StopKeeps
<1>6. CASE HandEdit
    BY <1>6, EditKeeps
<1>7. CASE UNCHANGED envVars
    BY <1>7 DEF envVars, EnvInv, EnvType, CopyTrue, StillSeen, ToldTrue, AccountTrue
<1> QED BY <1>1, <1>2, <1>3, <1>4, <1>5, <1>6, <1>7 DEF EnvNext

\* What was reported saved or deleted is in the file, until a failed call, a hand on those
\* lines, or a writer that was overtaken: for any number of saves, edits and faults.
THEOREM EnvIsTrue == EnvSpec => []EnvTrue
<1>1. EnvInv => EnvTrue
    BY DEF EnvInv, ToldTrue, AccountTrue, EnvTrue, Says, Values, WriterAt
<1> QED BY EnvInitially, EnvPreserved, <1>1, PTL DEF EnvSpec
=============================================================================
