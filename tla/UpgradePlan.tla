---------------------------- MODULE UpgradePlan ----------------------------
(***************************************************************************)
(* What YORVA says about an upgrade of Hermes.  A plan is worked out from  *)
(* evidence: that the installation is managed and which generation is      *)
(* active, what the packaged target is, what an upgrade touches, that it   *)
(* can be undone.  Three functions decide: BuildUpgradePlan over the       *)
(* evidence, AssessRollback over the evidence after an upgrade, and the    *)
(* planner of the adapter, which fills in the little it observes; the      *)
(* application refuses an answer that contradicts itself.  They are        *)
(* checked on all evidence that differs from the ideal in a few points,    *)
(* one point after the other.                                              *)
(***************************************************************************)
EXTENDS Naturals, FiniteSets

CONSTANT MaxDeviations   \* bound: points in which the evidence is not ideal

ASSUME DeviationsBound == MaxDeviations \in Nat

VARIABLES evidence,   \* UpgradePlanInput
          machine,    \* what the adapter finds on the machine
          judged        \* what the three functions make of them

planVars == <<evidence, machine, judged>>

EvidenceStates == {"VERIFIED", "MISSING", "INVALID", "UNKNOWN"}
Features == {"MODELS", "SKILLS"}    \* two of the five stand for all
Always == {"ACTIVE_POINTER_AND_SEAL", "HEALTH_AND_SECURITY"}   \* and two of the five checks

\* Snapshots: the old one, the packaged target, and one that is not valid.
Snapshots == {"old", "target", "malformed"}
Verdicts == {"PROVEN", "UNSAFE", "UNKNOWN"}

IdealEvidence ==
    [managed |-> "MANAGED", pointer |-> "VALID", names |-> TRUE,
     current |-> "VERIFIED", sealed |-> TRUE, identity |-> "old",
     target |-> "VERIFIED", compiled |-> "target", observed |-> "target",
     inventory |-> "VERIFIED", features |-> Features,
     protection |-> "VERIFIED", protectionID |-> TRUE,
     record |-> "VERIFIED", wellFormed |-> TRUE, from |-> "old", to |-> "target",
     upgrade |-> "PROVEN", rollback |-> "PROVEN", restoreRequired |-> TRUE,
     postchecks |-> "VERIFIED", qualified |-> Always \cup Features]

PossibleEvidence ==
    [managed |-> {"MANAGED", "UNMANAGED", "UNKNOWN"}, pointer |-> {"VALID", "MISSING", "INVALID", "UNKNOWN"},
     names |-> BOOLEAN, current |-> EvidenceStates, sealed |-> BOOLEAN, identity |-> Snapshots,
     target |-> EvidenceStates, compiled |-> Snapshots, observed |-> Snapshots,
     inventory |-> EvidenceStates, features |-> SUBSET Features,
     protection |-> EvidenceStates, protectionID |-> BOOLEAN,
     record |-> EvidenceStates, wellFormed |-> BOOLEAN, from |-> Snapshots, to |-> Snapshots,
     upgrade |-> Verdicts, rollback |-> Verdicts, restoreRequired |-> BOOLEAN,
     postchecks |-> EvidenceStates, qualified |-> {Always \cup fs : fs \in SUBSET Features} \cup {{}}]

(***************************************************************************)
(* The policy.  A reason is named for what it is about and what is wrong.  *)
(***************************************************************************)
Because(about, condition, what) == IF condition THEN {<<about, what>>} ELSE {}

\* Evidence that is not verified is unknown, or as bad as none.
Unverified(about, state) ==
    CASE state = "UNKNOWN" -> {<<about, "UNKNOWN">>}
      [] state = "VERIFIED" -> {}
      [] OTHER -> {<<about, "INVALID">>}

Required(features) == Always \cup features
Exact(current, sealed, identity) == current = "VERIFIED" /\ sealed /\ identity # "malformed"
TargetExact(e) == e.target = "VERIFIED" /\ e.compiled = e.observed /\ e.compiled # "malformed"

ActiveReasons(e) ==
    Because("MANAGED", e.managed = "UNKNOWN", "UNKNOWN")
    \cup Because("MANAGED", e.managed = "UNMANAGED", "INVALID")
    \cup Because("POINTER", e.pointer = "UNKNOWN", "UNKNOWN")
    \cup Because("POINTER", e.pointer \in {"MISSING", "INVALID"}, "INVALID")
    \cup Because("GENERATION", e.pointer = "VALID" /\ e.current = "VERIFIED" /\ ~e.names, "INVALID")

CurrentReasons(e) ==
    IF e.current = "VERIFIED"
    THEN Because("IDENTITY", e.identity = "malformed", "INVALID")
         \cup Because("SEAL", ~Exact(e.current, e.sealed, e.identity), "INVALID")
    ELSE Unverified("SEAL", e.current)

TargetReasons(e) ==
    IF e.target = "VERIFIED" THEN Because("TARGET", ~TargetExact(e), "INVALID")
    ELSE Unverified("TARGET", e.target)

\* assessCompatibility: of a record that is no good its verdicts are not looked at.
CompatibilityReasons(e, from, to, requireUpgrade) ==
    IF e.record # "VERIFIED" THEN Unverified("COMPATIBILITY", e.record)
    ELSE IF ~e.wellFormed \/ e.from = "malformed" \/ e.to = "malformed" THEN {<<"COMPATIBILITY", "INVALID">>}
    ELSE Because("PAIR", e.from # from \/ e.to # to, "INVALID")
         \cup Because("UPGRADE", requireUpgrade /\ e.upgrade = "UNKNOWN", "UNKNOWN")
         \cup Because("UPGRADE", requireUpgrade /\ e.upgrade = "UNSAFE", "INVALID")
         \cup Because("ROLLBACK", e.rollback = "UNKNOWN", "UNKNOWN")
         \cup Because("ROLLBACK", e.rollback = "UNSAFE", "INVALID")

PostcheckReasons(e) ==
    IF e.postchecks = "VERIFIED"
    THEN Because("POSTCHECKS", ~(Required(e.features) \subseteq e.qualified), "INVALID")
    ELSE Unverified("POSTCHECKS", e.postchecks)

ProtectionReasons(e) ==
    IF e.protection = "VERIFIED" THEN Because("PROTECTION", ~e.protectionID, "INVALID")
    ELSE Unverified("PROTECTION", e.protection)

\* Mutant: whether it can be undone is asked when it comes to that.
ReasonsToGo(e) ==
    ActiveReasons(e) \cup CurrentReasons(e) \cup TargetReasons(e) \cup Unverified("INVENTORY", e.inventory)
    \cup (CompatibilityReasons(e, e.identity, e.compiled, TRUE) \ {<<"ROLLBACK", "UNSAFE">>, <<"ROLLBACK", "INVALID">>})
    \cup PostcheckReasons(e)

UpgradeReasons(e) ==
    ActiveReasons(e) \cup CurrentReasons(e) \cup TargetReasons(e) \cup Unverified("INVENTORY", e.inventory)
    \cup ProtectionReasons(e) \cup CompatibilityReasons(e, e.identity, e.compiled, TRUE)
    \cup PostcheckReasons(e)

\* The target is proven to be what is active: nothing else is asked.
TargetActive(e) ==
    /\ e.managed = "MANAGED" /\ Exact(e.current, e.sealed, e.identity) /\ e.pointer = "VALID" /\ e.names
    /\ TargetExact(e) /\ e.identity = e.compiled

Availability(reasons) ==
    CASE reasons = {} -> "AVAILABLE"
      [] \E about \in {r[1] : r \in reasons} : <<about, "UNKNOWN">> \in reasons -> "UNKNOWN"
      [] OTHER -> "BLOCKED"

BuildUpgradePlan(e) == IF TargetActive(e) THEN "UP_TO_DATE" ELSE Availability(UpgradeReasons(e))

\* assessRollbackGeneration for the previous generation.
PreviousReasons(previous) ==
    IF previous.state = "VERIFIED"
    THEN Because("PREVIOUS", ~Exact(previous.state, previous.sealed, previous.identity), "INVALID")
    ELSE Unverified("PREVIOUS", previous.state)

\* AssessRollback: ELIGIBLE where an upgrade would be AVAILABLE.
AssessRollback(e, previous) ==
    Availability(ActiveReasons(e) \cup CurrentReasons(e) \cup PreviousReasons(previous)
                 \cup Because("PREVIOUS", previous.active, "SAME") \cup Unverified("INVENTORY", e.inventory)
                 \cup CompatibilityReasons(e, previous.identity, e.identity, FALSE)
                 \cup (IF e.record = "VERIFIED" /\ e.restoreRequired THEN ProtectionReasons(e) ELSE {})
                 \cup PostcheckReasons(e))

(***************************************************************************)
(* The planner of the adapter.                                             *)
(***************************************************************************)
\* A managed installation of the snapshot before the packaged one.
IdealMachine ==
    [supported |-> TRUE, installed |-> "old", activeRecord |-> TRUE, sameVersion |-> TRUE, launcher |-> TRUE,
     lineage |-> TRUE, tree |-> TRUE, pinned |-> TRUE]
PossibleMachine ==
    [supported |-> BOOLEAN, installed |-> {"old", "target", "other"}, activeRecord |-> BOOLEAN,
     sameVersion |-> BOOLEAN, launcher |-> BOOLEAN, lineage |-> BOOLEAN, tree |-> BOOLEAN, pinned |-> BOOLEAN]

\* observeManagedActive: from the launcher upwards, a store whose active record is of
\* this version, whose generation holds this launcher, has the record's lineage, and
\* is what was sealed.
ObservedManaged(m) ==
    m.activeRecord /\ m.sameVersion /\ m.launcher /\ m.lineage /\ m.tree
\* knownSnapshot: the version and the pin of the record together.
Known(m) == m.installed \in {"old", "target"} /\ m.pinned
RecordVersion(m) == IF m.sameVersion THEN m.installed ELSE "another"

\* The evidence PlanUpgrade puts together: the target is compiled in, and of what an
\* upgrade touches nothing is observed.
Gathered(m) ==
    LET managed == ObservedManaged(m) IN
    [IdealEvidence EXCEPT
        !.managed = IF managed THEN @ ELSE "UNKNOWN", !.pointer = IF managed THEN @ ELSE "UNKNOWN",
        !.names = managed, !.current = IF managed /\ Known(m) THEN @ ELSE "UNKNOWN",
        !.identity = IF m.installed = "other" THEN "malformed" ELSE m.installed,
        !.inventory = "UNKNOWN", !.features = {}, !.protection = "MISSING", !.record = "UNKNOWN",
        !.postchecks = "UNKNOWN"]

\* publicUpgradeReasons: what of the reasons is said, and how.
Said == [MANAGED |-> "MANAGED_EVIDENCE", POINTER |-> "MANAGED_EVIDENCE", SEAL |-> "CURRENT_IDENTITY",
         IDENTITY |-> "CURRENT_IDENTITY", GENERATION |-> "CURRENT_IDENTITY", INVENTORY |-> "INVENTORY",
         PROTECTION |-> "PROTECTION_POINT", COMPATIBILITY |-> "COMPATIBILITY", PAIR |-> "COMPATIBILITY",
         UPGRADE |-> "COMPATIBILITY", ROLLBACK |-> "COMPATIBILITY", POSTCHECKS |-> "POSTCHECKS"]
Public(reasons) == {Said[r[1]] : r \in {q \in reasons : q[1] \in DOMAIN Said}}

\* PlanUpgrade: one version is one version, whoever manages it.
PlanUpgrade(m) ==
    LET upToDate == m.installed = "target"
        e == Gathered(m) IN
    [state |-> IF upToDate THEN "UP_TO_DATE" ELSE BuildUpgradePlan(e), managed |-> ObservedManaged(m),
     current |-> IF ~upToDate /\ e.current = "VERIFIED" THEN RecordVersion(m) ELSE m.installed,
     reasons |-> IF upToDate THEN {} ELSE Public(UpgradeReasons(e)),
     compatibility |-> IF upToDate THEN "NOT_REQUIRED" ELSE "UNKNOWN", rollback |-> "UNKNOWN",
     inventory |-> FALSE, protected |-> upToDate,
     complete |-> ~upToDate /\ BuildUpgradePlan(e) = "AVAILABLE", qualified |-> FALSE]

\* UpgradePlan.Validate, what the application asks for beyond it, and when a plan
\* may be carried out.
Complete(p) == p.state = "AVAILABLE" /\ p.managed /\ p.inventory /\ p.rollback = "ELIGIBLE" /\ p.protected
Valid(p) ==
    /\ p.state = "AVAILABLE" => p.complete
    /\ p.complete => Complete(p) /\ p.compatibility = "PROVEN" /\ p.reasons = {}
    /\ p.state = "UP_TO_DATE" => p.compatibility = "NOT_REQUIRED"
    /\ p.qualified => p.complete
Accepted(p, m) ==
    /\ Valid(p) /\ p.current = m.installed
    /\ p.state = "AVAILABLE" => Complete(p)
    /\ p.state # "AVAILABLE" => ~p.complete /\ ~p.qualified
    /\ p.state = "UP_TO_DATE" => p.current = "target" /\ p.reasons = {}
Executable(p) == p.complete /\ p.qualified /\ Complete(p)

(***************************************************************************)
(* The evidence.                                                           *)
(***************************************************************************)
Deviations == Cardinality({f \in DOMAIN evidence : evidence[f] # IdealEvidence[f]})
              + Cardinality({f \in DOMAIN machine : machine[f] # IdealMachine[f]})

\* What is known after an upgrade by this plan that went well: the target is active,
\* and what was active is the previous generation.
AfterUpgrade(e) == [e EXCEPT !.identity = e.compiled, !.sealed = TRUE, !.names = TRUE]
PreviousOf(e) == [state |-> e.current, sealed |-> e.sealed, identity |-> e.identity, active |-> FALSE]

Judged(e, m) ==
    [plan |-> BuildUpgradePlan(e), rollback |-> AssessRollback(AfterUpgrade(e), PreviousOf(e)), answer |-> PlanUpgrade(m)]

PlanInit == evidence = IdealEvidence /\ machine = IdealMachine /\ judged = Judged(evidence, machine)

Deviate(f) ==
    /\ Deviations < MaxDeviations /\ evidence[f] = IdealEvidence[f] /\ UNCHANGED machine
    /\ \E value \in PossibleEvidence[f] : evidence' = [evidence EXCEPT ![f] = value]
    /\ judged' = Judged(evidence', machine)

Differ(f) ==
    /\ Deviations < MaxDeviations /\ machine[f] = IdealMachine[f] /\ UNCHANGED evidence
    /\ \E value \in PossibleMachine[f] : machine' = [machine EXCEPT ![f] = value]
    /\ judged' = Judged(evidence, machine')

PlanNext == (\E f \in DOMAIN evidence : Deviate(f)) \/ (\E f \in DOMAIN machine : Differ(f))

PlanSpec == PlanInit /\ [][PlanNext]_planVars
-----------------------------------------------------------------------------
(***************************************************************************)
(* Properties.                                                             *)
(***************************************************************************)
\* No upgrade is offered that could not be undone: its evidence, carried over to the
\* new generation, makes the rollback eligible.
UndoneIfDone == judged.plan = "AVAILABLE" => judged.rollback = "AVAILABLE"

\* What is missing is told from what is not known: a plan is BLOCKED only if all it
\* asks about is known, and UNKNOWN only if something is not.
Unknowns ==
    LET asks == <<evidence.managed, evidence.pointer, evidence.current, evidence.target, evidence.inventory,
                  evidence.protection, evidence.record, evidence.postchecks>>
        verdicts == IF evidence.record = "VERIFIED" /\ evidence.wellFormed
                       /\ "malformed" \notin {evidence.from, evidence.to}
                    THEN {evidence.upgrade, evidence.rollback} ELSE {} IN
    {i \in DOMAIN asks : asks[i] = "UNKNOWN"} \cup (IF "UNKNOWN" \in verdicts THEN {0} ELSE {})
UnknownIsTold ==
    /\ judged.plan = "BLOCKED" => Unknowns = {}
    /\ judged.plan = "UNKNOWN" => Unknowns # {}

\* The adapter always has an answer that the application takes: nothing it observes
\* makes it contradict itself, nothing can be carried out, and an answer that is not
\* UP_TO_DATE says why.
AnswerIsTaken ==
    machine.supported =>
       LET plan == judged.answer IN
       /\ Accepted(plan, machine) /\ ~Executable(plan)
       /\ (plan.state = "UP_TO_DATE") = (plan.reasons = {})
       /\ ~plan.managed /\ plan.state # "UP_TO_DATE" => "MANAGED_EVIDENCE" \in plan.reasons

PlansTrue == UndoneIfDone /\ UnknownIsTold /\ AnswerIsTaken
=============================================================================
