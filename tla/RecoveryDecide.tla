--------------------------- MODULE RecoveryDecide ---------------------------
(***************************************************************************)
(* The pure half of Hermes install recovery                                *)
(* (services/node/internal/install/recovery_decide.go, recover.go and      *)
(* observe.go): what the daemon decides from one observation of the        *)
(* transaction records, the generation and staging directories,            *)
(* active.json and the user environment.  No state is changed here;        *)
(* module InstallTransaction executes the decisions.                       *)
(*                                                                         *)
(* A transaction and the generation it builds are created together with    *)
(* fresh random identifiers, so one number names both: transaction t owns  *)
(* generation t, and 0 stands for "none".                                  *)
(***************************************************************************)
EXTENDS Naturals

\* TransactionState.  "NONE": no record yet.  "INVALID": bytes that do not
\* parse under a reserved record name.
NonterminalStates == {"CREATED", "BUILDING", "SEALED", "PUBLISHED", "ACTIVATING"}
TerminalStates == {"COMMITTED", "FAILED"}
ValidStates == NonterminalStates \cup TerminalStates
TxnStates == ValidStates \cup {"NONE", "INVALID"}

FailableStates == {"CREATED", "BUILDING"}

\* What a directory holds:
\*   "empty"      nothing;
\*   "unproven"   something, but no readable lineage record (a torn or missing
\*                candidate record, or a half deleted tree);
\*   "candidate"  a lineage record for its own transaction, no valid seal;
\*   "sealed"     manifest and seal verify against the complete tree;
\*   "remnant"    manifest and seal files verify, the tree does not match;
\*   "foreign"    a lineage record that names another generation.
Trees == {"absent", "empty", "unproven", "candidate", "sealed", "remnant", "foreign"}

\* VerifyPublishedGeneration: the seal metadata alone verifies.
MetadataVerifies(tree) == tree \in {"sealed", "remnant"}

\* observeTree: TreeObservation of one directory; seal says whether the record
\* holds the manifest and seal digests.
ObserveTree(tree, seal) ==
    [present |-> tree # "absent",
     empty   |-> tree = "empty",
     lineage |-> tree \in {"candidate", "sealed", "remnant", "foreign"},
     match   |-> tree \in {"candidate", "sealed", "remnant"},
     sealed  |-> tree = "sealed" /\ seal]

TreeObs == [present : BOOLEAN, empty : BOOLEAN, lineage : BOOLEAN,
            match : BOOLEAN, sealed : BOOLEAN]

NoTree == [present |-> FALSE, empty |-> FALSE, lineage |-> FALSE,
           match |-> FALSE, sealed |-> FALSE]

Pointers == {"MISSING", "INVALID", "VALID"}
Gates == {"READY", "RECONCILING", "BLOCKED_UNSAFE"}
Actions == {"NONE", "REMOVE_EMPTY_STAGING", "REMOVE_EMPTY_GENERATION",
            "MOVE_STAGING_TO_FAILED", "GC_STAGING", "PERSIST_PUBLISHED",
            "PERSIST_ACTIVATING", "ACTIVATE", "RECONCILE_ENV", "COMMIT",
            "FAIL_FAILABLE_EXTRAS", "DIAGNOSE_RETAIN", "BLOCK_UNSAFE"}

\* RecoveryDecision; next = "" leaves the transaction's state alone.
Decision(gate, action, next) == [gate |-> gate, action |-> action, next |-> next]

Decisions == [gate : Gates, action : Actions, next : ValidStates \cup {""}]

Blocked == Decision("BLOCKED_UNSAFE", "BLOCK_UNSAFE", "")
FailTxn(action) == Decision("READY", action, "FAILED")
Reconciling(action, next) == Decision("RECONCILING", action, next)
Nothing == Decision("READY", "NONE", "")

-----------------------------------------------------------------------------
(* The fields of an observation: txns (a function from identifiers to      *)
(* records [state, seal, before]), pointer and active (active.json),       *)
(* staging and generation (the primary transaction's directories), env     *)
(* (HERMES_HOME and PATH are as active.json wants them) and unknown (a     *)
(* directory no record explains).                                          *)

NonterminalTxns(txns) == {t \in DOMAIN txns : txns[t].state \in NonterminalStates}

\* primaryTxn: the only transaction in flight, else the record of the active
\* generation, else none.
PrimaryTxn(txns, pointer, active) ==
    LET open == NonterminalTxns(txns) IN
    IF \E t \in open : open = {t} THEN CHOOSE t \in open : TRUE
    ELSE IF pointer = "VALID" /\ txns[active].state \in ValidStates THEN active
    ELSE 0

ActiveNames(obs, t) == obs.pointer = "VALID" /\ obs.active = t

\* before = 0 is ActiveBeforeAbsent, and also an unset kind, which the code
\* reads the same way.
ExpectedPredecessorOrAbsent(obs, t) ==
    \/ obs.txns[t].before = 0 /\ obs.pointer = "MISSING"
    \/ obs.txns[t].before # 0 /\ ActiveNames(obs, obs.txns[t].before)

\* leftoverStaging: the action, or "" for none.
LeftoverStaging(obs) ==
    IF obs.staging.present /\ obs.generation.sealed /\ obs.generation.match
    THEN IF obs.staging.empty THEN "REMOVE_EMPTY_STAGING"
         ELSE IF obs.staging.match THEN "GC_STAGING" ELSE ""
    ELSE ""

\* Mutant: an empty generation directory is not recognised.
DecideUnsealedKeepsEmpty(obs) ==
    IF ~obs.staging.present
    THEN IF ~obs.generation.present THEN FailTxn("NONE")
         ELSE IF obs.generation.match THEN FailTxn("NONE")
         ELSE Blocked
    ELSE IF obs.generation.present THEN Blocked
    ELSE IF obs.staging.empty THEN FailTxn("REMOVE_EMPTY_STAGING")
    ELSE FailTxn("MOVE_STAGING_TO_FAILED")

\* decideCreated and decideBuilding take the same branches; only the error
\* code they record differs.
DecideUnsealed(obs) ==
    IF ~obs.staging.present
    THEN IF ~obs.generation.present THEN FailTxn("NONE")
         ELSE IF obs.generation.empty THEN FailTxn("REMOVE_EMPTY_GENERATION")
         ELSE IF obs.generation.match THEN FailTxn("NONE")
         ELSE Blocked
    ELSE IF obs.generation.present THEN Blocked
    ELSE IF obs.staging.empty THEN FailTxn("REMOVE_EMPTY_STAGING")
    ELSE FailTxn("MOVE_STAGING_TO_FAILED")

DecideSealed(obs) ==
    LET complete == obs.generation.sealed /\ obs.generation.match IN
    IF complete /\ ~obs.staging.empty /\ obs.staging.sealed /\ obs.staging.match THEN Blocked
    ELSE IF obs.generation.lineage /\ ~obs.generation.match THEN Blocked
    ELSE IF ~obs.staging.present /\ complete THEN Reconciling("PERSIST_PUBLISHED", "PUBLISHED")
    ELSE IF obs.staging.empty /\ complete THEN Reconciling("REMOVE_EMPTY_STAGING", "PUBLISHED")
    ELSE IF obs.staging.present /\ ~obs.generation.present /\ (obs.staging.sealed => obs.staging.match)
         THEN FailTxn("MOVE_STAGING_TO_FAILED")
    ELSE Blocked

DecidePublished(obs, t) ==
    IF ~(obs.generation.sealed /\ obs.generation.match) THEN Blocked
    ELSE IF LeftoverStaging(obs) # "" THEN Reconciling(LeftoverStaging(obs), "")
    ELSE IF ActiveNames(obs, t) THEN Reconciling("RECONCILE_ENV", "ACTIVATING")
    ELSE IF ExpectedPredecessorOrAbsent(obs, t) THEN Reconciling("PERSIST_ACTIVATING", "ACTIVATING")
    ELSE Blocked

DecideActivating(obs, t) ==
    IF ~(obs.generation.sealed /\ obs.generation.match) THEN Blocked
    ELSE IF ActiveNames(obs, t)
         THEN IF obs.env THEN Reconciling("COMMIT", "COMMITTED") ELSE Reconciling("RECONCILE_ENV", "")
    ELSE IF ExpectedPredecessorOrAbsent(obs, t) THEN Reconciling("ACTIVATE", "")
    ELSE Blocked

\* Mutant: a committed generation is activated again when the environment drifted.
DecideTerminalWorldReactivates(obs) ==
    LET activeRecord == IF obs.pointer = "VALID" THEN obs.txns[obs.active].state ELSE "NONE"
        unrelated == /\ obs.pointer = "VALID" /\ activeRecord = "NONE"
                     /\ \E t \in DOMAIN obs.txns : obs.txns[t].state \in ValidStates
    IN  IF unrelated THEN Nothing
        ELSE IF activeRecord = "FAILED"
             THEN IF obs.env THEN Decision("READY", "COMMIT", "COMMITTED")
                  ELSE Reconciling("RECONCILE_ENV", "ACTIVATING")
        ELSE IF activeRecord = "COMMITTED"
             THEN IF LeftoverStaging(obs) # "" THEN Decision("READY", LeftoverStaging(obs), "")
                  ELSE IF ~obs.env THEN Reconciling("RECONCILE_ENV", "ACTIVATING")
                  ELSE Nothing
        ELSE IF obs.unknown THEN Decision("READY", "DIAGNOSE_RETAIN", "")
        ELSE Nothing

\* Mutant: a failed record that active.json names is left alone.
DecideTerminalWorldIgnoresFailed(obs) ==
    LET activeRecord == IF obs.pointer = "VALID" THEN obs.txns[obs.active].state ELSE "NONE"
        unrelated == /\ obs.pointer = "VALID" /\ activeRecord = "NONE"
                     /\ \E t \in DOMAIN obs.txns : obs.txns[t].state \in ValidStates
    IN  IF unrelated THEN Nothing
        ELSE IF activeRecord = "COMMITTED"
             THEN IF LeftoverStaging(obs) # "" THEN Decision("READY", LeftoverStaging(obs), "")
                  ELSE IF ~obs.env THEN Decision("READY", "RECONCILE_ENV", "")
                  ELSE Nothing
        ELSE IF obs.unknown THEN Decision("READY", "DIAGNOSE_RETAIN", "")
        ELSE Nothing

\* decideTerminalWorld.  activeRecord is the state of the record that names the
\* active generation; a valid pointer no record names is left alone once there
\* is any history.
DecideTerminalWorld(obs) ==
    LET activeRecord == IF obs.pointer = "VALID" THEN obs.txns[obs.active].state ELSE "NONE"
        unrelated == /\ obs.pointer = "VALID" /\ activeRecord = "NONE"
                     /\ \E t \in DOMAIN obs.txns : obs.txns[t].state \in ValidStates
    IN  IF unrelated THEN Nothing
        ELSE IF activeRecord = "FAILED"
             THEN IF obs.env THEN Decision("READY", "COMMIT", "COMMITTED")
                  ELSE Reconciling("RECONCILE_ENV", "ACTIVATING")
        ELSE IF activeRecord = "COMMITTED"
             THEN IF LeftoverStaging(obs) # "" THEN Decision("READY", LeftoverStaging(obs), "")
                  ELSE IF ~obs.env THEN Decision("READY", "RECONCILE_ENV", "")
                  ELSE Nothing
        ELSE IF obs.unknown THEN Decision("READY", "DIAGNOSE_RETAIN", "")
        ELSE Nothing

DecideOne(obs, t) ==
    LET s == obs.txns[t].state IN
    IF s \in FailableStates THEN DecideUnsealed(obs)
    ELSE IF s = "SEALED" THEN DecideSealed(obs)
    ELSE IF s = "PUBLISHED" THEN DecidePublished(obs, t)
    ELSE DecideActivating(obs, t)

\* DecideRecovery.  A reserved-identifier collision cannot be observed: the
\* record files of one directory have distinct names.
DecideRecovery(obs) ==
    LET open == NonterminalTxns(obs.txns) IN
    IF obs.pointer = "INVALID" THEN Blocked
    ELSE IF \E t \in DOMAIN obs.txns : obs.txns[t].state = "INVALID" THEN Blocked
    ELSE IF open = {} THEN DecideTerminalWorld(obs)
    ELSE IF \E t \in open : open = {t} THEN DecideOne(obs, CHOOSE t \in open : TRUE)
    ELSE IF \E t \in open : obs.txns[t].state \in FailableStates
         THEN Reconciling("FAIL_FAILABLE_EXTRAS", "")
    ELSE Blocked

-----------------------------------------------------------------------------
\* rankState; unlisted states, FAILED among them, rank 0.
RankState(s) ==
    CASE s = "CREATED" -> 1 [] s = "BUILDING" -> 2 [] s = "SEALED" -> 3
      [] s = "PUBLISHED" -> 4 [] s = "ACTIVATING" -> 5 [] s = "COMMITTED" -> 6
      [] OTHER -> 0

\* forwardOrNoop: may decision d follow decision prev in one recovery?
ForwardOrNoop(prev, d) ==
    /\ d.action # "BLOCK_UNSAFE"
    /\ \/ d.action \in {"NONE", "DIAGNOSE_RETAIN", "RECONCILE_ENV"}
       \/ prev.action # d.action
       \/ /\ prev.next # "" /\ d.next # "" /\ prev.next # d.next
          /\ RankState(d.next) > RankState(prev.next)

\* The decisions that end the loop without executing anything.
Settled(d) == \/ d.action = "NONE" /\ d.next = ""
              \/ d.action = "DIAGNOSE_RETAIN"
=============================================================================
