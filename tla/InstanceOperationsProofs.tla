---------------------- MODULE InstanceOperationsProofs ----------------------
(***************************************************************************)
(* The operations on instances, for any number of operations, instances,   *)
(* faults, crashes and restarts:                                           *)
(*                                                                         *)
(*   operations of one instance keep out of each other's way;              *)
(*   while requests are served, an active row has somebody to end it;      *)
(*   a worker acts on a profile only while it may;                         *)
(*   an instance's record is not forgotten while its profile exists, as    *)
(*   far as the list that the request made can show it;                    *)
(*   a create or a delete that SUCCEEDED tells the truth.                  *)
(*                                                                         *)
(* The argument: the code checks a row with one statement and acts on it   *)
(* with another, so the inductive invariant relates each row to the place  *)
(* its request or worker has reached in the code (KeyOK), to the Cancel    *)
(* that may have read it (CancelOK), and the rows to one another.  The     *)
(* profiles are listed in one step and used in a later one: ViewInv says   *)
(* what may have happened to them in between.                              *)
(***************************************************************************)
EXTENDS InstanceOperations, TLAPS

-----------------------------------------------------------------------------
Statuses == {"NONE", "PENDING", "RUNNING", "SUCCEEDED", "FAILED", "CANCELLED"}
Requesting == {"resolved", "listed", "looked", "checked"}
WorkingPcs == {"started", "seen", "found", "acted", "relisted", "away"}

\* The types of the variables.
OpsType ==
    /\ row \in [Ops -> Row]
    /\ pc \in [Ops -> Pcs]
    /\ cancel \in [Ops -> {"none", "read", "fired"} \X Statuses]
    /\ result \in [Ops -> {"none", "ok", "failed"}]
    /\ profile \subseteq Instances /\ running \subseteq profile
    /\ avail \in [Instances \cup {NoInst} -> {"none", "AVAILABLE", "MISSING", "UNKNOWN"}]
    /\ ilock \in [Instances \cup {NoInst} -> Ops \cup {Free}]
    /\ boot \in Boots

\* A key, by where its request or its worker is: a request has no row yet, a
\* worker has one, which is RUNNING from the claim to the end, or was CANCELLED
\* by a Cancel that does not wait.
KeyOK(o) ==
    /\ pc[o] \in Requesting => row[o].status = "NONE"
    /\ row[o].status # "NONE" => row[o].type # "none"
    /\ pc[o] # "off" => row[o].type # "none"
    /\ pc[o] \notin Requesting \cup {"off"} => row[o].status # "NONE"
    /\ pc[o] = "resolved" => IsType(o, InstanceRuntimeTypes)
    /\ pc[o] \in {"listed", "looked"} => IsType(o, {"instance.delete"})
    /\ pc[o] = "away" => IsType(o, {"backup.restore"})
    /\ pc[o] = "found" => IsType(o, {"instance.delete"} \cup SkillTypes)
    /\ pc[o] \in {"claimed", "seen", "relisted"} => o \in InventoryOps
    /\ pc[o] = "queued" => row[o].status \in {"PENDING", "CANCELLED"}
    /\ pc[o] = "claimed" => row[o].status = "RUNNING"
    /\ pc[o] \in WorkingPcs => row[o].status = "RUNNING"
                               \/ (row[o].status = "CANCELLED" /\ IsType(o, Unwaited))
    /\ IsType(o, InventoryTypes) => row[o].inst # NoInst
    /\ IsType(o, InstallationTypes \ InventoryTypes) => row[o].inst = NoInst

\* operationMu is held from the look at the active rows to the insertion.
MuOK(o) ==
    /\ pc[o] = "looked" => mu = o
    /\ pc[o] = "checked" /\ IsType(o, LifecycleTypes \cup ChannelTypes \cup {"instance.delete"}) => mu = o

\* What the holder of operationMu saw stays true until it inserts its row.
SeenOK(o) ==
    /\ pc[o] = "checked" /\ IsType(o, {"instance.delete"}) =>
           ActiveOn(LifecycleTypes \cup ChannelTypes, row[o].inst) = {}
    /\ pc[o] = "checked" /\ IsType(o, LifecycleTypes \cup ChannelTypes) =>
           ActiveOf({"instance.delete"}) = {}

\* A Cancel under way is of a row; which it cancels when the worker has not begun,
\* or once it has ended.
CancelOK(o) ==
    /\ cancel[o] # NoCancel => row[o].status # "NONE"
    /\ cancel[o][1] = "none" => cancel[o] = NoCancel
    /\ o \in InventoryOps => cancel[o][2] \in {"NONE", "PENDING"}
    /\ IsType(o, SkillTypes \cup UpgradeTypes) => o \notin ctx /\ cancel[o] = NoCancel
    /\ IsType(o, MCPTypes) => cancel[o] = NoCancel /\ (o \in ctx => ~IsActive(row[o].status))
    /\ IsType(o, ChannelTypes \cup {"model.profile.apply"}) /\ o \in ctx /\ IsActive(row[o].status) =>
           cancel[o][1] = "fired"
    /\ o \in ctx => row[o].status # "NONE"

\* A channel worker holds the lock of its instance.
LockOK(o) == pc[o] \in WorkingPcs /\ IsType(o, ChannelTypes) => ilock[row[o].inst] = o

\* A row without outcome and without a worker, while requests are served.
OrphanOK(o) ==
    boot = "serving" /\ pc[o] = "off" /\ IsActive(row[o].status) =>
        /\ o \in ctx
        /\ IsType(o, LifecycleTypes \cup InventoryTypes \cup BackupTypes \cup ChannelTypes \cup {"model.profile.apply"})
        /\ IsType(o, LifecycleTypes \cup InventoryTypes \cup BackupTypes) => row[o].status = "PENDING"

\* A delete that read STOPPED while nothing else was active keeps its instance stopped.
StoppedDelete(o) ==
    /\ IsType(o, {"instance.delete"}) /\ o \notin raced
    /\ pc[o] \in {"looked", "checked"} \/ (pc[o] \notin {"off", "listed", "acted", "relisted"} /\ IsActive(row[o].status))

StoppedOK(o) ==
    StoppedDelete(o) =>
        /\ row[o].inst \notin running
        /\ ActiveOn(LifecycleTypes \cup ChannelTypes, row[o].inst) = {}
        /\ \A p \in Ops : pc[p] = "found" /\ IsType(p, SkillTypes) => row[p].inst # row[o].inst

\* What the indexes and triggers keep apart.
RowsApart ==
    \A o \in ActiveRows : \A p \in ActiveRows \ {o} :
        /\ ~(IsType(o, InstallationTypes) /\ IsType(p, InstallationTypes))
        /\ IsType(o, InstanceRuntimeTypes) /\ IsType(p, InstanceRuntimeTypes) => row[o].inst # row[p].inst
        /\ IsType(o, RuntimeWideTypes) /\ IsType(p, InstanceRuntimeTypes) => row[p].inst = NoInst

\* Between a crash and the end of the recovery passes nothing works.
BootOK ==
    /\ boot # "serving" => /\ \A o \in Ops : pc[o] = "off" /\ cancel[o] = NoCancel
                           /\ ctx = {}
    /\ boot \in {"lifecycle", "others", "list"} => ActiveOf(InventoryTypes) = {}
    /\ boot \in {"others", "list"} => ActiveOf(LifecycleTypes) = {}
    /\ boot = "list" => ActiveRows = {}

\* All of it, for one key; and the inductive invariant.
KeyInv(o) ==
    /\ KeyOK(o) /\ MuOK(o) /\ SeenOK(o) /\ CancelOK(o) /\ LockOK(o) /\ OrphanOK(o) /\ StoppedOK(o)

OpsInv ==
    /\ OpsType /\ \A o \in Ops : KeyInv(o)
    /\ DeleteKeepsOthersOut /\ RowsApart /\ BootOK

-----------------------------------------------------------------------------
(* The parts of a step.                                                    *)

USE TableAssumption, InventoryAssumption
USE DEF IsType, IsActive, NoInst, Free

\* A step of o leaves the other keys.
Local(o) ==
    \A p \in Ops \ {o} :
        /\ row'[p] = row[p] /\ pc'[p] = pc[p] /\ cancel'[p] = cancel[p]
        /\ p \in ctx' <=> p \in ctx
        /\ p \in raced' <=> p \in raced

\* It makes no row active.
Quiet(o) ==
    IsActive(row'[o].status) =>
        IsActive(row[o].status) /\ row'[o].type = row[o].type /\ row'[o].inst = row[o].inst

\* It takes or releases operationMu for o, and the instance locks.
LocksMove(o) ==
    /\ mu' = mu \/ (mu = Free /\ mu' = o) \/ (mu = o /\ mu' = Free)
    /\ \A p \in Ops \ {o} : ilock[row[p].inst] = p => ilock'[row[p].inst] = p

\* It starts the gateway of its instance only.
GatewayMoves(o) ==
    /\ \/ running' \subseteq running
       \/ /\ running' \subseteq running \cup {row[o].inst}
          /\ \/ IsType(o, LifecycleTypes) /\ IsActive(row[o].status)
             \/ IsType(o, SkillTypes) /\ pc[o] = "found"
    /\ pc'[o] = "found" /\ IsType(o, SkillTypes)' =>
           /\ row'[o].inst = row[o].inst
           /\ row[o].inst \in running \/ (pc[o] = "found" /\ IsType(o, SkillTypes))

\* Active rows that a quiet step leaves are rows that were active.
LEMMA QuietRows ==
    ASSUME OpsInv, NEW o \in Ops, Local(o), Quiet(o)
    PROVE  /\ ActiveRows' \subseteq ActiveRows
           /\ \A p \in ActiveRows' : row'[p].type = row[p].type /\ row'[p].inst = row[p].inst
BY DEF Local, Quiet, ActiveRows

\* The global parts are kept by it.
LEMMA QuietApart ==
    ASSUME OpsInv, ActiveRows' \subseteq ActiveRows,
           \A p \in ActiveRows' : row'[p].type = row[p].type /\ row'[p].inst = row[p].inst
    PROVE  DeleteKeepsOthersOut' /\ RowsApart'
<1>1. DeleteKeepsOthersOut'
    BY DEF OpsInv, DeleteKeepsOthersOut, ActiveOf, ActiveOn
<1>2. RowsApart'
    BY DEF OpsInv, RowsApart
<1> QED BY <1>1, <1>2

\* The instance of a delete that read STOPPED stays stopped.
LEMMA StoppedKept ==
    ASSUME OpsInv, NEW o \in Ops, Local(o), Quiet(o), GatewayMoves(o), NEW p \in Ops,
           StoppedDelete(p)' => StoppedDelete(p) /\ row'[p].inst = row[p].inst
    PROVE  StoppedOK(p)'
<1> SUFFICES ASSUME StoppedDelete(p), row'[p].inst = row[p].inst
             PROVE  /\ row[p].inst \notin running'
                    /\ ActiveOn(LifecycleTypes \cup ChannelTypes, row[p].inst)' = {}
                    /\ \A q \in Ops : pc'[q] = "found" /\ row'[q].type \in SkillTypes =>
                                      row'[q].inst # row[p].inst
    BY DEF StoppedOK, ActiveOn, ActiveOf, ActiveRows
<1>1. /\ ActiveRows' \subseteq ActiveRows
      /\ \A q \in ActiveRows' : row'[q].type = row[q].type /\ row'[q].inst = row[q].inst
    BY QuietRows
<1>2. /\ row[p].inst \notin running
      /\ ActiveOn(LifecycleTypes \cup ChannelTypes, row[p].inst) = {}
      /\ \A q \in Ops : pc[q] = "found" /\ IsType(q, SkillTypes) => row[q].inst # row[p].inst
    BY DEF OpsInv, KeyInv, StoppedOK
<1>3. row[p].inst \notin running'
    BY <1>2 DEF GatewayMoves, ActiveOn, ActiveOf, ActiveRows
<1>4. ActiveOn(LifecycleTypes \cup ChannelTypes, row[p].inst)' = {}
    BY <1>1, <1>2 DEF ActiveOn, ActiveOf
<1>5. ASSUME NEW q \in Ops, pc'[q] = "found", row'[q].type \in SkillTypes
      PROVE  row'[q].inst # row[p].inst
    <2>1. CASE q = o
        BY <1>2, <1>5, <2>1 DEF GatewayMoves
    <2>2. CASE q # o
        BY <1>2, <1>5, <2>2 DEF Local
    <2> QED BY <2>1, <2>2
<1> QED BY <1>3, <1>4, <1>5

\* Another key is undisturbed.
LEMMA OthersKept ==
    ASSUME OpsInv, NEW o \in Ops, Local(o), Quiet(o), LocksMove(o), GatewayMoves(o),
           boot' = "serving", boot = "serving", NEW p \in Ops \ {o}
    PROVE  KeyInv(p)'
<1>1. /\ row'[p] = row[p] /\ pc'[p] = pc[p] /\ cancel'[p] = cancel[p]
      /\ p \in ctx' <=> p \in ctx
      /\ p \in raced' <=> p \in raced
    BY DEF Local
<1>2. /\ ActiveRows' \subseteq ActiveRows
      /\ \A q \in ActiveRows' : row'[q].type = row[q].type /\ row'[q].inst = row[q].inst
    BY QuietRows
<1>3. KeyOK(p) /\ MuOK(p) /\ SeenOK(p) /\ CancelOK(p) /\ LockOK(p) /\ OrphanOK(p) /\ StoppedOK(p)
    BY DEF OpsInv, KeyInv
<1>4. KeyOK(p)'
    BY <1>1, <1>3 DEF KeyOK, InventoryOps
<1>5. MuOK(p)'
    BY <1>1, <1>3 DEF MuOK, LocksMove
<1>6. SeenOK(p)'
    BY <1>1, <1>2, <1>3 DEF SeenOK, ActiveOf, ActiveOn
<1>7. CancelOK(p)'
    BY <1>1, <1>3 DEF CancelOK, InventoryOps
<1>8. LockOK(p)'
    BY <1>1, <1>3 DEF LockOK, LocksMove
<1>9. OrphanOK(p)'
    BY <1>1, <1>3 DEF OrphanOK
<1>10. StoppedDelete(p)' => StoppedDelete(p) /\ row'[p].inst = row[p].inst
    BY <1>1 DEF StoppedDelete
<1>11. StoppedOK(p)'
    BY <1>10, StoppedKept
<1> QED BY <1>4, <1>5, <1>6, <1>7, <1>8, <1>9, <1>11 DEF KeyInv

\* A step of o keeps the invariant when it is local, quiet and keeps what holds of o.
LEMMA StepOfKey ==
    ASSUME OpsInv, OpsType', NEW o \in Ops, Local(o), Quiet(o), LocksMove(o), GatewayMoves(o),
           boot = "serving", boot' = "serving", KeyInv(o)'
    PROVE  OpsInv'
<1>1. \A p \in Ops : KeyInv(p)'
    BY OthersKept
<1>2. DeleteKeepsOthersOut' /\ RowsApart'
    BY QuietRows, QuietApart
<1>3. BootOK'
    BY DEF BootOK
<1> QED BY <1>1, <1>2, <1>3 DEF OpsInv

\* A conditional update moves one row along ValidTransition, or none.
LEMMA UpdateEffect ==
    ASSUME row \in [Ops -> Row], NEW o \in Ops, NEW from, NEW to \in Statuses, UpdateOperation(o, from, to)
    PROVE  /\ row' \in [Ops -> Row] /\ \A p \in Ops \ {o} : row'[p] = row[p]
           /\ row'[o].type = row[o].type /\ row'[o].inst = row[o].inst
           /\ row'[o].status = IF row[o].status = from /\ ValidTransition(from, to) THEN to ELSE row[o].status
BY DEF UpdateOperation, Row, Statuses

\* So does one that takes the row as it is now.
LEMMA FinishEffect ==
    ASSUME row \in [Ops -> Row], NEW o \in Ops, NEW to \in Statuses, FinishNow(o, to)
    PROVE  /\ row' \in [Ops -> Row] /\ \A p \in Ops \ {o} : row'[p] = row[p]
           /\ row'[o].type = row[o].type /\ row'[o].inst = row[o].inst
           /\ row'[o].status = IF IsActive(row[o].status) /\ ValidTransition(row[o].status, to)
                               THEN to ELSE row[o].status
BY DEF FinishNow, Row, Statuses

\* A request that begins writes down what it is about.
LEMMA RequestEffect ==
    ASSUME row \in [Ops -> Row], NEW o \in Ops, NEW t \in AllTypes \cup {"none"}, NEW i \in Instances \cup {NoInst},
           row' = [row EXCEPT ![o] = [type |-> t, inst |-> i, status |-> "NONE"]]
    PROVE  /\ row' \in [Ops -> Row] /\ \A p \in Ops \ {o} : row'[p] = row[p]
           /\ row'[o].type = t /\ row'[o].inst = i /\ row'[o].status = "NONE"
BY DEF Row

\* A request that is refused leaves nothing.
LEMMA DropEffect ==
    ASSUME row \in [Ops -> Row], pc \in [Ops -> Pcs], NEW o \in Ops, Drop(o)
    PROVE  /\ row' \in [Ops -> Row] /\ \A p \in Ops \ {o} : row'[p] = row[p]
           /\ row'[o].type = "none" /\ row'[o].inst = NoInst /\ row'[o].status = "NONE"
           /\ pc' \in [Ops -> Pcs] /\ \A p \in Ops \ {o} : pc'[p] = pc[p]
           /\ pc'[o] = "off"
BY DEF Drop, Goto, Unused, Row, Pcs

\* A key moves.
LEMMA GotoEffect ==
    ASSUME pc \in [Ops -> Pcs], NEW o \in Ops, NEW s \in Pcs, Goto(o, s)
    PROVE  /\ pc' \in [Ops -> Pcs] /\ \A p \in Ops \ {o} : pc'[p] = pc[p]
           /\ pc'[o] = s
BY DEF Goto

\* A Cancel moves.
LEMMA CancelEffect ==
    ASSUME OpsType, NEW o \in Ops, NEW s \in {"none", "read", "fired"}, NEW from \in Statuses,
           cancel' = [cancel EXCEPT ![o] = <<s, from>>]
    PROVE  /\ cancel' \in [Ops -> {"none", "read", "fired"} \X Statuses]
           /\ \A p \in Ops \ {o} : cancel'[p] = cancel[p]
           /\ cancel'[o] = <<s, from>> /\ cancel'[o][1] = s /\ cancel'[o][2] = from
BY DEF OpsType


-----------------------------------------------------------------------------
(* Requests. *)

\* A request for a lifecycle operation looks at the active rows under operationMu.
LEMMA StartLifecycleKeeps ==
    ASSUME OpsInv, NEW o \in Ops, StartLifecycle(o), UNCHANGED rest, boot = "serving"
    PROVE  OpsInv'
<1>1. row \in [Ops -> Row] /\ pc \in [Ops -> Pcs] /\ KeyInv(o)
    BY DEF OpsInv, OpsType
<1>2. CASE Drop(o) /\ mu' = mu
    <2>1. /\ row' \in [Ops -> Row] /\ \A p \in Ops \ {o} : row'[p] = row[p]
          /\ row'[o].type = "none" /\ row'[o].inst = NoInst /\ row'[o].status = "NONE"
          /\ pc' \in [Ops -> Pcs] /\ \A p \in Ops \ {o} : pc'[p] = pc[p]
          /\ pc'[o] = "off"
        BY <1>1, <1>2, DropEffect
    <2>2. OpsType'
        BY <2>1 DEF StartLifecycle, OpsInv, OpsType, rest
    <2>3. Local(o) /\ Quiet(o) /\ LocksMove(o) /\ GatewayMoves(o)
        BY <1>2, <2>1 DEF StartLifecycle, Local, Quiet, LocksMove, GatewayMoves, rest
    <2>4. KeyInv(o)'
        BY <1>1, <2>1 DEF StartLifecycle, KeyInv, KeyOK, MuOK, SeenOK, CancelOK, LockOK, OrphanOK, StoppedOK, StoppedDelete, WorkingPcs, Requesting, InventoryOps, LifecycleTypes, InventoryTypes
    <2> QED BY <2>2, <2>3, <2>4, StepOfKey DEF rest
<1>3. CASE Goto(o, "checked") /\ mu' = o /\ row' = row /\ ~ActiveInstanceMutation
    <2>1. /\ pc' \in [Ops -> Pcs] /\ \A p \in Ops \ {o} : pc'[p] = pc[p]
          /\ pc'[o] = "checked"
        BY <1>1, <1>3, GotoEffect DEF Pcs
    <2>2. OpsType'
        BY <1>3, <2>1 DEF StartLifecycle, OpsInv, OpsType, rest
    <2>3. Local(o) /\ Quiet(o) /\ LocksMove(o) /\ GatewayMoves(o)
        BY <1>3, <2>1 DEF StartLifecycle, Local, Quiet, LocksMove, GatewayMoves, rest
    <2>5. row[o].type \in LifecycleTypes /\ pc[o] = "resolved" BY DEF StartLifecycle
    <2>4. KeyInv(o)'
        <3>1. KeyOK(o)'  BY <1>1, <1>3, <2>1, <2>5 DEF KeyInv, KeyOK, WorkingPcs, Requesting
        <3>2. MuOK(o)'  BY <1>1, <1>3, <2>1, <2>5 DEF MuOK
        <3>3. ActiveOf({"instance.delete"}) = {}
             BY <1>3 DEF ActiveInstanceMutation, ActiveOf, InstallationTypes, InventoryTypes
        <3>4. SeenOK(o)' BY <1>3, <2>5, <3>3 DEF SeenOK, LifecycleTypes, ActiveOf, ActiveRows
        <3>5. CancelOK(o)' /\ LockOK(o)' /\ OrphanOK(o)' /\ StoppedOK(o)'
            BY <1>1, <1>3, <2>1, <2>5 DEF StartLifecycle, KeyInv, CancelOK, LockOK, OrphanOK, StoppedOK, StoppedDelete, InventoryOps, WorkingPcs, LifecycleTypes
        <3> QED BY <3>1, <3>2, <3>4, <3>5 DEF KeyInv
    <2> QED BY <2>2, <2>3, <2>4, StepOfKey DEF rest
<1> QED BY <1>2, <1>3 DEF StartLifecycle

\* A request for an instance resolves its target.
LEMMA ResolveKeeps ==
    ASSUME OpsInv, NEW o \in Ops, NEW type \in Types \cap InstanceRuntimeTypes, NEW i \in Instances, Resolve(o, type, i), UNCHANGED rest, boot = "serving"
    PROVE  OpsInv'
<1>1. OpsType /\ row \in [Ops -> Row] /\ pc \in [Ops -> Pcs] /\ KeyInv(o)
    BY DEF OpsInv, OpsType
<1>2. OpsInv'
    <2>1. pc[o] = "off" /\ row[o].status = "NONE"
        BY <1>1 DEF Resolve
    <2>2. /\ row' \in [Ops -> Row] /\ \A p \in Ops \ {o} : row'[p] = row[p]
          /\ row'[o].type = type /\ row'[o].inst = i /\ row'[o].status = "NONE"
        BY <1>1, RequestEffect DEF Resolve, Statuses, AllTypes
    <2>3. /\ pc' \in [Ops -> Pcs] /\ \A p \in Ops \ {o} : pc'[p] = pc[p]
          /\ pc'[o] = "resolved"
        BY <1>1, <2>1, GotoEffect DEF Resolve, Pcs
    <2>4. cancel' = cancel
        BY <1>1, <2>1 DEF Resolve
    <2>5. OpsType'
        BY <1>1, <2>2, <2>3 DEF Resolve, rest, OpsType
    <2>6. Local(o) /\ Quiet(o) /\ LocksMove(o) /\ GatewayMoves(o)
        BY <2>3, <2>4 DEF Resolve, rest, Local, Quiet, LocksMove, GatewayMoves, ValidTransition
    <2>7. KeyOK(o)'
        BY <2>2, <2>3 DEF KeyOK, WorkingPcs, Requesting, ValidTransition, LifecycleTypes, ChannelTypes, SkillTypes, MCPTypes, BackupTypes, UpgradeTypes, InventoryTypes, InstallationTypes, InstanceRuntimeTypes, Unwaited
    <2>8. MuOK(o)'
        BY <2>3, <2>4 DEF KeyInv, KeyOK, MuOK
    <2>9. SeenOK(o)'
        BY <2>3, <2>4 DEF KeyInv, KeyOK, SeenOK
    <2>10. CancelOK(o)'
        BY <1>1, <2>1 DEF Resolve, KeyInv, CancelOK, InventoryOps, NoCancel
    <2>11. LockOK(o)'
        BY <2>3, <2>4 DEF KeyOK, LockOK, WorkingPcs
    <2>12. OrphanOK(o)'
        BY <1>1, <2>2 DEF KeyInv, KeyOK, OrphanOK
    <2>13. StoppedDelete(o)' => StoppedDelete(o) /\ row'[o].inst = row[o].inst
        BY <2>2, <2>3 DEF StoppedDelete, KeyInv, SeenOK
    <2>14. StoppedOK(o)'
        BY <1>1, <2>6, <2>13, StoppedKept
    <2> QED
        BY <1>1, <2>1, <2>5, <2>6, <2>7, <2>8, <2>9, <2>10, <2>11, <2>12, <2>14, StepOfKey DEF KeyInv, rest
<1> QED BY <1>2

\* A request to create an instance lists the instances.
LEMMA ListForCreateKeeps ==
    ASSUME OpsInv, NEW o \in Ops, NEW i \in Instances, NEW listed \in BOOLEAN, ListForCreate(o, i, listed), UNCHANGED rest, boot = "serving"
    PROVE  OpsInv'
<1>1. OpsType /\ row \in [Ops -> Row] /\ pc \in [Ops -> Pcs] /\ KeyInv(o)
    BY DEF OpsInv, OpsType
<1>2. OpsInv'
    <2>1. pc[o] = "off" /\ row[o].status = "NONE"
        BY <1>1 DEF ListForCreate
    <2>2. /\ row' \in [Ops -> Row] /\ \A p \in Ops \ {o} : row'[p] = row[p]
          /\ row'[o].type = "instance.create" /\ row'[o].inst = i /\ row'[o].status = "NONE"
        BY <1>1, RequestEffect DEF ListForCreate, Statuses, AllTypes, LifecycleTypes, InventoryTypes, InstallationTypes, InstanceRuntimeTypes
    <2>3. /\ pc' \in [Ops -> Pcs] /\ \A p \in Ops \ {o} : pc'[p] = pc[p]
          /\ pc'[o] = "checked"
        BY <1>1, <2>1, GotoEffect DEF ListForCreate, Pcs
    <2>4. cancel' = cancel
        BY <1>1, <2>1 DEF ListForCreate
    <2>5. OpsType'
        BY <1>1, <2>2, <2>3 DEF ListForCreate, rest, OpsType, Snapshot, Unknown, Inventory, Unlisted, Visible, ListInstances
    <2>6. Local(o) /\ Quiet(o) /\ LocksMove(o) /\ GatewayMoves(o)
        BY <2>3, <2>4 DEF ListForCreate, rest, Local, Quiet, LocksMove, GatewayMoves, ValidTransition
    <2>7. KeyOK(o)'
        BY <2>2, <2>3 DEF KeyOK, WorkingPcs, Requesting, ValidTransition, LifecycleTypes, InventoryTypes
    <2>8. MuOK(o)'
        BY <2>2, <2>3 DEF KeyOK, MuOK, LifecycleTypes, ChannelTypes, SkillTypes, InventoryTypes
    <2>9. SeenOK(o)'
        BY <1>1, <2>2 DEF SeenOK, LifecycleTypes, ChannelTypes, SkillTypes, InventoryTypes
    <2>10. CancelOK(o)'
        BY <1>1, <2>1 DEF ListForCreate, KeyInv, CancelOK, InventoryOps, NoCancel
    <2>11. LockOK(o)'
        BY <2>3, <2>4 DEF KeyOK, LockOK, WorkingPcs
    <2>12. OrphanOK(o)'
        BY <1>1, <2>2 DEF KeyInv, KeyOK, OrphanOK
    <2>13. StoppedDelete(o)' => StoppedDelete(o) /\ row'[o].inst = row[o].inst
        BY <1>1, <2>2 DEF StoppedDelete, KeyInv, SeenOK
    <2>14. StoppedOK(o)'
        BY <1>1, <2>6, <2>13, StoppedKept
    <2> QED
        BY <1>1, <2>1, <2>5, <2>6, <2>7, <2>8, <2>9, <2>10, <2>11, <2>12, <2>14, StepOfKey DEF KeyInv, rest
<1> QED BY <1>2

\* A request to delete an instance lists the instances.
LEMMA ListForDeleteKeeps ==
    ASSUME OpsInv, NEW o \in Ops, NEW i \in Instances, ListForDelete(o, i), UNCHANGED rest, boot = "serving"
    PROVE  OpsInv'
<1>1. OpsType /\ row \in [Ops -> Row] /\ pc \in [Ops -> Pcs] /\ KeyInv(o)
    BY DEF OpsInv, OpsType
<1>2. OpsInv'
    <2>1. pc[o] = "off" /\ row[o].status = "NONE"
        BY <1>1 DEF ListForDelete
    <2>2. /\ row' \in [Ops -> Row] /\ \A p \in Ops \ {o} : row'[p] = row[p]
          /\ row'[o].type = "instance.delete" /\ row'[o].inst = i /\ row'[o].status = "NONE"
        BY <1>1, RequestEffect DEF ListForDelete, Statuses, AllTypes, LifecycleTypes, InventoryTypes, InstallationTypes, InstanceRuntimeTypes
    <2>3. /\ pc' \in [Ops -> Pcs] /\ \A p \in Ops \ {o} : pc'[p] = pc[p]
          /\ pc'[o] = "listed"
        BY <1>1, <2>1, GotoEffect DEF ListForDelete, Pcs
    <2>4. cancel' = cancel
        BY <1>1, <2>1 DEF ListForDelete
    <2>5. OpsType'
        BY <1>1, <2>2, <2>3 DEF ListForDelete, rest, OpsType, Snapshot, Unknown, Inventory, Unlisted, Visible, ListInstances
    <2>6. Local(o) /\ Quiet(o) /\ LocksMove(o) /\ GatewayMoves(o)
        BY <2>3, <2>4 DEF ListForDelete, rest, Local, Quiet, LocksMove, GatewayMoves, ValidTransition
    <2>7. KeyOK(o)'
        BY <2>2, <2>3 DEF KeyOK, WorkingPcs, Requesting, ValidTransition, LifecycleTypes, InventoryTypes
    <2>8. MuOK(o)'
        BY <2>3, <2>4 DEF KeyInv, KeyOK, MuOK
    <2>9. SeenOK(o)'
        BY <2>3, <2>4 DEF KeyInv, KeyOK, SeenOK
    <2>10. CancelOK(o)'
        BY <1>1, <2>1 DEF ListForDelete, KeyInv, CancelOK, InventoryOps, NoCancel
    <2>11. LockOK(o)'
        BY <2>3, <2>4 DEF KeyOK, LockOK, WorkingPcs
    <2>12. OrphanOK(o)'
        BY <1>1, <2>2 DEF KeyInv, KeyOK, OrphanOK
    <2>13. StoppedDelete(o)' => StoppedDelete(o) /\ row'[o].inst = row[o].inst
        BY <1>1, <2>3 DEF StoppedDelete, KeyInv, SeenOK
    <2>14. StoppedOK(o)'
        BY <1>1, <2>6, <2>13, StoppedKept
    <2> QED
        BY <1>1, <2>1, <2>5, <2>6, <2>7, <2>8, <2>9, <2>10, <2>11, <2>12, <2>14, StepOfKey DEF KeyInv, rest
<1> QED BY <1>2

\* A request to apply a model profile holds operationMu.
LEMMA StartModelKeeps ==
    ASSUME OpsInv, NEW o \in Ops, StartModelProfileApplication(o), UNCHANGED rest, boot = "serving"
    PROVE  OpsInv'
<1>1. OpsType /\ row \in [Ops -> Row] /\ pc \in [Ops -> Pcs] /\ KeyInv(o)
    BY DEF OpsInv, OpsType
<1>2. OpsInv'
    <2>1. pc[o] = "off" /\ row[o].status = "NONE" /\ mu = Free /\ mu' = o
        BY <1>1 DEF StartModelProfileApplication, Request
    <2>2. /\ row' \in [Ops -> Row] /\ \A p \in Ops \ {o} : row'[p] = row[p]
          /\ row'[o].type = "model.profile.apply" /\ row'[o].inst = NoInst /\ row'[o].status = "NONE"
        BY <1>1, RequestEffect DEF StartModelProfileApplication, Statuses, AllTypes, InstallationTypes, InstanceRuntimeTypes, Request
    <2>3. /\ pc' \in [Ops -> Pcs] /\ \A p \in Ops \ {o} : pc'[p] = pc[p]
          /\ pc'[o] = "checked"
        BY <1>1, <2>1, GotoEffect DEF StartModelProfileApplication, Pcs, Request
    <2>4. cancel' = cancel
        BY <1>1, <2>1 DEF StartModelProfileApplication, Request
    <2>5. OpsType'
        BY <1>1, <2>2, <2>3 DEF StartModelProfileApplication, rest, OpsType, Request
    <2>6. Local(o) /\ Quiet(o) /\ LocksMove(o) /\ GatewayMoves(o)
        BY <2>3, <2>4 DEF StartModelProfileApplication, rest, Local, Quiet, LocksMove, GatewayMoves, ValidTransition, Request
    <2>7. KeyOK(o)'
        BY <2>2, <2>3 DEF KeyOK, WorkingPcs, Requesting, ValidTransition, LifecycleTypes, InventoryTypes, Request
    <2>8. MuOK(o)'
        BY <1>1, <2>1 DEF KeyOK, MuOK, Request
    <2>9. SeenOK(o)'
        BY <1>1, <2>2 DEF SeenOK, LifecycleTypes, ChannelTypes, SkillTypes, InventoryTypes, Request
    <2>10. CancelOK(o)'
        BY <1>1, <2>1 DEF StartModelProfileApplication, KeyInv, CancelOK, InventoryOps, NoCancel, Request
    <2>11. LockOK(o)'
        BY <2>3, <2>4 DEF KeyOK, LockOK, WorkingPcs, Request
    <2>12. OrphanOK(o)'
        BY <1>1, <2>2 DEF KeyInv, OrphanOK, Request
    <2>13. StoppedDelete(o)' => StoppedDelete(o) /\ row'[o].inst = row[o].inst
        BY <1>1, <2>2 DEF StoppedDelete, SeenOK, Request
    <2>14. StoppedOK(o)'
        BY <1>1, <2>6, <2>13, StoppedKept
    <2> QED
        BY <1>1, <2>1, <2>5, <2>6, <2>7, <2>8, <2>9, <2>10, <2>11, <2>12, <2>14, StepOfKey DEF KeyInv, rest
<1> QED BY <1>2

\* A request for a backup.
LEMMA StartBackupKeeps ==
    ASSUME OpsInv, NEW o \in Ops, NEW type, StartBackup(o, type), UNCHANGED rest, boot = "serving"
    PROVE  OpsInv'
<1>1. OpsType /\ row \in [Ops -> Row] /\ pc \in [Ops -> Pcs] /\ KeyInv(o)
    BY DEF OpsInv, OpsType
<1>2. OpsInv'
    <2>1. pc[o] = "off" /\ row[o].status = "NONE" /\ type \in BackupTypes
        BY <1>1 DEF StartBackup, Request
    <2>2. /\ row' \in [Ops -> Row] /\ \A p \in Ops \ {o} : row'[p] = row[p]
          /\ row'[o].type = type /\ row'[o].inst = NoInst /\ row'[o].status = "NONE"
        BY <1>1, RequestEffect DEF StartBackup, Statuses, AllTypes, InstallationTypes, InstanceRuntimeTypes, Request
    <2>3. /\ pc' \in [Ops -> Pcs] /\ \A p \in Ops \ {o} : pc'[p] = pc[p]
          /\ pc'[o] = "checked"
        BY <1>1, <2>1, GotoEffect DEF StartBackup, Pcs, Request
    <2>4. cancel' = cancel
        BY <1>1, <2>1 DEF StartBackup, Request
    <2>5. OpsType'
        BY <1>1, <2>2, <2>3 DEF StartBackup, rest, OpsType, Request
    <2>6. Local(o) /\ Quiet(o) /\ LocksMove(o) /\ GatewayMoves(o)
        BY <2>3, <2>4 DEF StartBackup, rest, Local, Quiet, LocksMove, GatewayMoves, ValidTransition, Request
    <2>7. KeyOK(o)'
        BY <2>1, <2>2, <2>3 DEF KeyOK, WorkingPcs, Requesting, ValidTransition, LifecycleTypes, MCPTypes, BackupTypes, InventoryTypes, Request
    <2>8. MuOK(o)'
        BY <2>1, <2>2, <2>3 DEF KeyOK, MuOK, LifecycleTypes, ChannelTypes, SkillTypes, MCPTypes, BackupTypes, InventoryTypes, Request
    <2>9. SeenOK(o)'
        BY <2>1, <2>2 DEF SeenOK, LifecycleTypes, ChannelTypes, SkillTypes, MCPTypes, BackupTypes, InventoryTypes, Request
    <2>10. CancelOK(o)'
        BY <1>1, <2>1 DEF StartBackup, KeyInv, CancelOK, InventoryOps, NoCancel, Request
    <2>11. LockOK(o)'
        BY <2>3, <2>4 DEF KeyOK, LockOK, WorkingPcs, Request
    <2>12. OrphanOK(o)'
        BY <1>1, <2>2 DEF KeyInv, OrphanOK, Request
    <2>13. StoppedDelete(o)' => StoppedDelete(o) /\ row'[o].inst = row[o].inst
        BY <2>1, <2>2 DEF StoppedDelete, SeenOK, MCPTypes, BackupTypes, Request
    <2>14. StoppedOK(o)'
        BY <1>1, <2>6, <2>13, StoppedKept
    <2> QED
        BY <1>1, <2>1, <2>5, <2>6, <2>7, <2>8, <2>9, <2>10, <2>11, <2>12, <2>14, StepOfKey DEF KeyInv, rest
<1> QED BY <1>2

\* A request for an upgrade.
LEMMA StartUpgradeKeeps ==
    ASSUME OpsInv, NEW o \in Ops, NEW type, StartUpgrade(o, type), UNCHANGED rest, boot = "serving"
    PROVE  OpsInv'
<1>1. OpsType /\ row \in [Ops -> Row] /\ pc \in [Ops -> Pcs] /\ KeyInv(o)
    BY DEF OpsInv, OpsType
<1>2. OpsInv'
    <2>1. pc[o] = "off" /\ row[o].status = "NONE" /\ type \in UpgradeTypes
        BY <1>1 DEF StartUpgrade, Request
    <2>2. /\ row' \in [Ops -> Row] /\ \A p \in Ops \ {o} : row'[p] = row[p]
          /\ row'[o].type = type /\ row'[o].inst = NoInst /\ row'[o].status = "NONE"
        BY <1>1, RequestEffect DEF StartUpgrade, Statuses, AllTypes, InstallationTypes, InstanceRuntimeTypes, Request
    <2>3. /\ pc' \in [Ops -> Pcs] /\ \A p \in Ops \ {o} : pc'[p] = pc[p]
          /\ pc'[o] = "checked"
        BY <1>1, <2>1, GotoEffect DEF StartUpgrade, Pcs, Request
    <2>4. cancel' = cancel
        BY <1>1, <2>1 DEF StartUpgrade, Request
    <2>5. OpsType'
        BY <1>1, <2>2, <2>3 DEF StartUpgrade, rest, OpsType, Request
    <2>6. Local(o) /\ Quiet(o) /\ LocksMove(o) /\ GatewayMoves(o)
        BY <2>3, <2>4 DEF StartUpgrade, rest, Local, Quiet, LocksMove, GatewayMoves, ValidTransition, Request
    <2>7. KeyOK(o)'
        BY <2>1, <2>2, <2>3 DEF KeyOK, WorkingPcs, Requesting, ValidTransition, LifecycleTypes, MCPTypes, BackupTypes, UpgradeTypes, InventoryTypes, Unwaited, Request
    <2>8. MuOK(o)'
        BY <2>1, <2>2, <2>3 DEF KeyOK, MuOK, LifecycleTypes, ChannelTypes, SkillTypes, MCPTypes, BackupTypes, UpgradeTypes, InventoryTypes, Unwaited, Request
    <2>9. SeenOK(o)'
        BY <2>1, <2>2 DEF SeenOK, LifecycleTypes, ChannelTypes, SkillTypes, MCPTypes, BackupTypes, UpgradeTypes, InventoryTypes, Unwaited, Request
    <2>10. CancelOK(o)'
        BY <1>1, <2>1 DEF StartUpgrade, KeyInv, CancelOK, InventoryOps, NoCancel, Request
    <2>11. LockOK(o)'
        BY <2>3, <2>4 DEF KeyOK, LockOK, WorkingPcs, Request
    <2>12. OrphanOK(o)'
        BY <1>1, <2>2 DEF KeyInv, OrphanOK, Request
    <2>13. StoppedDelete(o)' => StoppedDelete(o) /\ row'[o].inst = row[o].inst
        BY <2>1, <2>2 DEF StoppedDelete, SeenOK, MCPTypes, BackupTypes, UpgradeTypes, Unwaited, ManagedTypes, Request
    <2>14. StoppedOK(o)'
        BY <1>1, <2>6, <2>13, StoppedKept
    <2> QED
        BY <1>1, <2>1, <2>5, <2>6, <2>7, <2>8, <2>9, <2>10, <2>11, <2>12, <2>14, StepOfKey DEF KeyInv, rest
<1> QED BY <1>2

\* A delete that finds its instance stopped and takes operationMu has seen what else is active, or is noted in raced.
LEMMA LookForDeleteKeeps ==
    ASSUME OpsInv, NEW o \in Ops, LookForDelete(o), UNCHANGED rest, boot = "serving"
    PROVE  OpsInv'
<1>1. OpsType /\ row \in [Ops -> Row] /\ pc \in [Ops -> Pcs] /\ KeyInv(o)
    BY DEF OpsInv, OpsType
<1>2. CASE avail[row[o].inst] = "AVAILABLE" /\ row[o].inst \in Visible \ running
    <2>1. pc[o] = "listed" /\ IsType(o, {"instance.delete"}) /\ mu = Free /\ mu' = o
        BY <1>1, <1>2 DEF LookForDelete, KeyInv, KeyOK
    <2>2. row' = row
        BY <1>1, <1>2, <2>1 DEF LookForDelete, Statuses
    <2>3. /\ pc' \in [Ops -> Pcs] /\ \A p \in Ops \ {o} : pc'[p] = pc[p]
          /\ pc'[o] = "looked"
        BY <1>1, <1>2, <2>1, GotoEffect DEF LookForDelete, Pcs
    <2>4. cancel' = cancel
        BY <1>1, <1>2, <2>1 DEF LookForDelete
    <2>5. OpsType'
        BY <1>1, <1>2, <2>3 DEF LookForDelete, rest, OpsType
    <2>6. Local(o) /\ Quiet(o) /\ LocksMove(o) /\ GatewayMoves(o)
        BY <1>2, <2>3 DEF LookForDelete, rest, Local, Quiet, LocksMove, GatewayMoves, ValidTransition
    <2>7. KeyOK(o)'
        BY <1>1, <1>2, <2>1, <2>2, <2>3 DEF KeyInv, KeyOK, WorkingPcs, Requesting, ValidTransition
    <2>8. MuOK(o)'
        BY <1>2, <2>1 DEF KeyInv, KeyOK, MuOK
    <2>9. SeenOK(o)'
        BY <1>2, <2>3 DEF KeyInv, KeyOK, SeenOK
    <2>10. CancelOK(o)'
        BY <1>1, <1>2 DEF LookForDelete, KeyInv, CancelOK, InventoryOps, NoCancel
    <2>11. LockOK(o)'
        BY <1>2, <2>3 DEF KeyOK, LockOK, WorkingPcs
    <2>12. OrphanOK(o)'
        BY <1>2, <2>3 DEF KeyInv, KeyOK, OrphanOK
    <2>14. StoppedOK(o)'
        <3> SUFFICES ASSUME o \notin raced'
                     PROVE  /\ row[o].inst \notin running'
                            /\ ActiveOn(LifecycleTypes \cup ChannelTypes, row[o].inst) = {}
                            /\ \A p \in Ops : pc[p] = "found" /\ IsType(p, SkillTypes) => row[p].inst # row[o].inst
            BY <2>2, <2>3 DEF StoppedOK, StoppedDelete, ActiveOn, ActiveOf, ActiveRows
        <3>1. ActiveOn(InstanceRuntimeTypes, row[o].inst) = {}
            BY <1>2 DEF LookForDelete, ActiveInstanceRuntimeMutation
        <3>2. row[o].inst \notin running'
            BY <1>2 DEF LookForDelete
        <3>3. ActiveOn(LifecycleTypes \cup ChannelTypes, row[o].inst) = {}
            BY <3>1 DEF ActiveOn, ActiveOf, InstanceRuntimeTypes
        <3>4. ASSUME NEW p \in Ops, pc[p] = "found", IsType(p, SkillTypes)
              PROVE  row[p].inst # row[o].inst
            <4>1. row[p].status = "RUNNING"
                BY <3>4 DEF OpsInv, KeyInv, KeyOK, WorkingPcs, Unwaited, SkillTypes, MCPTypes, BackupTypes
            <4>2. p \in ActiveOf(InstanceRuntimeTypes)
                BY <3>4, <4>1 DEF ActiveOf, ActiveRows, InstanceRuntimeTypes
            <4> QED BY <3>1, <4>2 DEF ActiveOn
        <3> QED BY <3>2, <3>3, <3>4
    <2> QED
        BY <1>1, <2>1, <2>5, <2>6, <2>7, <2>8, <2>9, <2>10, <2>11, <2>12, <2>14, StepOfKey DEF KeyInv, rest
<1>3. CASE ~(avail[row[o].inst] = "AVAILABLE" /\ row[o].inst \in Visible \ running)
    <2>1. pc[o] = "listed"
        BY <1>1, <1>3 DEF LookForDelete
    <2>2. /\ row' \in [Ops -> Row] /\ \A p \in Ops \ {o} : row'[p] = row[p]
          /\ row'[o].type = "none" /\ row'[o].inst = NoInst /\ row'[o].status = "NONE"
          /\ pc' \in [Ops -> Pcs] /\ \A p \in Ops \ {o} : pc'[p] = pc[p]
          /\ pc'[o] = "off"
        BY <1>1, <1>3, <2>1, DropEffect DEF LookForDelete, Statuses
    <2>3. TRUE
        OBVIOUS
    <2>4. cancel' = cancel
        BY <1>1, <1>3, <2>1 DEF LookForDelete
    <2>5. OpsType'
        BY <1>1, <1>3, <2>2 DEF LookForDelete, rest, OpsType
    <2>6. Local(o) /\ Quiet(o) /\ LocksMove(o) /\ GatewayMoves(o)
        BY <1>3, <2>2 DEF LookForDelete, rest, Local, Quiet, LocksMove, GatewayMoves, ValidTransition
    <2>7. KeyOK(o)'
        BY <1>3, <2>2 DEF KeyOK, WorkingPcs, LifecycleTypes, InventoryTypes
    <2>8. MuOK(o)'
        BY <1>3, <2>2 DEF KeyInv, KeyOK, MuOK
    <2>9. SeenOK(o)'
        BY <1>3, <2>2 DEF KeyInv, KeyOK, SeenOK
    <2>10. CancelOK(o)'
        BY <1>1, <1>3 DEF LookForDelete, KeyInv, KeyOK, CancelOK, Requesting, InventoryOps, ValidTransition, NoCancel
    <2>11. LockOK(o)'
        BY <1>3, <2>2 DEF KeyOK, LockOK, WorkingPcs
    <2>12. OrphanOK(o)'
        BY <1>3, <2>2 DEF KeyInv, KeyOK, OrphanOK
    <2>13. StoppedDelete(o)' => StoppedDelete(o) /\ row'[o].inst = row[o].inst
        BY <1>3, <2>2 DEF StoppedDelete, KeyInv, SeenOK
    <2>14. StoppedOK(o)'
        BY <1>1, <2>6, <2>13, StoppedKept
    <2> QED
        BY <1>1, <2>1, <2>5, <2>6, <2>7, <2>8, <2>9, <2>10, <2>11, <2>12, <2>14, StepOfKey DEF KeyInv, rest
<1> QED BY <1>2, <1>3 DEF LookForDelete

\* The second look of a delete is made under operationMu.
LEMMA CheckDeleteKeeps ==
    ASSUME OpsInv, NEW o \in Ops, CheckDelete(o), UNCHANGED rest, boot = "serving"
    PROVE  OpsInv'
<1>1. OpsType /\ row \in [Ops -> Row] /\ pc \in [Ops -> Pcs] /\ KeyInv(o)
    BY DEF OpsInv, OpsType
<1>2. CASE ActiveInstanceRuntimeMutation(row[o].inst) \/ ActiveInstanceMutation
    <2>1. pc[o] = "looked" /\ mu = o /\ Drop(o) /\ mu' = Free
        BY <1>1, <1>2 DEF CheckDelete, KeyInv, MuOK
    <2>2. /\ row' \in [Ops -> Row] /\ \A p \in Ops \ {o} : row'[p] = row[p]
          /\ row'[o].type = "none" /\ row'[o].inst = NoInst /\ row'[o].status = "NONE"
          /\ pc' \in [Ops -> Pcs] /\ \A p \in Ops \ {o} : pc'[p] = pc[p]
          /\ pc'[o] = "off"
        BY <1>1, <1>2, <2>1, DropEffect DEF CheckDelete, Statuses
    <2>3. TRUE
        OBVIOUS
    <2>4. cancel' = cancel
        BY <1>1, <1>2, <2>1 DEF CheckDelete
    <2>5. OpsType'
        BY <1>1, <1>2, <2>2 DEF CheckDelete, rest, OpsType
    <2>6. Local(o) /\ Quiet(o) /\ LocksMove(o) /\ GatewayMoves(o)
        BY <1>2, <2>1, <2>2 DEF CheckDelete, rest, Local, Quiet, LocksMove, GatewayMoves, ValidTransition
    <2>7. KeyOK(o)'
        BY <1>2, <2>2 DEF KeyOK, WorkingPcs, LifecycleTypes, InventoryTypes
    <2>8. MuOK(o)'
        BY <1>2, <2>2 DEF KeyInv, KeyOK, MuOK
    <2>9. SeenOK(o)'
        BY <1>2, <2>2 DEF KeyInv, KeyOK, SeenOK
    <2>10. CancelOK(o)'
        BY <1>1, <1>2 DEF CheckDelete, KeyInv, KeyOK, CancelOK, Requesting, InventoryOps, ValidTransition, NoCancel
    <2>11. LockOK(o)'
        BY <1>2, <2>2 DEF KeyOK, LockOK, WorkingPcs
    <2>12. OrphanOK(o)'
        BY <1>2, <2>2 DEF KeyInv, KeyOK, OrphanOK
    <2>13. StoppedDelete(o)' => StoppedDelete(o) /\ row'[o].inst = row[o].inst
        BY <1>2, <2>2 DEF StoppedDelete, KeyInv, SeenOK
    <2>14. StoppedOK(o)'
        BY <1>1, <2>6, <2>13, StoppedKept
    <2> QED
        BY <1>1, <2>1, <2>5, <2>6, <2>7, <2>8, <2>9, <2>10, <2>11, <2>12, <2>14, StepOfKey DEF KeyInv, rest
<1>3. CASE ~(ActiveInstanceRuntimeMutation(row[o].inst) \/ ActiveInstanceMutation)
    <2>1. pc[o] = "looked" /\ mu = o /\ mu' = mu /\ IsType(o, {"instance.delete"}) /\ Goto(o, "checked")
        BY <1>1, <1>3 DEF CheckDelete, KeyInv, MuOK, KeyOK
    <2>2. row' = row
        BY <1>1, <1>3, <2>1 DEF CheckDelete, Statuses
    <2>3. /\ pc' \in [Ops -> Pcs] /\ \A p \in Ops \ {o} : pc'[p] = pc[p]
          /\ pc'[o] = "checked"
        BY <1>1, <1>3, <2>1, GotoEffect DEF CheckDelete, Pcs
    <2>4. cancel' = cancel
        BY <1>1, <1>3, <2>1 DEF CheckDelete
    <2>5. OpsType'
        BY <1>1, <1>3, <2>3 DEF CheckDelete, rest, OpsType
    <2>6. Local(o) /\ Quiet(o) /\ LocksMove(o) /\ GatewayMoves(o)
        BY <1>3, <2>3 DEF CheckDelete, rest, Local, Quiet, LocksMove, GatewayMoves, ValidTransition
    <2>7. KeyOK(o)'
        BY <1>1, <1>3, <2>1, <2>2, <2>3 DEF KeyInv, KeyOK, WorkingPcs, Requesting, ValidTransition
    <2>8. MuOK(o)'
        BY <1>3, <2>1 DEF KeyInv, KeyOK, MuOK
    <2>9. SeenOK(o)'
        BY <1>3, <2>1, <2>2 DEF SeenOK, ActiveInstanceRuntimeMutation, ActiveOn, ActiveOf, ActiveRows, InstanceRuntimeTypes, LifecycleTypes, ChannelTypes
    <2>10. CancelOK(o)'
        BY <1>1, <1>3 DEF CheckDelete, KeyInv, CancelOK, InventoryOps, NoCancel
    <2>11. LockOK(o)'
        BY <1>3, <2>3 DEF KeyOK, LockOK, WorkingPcs
    <2>12. OrphanOK(o)'
        BY <1>3, <2>3 DEF KeyInv, KeyOK, OrphanOK
    <2>13. StoppedDelete(o)' => StoppedDelete(o) /\ row'[o].inst = row[o].inst
        BY <1>1, <1>3 DEF CheckDelete, StoppedDelete, SeenOK
    <2>14. StoppedOK(o)'
        BY <1>1, <2>6, <2>13, StoppedKept
    <2> QED
        BY <1>1, <2>1, <2>5, <2>6, <2>7, <2>8, <2>9, <2>10, <2>11, <2>12, <2>14, StepOfKey DEF KeyInv, rest
<1> QED BY <1>2, <1>3 DEF CheckDelete

\* A request for a channel looks at the active rows under operationMu.
LEMMA StartChannelKeeps ==
    ASSUME OpsInv, NEW o \in Ops, StartChannel(o), UNCHANGED rest, boot = "serving"
    PROVE  OpsInv'
<1>1. OpsType /\ row \in [Ops -> Row] /\ pc \in [Ops -> Pcs] /\ KeyInv(o)
    BY DEF OpsInv, OpsType
<1>2. CASE ActiveInstanceRuntimeMutation(row[o].inst) \/ ActiveInstanceMutation
    <2>1. pc[o] = "resolved" /\ Drop(o) /\ mu' = mu
        BY <1>1, <1>2 DEF StartChannel
    <2>2. /\ row' \in [Ops -> Row] /\ \A p \in Ops \ {o} : row'[p] = row[p]
          /\ row'[o].type = "none" /\ row'[o].inst = NoInst /\ row'[o].status = "NONE"
          /\ pc' \in [Ops -> Pcs] /\ \A p \in Ops \ {o} : pc'[p] = pc[p]
          /\ pc'[o] = "off"
        BY <1>1, <1>2, <2>1, DropEffect DEF StartChannel, Statuses
    <2>3. TRUE
        OBVIOUS
    <2>4. cancel' = cancel
        BY <1>1, <1>2, <2>1 DEF StartChannel
    <2>5. OpsType'
        BY <1>1, <1>2, <2>2 DEF StartChannel, rest, OpsType
    <2>6. Local(o) /\ Quiet(o) /\ LocksMove(o) /\ GatewayMoves(o)
        BY <1>2, <2>2 DEF StartChannel, rest, Local, Quiet, LocksMove, GatewayMoves, ValidTransition
    <2>7. KeyOK(o)'
        BY <1>2, <2>2 DEF KeyOK, WorkingPcs, LifecycleTypes, InventoryTypes
    <2>8. MuOK(o)'
        BY <1>2, <2>2 DEF KeyInv, KeyOK, MuOK
    <2>9. SeenOK(o)'
        BY <1>2, <2>2 DEF KeyInv, KeyOK, SeenOK
    <2>10. CancelOK(o)'
        BY <1>1, <1>2 DEF StartChannel, KeyInv, KeyOK, CancelOK, Requesting, InventoryOps, ValidTransition, NoCancel
    <2>11. LockOK(o)'
        BY <1>2, <2>2 DEF KeyOK, LockOK, WorkingPcs
    <2>12. OrphanOK(o)'
        BY <1>2, <2>2 DEF KeyInv, KeyOK, OrphanOK
    <2>13. StoppedDelete(o)' => StoppedDelete(o) /\ row'[o].inst = row[o].inst
        BY <1>2, <2>2 DEF StoppedDelete, KeyInv, SeenOK
    <2>14. StoppedOK(o)'
        BY <1>1, <2>6, <2>13, StoppedKept
    <2> QED
        BY <1>1, <2>1, <2>5, <2>6, <2>7, <2>8, <2>9, <2>10, <2>11, <2>12, <2>14, StepOfKey DEF KeyInv, rest
<1>3. CASE ~(ActiveInstanceRuntimeMutation(row[o].inst) \/ ActiveInstanceMutation)
    <2>1. pc[o] = "resolved" /\ mu = Free /\ mu' = o /\ IsType(o, ChannelTypes) /\ Goto(o, "checked")
        BY <1>1, <1>3 DEF StartChannel
    <2>2. row' = row
        BY <1>1, <1>3, <2>1 DEF StartChannel, Statuses
    <2>3. /\ pc' \in [Ops -> Pcs] /\ \A p \in Ops \ {o} : pc'[p] = pc[p]
          /\ pc'[o] = "checked"
        BY <1>1, <1>3, <2>1, GotoEffect DEF StartChannel, Pcs
    <2>4. cancel' = cancel
        BY <1>1, <1>3, <2>1 DEF StartChannel
    <2>5. OpsType'
        BY <1>1, <1>3, <2>3 DEF StartChannel, rest, OpsType
    <2>6. Local(o) /\ Quiet(o) /\ LocksMove(o) /\ GatewayMoves(o)
        BY <1>3, <2>3 DEF StartChannel, rest, Local, Quiet, LocksMove, GatewayMoves, ValidTransition
    <2>7. KeyOK(o)'
        BY <1>1, <1>3, <2>1, <2>2, <2>3 DEF KeyInv, KeyOK, WorkingPcs, Requesting, ValidTransition
    <2>8. MuOK(o)'
        BY <1>3, <2>1 DEF KeyInv, KeyOK, MuOK
    <2>9. SeenOK(o)'
        BY <1>3, <2>1, <2>2 DEF SeenOK, ActiveInstanceMutation, ActiveOf, ActiveRows, InstallationTypes, InventoryTypes, ChannelTypes
    <2>10. CancelOK(o)'
        BY <1>1, <1>3 DEF StartChannel, KeyInv, CancelOK, InventoryOps, NoCancel
    <2>11. LockOK(o)'
        BY <1>3, <2>3 DEF KeyOK, LockOK, WorkingPcs
    <2>12. OrphanOK(o)'
        BY <1>3, <2>3 DEF KeyInv, KeyOK, OrphanOK
    <2>13. StoppedDelete(o)' => StoppedDelete(o) /\ row'[o].inst = row[o].inst
        BY <1>3, <2>1, <2>2 DEF StoppedDelete, SeenOK, ChannelTypes, SkillTypes
    <2>14. StoppedOK(o)'
        BY <1>1, <2>6, <2>13, StoppedKept
    <2> QED
        BY <1>1, <2>1, <2>5, <2>6, <2>7, <2>8, <2>9, <2>10, <2>11, <2>12, <2>14, StepOfKey DEF KeyInv, rest
<1> QED BY <1>2, <1>3 DEF StartChannel

\* A request for a Skill has only its target resolved.
LEMMA StartSkillKeeps ==
    ASSUME OpsInv, NEW o \in Ops, StartSkill(o), UNCHANGED rest, boot = "serving"
    PROVE  OpsInv'
<1>1. OpsType /\ row \in [Ops -> Row] /\ pc \in [Ops -> Pcs] /\ KeyInv(o)
    BY DEF OpsInv, OpsType
<1>2. OpsInv'
    <2>1. pc[o] = "resolved" /\ IsType(o, SkillTypes)
        BY <1>1 DEF StartSkill
    <2>2. row' = row
        BY <1>1, <2>1 DEF StartSkill, Statuses
    <2>3. /\ pc' \in [Ops -> Pcs] /\ \A p \in Ops \ {o} : pc'[p] = pc[p]
          /\ pc'[o] = "checked"
        BY <1>1, <2>1, GotoEffect DEF StartSkill, Pcs
    <2>4. cancel' = cancel
        BY <1>1, <2>1 DEF StartSkill
    <2>5. OpsType'
        BY <1>1, <2>3 DEF StartSkill, rest, OpsType
    <2>6. Local(o) /\ Quiet(o) /\ LocksMove(o) /\ GatewayMoves(o)
        BY <2>3, <2>4 DEF StartSkill, rest, Local, Quiet, LocksMove, GatewayMoves, ValidTransition
    <2>7. KeyOK(o)'
        BY <1>1, <2>1, <2>2, <2>3 DEF KeyInv, KeyOK, WorkingPcs, Requesting, ValidTransition
    <2>8. MuOK(o)'
        BY <2>1, <2>2, <2>3 DEF KeyOK, MuOK, LifecycleTypes, ChannelTypes, SkillTypes, InventoryTypes
    <2>9. SeenOK(o)'
        BY <2>1, <2>2 DEF SeenOK, LifecycleTypes, ChannelTypes, SkillTypes, InventoryTypes
    <2>10. CancelOK(o)'
        BY <1>1, <2>1 DEF StartSkill, KeyInv, CancelOK, InventoryOps, NoCancel
    <2>11. LockOK(o)'
        BY <2>3, <2>4 DEF KeyOK, LockOK, WorkingPcs
    <2>12. OrphanOK(o)'
        BY <2>3, <2>4 DEF KeyInv, KeyOK, OrphanOK
    <2>13. StoppedDelete(o)' => StoppedDelete(o) /\ row'[o].inst = row[o].inst
        BY <2>1, <2>2 DEF StoppedDelete, SeenOK, ChannelTypes, SkillTypes
    <2>14. StoppedOK(o)'
        BY <1>1, <2>6, <2>13, StoppedKept
    <2> QED
        BY <1>1, <2>1, <2>5, <2>6, <2>7, <2>8, <2>9, <2>10, <2>11, <2>12, <2>14, StepOfKey DEF KeyInv, rest
<1> QED BY <1>2

\* A request for an MCP server likewise.
LEMMA StartMCPKeeps ==
    ASSUME OpsInv, NEW o \in Ops, NEW bound \in BOOLEAN, StartMCP(o, bound), UNCHANGED rest, boot = "serving"
    PROVE  OpsInv'
<1>1. OpsType /\ row \in [Ops -> Row] /\ pc \in [Ops -> Pcs] /\ KeyInv(o)
    BY DEF OpsInv, OpsType
<1>2. CASE bound \/ IsType(o, {"mcp.install"})
    <2>1. pc[o] = "resolved" /\ IsType(o, MCPTypes)
        BY <1>1, <1>2 DEF StartMCP
    <2>2. row' = row
        BY <1>1, <1>2, <2>1 DEF StartMCP, Statuses
    <2>3. /\ pc' \in [Ops -> Pcs] /\ \A p \in Ops \ {o} : pc'[p] = pc[p]
          /\ pc'[o] = "checked"
        BY <1>1, <1>2, <2>1, GotoEffect DEF StartMCP, Pcs
    <2>4. cancel' = cancel
        BY <1>1, <1>2, <2>1 DEF StartMCP
    <2>5. OpsType'
        BY <1>1, <1>2, <2>3 DEF StartMCP, rest, OpsType
    <2>6. Local(o) /\ Quiet(o) /\ LocksMove(o) /\ GatewayMoves(o)
        BY <1>2, <2>3 DEF StartMCP, rest, Local, Quiet, LocksMove, GatewayMoves, ValidTransition
    <2>7. KeyOK(o)'
        BY <1>1, <1>2, <2>1, <2>2, <2>3 DEF KeyInv, KeyOK, WorkingPcs, Requesting, ValidTransition
    <2>8. MuOK(o)'
        BY <1>2, <2>1, <2>2, <2>3 DEF KeyOK, MuOK, LifecycleTypes, ChannelTypes, SkillTypes, MCPTypes, BackupTypes, InventoryTypes
    <2>9. SeenOK(o)'
        BY <1>2, <2>1, <2>2 DEF SeenOK, LifecycleTypes, ChannelTypes, SkillTypes, MCPTypes, BackupTypes, InventoryTypes
    <2>10. CancelOK(o)'
        BY <1>1, <1>2 DEF StartMCP, KeyInv, CancelOK, InventoryOps, NoCancel
    <2>11. LockOK(o)'
        BY <1>2, <2>3 DEF KeyOK, LockOK, WorkingPcs
    <2>12. OrphanOK(o)'
        BY <1>2, <2>3 DEF KeyInv, KeyOK, OrphanOK
    <2>13. StoppedDelete(o)' => StoppedDelete(o) /\ row'[o].inst = row[o].inst
        BY <1>2, <2>1, <2>2 DEF StoppedDelete, SeenOK, MCPTypes, BackupTypes
    <2>14. StoppedOK(o)'
        BY <1>1, <2>6, <2>13, StoppedKept
    <2> QED
        BY <1>1, <2>1, <2>5, <2>6, <2>7, <2>8, <2>9, <2>10, <2>11, <2>12, <2>14, StepOfKey DEF KeyInv, rest
<1>3. CASE ~(bound \/ IsType(o, {"mcp.install"}))
    <2>1. pc[o] = "resolved" /\ IsType(o, MCPTypes) /\ Drop(o)
        BY <1>1, <1>3 DEF StartMCP
    <2>2. /\ row' \in [Ops -> Row] /\ \A p \in Ops \ {o} : row'[p] = row[p]
          /\ row'[o].type = "none" /\ row'[o].inst = NoInst /\ row'[o].status = "NONE"
          /\ pc' \in [Ops -> Pcs] /\ \A p \in Ops \ {o} : pc'[p] = pc[p]
          /\ pc'[o] = "off"
        BY <1>1, <1>3, <2>1, DropEffect DEF StartMCP, Statuses
    <2>3. TRUE
        OBVIOUS
    <2>4. cancel' = cancel
        BY <1>1, <1>3, <2>1 DEF StartMCP
    <2>5. OpsType'
        BY <1>1, <1>3, <2>2 DEF StartMCP, rest, OpsType
    <2>6. Local(o) /\ Quiet(o) /\ LocksMove(o) /\ GatewayMoves(o)
        BY <1>3, <2>2 DEF StartMCP, rest, Local, Quiet, LocksMove, GatewayMoves, ValidTransition
    <2>7. KeyOK(o)'
        BY <1>3, <2>2 DEF KeyOK, WorkingPcs, LifecycleTypes, InventoryTypes
    <2>8. MuOK(o)'
        BY <1>3, <2>2 DEF KeyInv, KeyOK, MuOK
    <2>9. SeenOK(o)'
        BY <1>3, <2>2 DEF KeyInv, KeyOK, SeenOK
    <2>10. CancelOK(o)'
        BY <1>1, <1>3 DEF StartMCP, KeyInv, KeyOK, CancelOK, Requesting, InventoryOps, ValidTransition, NoCancel
    <2>11. LockOK(o)'
        BY <1>3, <2>2 DEF KeyOK, LockOK, WorkingPcs
    <2>12. OrphanOK(o)'
        BY <1>3, <2>2 DEF KeyInv, KeyOK, OrphanOK
    <2>13. StoppedDelete(o)' => StoppedDelete(o) /\ row'[o].inst = row[o].inst
        BY <1>3, <2>2 DEF StoppedDelete, KeyInv, SeenOK
    <2>14. StoppedOK(o)'
        BY <1>1, <2>6, <2>13, StoppedKept
    <2> QED
        BY <1>1, <2>1, <2>5, <2>6, <2>7, <2>8, <2>9, <2>10, <2>11, <2>12, <2>14, StepOfKey DEF KeyInv, rest
<1> QED BY <1>2, <1>3 DEF StartMCP

\* A Cancel of a lifecycle or inventory operation reads a PENDING row.
LEMMA CancelReadKeeps ==
    ASSUME OpsInv, NEW o \in Ops, CancelRead(o), UNCHANGED rest, boot = "serving"
    PROVE  OpsInv'
<1>1. OpsType /\ row \in [Ops -> Row] /\ pc \in [Ops -> Pcs] /\ KeyInv(o)
    BY DEF OpsInv, OpsType
<1>2. OpsInv'
    <2>1. o \in InventoryOps /\ row[o].status = "PENDING" /\ cancel[o] = NoCancel
        BY <1>1 DEF CancelRead
    <2>2. row' = row
        BY <1>1, <2>1 DEF CancelRead, Statuses
    <2>3. pc' = pc
        BY <1>1, <2>1 DEF CancelRead
    <2>4. /\ cancel' \in [Ops -> {"none", "read", "fired"} \X Statuses]
          /\ \A p \in Ops \ {o} : cancel'[p] = cancel[p]
          /\ cancel'[o] = <<"read", "PENDING">> /\ cancel'[o][1] = "read" /\ cancel'[o][2] = "PENDING"
        BY <1>1, CancelEffect DEF CancelRead, CancelStep, CancelEnd, Statuses, OpsType
    <2>5. OpsType'
        BY <1>1, <2>4 DEF CancelRead, rest, OpsType
    <2>6. Local(o) /\ Quiet(o) /\ LocksMove(o) /\ GatewayMoves(o)
        BY <2>3, <2>4 DEF CancelRead, rest, Local, Quiet, LocksMove, GatewayMoves, ValidTransition
    <2>7. KeyOK(o)'
        BY <1>1, <2>1, <2>2, <2>3 DEF rest, KeyInv, KeyOK, InventoryOps
    <2>8. MuOK(o)'
        BY <1>1, <2>1 DEF CancelRead, KeyInv, KeyOK, MuOK
    <2>9. SeenOK(o)'
        BY <1>1, <2>1, <2>3 DEF KeyInv, KeyOK, SeenOK, Requesting, ValidTransition
    <2>10. CancelOK(o)'
        BY <2>1, <2>2, <2>4 DEF CancelOK, InventoryOps, LifecycleTypes, ChannelTypes, SkillTypes, MCPTypes, BackupTypes, UpgradeTypes, InventoryTypes, Unwaited, NoCancel
    <2>11. LockOK(o)'
        BY <1>1, <2>1, <2>3 DEF KeyInv, KeyOK, LockOK
    <2>12. OrphanOK(o)'
        BY <1>1, <2>1 DEF CancelRead, KeyInv, OrphanOK
    <2>13. StoppedDelete(o)' => StoppedDelete(o) /\ row'[o].inst = row[o].inst
        BY <1>1, <2>1 DEF CancelRead, StoppedDelete, SeenOK
    <2>14. StoppedOK(o)'
        BY <1>1, <2>6, <2>13, StoppedKept
    <2> QED
        BY <1>1, <2>1, <2>5, <2>6, <2>7, <2>8, <2>9, <2>10, <2>11, <2>12, <2>14, StepOfKey DEF KeyInv, rest
<1> QED BY <1>2

\* It gives way to a worker that has started, and ends the context of one that has not.
LEMMA CancelLookKeeps ==
    ASSUME OpsInv, NEW o \in Ops, CancelLook(o), UNCHANGED rest, boot = "serving"
    PROVE  OpsInv'
<1>1. OpsType /\ row \in [Ops -> Row] /\ pc \in [Ops -> Pcs] /\ KeyInv(o)
    BY DEF OpsInv, OpsType
<1>2. CASE pc[o] \in {"started", "seen", "found", "acted", "relisted"}
    <2>1. o \in InventoryOps /\ cancel[o][1] = "read" /\ ctx' = ctx
        BY <1>1, <1>2 DEF CancelLook
    <2>2. row' = row
        BY <1>1, <1>2, <2>1 DEF CancelLook, Statuses
    <2>3. pc' = pc
        BY <1>1, <1>2, <2>1 DEF CancelLook
    <2>4. /\ cancel' \in [Ops -> {"none", "read", "fired"} \X Statuses]
          /\ \A p \in Ops \ {o} : cancel'[p] = cancel[p]
          /\ cancel'[o] = <<"none", "NONE">> /\ cancel'[o][1] = "none" /\ cancel'[o][2] = "NONE"
        BY <1>1, <1>2, CancelEffect DEF CancelLook, CancelStep, CancelEnd, NoCancel, Statuses, OpsType
    <2>5. OpsType'
        BY <1>1, <1>2, <2>4 DEF CancelLook, rest, OpsType
    <2>6. Local(o) /\ Quiet(o) /\ LocksMove(o) /\ GatewayMoves(o)
        BY <1>2, <2>4 DEF CancelLook, rest, Local, Quiet, LocksMove, GatewayMoves, ValidTransition
    <2>7. KeyOK(o)'
        BY <1>1, <1>2, <2>2, <2>3 DEF rest, KeyInv, KeyOK, InventoryOps
    <2>8. MuOK(o)'
        BY <1>2, <2>3 DEF KeyInv, KeyOK, MuOK
    <2>9. SeenOK(o)'
        BY <1>2, <2>3 DEF KeyInv, KeyOK, SeenOK
    <2>10. CancelOK(o)'
        BY <1>1, <1>2, <2>1, <2>2, <2>4 DEF KeyInv, CancelOK, InventoryOps, NoCancel
    <2>11. LockOK(o)'
        BY <1>1, <1>2, <2>2, <2>3 DEF rest, KeyInv, KeyOK, LockOK
    <2>12. OrphanOK(o)'
        BY <1>2, <2>3 DEF KeyInv, KeyOK, OrphanOK
    <2>13. StoppedDelete(o)' => StoppedDelete(o) /\ row'[o].inst = row[o].inst
        BY <1>1, <1>2 DEF CancelLook, StoppedDelete, SeenOK
    <2>14. StoppedOK(o)'
        BY <1>1, <2>6, <2>13, StoppedKept
    <2> QED
        BY <1>1, <2>1, <2>5, <2>6, <2>7, <2>8, <2>9, <2>10, <2>11, <2>12, <2>14, StepOfKey DEF KeyInv, rest
<1>3. CASE pc[o] \notin {"started", "seen", "found", "acted", "relisted"}
    <2>1. o \in InventoryOps /\ cancel[o][1] = "read" /\ ctx' = ctx \cup {o}
        BY <1>1, <1>3 DEF CancelLook
    <2>2. row' = row
        BY <1>1, <1>3, <2>1 DEF CancelLook, Statuses
    <2>3. pc' = pc
        BY <1>1, <1>3, <2>1 DEF CancelLook
    <2>4. /\ cancel' \in [Ops -> {"none", "read", "fired"} \X Statuses]
          /\ \A p \in Ops \ {o} : cancel'[p] = cancel[p]
          /\ cancel'[o] = <<"fired", "PENDING">> /\ cancel'[o][1] = "fired" /\ cancel'[o][2] = "PENDING"
        BY <1>1, <1>3, CancelEffect DEF CancelLook, CancelStep, CancelEnd, Statuses, OpsType
    <2>5. OpsType'
        BY <1>1, <1>3, <2>4 DEF CancelLook, rest, OpsType
    <2>6. Local(o) /\ Quiet(o) /\ LocksMove(o) /\ GatewayMoves(o)
        BY <1>3, <2>4 DEF CancelLook, rest, Local, Quiet, LocksMove, GatewayMoves, ValidTransition
    <2>7. KeyOK(o)'
        BY <1>1, <1>3, <2>2, <2>3 DEF KeyInv, KeyOK, InventoryOps, NoCancel
    <2>8. MuOK(o)'
        BY <1>1, <1>3 DEF CancelLook, KeyInv, KeyOK, MuOK
    <2>9. SeenOK(o)'
        BY <1>1, <1>3, <2>1, <2>3 DEF KeyInv, KeyOK, MuOK, SeenOK, CancelOK, LockOK, OrphanOK, StoppedOK, Requesting, InventoryOps, ValidTransition, NoCancel
    <2>10. CancelOK(o)'
        BY <1>1, <1>3, <2>1, <2>2, <2>4 DEF KeyInv, CancelOK, InventoryOps, NoCancel
    <2>11. LockOK(o)'
        BY <1>1, <1>3, <2>2, <2>3 DEF rest, KeyInv, KeyOK, LockOK
    <2>12. OrphanOK(o)'
        BY <1>1, <1>3, <2>1, <2>2, <2>3 DEF KeyInv, KeyOK, OrphanOK
    <2>13. StoppedDelete(o)' => StoppedDelete(o) /\ row'[o].inst = row[o].inst
        BY <1>1, <1>3 DEF CancelLook, StoppedDelete, SeenOK
    <2>14. StoppedOK(o)'
        BY <1>1, <2>6, <2>13, StoppedKept
    <2> QED
        BY <1>1, <2>1, <2>5, <2>6, <2>7, <2>8, <2>9, <2>10, <2>11, <2>12, <2>14, StepOfKey DEF KeyInv, rest
<1> QED BY <1>2, <1>3 DEF CancelLook

\* Its update is conditional on the status it read.
LEMMA CancelWriteKeeps ==
    ASSUME OpsInv, NEW o \in Ops, CancelWrite(o), UNCHANGED rest, boot = "serving"
    PROVE  OpsInv'
<1>1. OpsType /\ row \in [Ops -> Row] /\ pc \in [Ops -> Pcs] /\ KeyInv(o)
    BY DEF OpsInv, OpsType
<1>2. OpsInv'
    <2>1. cancel[o][1] = "fired" /\ row[o].type \in LifecycleTypes \cup InventoryTypes \cup BackupTypes
        BY <1>1 DEF CancelWrite
    <2>2. /\ row' \in [Ops -> Row] /\ \A p \in Ops \ {o} : row'[p] = row[p]
          /\ row'[o].type = row[o].type /\ row'[o].inst = row[o].inst
          /\ row'[o].status = IF row[o].status = cancel[o][2] /\ ValidTransition(cancel[o][2], "CANCELLED") THEN "CANCELLED" ELSE row[o].status
        BY <1>1, <2>1, UpdateEffect DEF CancelWrite, Statuses
    <2>3. pc' = pc
        BY <1>1, <2>1 DEF CancelWrite
    <2>4. /\ cancel' \in [Ops -> {"none", "read", "fired"} \X Statuses]
          /\ \A p \in Ops \ {o} : cancel'[p] = cancel[p]
          /\ cancel'[o] = <<"none", "NONE">> /\ cancel'[o][1] = "none" /\ cancel'[o][2] = "NONE"
        BY <1>1, CancelEffect DEF CancelWrite, CancelStep, CancelEnd, NoCancel, Statuses, OpsType
    <2>5. OpsType'
        BY <1>1, <2>2, <2>4 DEF CancelWrite, rest, OpsType
    <2>6. Local(o) /\ Quiet(o) /\ LocksMove(o) /\ GatewayMoves(o)
        BY <2>2, <2>4 DEF CancelWrite, rest, Local, Quiet, LocksMove, GatewayMoves
    <2>7. KeyOK(o)'
        BY <1>1, <2>1, <2>2, <2>3 DEF KeyInv, KeyOK, MuOK, SeenOK, CancelOK, LockOK, OrphanOK, StoppedOK, InventoryOps, MCPTypes, BackupTypes, UpgradeTypes, Unwaited, ManagedTypes, NoCancel
    <2>8. MuOK(o)'
        BY <1>1, <2>2 DEF CancelWrite, KeyInv, KeyOK, MuOK
    <2>9. SeenOK(o)'
        BY <1>1, <2>1, <2>3 DEF KeyInv, KeyOK, MuOK, SeenOK, CancelOK, LockOK, OrphanOK, StoppedOK, Requesting, InventoryOps, ValidTransition, NoCancel
    <2>10. CancelOK(o)'
        BY <1>1, <2>1, <2>2, <2>4 DEF KeyInv, CancelOK, InventoryOps, LifecycleTypes, ChannelTypes, SkillTypes, MCPTypes, BackupTypes, InventoryTypes, NoCancel
    <2>11. LockOK(o)'
        BY <1>1, <2>2, <2>3 DEF rest, KeyInv, KeyOK, LockOK
    <2>12. OrphanOK(o)'
        BY <1>1, <2>2 DEF CancelWrite, KeyInv, OrphanOK
    <2>13. StoppedDelete(o)' => StoppedDelete(o) /\ row'[o].inst = row[o].inst
        BY <1>1, <2>2 DEF CancelWrite, StoppedDelete, SeenOK
    <2>14. StoppedOK(o)'
        BY <1>1, <2>6, <2>13, StoppedKept
    <2> QED
        BY <1>1, <2>1, <2>5, <2>6, <2>7, <2>8, <2>9, <2>10, <2>11, <2>12, <2>14, StepOfKey DEF KeyInv, rest
<1> QED BY <1>2

\* Its client may go away before the update.
LEMMA CancelAbortedKeeps ==
    ASSUME OpsInv, NEW o \in Ops, CancelAborted(o), UNCHANGED rest, boot = "serving"
    PROVE  OpsInv'
<1>1. OpsType /\ row \in [Ops -> Row] /\ pc \in [Ops -> Pcs] /\ KeyInv(o)
    BY DEF OpsInv, OpsType
<1>2. OpsInv'
    <2>1. cancel[o][1] = "fired" /\ row[o].type \in LifecycleTypes \cup InventoryTypes \cup BackupTypes
        BY <1>1 DEF CancelAborted
    <2>2. row' = row
        BY <1>1, <2>1 DEF CancelAborted, Statuses
    <2>3. pc' = pc
        BY <1>1, <2>1 DEF CancelAborted
    <2>4. /\ cancel' \in [Ops -> {"none", "read", "fired"} \X Statuses]
          /\ \A p \in Ops \ {o} : cancel'[p] = cancel[p]
          /\ cancel'[o] = <<"none", "NONE">> /\ cancel'[o][1] = "none" /\ cancel'[o][2] = "NONE"
        BY <1>1, CancelEffect DEF CancelAborted, CancelStep, CancelEnd, NoCancel, Statuses, OpsType
    <2>5. OpsType'
        BY <1>1, <2>4 DEF CancelAborted, rest, OpsType
    <2>6. Local(o) /\ Quiet(o) /\ LocksMove(o) /\ GatewayMoves(o)
        BY <2>3, <2>4 DEF CancelAborted, rest, Local, Quiet, LocksMove, GatewayMoves, ValidTransition
    <2>7. KeyOK(o)'
        BY <1>1, <2>2, <2>3 DEF KeyInv, KeyOK, InventoryOps, NoCancel
    <2>8. MuOK(o)'
        BY <1>1, <2>1 DEF CancelAborted, KeyInv, KeyOK, MuOK
    <2>9. SeenOK(o)'
        BY <1>1, <2>1, <2>3 DEF KeyInv, KeyOK, MuOK, SeenOK, CancelOK, LockOK, OrphanOK, StoppedOK, Requesting, InventoryOps, ValidTransition, NoCancel
    <2>10. CancelOK(o)'
        BY <1>1, <2>1, <2>2, <2>4 DEF KeyInv, CancelOK, InventoryOps, LifecycleTypes, ChannelTypes, SkillTypes, MCPTypes, BackupTypes, InventoryTypes, NoCancel
    <2>11. LockOK(o)'
        BY <1>1, <2>2, <2>3 DEF rest, KeyInv, KeyOK, LockOK
    <2>12. OrphanOK(o)'
        BY <1>1, <2>1 DEF CancelAborted, KeyInv, OrphanOK
    <2>13. StoppedDelete(o)' => StoppedDelete(o) /\ row'[o].inst = row[o].inst
        BY <1>1, <2>1 DEF CancelAborted, StoppedDelete, SeenOK
    <2>14. StoppedOK(o)'
        BY <1>1, <2>6, <2>13, StoppedKept
    <2> QED
        BY <1>1, <2>1, <2>5, <2>6, <2>7, <2>8, <2>9, <2>10, <2>11, <2>12, <2>14, StepOfKey DEF KeyInv, rest
<1> QED BY <1>2

\* A Cancel of an MCP operation writes first.
LEMMA CancelMCPKeeps ==
    ASSUME OpsInv, NEW o \in Ops, CancelMCP(o), UNCHANGED rest, boot = "serving"
    PROVE  OpsInv'
<1>1. OpsType /\ row \in [Ops -> Row] /\ pc \in [Ops -> Pcs] /\ KeyInv(o)
    BY DEF OpsInv, OpsType
<1>2. OpsInv'
    <2>1. IsType(o, MCPTypes) /\ IsActive(row[o].status) /\ ctx' = ctx \cup {o}
        BY <1>1 DEF CancelMCP
    <2>2. /\ row' \in [Ops -> Row] /\ \A p \in Ops \ {o} : row'[p] = row[p]
          /\ row'[o].type = row[o].type /\ row'[o].inst = row[o].inst
          /\ row'[o].status = IF row[o].status = row[o].status /\ ValidTransition(row[o].status, "CANCELLED") THEN "CANCELLED" ELSE row[o].status
        BY <1>1, <2>1, UpdateEffect DEF CancelMCP, Statuses
    <2>3. pc' = pc
        BY <1>1, <2>1 DEF CancelMCP
    <2>4. cancel' = cancel
        BY <1>1, <2>1 DEF CancelMCP
    <2>5. OpsType'
        BY <1>1, <2>2 DEF CancelMCP, rest, OpsType
    <2>6. Local(o) /\ Quiet(o) /\ LocksMove(o) /\ GatewayMoves(o)
        BY <1>1, <2>2 DEF CancelMCP, rest, Local, Quiet, LocksMove, GatewayMoves
    <2>7. KeyOK(o)'
        BY <1>1, <2>1, <2>2, <2>3 DEF KeyInv, KeyOK, InventoryOps, LifecycleTypes, MCPTypes, BackupTypes, UpgradeTypes, InventoryTypes, Unwaited, NoCancel
    <2>8. MuOK(o)'
        BY <1>1, <2>2 DEF CancelMCP, KeyInv, KeyOK, MuOK
    <2>9. SeenOK(o)'
        BY <1>1, <2>1, <2>3 DEF KeyInv, KeyOK, SeenOK, Requesting, ValidTransition
    <2>10. CancelOK(o)'
        BY <1>1, <2>1, <2>2, <2>4 DEF KeyInv, CancelOK, Requesting, InventoryOps, ValidTransition, ChannelTypes, SkillTypes, MCPTypes, BackupTypes, UpgradeTypes, Unwaited, NoCancel
    <2>11. LockOK(o)'
        BY <1>1, <2>2, <2>3 DEF rest, KeyInv, KeyOK, LockOK
    <2>12. OrphanOK(o)'
        BY <1>1, <2>1, <2>2, <2>3 DEF KeyInv, KeyOK, OrphanOK
    <2>13. StoppedDelete(o)' => StoppedDelete(o) /\ row'[o].inst = row[o].inst
        BY <2>1, <2>2 DEF StoppedDelete, SeenOK, MCPTypes, BackupTypes
    <2>14. StoppedOK(o)'
        BY <1>1, <2>6, <2>13, StoppedKept
    <2> QED
        BY <1>1, <2>1, <2>5, <2>6, <2>7, <2>8, <2>9, <2>10, <2>11, <2>12, <2>14, StepOfKey DEF KeyInv, rest
<1> QED BY <1>2

\* A Cancel of a backup, a channel or a model profile reads an active row.
LEMMA CancelManagedReadKeeps ==
    ASSUME OpsInv, NEW o \in Ops, CancelManagedRead(o), UNCHANGED rest, boot = "serving"
    PROVE  OpsInv'
<1>1. OpsType /\ row \in [Ops -> Row] /\ pc \in [Ops -> Pcs] /\ KeyInv(o)
    BY DEF OpsInv, OpsType
<1>2. OpsInv'
    <2>1. IsType(o, BackupTypes \cup ChannelTypes \cup {"model.profile.apply"}) /\ IsActive(row[o].status) /\ row[o].status \in Statuses
        BY <1>1 DEF CancelManagedRead, Row, Statuses
    <2>2. row' = row
        BY <1>1, <2>1 DEF CancelManagedRead, Statuses
    <2>3. pc' = pc
        BY <1>1, <2>1 DEF CancelManagedRead
    <2>4. /\ cancel' \in [Ops -> {"none", "read", "fired"} \X Statuses]
          /\ \A p \in Ops \ {o} : cancel'[p] = cancel[p]
          /\ cancel'[o] = <<"read", row[o].status>> /\ cancel'[o][1] = "read" /\ cancel'[o][2] = row[o].status
        BY <1>1, CancelEffect DEF CancelManagedRead, CancelStep, CancelEnd, Statuses, OpsType
    <2>5. OpsType'
        BY <1>1, <2>4 DEF CancelManagedRead, rest, OpsType
    <2>6. Local(o) /\ Quiet(o) /\ LocksMove(o) /\ GatewayMoves(o)
        BY <2>3, <2>4 DEF CancelManagedRead, rest, Local, Quiet, LocksMove, GatewayMoves, ValidTransition
    <2>7. KeyOK(o)'
        BY <1>1, <2>2, <2>3 DEF KeyInv, KeyOK, InventoryOps, NoCancel
    <2>8. MuOK(o)'
        BY <1>1, <2>1 DEF CancelManagedRead, KeyInv, KeyOK, MuOK
    <2>9. SeenOK(o)'
        BY <1>1, <2>1, <2>3 DEF KeyInv, KeyOK, SeenOK, Requesting, ValidTransition
    <2>10. CancelOK(o)'
        BY <1>1, <2>4 DEF CancelManagedRead, KeyInv, CancelOK, InventoryOps, LifecycleTypes, ChannelTypes, SkillTypes, MCPTypes, BackupTypes, UpgradeTypes, InventoryTypes, Unwaited, NoCancel
    <2>11. LockOK(o)'
        BY <1>1, <2>2, <2>3 DEF rest, KeyInv, KeyOK, LockOK
    <2>12. OrphanOK(o)'
        BY <1>1, <2>1 DEF CancelManagedRead, KeyInv, OrphanOK
    <2>13. StoppedDelete(o)' => StoppedDelete(o) /\ row'[o].inst = row[o].inst
        BY <2>1, <2>2 DEF StoppedDelete, SeenOK, ChannelTypes, SkillTypes, MCPTypes, BackupTypes
    <2>14. StoppedOK(o)'
        BY <1>1, <2>6, <2>13, StoppedKept
    <2> QED
        BY <1>1, <2>1, <2>5, <2>6, <2>7, <2>8, <2>9, <2>10, <2>11, <2>12, <2>14, StepOfKey DEF KeyInv, rest
<1> QED BY <1>2

\* It ends the context of the worker.
LEMMA CancelManagedLookKeeps ==
    ASSUME OpsInv, NEW o \in Ops, CancelManagedLook(o), UNCHANGED rest, boot = "serving"
    PROVE  OpsInv'
<1>1. OpsType /\ row \in [Ops -> Row] /\ pc \in [Ops -> Pcs] /\ KeyInv(o)
    BY DEF OpsInv, OpsType
<1>2. OpsInv'
    <2>1. cancel[o][1] = "read" /\ cancel[o] # NoCancel /\ cancel[o][2] \in Statuses /\ o \notin InventoryOps /\ ctx' = ctx \cup {o}
        BY <1>1 DEF CancelManagedLook, OpsType, NoCancel
    <2>2. row' = row
        BY <1>1, <2>1 DEF CancelManagedLook, Statuses
    <2>3. pc' = pc
        BY <1>1, <2>1 DEF CancelManagedLook
    <2>4. /\ cancel' \in [Ops -> {"none", "read", "fired"} \X Statuses]
          /\ \A p \in Ops \ {o} : cancel'[p] = cancel[p]
          /\ cancel'[o] = <<"fired", cancel[o][2]>> /\ cancel'[o][1] = "fired" /\ cancel'[o][2] = cancel[o][2]
        BY <1>1, <2>1, CancelEffect DEF CancelManagedLook, CancelStep, CancelEnd, Statuses, OpsType
    <2>5. OpsType'
        BY <1>1, <2>4 DEF CancelManagedLook, rest, OpsType
    <2>6. Local(o) /\ Quiet(o) /\ LocksMove(o) /\ GatewayMoves(o)
        BY <2>3, <2>4 DEF CancelManagedLook, rest, Local, Quiet, LocksMove, GatewayMoves, ValidTransition
    <2>7. KeyOK(o)'
        BY <1>1, <2>1, <2>2, <2>3 DEF rest, KeyInv, KeyOK
    <2>8. MuOK(o)'
        BY <1>1, <2>1 DEF CancelManagedLook, KeyInv, KeyOK, MuOK
    <2>9. SeenOK(o)'
        BY <1>1, <2>1, <2>3 DEF KeyInv, KeyOK, MuOK, SeenOK, CancelOK, LockOK, OrphanOK, StoppedOK, Requesting, ValidTransition
    <2>10. CancelOK(o)'
        BY <1>1, <2>1, <2>2, <2>4 DEF KeyInv, CancelOK, InventoryOps, NoCancel
    <2>11. LockOK(o)'
        BY <1>1, <2>2, <2>3 DEF rest, KeyInv, KeyOK, LockOK
    <2>12. OrphanOK(o)'
        BY <1>1, <2>1, <2>2, <2>3 DEF KeyInv, KeyOK, OrphanOK
    <2>13. StoppedDelete(o)' => StoppedDelete(o) /\ row'[o].inst = row[o].inst
        BY <1>1, <2>1 DEF CancelManagedLook, StoppedDelete, SeenOK
    <2>14. StoppedOK(o)'
        BY <1>1, <2>6, <2>13, StoppedKept
    <2> QED
        BY <1>1, <2>1, <2>5, <2>6, <2>7, <2>8, <2>9, <2>10, <2>11, <2>12, <2>14, StepOfKey DEF KeyInv, rest
<1> QED BY <1>2

\* A Cancel of a channel waits for the lock of the instance.
LEMMA CancelChannelKeeps ==
    ASSUME OpsInv, NEW o \in Ops, CancelChannel(o), UNCHANGED rest, boot = "serving"
    PROVE  OpsInv'
<1>1. OpsType /\ row \in [Ops -> Row] /\ pc \in [Ops -> Pcs] /\ KeyInv(o)
    BY DEF OpsInv, OpsType
<1>2. OpsInv'
    <2>1. IsType(o, ChannelTypes) /\ ilock[row[o].inst] = Free
        BY <1>1 DEF CancelChannel
    <2>2. /\ row' \in [Ops -> Row] /\ \A p \in Ops \ {o} : row'[p] = row[p]
          /\ row'[o].type = row[o].type /\ row'[o].inst = row[o].inst
          /\ row'[o].status = IF IsActive(row[o].status) /\ ValidTransition(row[o].status, "CANCELLED") THEN "CANCELLED" ELSE row[o].status
        BY <1>1, <2>1, FinishEffect DEF CancelChannel, Statuses
    <2>3. pc' = pc
        BY <1>1, <2>1 DEF CancelChannel
    <2>4. /\ cancel' \in [Ops -> {"none", "read", "fired"} \X Statuses]
          /\ \A p \in Ops \ {o} : cancel'[p] = cancel[p]
          /\ cancel'[o] = <<"none", "NONE">> /\ cancel'[o][1] = "none" /\ cancel'[o][2] = "NONE"
        BY <1>1, CancelEffect DEF CancelChannel, CancelStep, CancelEnd, NoCancel, Statuses, OpsType
    <2>5. OpsType'
        BY <1>1, <2>2, <2>4 DEF CancelChannel, rest, OpsType
    <2>6. Local(o) /\ Quiet(o) /\ LocksMove(o) /\ GatewayMoves(o)
        BY <2>2, <2>4 DEF CancelChannel, rest, Local, Quiet, LocksMove, GatewayMoves
    <2>7. KeyOK(o)'
        BY <1>1, <2>1, <2>2, <2>3 DEF KeyInv, KeyOK, MuOK, SeenOK, CancelOK, LockOK, OrphanOK, StoppedOK, InventoryOps, LifecycleTypes, ChannelTypes, SkillTypes, InventoryTypes, NoCancel
    <2>8. MuOK(o)'
        BY <1>1, <2>1 DEF CancelChannel, KeyInv, KeyOK, MuOK
    <2>9. SeenOK(o)'
        BY <1>1, <2>1 DEF CancelChannel, KeyInv, KeyOK, MuOK, SeenOK, CancelOK, LockOK, OrphanOK, StoppedOK, Requesting, InventoryOps, ValidTransition, NoCancel
    <2>10. CancelOK(o)'
        BY <1>1, <2>2, <2>4 DEF CancelChannel, KeyInv, CancelOK, Requesting, InventoryOps, ValidTransition, NoCancel
    <2>11. LockOK(o)'
        BY <1>1, <2>1, <2>3 DEF KeyInv, KeyOK, LockOK
    <2>12. OrphanOK(o)'
        BY <1>1, <2>2 DEF CancelChannel, KeyInv, OrphanOK
    <2>13. StoppedDelete(o)' => StoppedDelete(o) /\ row'[o].inst = row[o].inst
        BY <2>1, <2>2 DEF StoppedDelete, SeenOK, ChannelTypes, SkillTypes
    <2>14. StoppedOK(o)'
        BY <1>1, <2>6, <2>13, StoppedKept
    <2> QED
        BY <1>1, <2>1, <2>5, <2>6, <2>7, <2>8, <2>9, <2>10, <2>11, <2>12, <2>14, StepOfKey DEF KeyInv, rest
<1> QED BY <1>2

\* A Cancel of a model profile finishes the row as it is.
LEMMA CancelModelKeeps ==
    ASSUME OpsInv, NEW o \in Ops, CancelModelProfileApplication(o), UNCHANGED rest, boot = "serving"
    PROVE  OpsInv'
<1>1. OpsType /\ row \in [Ops -> Row] /\ pc \in [Ops -> Pcs] /\ KeyInv(o)
    BY DEF OpsInv, OpsType
<1>2. OpsInv'
    <2>1. IsType(o, {"model.profile.apply"})
        BY <1>1 DEF CancelModelProfileApplication
    <2>2. /\ row' \in [Ops -> Row] /\ \A p \in Ops \ {o} : row'[p] = row[p]
          /\ row'[o].type = row[o].type /\ row'[o].inst = row[o].inst
          /\ row'[o].status = IF IsActive(row[o].status) /\ ValidTransition(row[o].status, "CANCELLED") THEN "CANCELLED" ELSE row[o].status
        BY <1>1, <2>1, FinishEffect DEF CancelModelProfileApplication, Statuses
    <2>3. pc' = pc
        BY <1>1, <2>1 DEF CancelModelProfileApplication
    <2>4. /\ cancel' \in [Ops -> {"none", "read", "fired"} \X Statuses]
          /\ \A p \in Ops \ {o} : cancel'[p] = cancel[p]
          /\ cancel'[o] = <<"none", "NONE">> /\ cancel'[o][1] = "none" /\ cancel'[o][2] = "NONE"
        BY <1>1, CancelEffect DEF CancelModelProfileApplication, CancelStep, CancelEnd, NoCancel, Statuses, OpsType
    <2>5. OpsType'
        BY <1>1, <2>2, <2>4 DEF CancelModelProfileApplication, rest, OpsType
    <2>6. Local(o) /\ Quiet(o) /\ LocksMove(o) /\ GatewayMoves(o)
        BY <2>2, <2>4 DEF CancelModelProfileApplication, rest, Local, Quiet, LocksMove, GatewayMoves
    <2>7. KeyOK(o)'
        BY <1>1, <2>1, <2>2, <2>3 DEF KeyInv, KeyOK, InventoryOps, LifecycleTypes, MCPTypes, BackupTypes, UpgradeTypes, InventoryTypes, Unwaited, NoCancel
    <2>8. MuOK(o)'
        BY <1>1, <2>2 DEF CancelModelProfileApplication, KeyInv, KeyOK, MuOK
    <2>9. SeenOK(o)'
        BY <2>1, <2>2 DEF SeenOK, LifecycleTypes, ChannelTypes, SkillTypes, InventoryTypes
    <2>10. CancelOK(o)'
        BY <1>1, <2>2, <2>4 DEF CancelModelProfileApplication, KeyInv, CancelOK, Requesting, InventoryOps, ValidTransition, NoCancel
    <2>11. LockOK(o)'
        BY <1>1, <2>2, <2>3 DEF rest, KeyInv, KeyOK, LockOK
    <2>12. OrphanOK(o)'
        BY <1>1, <2>2 DEF CancelModelProfileApplication, KeyInv, OrphanOK
    <2>13. StoppedDelete(o)' => StoppedDelete(o) /\ row'[o].inst = row[o].inst
        BY <2>1, <2>2 DEF StoppedDelete, KeyInv, SeenOK
    <2>14. StoppedOK(o)'
        BY <1>1, <2>6, <2>13, StoppedKept
    <2> QED
        BY <1>1, <2>1, <2>5, <2>6, <2>7, <2>8, <2>9, <2>10, <2>11, <2>12, <2>14, StepOfKey DEF KeyInv, rest
<1> QED BY <1>2

\* A row is inserted.
LEMMA InsertsRow ==
    ASSUME OpsInv, NEW o \in Ops, Insert(o), UNCHANGED rest, boot = "serving", CanInsert(o)
    PROVE  OpsInv'
<1>1. /\ OpsType /\ row \in [Ops -> Row] /\ pc \in [Ops -> Pcs] /\ KeyInv(o) /\ RowsApart
      /\ DeleteKeepsOthersOut
    BY DEF OpsInv, OpsType
<1>2. pc[o] = "checked" /\ row[o].status = "NONE" /\ row[o].type # "none"
    BY <1>1 DEF Insert, KeyInv, KeyOK, Requesting
<1>3. /\ row' \in [Ops -> Row] /\ \A p \in Ops \ {o} : row'[p] = row[p]
      /\ row'[o].type = row[o].type /\ row'[o].inst = row[o].inst /\ row'[o].status = "PENDING"
    BY <1>1 DEF Insert, CreateOperation, Row
<1>4. /\ pc' \in [Ops -> Pcs] /\ \A p \in Ops \ {o} : pc'[p] = pc[p]
      /\ pc'[o] = "queued"
    BY <1>1, GotoEffect DEF Insert, Pcs
<1>5. /\ cancel' = cancel /\ ctx' = ctx /\ raced' = raced /\ running' = running /\ ilock' = ilock
      /\ mu' = IF mu = o THEN Free ELSE mu
      /\ boot' = "serving"
    BY DEF Insert, rest
<1>6. OpsType'
    BY <1>1, <1>3, <1>4 DEF Insert, rest, OpsType
<1>7. ActiveRows' = ActiveRows \cup {o} /\ o \notin ActiveRows
    BY <1>2, <1>3 DEF ActiveRows
<1>8. /\ row[o].type \in InstallationTypes => ActiveOf(InstallationTypes) = {}
      /\ row[o].type \in InstanceRuntimeTypes => ActiveOn(InstanceRuntimeTypes, row[o].inst) = {}
      /\ row[o].type \in RuntimeWideTypes =>
             {p \in ActiveOf(InstanceRuntimeTypes) : row[p].inst # NoInst} = {}
      /\ row[o].type \in InstanceRuntimeTypes /\ row[o].inst # NoInst => ActiveOf(RuntimeWideTypes) = {}
    BY DEF CanInsert
<1>9. RowsApart'
    <2>1. ASSUME NEW p \in ActiveRows
          PROVE  /\ ~(IsType(o, InstallationTypes) /\ IsType(p, InstallationTypes))
                 /\ IsType(o, InstanceRuntimeTypes) /\ IsType(p, InstanceRuntimeTypes) => row[o].inst # row[p].inst
                 /\ IsType(o, RuntimeWideTypes) /\ IsType(p, InstanceRuntimeTypes) => row[p].inst = NoInst
                 /\ IsType(p, RuntimeWideTypes) /\ IsType(o, InstanceRuntimeTypes) => row[o].inst = NoInst
        BY <1>8 DEF ActiveOf, ActiveOn
    <2>2. ASSUME NEW p \in ActiveRows', NEW q \in ActiveRows' \ {p}
          PROVE  /\ ~(row'[p].type \in InstallationTypes /\ row'[q].type \in InstallationTypes)
                 /\ row'[p].type \in InstanceRuntimeTypes /\ row'[q].type \in InstanceRuntimeTypes
                        => row'[p].inst # row'[q].inst
                 /\ row'[p].type \in RuntimeWideTypes /\ row'[q].type \in InstanceRuntimeTypes
                        => row'[q].inst = NoInst
        <3>1. p \in Ops /\ q \in Ops
            BY DEF ActiveRows
        <3>2. CASE p = o
            BY <1>3, <1>7, <2>1, <3>1, <3>2
        <3>3. CASE q = o
            BY <1>3, <1>7, <2>1, <3>1, <3>3
        <3>4. CASE p # o /\ q # o
            BY <1>1, <1>3, <1>7, <3>1, <3>4 DEF RowsApart
        <3> QED BY <3>2, <3>3, <3>4
    <2> QED BY <2>2 DEF RowsApart
<1>10. DeleteKeepsOthersOut'
    <2>1. /\ IsType(o, {"instance.delete"}) => ActiveOn(LifecycleTypes \cup ChannelTypes, row[o].inst) = {}
          /\ IsType(o, LifecycleTypes \cup ChannelTypes) => ActiveOf({"instance.delete"}) = {}
        BY <1>1, <1>2 DEF KeyInv, SeenOK
    <2>2. ASSUME NEW d \in ActiveRows', row'[d].type = "instance.delete",
                 NEW q \in ActiveRows', row'[q].type \in LifecycleTypes \cup ChannelTypes,
                 row'[q].inst = row'[d].inst
          PROVE  FALSE
        <3>1. d \in Ops /\ q \in Ops /\ d # q
            BY <2>2 DEF ActiveRows, LifecycleTypes, ChannelTypes
        <3>2. CASE d = o
            BY <1>3, <1>7, <2>1, <2>2, <3>1, <3>2 DEF ActiveOn, ActiveOf
        <3>3. CASE q = o
            BY <1>3, <1>7, <2>1, <2>2, <3>1, <3>3 DEF ActiveOf
        <3>4. CASE d # o /\ q # o
            BY <1>1, <1>3, <1>7, <2>2, <3>1, <3>4 DEF DeleteKeepsOthersOut, ActiveOn, ActiveOf
        <3> QED BY <3>2, <3>3, <3>4
    <2> QED BY <2>2 DEF DeleteKeepsOthersOut, ActiveOn, ActiveOf
<1>11. ASSUME NEW p \in Ops \ {o}
       PROVE  KeyInv(p)'
    <2>1. KeyOK(p) /\ MuOK(p) /\ SeenOK(p) /\ CancelOK(p) /\ LockOK(p) /\ OrphanOK(p) /\ StoppedOK(p)
        BY DEF OpsInv, KeyInv
    <2>2. row'[p] = row[p] /\ pc'[p] = pc[p] /\ cancel'[p] = cancel[p]
        BY <1>3, <1>4, <1>5
    <2>3. KeyOK(p)' /\ CancelOK(p)' /\ LockOK(p)' /\ OrphanOK(p)'
        BY <1>5, <2>1, <2>2 DEF KeyOK, CancelOK, LockOK, OrphanOK, InventoryOps, Insert
    <2>4. MuOK(p)'
        BY <1>5, <2>1, <2>2 DEF MuOK
    <2>5. IsType(o, LifecycleTypes \cup ChannelTypes \cup {"instance.delete"}) => mu = o
        BY <1>1, <1>2 DEF KeyInv, MuOK
    <2>6. SeenOK(p)'
        <3>1. ASSUME pc[p] = "checked", IsType(p, {"instance.delete"})
              PROVE  ActiveOn(LifecycleTypes \cup ChannelTypes, row[p].inst)' = {}
            BY <1>3, <1>7, <2>1, <2>5, <3>1 DEF SeenOK, MuOK, ActiveOn, ActiveOf, ActiveRows
        <3>2. ASSUME pc[p] = "checked", IsType(p, LifecycleTypes \cup ChannelTypes)
              PROVE  ActiveOf({"instance.delete"})' = {}
            BY <1>3, <1>7, <2>1, <2>5, <3>2 DEF SeenOK, MuOK, ActiveOf, ActiveRows
        <3> QED BY <2>2, <3>1, <3>2 DEF SeenOK, ActiveOn, ActiveOf, ActiveRows
    <2>7. StoppedOK(p)'
        <3> SUFFICES ASSUME StoppedDelete(p)
                     PROVE  /\ row[p].inst \notin running
                            /\ ActiveOn(LifecycleTypes \cup ChannelTypes, row[p].inst)' = {}
                            /\ \A q \in Ops : pc'[q] = "found" /\ row'[q].type \in SkillTypes =>
                                              row'[q].inst # row[p].inst
            BY <1>5, <2>2 DEF StoppedOK, StoppedDelete, ActiveOn, ActiveOf, ActiveRows
        <3>1. /\ row[p].inst \notin running
              /\ ActiveOn(LifecycleTypes \cup ChannelTypes, row[p].inst) = {}
              /\ \A q \in Ops : pc[q] = "found" /\ IsType(q, SkillTypes) => row[q].inst # row[p].inst
            BY <2>1 DEF StoppedOK
        <3>2. ~IsType(o, LifecycleTypes \cup ChannelTypes)
            BY <1>1, <1>2, <2>1, <2>5 DEF KeyInv, SeenOK, StoppedDelete, MuOK, ActiveOf, ActiveRows
        <3>3. ActiveOn(LifecycleTypes \cup ChannelTypes, row[p].inst)' = {}
            BY <1>3, <1>7, <3>1, <3>2 DEF ActiveOn, ActiveOf, ActiveRows
        <3>4. \A q \in Ops : pc'[q] = "found" /\ row'[q].type \in SkillTypes => row'[q].inst # row[p].inst
            BY <1>3, <1>4, <3>1
        <3> QED BY <3>1, <3>3, <3>4
    <2> QED BY <2>3, <2>4, <2>6, <2>7 DEF KeyInv
<1>12. KeyInv(o)'
    <2>1. KeyOK(o)'
        BY <1>1, <1>2, <1>3, <1>4 DEF KeyInv, KeyOK, Requesting, WorkingPcs
    <2>2. MuOK(o)' /\ SeenOK(o)' /\ LockOK(o)' /\ OrphanOK(o)'
        BY <1>3, <1>4 DEF MuOK, SeenOK, LockOK, OrphanOK, WorkingPcs
    <2>3. CancelOK(o)'
        BY <1>1, <1>2, <1>3, <1>5 DEF KeyInv, CancelOK, InventoryOps, NoCancel
    <2>4. StoppedOK(o)'
        <3> SUFFICES ASSUME IsType(o, {"instance.delete"}), o \notin raced
                     PROVE  /\ row[o].inst \notin running
                            /\ ActiveOn(LifecycleTypes \cup ChannelTypes, row[o].inst)' = {}
                            /\ \A q \in Ops : pc'[q] = "found" /\ row'[q].type \in SkillTypes =>
                                              row'[q].inst # row[o].inst
            BY <1>3, <1>5 DEF StoppedOK, StoppedDelete, ActiveOn, ActiveOf, ActiveRows
        <3>1. /\ row[o].inst \notin running
              /\ ActiveOn(LifecycleTypes \cup ChannelTypes, row[o].inst) = {}
              /\ \A q \in Ops : pc[q] = "found" /\ IsType(q, SkillTypes) => row[q].inst # row[o].inst
            BY <1>1, <1>2 DEF KeyInv, StoppedOK, StoppedDelete
        <3>2. ActiveOn(LifecycleTypes \cup ChannelTypes, row[o].inst)' = {}
            BY <1>3, <1>7, <3>1 DEF ActiveOn, ActiveOf, ActiveRows, LifecycleTypes, ChannelTypes
        <3>3. \A q \in Ops : pc'[q] = "found" /\ row'[q].type \in SkillTypes => row'[q].inst # row[o].inst
            BY <1>3, <1>4, <3>1
        <3> QED BY <3>1, <3>2, <3>3
    <2> QED BY <2>1, <2>2, <2>3, <2>4 DEF KeyInv
<1>13. BootOK'
    BY <1>5 DEF BootOK
<1> QED BY <1>6, <1>9, <1>10, <1>11, <1>12, <1>13 DEF OpsInv

\* A row that an index or a trigger refuses ends its request.
LEMMA InsertRefused ==
    ASSUME OpsInv, NEW o \in Ops, Insert(o), UNCHANGED rest, boot = "serving", ~CanInsert(o)
    PROVE  OpsInv'
<1>1. OpsType /\ row \in [Ops -> Row] /\ pc \in [Ops -> Pcs] /\ KeyInv(o)
    BY DEF OpsInv, OpsType
<1>2. OpsInv'
    <2>1. pc[o] = "checked" /\ Drop(o)
        BY <1>1 DEF Insert
    <2>2. /\ row' \in [Ops -> Row] /\ \A p \in Ops \ {o} : row'[p] = row[p]
          /\ row'[o].type = "none" /\ row'[o].inst = NoInst /\ row'[o].status = "NONE"
          /\ pc' \in [Ops -> Pcs] /\ \A p \in Ops \ {o} : pc'[p] = pc[p]
          /\ pc'[o] = "off"
        BY <1>1, <2>1, DropEffect DEF Insert, Statuses
    <2>3. TRUE
        OBVIOUS
    <2>4. cancel' = cancel
        BY <1>1, <2>1 DEF Insert
    <2>5. OpsType'
        BY <1>1, <2>2 DEF Insert, rest, OpsType
    <2>6. Local(o) /\ Quiet(o) /\ LocksMove(o) /\ GatewayMoves(o)
        BY <1>1, <2>2 DEF Insert, rest, Local, Quiet, LocksMove, GatewayMoves, ValidTransition
    <2>7. KeyOK(o)'
        BY <1>1, <2>2 DEF KeyOK, WorkingPcs, LifecycleTypes, InventoryTypes
    <2>8. MuOK(o)'
        BY <1>1, <2>2 DEF KeyInv, KeyOK, MuOK
    <2>9. SeenOK(o)'
        BY <1>1, <2>2 DEF KeyInv, KeyOK, SeenOK
    <2>10. CancelOK(o)'
        BY <1>1, <2>1 DEF Insert, KeyInv, KeyOK, CancelOK, Requesting, InventoryOps, ValidTransition, NoCancel
    <2>11. LockOK(o)'
        BY <1>1, <2>2 DEF KeyOK, LockOK, WorkingPcs
    <2>12. OrphanOK(o)'
        BY <1>1, <2>2 DEF KeyInv, KeyOK, OrphanOK
    <2>13. StoppedDelete(o)' => StoppedDelete(o) /\ row'[o].inst = row[o].inst
        BY <1>1, <2>2 DEF StoppedDelete, KeyInv, SeenOK
    <2>14. StoppedOK(o)'
        BY <1>1, <2>6, <2>13, StoppedKept
    <2> QED
        BY <1>1, <2>1, <2>5, <2>6, <2>7, <2>8, <2>9, <2>10, <2>11, <2>12, <2>14, StepOfKey DEF KeyInv, rest
<1> QED BY <1>2

\* Either way.
LEMMA InsertKeeps ==
    ASSUME OpsInv, NEW o \in Ops, Insert(o), UNCHANGED rest, boot = "serving"
    PROVE  OpsInv'
BY InsertsRow, InsertRefused


\* An inventory worker claims its row, or finds it cancelled and ends.
LEMMA ClaimKeeps ==
    ASSUME OpsInv, NEW o \in Ops, Claim(o), UNCHANGED rest, boot = "serving"
    PROVE  OpsInv'
<1>1. OpsType /\ row \in [Ops -> Row] /\ pc \in [Ops -> Pcs] /\ KeyInv(o)
    BY DEF OpsInv, OpsType
<1>2. CASE o \in ctx \/ row[o].status # "PENDING"
    <2>1. pc[o] = "queued" /\ o \in InventoryOps
        BY <1>1, <1>2 DEF Claim
    <2>2. row' = row
        BY <1>1, <1>2, <2>1 DEF Claim, Statuses
    <2>3. /\ pc' \in [Ops -> Pcs] /\ \A p \in Ops \ {o} : pc'[p] = pc[p]
          /\ pc'[o] = "off"
        BY <1>1, <1>2, <2>1, GotoEffect DEF Claim, Pcs
    <2>4. cancel' = cancel
        BY <1>1, <1>2, <2>1 DEF Claim
    <2>5. OpsType'
        BY <1>1, <1>2, <2>3 DEF Claim, rest, OpsType
    <2>6. Local(o) /\ Quiet(o) /\ LocksMove(o) /\ GatewayMoves(o)
        BY <1>2, <2>3 DEF Claim, rest, Local, Quiet, LocksMove, GatewayMoves, ValidTransition
    <2>7. KeyOK(o)'
        BY <1>1, <1>2, <2>2, <2>3 DEF KeyInv, KeyOK, WorkingPcs, Requesting, ValidTransition
    <2>8. MuOK(o)'
        BY <1>2, <2>3 DEF KeyInv, KeyOK, MuOK
    <2>9. SeenOK(o)'
        BY <1>2, <2>3 DEF KeyInv, KeyOK, SeenOK
    <2>10. CancelOK(o)'
        BY <1>1, <1>2 DEF Claim, KeyInv, CancelOK
    <2>11. LockOK(o)'
        BY <1>2, <2>3 DEF KeyOK, LockOK, WorkingPcs
    <2>12. OrphanOK(o)'
        BY <1>1, <1>2 DEF Claim, KeyInv, KeyOK, OrphanOK, InventoryOps, NoCancel
    <2>13. StoppedDelete(o)' => StoppedDelete(o) /\ row'[o].inst = row[o].inst
        BY <1>2, <2>3 DEF StoppedDelete, KeyInv, SeenOK
    <2>14. StoppedOK(o)'
        BY <1>1, <2>6, <2>13, StoppedKept
    <2> QED
        BY <1>1, <2>1, <2>5, <2>6, <2>7, <2>8, <2>9, <2>10, <2>11, <2>12, <2>14, StepOfKey DEF KeyInv, rest
<1>3. CASE ~(o \in ctx \/ row[o].status # "PENDING")
    <2>1. pc[o] = "queued" /\ o \in InventoryOps
        BY <1>1, <1>3 DEF Claim
    <2>2. /\ row' \in [Ops -> Row] /\ \A p \in Ops \ {o} : row'[p] = row[p]
          /\ row'[o].type = row[o].type /\ row'[o].inst = row[o].inst
          /\ row'[o].status = IF row[o].status = "PENDING" /\ ValidTransition("PENDING", "RUNNING") THEN "RUNNING" ELSE row[o].status
        BY <1>1, <1>3, <2>1, UpdateEffect DEF Claim, Statuses
    <2>3. /\ pc' \in [Ops -> Pcs] /\ \A p \in Ops \ {o} : pc'[p] = pc[p]
          /\ pc'[o] = "claimed"
        BY <1>1, <1>3, <2>1, GotoEffect DEF Claim, Pcs
    <2>4. cancel' = cancel
        BY <1>1, <1>3, <2>1 DEF Claim
    <2>5. OpsType'
        BY <1>1, <1>3, <2>2, <2>3 DEF Claim, rest, OpsType
    <2>6. Local(o) /\ Quiet(o) /\ LocksMove(o) /\ GatewayMoves(o)
        BY <1>3, <2>2, <2>3 DEF Claim, rest, Local, Quiet, LocksMove, GatewayMoves
    <2>7. KeyOK(o)'
        BY <1>1, <1>3, <2>1, <2>2, <2>3 DEF KeyInv, KeyOK, Requesting, InventoryOps, ValidTransition, NoCancel
    <2>8. MuOK(o)'
        BY <1>3, <2>3 DEF KeyInv, KeyOK, MuOK
    <2>9. SeenOK(o)'
        BY <1>3, <2>3 DEF KeyInv, KeyOK, SeenOK
    <2>10. CancelOK(o)'
        BY <1>1, <1>3, <2>2 DEF Claim, KeyInv, CancelOK
    <2>11. LockOK(o)'
        BY <1>3, <2>3 DEF KeyOK, LockOK, WorkingPcs
    <2>12. OrphanOK(o)'
        BY <1>3, <2>3 DEF KeyInv, KeyOK, OrphanOK
    <2>13. StoppedDelete(o)' => StoppedDelete(o) /\ row'[o].inst = row[o].inst
        BY <1>3, <2>2 DEF Claim, StoppedDelete, SeenOK
    <2>14. StoppedOK(o)'
        BY <1>1, <2>6, <2>13, StoppedKept
    <2> QED
        BY <1>1, <2>1, <2>5, <2>6, <2>7, <2>8, <2>9, <2>10, <2>11, <2>12, <2>14, StepOfKey DEF KeyInv, rest
<1> QED BY <1>2, <1>3 DEF Claim

\* It enters the started map.
LEMMA NoteStartedKeeps ==
    ASSUME OpsInv, NEW o \in Ops, NoteStarted(o), UNCHANGED rest, boot = "serving"
    PROVE  OpsInv'
<1>1. OpsType /\ row \in [Ops -> Row] /\ pc \in [Ops -> Pcs] /\ KeyInv(o)
    BY DEF OpsInv, OpsType
<1>2. OpsInv'
    <2>1. pc[o] = "claimed" /\ o \in InventoryOps
        BY <1>1 DEF NoteStarted
    <2>2. row' = row
        BY <1>1, <2>1 DEF NoteStarted, Statuses
    <2>3. /\ pc' \in [Ops -> Pcs] /\ \A p \in Ops \ {o} : pc'[p] = pc[p]
          /\ pc'[o] = "started"
        BY <1>1, <2>1, GotoEffect DEF NoteStarted, Pcs
    <2>4. cancel' = cancel
        BY <1>1, <2>1 DEF NoteStarted
    <2>5. OpsType'
        BY <1>1, <2>3 DEF NoteStarted, rest, OpsType
    <2>6. Local(o) /\ Quiet(o) /\ LocksMove(o) /\ GatewayMoves(o)
        BY <2>3, <2>4 DEF NoteStarted, rest, Local, Quiet, LocksMove, GatewayMoves, ValidTransition
    <2>7. KeyOK(o)'
        BY <1>1, <2>1, <2>2, <2>3 DEF KeyInv, KeyOK, Requesting, ValidTransition
    <2>8. MuOK(o)'
        BY <2>3, <2>4 DEF KeyInv, KeyOK, MuOK
    <2>9. SeenOK(o)'
        BY <2>3, <2>4 DEF KeyInv, KeyOK, SeenOK
    <2>10. CancelOK(o)'
        BY <1>1, <2>1 DEF NoteStarted, KeyInv, CancelOK
    <2>11. LockOK(o)'
        BY <2>1, <2>2 DEF KeyOK, LockOK, InventoryOps, LifecycleTypes, ChannelTypes, SkillTypes, InventoryTypes, NoCancel
    <2>12. OrphanOK(o)'
        BY <2>3, <2>4 DEF KeyInv, KeyOK, OrphanOK
    <2>13. StoppedDelete(o)' => StoppedDelete(o) /\ row'[o].inst = row[o].inst
        BY <1>1, <2>3 DEF NoteStarted, StoppedDelete, SeenOK
    <2>14. StoppedOK(o)'
        BY <1>1, <2>6, <2>13, StoppedKept
    <2> QED
        BY <1>1, <2>1, <2>5, <2>6, <2>7, <2>8, <2>9, <2>10, <2>11, <2>12, <2>14, StepOfKey DEF KeyInv, rest
<1> QED BY <1>2

\* A lifecycle worker moves the gateway of its instance, which no delete has seen stopped.
LEMMA LifecycleActKeeps ==
    ASSUME OpsInv, NEW o \in Ops, NEW r \in Outcomes, LifecycleAct(o, r), UNCHANGED rest, boot = "serving"
    PROVE  OpsInv'
<1>1. OpsType /\ row \in [Ops -> Row] /\ pc \in [Ops -> Pcs] /\ KeyInv(o)
    BY DEF OpsInv, OpsType
<1>2. OpsInv'
    <2>1. pc[o] = "started" /\ IsType(o, LifecycleTypes) /\ running' \subseteq profile /\ running' \subseteq running \cup {row[o].inst}
        BY <1>1 DEF LifecycleAct, RunsAfter, Outcomes, OpsType
    <2>2. row' = row
        BY <1>1, <2>1 DEF LifecycleAct, Statuses
    <2>3. /\ pc' \in [Ops -> Pcs] /\ \A p \in Ops \ {o} : pc'[p] = pc[p]
          /\ pc'[o] = "acted"
        BY <1>1, <2>1, GotoEffect DEF LifecycleAct, Pcs
    <2>4. cancel' = cancel
        BY <1>1, <2>1 DEF LifecycleAct
    <2>5. OpsType'
        BY <1>1, <2>3 DEF LifecycleAct, rest, OpsType, Answer, Boots, Outcomes
    <2>6. Local(o) /\ Quiet(o) /\ LocksMove(o) /\ GatewayMoves(o)
        BY <1>1, <2>1, <2>3 DEF LifecycleAct, rest, Local, Quiet, LocksMove, GatewayMoves, ValidTransition, KeyInv, KeyOK, MuOK, LockOK, WorkingPcs, Unwaited, LifecycleTypes, MCPTypes, BackupTypes
    <2>7. KeyOK(o)'
        BY <1>1, <2>1, <2>2, <2>3 DEF KeyInv, KeyOK, WorkingPcs, Requesting, ValidTransition
    <2>8. MuOK(o)'
        BY <2>3, <2>4 DEF KeyInv, KeyOK, MuOK
    <2>9. SeenOK(o)'
        BY <2>3, <2>4 DEF KeyInv, KeyOK, SeenOK
    <2>10. CancelOK(o)'
        BY <1>1, <2>1 DEF LifecycleAct, KeyInv, CancelOK, InventoryOps, NoCancel
    <2>11. LockOK(o)'
        BY <1>1, <2>1, <2>2 DEF rest, KeyInv, KeyOK, LockOK, WorkingPcs
    <2>12. OrphanOK(o)'
        BY <2>3, <2>4 DEF KeyInv, KeyOK, OrphanOK
    <2>13. StoppedDelete(o)' => StoppedDelete(o) /\ row'[o].inst = row[o].inst
        BY <1>1, <2>3 DEF StoppedDelete, KeyInv, SeenOK
    <2>14. StoppedOK(o)'
        BY <1>1, <2>6, <2>13, StoppedKept
    <2> QED
        BY <1>1, <2>1, <2>5, <2>6, <2>7, <2>8, <2>9, <2>10, <2>11, <2>12, <2>14, StepOfKey DEF KeyInv, rest
<1> QED BY <1>2

\* A create worker adds a profile.
LEMMA CreateActKeeps ==
    ASSUME OpsInv, NEW o \in Ops, NEW r \in Outcomes, CreateAct(o, r), UNCHANGED rest, boot = "serving"
    PROVE  OpsInv'
<1>1. OpsType /\ row \in [Ops -> Row] /\ pc \in [Ops -> Pcs] /\ KeyInv(o)
    BY DEF OpsInv, OpsType
<1>2. OpsInv'
    <2>1. pc[o] = "started" /\ IsType(o, {"instance.create"}) /\ row[o].inst \in Instances /\ profile \subseteq profile' /\ profile' \subseteq profile \cup {row[o].inst}
        BY <1>1 DEF CreateAct, Row, KeyInv, KeyOK, InventoryTypes
    <2>2. row' = row
        BY <1>1, <2>1 DEF CreateAct, Statuses
    <2>3. /\ pc' \in [Ops -> Pcs] /\ \A p \in Ops \ {o} : pc'[p] = pc[p]
          /\ pc'[o] = "acted"
        BY <1>1, <2>1, GotoEffect DEF CreateAct, Pcs
    <2>4. cancel' = cancel
        BY <1>1, <2>1 DEF CreateAct
    <2>5. OpsType'
        BY <1>1, <2>1, <2>3 DEF CreateAct, rest, OpsType, Answer, Snapshot, Unknown, Inventory, Unlisted, Visible, ListInstances, Boots, Outcomes
    <2>6. Local(o) /\ Quiet(o) /\ LocksMove(o) /\ GatewayMoves(o)
        BY <2>3, <2>4 DEF CreateAct, rest, Local, Quiet, LocksMove, GatewayMoves, ValidTransition
    <2>7. KeyOK(o)'
        BY <1>1, <2>1, <2>2, <2>3 DEF KeyInv, KeyOK, WorkingPcs, Requesting, ValidTransition
    <2>8. MuOK(o)'
        BY <2>3, <2>4 DEF KeyInv, KeyOK, MuOK
    <2>9. SeenOK(o)'
        BY <2>3, <2>4 DEF KeyInv, KeyOK, SeenOK
    <2>10. CancelOK(o)'
        BY <1>1, <2>1 DEF CreateAct, KeyInv, CancelOK, InventoryOps, NoCancel
    <2>11. LockOK(o)'
        BY <1>1, <2>1, <2>2 DEF rest, KeyInv, KeyOK, LockOK, WorkingPcs
    <2>12. OrphanOK(o)'
        BY <2>3, <2>4 DEF KeyInv, KeyOK, OrphanOK
    <2>13. StoppedDelete(o)' => StoppedDelete(o) /\ row'[o].inst = row[o].inst
        BY <2>1, <2>2 DEF StoppedDelete, KeyInv, SeenOK
    <2>14. StoppedOK(o)'
        BY <1>1, <2>6, <2>13, StoppedKept
    <2> QED
        BY <1>1, <2>1, <2>5, <2>6, <2>7, <2>8, <2>9, <2>10, <2>11, <2>12, <2>14, StepOfKey DEF KeyInv, rest
<1> QED BY <1>2

\* A delete worker lists the profiles.
LEMMA DeleteListKeeps ==
    ASSUME OpsInv, NEW o \in Ops, NEW listed \in BOOLEAN, DeleteList(o, listed), UNCHANGED rest, boot = "serving"
    PROVE  OpsInv'
<1>1. OpsType /\ row \in [Ops -> Row] /\ pc \in [Ops -> Pcs] /\ KeyInv(o)
    BY DEF OpsInv, OpsType
<1>2. OpsInv'
    <2>1. pc[o] = "started" /\ IsType(o, {"instance.delete"})
        BY <1>1 DEF DeleteList
    <2>2. row' = row
        BY <1>1, <2>1 DEF DeleteList, Statuses
    <2>3. /\ pc' \in [Ops -> Pcs] /\ \A p \in Ops \ {o} : pc'[p] = pc[p]
          /\ pc'[o] = "seen"
        BY <1>1, <2>1, GotoEffect DEF DeleteList, Pcs
    <2>4. cancel' = cancel
        BY <1>1, <2>1 DEF DeleteList
    <2>5. OpsType'
        BY <1>1, <2>3 DEF DeleteList, rest, OpsType
    <2>6. Local(o) /\ Quiet(o) /\ LocksMove(o) /\ GatewayMoves(o)
        BY <2>3, <2>4 DEF DeleteList, rest, Local, Quiet, LocksMove, GatewayMoves, ValidTransition
    <2>7. KeyOK(o)'
        BY <1>1, <2>1, <2>2, <2>3 DEF KeyInv, KeyOK, InventoryOps, WorkingPcs, InventoryTypes, Requesting, ValidTransition
    <2>8. MuOK(o)'
        BY <2>3, <2>4 DEF KeyInv, KeyOK, MuOK
    <2>9. SeenOK(o)'
        BY <2>3, <2>4 DEF KeyInv, KeyOK, SeenOK
    <2>10. CancelOK(o)'
        BY <1>1, <2>1 DEF DeleteList, KeyInv, CancelOK, InventoryOps, NoCancel
    <2>11. LockOK(o)'
        BY <2>1, <2>2 DEF KeyOK, LockOK, LifecycleTypes, ChannelTypes, SkillTypes, InventoryTypes, NoCancel
    <2>12. OrphanOK(o)'
        BY <2>3, <2>4 DEF KeyInv, KeyOK, OrphanOK
    <2>13. StoppedDelete(o)' => StoppedDelete(o) /\ row'[o].inst = row[o].inst
        BY <1>1, <2>3 DEF DeleteList, StoppedDelete, SeenOK
    <2>14. StoppedOK(o)'
        BY <1>1, <2>6, <2>13, StoppedKept
    <2> QED
        BY <1>1, <2>1, <2>5, <2>6, <2>7, <2>8, <2>9, <2>10, <2>11, <2>12, <2>14, StepOfKey DEF KeyInv, rest
<1> QED BY <1>2

\* A delete worker ends when the list does not show its profile.
LEMMA DeleteFindKeeps ==
    ASSUME OpsInv, NEW o \in Ops, DeleteFind(o), UNCHANGED rest, boot = "serving"
    PROVE  OpsInv'
<1>1. OpsType /\ row \in [Ops -> Row] /\ pc \in [Ops -> Pcs] /\ KeyInv(o)
    BY DEF OpsInv, OpsType
<1>2. CASE row[o].inst \in seen
    <2>1. pc[o] = "seen" /\ IsType(o, {"instance.delete"})
        BY <1>1, <1>2 DEF DeleteFind
    <2>2. row' = row
        BY <1>1, <1>2, <2>1 DEF DeleteFind, Statuses
    <2>3. /\ pc' \in [Ops -> Pcs] /\ \A p \in Ops \ {o} : pc'[p] = pc[p]
          /\ pc'[o] = "found"
        BY <1>1, <1>2, <2>1, GotoEffect DEF DeleteFind, Pcs
    <2>4. cancel' = cancel
        BY <1>1, <1>2, <2>1 DEF DeleteFind
    <2>5. OpsType'
        BY <1>1, <1>2, <2>3 DEF DeleteFind, rest, OpsType, Snapshot, Unknown, Inventory, Unlisted, Visible, ListInstances
    <2>6. Local(o) /\ Quiet(o) /\ LocksMove(o) /\ GatewayMoves(o)
        BY <1>2, <2>3 DEF DeleteFind, rest, Local, Quiet, LocksMove, GatewayMoves, ValidTransition, SkillTypes
    <2>7. KeyOK(o)'
        BY <1>1, <1>2, <2>1, <2>2, <2>3 DEF KeyInv, KeyOK, WorkingPcs, Requesting, ValidTransition
    <2>8. MuOK(o)'
        BY <1>2, <2>3 DEF KeyInv, KeyOK, MuOK
    <2>9. SeenOK(o)'
        BY <1>2, <2>3 DEF KeyInv, KeyOK, SeenOK
    <2>10. CancelOK(o)'
        BY <1>1, <1>2 DEF DeleteFind, KeyInv, CancelOK, InventoryOps, NoCancel
    <2>11. LockOK(o)'
        BY <1>1, <1>2, <2>1, <2>2 DEF rest, KeyInv, KeyOK, LockOK, WorkingPcs
    <2>12. OrphanOK(o)'
        BY <1>2, <2>3 DEF KeyInv, KeyOK, OrphanOK
    <2>13. StoppedDelete(o)' => StoppedDelete(o) /\ row'[o].inst = row[o].inst
        BY <1>2, <2>3 DEF DeleteFind, StoppedDelete, SeenOK
    <2>14. StoppedOK(o)'
        BY <1>1, <2>6, <2>13, StoppedKept
    <2> QED
        BY <1>1, <2>1, <2>5, <2>6, <2>7, <2>8, <2>9, <2>10, <2>11, <2>12, <2>14, StepOfKey DEF KeyInv, rest
<1>3. CASE row[o].inst \notin seen
    <2>1. pc[o] = "seen" /\ IsType(o, {"instance.delete"})
        BY <1>1, <1>3 DEF DeleteFind
    <2>2. /\ row' \in [Ops -> Row] /\ \A p \in Ops \ {o} : row'[p] = row[p]
          /\ row'[o].type = row[o].type /\ row'[o].inst = row[o].inst
          /\ row'[o].status = IF row[o].status = "RUNNING" /\ ValidTransition("RUNNING", (IF seen # Unlisted THEN "SUCCEEDED" ELSE "FAILED")) THEN (IF seen # Unlisted THEN "SUCCEEDED" ELSE "FAILED") ELSE row[o].status
        BY <1>1, <1>3, <2>1, UpdateEffect DEF DeleteFind, Statuses
    <2>3. /\ pc' \in [Ops -> Pcs] /\ \A p \in Ops \ {o} : pc'[p] = pc[p]
          /\ pc'[o] = "off"
        BY <1>1, <1>3, <2>1, GotoEffect DEF DeleteFind, Pcs
    <2>4. cancel' = cancel
        BY <1>1, <1>3, <2>1 DEF DeleteFind
    <2>5. OpsType'
        BY <1>1, <1>3, <2>2, <2>3 DEF DeleteFind, rest, OpsType, Snapshot, Unknown, Inventory, Unlisted, Visible, ListInstances
    <2>6. Local(o) /\ Quiet(o) /\ LocksMove(o) /\ GatewayMoves(o)
        BY <1>3, <2>2, <2>3 DEF DeleteFind, rest, Local, Quiet, LocksMove, GatewayMoves
    <2>7. KeyOK(o)'
        BY <1>1, <1>3, <2>2, <2>3 DEF KeyInv, KeyOK, WorkingPcs, Requesting, ValidTransition
    <2>8. MuOK(o)'
        BY <1>3, <2>3 DEF KeyInv, KeyOK, MuOK
    <2>9. SeenOK(o)'
        BY <1>3, <2>3 DEF KeyInv, KeyOK, SeenOK
    <2>10. CancelOK(o)'
        BY <1>1, <1>3, <2>2 DEF DeleteFind, KeyInv, CancelOK, InventoryOps, NoCancel
    <2>11. LockOK(o)'
        BY <1>3, <2>3 DEF KeyOK, LockOK, WorkingPcs
    <2>12. OrphanOK(o)'
        BY <1>1, <1>3, <2>1, <2>2 DEF KeyInv, KeyOK, OrphanOK, WorkingPcs, Requesting, ValidTransition
    <2>13. StoppedDelete(o)' => StoppedDelete(o) /\ row'[o].inst = row[o].inst
        BY <1>3, <2>3 DEF StoppedDelete, KeyInv, SeenOK
    <2>14. StoppedOK(o)'
        BY <1>1, <2>6, <2>13, StoppedKept
    <2> QED
        BY <1>1, <2>1, <2>5, <2>6, <2>7, <2>8, <2>9, <2>10, <2>11, <2>12, <2>14, StepOfKey DEF KeyInv, rest
<1> QED BY <1>2, <1>3 DEF DeleteFind

\* It deletes the profile.
LEMMA DeleteActKeeps ==
    ASSUME OpsInv, NEW o \in Ops, NEW r \in Outcomes, DeleteAct(o, r), UNCHANGED rest, boot = "serving"
    PROVE  OpsInv'
<1>1. OpsType /\ row \in [Ops -> Row] /\ pc \in [Ops -> Pcs] /\ KeyInv(o)
    BY DEF OpsInv, OpsType
<1>2. OpsInv'
    <2>1. pc[o] = "found" /\ IsType(o, {"instance.delete"}) /\ profile' \subseteq profile /\ running' = running \cap profile'
        BY <1>1 DEF DeleteAct
    <2>2. row' = row
        BY <1>1, <2>1 DEF DeleteAct, Statuses
    <2>3. /\ pc' \in [Ops -> Pcs] /\ \A p \in Ops \ {o} : pc'[p] = pc[p]
          /\ pc'[o] = "acted"
        BY <1>1, <2>1, GotoEffect DEF DeleteAct, Pcs
    <2>4. cancel' = cancel
        BY <1>1, <2>1 DEF DeleteAct
    <2>5. OpsType'
        BY <1>1, <2>3 DEF DeleteAct, rest, OpsType, Answer, Snapshot, Unknown, Inventory, Unlisted, Visible, ListInstances, Boots, Outcomes
    <2>6. Local(o) /\ Quiet(o) /\ LocksMove(o) /\ GatewayMoves(o)
        BY <2>3, <2>4 DEF DeleteAct, rest, Local, Quiet, LocksMove, GatewayMoves, ValidTransition
    <2>7. KeyOK(o)'
        BY <1>1, <2>1, <2>2, <2>3 DEF KeyInv, KeyOK, WorkingPcs, Requesting, ValidTransition
    <2>8. MuOK(o)'
        BY <2>3, <2>4 DEF KeyInv, KeyOK, MuOK
    <2>9. SeenOK(o)'
        BY <2>3, <2>4 DEF KeyInv, KeyOK, SeenOK
    <2>10. CancelOK(o)'
        BY <1>1, <2>1 DEF DeleteAct, KeyInv, CancelOK, InventoryOps, NoCancel
    <2>11. LockOK(o)'
        BY <1>1, <2>1, <2>2 DEF rest, KeyInv, KeyOK, LockOK, WorkingPcs
    <2>12. OrphanOK(o)'
        BY <2>3, <2>4 DEF KeyInv, KeyOK, OrphanOK
    <2>13. StoppedDelete(o)' => StoppedDelete(o) /\ row'[o].inst = row[o].inst
        BY <1>1, <2>3 DEF StoppedDelete, KeyInv, SeenOK
    <2>14. StoppedOK(o)'
        BY <1>1, <2>6, <2>13, StoppedKept
    <2> QED
        BY <1>1, <2>1, <2>5, <2>6, <2>7, <2>8, <2>9, <2>10, <2>11, <2>12, <2>14, StepOfKey DEF KeyInv, rest
<1> QED BY <1>2

\* A create or a delete worker lists the profiles once more.
LEMMA RelistKeeps ==
    ASSUME OpsInv, NEW o \in Ops, NEW listed \in BOOLEAN, Relist(o, listed), UNCHANGED rest, boot = "serving"
    PROVE  OpsInv'
<1>1. OpsType /\ row \in [Ops -> Row] /\ pc \in [Ops -> Pcs] /\ KeyInv(o)
    BY DEF OpsInv, OpsType
<1>2. OpsInv'
    <2>1. pc[o] = "acted" /\ IsType(o, InventoryTypes)
        BY <1>1 DEF Relist
    <2>2. row' = row
        BY <1>1, <2>1 DEF Relist, Statuses
    <2>3. /\ pc' \in [Ops -> Pcs] /\ \A p \in Ops \ {o} : pc'[p] = pc[p]
          /\ pc'[o] = "relisted"
        BY <1>1, <2>1, GotoEffect DEF Relist, Pcs
    <2>4. cancel' = cancel
        BY <1>1, <2>1 DEF Relist
    <2>5. OpsType'
        BY <1>1, <2>3 DEF Relist, rest, OpsType
    <2>6. Local(o) /\ Quiet(o) /\ LocksMove(o) /\ GatewayMoves(o)
        BY <2>3, <2>4 DEF Relist, rest, Local, Quiet, LocksMove, GatewayMoves, ValidTransition
    <2>7. KeyOK(o)'
        BY <1>1, <2>1, <2>2, <2>3 DEF KeyInv, KeyOK, InventoryOps, WorkingPcs, Requesting, ValidTransition
    <2>8. MuOK(o)'
        BY <2>3, <2>4 DEF KeyInv, KeyOK, MuOK
    <2>9. SeenOK(o)'
        BY <2>3, <2>4 DEF KeyInv, KeyOK, SeenOK
    <2>10. CancelOK(o)'
        BY <1>1, <2>1 DEF Relist, KeyInv, CancelOK, InventoryOps, NoCancel
    <2>11. LockOK(o)'
        BY <2>1, <2>2 DEF KeyOK, LockOK, LifecycleTypes, ChannelTypes, SkillTypes, InventoryTypes, NoCancel
    <2>12. OrphanOK(o)'
        BY <2>3, <2>4 DEF KeyInv, KeyOK, OrphanOK
    <2>13. StoppedDelete(o)' => StoppedDelete(o) /\ row'[o].inst = row[o].inst
        BY <1>1, <2>3 DEF Relist, StoppedDelete, SeenOK
    <2>14. StoppedOK(o)'
        BY <1>1, <2>6, <2>13, StoppedKept
    <2> QED
        BY <1>1, <2>1, <2>5, <2>6, <2>7, <2>8, <2>9, <2>10, <2>11, <2>12, <2>14, StepOfKey DEF KeyInv, rest
<1> QED BY <1>2

\* An inventory worker stores its outcome.
LEMMA FinishKeeps ==
    ASSUME OpsInv, NEW o \in Ops, Finish(o), UNCHANGED rest, boot = "serving"
    PROVE  OpsInv'
<1>1. OpsType /\ row \in [Ops -> Row] /\ pc \in [Ops -> Pcs] /\ KeyInv(o)
    BY DEF OpsInv, OpsType
<1>2. OpsInv'
    <2>1. pc[o] \in {"acted", "relisted"} /\ o \in InventoryOps /\ Outcome(o) \in {"SUCCEEDED", "FAILED"}
        BY <1>1 DEF Finish, Outcome, InventoryOps, InventoryTypes, LifecycleTypes
    <2>2. /\ row' \in [Ops -> Row] /\ \A p \in Ops \ {o} : row'[p] = row[p]
          /\ row'[o].type = row[o].type /\ row'[o].inst = row[o].inst
          /\ row'[o].status = IF row[o].status = "RUNNING" /\ ValidTransition("RUNNING", Outcome(o)) THEN Outcome(o) ELSE row[o].status
        BY <1>1, <2>1, UpdateEffect DEF Finish, Statuses
    <2>3. /\ pc' \in [Ops -> Pcs] /\ \A p \in Ops \ {o} : pc'[p] = pc[p]
          /\ pc'[o] = "off"
        BY <1>1, <2>1, GotoEffect DEF Finish, Pcs
    <2>4. cancel' = cancel
        BY <1>1, <2>1 DEF Finish
    <2>5. OpsType'
        BY <1>1, <2>2, <2>3 DEF Finish, rest, OpsType, Snapshot, Unknown, Inventory, Unlisted, Visible, ListInstances
    <2>6. Local(o) /\ Quiet(o) /\ LocksMove(o) /\ GatewayMoves(o)
        BY <2>2, <2>3 DEF Finish, rest, Local, Quiet, LocksMove, GatewayMoves
    <2>7. KeyOK(o)'
        BY <1>1, <2>2, <2>3 DEF KeyInv, KeyOK, WorkingPcs, Requesting, ValidTransition
    <2>8. MuOK(o)'
        BY <2>3, <2>4 DEF KeyInv, KeyOK, MuOK
    <2>9. SeenOK(o)'
        BY <2>3, <2>4 DEF KeyInv, KeyOK, SeenOK
    <2>10. CancelOK(o)'
        BY <1>1, <2>1, <2>2 DEF Finish, KeyInv, CancelOK
    <2>11. LockOK(o)'
        BY <2>3, <2>4 DEF KeyOK, LockOK, WorkingPcs
    <2>12. OrphanOK(o)'
        BY <1>1, <2>1, <2>2 DEF KeyInv, KeyOK, OrphanOK, WorkingPcs, Requesting, ValidTransition
    <2>13. StoppedDelete(o)' => StoppedDelete(o) /\ row'[o].inst = row[o].inst
        BY <1>1, <2>3 DEF StoppedDelete, KeyInv, SeenOK
    <2>14. StoppedOK(o)'
        BY <1>1, <2>6, <2>13, StoppedKept
    <2> QED
        BY <1>1, <2>1, <2>5, <2>6, <2>7, <2>8, <2>9, <2>10, <2>11, <2>12, <2>14, StepOfKey DEF KeyInv, rest
<1> QED BY <1>2

\* A channel worker takes the lock of its instance.
LEMMA ChannelClaimKeeps ==
    ASSUME OpsInv, NEW o \in Ops, ChannelClaim(o), boot = "serving"
    PROVE  OpsInv'
<1>1. OpsType /\ row \in [Ops -> Row] /\ pc \in [Ops -> Pcs] /\ KeyInv(o)
    BY DEF OpsInv, OpsType
<1>2. CASE o \in ctx \/ row[o].status # "PENDING"
    <2>1. pc[o] = "queued" /\ IsType(o, ChannelTypes) /\ ilock' = ilock
        BY <1>1, <1>2 DEF ChannelClaim
    <2>2. row' = row
        BY <1>1, <1>2, <2>1 DEF ChannelClaim, Statuses
    <2>3. /\ pc' \in [Ops -> Pcs] /\ \A p \in Ops \ {o} : pc'[p] = pc[p]
          /\ pc'[o] = "off"
        BY <1>1, <1>2, <2>1, GotoEffect DEF ChannelClaim, Pcs
    <2>4. cancel' = cancel
        BY <1>1, <1>2, <2>1 DEF ChannelClaim
    <2>5. OpsType'
        BY <1>1, <1>2, <2>3 DEF ChannelClaim, OpsType
    <2>6. Local(o) /\ Quiet(o) /\ LocksMove(o) /\ GatewayMoves(o)
        BY <1>2, <2>3 DEF ChannelClaim, Local, Quiet, LocksMove, GatewayMoves, ValidTransition
    <2>7. KeyOK(o)'
        BY <1>1, <1>2, <2>2, <2>3 DEF KeyInv, KeyOK, WorkingPcs, Requesting, ValidTransition
    <2>8. MuOK(o)'
        BY <1>2, <2>3 DEF KeyInv, KeyOK, MuOK
    <2>9. SeenOK(o)'
        BY <1>2, <2>3 DEF KeyInv, KeyOK, SeenOK
    <2>10. CancelOK(o)'
        BY <1>1, <1>2 DEF ChannelClaim, KeyInv, CancelOK, InventoryOps, NoCancel
    <2>11. LockOK(o)'
        BY <1>2, <2>3 DEF KeyOK, LockOK, WorkingPcs
    <2>12. OrphanOK(o)'
        BY <1>1, <1>2 DEF ChannelClaim, KeyInv, KeyOK, OrphanOK
    <2>13. StoppedDelete(o)' => StoppedDelete(o) /\ row'[o].inst = row[o].inst
        BY <1>2, <2>3 DEF StoppedDelete, KeyInv, SeenOK
    <2>14. StoppedOK(o)'
        BY <1>1, <2>6, <2>13, StoppedKept
    <2> QED
        BY <1>1, <2>1, <2>5, <2>6, <2>7, <2>8, <2>9, <2>10, <2>11, <2>12, <2>14, StepOfKey DEF KeyInv, ChannelClaim
<1>3. CASE ~(o \in ctx \/ row[o].status # "PENDING")
    <2>1. pc[o] = "queued" /\ IsType(o, ChannelTypes) /\ row[o].inst \in Instances \cup {NoInst} /\ ilock[row[o].inst] = Free /\ ilock' = [ilock EXCEPT ![row[o].inst] = o]
        BY <1>1, <1>3 DEF ChannelClaim, Row
    <2>2. /\ row' \in [Ops -> Row] /\ \A p \in Ops \ {o} : row'[p] = row[p]
          /\ row'[o].type = row[o].type /\ row'[o].inst = row[o].inst
          /\ row'[o].status = IF row[o].status = "PENDING" /\ ValidTransition("PENDING", "RUNNING") THEN "RUNNING" ELSE row[o].status
        BY <1>1, <1>3, <2>1, UpdateEffect DEF ChannelClaim, Statuses
    <2>3. /\ pc' \in [Ops -> Pcs] /\ \A p \in Ops \ {o} : pc'[p] = pc[p]
          /\ pc'[o] = "started"
        BY <1>1, <1>3, <2>1, GotoEffect DEF ChannelClaim, Pcs
    <2>4. cancel' = cancel
        BY <1>1, <1>3, <2>1 DEF ChannelClaim
    <2>5. OpsType'
        BY <1>1, <1>3, <2>2, <2>3 DEF ChannelClaim, OpsType
    <2>6. Local(o) /\ Quiet(o) /\ LocksMove(o) /\ GatewayMoves(o)
        BY <1>1, <1>3, <2>2, <2>3 DEF ChannelClaim, Local, Quiet, LocksMove, GatewayMoves, OpsType, Row
    <2>7. KeyOK(o)'
        BY <1>1, <1>3, <2>2, <2>3 DEF KeyInv, KeyOK, Requesting, ValidTransition
    <2>8. MuOK(o)'
        BY <1>3, <2>3 DEF KeyInv, KeyOK, MuOK
    <2>9. SeenOK(o)'
        BY <1>3, <2>3 DEF KeyInv, KeyOK, SeenOK
    <2>10. CancelOK(o)'
        BY <1>1, <1>3, <2>2 DEF ChannelClaim, KeyInv, CancelOK, InventoryOps, NoCancel
    <2>11. LockOK(o)'
        BY <1>1, <1>3, <2>1, <2>2 DEF KeyOK, LockOK, OpsType, Row
    <2>12. OrphanOK(o)'
        BY <1>3, <2>3 DEF KeyInv, KeyOK, OrphanOK
    <2>13. StoppedDelete(o)' => StoppedDelete(o) /\ row'[o].inst = row[o].inst
        BY <1>3, <2>1, <2>2 DEF StoppedDelete, SeenOK, ChannelTypes, SkillTypes
    <2>14. StoppedOK(o)'
        BY <1>1, <2>6, <2>13, StoppedKept
    <2> QED
        BY <1>1, <2>1, <2>5, <2>6, <2>7, <2>8, <2>9, <2>10, <2>11, <2>12, <2>14, StepOfKey DEF KeyInv, ChannelClaim
<1> QED BY <1>2, <1>3 DEF ChannelClaim

\* It works on the channel.
LEMMA ChannelActKeeps ==
    ASSUME OpsInv, NEW o \in Ops, NEW r \in Outcomes, ChannelAct(o, r), UNCHANGED rest, boot = "serving"
    PROVE  OpsInv'
<1>1. OpsType /\ row \in [Ops -> Row] /\ pc \in [Ops -> Pcs] /\ KeyInv(o)
    BY DEF OpsInv, OpsType
<1>2. OpsInv'
    <2>1. pc[o] = "started" /\ IsType(o, ChannelTypes)
        BY <1>1 DEF ChannelAct
    <2>2. row' = row
        BY <1>1, <2>1 DEF ChannelAct, Statuses
    <2>3. /\ pc' \in [Ops -> Pcs] /\ \A p \in Ops \ {o} : pc'[p] = pc[p]
          /\ pc'[o] = "acted"
        BY <1>1, <2>1, GotoEffect DEF ChannelAct, Pcs
    <2>4. cancel' = cancel
        BY <1>1, <2>1 DEF ChannelAct
    <2>5. OpsType'
        BY <1>1, <2>3 DEF ChannelAct, rest, OpsType, Answer, Snapshot, Unknown, Inventory, Unlisted, Visible, ListInstances, Boots, Outcomes
    <2>6. Local(o) /\ Quiet(o) /\ LocksMove(o) /\ GatewayMoves(o)
        BY <2>3, <2>4 DEF ChannelAct, rest, Local, Quiet, LocksMove, GatewayMoves, ValidTransition
    <2>7. KeyOK(o)'
        BY <1>1, <2>1, <2>2, <2>3 DEF KeyInv, KeyOK, WorkingPcs, Requesting, ValidTransition
    <2>8. MuOK(o)'
        BY <2>3, <2>4 DEF KeyInv, KeyOK, MuOK
    <2>9. SeenOK(o)'
        BY <2>3, <2>4 DEF KeyInv, KeyOK, SeenOK
    <2>10. CancelOK(o)'
        BY <1>1, <2>1 DEF ChannelAct, KeyInv, CancelOK, InventoryOps, NoCancel
    <2>11. LockOK(o)'
        BY <1>1, <2>1, <2>2 DEF rest, KeyInv, KeyOK, LockOK, WorkingPcs
    <2>12. OrphanOK(o)'
        BY <2>3, <2>4 DEF KeyInv, KeyOK, OrphanOK
    <2>13. StoppedDelete(o)' => StoppedDelete(o) /\ row'[o].inst = row[o].inst
        BY <1>1, <2>3 DEF StoppedDelete, KeyInv, SeenOK
    <2>14. StoppedOK(o)'
        BY <1>1, <2>6, <2>13, StoppedKept
    <2> QED
        BY <1>1, <2>1, <2>5, <2>6, <2>7, <2>8, <2>9, <2>10, <2>11, <2>12, <2>14, StepOfKey DEF KeyInv, rest
<1> QED BY <1>2

\* It stores its outcome, or leaves the row to the Cancel that waits, and releases the lock.
LEMMA ChannelFinishKeeps ==
    ASSUME OpsInv, NEW o \in Ops, ChannelFinish(o), boot = "serving"
    PROVE  OpsInv'
<1>1. OpsType /\ row \in [Ops -> Row] /\ pc \in [Ops -> Pcs] /\ KeyInv(o)
    BY DEF OpsInv, OpsType
<1>2. CASE result[o] = "failed" /\ o \in ctx
    <2>1. pc[o] = "acted" /\ IsType(o, ChannelTypes) /\ ilock[row[o].inst] = o
        BY <1>1, <1>2 DEF ChannelFinish, KeyInv, LockOK, WorkingPcs
    <2>2. row' = row
        BY <1>1, <1>2, <2>1 DEF ChannelFinish, Statuses
    <2>3. /\ pc' \in [Ops -> Pcs] /\ \A p \in Ops \ {o} : pc'[p] = pc[p]
          /\ pc'[o] = "off"
        BY <1>1, <1>2, <2>1, GotoEffect DEF ChannelFinish, Pcs
    <2>4. cancel' = cancel
        BY <1>1, <1>2, <2>1 DEF ChannelFinish
    <2>5. OpsType'
        BY <1>1, <1>2, <2>3 DEF ChannelFinish, OpsType
    <2>6. Local(o) /\ Quiet(o) /\ LocksMove(o) /\ GatewayMoves(o)
        BY <1>2, <2>1, <2>3 DEF ChannelFinish, Local, Quiet, LocksMove, GatewayMoves, ValidTransition, OpsType, Row
    <2>7. KeyOK(o)'
        BY <1>1, <1>2, <2>2, <2>3 DEF KeyInv, KeyOK, WorkingPcs, Requesting, ValidTransition
    <2>8. MuOK(o)'
        BY <1>2, <2>3 DEF KeyInv, KeyOK, MuOK
    <2>9. SeenOK(o)'
        BY <1>2, <2>3 DEF KeyInv, KeyOK, SeenOK
    <2>10. CancelOK(o)'
        BY <1>1, <1>2, <2>2, <2>4 DEF KeyInv, CancelOK, InventoryOps, NoCancel
    <2>11. LockOK(o)'
        BY <1>2, <2>3 DEF KeyOK, LockOK, WorkingPcs
    <2>12. OrphanOK(o)'
        BY <1>1, <1>2 DEF ChannelFinish, OrphanOK, LifecycleTypes, ChannelTypes, SkillTypes, MCPTypes, BackupTypes, InventoryTypes
    <2>13. StoppedDelete(o)' => StoppedDelete(o) /\ row'[o].inst = row[o].inst
        BY <1>2, <2>3 DEF StoppedDelete, KeyInv, SeenOK
    <2>14. StoppedOK(o)'
        BY <1>1, <2>6, <2>13, StoppedKept
    <2> QED
        BY <1>1, <2>1, <2>5, <2>6, <2>7, <2>8, <2>9, <2>10, <2>11, <2>12, <2>14, StepOfKey DEF KeyInv, ChannelFinish
<1>3. CASE ~(result[o] = "failed" /\ o \in ctx)
    <2>1. pc[o] = "acted" /\ IsType(o, ChannelTypes) /\ ilock[row[o].inst] = o
        BY <1>1, <1>3 DEF ChannelFinish, KeyInv, LockOK, WorkingPcs
    <2>2. /\ row' \in [Ops -> Row] /\ \A p \in Ops \ {o} : row'[p] = row[p]
          /\ row'[o].type = row[o].type /\ row'[o].inst = row[o].inst
          /\ row'[o].status = IF IsActive(row[o].status) /\ ValidTransition(row[o].status, (IF result[o] = "ok" THEN "SUCCEEDED" ELSE "FAILED")) THEN (IF result[o] = "ok" THEN "SUCCEEDED" ELSE "FAILED") ELSE row[o].status
        BY <1>1, <1>3, <2>1, FinishEffect DEF ChannelFinish, Statuses
    <2>3. /\ pc' \in [Ops -> Pcs] /\ \A p \in Ops \ {o} : pc'[p] = pc[p]
          /\ pc'[o] = "off"
        BY <1>1, <1>3, <2>1, GotoEffect DEF ChannelFinish, Pcs
    <2>4. cancel' = cancel
        BY <1>1, <1>3, <2>1 DEF ChannelFinish
    <2>5. OpsType'
        BY <1>1, <1>3, <2>2, <2>3 DEF ChannelFinish, OpsType
    <2>6. Local(o) /\ Quiet(o) /\ LocksMove(o) /\ GatewayMoves(o)
        BY <1>3, <2>1, <2>2, <2>3 DEF ChannelFinish, Local, Quiet, LocksMove, GatewayMoves, OpsType, Row
    <2>7. KeyOK(o)'
        BY <1>1, <1>3, <2>2, <2>3 DEF KeyInv, KeyOK, WorkingPcs, Requesting, ValidTransition
    <2>8. MuOK(o)'
        BY <1>3, <2>3 DEF KeyInv, KeyOK, MuOK
    <2>9. SeenOK(o)'
        BY <1>3, <2>3 DEF KeyInv, KeyOK, SeenOK
    <2>10. CancelOK(o)'
        BY <1>1, <1>3, <2>2 DEF ChannelFinish, KeyInv, CancelOK, InventoryOps, NoCancel
    <2>11. LockOK(o)'
        BY <1>3, <2>3 DEF KeyOK, LockOK, WorkingPcs
    <2>12. OrphanOK(o)'
        BY <1>1, <1>3, <2>1, <2>2 DEF KeyInv, KeyOK, OrphanOK, WorkingPcs, Requesting, ValidTransition
    <2>13. StoppedDelete(o)' => StoppedDelete(o) /\ row'[o].inst = row[o].inst
        BY <1>3, <2>3 DEF StoppedDelete, KeyInv, SeenOK
    <2>14. StoppedOK(o)'
        BY <1>1, <2>6, <2>13, StoppedKept
    <2> QED
        BY <1>1, <2>1, <2>5, <2>6, <2>7, <2>8, <2>9, <2>10, <2>11, <2>12, <2>14, StepOfKey DEF KeyInv, ChannelFinish
<1> QED BY <1>2, <1>3 DEF ChannelFinish

\* The other workers claim their rows.
LEMMA ManagedClaimKeeps ==
    ASSUME OpsInv, NEW o \in Ops, ManagedClaim(o), UNCHANGED rest, boot = "serving"
    PROVE  OpsInv'
<1>1. OpsType /\ row \in [Ops -> Row] /\ pc \in [Ops -> Pcs] /\ KeyInv(o)
    BY DEF OpsInv, OpsType
<1>2. CASE o \in ctx \/ row[o].status # "PENDING"
    <2>1. pc[o] = "queued" /\ IsType(o, ManagedTypes)
        BY <1>1, <1>2 DEF ManagedClaim
    <2>2. row' = row
        BY <1>1, <1>2, <2>1 DEF ManagedClaim, Statuses
    <2>3. /\ pc' \in [Ops -> Pcs] /\ \A p \in Ops \ {o} : pc'[p] = pc[p]
          /\ pc'[o] = "off"
        BY <1>1, <1>2, <2>1, GotoEffect DEF ManagedClaim, Pcs
    <2>4. cancel' = cancel
        BY <1>1, <1>2, <2>1 DEF ManagedClaim
    <2>5. OpsType'
        BY <1>1, <1>2, <2>3 DEF ManagedClaim, rest, OpsType
    <2>6. Local(o) /\ Quiet(o) /\ LocksMove(o) /\ GatewayMoves(o)
        BY <1>2, <2>3 DEF ManagedClaim, rest, Local, Quiet, LocksMove, GatewayMoves, ValidTransition
    <2>7. KeyOK(o)'
        BY <1>1, <1>2, <2>2, <2>3 DEF KeyInv, KeyOK, WorkingPcs, Requesting, ValidTransition
    <2>8. MuOK(o)'
        BY <1>2, <2>3 DEF KeyInv, KeyOK, MuOK
    <2>9. SeenOK(o)'
        BY <1>2, <2>3 DEF KeyInv, KeyOK, SeenOK
    <2>10. CancelOK(o)'
        BY <1>1, <1>2 DEF ManagedClaim, KeyInv, CancelOK, InventoryOps, NoCancel
    <2>11. LockOK(o)'
        BY <1>2, <2>3 DEF KeyOK, LockOK, WorkingPcs
    <2>12. OrphanOK(o)'
        BY <1>1, <1>2 DEF ManagedClaim, KeyInv, KeyOK, MuOK, SeenOK, CancelOK, LockOK, OrphanOK, StoppedOK, MCPTypes, BackupTypes, UpgradeTypes, Unwaited, ManagedTypes
    <2>13. StoppedDelete(o)' => StoppedDelete(o) /\ row'[o].inst = row[o].inst
        BY <1>2, <2>3 DEF StoppedDelete, KeyInv, SeenOK
    <2>14. StoppedOK(o)'
        BY <1>1, <2>6, <2>13, StoppedKept
    <2> QED
        BY <1>1, <2>1, <2>5, <2>6, <2>7, <2>8, <2>9, <2>10, <2>11, <2>12, <2>14, StepOfKey DEF KeyInv, rest
<1>3. CASE ~(o \in ctx \/ row[o].status # "PENDING")
    <2>1. pc[o] = "queued" /\ IsType(o, ManagedTypes)
        BY <1>1, <1>3 DEF ManagedClaim
    <2>2. /\ row' \in [Ops -> Row] /\ \A p \in Ops \ {o} : row'[p] = row[p]
          /\ row'[o].type = row[o].type /\ row'[o].inst = row[o].inst
          /\ row'[o].status = IF row[o].status = "PENDING" /\ ValidTransition("PENDING", "RUNNING") THEN "RUNNING" ELSE row[o].status
        BY <1>1, <1>3, <2>1, UpdateEffect DEF ManagedClaim, Statuses
    <2>3. /\ pc' \in [Ops -> Pcs] /\ \A p \in Ops \ {o} : pc'[p] = pc[p]
          /\ pc'[o] = "started"
        BY <1>1, <1>3, <2>1, GotoEffect DEF ManagedClaim, Pcs
    <2>4. cancel' = cancel
        BY <1>1, <1>3, <2>1 DEF ManagedClaim
    <2>5. OpsType'
        BY <1>1, <1>3, <2>2, <2>3 DEF ManagedClaim, rest, OpsType
    <2>6. Local(o) /\ Quiet(o) /\ LocksMove(o) /\ GatewayMoves(o)
        BY <1>3, <2>2, <2>3 DEF ManagedClaim, rest, Local, Quiet, LocksMove, GatewayMoves
    <2>7. KeyOK(o)'
        BY <1>1, <1>3, <2>2, <2>3 DEF KeyInv, KeyOK, Requesting, ValidTransition
    <2>8. MuOK(o)'
        BY <1>3, <2>3 DEF KeyInv, KeyOK, MuOK
    <2>9. SeenOK(o)'
        BY <1>3, <2>3 DEF KeyInv, KeyOK, SeenOK
    <2>10. CancelOK(o)'
        BY <1>1, <1>3, <2>2 DEF ManagedClaim, KeyInv, CancelOK, InventoryOps, NoCancel
    <2>11. LockOK(o)'
        BY <1>3, <2>1, <2>2 DEF KeyOK, MuOK, SeenOK, CancelOK, LockOK, OrphanOK, StoppedOK, ChannelTypes, SkillTypes, MCPTypes, BackupTypes, UpgradeTypes, Unwaited, ManagedTypes
    <2>12. OrphanOK(o)'
        BY <1>3, <2>3 DEF KeyInv, KeyOK, OrphanOK
    <2>13. StoppedDelete(o)' => StoppedDelete(o) /\ row'[o].inst = row[o].inst
        BY <1>3, <2>1, <2>2 DEF StoppedDelete, SeenOK, ChannelTypes, SkillTypes, MCPTypes, BackupTypes, UpgradeTypes, Unwaited, ManagedTypes
    <2>14. StoppedOK(o)'
        BY <1>1, <2>6, <2>13, StoppedKept
    <2> QED
        BY <1>1, <2>1, <2>5, <2>6, <2>7, <2>8, <2>9, <2>10, <2>11, <2>12, <2>14, StepOfKey DEF KeyInv, rest
<1> QED BY <1>2, <1>3 DEF ManagedClaim

\* They work.
LEMMA ManagedActKeeps ==
    ASSUME OpsInv, NEW o \in Ops, NEW r \in Outcomes, ManagedAct(o, r), UNCHANGED rest, boot = "serving"
    PROVE  OpsInv'
<1>1. OpsType /\ row \in [Ops -> Row] /\ pc \in [Ops -> Pcs] /\ KeyInv(o)
    BY DEF OpsInv, OpsType
<1>2. OpsInv'
    <2>1. pc[o] = "started" /\ IsType(o, ManagedTypes \ ({"backup.restore"} \cup SkillTypes))
        BY <1>1 DEF ManagedAct
    <2>2. row' = row
        BY <1>1, <2>1 DEF ManagedAct, Statuses
    <2>3. /\ pc' \in [Ops -> Pcs] /\ \A p \in Ops \ {o} : pc'[p] = pc[p]
          /\ pc'[o] = "acted"
        BY <1>1, <2>1, GotoEffect DEF ManagedAct, Pcs
    <2>4. cancel' = cancel
        BY <1>1, <2>1 DEF ManagedAct
    <2>5. OpsType'
        BY <1>1, <2>3 DEF ManagedAct, rest, OpsType, Answer, Snapshot, Unknown, Inventory, Unlisted, Visible, ListInstances, Boots, Outcomes
    <2>6. Local(o) /\ Quiet(o) /\ LocksMove(o) /\ GatewayMoves(o)
        BY <2>3, <2>4 DEF ManagedAct, rest, Local, Quiet, LocksMove, GatewayMoves, ValidTransition
    <2>7. KeyOK(o)'
        BY <1>1, <2>1, <2>2, <2>3 DEF KeyInv, KeyOK, WorkingPcs, Requesting, ValidTransition
    <2>8. MuOK(o)'
        BY <2>3, <2>4 DEF KeyInv, KeyOK, MuOK
    <2>9. SeenOK(o)'
        BY <2>3, <2>4 DEF KeyInv, KeyOK, SeenOK
    <2>10. CancelOK(o)'
        BY <1>1, <2>1 DEF ManagedAct, KeyInv, CancelOK, InventoryOps, NoCancel
    <2>11. LockOK(o)'
        BY <1>1, <2>1, <2>2 DEF rest, KeyInv, KeyOK, LockOK, WorkingPcs
    <2>12. OrphanOK(o)'
        BY <2>3, <2>4 DEF KeyInv, KeyOK, OrphanOK
    <2>13. StoppedDelete(o)' => StoppedDelete(o) /\ row'[o].inst = row[o].inst
        BY <1>1, <2>3 DEF StoppedDelete, KeyInv, SeenOK
    <2>14. StoppedOK(o)'
        BY <1>1, <2>6, <2>13, StoppedKept
    <2> QED
        BY <1>1, <2>1, <2>5, <2>6, <2>7, <2>8, <2>9, <2>10, <2>11, <2>12, <2>14, StepOfKey DEF KeyInv, rest
<1> QED BY <1>2

\* A Skill worker that changed the profile looks at its gateway.
LEMMA SkillActKeeps ==
    ASSUME OpsInv, NEW o \in Ops, NEW r \in Outcomes, SkillAct(o, r), UNCHANGED rest, boot = "serving"
    PROVE  OpsInv'
<1>1. OpsType /\ row \in [Ops -> Row] /\ pc \in [Ops -> Pcs] /\ KeyInv(o)
    BY DEF OpsInv, OpsType
<1>2. CASE r = "ok" /\ row[o].inst \in running
    <2>1. pc[o] = "started" /\ IsType(o, SkillTypes)
        BY <1>1, <1>2 DEF SkillAct
    <2>2. row' = row
        BY <1>1, <1>2, <2>1 DEF SkillAct, Statuses
    <2>3. /\ pc' \in [Ops -> Pcs] /\ \A p \in Ops \ {o} : pc'[p] = pc[p]
          /\ pc'[o] = "found"
        BY <1>1, <1>2, <2>1, GotoEffect DEF SkillAct, Pcs
    <2>4. cancel' = cancel
        BY <1>1, <1>2, <2>1 DEF SkillAct
    <2>5. OpsType'
        BY <1>1, <1>2, <2>3 DEF SkillAct, rest, OpsType, Answer, Snapshot, Unknown, Inventory, Unlisted, Visible, ListInstances, Boots, Outcomes
    <2>6. Local(o) /\ Quiet(o) /\ LocksMove(o) /\ GatewayMoves(o)
        BY <1>2, <2>3 DEF SkillAct, rest, Local, Quiet, LocksMove, GatewayMoves, ValidTransition
    <2>7. KeyOK(o)'
        BY <1>1, <1>2, <2>1, <2>2, <2>3 DEF KeyInv, KeyOK, WorkingPcs, Requesting, ValidTransition
    <2>8. MuOK(o)'
        BY <1>2, <2>3 DEF KeyInv, KeyOK, MuOK
    <2>9. SeenOK(o)'
        BY <1>2, <2>3 DEF KeyInv, KeyOK, SeenOK
    <2>10. CancelOK(o)'
        BY <1>1, <1>2 DEF SkillAct, KeyInv, CancelOK, InventoryOps, NoCancel
    <2>11. LockOK(o)'
        BY <1>1, <1>2, <2>1, <2>2 DEF rest, KeyInv, KeyOK, LockOK, WorkingPcs
    <2>12. OrphanOK(o)'
        BY <1>2, <2>3 DEF KeyInv, KeyOK, OrphanOK
    <2>13. StoppedDelete(o)' => StoppedDelete(o) /\ row'[o].inst = row[o].inst
        BY <1>2, <2>1, <2>2 DEF StoppedDelete, SeenOK, ChannelTypes, SkillTypes
    <2>14. StoppedOK(o)'
        BY <1>1, <2>6, <2>13, StoppedKept
    <2> QED
        BY <1>1, <2>1, <2>5, <2>6, <2>7, <2>8, <2>9, <2>10, <2>11, <2>12, <2>14, StepOfKey DEF KeyInv, rest
<1>3. CASE ~(r = "ok" /\ row[o].inst \in running)
    <2>1. pc[o] = "started" /\ IsType(o, SkillTypes)
        BY <1>1, <1>3 DEF SkillAct
    <2>2. row' = row
        BY <1>1, <1>3, <2>1 DEF SkillAct, Statuses
    <2>3. /\ pc' \in [Ops -> Pcs] /\ \A p \in Ops \ {o} : pc'[p] = pc[p]
          /\ pc'[o] = "acted"
        BY <1>1, <1>3, <2>1, GotoEffect DEF SkillAct, Pcs
    <2>4. cancel' = cancel
        BY <1>1, <1>3, <2>1 DEF SkillAct
    <2>5. OpsType'
        BY <1>1, <1>3, <2>3 DEF SkillAct, rest, OpsType, Answer, Snapshot, Unknown, Inventory, Unlisted, Visible, ListInstances, Boots, Outcomes
    <2>6. Local(o) /\ Quiet(o) /\ LocksMove(o) /\ GatewayMoves(o)
        BY <1>3, <2>3 DEF SkillAct, rest, Local, Quiet, LocksMove, GatewayMoves, ValidTransition
    <2>7. KeyOK(o)'
        BY <1>1, <1>3, <2>1, <2>2, <2>3 DEF KeyInv, KeyOK, WorkingPcs, Requesting, ValidTransition
    <2>8. MuOK(o)'
        BY <1>3, <2>3 DEF KeyInv, KeyOK, MuOK
    <2>9. SeenOK(o)'
        BY <1>3, <2>3 DEF KeyInv, KeyOK, SeenOK
    <2>10. CancelOK(o)'
        BY <1>1, <1>3 DEF SkillAct, KeyInv, CancelOK, InventoryOps, NoCancel
    <2>11. LockOK(o)'
        BY <1>1, <1>3, <2>1, <2>2 DEF rest, KeyInv, KeyOK, LockOK, WorkingPcs
    <2>12. OrphanOK(o)'
        BY <1>3, <2>3 DEF KeyInv, KeyOK, OrphanOK
    <2>13. StoppedDelete(o)' => StoppedDelete(o) /\ row'[o].inst = row[o].inst
        BY <1>3, <2>3 DEF StoppedDelete, KeyInv, SeenOK
    <2>14. StoppedOK(o)'
        BY <1>1, <2>6, <2>13, StoppedKept
    <2> QED
        BY <1>1, <2>1, <2>5, <2>6, <2>7, <2>8, <2>9, <2>10, <2>11, <2>12, <2>14, StepOfKey DEF KeyInv, rest
<1> QED BY <1>2, <1>3 DEF SkillAct

\* It restarts the gateway it saw.
LEMMA SkillRestartKeeps ==
    ASSUME OpsInv, NEW o \in Ops, NEW r \in Outcomes, SkillRestart(o, r), UNCHANGED rest, boot = "serving"
    PROVE  OpsInv'
<1>1. OpsType /\ row \in [Ops -> Row] /\ pc \in [Ops -> Pcs] /\ KeyInv(o)
    BY DEF OpsInv, OpsType
<1>2. OpsInv'
    <2>1. pc[o] = "found" /\ IsType(o, SkillTypes) /\ running' \subseteq profile /\ running' \subseteq running \cup {row[o].inst}
        BY <1>1 DEF SkillRestart, OpsType, Outcomes
    <2>2. row' = row
        BY <1>1, <2>1 DEF SkillRestart, Statuses
    <2>3. /\ pc' \in [Ops -> Pcs] /\ \A p \in Ops \ {o} : pc'[p] = pc[p]
          /\ pc'[o] = "acted"
        BY <1>1, <2>1, GotoEffect DEF SkillRestart, Pcs
    <2>4. cancel' = cancel
        BY <1>1, <2>1 DEF SkillRestart
    <2>5. OpsType'
        BY <1>1, <2>3 DEF SkillRestart, rest, OpsType, Answer, Snapshot, Unknown, Inventory, Unlisted, Visible, ListInstances, Boots, Outcomes
    <2>6. Local(o) /\ Quiet(o) /\ LocksMove(o) /\ GatewayMoves(o)
        BY <2>3, <2>4 DEF SkillRestart, rest, Local, Quiet, LocksMove, GatewayMoves, ValidTransition
    <2>7. KeyOK(o)'
        BY <1>1, <2>1, <2>2, <2>3 DEF KeyInv, KeyOK, WorkingPcs, Requesting, ValidTransition
    <2>8. MuOK(o)'
        BY <2>3, <2>4 DEF KeyInv, KeyOK, MuOK
    <2>9. SeenOK(o)'
        BY <2>3, <2>4 DEF KeyInv, KeyOK, SeenOK
    <2>10. CancelOK(o)'
        BY <1>1, <2>1 DEF SkillRestart, KeyInv, CancelOK, InventoryOps, NoCancel
    <2>11. LockOK(o)'
        BY <1>1, <2>1, <2>2 DEF rest, KeyInv, KeyOK, LockOK, WorkingPcs
    <2>12. OrphanOK(o)'
        BY <2>3, <2>4 DEF KeyInv, KeyOK, OrphanOK
    <2>13. StoppedDelete(o)' => StoppedDelete(o) /\ row'[o].inst = row[o].inst
        BY <1>1, <2>3 DEF StoppedDelete, KeyInv, SeenOK
    <2>14. StoppedOK(o)'
        BY <1>1, <2>6, <2>13, StoppedKept
    <2> QED
        BY <1>1, <2>1, <2>5, <2>6, <2>7, <2>8, <2>9, <2>10, <2>11, <2>12, <2>14, StepOfKey DEF KeyInv, rest
<1> QED BY <1>2

\* A restore moves the data directory aside.
LEMMA RestoreMoveKeeps ==
    ASSUME OpsInv, NEW o \in Ops, NEW r \in Outcomes, RestoreMove(o, r), UNCHANGED rest, boot = "serving"
    PROVE  OpsInv'
<1>1. OpsType /\ row \in [Ops -> Row] /\ pc \in [Ops -> Pcs] /\ KeyInv(o)
    BY DEF OpsInv, OpsType
<1>2. CASE r = "ok" /\ o \notin ctx /\ ~away /\ running = {}
    <2>1. pc[o] = "started" /\ IsType(o, {"backup.restore"})
        BY <1>1, <1>2 DEF RestoreMove
    <2>2. row' = row
        BY <1>1, <1>2, <2>1 DEF RestoreMove, Statuses
    <2>3. /\ pc' \in [Ops -> Pcs] /\ \A p \in Ops \ {o} : pc'[p] = pc[p]
          /\ pc'[o] = "away"
        BY <1>1, <1>2, <2>1, GotoEffect DEF RestoreMove, Pcs
    <2>4. cancel' = cancel
        BY <1>1, <1>2, <2>1 DEF RestoreMove
    <2>5. OpsType'
        BY <1>1, <1>2, <2>3 DEF RestoreMove, rest, OpsType, Outcomes
    <2>6. Local(o) /\ Quiet(o) /\ LocksMove(o) /\ GatewayMoves(o)
        BY <1>2, <2>3 DEF RestoreMove, rest, Local, Quiet, LocksMove, GatewayMoves, ValidTransition
    <2>7. KeyOK(o)'
        BY <1>1, <1>2, <2>1, <2>2, <2>3 DEF KeyInv, KeyOK, WorkingPcs, Requesting, ValidTransition
    <2>8. MuOK(o)'
        BY <1>2, <2>3 DEF KeyInv, KeyOK, MuOK
    <2>9. SeenOK(o)'
        BY <1>2, <2>3 DEF KeyInv, KeyOK, SeenOK
    <2>10. CancelOK(o)'
        BY <1>1, <1>2 DEF RestoreMove, KeyInv, CancelOK, InventoryOps, NoCancel
    <2>11. LockOK(o)'
        BY <1>1, <1>2, <2>1, <2>2 DEF rest, KeyInv, KeyOK, LockOK, WorkingPcs
    <2>12. OrphanOK(o)'
        BY <1>2, <2>3 DEF KeyInv, KeyOK, OrphanOK
    <2>13. StoppedDelete(o)' => StoppedDelete(o) /\ row'[o].inst = row[o].inst
        BY <1>2, <2>1, <2>2 DEF StoppedDelete, KeyInv, SeenOK
    <2>14. StoppedOK(o)'
        BY <1>1, <2>6, <2>13, StoppedKept
    <2> QED
        BY <1>1, <2>1, <2>5, <2>6, <2>7, <2>8, <2>9, <2>10, <2>11, <2>12, <2>14, StepOfKey DEF KeyInv, rest
<1>3. CASE ~(r = "ok" /\ o \notin ctx /\ ~away /\ running = {})
    <2>1. pc[o] = "started" /\ IsType(o, {"backup.restore"})
        BY <1>1, <1>3 DEF RestoreMove
    <2>2. row' = row
        BY <1>1, <1>3, <2>1 DEF RestoreMove, Statuses
    <2>3. /\ pc' \in [Ops -> Pcs] /\ \A p \in Ops \ {o} : pc'[p] = pc[p]
          /\ pc'[o] = "acted"
        BY <1>1, <1>3, <2>1, GotoEffect DEF RestoreMove, Pcs
    <2>4. cancel' = cancel
        BY <1>1, <1>3, <2>1 DEF RestoreMove
    <2>5. OpsType'
        BY <1>1, <1>3, <2>3 DEF RestoreMove, rest, OpsType, Answer, Snapshot, Unknown, Inventory, Unlisted, Visible, ListInstances, Boots, Outcomes
    <2>6. Local(o) /\ Quiet(o) /\ LocksMove(o) /\ GatewayMoves(o)
        BY <1>3, <2>3 DEF RestoreMove, rest, Local, Quiet, LocksMove, GatewayMoves, ValidTransition
    <2>7. KeyOK(o)'
        BY <1>1, <1>3, <2>1, <2>2, <2>3 DEF KeyInv, KeyOK, WorkingPcs, Requesting, ValidTransition
    <2>8. MuOK(o)'
        BY <1>3, <2>3 DEF KeyInv, KeyOK, MuOK
    <2>9. SeenOK(o)'
        BY <1>3, <2>3 DEF KeyInv, KeyOK, SeenOK
    <2>10. CancelOK(o)'
        BY <1>1, <1>3 DEF RestoreMove, KeyInv, CancelOK, InventoryOps, NoCancel
    <2>11. LockOK(o)'
        BY <1>1, <1>3, <2>1, <2>2 DEF rest, KeyInv, KeyOK, LockOK, WorkingPcs
    <2>12. OrphanOK(o)'
        BY <1>3, <2>3 DEF KeyInv, KeyOK, OrphanOK
    <2>13. StoppedDelete(o)' => StoppedDelete(o) /\ row'[o].inst = row[o].inst
        BY <1>3, <2>1, <2>2 DEF StoppedDelete, KeyInv, SeenOK
    <2>14. StoppedOK(o)'
        BY <1>1, <2>6, <2>13, StoppedKept
    <2> QED
        BY <1>1, <2>1, <2>5, <2>6, <2>7, <2>8, <2>9, <2>10, <2>11, <2>12, <2>14, StepOfKey DEF KeyInv, rest
<1> QED BY <1>2, <1>3 DEF RestoreMove

\* It moves a data directory in.
LEMMA RestoreReturnKeeps ==
    ASSUME OpsInv, NEW o \in Ops, NEW r \in Outcomes, RestoreReturn(o, r), UNCHANGED rest, boot = "serving"
    PROVE  OpsInv'
<1>1. OpsType /\ row \in [Ops -> Row] /\ pc \in [Ops -> Pcs] /\ KeyInv(o)
    BY DEF OpsInv, OpsType
<1>2. OpsInv'
    <2>1. pc[o] = "away" /\ profile' \subseteq Instances /\ running' = running \cap profile'
        BY <1>1 DEF RestoreReturn, OpsType
    <2>2. row' = row
        BY <1>1, <2>1 DEF RestoreReturn, Statuses
    <2>3. /\ pc' \in [Ops -> Pcs] /\ \A p \in Ops \ {o} : pc'[p] = pc[p]
          /\ pc'[o] = "acted"
        BY <1>1, <2>1, GotoEffect DEF RestoreReturn, Pcs
    <2>4. cancel' = cancel
        BY <1>1, <2>1 DEF RestoreReturn
    <2>5. OpsType'
        BY <1>1, <2>3 DEF RestoreReturn, rest, OpsType, Answer, Snapshot, Unknown, Inventory, Unlisted, Visible, ListInstances, Boots, Outcomes
    <2>6. Local(o) /\ Quiet(o) /\ LocksMove(o) /\ GatewayMoves(o)
        BY <2>3, <2>4 DEF RestoreReturn, rest, Local, Quiet, LocksMove, GatewayMoves, ValidTransition
    <2>7. KeyOK(o)'
        BY <1>1, <2>1, <2>2, <2>3 DEF KeyInv, KeyOK, WorkingPcs, Requesting, ValidTransition
    <2>8. MuOK(o)'
        BY <2>3, <2>4 DEF KeyInv, KeyOK, MuOK
    <2>9. SeenOK(o)'
        BY <2>3, <2>4 DEF KeyInv, KeyOK, SeenOK
    <2>10. CancelOK(o)'
        BY <1>1, <2>1 DEF RestoreReturn, KeyInv, CancelOK, InventoryOps, NoCancel
    <2>11. LockOK(o)'
        BY <1>1, <2>1, <2>2 DEF rest, KeyInv, KeyOK, LockOK, WorkingPcs
    <2>12. OrphanOK(o)'
        BY <2>3, <2>4 DEF KeyInv, KeyOK, OrphanOK
    <2>13. StoppedDelete(o)' => StoppedDelete(o) /\ row'[o].inst = row[o].inst
        BY <1>1, <2>3 DEF StoppedDelete, KeyInv, SeenOK
    <2>14. StoppedOK(o)'
        BY <1>1, <2>6, <2>13, StoppedKept
    <2> QED
        BY <1>1, <2>1, <2>5, <2>6, <2>7, <2>8, <2>9, <2>10, <2>11, <2>12, <2>14, StepOfKey DEF KeyInv, rest
<1> QED BY <1>2

\* The other workers store their outcome, under the condition that their row is RUNNING.
LEMMA ManagedFinishKeeps ==
    ASSUME OpsInv, NEW o \in Ops, ManagedFinish(o), UNCHANGED rest, boot = "serving"
    PROVE  OpsInv'
<1>1. OpsType /\ row \in [Ops -> Row] /\ pc \in [Ops -> Pcs] /\ KeyInv(o)
    BY DEF OpsInv, OpsType
<1>2. CASE IsType(o, {"model.profile.apply"})
    <2>1. pc[o] = "acted" /\ IsType(o, ManagedTypes)
        BY <1>1, <1>2 DEF ManagedFinish
    <2>2. /\ row' \in [Ops -> Row] /\ \A p \in Ops \ {o} : row'[p] = row[p]
          /\ row'[o].type = row[o].type /\ row'[o].inst = row[o].inst
          /\ row'[o].status = IF IsActive(row[o].status) /\ ValidTransition(row[o].status, (IF o \in ctx THEN "CANCELLED" ELSE IF result[o] = "ok" THEN "SUCCEEDED" ELSE "FAILED")) THEN (IF o \in ctx THEN "CANCELLED" ELSE IF result[o] = "ok" THEN "SUCCEEDED" ELSE "FAILED") ELSE row[o].status
        BY <1>1, <1>2, <2>1, FinishEffect DEF ManagedFinish, Statuses
    <2>3. /\ pc' \in [Ops -> Pcs] /\ \A p \in Ops \ {o} : pc'[p] = pc[p]
          /\ pc'[o] = "off"
        BY <1>1, <1>2, <2>1, GotoEffect DEF ManagedFinish, Pcs
    <2>4. cancel' = cancel
        BY <1>1, <1>2, <2>1 DEF ManagedFinish
    <2>5. OpsType'
        BY <1>1, <1>2, <2>2, <2>3 DEF ManagedFinish, rest, OpsType
    <2>6. Local(o) /\ Quiet(o) /\ LocksMove(o) /\ GatewayMoves(o)
        BY <1>2, <2>2, <2>3 DEF ManagedFinish, rest, Local, Quiet, LocksMove, GatewayMoves
    <2>7. KeyOK(o)'
        BY <1>1, <1>2, <2>2, <2>3 DEF KeyInv, KeyOK, WorkingPcs, Requesting, ValidTransition
    <2>8. MuOK(o)'
        BY <1>2, <2>3 DEF KeyInv, KeyOK, MuOK
    <2>9. SeenOK(o)'
        BY <1>2, <2>3 DEF KeyInv, KeyOK, SeenOK
    <2>10. CancelOK(o)'
        BY <1>1, <1>2, <2>2 DEF ManagedFinish, KeyInv, CancelOK, InventoryOps, NoCancel
    <2>11. LockOK(o)'
        BY <1>2, <2>3 DEF KeyOK, LockOK, WorkingPcs
    <2>12. OrphanOK(o)'
        BY <1>1, <1>2, <2>1, <2>2 DEF KeyInv, KeyOK, OrphanOK, WorkingPcs, Requesting, ValidTransition
    <2>13. StoppedDelete(o)' => StoppedDelete(o) /\ row'[o].inst = row[o].inst
        BY <1>2, <2>2 DEF StoppedDelete, KeyInv, SeenOK
    <2>14. StoppedOK(o)'
        BY <1>1, <2>6, <2>13, StoppedKept
    <2> QED
        BY <1>1, <2>1, <2>5, <2>6, <2>7, <2>8, <2>9, <2>10, <2>11, <2>12, <2>14, StepOfKey DEF KeyInv, rest
<1>3. CASE ~IsType(o, {"model.profile.apply"})
    <2>1. pc[o] = "acted" /\ IsType(o, ManagedTypes)
        BY <1>1, <1>3 DEF ManagedFinish
    <2>2. /\ row' \in [Ops -> Row] /\ \A p \in Ops \ {o} : row'[p] = row[p]
          /\ row'[o].type = row[o].type /\ row'[o].inst = row[o].inst
          /\ row'[o].status = IF row[o].status = "RUNNING" /\ ValidTransition("RUNNING", (IF result[o] = "ok" THEN "SUCCEEDED" ELSE "FAILED")) THEN (IF result[o] = "ok" THEN "SUCCEEDED" ELSE "FAILED") ELSE row[o].status
        BY <1>1, <1>3, <2>1, UpdateEffect DEF ManagedFinish, Statuses
    <2>3. /\ pc' \in [Ops -> Pcs] /\ \A p \in Ops \ {o} : pc'[p] = pc[p]
          /\ pc'[o] = "off"
        BY <1>1, <1>3, <2>1, GotoEffect DEF ManagedFinish, Pcs
    <2>4. cancel' = cancel
        BY <1>1, <1>3, <2>1 DEF ManagedFinish
    <2>5. OpsType'
        BY <1>1, <1>3, <2>2, <2>3 DEF ManagedFinish, rest, OpsType
    <2>6. Local(o) /\ Quiet(o) /\ LocksMove(o) /\ GatewayMoves(o)
        BY <1>3, <2>2, <2>3 DEF ManagedFinish, rest, Local, Quiet, LocksMove, GatewayMoves
    <2>7. KeyOK(o)'
        BY <1>1, <1>3, <2>2, <2>3 DEF KeyInv, KeyOK, WorkingPcs, Requesting, ValidTransition
    <2>8. MuOK(o)'
        BY <1>3, <2>3 DEF KeyInv, KeyOK, MuOK
    <2>9. SeenOK(o)'
        BY <1>3, <2>3 DEF KeyInv, KeyOK, SeenOK
    <2>10. CancelOK(o)'
        BY <1>1, <1>3, <2>2 DEF ManagedFinish, KeyInv, CancelOK, InventoryOps, NoCancel
    <2>11. LockOK(o)'
        BY <1>3, <2>3 DEF KeyOK, LockOK, WorkingPcs
    <2>12. OrphanOK(o)'
        BY <1>1, <1>3, <2>1, <2>2 DEF KeyInv, KeyOK, OrphanOK, WorkingPcs, Requesting, ValidTransition
    <2>13. StoppedDelete(o)' => StoppedDelete(o) /\ row'[o].inst = row[o].inst
        BY <1>3, <2>3 DEF StoppedDelete, KeyInv, SeenOK
    <2>14. StoppedOK(o)'
        BY <1>1, <2>6, <2>13, StoppedKept
    <2> QED
        BY <1>1, <2>1, <2>5, <2>6, <2>7, <2>8, <2>9, <2>10, <2>11, <2>12, <2>14, StepOfKey DEF KeyInv, rest
<1> QED BY <1>2, <1>3 DEF ManagedFinish

\* Only the inventory changes.
LEMMA AvailOnly ==
    ASSUME OpsInv, UNCHANGED <<row, profile, running, pc, result, ctx, cancel, mu, raced, ilock, boot>>,
           avail' \in [Instances \cup {NoInst} -> {"none", "AVAILABLE", "MISSING", "UNKNOWN"}]
    PROVE  OpsInv'
<1>1. OpsType'
    BY DEF OpsInv, OpsType
<1>2. DeleteKeepsOthersOut' /\ RowsApart' /\ BootOK'
    BY DEF OpsInv, DeleteKeepsOthersOut, RowsApart, BootOK, ActiveRows, ActiveOf, ActiveOn
<1>3. ASSUME NEW p \in Ops
      PROVE  KeyInv(p)'
    <2>1. KeyInv(p)
        BY DEF OpsInv
    <2> QED
        BY <2>1 DEF KeyInv, KeyOK, MuOK, SeenOK, CancelOK, LockOK, OrphanOK, StoppedOK, StoppedDelete,
                    InventoryOps, ActiveRows, ActiveOf, ActiveOn
<1> QED BY <1>1, <1>2, <1>3 DEF OpsInv

\* A list of the instances, or the failure to get one, gives every record a value.
LEMMA InventoryType ==
    ASSUME OpsType, NEW shown
    PROVE  Inventory(shown) \in [Instances \cup {NoInst} -> {"none", "AVAILABLE", "MISSING", "UNKNOWN"}]
BY DEF OpsType, Inventory, Snapshot, Unknown

\* The inventory is listed.
LEMMA ListKeeps ==
    ASSUME OpsInv, NEW listed, List(listed), UNCHANGED rest
    PROVE  OpsInv'
<1>1. avail' \in [Instances \cup {NoInst} -> {"none", "AVAILABLE", "MISSING", "UNKNOWN"}]
    BY InventoryType DEF List, ListInstances, OpsInv
<1> QED BY <1>1, AvailOnly DEF List, rest

\* A request to forget a record lists the profiles.
LEMMA ClearListKeeps ==
    ASSUME OpsInv, NEW i \in Instances, ClearList(i), UNCHANGED rest
    PROVE  OpsInv'
<1>1. avail' = avail /\ avail \in [Instances \cup {NoInst} -> {"none", "AVAILABLE", "MISSING", "UNKNOWN"}]
    BY DEF ClearList, OpsInv, OpsType
<1> QED BY <1>1, AvailOnly DEF ClearList, rest

\* Its record stays: the list shows the profile, or something works on it.
LEMMA ClearRefusedKeeps ==
    ASSUME OpsInv, NEW i \in Instances, Clear(i), ~ClearChecked(i), UNCHANGED rest
    PROVE  OpsInv'
<1>1. avail' \in [Instances \cup {NoInst} -> {"none", "AVAILABLE", "MISSING", "UNKNOWN"}]
    BY InventoryType DEF Clear, OpsInv
<1> QED BY <1>1, AvailOnly DEF Clear, rest

\* An instance record is forgotten: no active row names it.
LEMMA ClearDoneKeeps ==
    ASSUME OpsInv, NEW i \in Instances, Clear(i), ClearChecked(i), UNCHANGED rest
    PROVE  OpsInv'
<1>1. /\ OpsType /\ row \in [Ops -> Row] /\ row' = ForgetRows(i)
      /\ UNCHANGED <<profile, running, away, pc, result, ctx, cancel, mu, raced, ilock, boot>>
    BY DEF OpsInv, OpsType, Clear, rest
<1>2. /\ row' \in [Ops -> Row]
      /\ \A p \in Ops : row'[p].type = row[p].type /\ row'[p].status = row[p].status
      /\ \A p \in Ops : row[p].type \notin InstanceRuntimeTypes => row'[p].inst = row[p].inst
      /\ \A p \in Ops : row[p].type \in InstanceRuntimeTypes /\ row[p].inst # i => row'[p].inst = row[p].inst
    BY <1>1 DEF ForgetRows, Row
<1>3. ActiveRows' = ActiveRows /\ \A p \in ActiveRows : row'[p].inst = row[p].inst
    BY <1>2 DEF ActiveRows, ClearChecked, ActiveInstanceRuntimeMutation, ActiveOn, ActiveOf
<1>4. OpsType'
    <2>1. Inventory(seen) \in [Instances \cup {NoInst} -> {"none", "AVAILABLE", "MISSING", "UNKNOWN"}]
        BY <1>1, InventoryType
    <2>2. avail' = [Inventory(seen) EXCEPT ![i] = "none"]
        BY DEF Clear
    <2>3. avail' \in [Instances \cup {NoInst} -> {"none", "AVAILABLE", "MISSING", "UNKNOWN"}]
        BY <2>1, <2>2
    <2> QED BY <1>1, <1>2, <2>3 DEF OpsType
<1>8. ASSUME NEW T, NEW j
      PROVE  ActiveOf(T)' = ActiveOf(T) /\ ActiveOn(T, j)' = ActiveOn(T, j)
    <2>1. ActiveRows \subseteq Ops
        BY DEF ActiveRows
    <2> QED BY <1>2, <1>3, <2>1 DEF ActiveOf, ActiveOn
<1>5. DeleteKeepsOthersOut' /\ RowsApart'
    BY <1>2, <1>3, QuietApart DEF ActiveRows
<1>6. ASSUME NEW p \in Ops
      PROVE  KeyInv(p)'
    <2>1. KeyOK(p) /\ MuOK(p) /\ SeenOK(p) /\ CancelOK(p) /\ LockOK(p) /\ OrphanOK(p) /\ StoppedOK(p)
        BY DEF OpsInv, KeyInv
    <2>2. IsType(p, InventoryTypes) => row'[p].inst = row[p].inst
        BY <1>2 DEF InventoryTypes, InstanceRuntimeTypes, LifecycleTypes, ChannelTypes, SkillTypes, MCPTypes
    <2>3. KeyOK(p)'
        BY <1>1, <1>2, <2>1, <2>2 DEF KeyOK, InventoryOps, ForgetRows, Row
    <2>4. MuOK(p)' /\ CancelOK(p)' /\ OrphanOK(p)'
        BY <1>1, <1>2, <2>1 DEF MuOK, CancelOK, OrphanOK, InventoryOps
    <2>5. SeenOK(p)'
        <3>1. ASSUME pc[p] = "checked", IsType(p, {"instance.delete"})
              PROVE  ActiveOn(LifecycleTypes \cup ChannelTypes, row[p].inst)' = {}
            <4>1. PICK j : j = row[p].inst
                OBVIOUS
            <4>2. row'[p].inst = j
                BY <2>2, <3>1, <4>1 DEF InventoryTypes
            <4>3. ActiveOn(LifecycleTypes \cup ChannelTypes, j) = {}
                BY <2>1, <3>1, <4>1 DEF SeenOK
            <4> QED BY <1>8, <4>2, <4>3
        <3> QED BY <1>1, <1>2, <1>8, <2>1, <3>1 DEF SeenOK
    <2>6. LockOK(p)'
        <3>1. pc[p] \in WorkingPcs /\ IsType(p, ChannelTypes) => p \in ActiveRows
            BY <2>1 DEF KeyOK, Unwaited, ChannelTypes, MCPTypes, BackupTypes, ActiveRows
        <3> QED BY <1>1, <1>2, <1>3, <2>1, <3>1 DEF LockOK
    <2>7. StoppedOK(p)'
        <3>1. \A q \in Ops : pc[q] = "found" /\ IsType(q, SkillTypes) => q \in ActiveRows
            BY DEF OpsInv, KeyInv, KeyOK, WorkingPcs, Unwaited, SkillTypes, MCPTypes, BackupTypes, ActiveRows
        <3>2. StoppedDelete(p)' => StoppedDelete(p) /\ row'[p].inst = row[p].inst
            BY <1>1, <1>2, <2>2 DEF StoppedDelete, InventoryTypes
        <3> SUFFICES ASSUME StoppedDelete(p), row'[p].inst = row[p].inst
                     PROVE  StoppedOK(p)'
            BY <3>2 DEF StoppedOK
        <3>3. PICK j : j = row[p].inst
            OBVIOUS
        <3>4. /\ j \notin running
              /\ ActiveOn(LifecycleTypes \cup ChannelTypes, j) = {}
              /\ \A q \in Ops : pc[q] = "found" /\ IsType(q, SkillTypes) => row[q].inst # j
            BY <2>1, <3>3 DEF StoppedOK
        <3>5. ActiveOn(LifecycleTypes \cup ChannelTypes, j)' = {}
            BY <1>8, <3>4
        <3>6. \A q \in Ops : pc'[q] = "found" /\ row'[q].type \in SkillTypes => row'[q].inst # j
            BY <1>1, <1>2, <1>3, <3>1, <3>4
        <3> QED BY <1>1, <3>3, <3>4, <3>5, <3>6 DEF StoppedOK
    <2> QED BY <2>3, <2>4, <2>5, <2>6, <2>7 DEF KeyInv
<1>7. BootOK'
    BY <1>1, <1>3, <1>8 DEF OpsInv, BootOK
<1> QED BY <1>4, <1>5, <1>6, <1>7 DEF OpsInv

\* The daemon stops: nothing works any more, and no active row appears.
LEMMA CrashKeeps ==
    ASSUME OpsInv, Crash
    PROVE  OpsInv'
<1>1. OpsType /\ row \in [Ops -> Row] /\ \A p \in Ops : KeyOK(p)
    BY DEF OpsInv, OpsType, KeyInv
<1>2. /\ row' \in [Ops -> Row]
      /\ \A p \in Ops : row[p].status # "NONE" => row'[p] = row[p]
      /\ \A p \in Ops : row[p].status = "NONE" => row'[p].type = "none" /\ row'[p].inst = NoInst /\ row'[p].status = "NONE"
    BY <1>1 DEF Crash, Unused, Row
<1>3. /\ \A p \in Ops : pc'[p] = "off" /\ cancel'[p] = NoCancel
      /\ ctx' = {} /\ boot' = "restores"
    BY DEF Crash
<1>4. OpsType'
    BY <1>1, <1>2 DEF Crash, OpsType, NoCancel, Statuses, Pcs, Boots
<1>5. ActiveRows' \subseteq ActiveRows /\ \A p \in ActiveRows' : row'[p].type = row[p].type /\ row'[p].inst = row[p].inst
    BY <1>2 DEF ActiveRows
<1>6. DeleteKeepsOthersOut' /\ RowsApart'
    BY <1>5, QuietApart
<1>7. ASSUME NEW p \in Ops
      PROVE  KeyInv(p)'
    <2>1. KeyOK(p)'
        BY <1>1, <1>2, <1>3 DEF KeyOK, Requesting, WorkingPcs, InventoryTypes
    <2> QED
        BY <1>3, <2>1 DEF KeyInv, MuOK, SeenOK, CancelOK, LockOK, OrphanOK, StoppedOK, StoppedDelete, WorkingPcs, NoCancel
<1>8. BootOK'
    BY <1>3 DEF BootOK
<1> QED BY <1>4, <1>6, <1>7, <1>8 DEF OpsInv

\* A recovery pass ends rows, and touches nothing else that the invariant is about.
LEMMA RecoveryPass ==
    ASSUME OpsInv, boot # "serving", UNCHANGED <<pc, ctx, cancel, raced>>, OpsType', BootOK',
           \A p \in Ops : /\ row'[p].type = row[p].type /\ row'[p].inst = row[p].inst
                          /\ row'[p].status = row[p].status \/ row'[p].status \in {"SUCCEEDED", "FAILED"},
           \A p \in Ops : row[p].status = "NONE" => row'[p].status = "NONE",
           boot' = "serving" => ActiveRows' = {}
    PROVE  OpsInv'
<1>1. \A p \in Ops : pc[p] = "off" /\ cancel[p] = NoCancel /\ p \notin ctx
    BY DEF OpsInv, BootOK
<1>2. ActiveRows' \subseteq ActiveRows /\ \A p \in ActiveRows' : row'[p].type = row[p].type /\ row'[p].inst = row[p].inst
    BY DEF ActiveRows
<1>3. DeleteKeepsOthersOut' /\ RowsApart'
    BY <1>2, QuietApart
<1>4. ASSUME NEW p \in Ops
      PROVE  KeyInv(p)'
    <2>1. KeyOK(p)
        BY DEF OpsInv, KeyInv
    <2>2. KeyOK(p)'
        BY <1>1, <2>1 DEF KeyOK, Requesting, WorkingPcs
    <2> QED
        BY <1>1, <2>2 DEF KeyInv, MuOK, SeenOK, CancelOK, LockOK, OrphanOK, StoppedOK, StoppedDelete, WorkingPcs, NoCancel, ActiveRows
<1> QED BY <1>3, <1>4 DEF OpsInv

\* What a recovery pass does to the rows.
LEMMA RecoveredEffect ==
    ASSUME row \in [Ops -> Row], NEW T, NEW outcome \in [ActiveOf(T) -> {"SUCCEEDED", "FAILED"}], Recovered(outcome)
    PROVE  /\ row' \in [Ops -> Row]
           /\ \A p \in Ops : /\ row'[p].type = row[p].type /\ row'[p].inst = row[p].inst
                             /\ row'[p].status = row[p].status \/ row'[p].status \in {"SUCCEEDED", "FAILED"}
           /\ \A p \in Ops : row[p].status = "NONE" => row'[p].status = "NONE"
           /\ \A p \in ActiveOf(T) : ~IsActive(row'[p].status)
<1>1. DOMAIN outcome = ActiveOf(T) /\ \A p \in ActiveOf(T) : outcome[p] \in {"SUCCEEDED", "FAILED"} /\ p \in Ops /\ row[p].status # "NONE"
    BY DEF ActiveOf, ActiveRows
<1>2. row' = [p \in Ops |-> IF p \in ActiveOf(T) THEN [row[p] EXCEPT !.status = outcome[p]] ELSE row[p]]
    BY <1>1 DEF Recovered
<1> HIDE DEF ActiveOf
<1>3. ASSUME NEW p \in Ops, p \in ActiveOf(T)
      PROVE  row'[p] \in Row /\ row'[p].type = row[p].type /\ row'[p].inst = row[p].inst /\ row'[p].status = outcome[p]
    BY <1>1, <1>2, <1>3 DEF Row
<1>4. ASSUME NEW p \in Ops, p \notin ActiveOf(T)
      PROVE  row'[p] = row[p]
    BY <1>2, <1>4
<1>5. row' \in [Ops -> Row]
    BY <1>2, <1>3, <1>4
<1> QED BY <1>1, <1>3, <1>4, <1>5

\* Rows that are active after a pass were active before it, and are not of its types.
LEMMA RecoveredActive ==
    ASSUME NEW T, \A p \in Ops : row'[p].type = row[p].type /\ row'[p].inst = row[p].inst,
           \A p \in Ops : row'[p].status = row[p].status \/ row'[p].status \in {"SUCCEEDED", "FAILED"},
           \A p \in ActiveOf(T) : ~IsActive(row'[p].status)
    PROVE  ActiveRows' \subseteq ActiveRows \ ActiveOf(T)
BY DEF ActiveRows

\* The interrupted restores are settled.
LEMMA BootRestoresKeeps ==
    ASSUME OpsInv, BootRestores
    PROVE  OpsInv'
<1>1. OpsType
    BY DEF OpsInv
<1>2. OpsType'
    BY <1>1 DEF BootRestores, Pass, OpsType, Boots
<1>3. boot = "restores" /\ boot' = "inventory" /\ UNCHANGED <<pc, ctx, cancel, raced, row>>
    BY DEF BootRestores, Pass
<1>4. BootOK'
    BY <1>3 DEF OpsInv, BootOK
<1> QED BY <1>2, <1>3, <1>4, RecoveryPass

\* Creates and deletes get their outcome.
LEMMA BootInventoryKeeps ==
    ASSUME OpsInv, NEW listed \in BOOLEAN, BootInventory(listed)
    PROVE  OpsInv'
<1>1. OpsType /\ row \in [Ops -> Row]
    BY DEF OpsInv, OpsType
<1>2. [o \in ActiveOf(InventoryTypes) |-> CreateOrDelete(listed, o)] \in [ActiveOf(InventoryTypes) -> {"SUCCEEDED", "FAILED"}]
    BY DEF CreateOrDelete
<1>3. boot = "inventory" /\ boot' = "lifecycle" /\ UNCHANGED <<pc, ctx, cancel, raced>>
    BY DEF BootInventory, Pass
<1>4. /\ row' \in [Ops -> Row]
      /\ \A p \in Ops : /\ row'[p].type = row[p].type /\ row'[p].inst = row[p].inst
                        /\ row'[p].status = row[p].status \/ row'[p].status \in {"SUCCEEDED", "FAILED"}
      /\ \A p \in Ops : row[p].status = "NONE" => row'[p].status = "NONE"
      /\ \A p \in ActiveOf(InventoryTypes) : ~IsActive(row'[p].status)
    BY <1>1, <1>2, RecoveredEffect DEF BootInventory
<1>5. OpsType'
    BY <1>1, <1>4, InventoryType DEF BootInventory, Pass, OpsType, Boots
<1>6. ActiveOf(InventoryTypes)' = {}
    <2>1. ActiveRows' \subseteq ActiveRows \ ActiveOf(InventoryTypes)
        BY <1>4, RecoveredActive
    <2> QED BY <1>4, <2>1 DEF ActiveOf, ActiveRows
<1>7. BootOK'
    BY <1>3, <1>6 DEF OpsInv, BootOK
<1> QED BY <1>3, <1>4, <1>5, <1>7, RecoveryPass

\* Lifecycle operations get their outcome.
LEMMA BootLifecycleKeeps ==
    ASSUME OpsInv, NEW known \in BOOLEAN, BootLifecycle(known)
    PROVE  OpsInv'
<1>1. OpsType /\ row \in [Ops -> Row]
    BY DEF OpsInv, OpsType
<1>2. [o \in ActiveOf(LifecycleTypes) |-> StartOrStop(known, o)] \in [ActiveOf(LifecycleTypes) -> {"SUCCEEDED", "FAILED"}]
    BY DEF StartOrStop
<1>3. boot = "lifecycle" /\ boot' = "others" /\ UNCHANGED <<pc, ctx, cancel, raced>>
    BY DEF BootLifecycle, Pass
<1>4. /\ row' \in [Ops -> Row]
      /\ \A p \in Ops : /\ row'[p].type = row[p].type /\ row'[p].inst = row[p].inst
                        /\ row'[p].status = row[p].status \/ row'[p].status \in {"SUCCEEDED", "FAILED"}
      /\ \A p \in Ops : row[p].status = "NONE" => row'[p].status = "NONE"
      /\ \A p \in ActiveOf(LifecycleTypes) : ~IsActive(row'[p].status)
    BY <1>1, <1>2, RecoveredEffect DEF BootLifecycle
<1>5. OpsType'
    BY <1>1, <1>4 DEF BootLifecycle, Pass, OpsType, Boots
<1>6. ActiveOf(LifecycleTypes)' = {} /\ ActiveOf(InventoryTypes)' = {}
    <2>1. ActiveRows' \subseteq ActiveRows \ ActiveOf(LifecycleTypes)
        BY <1>4, RecoveredActive
    <2>2. ActiveOf(InventoryTypes) = {}
        BY <1>3 DEF OpsInv, BootOK
    <2> QED BY <1>4, <2>1, <2>2 DEF ActiveOf, ActiveRows
<1>7. BootOK'
    BY <1>3, <1>6 DEF OpsInv, BootOK
<1> QED BY <1>3, <1>4, <1>5, <1>7, RecoveryPass

\* The rest get theirs: no active row is left.
LEMMA BootOthersKeeps ==
    ASSUME OpsInv, NEW unlinked \in BOOLEAN, BootOthers(unlinked)
    PROVE  OpsInv'
<1>1. OpsType /\ row \in [Ops -> Row]
    BY DEF OpsInv, OpsType
<1>2. [o \in ActiveOf(OthersTypes) |-> ChannelDone(unlinked, o)] \in [ActiveOf(OthersTypes) -> {"SUCCEEDED", "FAILED"}]
    BY DEF ChannelDone
<1>3. boot = "others" /\ boot' = "list" /\ UNCHANGED <<pc, ctx, cancel, raced>>
    BY DEF BootOthers, Pass
<1>4. /\ row' \in [Ops -> Row]
      /\ \A p \in Ops : /\ row'[p].type = row[p].type /\ row'[p].inst = row[p].inst
                        /\ row'[p].status = row[p].status \/ row'[p].status \in {"SUCCEEDED", "FAILED"}
      /\ \A p \in Ops : row[p].status = "NONE" => row'[p].status = "NONE"
      /\ \A p \in ActiveOf(OthersTypes) : ~IsActive(row'[p].status)
    BY <1>1, <1>2, RecoveredEffect DEF BootOthers
<1>5. OpsType'
    BY <1>1, <1>4 DEF BootOthers, Pass, OpsType, Boots
<1>6. ActiveRows' = {}
    <2>1. ActiveRows' \subseteq ActiveRows \ ActiveOf(OthersTypes)
        BY <1>4, RecoveredActive
    <2>2. ASSUME NEW p \in ActiveRows
          PROVE  p \in ActiveOf(OthersTypes)
        <3>1. row[p].type \in AllTypes
            BY <1>1 DEF OpsInv, KeyInv, KeyOK, ActiveRows, Row
        <3>2. row[p].type \notin LifecycleTypes \cup InventoryTypes
            BY <1>3 DEF OpsInv, BootOK, ActiveOf
        <3> QED
            BY <3>1, <3>2 DEF ActiveOf, OthersTypes, ManagedTypes, AllTypes, InstanceRuntimeTypes, InstallationTypes
    <2> QED BY <2>1, <2>2
<1>7. BootOK'
    BY <1>3, <1>6 DEF OpsInv, BootOK, ActiveOf
<1> QED BY <1>3, <1>4, <1>5, <1>7, RecoveryPass

\* Requests are served again.
LEMMA BootListKeeps ==
    ASSUME OpsInv, NEW listed \in BOOLEAN, BootList(listed)
    PROVE  OpsInv'
<1>1. OpsType
    BY DEF OpsInv
<1>2. boot = "list" /\ boot' = "serving" /\ UNCHANGED <<pc, ctx, cancel, raced, row>>
    BY DEF BootList, Pass
<1>3. OpsType'
    BY <1>1, InventoryType DEF BootList, Pass, OpsType, Boots
<1>4. ActiveRows' = {}
    BY <1>2 DEF OpsInv, BootOK, ActiveRows
<1>5. BootOK'
    BY <1>2, <1>4 DEF BootOK
<1> QED BY <1>2, <1>3, <1>4, <1>5, RecoveryPass

\* The daemon's first start.
LEMMA OpsInit ==
    ASSUME Init
    PROVE  OpsInv
<1>1. /\ \A p \in Ops : /\ row[p].type = "none" /\ row[p].inst = NoInst /\ row[p].status = "NONE"
                        /\ pc[p] = "off" /\ cancel[p] = NoCancel
      /\ ctx = {} /\ boot = "serving"
    BY DEF Init, Unused
<1>2. OpsType
    BY DEF Init, OpsType, Row, Unused, NoCancel, Statuses, Pcs, Boots
<1>3. ActiveRows = {}
    BY <1>1 DEF ActiveRows
<1>4. ASSUME NEW p \in Ops
      PROVE  KeyInv(p)
    <2>1. KeyOK(p)
        BY <1>1 DEF KeyOK, WorkingPcs, InventoryTypes
    <2> QED
        BY <1>1, <2>1 DEF KeyInv, MuOK, SeenOK, CancelOK, LockOK, OrphanOK, StoppedOK, StoppedDelete, WorkingPcs, NoCancel
<1>5. DeleteKeepsOthersOut /\ RowsApart /\ BootOK
    BY <1>1, <1>3 DEF DeleteKeepsOthersOut, RowsApart, BootOK, ActiveOf
<1> QED BY <1>2, <1>4, <1>5 DEF OpsInv

\* A step of a request, of a worker of the inventory or of their Cancel.
LEMMA InventoryStepKeeps ==
    ASSUME OpsInv, boot = "serving", UNCHANGED rest, NEW o \in Ops, InventoryStep(o)
    PROVE  OpsInv'
<1>1. CASE \E i \in Instances : \E t \in Types \cap InstanceRuntimeTypes : Resolve(o, t, i)
    BY <1>1, ResolveKeeps
<1>2. CASE StartLifecycle(o) \/ Insert(o) \/ LookForDelete(o) \/ CheckDelete(o)
    BY <1>2, StartLifecycleKeeps, InsertKeeps, LookForDeleteKeeps, CheckDeleteKeeps
<1>3. CASE \E i \in Instances, listed \in BOOLEAN : "instance.create" \in Types /\ ListForCreate(o, i, listed)
    BY <1>3, ListForCreateKeeps
<1>4. CASE \E i \in Instances : "instance.delete" \in Types /\ ListForDelete(o, i)
    BY <1>4, ListForDeleteKeeps
<1>5. CASE CancelRead(o) \/ CancelLook(o) \/ CancelWrite(o) \/ CancelAborted(o)
    BY <1>5, CancelReadKeeps, CancelLookKeeps, CancelWriteKeeps, CancelAbortedKeeps
<1>6. CASE Claim(o) \/ NoteStarted(o)
    BY <1>6, ClaimKeeps, NoteStartedKeeps
<1>7. CASE \E r \in Outcomes : LifecycleAct(o, r) \/ CreateAct(o, r) \/ DeleteAct(o, r)
    BY <1>7, LifecycleActKeeps, CreateActKeeps, DeleteActKeeps
<1>8. CASE \E listed \in BOOLEAN : DeleteList(o, listed) \/ Relist(o, listed)
    BY <1>8, DeleteListKeeps, RelistKeeps
<1>9. CASE DeleteFind(o) \/ Finish(o)
    BY <1>9, DeleteFindKeeps, FinishKeeps
<1> QED BY <1>1, <1>2, <1>3, <1>4, <1>5, <1>6, <1>7, <1>8, <1>9 DEF InventoryStep

\* A step of the other kinds.
LEMMA OthersStepKeeps ==
    ASSUME OpsInv, boot = "serving", UNCHANGED rest, NEW o \in Ops, Others(o)
    PROVE  OpsInv'
<1>1. CASE StartChannel(o) \/ StartSkill(o) \/ \E bound \in BOOLEAN : StartMCP(o, bound)
    BY <1>1, StartChannelKeeps, StartSkillKeeps, StartMCPKeeps
<1>2. CASE StartModelProfileApplication(o) \/ \E t \in Types : StartBackup(o, t) \/ StartUpgrade(o, t)
    BY <1>2, StartModelKeeps, StartBackupKeeps, StartUpgradeKeeps
<1>3. CASE \/ CancelMCP(o) \/ CancelManagedRead(o) \/ CancelManagedLook(o)
           \/ CancelChannel(o) \/ CancelModelProfileApplication(o)
    BY <1>3, CancelMCPKeeps, CancelManagedReadKeeps, CancelManagedLookKeeps, CancelChannelKeeps, CancelModelKeeps
<1>4. CASE ManagedClaim(o) \/ ManagedFinish(o)
    BY <1>4, ManagedClaimKeeps, ManagedFinishKeeps
<1>5. CASE \E r \in Outcomes : \/ ChannelAct(o, r) \/ ManagedAct(o, r) \/ SkillAct(o, r) \/ SkillRestart(o, r)
                               \/ RestoreMove(o, r) \/ RestoreReturn(o, r)
    BY <1>5, ChannelActKeeps, ManagedActKeeps, SkillActKeeps, SkillRestartKeeps, RestoreMoveKeeps, RestoreReturnKeeps
<1> QED BY <1>1, <1>2, <1>3, <1>4, <1>5 DEF Others

\* The invariant is inductive.
LEMMA OpsStep ==
    ASSUME OpsInv, [Next]_opsVars
    PROVE  OpsInv'
<1>1. CASE /\ boot = "serving" /\ UNCHANGED rest
           /\ \/ \E o \in Ops : InventoryStep(o) \/ Others(o)
              \/ \E i \in Instances : ClearList(i) \/ Clear(i)
              \/ \E listed \in BOOLEAN : List(listed)
    BY <1>1, InventoryStepKeeps, OthersStepKeeps, ClearListKeeps, ClearRefusedKeeps, ClearDoneKeeps, ListKeeps
<1>2. CASE boot = "serving" /\ \E o \in Ops : ChannelClaim(o) \/ ChannelFinish(o)
    BY <1>2, ChannelClaimKeeps, ChannelFinishKeeps
<1>3. CASE Crash \/ BootRestores
    BY <1>3, CrashKeeps, BootRestoresKeeps
<1>4. CASE \E b \in BOOLEAN : BootInventory(b) \/ BootLifecycle(b) \/ BootOthers(b) \/ BootList(b)
    BY <1>4, BootInventoryKeeps, BootLifecycleKeeps, BootOthersKeeps, BootListKeeps
<1>5. CASE UNCHANGED opsVars
    <2>1. UNCHANGED <<row, profile, running, pc, result, ctx, cancel, mu, raced, ilock, boot>> /\ avail' = avail
        BY <1>5 DEF opsVars
    <2> QED BY <2>1, AvailOnly DEF OpsInv, OpsType
<1> QED BY <1>1, <1>2, <1>3, <1>4, <1>5 DEF Next

\* Whatever the kinds of requests, the keys, the instances and the number of crashes.
THEOREM OpsInvariant == Spec => []OpsInv
BY OpsInit, OpsStep, PTL DEF Spec

-----------------------------------------------------------------------------
(* What follows from it.                                                   *)

\* A worker's row is RUNNING, or its Cancel did not wait for it.
LEMMA WorkersRow ==
    ASSUME OpsInv, NEW o \in Working
    PROVE  /\ o \in Ops /\ row[o].type \in AllTypes
           /\ o \in ActiveRows \/ (row[o].status = "CANCELLED" /\ IsType(o, Unwaited))
BY DEF OpsInv, OpsType, KeyInv, KeyOK, Working, WorkingPcs, ActiveRows, Row

\* Two active rows whose workers are about the same instance are a delete and a
\* Skill or MCP operation, or a create and an operation of that instance.
LEMMA ActiveApart ==
    ASSUME OpsInv, NEW o \in ActiveRows, NEW p \in ActiveRows, o # p,
           row[o].type \in InstallationTypes, row[p].type \in InstanceRuntimeTypes,
           Scope(o) \cap Scope(p) # {}
    PROVE  \/ IsType(o, {"instance.delete"}) /\ IsType(p, SkillTypes \cup MCPTypes)
           \/ IsType(o, {"instance.create"})
<1>1. o \in Ops /\ p \in Ops
    BY DEF ActiveRows
<1>2. row[p].type \notin RuntimeWideTypes
    BY DEF InstanceRuntimeTypes, RuntimeWideTypes, UpgradeTypes, LifecycleTypes, ChannelTypes, SkillTypes, MCPTypes
<1>3. Scope(p) = {row[p].inst} \ {NoInst}
    BY <1>2 DEF Scope
<1>4. ~IsType(o, RuntimeWideTypes)
    BY <1>3 DEF OpsInv, RowsApart
<1>5. row[o].inst = row[p].inst /\ row[o].inst # NoInst
    BY <1>3, <1>4 DEF Scope
<1>6. IsType(o, InventoryTypes)
    BY <1>1, <1>5 DEF OpsInv, KeyInv, KeyOK
<1>7. IsType(o, {"instance.delete"}) => ~IsType(p, LifecycleTypes \cup ChannelTypes)
    BY <1>1, <1>5 DEF OpsInv, DeleteKeepsOthersOut, ActiveOn, ActiveOf
<1> QED BY <1>6, <1>7 DEF InventoryTypes, InstanceRuntimeTypes

\* Operations of one instance keep out of each other's way: the two halves of
\* OperationsApart.
LEMMA OpsImpliesApart ==
    ASSUME OpsInv
    PROVE  OperationsApart
<1>1. ASSUME NEW o \in Working, NEW p \in Working \ {o}, Scope(o) \cap Scope(p) # {}
      PROVE  \/ \E q \in {o, p} : row[q].status = "CANCELLED" /\ IsType(q, Unwaited)
             \/ \E q \in {o, p} : /\ IsType(q, {"instance.delete"})
                                  /\ \A r \in {o, p} \ {q} : IsType(r, SkillTypes \cup MCPTypes)
             \/ \E q \in {o, p} : /\ IsType(q, {"instance.create"})
                                  /\ \A r \in {o, p} \ {q} : IsType(r, InstanceRuntimeTypes)
    <2>1. CASE ~(o \in ActiveRows /\ p \in ActiveRows)
        BY <2>1, WorkersRow
    <2>2. CASE o \in ActiveRows /\ p \in ActiveRows
        <3>1. /\ row[o].type \in InstanceRuntimeTypes \cup InstallationTypes
              /\ row[p].type \in InstanceRuntimeTypes \cup InstallationTypes
            BY WorkersRow DEF AllTypes
        <3>2. CASE row[o].type \in InstallationTypes /\ row[p].type \in InstanceRuntimeTypes
            BY <1>1, <2>2, <3>2, ActiveApart
        <3>3. CASE row[p].type \in InstallationTypes /\ row[o].type \in InstanceRuntimeTypes
            <4>1. Scope(p) \cap Scope(o) # {}
                BY <1>1
            <4> QED BY <2>2, <3>3, <4>1, ActiveApart
        <3>4. CASE row[o].type \in InstanceRuntimeTypes /\ row[p].type \in InstanceRuntimeTypes
            <4>1. row[o].inst # row[p].inst
                BY <2>2, <3>4 DEF OpsInv, RowsApart
            <4>2. row[o].type \notin RuntimeWideTypes /\ row[p].type \notin RuntimeWideTypes
                BY <3>4 DEF InstanceRuntimeTypes, RuntimeWideTypes, UpgradeTypes, LifecycleTypes, ChannelTypes, SkillTypes, MCPTypes
            <4> QED BY <1>1, <4>1, <4>2 DEF Scope
        <3>5. ~(row[o].type \in InstallationTypes /\ row[p].type \in InstallationTypes)
            BY <2>2 DEF OpsInv, RowsApart
        <3> QED BY <3>1, <3>2, <3>3, <3>4, <3>5
    <2> QED BY <2>1, <2>2
<1>2. WorkersApart
    BY <1>1 DEF WorkersApart
<1> QED BY <1>2 DEF OpsInv, OperationsApart

\* OperationsApart, for every number of requests, instances and crashes.
THEOREM OperationsKeepApart == Spec => []OperationsApart
BY OpsInvariant, OpsImpliesApart, PTL

\* NoOrphanWhileServing from the place of every row.
LEMMA OpsImpliesNoOrphan ==
    ASSUME OpsInv
    PROVE  NoOrphanWhileServing
<1> SUFFICES ASSUME boot = "serving", NEW o \in ActiveRows, pc[o] = "off"
             PROVE  /\ o \in ctx
                    /\ \/ cancel[o][1] = "fired"
                       \/ row[o].status = "PENDING" /\ IsType(o, LifecycleTypes \cup InventoryTypes \cup BackupTypes)
    BY DEF NoOrphanWhileServing
<1>1. o \in Ops /\ OrphanOK(o) /\ CancelOK(o)
    BY DEF OpsInv, KeyInv, ActiveRows
<1> QED BY <1>1 DEF OrphanOK, CancelOK, ActiveRows

\* While requests are served every row without outcome has a worker or a Cancel
\* that will end it, or it is the row of a Cancel whose client went away.
THEOREM NoRowIsOrphaned == Spec => []NoOrphanWhileServing
BY OpsInvariant, OpsImpliesNoOrphan, PTL

-----------------------------------------------------------------------------
(* What a step may do.                                                     *)

\* A worker reaches the end of its work from inside it.
LEMMA ActsFromWork ==
    ASSUME OpsInv, [Next]_opsVars, NEW o \in Ops, pc'[o] = "acted"
    PROVE  pc[o] \in WorkingPcs
<1> USE DEF WorkingPcs, Goto
<1>1. pc \in [Ops -> Pcs]
    BY DEF OpsInv, OpsType
<1>2. ASSUME NEW q \in Ops, InventoryStep(q)
      PROVE  pc[o] \in WorkingPcs
    <2>1. CASE \/ \E i \in Instances : \E t \in Types \cap InstanceRuntimeTypes : Resolve(q, t, i)
               \/ StartLifecycle(q) \/ Insert(q) \/ LookForDelete(q) \/ CheckDelete(q)
        BY <1>1, <2>1 DEF Resolve, StartLifecycle, Insert, LookForDelete, CheckDelete, Drop
    <2>2. CASE \/ \E i \in Instances, listed \in BOOLEAN : "instance.create" \in Types /\ ListForCreate(q, i, listed)
               \/ \E i \in Instances : "instance.delete" \in Types /\ ListForDelete(q, i)
        BY <1>1, <2>2 DEF ListForCreate, ListForDelete
    <2>3. CASE CancelRead(q) \/ CancelLook(q) \/ CancelWrite(q) \/ CancelAborted(q) \/ Claim(q) \/ NoteStarted(q)
        BY <1>1, <2>3 DEF CancelRead, CancelLook, CancelWrite, CancelAborted, Claim, NoteStarted
    <2>4. CASE \E r \in Outcomes : LifecycleAct(q, r) \/ CreateAct(q, r) \/ DeleteAct(q, r)
        BY <1>1, <2>4 DEF LifecycleAct, CreateAct, DeleteAct
    <2>5. CASE (\E listed \in BOOLEAN : DeleteList(q, listed) \/ Relist(q, listed)) \/ DeleteFind(q) \/ Finish(q)
        BY <1>1, <2>5 DEF DeleteList, Relist, DeleteFind, Finish
    <2> QED BY <1>2, <2>1, <2>2, <2>3, <2>4, <2>5 DEF InventoryStep
<1>3. ASSUME NEW q \in Ops, Others(q)
      PROVE  pc[o] \in WorkingPcs
    <2>1. CASE \/ StartChannel(q) \/ StartSkill(q) \/ \E bound \in BOOLEAN : StartMCP(q, bound)
               \/ StartModelProfileApplication(q) \/ \E t \in Types : StartBackup(q, t) \/ StartUpgrade(q, t)
        BY <1>1, <2>1 DEF StartChannel, StartSkill, StartMCP, StartModelProfileApplication, StartBackup, StartUpgrade, Request, Drop
    <2>2. CASE \/ CancelMCP(q) \/ CancelManagedRead(q) \/ CancelManagedLook(q)
               \/ CancelChannel(q) \/ CancelModelProfileApplication(q)
        BY <1>1, <2>2 DEF CancelMCP, CancelManagedRead, CancelManagedLook, CancelChannel, CancelModelProfileApplication
    <2>3. CASE ManagedClaim(q) \/ ManagedFinish(q)
        BY <1>1, <2>3 DEF ManagedClaim, ManagedFinish
    <2>4. CASE \E r \in Outcomes : \/ ChannelAct(q, r) \/ ManagedAct(q, r) \/ SkillAct(q, r) \/ SkillRestart(q, r)
                                   \/ RestoreMove(q, r) \/ RestoreReturn(q, r)
        BY <1>1, <2>4 DEF ChannelAct, ManagedAct, SkillAct, SkillRestart, RestoreMove, RestoreReturn
    <2> QED BY <1>3, <2>1, <2>2, <2>3, <2>4 DEF Others
<1>4. CASE \/ \E i \in Instances : ClearList(i) \/ Clear(i)
           \/ \E listed \in BOOLEAN : List(listed)
           \/ \E q \in Ops : ChannelClaim(q) \/ ChannelFinish(q)
    BY <1>1, <1>4 DEF ClearList, Clear, List, ChannelClaim, ChannelFinish
<1>5. CASE \/ Crash \/ BootRestores
           \/ \E b \in BOOLEAN : BootInventory(b) \/ BootLifecycle(b) \/ BootOthers(b) \/ BootList(b)
    BY <1>1, <1>5 DEF Crash, BootRestores, BootInventory, BootLifecycle, BootOthers, BootList, Pass
<1>6. CASE UNCHANGED opsVars
    BY <1>6 DEF opsVars
<1> QED BY <1>2, <1>3, <1>4, <1>5, <1>6 DEF Next

\* What a step that works on a profile needs is in the invariant.
LEMMA OpsImpliesAllowed ==
    ASSUME OpsInv, [Next]_opsVars
    PROVE  \A o \in Ops : DeletesStopped(o) /\ ActsWhileRunning(o)
<1>1. ASSUME NEW o \in Ops
      PROVE  DeletesStopped(o) /\ ActsWhileRunning(o)
    <2>1. KeyOK(o) /\ StoppedOK(o)
        BY DEF OpsInv, KeyInv
    <2>2. DeletesStopped(o)
        BY <2>1 DEF DeletesStopped, KeyOK, StoppedOK, StoppedDelete, WorkingPcs, Unwaited, MCPTypes, BackupTypes
    <2>3. ActsWhileRunning(o)
        BY <2>1, ActsFromWork
        DEF ActsWhileRunning, KeyOK, Unwaited, LifecycleTypes, InventoryTypes, ChannelTypes, MCPTypes, BackupTypes
    <2> QED BY <2>2, <2>3
<1> QED BY <1>1

\* A worker acts on a profile only while it may.
THEOREM ActsOnlyWhenAllowed == Spec => ActsWhenAllowed
<1>1. OpsInv /\ [Next]_opsVars => [\A o \in Ops : DeletesStopped(o) /\ ActsWhileRunning(o)]_opsVars
    BY OpsImpliesAllowed
<1> QED BY <1>1, OpsInvariant, PTL DEF Spec, ActsWhenAllowed

-----------------------------------------------------------------------------
(* What a holder of the installation lock has listed.                      *)

\* Where an inventory worker holds the lock of the installation.
HoldingPcs == {"claimed", "started", "seen", "found", "acted", "relisted"}

\* The list that somebody is about to use shows the profiles the Runtime has, unless
\* a restore was or has been at work; after a crash the restores are settled first.
ViewInv ==
    /\ \A o \in InventoryOps : pc[o] \in HoldingPcs => lock = o
    /\ (lock \in Instances \/ \E o \in Ops : pc[o] \in {"seen", "relisted"}) /\ ~moved
           => seen \in {profile, Unlisted}
    /\ lock \in Instances => seen # Unlisted
    /\ boot # "serving" => lock = Free
    /\ boot \in {"inventory", "lifecycle", "others", "list"} => ~away

\* A step of q keeps it that takes or releases the lock for q and lists nothing.
LEMMA ViewLocal ==
    ASSUME OpsInv, ViewInv, boot = "serving", boot' = boot, NEW q \in Ops,
           \A p \in Ops \ {q} : row'[p].type = row[p].type /\ pc'[p] = pc[p],
           UNCHANGED <<profile, seen, moved>>,
           lock' = lock \/ (lock = q /\ lock' = Free) \/ (lock = Free /\ lock' = q),
           pc'[q] \in {"seen", "relisted"} => pc'[q] = pc[q],
           row'[q].type \in LifecycleTypes \cup InventoryTypes /\ pc'[q] \in HoldingPcs => lock' = q
    PROVE  ViewInv'
<1>1. \A p \in InventoryOps' : pc'[p] \in HoldingPcs => lock' = p
    BY DEF ViewInv, InventoryOps
<1>2. lock' \in Instances => lock \in Instances
    OBVIOUS
<1>3. (\E o \in Ops : pc'[o] \in {"seen", "relisted"}) => \E o \in Ops : pc[o] \in {"seen", "relisted"}
    OBVIOUS
<1> QED BY <1>1, <1>2, <1>3 DEF ViewInv

\* While an inventory worker holds the lock nobody else has listed the profiles.
LEMMA HolderAlone ==
    ASSUME OpsInv, ViewInv, NEW q \in InventoryOps, pc[q] \in HoldingPcs
    PROVE  /\ lock = q /\ q \in Ops /\ lock \notin Instances /\ lock # Free
           /\ \A p \in Ops \ {q} : pc[p] \notin {"seen", "relisted"}
           /\ \A p \in InventoryOps \ {q} : pc[p] \notin HoldingPcs
<1>1. lock = q /\ q \in Ops
    BY DEF ViewInv, InventoryOps
<1>2. \A p \in Ops : pc[p] \in {"seen", "relisted"} => p \in InventoryOps
    BY DEF OpsInv, KeyInv, KeyOK
<1> QED BY <1>1, <1>2 DEF ViewInv, HoldingPcs

\* Nor does anybody while it is free or held for a record.
LEMMA NobodyListed ==
    ASSUME OpsInv, ViewInv, lock \in Instances \cup {Free}
    PROVE  /\ \A p \in Ops : pc[p] \notin {"seen", "relisted"}
           /\ \A p \in InventoryOps : pc[p] \notin HoldingPcs
<1>1. \A p \in InventoryOps : pc[p] \notin HoldingPcs
    BY DEF ViewInv, InventoryOps
<1>2. \A p \in Ops : pc[p] \in {"seen", "relisted"} => p \in InventoryOps
    BY DEF OpsInv, KeyInv, KeyOK
<1> QED BY <1>1, <1>2 DEF HoldingPcs

\* A fresh list shows the profiles, unless a restore is at work.
LEMMA FreshList ==
    ASSUME NEW listed, ListProfiles(listed)
    PROVE  ~moved' => seen' \in {profile, Unlisted}
BY DEF ListProfiles, Visible

\* The steps of requests, of inventory workers and of their Cancel.
LEMMA InventoryView ==
    ASSUME OpsInv, ViewInv, boot = "serving", UNCHANGED rest, NEW q \in Ops, InventoryStep(q)
    PROVE  ViewInv'
<1> USE DEF Goto
<1>1. /\ row \in [Ops -> Row] /\ pc \in [Ops -> Pcs] /\ boot' = boot
      /\ q \in InventoryOps <=> row[q].type \in LifecycleTypes \cup InventoryTypes
      /\ q \in InventoryOps /\ pc[q] \in HoldingPcs => lock = q
    BY DEF OpsInv, OpsType, InventoryOps, ViewInv, rest
<1>2. CASE \/ \E i \in Instances : \E t \in Types \cap InstanceRuntimeTypes : Resolve(q, t, i)
           \/ StartLifecycle(q) \/ LookForDelete(q) \/ CheckDelete(q)
    BY <1>1, <1>2, ViewLocal DEF Resolve, StartLifecycle, LookForDelete, CheckDelete, Drop, HoldingPcs
<1>3. CASE \/ \E i \in Instances, listed \in BOOLEAN : "instance.create" \in Types /\ ListForCreate(q, i, listed)
           \/ \E i \in Instances : "instance.delete" \in Types /\ ListForDelete(q, i)
    BY <1>1, <1>3, ViewLocal DEF ListForCreate, ListForDelete, HoldingPcs
<1>4. CASE Insert(q)
    BY <1>1, <1>4, ViewLocal DEF Insert, CreateOperation, Drop, HoldingPcs
<1>5. CASE CancelRead(q) \/ CancelLook(q) \/ CancelWrite(q) \/ CancelAborted(q)
    <2>1. /\ pc' = pc /\ UNCHANGED <<profile, seen, moved, lock>>
          /\ row' = row \/ \E from : UpdateOperation(q, from, "CANCELLED")
        BY <1>5 DEF CancelRead, CancelLook, CancelWrite, CancelAborted
    <2>2. \A p \in Ops : row'[p].type = row[p].type
        BY <1>1, <2>1, UpdateEffect DEF Statuses
    <2> QED BY <1>1, <2>1, <2>2, ViewLocal
<1>6. CASE Claim(q) \/ NoteStarted(q)
    <2>1. \A p \in Ops : row'[p].type = row[p].type
        BY <1>1, <1>6, UpdateEffect DEF Claim, NoteStarted, Statuses
    <2> QED BY <1>1, <1>6, <2>1, ViewLocal DEF Claim, NoteStarted, HoldingPcs
<1>7. CASE \E r \in Outcomes : LifecycleAct(q, r)
    BY <1>1, <1>7, ViewLocal DEF LifecycleAct, HoldingPcs
<1>8. CASE \E r \in Outcomes : CreateAct(q, r) \/ DeleteAct(q, r)
    <2>1. /\ pc[q] \in {"started", "found"} /\ q \in InventoryOps /\ pc' = [pc EXCEPT ![q] = "acted"]
          /\ UNCHANGED <<row, lock>>
        BY <1>1, <1>8 DEF CreateAct, DeleteAct, InventoryTypes
    <2>2. /\ lock = q /\ lock \notin Instances
          /\ \A p \in Ops \ {q} : pc[p] \notin {"seen", "relisted"}
          /\ \A p \in InventoryOps \ {q} : pc[p] \notin HoldingPcs
        BY <2>1, HolderAlone DEF HoldingPcs
    <2> QED BY <1>1, <2>1, <2>2 DEF ViewInv, InventoryOps
<1>9. CASE \E listed \in BOOLEAN : DeleteList(q, listed) \/ Relist(q, listed)
    <2>1. PICK listed \in BOOLEAN : DeleteList(q, listed) \/ Relist(q, listed)
        BY <1>9
    <2>2. /\ pc[q] \in {"started", "acted"} /\ q \in InventoryOps /\ pc' \in [Ops -> Pcs]
          /\ \A p \in Ops \ {q} : pc'[p] = pc[p]
          /\ ListProfiles(listed) /\ UNCHANGED <<row, lock, profile>>
        BY <1>1, <2>1 DEF DeleteList, Relist, InventoryTypes, Pcs
    <2>3. /\ lock = q
          /\ \A p \in InventoryOps \ {q} : pc[p] \notin HoldingPcs
        BY <2>2, HolderAlone DEF HoldingPcs
    <2>4. ~moved' => seen' \in {profile', Unlisted}
        BY <2>2, FreshList
    <2> QED BY <1>1, <2>2, <2>3, <2>4 DEF ViewInv, InventoryOps, Unlisted
<1>10. CASE DeleteFind(q) \/ Finish(q)
    <2>1. /\ q \in InventoryOps /\ pc[q] \in HoldingPcs
          /\ \A p \in Ops \ {q} : pc'[p] = pc[p]
          /\ \/ lock' = lock /\ pc'[q] = "found"
             \/ lock' = Free /\ pc'[q] = "off"
        BY <1>1, <1>10 DEF DeleteFind, Finish, HoldingPcs, InventoryTypes, InventoryOps
    <2>2. \A p \in Ops : row'[p].type = row[p].type
        BY <1>1, <1>10, UpdateEffect DEF DeleteFind, Finish, Outcome, Statuses, InventoryOps, LifecycleTypes, InventoryTypes
    <2>3. /\ lock = q /\ lock \notin Instances
          /\ \A p \in Ops \ {q} : pc[p] \notin {"seen", "relisted"}
          /\ \A p \in InventoryOps \ {q} : pc[p] \notin HoldingPcs
        BY <2>1, HolderAlone
    <2>4. /\ \A p \in InventoryOps' : pc'[p] \in HoldingPcs => lock' = p
          /\ lock' \notin Instances /\ \A p \in Ops : pc'[p] \notin {"seen", "relisted"}
        BY <2>1, <2>2, <2>3 DEF InventoryOps, HoldingPcs
    <2> QED BY <1>1, <2>4 DEF ViewInv
<1> QED BY <1>2, <1>3, <1>4, <1>5, <1>6, <1>7, <1>8, <1>9, <1>10 DEF InventoryStep

\* The steps of the other kinds: a restore that puts data in place says so.
LEMMA OthersView ==
    ASSUME OpsInv, ViewInv, boot = "serving", UNCHANGED rest, NEW q \in Ops, Others(q)
    PROVE  ViewInv'
<1> USE DEF Goto
<1>1. /\ row \in [Ops -> Row] /\ pc \in [Ops -> Pcs] /\ boot' = boot
      /\ row[q].type \in LifecycleTypes \cup InventoryTypes /\ pc[q] \in HoldingPcs => lock = q
    BY DEF OpsInv, OpsType, InventoryOps, ViewInv, rest
<1>2. CASE StartChannel(q) \/ StartSkill(q) \/ \E bound \in BOOLEAN : StartMCP(q, bound)
    BY <1>1, <1>2, ViewLocal DEF StartChannel, StartSkill, StartMCP, Drop, HoldingPcs
<1>3. CASE StartModelProfileApplication(q) \/ \E t \in Types : StartBackup(q, t) \/ StartUpgrade(q, t)
    BY <1>1, <1>3, ViewLocal DEF StartModelProfileApplication, StartBackup, StartUpgrade, Request, HoldingPcs
<1>4. CASE \/ CancelMCP(q) \/ CancelManagedRead(q) \/ CancelManagedLook(q)
           \/ CancelChannel(q) \/ CancelModelProfileApplication(q)
    <2>1. /\ pc' = pc /\ UNCHANGED <<profile, seen, moved, lock>>
          /\ row' = row \/ (\E from : UpdateOperation(q, from, "CANCELLED")) \/ FinishNow(q, "CANCELLED")
        BY <1>4 DEF CancelMCP, CancelManagedRead, CancelManagedLook, CancelChannel, CancelModelProfileApplication
    <2>2. \A p \in Ops : row'[p].type = row[p].type
        BY <1>1, <2>1, UpdateEffect, FinishEffect DEF Statuses
    <2> QED BY <1>1, <2>1, <2>2, ViewLocal
<1>5. CASE ManagedClaim(q) \/ ManagedFinish(q)
    <2>1. \A p \in Ops : row'[p].type = row[p].type
        BY <1>1, <1>5, UpdateEffect, FinishEffect DEF ManagedClaim, ManagedFinish, Statuses
    <2>2. row[q].type \notin LifecycleTypes \cup InventoryTypes
        BY <1>5 DEF ManagedClaim, ManagedFinish, ManagedTypes, LifecycleTypes, InventoryTypes, SkillTypes, MCPTypes,
                    BackupTypes, UpgradeTypes
    <2> QED BY <1>1, <1>5, <2>1, <2>2, ViewLocal DEF ManagedClaim, ManagedFinish
<1>6. CASE \E r \in Outcomes : ChannelAct(q, r) \/ ManagedAct(q, r) \/ SkillAct(q, r) \/ SkillRestart(q, r) \/ RestoreMove(q, r)
    <2>1. row[q].type \notin LifecycleTypes \cup InventoryTypes
        BY <1>6 DEF ChannelAct, ManagedAct, SkillAct, SkillRestart, RestoreMove, ManagedTypes, LifecycleTypes,
                    InventoryTypes, ChannelTypes, SkillTypes, MCPTypes, BackupTypes, UpgradeTypes
    <2> QED BY <1>1, <1>6, <2>1, ViewLocal DEF ChannelAct, ManagedAct, SkillAct, SkillRestart, RestoreMove
<1>7. CASE \E r \in Outcomes : RestoreReturn(q, r)
    <2>1. /\ pc[q] = "away" /\ moved' = TRUE /\ UNCHANGED <<row, lock, seen>>
          /\ pc' = [pc EXCEPT ![q] = "acted"]
        BY <1>7 DEF RestoreReturn
    <2>2. row[q].type \notin LifecycleTypes \cup InventoryTypes
        BY <2>1 DEF OpsInv, KeyInv, KeyOK, LifecycleTypes, InventoryTypes
    <2> QED BY <1>1, <2>1, <2>2 DEF ViewInv, InventoryOps
<1> QED BY <1>2, <1>3, <1>4, <1>5, <1>6, <1>7 DEF Others

\* It holds at every step.
LEMMA ViewStep ==
    ASSUME OpsInv, ViewInv, [Next]_opsVars
    PROVE  ViewInv'
<1> USE DEF Goto
<1>1. row \in [Ops -> Row] /\ pc \in [Ops -> Pcs]
    BY DEF OpsInv, OpsType
<1>2. CASE /\ boot = "serving" /\ UNCHANGED rest
           /\ \E q \in Ops : InventoryStep(q) \/ Others(q)
    BY <1>2, InventoryView, OthersView
<1>3. CASE boot = "serving" /\ UNCHANGED rest /\ \E i \in Instances : ClearList(i)
    <2>1. PICK i \in Instances : ClearList(i)
        BY <1>3
    <2>2. lock = Free /\ lock' = i /\ ListProfiles(TRUE) /\ UNCHANGED <<row, pc, profile>> /\ boot' = "serving"
        BY <1>3, <2>1 DEF ClearList, rest
    <2>3. (~moved' => seen' \in {profile', Unlisted}) /\ seen' # Unlisted
        BY <2>2, FreshList DEF ListProfiles, Visible, Unlisted, OpsInv, OpsType
    <2>4. \A p \in InventoryOps : pc[p] \notin HoldingPcs
        BY <2>2, NobodyListed
    <2> QED BY <2>2, <2>3, <2>4 DEF ViewInv, InventoryOps, Unlisted
<1>4. CASE boot = "serving" /\ UNCHANGED rest /\ \E i \in Instances : Clear(i)
    <2>1. PICK i \in Instances : Clear(i)
        BY <1>4
    <2>2. lock = i /\ lock' = Free /\ pc' = pc /\ boot' = "serving"
        BY <1>4, <2>1 DEF Clear, rest
    <2>3. \A p \in Ops : row'[p].type = row[p].type
        BY <1>1, <2>1 DEF Clear, ForgetRows, Row
    <2>4. /\ \A p \in Ops : pc[p] \notin {"seen", "relisted"}
          /\ \A p \in InventoryOps : pc[p] \notin HoldingPcs
        BY <2>2, NobodyListed
    <2> QED BY <2>2, <2>3, <2>4 DEF ViewInv, InventoryOps
<1>5. CASE boot = "serving" /\ UNCHANGED rest /\ \E listed \in BOOLEAN : List(listed)
    BY <1>5 DEF List, rest, ViewInv, InventoryOps, Unlisted
<1>6. CASE boot = "serving" /\ \E q \in Ops : ChannelClaim(q) \/ ChannelFinish(q)
    <2>1. PICK q \in Ops : ChannelClaim(q) \/ ChannelFinish(q)
        BY <1>6
    <2>2. \A p \in Ops : row'[p].type = row[p].type
        BY <1>1, <2>1, UpdateEffect, FinishEffect DEF ChannelClaim, ChannelFinish, Statuses
    <2>3. row[q].type \notin LifecycleTypes \cup InventoryTypes
        BY <2>1 DEF ChannelClaim, ChannelFinish, ChannelTypes, LifecycleTypes, InventoryTypes
    <2> QED BY <1>1, <1>6, <2>1, <2>2, <2>3, ViewLocal DEF ChannelClaim, ChannelFinish
<1>7. CASE Crash
    BY <1>7 DEF Crash, ViewInv, HoldingPcs, InventoryOps
<1>8. CASE BootRestores \/ \E b \in BOOLEAN : BootInventory(b) \/ BootLifecycle(b) \/ BootOthers(b) \/ BootList(b)
    <2>1. /\ boot # "serving" /\ UNCHANGED <<pc, lock, moved>>
          /\ boot = "restores" => ~away'
          /\ boot # "restores" => away' = away
        BY <1>8 DEF BootRestores, BootInventory, BootLifecycle, BootOthers, BootList, Pass
    <2>2. lock' = Free /\ \A p \in Ops : pc'[p] = "off"
        BY <2>1 DEF OpsInv, BootOK, ViewInv
    <2>3. boot' \in {"inventory", "lifecycle", "others", "list"} => ~away'
        BY <2>1 DEF ViewInv, OpsInv, OpsType, Boots
    <2> QED BY <2>2, <2>3 DEF ViewInv, InventoryOps, HoldingPcs
<1>9. CASE UNCHANGED opsVars
    BY <1>9 DEF opsVars, ViewInv, InventoryOps, Unlisted
<1> QED BY <1>2, <1>3, <1>4, <1>5, <1>6, <1>7, <1>8, <1>9 DEF Next

\* A list that is about to be used, for every number of requests, restores and crashes.
LEMMA ViewInvariant == Spec => [](OpsInv /\ ViewInv)
<1>1. Init => OpsInv /\ ViewInv
    <2>1. Init => ViewInv
        BY DEF Init, ViewInv, HoldingPcs, InventoryOps
    <2> QED BY <2>1, OpsInit
<1>2. OpsInv /\ ViewInv /\ [Next]_opsVars => OpsInv' /\ ViewInv'
    BY OpsStep, ViewStep
<1> QED BY <1>1, <1>2, PTL DEF Spec

\* Only a request that forgets a record makes it disappear: it has listed the profiles,
\* and the instance is not among them.
LEMMA ForgetsAbsent ==
    ASSUME OpsInv, ViewInv, [Next]_opsVars, NEW i \in Instances, avail[i] # "none", avail'[i] = "none"
    PROVE  i \notin profile \/ moved
<1>1. \A shown : Inventory(shown)[i] # "none"
    BY DEF Inventory, Snapshot, Unknown
<1>2. ASSUME NEW q \in Ops
      PROVE  ~InventoryStep(q)
    <2>1. CASE \/ \E j \in Instances : \E t \in Types \cap InstanceRuntimeTypes : Resolve(q, t, j)
               \/ StartLifecycle(q) \/ Insert(q) \/ LookForDelete(q) \/ CheckDelete(q)
        BY <2>1 DEF Resolve, StartLifecycle, Insert, LookForDelete, CheckDelete
    <2>2. CASE \/ \E j \in Instances, listed \in BOOLEAN : "instance.create" \in Types /\ ListForCreate(q, j, listed)
               \/ \E j \in Instances : "instance.delete" \in Types /\ ListForDelete(q, j)
        BY <1>1, <2>2 DEF ListForCreate, ListForDelete, ListInstances
    <2>3. CASE CancelRead(q) \/ CancelLook(q) \/ CancelWrite(q) \/ CancelAborted(q) \/ Claim(q) \/ NoteStarted(q)
        BY <2>3 DEF CancelRead, CancelLook, CancelWrite, CancelAborted, Claim, NoteStarted
    <2>4. CASE \E r \in Outcomes : LifecycleAct(q, r) \/ CreateAct(q, r) \/ DeleteAct(q, r)
        BY <2>4 DEF LifecycleAct, CreateAct, DeleteAct
    <2>5. CASE (\E listed \in BOOLEAN : DeleteList(q, listed) \/ Relist(q, listed)) \/ DeleteFind(q) \/ Finish(q)
        BY <1>1, <2>5 DEF DeleteList, Relist, DeleteFind, Finish
    <2> QED BY <2>1, <2>2, <2>3, <2>4, <2>5 DEF InventoryStep
<1>3. ASSUME NEW q \in Ops
      PROVE  ~Others(q)
    <2>1. CASE \/ StartChannel(q) \/ StartSkill(q) \/ \E bound \in BOOLEAN : StartMCP(q, bound)
               \/ StartModelProfileApplication(q) \/ \E t \in Types : StartBackup(q, t) \/ StartUpgrade(q, t)
        BY <2>1 DEF StartChannel, StartSkill, StartMCP, StartModelProfileApplication, StartBackup, StartUpgrade, Request
    <2>2. CASE \/ CancelMCP(q) \/ CancelManagedRead(q) \/ CancelManagedLook(q)
               \/ CancelChannel(q) \/ CancelModelProfileApplication(q) \/ ManagedClaim(q) \/ ManagedFinish(q)
        BY <2>2 DEF CancelMCP, CancelManagedRead, CancelManagedLook, CancelChannel, CancelModelProfileApplication,
                    ManagedClaim, ManagedFinish
    <2>3. CASE \E r \in Outcomes : \/ ChannelAct(q, r) \/ ManagedAct(q, r) \/ SkillAct(q, r) \/ SkillRestart(q, r)
                                   \/ RestoreMove(q, r) \/ RestoreReturn(q, r)
        BY <2>3 DEF ChannelAct, ManagedAct, SkillAct, SkillRestart, RestoreMove, RestoreReturn
    <2> QED BY <2>1, <2>2, <2>3 DEF Others
<1>4. CASE \E j \in Instances : ClearList(j) \/ Clear(j)
    <2>1. PICK j \in Instances : Clear(j)
        BY <1>4 DEF ClearList
    <2>2. CASE j = i /\ ClearChecked(j)
        <3>1. lock \in Instances /\ i \notin seen /\ seen # Unlisted
            BY <2>1, <2>2 DEF Clear, ClearChecked, ViewInv
        <3> QED BY <3>1 DEF ViewInv
    <2>3. CASE ~(j = i /\ ClearChecked(j))
        <3>1. PICK shown : shown = seen
            OBVIOUS
        <3>2. avail' = Inventory(shown) \/ (j # i /\ avail' = [Inventory(shown) EXCEPT ![j] = "none"])
            BY <2>1, <2>3, <3>1 DEF Clear
        <3>4. Inventory(shown) \in [Instances \cup {NoInst} -> {"none", "AVAILABLE", "MISSING", "UNKNOWN"}]
            BY InventoryType DEF OpsInv
        <3>3. avail'[i] = Inventory(shown)[i]
            BY <3>2, <3>4
        <3> QED BY <1>1, <3>3
    <2> QED BY <2>2, <2>3
<1>5. CASE \E listed \in BOOLEAN : List(listed)
    BY <1>1, <1>5 DEF List, ListInstances
<1>6. CASE \E q \in Ops : ChannelClaim(q) \/ ChannelFinish(q)
    BY <1>6 DEF ChannelClaim, ChannelFinish
<1>7. CASE Crash \/ BootRestores
    BY <1>7 DEF Crash, BootRestores
<1>8. CASE \E b \in BOOLEAN : BootInventory(b) \/ BootLifecycle(b) \/ BootOthers(b) \/ BootList(b)
    BY <1>1, <1>8 DEF BootInventory, BootLifecycle, BootOthers, BootList
<1>9. CASE UNCHANGED opsVars
    BY <1>9 DEF opsVars
<1> QED BY <1>2, <1>3, <1>4, <1>5, <1>6, <1>7, <1>8, <1>9 DEF Next

\* An instance record is forgotten only when the Runtime does not have the profile,
\* or when a restore had moved the data aside as the profiles were listed, or has put
\* data in place since.
THEOREM RecordsAreKept == Spec => RecordKept
<1>1. OpsInv /\ ViewInv /\ [Next]_opsVars
          => [\A i \in Instances : avail[i] # "none" /\ avail'[i] = "none" => i \notin profile \/ moved]_opsVars
    BY ForgetsAbsent
<1> QED BY <1>1, ViewInvariant, PTL DEF Spec, RecordKept

-----------------------------------------------------------------------------
\* A conditional update gives no row but o's a new status, and that one only the new one.
LEMMA UpdateOnly ==
    ASSUME OpsInv, NEW q \in Ops, NEW from, NEW to, UpdateOperation(q, from, to), NEW o \in Ops,
           row[o].status # "SUCCEEDED", row'[o].status = "SUCCEEDED"
    PROVE  o = q /\ to = "SUCCEEDED"
BY DEF UpdateOperation, OpsInv, OpsType, Row

\* So does one that takes the row as it is now.
LEMMA FinishOnly ==
    ASSUME OpsInv, NEW q \in Ops, NEW to, FinishNow(q, to), NEW o \in Ops,
           row[o].status # "SUCCEEDED", row'[o].status = "SUCCEEDED"
    PROVE  o = q /\ to = "SUCCEEDED"
BY DEF FinishNow, OpsInv, OpsType, Row

\* A request's own steps store no outcome.
LEMMA RequestsOnly ==
    ASSUME OpsInv, NEW q \in Ops, NEW o \in Ops,
           row[o].status # "SUCCEEDED", row'[o].status = "SUCCEEDED",
           \/ Drop(q) \/ CreateOperation(q) \/ row' = row
           \/ \E t, i : row' = [row EXCEPT ![q] = [type |-> t, inst |-> i, status |-> "NONE"]]
    PROVE  FALSE
BY DEF Drop, CreateOperation, Unused, OpsInv, OpsType, Row

\* A recovery pass stores the outcome it derives.
LEMMA RecoveredOnly ==
    ASSUME OpsInv, NEW T, NEW outcome \in [ActiveOf(T) -> {"SUCCEEDED", "FAILED"}], Recovered(outcome), NEW o \in Ops,
           row[o].status # "SUCCEEDED", row'[o].status = "SUCCEEDED"
    PROVE  o \in ActiveOf(T) /\ outcome[o] = "SUCCEEDED"
<1>1. DOMAIN outcome = ActiveOf(T)
    OBVIOUS
<1>2. row' = [p \in Ops |-> IF p \in ActiveOf(T) THEN [row[p] EXCEPT !.status = outcome[p]] ELSE row[p]]
    BY <1>1 DEF Recovered
<1>3. o \in ActiveOf(T)
    BY <1>2
<1>4. row'[o].status = outcome[o]
    BY <1>2, <1>3 DEF OpsInv, OpsType, Row
<1> QED BY <1>3, <1>4

\* What "this operation of a create or a delete tells the truth" means.
Truth(o) ==
    /\ IsType(o, {"instance.create"}) => row[o].inst \in profile \/ moved
    /\ IsType(o, {"instance.delete"}) => row[o].inst \notin profile \/ moved

\* A step that stores SUCCEEDED stores it for the row of o and says the truth.
LEMMA SucceedsTruly ==
    ASSUME OpsInv, ViewInv, [Next]_opsVars, NEW o \in Ops, row[o].status # "SUCCEEDED", row'[o].status = "SUCCEEDED"
    PROVE  Truth(o)
<1>1. ASSUME NEW q \in Ops, InventoryStep(q)
      PROVE  Truth(o)
    <2>1. ~\/ \E i \in Instances : \E t \in Types \cap InstanceRuntimeTypes : Resolve(q, t, i)
           \/ StartLifecycle(q) \/ Insert(q) \/ LookForDelete(q) \/ CheckDelete(q)
        BY RequestsOnly DEF Resolve, StartLifecycle, Insert, LookForDelete, CheckDelete
    <2>2. ~\/ \E i \in Instances, listed \in BOOLEAN : "instance.create" \in Types /\ ListForCreate(q, i, listed)
           \/ \E i \in Instances : "instance.delete" \in Types /\ ListForDelete(q, i)
        <3>1. ASSUME NEW i, NEW listed, ListForCreate(q, i, listed)
              PROVE  FALSE
            <4>1. \E t, j : row' = [row EXCEPT ![q] = [type |-> t, inst |-> j, status |-> "NONE"]]
                BY <3>1 DEF ListForCreate
            <4> QED BY <4>1, RequestsOnly
        <3>2. ASSUME NEW i, ListForDelete(q, i)
              PROVE  FALSE
            <4>1. \E t, j : row' = [row EXCEPT ![q] = [type |-> t, inst |-> j, status |-> "NONE"]]
                BY <3>2 DEF ListForDelete
            <4> QED BY <4>1, RequestsOnly
        <3> QED BY <3>1, <3>2
    <2>3. ~(CancelRead(q) \/ CancelLook(q) \/ CancelAborted(q) \/ NoteStarted(q))
        BY DEF CancelRead, CancelLook, CancelAborted, NoteStarted
    <2>4. ~(CancelWrite(q) \/ Claim(q))
        BY UpdateOnly DEF CancelWrite, Claim
    <2>5. ~\E r \in Outcomes : LifecycleAct(q, r) \/ CreateAct(q, r) \/ DeleteAct(q, r)
        BY DEF LifecycleAct, CreateAct, DeleteAct
    <2>8. ~\E listed \in BOOLEAN : DeleteList(q, listed) \/ Relist(q, listed)
        BY DEF DeleteList, Relist
    <2>6. ASSUME DeleteFind(q)
          PROVE  Truth(o)
        <3>1. /\ row[q].inst \notin seen /\ pc[q] = "seen" /\ IsType(q, {"instance.delete"})
              /\ UpdateOperation(q, "RUNNING", IF seen # Unlisted THEN "SUCCEEDED" ELSE "FAILED")
            BY <2>6 DEF DeleteFind
        <3>2. o = q /\ (IF seen # Unlisted THEN "SUCCEEDED" ELSE "FAILED") = "SUCCEEDED"
            BY <3>1, UpdateOnly
        <3>3. moved \/ seen = profile
            BY <3>1, <3>2 DEF ViewInv
        <3> QED BY <3>1, <3>2, <3>3 DEF Truth
    <2>7. ASSUME Finish(q)
          PROVE  Truth(o)
        <3>1. UpdateOperation(q, "RUNNING", Outcome(q)) /\ q \in InventoryOps
            BY <2>7 DEF Finish
        <3>2. o = q /\ Outcome(q) = "SUCCEEDED"
            BY <3>1, UpdateOnly
        <3>3. IsType(q, InventoryTypes) => pc[q] = "relisted" /\ row[q].inst # NoInst
            BY <2>7 DEF Finish, OpsInv, KeyInv, KeyOK, LifecycleTypes, InventoryTypes
        <3>4. IsType(q, InventoryTypes) /\ ~moved => seen \in {profile, Unlisted}
            BY <3>3 DEF ViewInv
        <3> QED BY <3>2, <3>3, <3>4 DEF Truth, Outcome, Unlisted, LifecycleTypes, InventoryTypes
    <2> QED BY <1>1, <2>1, <2>2, <2>3, <2>4, <2>5, <2>6, <2>7, <2>8 DEF InventoryStep
<1>2. ASSUME NEW q \in Ops, Others(q)
      PROVE  Truth(o)
    <2>1. ~\/ StartChannel(q) \/ StartSkill(q) \/ \E bound \in BOOLEAN : StartMCP(q, bound)
           \/ StartModelProfileApplication(q) \/ \E t \in Types : StartBackup(q, t) \/ StartUpgrade(q, t)
        BY RequestsOnly DEF StartChannel, StartSkill, StartMCP, StartModelProfileApplication, StartBackup, StartUpgrade, Request
    <2>2. ~(CancelManagedRead(q) \/ CancelManagedLook(q))
        BY DEF CancelManagedRead, CancelManagedLook
    <2>3. ~(CancelMCP(q) \/ ManagedClaim(q))
        BY UpdateOnly DEF CancelMCP, ManagedClaim
    <2>4. ~(CancelChannel(q) \/ CancelModelProfileApplication(q))
        BY FinishOnly DEF CancelChannel, CancelModelProfileApplication
    <2>5. ASSUME ManagedFinish(q)
          PROVE  Truth(o)
        <3>1. o = q /\ IsType(q, ManagedTypes)
            BY <2>5, UpdateOnly, FinishOnly DEF ManagedFinish
        <3> QED BY <3>1 DEF Truth, ManagedTypes, SkillTypes, MCPTypes, BackupTypes, UpgradeTypes
    <2>6. ~\E r \in Outcomes : \/ ChannelAct(q, r) \/ ManagedAct(q, r) \/ SkillAct(q, r) \/ SkillRestart(q, r)
                               \/ RestoreMove(q, r) \/ RestoreReturn(q, r)
        BY DEF ChannelAct, ManagedAct, SkillAct, SkillRestart, RestoreMove, RestoreReturn
    <2> QED BY <1>2, <2>1, <2>2, <2>3, <2>4, <2>5, <2>6 DEF Others
<1>3. ~\E i \in Instances : ClearList(i) \/ Clear(i)
    <2>1. ASSUME NEW i \in Instances, ClearList(i) \/ Clear(i)
          PROVE  row' = row \/ row' = ForgetRows(i)
        BY <2>1 DEF ClearList, Clear
    <2>2. row \in [Ops -> Row]
        BY DEF OpsInv, OpsType
    <2>3. ASSUME NEW i \in Instances, row' = ForgetRows(i)
          PROVE  row'[o].status = row[o].status
        BY <2>2, <2>3 DEF ForgetRows, Row
    <2> QED BY <2>1, <2>3
<1>4. ~\E listed \in BOOLEAN : List(listed)
    BY DEF List
<1>5. ASSUME NEW q \in Ops, ChannelClaim(q) \/ ChannelFinish(q)
      PROVE  Truth(o)
    <2>1. ~ChannelClaim(q)
        BY UpdateOnly DEF ChannelClaim
    <2>2. ChannelFinish(q) => o = q /\ IsType(q, ChannelTypes)
        BY FinishOnly DEF ChannelFinish
    <2> QED BY <1>5, <2>1, <2>2 DEF Truth, ChannelTypes
<1>6. ~Crash
    BY DEF Crash, Unused
<1>7. ~BootRestores
    BY DEF BootRestores
<1>8. ASSUME NEW b \in BOOLEAN, BootInventory(b) \/ BootLifecycle(b) \/ BootOthers(b) \/ BootList(b)
      PROVE  Truth(o)
    <2>1. CASE BootInventory(b)
        <3>1. [p \in ActiveOf(InventoryTypes) |-> CreateOrDelete(b, p)] \in [ActiveOf(InventoryTypes) -> {"SUCCEEDED", "FAILED"}]
            BY DEF CreateOrDelete
        <3>2. o \in ActiveOf(InventoryTypes) /\ CreateOrDelete(b, o) = "SUCCEEDED"
            BY <2>1, <3>1, RecoveredOnly DEF BootInventory
        <3>3. ~away
            BY <2>1 DEF BootInventory, Pass, ViewInv
        <3> QED BY <3>2, <3>3 DEF Truth, CreateOrDelete, ActiveOf, Visible
    <2>2. CASE BootLifecycle(b)
        <3>1. [p \in ActiveOf(LifecycleTypes) |-> StartOrStop(b, p)] \in [ActiveOf(LifecycleTypes) -> {"SUCCEEDED", "FAILED"}]
            BY DEF StartOrStop
        <3>2. o \in ActiveOf(LifecycleTypes)
            BY <2>2, <3>1, RecoveredOnly DEF BootLifecycle
        <3> QED BY <3>2 DEF Truth, ActiveOf, LifecycleTypes
    <2>3. CASE BootOthers(b)
        <3>1. [p \in ActiveOf(OthersTypes) |-> ChannelDone(b, p)] \in [ActiveOf(OthersTypes) -> {"SUCCEEDED", "FAILED"}]
            BY DEF ChannelDone
        <3>2. o \in ActiveOf(OthersTypes)
            BY <2>3, <3>1, RecoveredOnly DEF BootOthers
        <3> QED
            BY <3>2 DEF Truth, ActiveOf, OthersTypes, ManagedTypes, ChannelTypes, SkillTypes, MCPTypes, BackupTypes, UpgradeTypes
    <2>4. CASE BootList(b)
        BY <2>4 DEF BootList
    <2> QED BY <1>8, <2>1, <2>2, <2>3, <2>4
<1>9. ~UNCHANGED opsVars
    BY DEF opsVars
<1> QED BY <1>1, <1>2, <1>3, <1>4, <1>5, <1>6, <1>7, <1>8, <1>9 DEF Next

\* A create or a delete that reports SUCCEEDED reports the truth, also when recovery
\* decides; unless a restore had the data aside when the worker listed the profiles,
\* or has put data in place since.
THEOREM SuccessIsTrue == Spec => SuccessIsReal
<1>1. OpsInv /\ ViewInv /\ [Next]_opsVars
          => [\A o \in Ops : row[o].status # "SUCCEEDED" /\ row'[o].status = "SUCCEEDED" =>
                  /\ IsType(o, {"instance.create"}) => row[o].inst \in profile \/ moved
                  /\ IsType(o, {"instance.delete"}) => row[o].inst \notin profile \/ moved]_opsVars
    BY SucceedsTruly DEF Truth
<1> QED BY <1>1, ViewInvariant, PTL DEF Spec, SuccessIsReal
====
