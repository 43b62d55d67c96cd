------------------------- MODULE EventDeliveryProofs ------------------------
(***************************************************************************)
(* However publishers, the broker, the event stream and the Desktop        *)
(* interleave, and whatever the sizes of queue and connection are, a       *)
(* Desktop with nothing on its way shows the operation as its row is, or   *)
(* lost an event for one of the reasons of EventsTrue.                     *)
(***************************************************************************)
EXTENDS EventDelivery, TLAPS

Kinds == {"greeting", "operation", "other"}

\* An event about operations is among those of a queue or a connection.
Carries(events) == \E i \in 1..Len(events) : events[i] = "operation"

EventTypeOK ==
    /\ queue \in Seq(Kinds) /\ wire \in Seq(Kinds) /\ unsent \subseteq Publishers
    /\ stream \in {"closed", "greeted", "open"}
    /\ desktop \in {"waiting", "connecting", "connected"}
    /\ query \in {"off", "empty", "full"}
    /\ fetch \in {"none", "asked", "answered"} /\ missed \in BOOLEAN

\* The client and the handler agree on whether there is a connection, and the broker
\* never puts more into a queue than it has room for; nothing is asked for a list
\* that is not enabled.
LineOK ==
    /\ stream = "closed" => desktop # "connected" /\ wire = <<>>
    /\ desktop = "waiting" => stream = "closed"
    /\ stream # "open" => queue = <<>>
    /\ Len(queue) <= Buffer
    /\ query = "off" => fetch = "none"

\* What the Desktop does not know yet is about to reach it: a publisher has still to
\* publish, an event is on its way, a request has still to read the row, its answer
\* carries the row; or it is shown.
Informed ==
    \/ unsent # {} \/ Carries(queue) \/ Carries(wire)
    \/ fetch = "asked"
    \/ fetch = "answered" /\ answer = operationRow
    \/ fetch = "none" /\ shown = operationRow

EventInv ==
    EventTypeOK /\ LineOK /\ (desktop = "connected" /\ query # "off" /\ ~missed => Informed)

-----------------------------------------------------------------------------
(* Sequences of events.                                                    *)

\* An event that is appended is carried, and nothing else is lost or gained.
LEMMA AppendCarries ==
    ASSUME NEW s \in Seq(Kinds), NEW kind \in Kinds
    PROVE  /\ Append(s, kind) \in Seq(Kinds)
           /\ Carries(s) \/ kind = "operation" => Carries(Append(s, kind))
<1>1. /\ Len(Append(s, kind)) = Len(s) + 1 /\ Append(s, kind)[Len(s) + 1] = kind
      /\ \A i \in 1..Len(s) : Append(s, kind)[i] = s[i]
      /\ Len(s) \in Nat
    OBVIOUS
<1> QED
    BY <1>1 DEF Carries

\* Taking the first event leaves the others.
LEMMA TailCarries ==
    ASSUME NEW s \in Seq(Kinds), s # <<>>
    PROVE  /\ Tail(s) \in Seq(Kinds) /\ Head(s) \in Kinds
           /\ Carries(s) => Head(s) = "operation" \/ Carries(Tail(s))
<1>1. /\ Len(Tail(s)) = Len(s) - 1 /\ Len(s) \in Nat \ {0}
      /\ \A i \in 1..(Len(s) - 1) : Tail(s)[i] = s[i + 1]
      /\ Head(s) = s[1]
    OBVIOUS
<1>2. ASSUME NEW i \in 1..Len(s), s[i] = "operation", i # 1
      PROVE  Carries(Tail(s))
    <2>1. i - 1 \in 1..(Len(s) - 1) /\ Tail(s)[i - 1] = "operation"
        BY <1>1, <1>2
    <2> QED
        BY <1>1, <2>1 DEF Carries
<1>3. Carries(s) => Head(s) = "operation" \/ Carries(Tail(s))
    BY <1>1, <1>2 DEF Carries
<1> QED
    BY <1>3

\* The empty sequence carries nothing.
LEMMA NothingCarried == ~Carries(<<>>) /\ <<>> \in Seq(Kinds)
BY DEF Carries

-----------------------------------------------------------------------------
(* One lemma per action that moves an event or a row.                      *)

\* Enqueue delivers an event of an operation to a connected Desktop, or notes the loss.
LEMMA EnqueueOK ==
    ASSUME EventInv, NEW kind \in {"operation", "other"}, Enqueue(kind)
    PROVE  /\ queue' \in Seq(Kinds) /\ Len(queue') <= Buffer /\ missed' \in BOOLEAN
           /\ stream # "open" => queue' = queue
           /\ Carries(queue) => Carries(queue')
           /\ ~missed' => ~missed
           /\ desktop = "connected" /\ ~missed' /\ kind = "operation" => Carries(queue')
<1> USE DEF EventInv, EventTypeOK, LineOK
<1>1. /\ Append(queue, kind) \in Seq(Kinds)
      /\ Carries(queue) \/ kind = "operation" => Carries(Append(queue, kind))
      /\ Len(Append(queue, kind)) = Len(queue) + 1
      /\ Len(queue) \in Nat /\ Buffer \in Nat
    BY AppendCarries, EventBounds DEF Kinds
<1>2. missed' = (missed \/ (kind = "operation" /\ stream # "closed"
                            /\ (stream = "greeted" \/ Len(queue) = Buffer)))
    BY DEF Enqueue
<1>3. CASE stream = "open" /\ Len(queue) < Buffer
    <2>1. queue' = Append(queue, kind)
        BY <1>3 DEF Enqueue
    <2>2. Len(queue) # Buffer /\ Len(queue) + 1 <= Buffer
        BY <1>1, <1>3
    <2>3. missed' = missed
        BY <1>2, <1>3, <2>2
    <2>4. /\ queue' \in Seq(Kinds) /\ Len(queue') <= Buffer
          /\ Carries(queue) \/ kind = "operation" => Carries(queue')
        BY <1>1, <2>1, <2>2
    <2>5. missed' \in BOOLEAN /\ (~missed' => ~missed)
        BY <2>3
    <2> QED
        BY <1>3, <2>4, <2>5
<1>4. CASE ~(stream = "open" /\ Len(queue) < Buffer)
    <2>1. queue' = queue
        BY <1>4 DEF Enqueue
    <2>2. stream = "open" => Len(queue) = Buffer
        BY <1>1, <1>4
    <2>3. missed' \in BOOLEAN /\ (~missed' => ~missed)
        BY <1>2
    <2>4. desktop = "connected" /\ kind = "operation" => missed'
        BY <1>2, <2>2
    <2>5. Len(queue') <= Buffer /\ queue' \in Seq(Kinds) /\ (Carries(queue) => Carries(queue'))
        BY <2>1
    <2> QED
        BY <2>1, <2>3, <2>4, <2>5
<1> QED
    BY <1>3, <1>4

\* The broker: an event that is published reaches the queue of a connected Desktop.
LEMMA PublishKeeps ==
    ASSUME EventInv, NEW who \in Publishers, NEW kind \in {"operation", "other"},
           PublishEvent(who) \/ PublishOther(kind)
    PROVE  EventInv'
<1> USE DEF EventInv, EventTypeOK, LineOK, Informed
<1>1. CASE PublishEvent(who)
    <2>1. Enqueue("operation")
        BY <1>1 DEF PublishEvent
    <2> QED
        BY <1>1, <2>1, EnqueueOK DEF PublishEvent
<1>2. CASE PublishOther(kind)
    <2>1. Enqueue(kind)
        BY <1>2 DEF PublishOther
    <2> QED
        BY <1>2, <2>1, EnqueueOK DEF PublishOther
<1> QED
    BY <1>1, <1>2

\* The handler: an event it sends leaves the queue for the connection.
LEMMA HandlerKeeps ==
    ASSUME EventInv, Greet \/ Subscribe \/ Send
    PROVE  EventInv'
<1> USE DEF EventInv, EventTypeOK, LineOK, Informed
<1>1. CASE Greet
    <2>1. <<"greeting">> \in Seq(Kinds)
        BY DEF Kinds
    <2> QED
        BY <1>1, <2>1 DEF Greet
<1>2. CASE Subscribe
    <2>1. queue' = queue
        BY <1>2 DEF Subscribe
    <2> QED
        BY <1>2, <2>1 DEF Subscribe
<1>3. CASE Send
    <2>1. /\ Tail(queue) \in Seq(Kinds) /\ Head(queue) \in Kinds
          /\ Carries(queue) => Head(queue) = "operation" \/ Carries(Tail(queue))
          /\ Len(Tail(queue)) <= Buffer
        BY <1>3, TailCarries, EventBounds DEF Send
    <2>2. /\ Append(wire, Head(queue)) \in Seq(Kinds)
          /\ Carries(wire) \/ Head(queue) = "operation" => Carries(Append(wire, Head(queue)))
        BY <2>1, AppendCarries
    <2> QED
        BY <1>3, <2>1, <2>2 DEF Send
<1> QED
    BY <1>1, <1>2, <1>3

\* The client: what it takes from the connection it answers with a new request, or
\* keeps the one that has still to read the row.
LEMMA ClientKeeps ==
    ASSUME EventInv, Connect \/ Mount \/ OnOpen \/ OnEvent \/ Break
    PROVE  EventInv'
<1> USE DEF EventInv, EventTypeOK, LineOK, Informed
<1>1. CASE Connect \/ Mount
    BY <1>1 DEF Connect, Mount, daemonSide
<1>2. CASE OnOpen \/ OnEvent
    <2>1. /\ Tail(wire) \in Seq(Kinds)
          /\ Carries(wire) => Head(wire) = "operation" \/ Carries(Tail(wire))
          /\ stream # "closed"
        BY <1>2, TailCarries DEF OnOpen, OnEvent
    <2>2. CASE OnOpen
        BY <2>1, <2>2 DEF OnOpen, Refresh, daemonSide
    <2>3. CASE OnEvent
        BY <2>1, <2>3 DEF OnEvent, Refresh, daemonSide
    <2> QED
        BY <1>2, <2>2, <2>3
<1>3. CASE Break
    BY <1>3, NothingCarried, EventBounds DEF Break
<1> QED
    BY <1>1, <1>2, <1>3

\* Commits and requests: a commit leaves its publisher behind, and an answer that a
\* commit has overtaken is not the last word.
LEMMA RowKeeps ==
    ASSUME EventInv, NEW who \in Publishers, NEW status,
           CreateOperation \/ Commit(who, status) \/ Answer \/ Show \/ RequestFails
    PROVE  EventInv'
<1> USE DEF EventInv, EventTypeOK, LineOK, Informed
<1>1. CASE CreateOperation
    BY <1>1 DEF CreateOperation, line, Publishers
<1>2. CASE Commit(who, status)
    BY <1>2 DEF Commit, line
<1>3. CASE Answer
    BY <1>3 DEF Answer, daemonSide
<1>4. CASE Show
    BY <1>4 DEF Show, daemonSide
<1>5. CASE RequestFails
    BY <1>5 DEF RequestFails, daemonSide
<1> QED
    BY <1>1, <1>2, <1>3, <1>4, <1>5

-----------------------------------------------------------------------------
\* In every execution, for every size of queue and connection and any number of
\* events, operations and lost connections: a Desktop with nothing on its way shows
\* the row as it is, or lost an event or a request in one of the ways EventsTrue names.
THEOREM DesktopIsToldTheTruth == EventSpec => []EventsTrue
<1>1. EventInit => EventInv
    <2>1. Len(<<>>) <= Buffer
        BY EventBounds
    <2>2. EventInit => EventTypeOK
        BY NothingCarried DEF EventInit, EventTypeOK
    <2>3. EventInit => LineOK /\ desktop # "connected"
        BY <2>1 DEF EventInit, LineOK
    <2> QED
        BY <2>2, <2>3 DEF EventInv
<1>2. EventInv /\ [EventNext]_eventVars => EventInv'
    <2> SUFFICES ASSUME EventInv, [EventNext]_eventVars PROVE EventInv'
        OBVIOUS
    <2>1. CASE UNCHANGED eventVars
        BY <2>1 DEF eventVars, EventInv, EventTypeOK, LineOK, Informed
    <2>2. CASE DaemonStep
        BY <2>2, PublishKeeps, HandlerKeeps, RowKeeps DEF DaemonStep, Publishers
    <2>3. CASE DesktopStep
        BY <2>3, ClientKeeps, RowKeeps DEF DesktopStep, Publishers
    <2> QED
        BY <2>1, <2>2, <2>3 DEF EventNext
<1>3. EventInv => EventsTrue
    BY NothingCarried DEF EventInv, EventTypeOK, Informed, EventsTrue, Settled
<1> QED
    BY <1>1, <1>2, <1>3, PTL DEF EventSpec
=============================================================================
