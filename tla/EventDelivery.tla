---------------------------- MODULE EventDelivery ---------------------------
(***************************************************************************)
(* How the Desktop learns what became of an operation.  The daemon commits *)
(* a status and then publishes an event, two goroutines in whatever order; *)
(* the broker puts it in the queue of each subscriber, or drops it when    *)
(* the queue is full; the handler of GET /events has greeted the client    *)
(* before it subscribes.  The Desktop reads nothing from an event but its  *)
(* type: it asks for the operations again, and so it does when the stream  *)
(* opens; but a list that has no data yet keeps the request that runs.     *)
(* One operation, one client, and the list of operations, which is not     *)
(* read at intervals.                                                      *)
(***************************************************************************)
EXTENDS Naturals, Sequences

CONSTANTS Buffer,      \* the queue of a subscriber (16 in the code)
          MaxWire,     \* bound: events written to the connection and not read
          MaxNoise,    \* bound: events of other operations and of the QR codes
          MaxBreaks,   \* bound: lost connections and failing requests
          MaxOperations \* bound: operations, one after the other

ASSUME EventBounds == Buffer \in Nat \ {0} /\ MaxWire \in Nat \ {0} /\ MaxNoise \in Nat
                      /\ MaxBreaks \in Nat /\ MaxOperations \in Nat

VARIABLES operationRow, \* the number and the status of the latest operation
          unsent,       \* publishers that have committed and not published
          stream,       \* the handler: "closed", "greeted", "open"
          queue,        \* the events in the channel of the subscription
          wire,         \* the events on the connection
          desktop,      \* "waiting", "connecting", "connected"
          query,        \* the list: "off" (not asked for yet), "empty" (no data yet), "full"
          fetch,        \* the request: "none", "asked", "answered"
          answer,       \* the row that the answer carries
          shown,        \* what the Desktop shows
          noise, breaks,
          missed        \* ghost: an event or a request was lost since the last request,
                        \* or an event found the first request of the list answered

eventVars == <<operationRow, unsent, stream, queue, wire, desktop, query, fetch, answer, shown, noise, breaks, missed>>

Publishers == {"worker", "cancel"}
NoOperation == [number |-> 0, status |-> "NONE"]

EventInit ==
    /\ operationRow = NoOperation /\ unsent = {} /\ stream = "closed" /\ queue = <<>> /\ wire = <<>>
    /\ desktop = "waiting" /\ query = "off" /\ fetch = "none" /\ answer = NoOperation /\ shown = NoOperation /\ noise = 0 /\ breaks = 0
    /\ missed = FALSE

(***************************************************************************)
(* The daemon.                                                             *)
(***************************************************************************)
line == <<stream, queue, wire, desktop, query, fetch, answer, shown, noise, breaks, missed>>
EndedRow == operationRow.status \in {"NONE", "ENDED", "CANCELLED"}

CreateOperation ==
    /\ EndedRow /\ unsent = {} /\ operationRow.number < MaxOperations
    /\ operationRow' = [number |-> operationRow.number + 1, status |-> "PENDING"]
    /\ unsent' = {"worker"} /\ UNCHANGED line

\* A status is committed over the one that was read, and only then published.
Commit(who, status) ==
    /\ who \notin unsent /\ ~EndedRow
    /\ who = "worker" => status = (IF operationRow.status = "PENDING" THEN "RUNNING" ELSE "ENDED")
    /\ who = "cancel" => status = "CANCELLED"
    /\ operationRow' = [operationRow EXCEPT !.status = status]
    /\ unsent' = unsent \cup {who} /\ UNCHANGED line

\* Publish: into the queue of the subscriber, if there is one and it has room.
Enqueue(kind) ==
    /\ queue' = IF stream = "open" /\ Len(queue) < Buffer THEN Append(queue, kind) ELSE queue
    /\ missed' = (missed \/ (kind = "operation" /\ stream # "closed"
                             /\ (stream = "greeted" \/ Len(queue) = Buffer)))

PublishEvent(who) ==
    /\ who \in unsent /\ unsent' = unsent \ {who} /\ Enqueue("operation")
    /\ UNCHANGED <<operationRow, stream, wire, desktop, query, fetch, answer, shown, noise, breaks>>

PublishOther(kind) ==
    /\ noise < MaxNoise /\ noise' = noise + 1 /\ Enqueue(kind)
    /\ UNCHANGED <<operationRow, unsent, stream, wire, desktop, query, fetch, answer, shown, breaks>>

\* eventStream: the headers and a comment are flushed, then it subscribes.
Greet ==
    /\ desktop = "connecting" /\ stream = "closed" /\ stream' = "greeted" /\ wire' = <<"greeting">>
    /\ UNCHANGED <<operationRow, unsent, queue, desktop, query, fetch, answer, shown, noise, breaks, missed>>

Subscribe ==
    /\ stream = "greeted" /\ stream' = "open" /\ queue' = <<>>
    /\ UNCHANGED <<operationRow, unsent, wire, desktop, query, fetch, answer, shown, noise, breaks, missed>>

Send ==
    /\ stream = "open" /\ queue # <<>> /\ Len(wire) < MaxWire
    /\ queue' = Tail(queue) /\ wire' = Append(wire, Head(queue))
    /\ UNCHANGED <<operationRow, unsent, stream, desktop, query, fetch, answer, shown, noise, breaks, missed>>

(***************************************************************************)
(* The Desktop.                                                            *)
(***************************************************************************)
daemonSide == <<operationRow, unsent, stream, queue, noise>>

Connect ==
    /\ desktop = "waiting" /\ desktop' = "connecting"
    /\ UNCHANGED <<daemonSide, wire, query, fetch, answer, shown, breaks, missed>>

\* The list is enabled, once there is a client and the node has answered: its first request.
Mount ==
    /\ query = "off" /\ query' = "empty" /\ fetch' = "asked" /\ missed' = FALSE
    /\ UNCHANGED <<daemonSide, wire, desktop, answer, shown, breaks>>

\* invalidateQueries: nothing is asked for a list that is not enabled; the running
\* request of a list that has no data stays; any other is given up for a new one.
Refresh ==
    LET kept == query = "off" \/ (query = "empty" /\ fetch # "none")
    IN  /\ fetch' = IF kept THEN fetch ELSE "asked"
        /\ missed' = IF kept THEN missed \/ fetch = "answered" ELSE FALSE

OnOpen ==
    /\ desktop = "connecting" /\ wire # <<>> /\ Head(wire) = "greeting"
    /\ desktop' = "connected" /\ wire' = Tail(wire) /\ Refresh
    /\ UNCHANGED <<daemonSide, query, answer, shown, breaks>>

\* Mutant: an event is ignored while a request is on its way.
OnEventOnce ==
    /\ desktop = "connected" /\ wire # <<>> /\ wire' = Tail(wire)
    /\ IF Head(wire) = "operation" /\ fetch = "none" THEN Refresh ELSE UNCHANGED <<fetch, missed>>
    /\ UNCHANGED <<daemonSide, desktop, query, answer, shown, breaks>>

OnEvent ==
    /\ desktop = "connected" /\ wire # <<>> /\ wire' = Tail(wire)
    /\ IF Head(wire) = "operation" THEN Refresh ELSE UNCHANGED <<fetch, missed>>
    /\ UNCHANGED <<daemonSide, desktop, query, answer, shown, breaks>>

\* GET /operations reads the rows; the answer arrives later.
Answer ==
    /\ fetch = "asked" /\ fetch' = "answered" /\ answer' = operationRow
    /\ UNCHANGED <<daemonSide, wire, desktop, query, shown, breaks, missed>>

Show ==
    /\ fetch = "answered" /\ fetch' = "none" /\ shown' = answer /\ answer' = NoOperation
    /\ query' = "full"
    /\ UNCHANGED <<daemonSide, wire, desktop, breaks, missed>>

RequestFails ==
    /\ fetch # "none" /\ breaks < MaxBreaks /\ breaks' = breaks + 1
    /\ fetch' = "none" /\ missed' = TRUE
    /\ answer' = NoOperation /\ UNCHANGED <<daemonSide, wire, desktop, query, shown>>

\* The connection is lost, and tried again a second later.
Break ==
    /\ stream # "closed" /\ breaks < MaxBreaks /\ breaks' = breaks + 1
    /\ stream' = "closed" /\ desktop' = "waiting" /\ queue' = <<>> /\ wire' = <<>>
    /\ UNCHANGED <<operationRow, unsent, query, fetch, answer, shown, noise, missed>>

DaemonStep ==
    \/ CreateOperation \/ Greet \/ Subscribe \/ Send
    \/ \E who \in Publishers :
          PublishEvent(who) \/ \E status \in {"RUNNING", "ENDED", "CANCELLED"} : Commit(who, status)
    \/ \E kind \in {"operation", "other"} : PublishOther(kind)

DesktopStep == Connect \/ Mount \/ OnOpen \/ OnEvent \/ Answer \/ Show \/ RequestFails \/ Break

EventNext == DaemonStep \/ DesktopStep

EventSpec == EventInit /\ [][EventNext]_eventVars
-----------------------------------------------------------------------------
(***************************************************************************)
(* Properties.                                                             *)
(***************************************************************************)
Settled == /\ desktop = "connected" /\ stream = "open" /\ query # "off" /\ fetch = "none"
           /\ queue = <<>> /\ wire = <<>> /\ unsent = {}

\* When nothing is on its way any more, the Desktop shows the operation as its row
\* is, in whatever order the two goroutines published, however often the connection
\* was lost, and whatever request was overtaken by an event; unless, since it last
\* asked, an event met a full queue, an event was published between the greeting
\* and the subscription, the request failed, or the request was the first of the list
\* and an event arrived between the answer and its arrival: the list then keeps the
\* answer it has, which is older than the event.
EventsTrue == Settled => (shown = operationRow \/ missed)
=============================================================================
