--------------------------- MODULE DaemonSupervisor --------------------------
(***************************************************************************)
(* How the Desktop keeps one yorvad.  DaemonLifecycle holds a status, the  *)
(* handle of a child and whether it was restarted, behind one mutex; a     *)
(* start spawns a child, hands it its bootstrap line, and leaves behind a  *)
(* task that reads the child's events and a thread that waits for the      *)
(* startup deadline.  Neither knows whether the handle is still that of    *)
(* its own child.  The main thread stops the daemon when the Desktop exits *)
(* or an update is installed, and starts another one when the installer    *)
(* cannot be launched.  The daemon leaves when it is told to, or when its  *)
(* standard input is closed.                                               *)
(***************************************************************************)
EXTENDS Naturals, FiniteSets, Sequences

CONSTANTS MaxChildren,          \* bound: children spawned
          MaxSupervisorMishaps, \* bound: crashes, failing starts and writes, bad lines
          MaxLaunches           \* bound: installers that could not be launched

ASSUME SupervisorBounds == MaxChildren \in Nat /\ MaxSupervisorMishaps \in Nat /\ MaxLaunches \in Nat

VARIABLES status,   \* StartupStatus
          session,  \* the child whose address and token Ready carries
          handle,   \* inner.child: the child it controls, or NoChild
          retried,  \* restart_attempted
          starts,   \* who is in try_start_daemon and has not spawned: the main
                    \*   thread, or the task of a child that restarts
          child,    \* per child: the process, its events, its task and its thread
          main,     \* the main thread
          supervisorMishaps, launches,
          crossed   \* ghost: an event or a deadline of one child met a later start, or
                    \*   two starts met

supervisorVars == <<status, session, handle, retried, starts, child, main,
                    supervisorMishaps, launches, crossed>>

Children == 1..MaxChildren
NoChild == 0
MainThread == 0
Unborn == [proc |-> "none", told |-> FALSE, task |-> "none", events |-> <<>>, deadline |-> "none",
           by |-> MainThread]
Spawned == {c \in Children : child[c].proc # "none"}
Alive == {c \in Children : child[c].proc \in {"booting", "serving"}}
Newest == Cardinality(Spawned)

\* The first start; or product data that could not be prepared, and none.
SupervisorInit ==
    /\ \/ status = "starting" /\ starts = {MainThread} /\ main = "starts"
       \/ status = "failed" /\ starts = {} /\ main = "run"
    /\ session = NoChild /\ handle = NoChild /\ retried = FALSE
    /\ child = [c \in Children |-> Unborn]
    /\ supervisorMishaps = 0 /\ launches = 0 /\ crossed = FALSE

SupervisorMishap == supervisorMishaps < MaxSupervisorMishaps /\ supervisorMishaps' = supervisorMishaps + 1
NoSupervisorMishap == UNCHANGED supervisorMishaps
Running == main # "gone"

\* The children after the end of one, and after one was told to leave or its
\* handle, which holds the other end of its standard input, was dropped.
Ends(children, c) ==
    IF c \in Alive THEN [children EXCEPT ![c].proc = "exited", ![c].events = Append(@, "terminated")] ELSE children
Tells(children, c) == IF c = NoChild THEN children ELSE [children EXCEPT ![c].told = TRUE]

\* fail_startup, for a caller that leaves the children like this.
FailStartup(children) ==
    IF status \in {"stopping", "stopped"} THEN child' = children /\ UNCHANGED <<status, handle>>
    ELSE status' = "failed" /\ handle' = NoChild /\ child' = Ends(children, handle)

(***************************************************************************)
(* try_start_daemon.                                                       *)
(***************************************************************************)
\* The start of somebody is over; the main thread goes on.
StartOver(who) == main' = IF who = MainThread THEN "run" ELSE main

StartFails(who) ==
    /\ Running /\ who \in starts /\ starts' = starts \ {who} /\ SupervisorMishap
    /\ FailStartup(child) /\ StartOver(who) /\ UNCHANGED <<session, retried, launches, crossed>>

Spawn(who) ==
    /\ Running /\ who \in starts /\ starts' = starts \ {who} /\ Newest < MaxChildren
    /\ child' = [child EXCEPT ![Newest + 1] = [Unborn EXCEPT !.proc = "booting", !.task = "guarded", !.by = who]]
    /\ UNCHANGED <<status, session, handle, retried, main, supervisorMishaps, launches, crossed>>

\* The bootstrap line cannot be written: the guard kills the child.
BootstrapFails(c) ==
    /\ Running /\ child[c].task = "guarded" /\ SupervisorMishap
    /\ FailStartup([Ends(child, c) EXCEPT ![c].task = "done"]) /\ StartOver(child[c].by)
    /\ UNCHANGED <<session, retried, starts, launches, crossed>>

Attended(c) == [child EXCEPT ![c].task = "reading", ![c].deadline = "waiting"]

\* Mutant: a child that comes too late is kept.
SetChildAlways(c) ==
    /\ Running /\ child[c].task = "guarded" /\ handle' = c /\ child' = Attended(c)
    /\ StartOver(child[c].by)
    /\ UNCHANGED <<status, session, retried, starts, supervisorMishaps, launches, crossed>>

\* set_child; then its task and its deadline begin.
SetChild(c) ==
    /\ Running /\ child[c].task = "guarded"
    /\ IF status = "starting" /\ handle = NoChild
       THEN handle' = c /\ child' = Attended(c)
       ELSE handle' = handle /\ child' = Ends(Attended(c), c)
    /\ StartOver(child[c].by)
    /\ UNCHANGED <<status, session, retried, starts, supervisorMishaps, launches, crossed>>

(***************************************************************************)
(* The events of a child, which its task takes in their order.             *)
(***************************************************************************)
Takes(c, event) == Running /\ child[c].task = "reading" /\ child[c].events # <<>> /\ Head(child[c].events) = event
Read(c) == [child EXCEPT ![c].events = Tail(@)]
Leave(c) == [child EXCEPT ![c].events = Tail(@), ![c].task = "done"]
InProgress == starts # {} \/ \E c \in Children : child[c].task = "guarded"
Crosses(c) == crossed' = (crossed \/ c # Newest \/ starts # {})

\* accept_handshake, set_ready
TakeHandshake(c) ==
    /\ Takes(c, "handshake") /\ child' = Read(c)
    /\ IF status = "starting" THEN status' = "ready" /\ session' = c /\ Crosses(c)
       ELSE UNCHANGED <<status, session, crossed>>
    /\ UNCHANGED <<handle, retried, starts, main, supervisorMishaps, launches>>

\* A line that is no handshake, a second line, an error of the channel.
TakeError(c) ==
    /\ Takes(c, "error") /\ FailStartup(Leave(c)) /\ Crosses(c)
    /\ UNCHANGED <<session, retried, starts, main, supervisorMishaps, launches>>

\* process_terminated, and the one restart.
TakeTerminated(c) ==
    /\ Takes(c, "terminated")
    /\ handle' = NoChild /\ child' = Tells(Leave(c), handle) /\ Crosses(c)
    /\ IF status = "ready" /\ ~retried
       THEN status' = "starting" /\ retried' = TRUE /\ starts' = starts \cup {c}
       ELSE /\ status' = IF status \in {"stopping", "stopped"} THEN "stopped" ELSE "failed"
            /\ UNCHANGED <<retried, starts>>
    /\ UNCHANGED <<session, main, supervisorMishaps, launches>>

\* wait_for_startup_deadline: its thread is woken and sees that the start is over,
\* or waits on, when another start has begun before it looked.
DeadlineOver(c) ==
    /\ Running /\ child[c].deadline = "waiting" /\ status # "starting"
    /\ child' = [child EXCEPT ![c].deadline = "done"]
    /\ UNCHANGED <<status, session, handle, retried, starts, main, supervisorMishaps, launches, crossed>>

DeadlineStrikes(c) ==
    /\ Running /\ child[c].deadline = "waiting" /\ status = "starting"
    /\ status' = "failed" /\ handle' = NoChild
    /\ child' = Ends([child EXCEPT ![c].deadline = "done"], handle) /\ Crosses(c)
    /\ UNCHANGED <<session, retried, starts, main, supervisorMishaps, launches>>

(***************************************************************************)
(* The main thread: stop_with_timeout, and what follows it.                *)
(***************************************************************************)
NextFor(why) == IF why = "install" THEN "launch" ELSE "gone"
Waits(why) == IF why = "install" THEN "waits to launch" ELSE "waits to exit"

\* When the Desktop is gone, every handle is closed with it.
Then(children, why) ==
    /\ main' = NextFor(why)
    /\ child' = IF why = "exit" THEN [c \in Children |-> [children[c] EXCEPT !.told = TRUE]] ELSE children

StopBegins(why) ==
    /\ main = "run" \/ (main = "exits" /\ why = "exit")
    /\ \/ /\ handle = NoChild /\ status' = "stopped" /\ Then(child, why)
          /\ NoSupervisorMishap /\ UNCHANGED handle
       \/ /\ handle # NoChild /\ status' = "stopping" /\ main' = Waits(why)
          /\ child' = Tells(child, handle) /\ NoSupervisorMishap /\ UNCHANGED handle
       \/ /\ handle # NoChild /\ SupervisorMishap /\ status' = "stopped" /\ handle' = NoChild
          /\ Then(Ends(child, handle), why)
    /\ UNCHANGED <<session, retried, starts, launches, crossed>>

\* The child has ended, or its three seconds are over and it is killed.
StopEnds(why) ==
    /\ main = Waits(why) /\ status' = "stopped" /\ handle' = NoChild
    /\ Then(Ends(child, handle), why)
    /\ UNCHANGED <<session, retried, starts, supervisorMishaps, launches, crossed>>

\* install_update: the installer runs and the Desktop exits; or it does not, and
\* the daemon is started again: prepare_start.
Launched ==
    /\ main = "launch" /\ main' = "exits"
    /\ UNCHANGED <<status, session, handle, retried, starts, child, supervisorMishaps, launches, crossed>>

LaunchFails ==
    /\ main = "launch" /\ launches < MaxLaunches /\ launches' = launches + 1
    /\ IF handle = NoChild /\ status \in {"stopped", "failed"}
       THEN /\ status' = "starting" /\ retried' = FALSE
            /\ starts' = starts \cup {MainThread} /\ main' = "starts"
       ELSE main' = "run" /\ UNCHANGED <<status, retried, starts>>
    /\ crossed' = (crossed \/ InProgress)
    /\ UNCHANGED <<session, handle, child, supervisorMishaps>>

(***************************************************************************)
(* The daemon.                                                             *)
(***************************************************************************)
\* Run looks at the control channel last before it writes the handshake.
Boots(c) ==
    /\ child[c].proc = "booting" /\ child[c].task # "guarded"
    /\ child' = [child EXCEPT ![c].proc = "serving", ![c].events = Append(@, "handshake")]
    /\ UNCHANGED <<status, session, handle, retried, starts, main, supervisorMishaps, launches, crossed>>

\* monitorParent: a shutdown line, or the end of its input.
Obeys(c) ==
    /\ c \in Alive /\ child[c].told /\ child' = Ends(child, c)
    /\ UNCHANGED <<status, session, handle, retried, starts, main, supervisorMishaps, launches, crossed>>

Dies(c) ==
    /\ c \in Alive /\ SupervisorMishap /\ child' = Ends(child, c)
    /\ UNCHANGED <<status, session, handle, retried, starts, main, launches, crossed>>

WritesBadLine(c) ==
    /\ c \in Alive /\ SupervisorMishap /\ child' = [child EXCEPT ![c].events = Append(@, "error")]
    /\ UNCHANGED <<status, session, handle, retried, starts, main, launches, crossed>>

SupervisorNext ==
    \/ Launched \/ LaunchFails
    \/ \E who \in {MainThread} \cup Children : StartFails(who) \/ Spawn(who)
    \/ \E why \in {"install", "exit"} : StopBegins(why) \/ StopEnds(why)
    \/ \E c \in Children :
          \/ BootstrapFails(c) \/ SetChild(c)
          \/ TakeHandshake(c) \/ TakeError(c) \/ TakeTerminated(c)
          \/ DeadlineOver(c) \/ DeadlineStrikes(c)
          \/ Boots(c) \/ Obeys(c) \/ Dies(c) \/ WritesBadLine(c)

SupervisorSpec == SupervisorInit /\ [][SupervisorNext]_supervisorVars
-----------------------------------------------------------------------------
(***************************************************************************)
(* Properties.                                                             *)
(***************************************************************************)
OneDaemon == Cardinality(Alive) <= 1 \/ crossed
ReadyIsTheChild == status = "ready" => (handle # NoChild /\ session = handle) \/ crossed
HandleInUse == handle # NoChild => status \in {"starting", "ready", "stopping"}
StartIsWatched ==
    Running /\ status = "starting" =>
        InProgress \/ \E c \in Children : child[c].deadline = "waiting"
NoneLeftBehind == main = "gone" => \A c \in Alive : child[c].told
RestartsOnce == Newest <= 2 * (1 + launches)

\* There is one daemon at a time, the one that Ready shows is the one the Desktop
\* controls, a start always has a deadline, no daemon is left that was not told to
\* go, and there is one restart for each deliberate start; unless an event or the
\* deadline of an earlier child met a later start, which happens when the daemon is
\* started again beside an installer that could not be launched, or a start met one
\* that stop() had not waited for.
SupervisorTrue ==
    OneDaemon /\ ReadyIsTheChild /\ HandleInUse /\ StartIsWatched /\ NoneLeftBehind /\ RestartsOnce
=============================================================================
