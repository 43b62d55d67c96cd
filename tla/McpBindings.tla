----------------------------- MODULE McpBindings -----------------------------
(***************************************************************************)
(* A managed MCP server of an instance is an entry of the profile's        *)
(* config.yaml, a credential in its .env, a readiness observation in the   *)
(* daemon's memory, and a row of managed_mcp_bindings.  A worker installs, *)
(* authenticates, configures, tests or removes the server with one adapter *)
(* call after another.  A cancelled operation is over at once for the      *)
(* table, while its worker goes on until it next looks at its context: a   *)
(* second worker may start beside it.                                      *)
(*                                                                         *)
(* One server of one instance, whose preset needs a credential.  Reading   *)
(* and replacing a file is one step: commitMCPConfig and commit compare    *)
(* with what was read, twice, before they rename.  They read the file once *)
(* more after the rename, and may report a failure of what is done.        *)
(***************************************************************************)
EXTENDS Naturals, FiniteSets

CONSTANTS MaxRequests,   \* bound: operations ever started
          MaxTogether,   \* bound: workers at work at one time
          MaxMishaps     \* bound: failing calls, stops of the daemon, edits of the profile

ASSUME McpBounds == MaxRequests \in Nat /\ MaxTogether \in Nat /\ MaxMishaps \in Nat

VARIABLES entry,      \* the server in config.yaml: "absent", "managed", "foreign"
          credential, \* whose credential .env holds: a request, ByHand, or 0
          ready,      \* the credential the last successful probe used, or 0
          binding,    \* the row of managed_mcp_bindings
          request,    \* per operation: its row and its worker
          mishaps,
          lapses      \* ghost: what has happened since the entry was installed

mcpVars == <<entry, credential, ready, binding, request, mishaps, lapses>>

Requests == 1..MaxRequests
ByHand == MaxRequests + 1
Actions == {"install", "authenticate", "configure", "test", "remove"}

NoRequest == [status |-> "NONE", action |-> "none", at |-> "none", gives |-> FALSE,
              cut |-> FALSE, cutting |-> FALSE, probed |-> 0]

McpInit ==
    /\ entry \in {"absent", "foreign"} /\ credential = 0
    /\ ready = 0 /\ binding = FALSE /\ request = [r \in Requests |-> NoRequest]
    /\ mishaps = 0 /\ lapses = {}

Unfinished(r) == request[r].status \in {"PENDING", "RUNNING"}
Working(r) == request[r].at \notin {"none", "done"}
Alone(r) == \A other \in Requests \ {r} : ~Working(other)
Quiet == \A r \in Requests : ~Working(r)

\* A worker ends, and what it knew is forgotten; how its row ended (SUCCEEDED,
\* FAILED or CANCELLED) tells nothing apart here.  A failed update leaves it active.
Over(r, status) == request' = [request EXCEPT ![r] = [NoRequest EXCEPT !.at = "done", !.status = status]]
AtCall(r, step) == request[r].at = step
Goes(r, step) == request' = [request EXCEPT ![r].at = step]
Lapse(what) == lapses' = lapses \cup {what}
\* What was observed before no longer counts.
Remembers(value) == ready' = value /\ lapses' = lapses \ {"unsure"}

\* A failing install cleans up after itself; the others just fail.
Fails(r) == Goes(r, IF request[r].action = "install" THEN "cleanup" ELSE "finish")

\* Every adapter call looks at its context when it begins (profileRoot).
Live(r) == ~request[r].cut
Mishap == mishaps < MaxMishaps /\ mishaps' = mishaps + 1
NoMishap == UNCHANGED mishaps
\* A call fails: before it changed anything, or after (readExact).
CallFails(r) == Fails(r) /\ Mishap
Refused(r, why) == why /\ Fails(r) /\ NoMishap
Answers(r, next) == (NoMishap /\ Goes(r, next)) \/ CallFails(r)
FailsOr(r, why) == Refused(r, why) \/ CallFails(r)
files == <<entry, credential>>

(***************************************************************************)
(* start and the beginning of runMutation.                                 *)
(***************************************************************************)
StartMutation(r, action) ==
    /\ request[r] = NoRequest /\ \A other \in Requests : other < r => request[other] # NoRequest
    /\ \A other \in Requests : ~Unfinished(other)
    /\ Cardinality({other \in Requests : Working(other)}) < MaxTogether
    /\ action # "install" => binding
    /\ \E gives \in BOOLEAN :
          /\ gives => action = "install"
          /\ request' = [request EXCEPT ![r] = [NoRequest EXCEPT !.status = "PENDING", !.action = action,
                                                                 !.at = "start", !.gives = gives]]
    /\ IF Quiet THEN UNCHANGED lapses ELSE Lapse("overlap")
    /\ UNCHANGED <<files, ready, binding, mishaps>>

FirstCall == [install |-> "add", authenticate |-> "secret", configure |-> "tools",
              test |-> "probe", remove |-> "remove"]

\* A failing update leaves the row PENDING with no worker: until somebody cancels it
\* or the daemon starts again.
BeginMutation(r) ==
    /\ AtCall(r, "start") /\ UNCHANGED <<files, ready, binding, lapses>>
    /\ \/ NoMishap /\ ~Unfinished(r) /\ Over(r, request[r].status)
       \/ /\ NoMishap /\ Unfinished(r)
          /\ request' = [request EXCEPT ![r].status = "RUNNING", ![r].at = FirstCall[request[r].action]]
       \/ Mishap /\ Over(r, request[r].status)

(***************************************************************************)
(* The adapter calls.                                                      *)
(***************************************************************************)
\* An install chooses tools only if some were asked for.
AfterSecret == {"tools", "probe"}

\* InstallMCPPreset: an entry that is there already is a conflict, even its own.
AddEntry(r) ==
    /\ AtCall(r, "add") /\ UNCHANGED <<credential, binding>>
    /\ LET added == Live(r) /\ entry = "absent" /\ entry' = "managed" /\ ready' = 0
                    /\ lapses' = IF Alone(r) THEN {} ELSE lapses IN
       \/ added /\ \E next \in IF request[r].gives THEN {"secret"} ELSE AfterSecret : Answers(r, next)
       \/ /\ Live(r) /\ entry = "absent" /\ entry' = "managed" /\ CallFails(r)
          /\ UNCHANGED <<ready, lapses>>
       \/ /\ FailsOr(r, ~Live(r) \/ entry # "absent")
          /\ UNCHANGED <<entry, ready, lapses>>

\* AuthenticateMCP.  A failure that commit reports after its rename is returned before
\* the older observation is dropped.
WriteSecret(r) ==
    /\ AtCall(r, "secret") /\ UNCHANGED <<entry, binding>>
    /\ LET nexts == IF request[r].action = "install" THEN AfterSecret ELSE {"finish"}
           written == Live(r) /\ entry = "managed" /\ credential' = r IN
       \/ written /\ Remembers(0) /\ \E next \in nexts : Answers(r, next)
       \/ written /\ CallFails(r) /\ Lapse("unsure") /\ UNCHANGED ready
       \/ /\ FailsOr(r, ~Live(r) \/ entry # "managed")
          /\ UNCHANGED <<credential, ready, lapses>>

\* ConfigureMCP replaces the entry by the same one with other tools.
ChooseTools(r) ==
    /\ AtCall(r, "tools") /\ UNCHANGED <<files, binding>>
    /\ LET next == IF request[r].action = "install" THEN "probe" ELSE "finish" IN
       \/ /\ Live(r) /\ entry = "managed" /\ Remembers(0)
          /\ Answers(r, next)
       \/ /\ FailsOr(r, ~Live(r) \/ entry # "managed")
          /\ UNCHANGED <<ready, lapses>>

\* TestMCP reads the entry and the credential and asks the server, which may
\* refuse; only then is an older observation dropped.
Probe(r) ==
    /\ AtCall(r, "probe") /\ UNCHANGED <<files, binding>>
    /\ LET can == Live(r) /\ entry = "managed" /\ credential # 0 IN
       \/ /\ can /\ NoMishap /\ UNCHANGED <<ready, lapses>>
          /\ request' = [request EXCEPT ![r].at = "observe", ![r].probed = credential]
       \/ Refused(r, can) /\ Remembers(0)
       \/ Refused(r, ~can) /\ UNCHANGED <<ready, lapses>>

\* ... and it records the answer, whatever has happened meanwhile.
Observe(r) ==
    /\ AtCall(r, "observe") /\ Remembers(request[r].probed)
    /\ Goes(r, IF request[r].action = "install" THEN "list" ELSE "finish")
    /\ UNCHANGED <<files, binding, mishaps>>

Shown == IF entry # "managed" THEN entry
         ELSE IF credential = 0 THEN "AUTH_REQUIRED" ELSE IF ready # 0 THEN "READY" ELSE "CONFIGURED"

\* The install must see its server READY (ListMCPServers).
CheckReady(r) ==
    /\ AtCall(r, "list") /\ UNCHANGED <<files, ready, binding, lapses>>
    /\ \/ Live(r) /\ Shown = "READY" /\ NoMishap /\ Goes(r, "bind")
       \/ FailsOr(r, ~Live(r) \/ Shown # "READY")

\* UpsertManagedMCPBinding
Bind(r) ==
    /\ AtCall(r, "bind") /\ UNCHANGED <<files, ready, lapses>>
    /\ \/ Live(r) /\ binding' = TRUE /\ NoMishap /\ Goes(r, "finish")
       \/ FailsOr(r, ~Live(r)) /\ UNCHANGED binding

\* Mutant: a failed install leaves what it did.
NoCleanup(r) ==
    /\ AtCall(r, "cleanup") /\ Goes(r, "finish")
    /\ UNCHANGED <<files, ready, binding, mishaps, lapses>>

\* A failed install removes the entry it finds, with a context of its own: the
\* entry of an earlier install, or of another worker, is the same to it.
Cleanup(r) ==
    /\ AtCall(r, "cleanup") /\ UNCHANGED <<credential, ready, binding>>
    /\ \/ /\ entry = "managed" /\ entry' = "absent" /\ NoMishap /\ Goes(r, "wipe")
          /\ IF binding THEN Lapse("cleanedUp") ELSE UNCHANGED lapses
       \/ entry # "managed" /\ NoMishap /\ Goes(r, "finish") /\ UNCHANGED <<entry, lapses>>
       \/ Mishap /\ Goes(r, "finish") /\ Lapse("leftOver") /\ UNCHANGED entry
       \/ /\ entry = "managed" /\ entry' = "absent" /\ Mishap /\ Goes(r, "finish")
          /\ lapses' = lapses \cup {"leftOver"} \cup (IF binding THEN {"cleanedUp"} ELSE {})

\* RemoveMCP: the entry first ...
RemoveEntry(r) ==
    /\ AtCall(r, "remove") /\ UNCHANGED <<credential, ready, binding>>
    /\ \/ /\ Live(r) /\ entry = "managed" /\ entry' = "absent"
          /\ \/ NoMishap /\ Goes(r, "wipe") /\ UNCHANGED lapses
             \/ CallFails(r) /\ Lapse("halfRemoved")
       \/ FailsOr(r, ~Live(r) \/ entry # "managed") /\ UNCHANGED <<entry, lapses>>

\* ... then the credential.  A second RemoveMCP would not get this far: the entry
\* is no longer there.
Wipe(r) ==
    /\ AtCall(r, "wipe") /\ UNCHANGED <<entry, binding>>
    /\ \/ /\ credential' = 0 /\ Remembers(0) /\ NoMishap
          /\ Goes(r, IF request[r].action = "install" THEN "finish" ELSE "unbind")
       \/ /\ Mishap /\ credential' \in {credential, 0} /\ UNCHANGED ready /\ Lapse("halfRemoved")
          /\ Goes(r, "finish")

\* RemoveMCP looks at the list again before DeleteManagedMCPBinding.
Unbind(r) ==
    /\ AtCall(r, "unbind") /\ UNCHANGED <<files, ready>>
    /\ \/ /\ Live(r) /\ entry = "absent" /\ NoMishap
          /\ binding' = FALSE /\ Goes(r, "finish") /\ UNCHANGED lapses
       \/ /\ FailsOr(r, ~Live(r) \/ entry # "absent")
          /\ Lapse("halfRemoved") /\ UNCHANGED binding

\* A cancelled row is terminal: the update does nothing.
Finish(r) ==
    /\ AtCall(r, "finish") /\ UNCHANGED <<files, ready, binding, lapses>>
    /\ \/ NoMishap /\ Over(r, "TERMINAL")
       \/ Mishap /\ Over(r, request[r].status)

(***************************************************************************)
(* CancelMCPOperation writes CANCELLED, then cuts the worker's context.    *)
(***************************************************************************)
Cancel(r) ==
    /\ Unfinished(r)
    /\ request' = [request EXCEPT ![r].status = "TERMINAL", ![r].cutting = Working(r)]
    /\ UNCHANGED <<files, ready, binding, mishaps, lapses>>

Cut(r) ==
    /\ request[r].cutting
    /\ request' = [request EXCEPT ![r].cutting = FALSE, ![r].cut = TRUE]
    /\ UNCHANGED <<files, ready, binding, mishaps, lapses>>

(***************************************************************************)
(* The world.                                                              *)
(***************************************************************************)
\* readyObservation drops an observation older than ReadyTTL.
ReadyExpires ==
    /\ ready # 0 /\ Remembers(0)
    /\ UNCHANGED <<files, binding, request, mishaps>>

EditProfile ==
    /\ Mishap /\ Lapse("edited")
    /\ \/ entry' \in {"absent", "managed", "foreign"} \ {entry} /\ UNCHANGED credential
       \/ credential' \in {0, ByHand} \ {credential} /\ UNCHANGED entry
    /\ UNCHANGED <<ready, binding, request>>

\* The daemon stops and starts: RecoverInterrupted fails the active rows and
\* looks at nothing else.
RestartDaemon ==
    /\ Mishap /\ ready' = 0
    /\ lapses' = IF Quiet THEN lapses \ {"unsure"} ELSE lapses \cup {"stopped"}
    /\ request' = [r \in Requests |->
                      IF request[r] = NoRequest THEN NoRequest
                      ELSE [NoRequest EXCEPT !.at = "done", !.status = "TERMINAL"]]
    /\ UNCHANGED <<files, binding>>

MutationStep(r) ==
    \/ BeginMutation(r) \/ AddEntry(r) \/ WriteSecret(r) \/ ChooseTools(r) \/ Probe(r) \/ Observe(r)
    \/ CheckReady(r) \/ Bind(r) \/ Cleanup(r) \/ RemoveEntry(r) \/ Wipe(r) \/ Unbind(r) \/ Finish(r)

McpNext ==
    \/ \E r \in Requests :
          \/ \E action \in Actions : StartMutation(r, action)
          \/ MutationStep(r) \/ Cancel(r) \/ Cut(r)
    \/ ReadyExpires \/ EditProfile \/ RestartDaemon

McpSpec == McpInit /\ [][McpNext]_mcpVars
-----------------------------------------------------------------------------
(***************************************************************************)
(* Properties.                                                             *)
(***************************************************************************)
Excused(causes) == lapses \cap ({"edited", "overlap", "stopped"} \cup causes) # {}

\* When no worker is busy the four places agree: a server listed as managed by
\* the service has its entry, an entry the service wrote has its row, no
\* credential outlives its server, and READY was measured with the credential
\* that is there.  What may break this: others' hands, a restart in the middle,
\* a second worker beside a cancelled one, a failing removal or cleanup; an
\* install of a server that is installed already, which fails and then removes
\* the entry and the credential the first install made; and, until readiness is
\* next observed or dropped, a credential whose write was reported as failed
\* though the file was replaced: it is shown READY on its predecessor's account.
McpAgrees == Quiet =>
    /\ binding /\ entry # "managed" => Excused({"cleanedUp", "halfRemoved"})
    /\ entry = "managed" /\ ~binding => Excused({"leftOver"})
    /\ credential # 0 /\ entry # "managed" => Excused({"leftOver", "halfRemoved"})
    /\ Shown = "READY" => ready = credential \/ Excused({"unsure"})
=============================================================================
