-------------------------- MODULE ChannelConnection -------------------------
(***************************************************************************)
(* The Weixin channel of one instance.  Connecting shows a QR code, waits  *)
(* until it is confirmed, writes the account and its token to the          *)
(* profile's .env, then the account file, then the binding row that says   *)
(* YORVA authenticated it; disconnecting goes the same way.  The workers   *)
(* and a cancel take the instance's lock, but ListChannels does not: it    *)
(* reads the files, reads the row, and writes the row.  WeCom goes the     *)
(* same way without a QR code and an account file.                         *)
(***************************************************************************)
EXTENDS Naturals, FiniteSets

CONSTANTS Accounts,          \* the accounts that a QR code may be confirmed with
          NoAccount,
          MaxChannelOps,     \* bound: connects and disconnects
          MaxChannelMishaps  \* bound: failing writes and crashes

ASSUME ChannelBounds ==
    /\ NoAccount \notin Accounts
    /\ MaxChannelOps \in Nat /\ MaxChannelMishaps \in Nat

VARIABLES credentials,  \* .env: the account and its token, NoCredentials
          accountFile,  \* per account: the token in its file, 0 when there is none
          binding,      \* the row: state and account
          chanOps,      \* per operation: its type, its row's status, its worker
          chanLock,     \* the operation that holds the instance's lock, or 0
          qrShown,      \* the operations whose QR code can be read
          withdrawn,    \* the operations whose context was cancelled
          cancelling,   \* the operations a CancelChannel waits for
          listing,      \* a ListChannels on its way
          channelMishaps,
          channelGhost  \* demoted, doubtful, forgotten, unsettled, uncancelled: see below

channelVars == <<credentials, accountFile, binding, chanOps, chanLock, qrShown, withdrawn, cancelling,
                 listing, channelMishaps, channelGhost>>

ChannelOps == 1..MaxChannelOps
\* A token is named after the operation that fetched it, or foreign.
ForeignToken == MaxChannelOps + 1
NoCredentials == [account |-> NoAccount, token |-> 0]
NotStarted == [type |-> "none", status |-> "none", pc |-> "none", account |-> NoAccount]
NotListing == [pc |-> "none", state |-> "none", account |-> NoAccount, old |-> FALSE]
Started == {i \in ChannelOps : chanOps[i].status # "none"}
Active(i) == chanOps[i].status \in {"PENDING", "RUNNING"}
Bound(state, account) == [state |-> state, account |-> account]

\* Somebody may have logged in without YORVA.  The ghosts: demoted, a listing wrote
\* what it had read before a later change; doubtful, that, or the files changed and
\* the row did not follow; forgotten, accounts whose file was left behind;
\* unsettled, rows that could not be written; uncancelled, connects whose
\* assignments could not be taken back.
ChannelsInit ==
    /\ \/ credentials = NoCredentials /\ accountFile = [a \in Accounts |-> 0]
       \/ \E a \in Accounts : /\ credentials = [account |-> a, token |-> ForeignToken]
                             /\ accountFile = [b \in Accounts |-> IF b = a THEN ForeignToken ELSE 0]
    /\ binding = Bound("NONE", NoAccount)
    /\ chanOps = [i \in ChannelOps |-> NotStarted] /\ chanLock = 0 /\ qrShown = {} /\ withdrawn = {}
    /\ cancelling = {} /\ listing = NotListing /\ channelMishaps = 0
    /\ channelGhost = [demoted |-> FALSE, doubtful |-> FALSE, forgotten |-> {}, unsettled |-> {}, uncancelled |-> {}]

ChannelMishap == channelMishaps < MaxChannelMishaps /\ channelMishaps' = channelMishaps + 1
NoChannelMishap == UNCHANGED channelMishaps

ChannelFiles == <<credentials, accountFile>>
Requests == <<withdrawn, cancelling>>
Outdated == listing' = [listing EXCEPT !.old = listing.pc # "none"]

(***************************************************************************)
(* Requests.                                                               *)
(***************************************************************************)
\* StartChannelConnect and StartChannelDisconnect: the row, with no other active.
StartChannel(i, type) ==
    /\ \A j \in ChannelOps : ~Active(j) /\ (j < i <=> j \in Started)
    /\ chanOps' = [chanOps EXCEPT ![i] = [NotStarted EXCEPT !.type = type, !.status = "PENDING", !.pc = "created"]]
    /\ UNCHANGED <<ChannelFiles, binding, chanLock, qrShown, listing, channelMishaps, channelGhost, Requests>>

\* startChannelWorker
StartWorker(i) ==
    /\ chanOps[i].pc = "created" /\ chanOps' = [chanOps EXCEPT ![i].pc = "lock"]
    /\ UNCHANGED <<ChannelFiles, binding, chanLock, qrShown, listing, channelMishaps, channelGhost, Requests>>

\* CancelChannel: the context of a worker that is registered, then the lock.
CancelChannel(i) ==
    /\ Active(i) /\ i \notin cancelling /\ cancelling' = cancelling \cup {i}
    /\ withdrawn' = IF chanOps[i].pc \in {"created", "none"} THEN withdrawn ELSE withdrawn \cup {i}
    /\ UNCHANGED <<ChannelFiles, binding, chanOps, chanLock, qrShown, listing, channelMishaps, channelGhost>>

CommitCancel(i) ==
    /\ i \in cancelling /\ chanLock = 0 /\ cancelling' = cancelling \ {i}
    /\ \/ ~Active(i) /\ UNCHANGED <<chanOps, qrShown, channelGhost>> /\ NoChannelMishap
       \/ /\ Active(i) /\ chanOps' = [chanOps EXCEPT ![i].status = "CANCELLED"] /\ qrShown' = qrShown \ {i}
          /\ UNCHANGED channelGhost /\ NoChannelMishap
       \/ /\ Active(i) /\ UNCHANGED <<chanOps, qrShown>> /\ ChannelMishap
          /\ channelGhost' = [channelGhost EXCEPT !.unsettled = @ \cup {i}]
    /\ UNCHANGED <<ChannelFiles, binding, chanLock, withdrawn, listing>>

(***************************************************************************)
(* runChannel.  A worker that returns gives up the lock, its QR code and   *)
(* its registration.                                                       *)
(***************************************************************************)
Works(i, pc) == chanOps[i].pc = pc /\ chanLock = i
Goes(i, pc) == chanOps' = [chanOps EXCEPT ![i].pc = pc] /\ UNCHANGED <<chanLock, qrShown, withdrawn>>
Returns(i, s) ==
    /\ chanLock' = IF chanLock = i THEN 0 ELSE chanLock
    /\ chanOps' = [chanOps EXCEPT ![i] = [@ EXCEPT !.pc = "none", !.status = s, !.account = NoAccount]]
    /\ qrShown' = qrShown \ {i} /\ withdrawn' = withdrawn \ {i}

\* finishChannel, for what is otherwise left behind.
Finishes(i, s, g) ==
    \/ Returns(i, s) /\ channelGhost' = g /\ NoChannelMishap
    \/ Returns(i, chanOps[i].status) /\ ChannelMishap
       /\ channelGhost' = [g EXCEPT !.unsettled = @ \cup {i}]

\* An error of the manager: a cancelled worker leaves the row to the cancel.
ManagerFails(i, g) ==
    IF i \in withdrawn THEN Returns(i, chanOps[i].status) /\ channelGhost' = g /\ NoChannelMishap
    ELSE Finishes(i, "FAILED", g)

TakeChannelLock(i) ==
    /\ chanOps[i].pc = "lock" /\ chanLock = 0
    /\ IF ~Active(i) \/ i \in withdrawn
       THEN Returns(i, chanOps[i].status) /\ UNCHANGED channelGhost /\ NoChannelMishap
       ELSE \/ /\ Returns(i, chanOps[i].status) /\ ChannelMishap
               /\ channelGhost' = [channelGhost EXCEPT !.unsettled = @ \cup {i}]
            \/ /\ chanLock' = i /\ UNCHANGED <<qrShown, withdrawn, channelGhost>> /\ NoChannelMishap
               /\ chanOps' = [chanOps EXCEPT ![i].status = "RUNNING",
                                ![i].pc = IF chanOps[i].type = "connect" THEN "show" ELSE "erase"]
    /\ UNCHANGED <<ChannelFiles, binding, listing, cancelling>>

\* resolveChannelTarget fails, of a cancelled context too, and says so in the row.
Unresolved(i) ==
    /\ Works(i, "show") \/ Works(i, "erase")
    /\ Finishes(i, "FAILED", channelGhost)
    /\ UNCHANGED <<ChannelFiles, binding, listing, cancelling>>

\* publishWeixinQR for its session, again when the code expired.
ShowQR(i) ==
    /\ Works(i, "show") \/ Works(i, "poll")
    /\ chanOps' = [chanOps EXCEPT ![i].pc = "poll"] /\ qrShown' = qrShown \cup {i}
    /\ UNCHANGED <<ChannelFiles, binding, chanLock, listing, channelMishaps, channelGhost, Requests>>

ExpireQR(i) ==
    /\ i \in qrShown /\ qrShown' = qrShown \ {i}
    /\ UNCHANGED <<ChannelFiles, binding, chanOps, chanLock, listing, channelMishaps, channelGhost, Requests>>

\* Connect fails: no code, no confirmation in time, another answer, or cancelled.
NotConfirmed(i) ==
    /\ Works(i, "show") \/ Works(i, "poll")
    /\ ManagerFails(i, channelGhost)
    /\ UNCHANGED <<ChannelFiles, binding, listing, cancelling>>

\* Confirmed, and not cancelled before it writes.
Confirmed(i, a) ==
    /\ Works(i, "poll") /\ i \notin withdrawn
    /\ chanOps' = [chanOps EXCEPT ![i].pc = "write", ![i].account = a]
    /\ UNCHANGED <<ChannelFiles, binding, chanLock, qrShown, listing, channelMishaps, channelGhost, Requests>>

\* SetWeixin: .env names this account, and what it named before is left.
Forget(accounts) ==
    [channelGhost EXCEPT !.doubtful = TRUE,
                         !.forgotten = @ \cup {a \in accounts \ {NoAccount} : accountFile[a] # 0}]

WriteAssignments(i) ==
    /\ Works(i, "write")
    /\ \/ /\ credentials' = [account |-> chanOps[i].account, token |-> i] /\ Goes(i, "file") /\ Outdated
          /\ channelGhost' = Forget({credentials.account} \ {chanOps[i].account}) /\ NoChannelMishap
       \/ UNCHANGED <<credentials, listing>> /\ ManagerFails(i, channelGhost)
    /\ UNCHANGED <<accountFile, binding, cancelling>>

WriteAccount(i) ==
    /\ Works(i, "file")
    /\ \/ /\ accountFile' = [accountFile EXCEPT ![chanOps[i].account] = i]
          /\ Goes(i, "bind") /\ Outdated /\ NoChannelMishap
       \/ ChannelMishap /\ Goes(i, "undo") /\ UNCHANGED <<accountFile, listing>>
    /\ UNCHANGED <<credentials, binding, channelGhost, cancelling>>

\* Mutant: a failed account file leaves the assignments.
UndoNothing(i) ==
    /\ Works(i, "undo") /\ ManagerFails(i, channelGhost)
    /\ UNCHANGED <<ChannelFiles, listing, binding, cancelling>>

\* The assignments go again, whatever they were before; an error of that is ignored.
UndoAssignments(i) ==
    /\ Works(i, "undo")
    /\ \/ credentials' = NoCredentials /\ Outdated /\ ManagerFails(i, Forget({chanOps[i].account}))
       \/ /\ UNCHANGED <<credentials, listing>>
          /\ ManagerFails(i, [channelGhost EXCEPT !.uncancelled = @ \cup {i}])
    /\ UNCHANGED <<accountFile, binding, cancelling>>

\* Delete: the assignments, then the account file they named.
EraseAssignments(i) ==
    /\ Works(i, "erase")
    /\ \/ /\ i \notin withdrawn /\ credentials' = NoCredentials /\ Outdated
          /\ chanOps' = [chanOps EXCEPT ![i].account = credentials.account,
                           ![i].pc = IF credentials.account = NoAccount THEN "bind" ELSE "eraseFile"]
          /\ channelGhost' = Forget({}) /\ NoChannelMishap /\ UNCHANGED <<chanLock, qrShown, withdrawn>>
       \/ UNCHANGED <<credentials, listing>> /\ ManagerFails(i, channelGhost)
    /\ UNCHANGED <<accountFile, binding, cancelling>>

EraseAccount(i) ==
    /\ Works(i, "eraseFile")
    /\ \/ /\ accountFile' = [accountFile EXCEPT ![chanOps[i].account] = 0] /\ Outdated
          /\ Goes(i, "bind") /\ NoChannelMishap /\ UNCHANGED channelGhost
       \/ UNCHANGED <<accountFile, listing>> /\ ManagerFails(i, Forget({chanOps[i].account}))
    /\ UNCHANGED <<credentials, binding, cancelling>>

\* The row, which gets the state that the manager returned.
Bind(i) ==
    /\ Works(i, "bind")
    /\ \/ /\ binding' = IF chanOps[i].type = "connect" THEN Bound("CONNECTED", chanOps[i].account)
                        ELSE Bound("NOT_CONFIGURED", NoAccount)
          /\ Goes(i, "finish") /\ Outdated /\ NoChannelMishap
          /\ channelGhost' = [channelGhost EXCEPT !.demoted = FALSE, !.doubtful = FALSE]
       \/ UNCHANGED <<binding, listing>> /\ Finishes(i, "FAILED", channelGhost)
    /\ UNCHANGED <<ChannelFiles, cancelling>>

Finish(i) ==
    /\ Works(i, "finish") /\ Finishes(i, "SUCCEEDED", channelGhost)
    /\ UNCHANGED <<ChannelFiles, binding, listing, cancelling>>

(***************************************************************************)
(* ListChannels.                                                           *)
(***************************************************************************)
\* What the files say.
ObservedStatus ==
    CASE credentials = NoCredentials -> Bound("NOT_CONFIGURED", NoAccount)
      [] credentials # NoCredentials /\ accountFile[credentials.account] = credentials.token
           -> Bound("UNKNOWN", credentials.account)
      [] OTHER -> Bound("UNKNOWN", NoAccount)

\* They prove that the material is there, the row that it was authenticated.
Promoted(status) ==
    IF status.state = "UNKNOWN" /\ binding.state = "CONNECTED" /\ status.account # NoAccount
       /\ binding.account = status.account
    THEN Bound("CONNECTED", status.account) ELSE status

ReadStatus ==
    /\ listing.pc = "none"
    /\ listing' = [pc |-> "row", state |-> ObservedStatus.state, account |-> ObservedStatus.account, old |-> FALSE]
    /\ UNCHANGED <<ChannelFiles, binding, chanOps, chanLock, qrShown, channelMishaps, channelGhost, Requests>>

ReadRow ==
    /\ listing.pc = "row"
    /\ LET status == Promoted(Bound(listing.state, listing.account))
       IN listing' = [listing EXCEPT !.pc = "write", !.state = status.state, !.account = status.account]
    /\ UNCHANGED <<ChannelFiles, binding, chanOps, chanLock, qrShown, channelMishaps, channelGhost, Requests>>

WriteRow ==
    /\ listing.pc = "write" /\ binding' = Bound(listing.state, listing.account) /\ listing' = NotListing
    /\ channelGhost' = [channelGhost EXCEPT !.demoted = @ \/ listing.old, !.doubtful = listing.old]
    /\ UNCHANGED <<ChannelFiles, chanOps, chanLock, qrShown, channelMishaps, Requests>>

(***************************************************************************)
(* The daemon ends and starts: RecoverChannels.                            *)
(***************************************************************************)
Interrupted == {i \in ChannelOps : Active(i)}
RecoveredAs(i) ==
    IF chanOps[i].type = "disconnect" /\ Promoted(ObservedStatus).state = "NOT_CONFIGURED"
    THEN {"SUCCEEDED", "FAILED"} ELSE {"FAILED"}

Restart ==
    /\ ChannelMishap
    /\ \E outcome \in [Interrupted -> {"SUCCEEDED", "FAILED"}] :
          /\ \A i \in Interrupted : outcome[i] \in RecoveredAs(i)
          /\ chanOps' = [i \in ChannelOps |->
                           [chanOps[i] EXCEPT !.pc = "none", !.account = NoAccount,
                                              !.status = IF i \in Interrupted THEN outcome[i] ELSE @]]
          /\ binding' = IF \E i \in Interrupted : outcome[i] = "SUCCEEDED" THEN Promoted(ObservedStatus) ELSE binding
    /\ chanLock' = 0 /\ qrShown' = {} /\ withdrawn' = {} /\ cancelling' = {} /\ listing' = NotListing
    /\ channelGhost' = [channelGhost EXCEPT
           !.doubtful = TRUE,
           !.forgotten = @ \cup {a \in Accounts : \E i \in ChannelOps : chanOps[i].pc = "eraseFile"
                                                                       /\ chanOps[i].account = a}]
    /\ UNCHANGED ChannelFiles

ChannelsNext ==
    \/ \E i \in ChannelOps, type \in {"connect", "disconnect"} : StartChannel(i, type)
    \/ \E i \in ChannelOps :
          \/ StartWorker(i) \/ CancelChannel(i) \/ CommitCancel(i)
          \/ TakeChannelLock(i) \/ Unresolved(i) \/ ShowQR(i) \/ ExpireQR(i) \/ NotConfirmed(i)
          \/ \E a \in Accounts : Confirmed(i, a)
          \/ WriteAssignments(i) \/ WriteAccount(i) \/ UndoAssignments(i)
          \/ EraseAssignments(i) \/ EraseAccount(i) \/ Bind(i) \/ Finish(i)
    \/ ReadStatus \/ ReadRow \/ WriteRow \/ Restart

ChannelsSpec == ChannelsInit /\ [][ChannelsNext]_channelVars
-----------------------------------------------------------------------------
(***************************************************************************)
(* Properties.                                                             *)
(***************************************************************************)
AtWork == {i \in ChannelOps : chanOps[i].pc # "none"}
Last == Cardinality(Started)

ConnectedIsThere ==
    binding.state = "CONNECTED" =>
        \/ credentials.account = binding.account
        \/ AtWork # {} \/ channelGhost.doubtful
SuccessIsRemembered ==
    Last > 0 /\ chanOps[Last].status = "SUCCEEDED" /\ chanOps[Last].type = "connect" =>
        binding.state = "CONNECTED" \/ channelGhost.demoted
NoFileForgotten ==
    \A a \in Accounts : accountFile[a] # 0 =>
        \/ credentials.account = a \/ a \in channelGhost.forgotten
        \/ \E i \in AtWork : chanOps[i].account = a
CancelledWroteNothing ==
    \A i \in Started : chanOps[i].type = "connect" /\ chanOps[i].status = "CANCELLED" =>
        credentials.token # i \/ i \in channelGhost.uncancelled \cup channelGhost.unsettled
QRHasItsWorker == \A i \in qrShown : Active(i) /\ chanOps[i].pc # "none"
AlwaysSettled == \A i \in ChannelOps : Active(i) => i \in AtWork \/ i \in cancelling \/ i \in channelGhost.unsettled

\* A binding that is CONNECTED names the account that the files hold, a connect that
\* SUCCEEDED stays CONNECTED, the file of an account goes with its assignments, a
\* cancelled connect left no credentials, a QR code goes with its worker, and a row
\* is settled; unless a listing wrote what it had read before, another account took
\* its place, or a step on the disk or in the database failed.
ChannelsTrue ==
    /\ ConnectedIsThere /\ SuccessIsRemembered /\ NoFileForgotten
    /\ CancelledWroteNothing /\ QRHasItsWorker /\ AlwaysSettled
=============================================================================
