----------------------------- MODULE SkillStore -----------------------------
(***************************************************************************)
(* How a Skill gets into the managed store.  The Desktop copies what the   *)
(* user selects below skill-imports, under a reference that is all the     *)
(* daemon is told; the worker of the import reads it, publishes a copy     *)
(* under the digest of its contents, and removes it, whatever came of it.  *)
(* A Skill of the built-in catalog is published the same way from memory.  *)
(* The Desktop discards a selection that is closed, and removes all of     *)
(* skill-imports before it starts a daemon; neither asks whether a worker  *)
(* is reading.                                                             *)
(***************************************************************************)
EXTENDS Naturals, FiniteSets

CONSTANTS MaxSelections,   \* bound: Skills selected
          MaxStoreFaults   \* bound: failing calls, lost answers, crashes, hands on the store

ASSUME SkillStoreBounds == MaxSelections \in Nat /\ MaxStoreFaults \in Nat

VARIABLES selected,     \* per reference: what the user selected, and how it is staged
          staged,     \* per reference: "absent", "partly" or "whole"
          dialog,     \* the selection the panel shows, or NoRef
          hasRow,     \* the instance has a row of this Skill
          importer,   \* the operation at work
          store,      \* per digest: "absent", "whole", "torn" or "other"
          unsynced,   \* digests whose files are not on the disk
          storeFaults,
          taken, strays, handled  \* ghosts: references removed before their import was done, and
                      \* staged sources nobody will remove; digests a hand or a power cut met

storeVars == <<selected, staged, dialog, hasRow, importer, store, unsynced, storeFaults, taken, strays, handled>>

Refs == 1..MaxSelections
NoRef == 0
Flaws == {"link", "script", "no SKILL.md"}
Catalog == "catalog"
Sources == {"v1"} \cup Flaws
Digests == {"v1", "part", Catalog}
Unchosen == [content |-> "none", kind |-> "none"]
NoImporter == [at |-> "idle", ref |-> NoRef, content |-> "none", outcome |-> "none"]

SkillStoreInit ==
    /\ selected = [r \in Refs |-> Unchosen] /\ staged = [r \in Refs |-> "absent"] /\ dialog = NoRef
    /\ hasRow = FALSE /\ importer = NoImporter
    /\ store = [d \in Digests |-> "absent"] /\ unsynced = {} /\ storeFaults = 0
    /\ taken = {} /\ strays = {} /\ handled = {}

StoreFault == storeFaults < MaxStoreFaults /\ storeFaults' = storeFaults + 1
NoStoreFault == UNCHANGED storeFaults
ImporterAt(step) == importer.at = step
ImporterGoes(step) == importer' = [importer EXCEPT !.at = step]
Returns(outcome) == importer' = [importer EXCEPT !.at = "return", !.outcome = outcome]
picked == <<selected, staged, dialog>>
kept == <<hasRow, store, unsynced>>
seen == <<taken, strays, handled>>

(***************************************************************************)
(* The Desktop.                                                            *)
(***************************************************************************)
\* What each way of staging refuses: a directory with a link; a ZIP is only measured.
StagedAsIs(content, kind) == ~(kind = "DIRECTORY" /\ content = "link")

\* select_skill_import: the source is staged whole, or removed again.
Select(content, kind) ==
    /\ dialog = NoRef
    /\ \E ref \in Refs :
       /\ selected[ref] = Unchosen /\ \A q \in Refs : q < ref => selected[q] # Unchosen
       /\ selected' = [selected EXCEPT ![ref] = [content |-> content, kind |-> kind]]
       /\ \/ /\ NoStoreFault /\ StagedAsIs(content, kind)
             /\ dialog' = ref /\ staged' = [staged EXCEPT ![ref] = "whole"] /\ UNCHANGED strays
          \/ ~StagedAsIs(content, kind) /\ NoStoreFault /\ UNCHANGED <<dialog, staged, strays>>
          \/ /\ StoreFault /\ staged' = [staged EXCEPT ![ref] = "partly"] /\ strays' = strays \cup {ref}
             /\ UNCHANGED dialog
    /\ UNCHANGED <<importer, kept, taken, handled>>

\* A removal in progress: what is still there is seen by a worker at work.
TakenNow(refs) == taken' = taken \cup refs

\* closeSkillImport: the panel forgets the selection and has it removed.
Discard ==
    /\ dialog # NoRef /\ dialog' = NoRef /\ TakenNow({dialog})
    /\ \/ NoStoreFault /\ staged' = [staged EXCEPT ![dialog] = "partly"] /\ UNCHANGED strays
       \/ StoreFault /\ strays' = strays \cup {dialog} /\ UNCHANGED staged
    /\ UNCHANGED <<selected, importer, kept, handled>>

\* The end of a removal.
Removed(ref) ==
    /\ staged[ref] = "partly" /\ ref \in taken \ strays
    /\ staged' = [staged EXCEPT ![ref] = "absent"]
    /\ UNCHANGED <<selected, dialog, importer, kept, storeFaults, seen>>

\* An import or, of the catalog, an install is accepted.  The panel forgets the
\* selection when the answer arrives; the next try is a request of its own.
StartImport ==
    /\ dialog # NoRef /\ ImporterAt("idle")
    /\ importer' = [NoImporter EXCEPT !.at = "check", !.ref = dialog]
    /\ \/ NoStoreFault /\ dialog' = NoRef
       \/ StoreFault /\ UNCHANGED dialog
    /\ UNCHANGED <<selected, staged, kept, seen>>

StartInstall ==
    /\ ImporterAt("idle") /\ importer' = [NoImporter EXCEPT !.at = "check", !.content = Catalog]
    /\ UNCHANGED <<picked, kept, storeFaults, seen>>

(***************************************************************************)
(* The worker.                                                             *)
(***************************************************************************)
\* A Skill that has a row is refused before the source is looked at, which stays.
CheckRow ==
    /\ ImporterAt("check") /\ UNCHANGED <<picked, kept, taken, handled, storeFaults>>
    /\ IF ~hasRow THEN ImporterGoes("read") /\ UNCHANGED strays
       ELSE /\ importer' = [importer EXCEPT !.at = "done", !.outcome = "failed"]
            /\ strays' = strays \cup ({importer.ref} \ {NoRef})

\* Mutant: a source is published as it was staged.
RejectedLittle(content) == content = "no SKILL.md"

\* extractSkillZIP and validateCatalogSource: what is wrong with a source is found
\* before anything is written.  Of a source that is being removed a part may be
\* read, and pass.
Rejected(content) == content \in Flaws

ReadSource ==
    /\ ImporterAt("read") /\ UNCHANGED <<picked, kept, seen, storeFaults>>
    /\ IF importer.ref = NoRef THEN ImporterGoes("look")
       ELSE LET ref == importer.ref
                content == selected[ref].content IN
            \/ staged[ref] = "absent" /\ Returns("missing")
            \/ staged[ref] = "whole" /\ Rejected(content) /\ Returns("refused")
            \/ /\ staged[ref] = "whole" /\ ~Rejected(content)
               /\ importer' = [importer EXCEPT !.at = "look", !.content = content]
            \/ staged[ref] = "partly" /\ Returns("missing")
            \/ /\ staged[ref] = "partly" /\ content # "no SKILL.md"
               /\ importer' = [importer EXCEPT !.at = "look", !.content = "part"]

Digest == importer.content

\* A destination that holds the very contents is the result; one that holds anything
\* else is a conflict; else the copy is staged and inspected.
LookAtDestination ==
    /\ ImporterAt("look") /\ UNCHANGED <<picked, kept, seen>>
    /\ \/ Digest \in Digests /\ store[Digest] = "whole" /\ NoStoreFault /\ Returns("ok")
       \/ Digest \in Digests /\ store[Digest] \in {"torn", "other"} /\ NoStoreFault /\ Returns("conflict")
       \/ Digest \notin Digests /\ NoStoreFault /\ ImporterGoes("publish")
       \/ Digest \in Digests /\ store[Digest] = "absent" /\ NoStoreFault /\ ImporterGoes("publish")
       \/ StoreFault /\ Returns("failed")

\* One rename; neither the files nor the directory are flushed.
PublishSkill ==
    /\ ImporterAt("publish") /\ UNCHANGED <<picked, hasRow, seen>>
    /\ \/ /\ NoStoreFault /\ Returns("ok")
          /\ store' = [d \in DOMAIN store \cup {Digest} |-> IF d = Digest THEN "whole" ELSE store[d]]
          /\ unsynced' = unsynced \cup {Digest}
       \/ StoreFault /\ Returns("failed") /\ UNCHANGED <<store, unsynced>>

\* The staged source is removed on every return; the row is created on success.
Return ==
    /\ ImporterAt("return") /\ ImporterGoes("done")
    /\ hasRow' = (hasRow \/ importer.outcome = "ok")
    /\ LET ref == importer.ref IN
       \/ ref = NoRef /\ UNCHANGED <<staged, strays, taken>> /\ NoStoreFault
       \/ /\ ref # NoRef /\ NoStoreFault /\ staged' = [staged EXCEPT ![ref] = "absent"]
          /\ TakenNow({ref}) /\ UNCHANGED strays
       \/ /\ ref # NoRef /\ StoreFault /\ strays' = strays \cup {ref} /\ TakenNow({ref})
          /\ staged' \in {staged, [staged EXCEPT ![ref] = IF @ = "absent" THEN @ ELSE "partly"]}
    /\ UNCHANGED <<selected, dialog, store, unsynced, handled>>

\* The operation is over; it is called retryable whenever it failed.
EndImport ==
    /\ ImporterAt("done") /\ importer' = NoImporter
    /\ UNCHANGED <<picked, kept, storeFaults, seen>>

\* The Skill is removed from the instance; the store keeps what it holds.
RemoveRow ==
    /\ hasRow /\ ImporterAt("idle") /\ hasRow' = FALSE
    /\ UNCHANGED <<picked, importer, store, unsynced, storeFaults, seen>>

(***************************************************************************)
(* The environment.                                                        *)
(***************************************************************************)
\* The daemon ends, with power lost or not, and another is started over the data:
\* skill-imports goes first, under an open dialog as well.  A power cut tears what
\* was not flushed.
NextDaemon(lost) ==
    /\ StoreFault /\ lost \subseteq unsynced /\ importer' = NoImporter
    /\ TakenNow({r \in Refs : staged[r] # "absent"})
    /\ staged' = [r \in Refs |-> "absent"] /\ strays' = {}
    /\ store' = [d \in DOMAIN store |-> IF d \in lost THEN "torn" ELSE store[d]]
    /\ handled' = handled \cup lost /\ unsynced' = unsynced \ lost
    /\ UNCHANGED <<selected, dialog, hasRow>>

\* Someone edits the managed store.
Tamper(d) ==
    /\ StoreFault /\ store[d] = "whole" /\ store' = [store EXCEPT ![d] = "other"]
    /\ handled' = handled \cup {d}
    /\ UNCHANGED <<picked, hasRow, importer, unsynced, taken, strays>>

SkillStoreNext ==
    \/ Discard \/ StartImport \/ StartInstall \/ CheckRow \/ ReadSource \/ LookAtDestination
    \/ PublishSkill \/ Return \/ EndImport \/ RemoveRow
    \/ \E content \in Sources, kind \in {"ZIP", "DIRECTORY"} : Select(content, kind)
    \/ \E r \in Refs : Removed(r)
    \/ \E lost \in SUBSET unsynced : NextDaemon(lost)
    \/ \E d \in DOMAIN store : Tamper(d)

SkillStoreSpec == SkillStoreInit /\ [][SkillStoreNext]_storeVars
-----------------------------------------------------------------------------
(***************************************************************************)
(* Properties.                                                             *)
(***************************************************************************)
\* What the store holds under a digest is whole, was accepted, and never changes but
\* for a power cut right after it was published, or a hand: which no later import of
\* the same contents mends.  It is a part of a Skill only if its staged source was
\* removed under the worker.
StoreImmutable ==
    \A d \in DOMAIN store : store[d] # "absent" =>
       /\ d \in Digests
       /\ store[d] = "whole" \/ d \in handled
       /\ d = "part" => taken # {}
\* An import that reports success put its contents there.
ResultIsThere == importer.outcome = "ok" => store[Digest] = "whole" \/ Digest \in handled
ConflictHasCause == importer.outcome = "conflict" => Digest \in handled

\* A staged source is found missing only if the panel was closed after its request
\* had been accepted and the answer lost, an earlier request for it ran, or a daemon
\* was started since it was selected.
MissingHasCause == importer.outcome = "missing" => importer.ref \in taken

\* Nothing stays in skill-imports until the next start but what could not be removed,
\* the source of an import refused for its row, and a copy that failed half-way.
NoStraySources ==
    \A r \in Refs : staged[r] # "absent" => r \in {dialog, importer.ref} \cup taken \cup strays

\* Skills reach the managed store whole, once, and leave nothing behind.
SkillStoreTrue == StoreImmutable /\ ResultIsThere /\ ConflictHasCause /\ MissingHasCause /\ NoStraySources
=============================================================================
