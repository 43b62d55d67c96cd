--------------------------- MODULE BackupSnapshot ---------------------------
(***************************************************************************)
(* The plaintext of a backup is read from a directory no lock protects:    *)
(* the profiles were found stopped, but anything may still write there.    *)
(* buildHermesRuntimeSnapshot takes an inventory (the metadata of every    *)
(* file), copies each file between two looks at its metadata, reads it a   *)
(* second time to compare digests, and at the end compares the metadata of *)
(* every directory's children with the inventory.  Any difference is       *)
(* BACKUP_SOURCE_CHANGED.                                                  *)
(*                                                                         *)
(* A file's bytes are a number, new for every write and 0 when it does not *)
(* exist; its metadata (mode, size, modification time, identity) another.  *)
(* A file is read in two parts.                                            *)
(***************************************************************************)
EXTENDS Naturals, FiniteSets

CONSTANTS Files,          \* the directory's children
          Excluded,       \* those excludedSnapshotSource leaves out of the payload
          MaxChanges      \* bound: writes while a snapshot is taken

ASSUME SnapshotBounds == Excluded \subseteq Files /\ MaxChanges \in Nat

VARIABLES bytes, meta,    \* the source
          inventory,      \* metadata taken by Lstat, per file
          listed,         \* names the last ReadDir returned and Lstat has not seen yet
          copied,         \* the payload: the two parts read of each file
          reading,        \* the step of the file at hand: <<file, step>>
          stage, changes,
          seen,           \* ghost: the sources there have been since the inventory was complete
          quiet           \* ghost: a write left the metadata as it was

snapshotVars == <<bytes, meta, inventory, listed, copied, reading, stage, changes, seen, quiet>>
source == <<bytes, meta, changes, seen, quiet>>

Absent == 0
Included == Files \ Excluded
Present(b) == {f \in Files : b[f] # Absent}
Payload(b) == [f \in Included |-> b[f]]
Unread == <<0, 0>>

SnapshotInit ==
    /\ \E there \in SUBSET Files :
          /\ bytes = [f \in Files |-> IF f \in there THEN 1 ELSE Absent]
          /\ meta = [f \in Files |-> IF f \in there THEN 1 ELSE Absent]
    /\ inventory = [f \in Files |-> Absent] /\ listed = {}
    /\ copied = [f \in Included |-> Unread] /\ reading = <<"none", "none">>
    /\ stage = "start" /\ changes = 1 /\ seen = {} /\ quiet = FALSE

SourceChanged ==
    /\ stage' = "SOURCE_CHANGED" /\ reading' = <<"none", "none">>
    /\ UNCHANGED <<inventory, listed, copied>>

(***************************************************************************)
(* The reader.                                                             *)
(***************************************************************************)
\* ReadDir, then Lstat of every name it returned.
ListDirectory ==
    /\ stage = "start" /\ stage' = "inventory" /\ listed' = Present(bytes)
    /\ UNCHANGED <<inventory, copied, reading, source>>

InventoryOne(f) ==
    /\ stage = "inventory" /\ f \in listed /\ UNCHANGED source
    /\ \/ bytes[f] = Absent /\ SourceChanged
       \/ /\ bytes[f] # Absent
          /\ inventory' = [inventory EXCEPT ![f] = meta[f]] /\ listed' = listed \ {f}
          /\ UNCHANGED <<stage, copied, reading>>

\* An inventory without a file to copy is SOURCE_INCOMPLETE.
InventoryDone ==
    /\ stage = "inventory" /\ listed = {}
    /\ stage' = IF \E f \in Included : inventory[f] # Absent THEN "copy" ELSE "SOURCE_INCOMPLETE"
    /\ seen' = {Payload(bytes)}
    /\ UNCHANGED <<bytes, meta, changes, quiet, inventory, listed, copied, reading>>

Same(f) == bytes[f] # Absent /\ meta[f] = inventory[f]
At(f, step) == reading' = <<f, step>> /\ UNCHANGED <<stage, inventory, listed>>
Left == {f \in Included : inventory[f] # Absent /\ copied[f] = Unread}

\* copyStableSnapshotFile: a stat before and after the copy, and a second
\* reading between two more.
CopyFirst(f) ==
    /\ stage = "copy" /\ reading[2] = "none" /\ f \in Left /\ UNCHANGED source
    /\ \/ Same(f) /\ copied' = [copied EXCEPT ![f] = <<bytes[f], 0>>] /\ At(f, "copySecond")
       \/ ~Same(f) /\ SourceChanged

CopySecond(f) ==
    /\ reading = <<f, "copySecond">> /\ UNCHANGED source
    /\ \/ Same(f) /\ copied' = [copied EXCEPT ![f][2] = bytes[f]] /\ At(f, "hashFirst")
       \/ ~Same(f) /\ SourceChanged

HashFirst(f) ==
    /\ reading = <<f, "hashFirst">> /\ UNCHANGED source
    /\ \/ Same(f) /\ bytes[f] = copied[f][1] /\ At(f, "hashSecond") /\ UNCHANGED copied
       \/ ~(Same(f) /\ bytes[f] = copied[f][1]) /\ SourceChanged

HashSecond(f) ==
    /\ reading = <<f, "hashSecond">> /\ UNCHANGED source
    /\ \/ Same(f) /\ bytes[f] = copied[f][2] /\ At("none", "none") /\ UNCHANGED copied
       \/ ~(Same(f) /\ bytes[f] = copied[f][2]) /\ SourceChanged

\* Mutant: only the names of the inventory are looked at again.
VerifyNamesOfInventory ==
    /\ stage = "copy" /\ reading[2] = "none" /\ Left = {} /\ UNCHANGED source
    /\ stage' = "verify" /\ listed' = Present(inventory)
    /\ UNCHANGED <<inventory, copied, reading>>

\* verifySnapshotDirectoriesUnchanged: the same names, then the same metadata,
\* excluded children included.
VerifyNames ==
    /\ stage = "copy" /\ reading[2] = "none" /\ Left = {} /\ UNCHANGED source
    /\ \/ /\ Present(bytes) = Present(inventory)
          /\ stage' = "verify" /\ listed' = Present(bytes)
          /\ UNCHANGED <<inventory, copied, reading>>
       \/ Present(bytes) # Present(inventory) /\ SourceChanged

VerifyOne(f) ==
    /\ stage = "verify" /\ f \in listed /\ UNCHANGED source
    /\ \/ /\ Same(f) /\ listed' = listed \ {f}
          /\ UNCHANGED <<stage, inventory, copied, reading>>
       \/ ~Same(f) /\ SourceChanged

VerifyDone ==
    /\ stage = "verify" /\ listed = {} /\ stage' = "VERIFIED"
    /\ UNCHANGED <<inventory, listed, copied, reading, source>>

(***************************************************************************)
(* Anything else on the machine.                                           *)
(***************************************************************************)
Record(b) == seen' = IF stage \in {"copy", "verify"} THEN seen \cup {Payload(b)} ELSE seen

Change(f, value, metadata) ==
    /\ changes < MaxChanges /\ changes' = changes + 1
    /\ bytes' = [bytes EXCEPT ![f] = value] /\ meta' = [meta EXCEPT ![f] = metadata]
    /\ Record(bytes')
    /\ UNCHANGED <<inventory, listed, copied, reading, stage>>

WriteFile(f) == Change(f, changes + 1, changes + 1) /\ UNCHANGED quiet
RemoveFile(f) == bytes[f] # Absent /\ Change(f, Absent, Absent) /\ UNCHANGED quiet
\* A write that keeps size and modification time: within the clock's
\* granularity, through a mapped view, or with the time set back.
WriteQuietly(f) == bytes[f] # Absent /\ Change(f, changes + 1, meta[f]) /\ quiet' = TRUE

SnapshotNext ==
    \/ ListDirectory \/ InventoryDone \/ VerifyNames \/ VerifyDone
    \/ \E f \in Files : InventoryOne(f) \/ VerifyOne(f) \/ WriteFile(f) \/ RemoveFile(f) \/ WriteQuietly(f)
    \/ \E f \in Included : CopyFirst(f) \/ CopySecond(f) \/ HashFirst(f) \/ HashSecond(f)

SnapshotSpec == SnapshotInit /\ [][SnapshotNext]_snapshotVars
-----------------------------------------------------------------------------
(***************************************************************************)
(* Properties.                                                             *)
(***************************************************************************)
\* A snapshot that verifies is the source as it was at one moment, although it
\* was read file by file without a lock; a write that shows in no metadata may
\* mix moments, but even then no file is a mixture of two of its own contents.
SnapshotConsistent ==
    stage = "VERIFIED" =>
        /\ \A f \in Included : copied[f][1] = copied[f][2]
        /\ quiet \/ [f \in Included |-> copied[f][1]] \in seen
=============================================================================
