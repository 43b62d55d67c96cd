--------------------------- MODULE BackupArtifact ---------------------------
(***************************************************************************)
(* Reading one backup again.  decryptAndVerify (a look at an indexed       *)
(* artifact) authenticates every chunk of the ciphertext and then verifies *)
(* the container through the same decrypting reader;                       *)
(* DecryptToVerifiedFileWithX25519 (RestoreBackup) copies the plaintext    *)
(* into a private file, verifies that file and extracts from it.  The      *)
(* entries of the payload archive are verified one by one against sums of  *)
(* machine words.  What an entry claims is whatever the archive holds; it  *)
(* is met when the entry is read.  The ciphertext lies where the user put  *)
(* it, so it may change between any two reads.                             *)
(***************************************************************************)
EXTENDS Integers, Sequences

CONSTANTS Keys,        \* names under "data/" that safeMemberName allows, less a final "/"
          Above,       \* the names of the directories such a name lies in
          Fold,        \* the lower case of such a name, and of "data"
          Sizes,       \* the sizes an entry may claim and have
          MaxWord,     \* math.MaxUint64
          MaxMembers, MaxMember, MaxTotal, MaxRatio,  \* Limits
          MaxRecipients \* maxAgeRecipients

DataRoot == "data/"
Names == Keys \cup {DataRoot}
Places == {Fold[k] : k \in Keys}

\* Limits.valid: none is zero, and the hard limits are far below a machine word.
ASSUME ArtifactLimits ==
    /\ Keys \cap {DataRoot, "outside", "unsafe"} = {}
    /\ DOMAIN Fold = Names /\ Above \in [Keys -> SUBSET Keys]
    /\ MaxWord \in Nat /\ Sizes \subseteq 0..MaxWord
    /\ MaxMembers \in Nat \ {0} /\ MaxRatio \in Nat \ {0}
    /\ MaxMember \in 1..MaxWord /\ MaxTotal \in 1..MaxWord
    /\ MaxRecipients \in Nat \ {0}

Entries == [key : Names \cup {"outside", "unsafe"}, kind : {"file", "dir", "other"},
            size : Sizes, packed : Sizes, real : Sizes]
Claims == [count : 1..MaxMembers, expanded : 0..MaxTotal]
Headers == [recipients : 0..(MaxRecipients + 1), stanza : {"expected", "other"}]

VARIABLES use,        \* "verify" or "restore"
          artStep, code,
          header,     \* the age header that lies on the disk
          frozen,     \* the header that was checked and that age parses
          damaged,    \* the ciphertext on the disk no longer authenticates
          members,    \* the entries verified so far
          manifest,   \* what the manifest says of them
          offered,    \* the size and the compressed size of an entry that was refused
          sums,       \* expanded and compressed, as uint64
          cause,      \* ghost: what ended the reading from outside: "cancel" or "failure"
          totals,     \* ghost: the expanded bytes up to each member, as numbers
          at, tree, written  \* the extraction: members done, what lies where, bytes

artifactVars == <<use, artStep, code, header, frozen, damaged, members, manifest,
                  offered, sums, totals, at, tree, written, cause>>
verified == <<members, manifest, offered, sums, totals>>
output == <<at, tree, written>>

NoHeader == [recipients |-> 0, stanza |-> "other"]
Total == IF totals = <<>> THEN 0 ELSE totals[Len(totals)]

ArtifactInit ==
    /\ use \in {"verify", "restore"} /\ artStep = "header" /\ code = "none" /\ cause = "none"
    /\ header \in Headers /\ frozen = NoHeader /\ damaged = FALSE
    /\ members = <<>> /\ totals = <<>>
    /\ manifest = [count |-> 0, expanded |-> 0] /\ offered = [size |-> 0, packed |-> 0]
    /\ sums = [expanded |-> 0, compressed |-> 0]
    /\ at = 0 /\ tree = [p \in Places |-> "none"] /\ written = 0

Reject(c) == artStep' = "refused" /\ code' = c
GoOn(s) == artStep' = s /\ UNCHANGED code

(***************************************************************************)
(* The ciphertext.                                                         *)
(***************************************************************************)
\* One recipient, of the stanza asked for.
HeaderFine(h) == h.recipients \in 1..MaxRecipients /\ h.stanza = "expected"
HeaderCode(h) ==
    IF h.stanza = "expected" /\ h.recipients > MaxRecipients THEN "limit" ELSE "decryption"

\* snapshotAgeHeader: what was checked is what every later read of it returns.
FreezeHeader ==
    /\ artStep = "header"
    /\ \/ HeaderFine(header) /\ GoOn("copy") /\ frozen' = header
       \/ ~HeaderFine(header) /\ Reject(HeaderCode(header)) /\ UNCHANGED frozen
    /\ UNCHANGED <<use, header, damaged, verified, output, cause>>

\* age authenticates the header and each chunk: scanAuthenticatedPlaintext, or
\* the copy into the private file.
ReadCiphertext ==
    /\ artStep = "copy"
    /\ IF damaged THEN Reject("decryption") ELSE GoOn("container")
    /\ UNCHANGED <<use, header, frozen, damaged, verified, output, cause>>

\* A look at an artifact reads the ciphertext again while it verifies.  A chunk
\* that does not authenticate any more is recorded, and then the context is asked.
ReadAgainFails ==
    /\ artStep \in {"container", "members"} /\ use = "verify" /\ damaged
    /\ \/ Reject("decryption") /\ UNCHANGED cause
       \/ Reject("cancelled") /\ cause' = "cancel"
    /\ UNCHANGED <<use, header, frozen, damaged, verified, output>>

\* The context is cancelled, or a read, a write or a sync fails.  Only some readers
\* ask which: to the others a cancelled call is a ciphertext that cannot be
\* decrypted (the copy of a restore) or a malformed archive (VerifyArtifact, whose
\* cancelled reads are not recorded).
Interrupt(why) ==
    /\ cause' = why
    /\ \/ /\ artStep = "header" \/ (artStep = "copy" /\ use = "verify")
          /\ Reject(IF why = "cancel" THEN "cancelled" ELSE "decryption")
       \/ artStep = "copy" /\ use = "restore" /\ Reject("decryption")
       \/ /\ artStep \in {"container", "members"}
          /\ Reject(IF use = "verify" /\ why = "failure" THEN "decryption" ELSE "invalid")
       \/ /\ artStep = "extract" /\ at < Len(members)
          /\ \/ why = "cancel" /\ Reject("cancelled")
             \/ (why = "failure" \/ at = 0) /\ Reject("invalid")
    /\ UNCHANGED <<use, header, frozen, damaged, verified, output>>

(***************************************************************************)
(* VerifyArtifact.                                                         *)
(***************************************************************************)
\* The container: at most the manifest, the stored payload and its directory.
\* The manifest is canonical, the payload has its size and its digest and
\* between one and MaxMembers entries.
OpenContainer ==
    /\ artStep = "container"
    /\ Reject("container") \/ GoOn("members")
    /\ UNCHANGED <<use, header, frozen, damaged, verified, output, cause>>

\* Mutant: the product may wrap around.
ExceedsRatioWrapping(expanded, compressed) ==
    /\ expanded # 0
    /\ compressed = 0 \/ expanded > (compressed * MaxRatio) % (MaxWord + 1)

ExceedsRatio(expanded, compressed) ==
    /\ expanded # 0
    /\ \/ compressed = 0
       \/ compressed <= MaxWord \div MaxRatio /\ expanded > (compressed * MaxRatio) % (MaxWord + 1)

\* Mutant: only the exact names are remembered.
NameCodeExact(m) ==
    IF m.key = "unsafe" THEN "path"
    ELSE IF \E j \in DOMAIN members : members[j].key = m.key THEN "duplicate"
    ELSE IF m.kind = "other" \/ (m.kind = "dir" /\ (m.size # 0 \/ m.packed # 0)) THEN "type"
    ELSE IF m.key = "outside" THEN "root"
    ELSE IF m.key = DataRoot /\ m.kind # "dir" THEN "type" ELSE "none"

\* validateMember and the root, in the order of the code.
NameCode(m) ==
    IF m.key = "unsafe" THEN "path"
    ELSE IF \E j \in DOMAIN members : members[j].key = m.key THEN "duplicate"
    ELSE IF m.key \in Names /\ \E j \in DOMAIN members : Fold[members[j].key] = Fold[m.key] THEN "collision"
    ELSE IF m.kind = "other" \/ (m.kind = "dir" /\ (m.size # 0 \/ m.packed # 0)) THEN "type"
    ELSE IF m.key = "outside" THEN "root"
    ELSE IF m.key = DataRoot /\ m.kind # "dir" THEN "type" ELSE "none"

\* addArchiveBounds.
BoundsCode(m) ==
    IF m.size > MaxMember THEN "memberSize"
    ELSE IF m.size > MaxWord - sums.expanded \/ sums.expanded + m.size > MaxTotal THEN "totalSize"
    ELSE IF m.packed > MaxWord - sums.compressed THEN "invalid"
    ELSE IF ExceedsRatio(m.size, m.packed) THEN "ratio" ELSE "none"

\* consumeMember: it reads one byte more than the limit.
BytesRead(m) == IF m.real <= MaxMember THEN m.real ELSE MaxMember + 1
DataCode(m) == IF m.kind = "file" /\ BytesRead(m) # m.size THEN "invalid" ELSE "none"

MemberCode(m) ==
    IF NameCode(m) # "none" \/ m.key = DataRoot THEN NameCode(m)
    ELSE IF BoundsCode(m) # "none" THEN BoundsCode(m) ELSE DataCode(m)

\* The entry "data/" itself is not counted: it is an empty directory.
NextMember(m) ==
    /\ artStep = "members" /\ Len(members) < MaxMembers
    /\ IF MemberCode(m) = "none"
       THEN /\ members' = Append(members, m) /\ totals' = Append(totals, Total + m.size)
            /\ sums' = [expanded |-> (sums.expanded + m.size) % (MaxWord + 1),
                        compressed |-> (sums.compressed + m.packed) % (MaxWord + 1)]
            /\ UNCHANGED <<artStep, code, offered>>
       ELSE /\ Reject(MemberCode(m)) /\ offered' = [size |-> m.size, packed |-> m.packed]
            /\ UNCHANGED <<members, totals, sums>>
    /\ UNCHANGED <<use, header, frozen, damaged, manifest, output, cause>>

EndCode(claimed) ==
    IF \A j \in DOMAIN members : members[j].kind # "file" THEN "missing"
    ELSE IF ExceedsRatio(sums.expanded, sums.compressed) THEN "sumsRatio"
    ELSE IF Len(members) # claimed.count THEN "count"
    ELSE IF sums.expanded # claimed.expanded THEN "expanded" ELSE "none"

\* The last entry; now the claims of the manifest are looked at.
EndMembers(claimed) ==
    /\ artStep = "members" /\ members # <<>>
    /\ manifest' = claimed
    /\ IF EndCode(claimed) # "none" THEN Reject(EndCode(claimed))
       ELSE GoOn(IF use = "verify" THEN "accepted" ELSE "extract")
    /\ UNCHANGED <<use, header, frozen, damaged, members, offered, sums, totals, output, cause>>

(***************************************************************************)
(* ExtractVerifiedRuntimeSnapshot, into an empty directory.  The private   *)
(* file is verified once more before: it is the same file.                 *)
(***************************************************************************)
\* os.Mkdir wants the directory above and nothing at its place; a file is made
\* with O_EXCL, after the directories above it.
Fits(m) ==
    /\ tree[Fold[m.key]] = "none"
    /\ \A a \in Above[m.key] : tree[Fold[a]] = "dir" \/ (m.kind = "file" /\ tree[Fold[a]] = "none")

Placed(m) ==
    [p \in Places |-> IF p = Fold[m.key] THEN m.kind
                      ELSE IF \E a \in Above[m.key] : p = Fold[a] THEN "dir" ELSE tree[p]]

\* What a failing call leaves goes away with the candidate directory.
ExtractMember ==
    /\ artStep = "extract" /\ at < Len(members)
    /\ LET m == members[at + 1] IN
       \/ /\ m.key = DataRoot /\ at' = at + 1
          /\ UNCHANGED <<artStep, code, tree, written>>
       \/ /\ m.key # DataRoot /\ Fits(m) /\ (m.kind = "file" => BytesRead(m) = m.size)
          /\ at' = at + 1 /\ tree' = Placed(m)
          /\ written' = written + (IF m.kind = "file" THEN BytesRead(m) ELSE 0)
          /\ UNCHANGED <<artStep, code>>
       \/ m.key # DataRoot /\ Reject("staging") /\ UNCHANGED output
    /\ UNCHANGED <<use, header, frozen, damaged, verified, cause>>

EndExtraction ==
    /\ artStep = "extract" /\ at = Len(members)
    /\ GoOn("extracted")
    /\ UNCHANGED <<use, header, frozen, damaged, verified, output, cause>>

\* The file at the destination is the user's.
ChangeCiphertext ==
    /\ \/ /\ artStep \in {"header", "copy"}
          /\ \E h \in Headers : h # header /\ header' = h
          /\ UNCHANGED damaged
       \/ /\ artStep \in {"header", "copy"} \/ (use = "verify" /\ artStep \in {"container", "members"})
          /\ ~damaged /\ damaged' = TRUE /\ UNCHANGED header
    /\ UNCHANGED <<use, artStep, code, frozen, verified, output, cause>>

ArtifactNext ==
    \/ FreezeHeader \/ ReadCiphertext \/ ReadAgainFails
    \/ \E why \in {"cancel", "failure"} : Interrupt(why)
    \/ OpenContainer \/ ExtractMember \/ EndExtraction
    \/ \E m \in Entries : NextMember(m)
    \/ \E claimed \in Claims : EndMembers(claimed)
    \/ ChangeCiphertext

ArtifactSpec == ArtifactInit /\ [][ArtifactNext]_artifactVars
-----------------------------------------------------------------------------
(***************************************************************************)
(* Properties.                                                             *)
(***************************************************************************)
\* As numbers, not as words.
TooDense(size, packed) == size > MaxRatio * packed

\* What is accepted may be extracted: on a file system that folds case no
\* entry lands on another; each has its claimed length, and neither one nor all
\* together are larger or denser than the limits allow; the manifest tells the
\* truth.
AcceptedTrue ==
    artStep \in {"accepted", "extract", "extracted"} =>
        /\ HeaderFine(frozen)
        /\ \A j, k \in DOMAIN members : j # k => Fold[members[j].key] # Fold[members[k].key]
        /\ \A j \in DOMAIN members :
              /\ members[j].size <= MaxMember /\ ~TooDense(members[j].size, members[j].packed)
              /\ members[j].kind = "file" => members[j].real = members[j].size
        /\ Total = manifest.expanded /\ Total <= MaxTotal
        /\ Len(members) = manifest.count

\* What was extracted is the members and the directories above them.
ExtractedTrue ==
    artStep = "extracted" =>
        /\ written = Total
        /\ \A j \in DOMAIN members : members[j].key # DataRoot => tree[Fold[members[j].key]] = members[j].kind
        /\ \A p \in Places : tree[p] # "none" =>
              \E j \in DOMAIN members : members[j].key # DataRoot /\
                 p \in {Fold[members[j].key]} \cup {Fold[a] : a \in Above[members[j].key]}

\* Why a ciphertext that was not changed may be said not to decrypt: its header is
\* not one of ours, a read failed, or the call that restores it was cancelled.
Undecryptable ==
    \/ damaged \/ ~HeaderFine(header)
    \/ cause = "failure" \/ (cause = "cancel" /\ use = "restore")

\* An archive within the limits is not refused for its size or its density, and a
\* backup that nobody changed for its ciphertext only by a failing disk or by a
\* cancelled restore, which does not ask for the reason.
RefusedTrue ==
    /\ code = "totalSize" => Total + offered.size > MaxTotal
    /\ code = "ratio" => TooDense(offered.size, offered.packed)
    /\ code = "decryption" => Undecryptable

\* Verification and extraction of a backup (verify.go, restore.go).
ArtifactTrue == AcceptedTrue /\ ExtractedTrue /\ RefusedTrue
=============================================================================
