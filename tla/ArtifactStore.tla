---------------------------- MODULE ArtifactStore ----------------------------
(***************************************************************************)
(* The artifact receiver's store: a frame's bytes go to a temporary file,  *)
(* that file is linked under its digest into blobs/, and a record naming   *)
(* the digest is appended to manifest.jsonl before the frame is answered.  *)
(* Any system call may fail, the process may die between any two of them,  *)
(* and the machine may lose what it has not synchronised.                  *)
(*                                                                         *)
(* What was changed since its last fsync may come back from a power loss   *)
(* in any state it has had since, each entry on its own: the maybe_        *)
(* variables.  A torn record is one byte long and a whole one is longer.   *)
(* The guard keeps a second receiver out, so nothing else writes here.     *)
(***************************************************************************)
EXTENDS Integers, Sequences, FiniteSetsExt, Functions

CONSTANTS
    Ids,                        \* artifact identifiers of frames with a valid header
    Digest,                     \* the digest of each frame's content
    Size,                       \* the content size behind each digest
    RecordBytes,                \* the length of each artifact's manifest record
    Sensitive,                  \* artifacts whose content is not to be captured
    MaxArtifact, MaxStore, MaxArtifacts, MaxManifest,   \* ArtifactReceiverLimits
    MaxFrames,                  \* bound: frames received
    MaxFailures,                \* bound: system calls that fail
    MaxCrashes                  \* bound: deaths of the process, losses of power

Digests == Range(Digest)

ASSUME ContentAssumption ==
    /\ IsFiniteSet(Ids) /\ Ids \subseteq Nat \ {0}     \* identifiers have 64 bits
    /\ Digest \in [Ids -> Digests] /\ Size \in [Digests -> Nat]
    /\ Sensitive \subseteq Ids /\ RecordBytes \in [Ids -> Nat \ {0, 1}]
ASSUME LimitsAssumption ==
    /\ MaxArtifact \in Nat \ {0} /\ MaxStore \in Nat /\ MaxArtifact <= MaxStore
    /\ MaxArtifacts \in Nat \ {0} /\ MaxManifest \in Nat \ {0}
ASSUME BoundsAssumption == MaxFrames \in Nat /\ MaxFailures \in Nat /\ MaxCrashes \in Nat

VARIABLES
    part, blobs, manifest,                      \* the files: temporary, blobs/, manifest.jsonl
    maybe_part, maybe_blob, maybe_manifest,     \* what a power loss may leave of them
    phase, frame, status, blob_created,         \* ReceiveOne: place and locals
    stored_bytes, manifest_bytes, artifact_ids, store_state,   \* ArtifactReceiver's members
    refusal,                                    \* why the last construction threw
    acked,                                      \* history: artifacts answered "accepted"
    unretired,                                  \* history: a blob could not be removed
    frames, failures, crashes, power_lost       \* history: counts of what is bounded

fileVars == <<part, blobs, manifest>>
lossVars == <<maybe_part, maybe_blob, maybe_manifest>>
memberVars == <<stored_bytes, manifest_bytes, artifact_ids, store_state>>
boundVars == <<frames, failures, crashes, power_lost>>
vars == <<fileVars, lossVars, phase, frame, status, blob_created, memberVars, refusal, acked,
          unretired, boundVars>>

NoFrame == 0         \* no header has the identifier 0
PartStates == {"none", "partial", "whole", "flushed", "linked"}
BlobStates == {"none", "whole", "flushed", "torn"}

Present == {d \in Digests : blobs[d] # "none"}
BlobBytes == MapThenSumSet(LAMBDA d : Size[d], Present)
\* The manifest's whole records, each with the offset at which it ends, and a torn last one.
Line == [id : Ids, end : Nat]
End(lines) == IF lines = <<>> THEN 0 ELSE lines[Len(lines)].end
Record(lines, i) == [id |-> i, end |-> End(lines) + RecordBytes[i]]
ManifestBytes(m) == End(m.lines) + (IF m.tail THEN 1 ELSE 0)
Recorded(m) == {m.lines[k].id : k \in DOMAIN m.lines}
Once(lines) == \A j, k \in DOMAIN lines : lines[j].id = lines[k].id => j = k

\* A blob that is still under its temporary name too has two links.
Linked(d) == blobs[d] # "none" /\ \E i \in Ids : part[i] = "linked" /\ Digest[i] = d

Empty == [lines |-> <<>>, tail |-> FALSE]

Init ==
    /\ part = [i \in Ids |-> "none"] /\ maybe_part = [i \in Ids |-> {"none"}]
    /\ blobs = [d \in Digests |-> "none"] /\ maybe_blob = [d \in Digests |-> {"none"}]
    /\ manifest = Empty /\ maybe_manifest = {Empty}
    /\ phase = "down" /\ frame = NoFrame /\ status = "none" /\ blob_created = FALSE
    /\ stored_bytes = 0 /\ manifest_bytes = 0 /\ artifact_ids = {} /\ store_state = "consistent"
    /\ refusal = "none" /\ acked = {} /\ unretired = FALSE
    /\ frames = 0 /\ failures = 0 /\ crashes = 0 /\ power_lost = FALSE

----------------------------------------------------------------------------
(* System calls *)

SetPart(i, state) ==
    /\ part' = [part EXCEPT ![i] = state]
    /\ maybe_part' = [maybe_part EXCEPT ![i] = @ \cup {state}]
SetBlob(d, state) ==
    /\ blobs' = [blobs EXCEPT ![d] = state]
    /\ maybe_blob' = [maybe_blob EXCEPT ![d] = @ \cup {state}]
SetManifest(m) == manifest' = m /\ maybe_manifest' = maybe_manifest \cup {m}

Fails == failures < MaxFailures /\ failures' = failures + 1
Works == UNCHANGED failures

Goto(place) == phase' = place /\ UNCHANGED status
Refuse(place, answer) == phase' = place /\ status' = answer

----------------------------------------------------------------------------
(* ArtifactReceiver(): the store is inspected, and a torn record cut off *)

\* What is left of a manifest whose last record has no newline.
Complete(m) == [lines |-> m.lines, tail |-> FALSE]

WhyRefused ==
    IF \E d \in Digests : Linked(d) THEN "linked"
    ELSE IF BlobBytes > MaxStore THEN "blobs"
    ELSE IF ManifestBytes(manifest) > MaxManifest THEN "manifest"
    ELSE IF ~ Once(manifest.lines) \/ Len(manifest.lines) > MaxArtifacts THEN "records"
    ELSE "none"

Open ==
    /\ phase = "down" /\ WhyRefused = "none" /\ Works
    /\ manifest' = Complete(manifest)
    /\ maybe_manifest' = IF manifest.tail THEN {manifest'} ELSE maybe_manifest
    /\ stored_bytes' = BlobBytes /\ manifest_bytes' = ManifestBytes(manifest')
    /\ artifact_ids' = Recorded(manifest) /\ store_state' = "consistent"
    /\ refusal' = "none" /\ Goto("idle")
    /\ UNCHANGED <<part, blobs, maybe_part, maybe_blob, frame, blob_created, acked, unretired,
                   frames, crashes, power_lost>>

\* The constructor throws, and the process exits: for what it finds, or for a failed call.
\* By then the torn record may have been cut off, and that cut not synchronised.
OpenThrows ==
    /\ phase = "down"
    /\ refusal' = IF WhyRefused = "none" THEN "io" ELSE WhyRefused
    /\ IF WhyRefused = "none" THEN Fails ELSE Works
    /\ \/ UNCHANGED <<manifest, maybe_manifest>>
       \/ WhyRefused \in {"none", "records"} /\ SetManifest(Complete(manifest))
    /\ UNCHANGED <<part, blobs, maybe_part, maybe_blob, phase, frame, status, blob_created,
                   memberVars, acked, unretired, frames, crashes, power_lost>>

----------------------------------------------------------------------------
(* ReceiveOne *)

\* The header's checks, in their order; "none" admits the frame.
Refusal(i) ==
    IF store_state = "failed" THEN "io_error"
    ELSE IF \/ Cardinality(artifact_ids) >= MaxArtifacts
            \/ Size[Digest[i]] > MaxArtifact \/ Size[Digest[i]] > MaxStore - stored_bytes THEN "too_large"
    ELSE IF i \in Sensitive THEN "sensitive_capture_disabled"
    ELSE IF i \in artifact_ids THEN "conflict" ELSE "none"

\* A refused frame is read to its end and answered; its bytes go nowhere.  So is one whose URL
\* or MIME type is not valid text, or cut short.
Header ==
    /\ phase = "idle" /\ frames < MaxFrames
    /\ \E i \in Ids :
          /\ frame' = i
          /\ status' \in IF Refusal(i) = "none" THEN {"none", "invalid"} ELSE {Refusal(i)}
          /\ phase' = IF status' = "none" THEN "create" ELSE "answer"
    /\ frames' = frames + 1
    /\ UNCHANGED <<fileVars, lossVars, blob_created, memberVars, refusal, acked, unretired,
                   failures, crashes, power_lost>>

\* O_EXCL: a temporary file left by an earlier run is not written over.
CreateTemporary ==
    /\ phase = "create"
    /\ \/ part[frame] = "none" /\ SetPart(frame, "partial") /\ Goto("content") /\ Works
       \/ /\ Refuse("answer", "io_error") /\ UNCHANGED <<part, maybe_part>>
          /\ IF part[frame] = "none" THEN Fails ELSE Works
    /\ UNCHANGED <<blobs, manifest, maybe_blob, maybe_manifest, frame, blob_created, memberVars,
                   refusal, acked, unretired, frames, crashes, power_lost>>

\* The stream may end early and a write may fail.
ReadContent ==
    /\ phase = "content"
    /\ \/ SetPart(frame, "whole") /\ Goto("flush") /\ Works
       \/ Refuse("remove", "invalid") /\ Works /\ UNCHANGED <<part, maybe_part>>
       \/ Refuse("remove", "io_error") /\ Fails /\ UNCHANGED <<part, maybe_part>>
    /\ UNCHANGED <<blobs, manifest, maybe_blob, maybe_manifest, frame, blob_created, memberVars,
                   refusal, acked, unretired, frames, crashes, power_lost>>

\* Mutant: the content is not synchronised.
Bug_Flush_NotSynced ==
    /\ phase = "flush"
    /\ \/ UNCHANGED <<part, maybe_part>> /\ Goto("link") /\ Works
       \/ Refuse("remove", "io_error") /\ Fails /\ UNCHANGED <<part, maybe_part>>
    /\ UNCHANGED <<blobs, manifest, maybe_blob, maybe_manifest, frame, blob_created, memberVars,
                   refusal, acked, unretired, frames, crashes, power_lost>>

Flush ==
    /\ phase = "flush"
    /\ \/ SetPart(frame, "flushed") /\ Goto("link") /\ Works
       \/ Refuse("remove", "io_error") /\ Fails /\ UNCHANGED <<part, maybe_part>>
    /\ UNCHANGED <<blobs, manifest, maybe_blob, maybe_manifest, frame, blob_created, memberVars,
                   refusal, acked, unretired, frames, crashes, power_lost>>

RemoveTemporary ==
    /\ phase = "remove" /\ Goto("answer")
    /\ \/ SetPart(frame, "none") /\ Works
       \/ Fails /\ UNCHANGED <<part, maybe_part>>
    /\ UNCHANGED <<blobs, manifest, maybe_blob, maybe_manifest, frame, blob_created, memberVars,
                   refusal, acked, unretired, frames, crashes, power_lost>>

\* linkat makes the blob, unless one of that digest is there.
Link ==
    /\ phase = "link" /\ blobs[Digest[frame]] = "none" /\ Works
    /\ SetBlob(Digest[frame], part[frame]) /\ SetPart(frame, "linked")
    /\ blob_created' = TRUE /\ stored_bytes' = stored_bytes + Size[Digest[frame]]
    /\ Goto("unlink")
    /\ UNCHANGED <<manifest, maybe_manifest, frame, manifest_bytes, artifact_ids, store_state,
                   refusal, acked, unretired, frames, crashes, power_lost>>

\* The blob that is there is used, if it is safe: a blob with two links is not.
LinkExisting ==
    /\ phase = "link" /\ blobs[Digest[frame]] # "none" /\ Works
    /\ IF Linked(Digest[frame]) THEN Refuse("remove", "io_error") ELSE Goto("unlink")
    /\ UNCHANGED <<fileVars, lossVars, frame, blob_created, memberVars, refusal, acked, unretired,
                   frames, crashes, power_lost>>

\* The content has not the digest the header names, or linkat or the open of a blob fails.
LinkFails ==
    /\ phase = "link"
    /\ \/ Refuse("remove", "invalid") /\ Works
       \/ Refuse("remove", "io_error") /\ Fails
    /\ UNCHANGED <<fileVars, lossVars, frame, blob_created, memberVars, refusal, acked, unretired,
                   frames, crashes, power_lost>>

Unlink ==
    /\ phase = "unlink"
    /\ \/ SetPart(frame, "none") /\ Goto("sync") /\ Works
       \/ Refuse("retire", "io_error") /\ Fails /\ UNCHANGED <<part, maybe_part>>
    /\ UNCHANGED <<blobs, manifest, maybe_blob, maybe_manifest, frame, blob_created, memberVars,
                   refusal, acked, unretired, frames, crashes, power_lost>>

SyncDirectories ==
    /\ phase = "sync"
    /\ \/ /\ maybe_part' = [i \in Ids |-> {part[i]}] /\ maybe_blob' = [d \in Digests |-> {blobs[d]}]
          /\ Goto("manifest") /\ Works
       \/ Refuse("retire", "io_error") /\ Fails /\ UNCHANGED <<maybe_part, maybe_blob>>
    /\ UNCHANGED <<fileVars, maybe_manifest, frame, blob_created, memberVars, refusal, acked,
                   unretired, frames, crashes, power_lost>>

OpenManifest ==
    LET admitted == RecordBytes[frame] <= MaxManifest - manifest_bytes IN
    /\ phase = "manifest"
    /\ \/ ~ admitted /\ Refuse("retire", "too_large") /\ Works
       \/ admitted /\ Goto("append") /\ Works
       \/ admitted /\ Refuse("retire", "io_error") /\ Fails
    /\ UNCHANGED <<fileVars, lossVars, frame, blob_created, memberVars, refusal, acked, unretired,
                   frames, crashes, power_lost>>

\* A failed write leaves any part of the record behind.
AppendRecord ==
    LET torn == [lines |-> manifest.lines, tail |-> TRUE]
        whole == [lines |-> Append(manifest.lines, Record(manifest.lines, frame)), tail |-> FALSE] IN
    /\ phase = "append"
    /\ \/ manifest' = whole /\ Goto("fsync") /\ Works
       \/ manifest' \in {manifest, torn, whole} /\ Goto("restore") /\ Fails
    /\ maybe_manifest' = maybe_manifest \cup {torn, whole}
    /\ UNCHANGED <<part, blobs, maybe_part, maybe_blob, frame, blob_created, memberVars, refusal,
                   acked, unretired, frames, crashes, power_lost>>

\* Mutant: the accepted artifact is not remembered.
Bug_SyncManifest_ForgetsArtifact ==
    /\ phase = "fsync"
    /\ \/ /\ Works /\ maybe_manifest' = {manifest} /\ Refuse("answer", "accepted")
          /\ manifest_bytes' = manifest_bytes + RecordBytes[frame]
          /\ UNCHANGED artifact_ids
       \/ /\ Fails /\ Goto("restore")
          /\ UNCHANGED <<maybe_manifest, manifest_bytes, artifact_ids>>
    /\ UNCHANGED <<fileVars, maybe_part, maybe_blob, frame, blob_created, stored_bytes,
                   store_state, refusal, acked, unretired, frames, crashes, power_lost>>

SyncManifest ==
    /\ phase = "fsync"
    /\ \/ /\ Works /\ maybe_manifest' = {manifest} /\ Refuse("answer", "accepted")
          /\ manifest_bytes' = manifest_bytes + RecordBytes[frame]
          /\ artifact_ids' = artifact_ids \cup {frame}
       \/ /\ Fails /\ Goto("restore")
          /\ UNCHANGED <<maybe_manifest, manifest_bytes, artifact_ids>>
    /\ UNCHANGED <<fileVars, maybe_part, maybe_blob, frame, blob_created, stored_bytes,
                   store_state, refusal, acked, unretired, frames, crashes, power_lost>>

\* The manifest is cut back to what was acknowledged; only then may the blob go.
Restore ==
    LET kept == CHOOSE k \in 0 .. Len(manifest.lines) : \A j \in DOMAIN manifest.lines :
                    manifest.lines[j].end <= manifest_bytes <=> j <= k
        cut == [lines |-> SubSeq(manifest.lines, 1, kept), tail |-> FALSE] IN
    /\ phase = "restore" /\ status' = "io_error"
    /\ \/ /\ Works /\ manifest' = cut /\ maybe_manifest' = {cut}
          /\ phase' = "retire" /\ UNCHANGED store_state
       \/ /\ Fails /\ phase' = "answer" /\ store_state' = "failed"
          /\ SetManifest(cut) \/ UNCHANGED <<manifest, maybe_manifest>>
    /\ UNCHANGED <<part, blobs, maybe_part, maybe_blob, frame, blob_created, stored_bytes,
                   manifest_bytes, artifact_ids, refusal, acked, unretired, frames, crashes,
                   power_lost>>

\* Mutant: a retired blob stays counted.
Bug_Retire_StaysCounted ==
    LET d == Digest[frame] IN
    /\ phase = "retire" /\ Goto("answer")
    /\ \/ ~ blob_created /\ Works /\ UNCHANGED <<fileVars, lossVars, stored_bytes, unretired>>
       \/ /\ blob_created /\ blobs' = [blobs EXCEPT ![d] = "none"]
          /\ \/ Works /\ maybe_blob' = [e \in Digests |-> {blobs'[e]}]
             \/ Fails /\ maybe_blob' = [maybe_blob EXCEPT ![d] = @ \cup {"none"}]
          /\ UNCHANGED stored_bytes
          /\ IF part[frame] = "linked" THEN SetPart(frame, "flushed")
                                      ELSE UNCHANGED <<part, maybe_part>>
          /\ UNCHANGED <<manifest, maybe_manifest, unretired>>
       \/ /\ blob_created /\ Fails /\ unretired' = TRUE
          /\ UNCHANGED <<fileVars, lossVars, stored_bytes>>
    /\ UNCHANGED <<frame, blob_created, manifest_bytes, artifact_ids, store_state, refusal, acked,
                   frames, crashes, power_lost>>

\* retire_blob: a blob this frame made is removed, or stays counted.  That the directory is then
\* synchronised is tried, and not required.
Retire ==
    LET d == Digest[frame] IN
    /\ phase = "retire" /\ Goto("answer")
    /\ \/ ~ blob_created /\ Works /\ UNCHANGED <<fileVars, lossVars, stored_bytes, unretired>>
       \/ /\ blob_created /\ blobs' = [blobs EXCEPT ![d] = "none"]
          /\ \/ Works /\ maybe_blob' = [e \in Digests |-> {blobs'[e]}]
             \/ Fails /\ maybe_blob' = [maybe_blob EXCEPT ![d] = @ \cup {"none"}]
          /\ stored_bytes' = stored_bytes - Size[d]
          /\ IF part[frame] = "linked" THEN SetPart(frame, "flushed")
                                      ELSE UNCHANGED <<part, maybe_part>>
          /\ UNCHANGED <<manifest, maybe_manifest, unretired>>
       \/ /\ blob_created /\ Fails /\ unretired' = TRUE
          /\ UNCHANGED <<fileVars, lossVars, stored_bytes>>
    /\ UNCHANGED <<frame, blob_created, manifest_bytes, artifact_ids, store_state, refusal, acked,
                   frames, crashes, power_lost>>

\* The status is sent; whether the sender reads it changes nothing here.
Answer ==
    /\ phase = "answer"
    /\ acked' = IF status = "accepted" THEN acked \cup {frame} ELSE acked
    /\ phase' = "idle" /\ frame' = NoFrame /\ status' = "none" /\ blob_created' = FALSE
    /\ UNCHANGED <<fileVars, lossVars, memberVars, refusal, unretired, boundVars>>

----------------------------------------------------------------------------
(* What the process survives *)

Forget ==
    /\ crashes < MaxCrashes /\ crashes' = crashes + 1
    /\ phase' = "down" /\ frame' = NoFrame /\ status' = "none" /\ blob_created' = FALSE
    /\ stored_bytes' = 0 /\ manifest_bytes' = 0 /\ artifact_ids' = {}
    /\ store_state' = "consistent"
    /\ UNCHANGED <<refusal, acked, unretired, frames, failures>>

\* The process dies or is stopped; the files stay as they are.
Crash == phase # "down" /\ Forget /\ UNCHANGED <<fileVars, lossVars, power_lost>>

\* The machine stops.  Data that was never synchronised may be lost under its name, and a
\* temporary file that comes back along with its blob is a second link to it.
PowerLoss ==
    /\ Forget /\ power_lost' = TRUE
    /\ manifest' \in maybe_manifest
    /\ \E b \in [Digests -> BlobStates] :
          /\ \A d \in Digests : b[d] \in maybe_blob[d]
          /\ blobs' = [d \in Digests |-> IF b[d] = "whole" THEN "torn" ELSE b[d]]
    /\ \E p \in [Ids -> PartStates] :
          /\ \A i \in Ids : p[i] \in maybe_part[i]
          /\ part' = [i \in Ids |->
                        IF p[i] = "none" THEN "none"
                        ELSE IF "linked" \in maybe_part[i] /\ blobs'[Digest[i]] # "none"
                             THEN "linked" ELSE "partial"]
    /\ maybe_manifest' = {manifest'}
    /\ maybe_part' = [i \in Ids |-> {part'[i]}] /\ maybe_blob' = [d \in Digests |-> {blobs'[d]}]

Next ==
    \/ Open \/ OpenThrows
    \/ Header \/ CreateTemporary \/ ReadContent \/ Flush \/ RemoveTemporary
    \/ Link \/ LinkExisting \/ LinkFails \/ Unlink \/ SyncDirectories
    \/ OpenManifest \/ AppendRecord \/ SyncManifest \/ Restore \/ Retire \/ Answer
    \/ Crash \/ PowerLoss

Spec == Init /\ [][Next]_vars

----------------------------------------------------------------------------
(* Properties *)

Phases == {"down", "idle", "create", "content", "flush", "link", "unlink", "sync", "manifest",
           "append", "fsync", "restore", "retire", "remove", "answer"}
Statuses == {"none", "accepted", "io_error", "invalid", "too_large", "conflict",
             "sensitive_capture_disabled"}

\* The type invariant: every variable ranges over the values the code gives it, and the limits
\* on artifacts, stored bytes and manifest bytes hold of the members at every step.
TypeOK ==
    /\ part \in [Ids -> PartStates] /\ blobs \in [Digests -> BlobStates]
    /\ manifest.lines \in Seq(Line) /\ manifest.tail \in BOOLEAN
    /\ maybe_part \in [Ids -> (SUBSET PartStates) \ {{}}]
    /\ maybe_blob \in [Digests -> (SUBSET BlobStates) \ {{}}] /\ maybe_manifest # {}
    /\ phase \in Phases /\ frame \in Ids \cup {NoFrame} /\ status \in Statuses
    /\ blob_created \in BOOLEAN /\ stored_bytes \in 0 .. MaxStore
    /\ manifest_bytes \in 0 .. MaxManifest
    /\ artifact_ids \subseteq Ids /\ Cardinality(artifact_ids) <= MaxArtifacts
    /\ store_state \in {"consistent", "failed"}
    /\ refusal \in {"none", "io", "linked", "blobs", "manifest", "records"}
    /\ acked \subseteq Ids /\ unretired \in BOOLEAN /\ power_lost \in BOOLEAN
    /\ frames \in 0 .. MaxFrames /\ failures \in 0 .. MaxFailures /\ crashes \in 0 .. MaxCrashes

\* Every artifact answered "accepted" keeps its manifest record, and every record keeps the
\* complete content it names, after any failed call, roll-back, crash or loss of power: the order
\* of fsync, link, append, truncate and unlink in ReceiveOne.
EvidenceKept ==
    /\ acked \subseteq Recorded(manifest)
    /\ \A i \in Recorded(manifest) : blobs[Digest[i]] \in {"whole", "flushed"}

\* Between frames the receiver's accounting is that of the files on disk, as the receiver's
\* README promises; and as long as no failed call, crash or loss of power is in the way, every
\* blob on disk is named by a record.
RecordsExact ==
    phase = "idle" /\ store_state = "consistent" =>
        /\ manifest_bytes = ManifestBytes(manifest) /\ ~ manifest.tail
        /\ artifact_ids = Recorded(manifest)
BlobsNamed ==
    phase = "idle" /\ store_state = "consistent" /\ crashes = 0 /\ ~ unretired =>
        Present = {Digest[i] : i \in Recorded(manifest)}
AccountingExact ==
    /\ phase = "idle" => stored_bytes = BlobBytes
    /\ RecordsExact /\ BlobsNamed

\* The receiver's account of itself is well typed and, at rest, that of the files.
Consistent == TypeOK /\ AccountingExact

\* Whatever failed and wherever the process died, the store it leaves is one it opens again, but
\* for a blob that still has its temporary name: there is no record twice, and never more bytes
\* or records than the limits admit.  A loss of power may bring a blob back that was retired and
\* whose room was given to another, and then the store is refused; its records never are.
RecordsAdmitted == refusal \notin {"manifest", "records"}
BlobsAdmitted == refusal = "blobs" => power_lost
ReopensUnlessLinked == RecordsAdmitted /\ BlobsAdmitted
----------------------------------------------------------------------------
(* The inductive invariant the record and blob properties follow from, in named parts. *)

Durable(i) == maybe_blob[Digest[i]] = {"flushed"}
NewBlob == blob_created /\ phase \in {"unlink", "sync", "manifest", "append", "fsync",
                                       "restore", "retire"}

\* A manifest the receiver wrote: records in the order of their offsets, none twice, in the limits.
Filed(m) ==
    /\ m \in [lines : Seq(Line), tail : BOOLEAN]
    /\ \A j, k \in DOMAIN m.lines : j <= k => m.lines[j].end <= m.lines[k].end
    /\ Once(m.lines) /\ Len(m.lines) <= MaxArtifacts /\ ManifestBytes(m) <= MaxManifest

\* Whatever a loss of power leaves, every record of it has its content and every accepted
\* artifact its record.
FileInv ==
    /\ part \in [Ids -> PartStates] /\ maybe_blob \in [Digests -> SUBSET {"none", "flushed"}]
    /\ blobs \in [Digests -> BlobStates] /\ \A d \in Digests : blobs[d] \in maybe_blob[d]
    /\ manifest \in maybe_manifest
    /\ \A m \in maybe_manifest :
          Filed(m) /\ acked \subseteq Recorded(m) /\ \A i \in Recorded(m) : Durable(i)

\* The receiver knows the records before the one it is appending, and where they end.
RecordInv ==
    phase # "down" /\ store_state = "consistent" =>
        LET lines == manifest.lines
            n == Cardinality(artifact_ids) IN
        /\ IsFiniteSet(artifact_ids) /\ n \in 0 .. Len(lines)
        /\ artifact_ids = {lines[k].id : k \in 1 .. n} /\ acked \subseteq artifact_ids
        /\ manifest_bytes = (IF n = 0 THEN 0 ELSE lines[n].end)
        /\ phase \notin {"fsync", "restore"} => n = Len(lines)
        /\ phase # "restore" => ~ manifest.tail
        /\ phase = "fsync" => n + 1 = Len(lines)
        /\ n < Len(lines) =>
              n + 1 = Len(lines)
              /\ lines[n + 1] = [id |-> frame, end |-> manifest_bytes + RecordBytes[frame]]

\* What has been done for the frame at each place of ReceiveOne.
FrameInv ==
    /\ phase \in Phases /\ (phase \notin {"down", "idle"} => frame \in Ids)
    /\ store_state \in {"consistent", "failed"}
    /\ phase \notin {"idle", "answer"} => store_state = "consistent"
    /\ phase \notin {"down", "idle", "answer"} =>
          frame \notin artifact_ids /\ Cardinality(artifact_ids) < MaxArtifacts
    /\ phase = "link" => part[frame] = "flushed"
    /\ phase \in {"down", "idle", "create", "content", "flush", "link"} => ~ blob_created
    /\ phase \in {"unlink", "sync", "manifest", "append", "fsync"} =>
          blobs[Digest[frame]] = "flushed"
    /\ phase \in {"manifest", "append"} => Durable(frame)
    /\ phase = "append" => RecordBytes[frame] <= MaxManifest - manifest_bytes
    /\ NewBlob => \A i \in artifact_ids : Digest[i] # Digest[frame]
    /\ NewBlob /\ phase \notin {"fsync", "restore"} =>
          \A m \in maybe_manifest : \A i \in Recorded(m) : Digest[i] # Digest[frame]
    /\ phase # "answer" => status # "accepted"
    /\ status = "accepted" =>
          /\ store_state = "consistent" => frame \in artifact_ids
          /\ \A m \in maybe_manifest : frame \in Recorded(m)

\* Before anything was left behind, the blobs are those of the records and of the frame at hand.
BlobInv ==
    /\ crashes \in Nat
    /\ crashes = 0 /\ ~ unretired /\ store_state = "consistent" =>
          IF phase = "down" THEN Present = {} /\ manifest.lines = <<>>
          ELSE Present = {Digest[i] : i \in artifact_ids}
                         \cup (IF NewBlob THEN {Digest[frame]} ELSE {})

\* The bytes the receiver counts are those of the blobs on disk, whatever it is doing to them; a
\* frame it has admitted fits beside them; and only a loss of power brings back too many.
AccountInv ==
    /\ stored_bytes = (IF phase = "down" THEN 0 ELSE BlobBytes)
    /\ phase \in {"create", "content", "flush", "link"} =>
          Size[Digest[frame]] <= MaxStore - stored_bytes
    /\ NewBlob => blobs[Digest[frame]] # "none"
    /\ power_lost \/ BlobBytes <= MaxStore

IInv ==
    TypeOK /\ FileInv /\ RecordInv /\ FrameInv /\ BlobInv /\ AccountInv /\ ReopensUnlessLinked
=============================================================================
