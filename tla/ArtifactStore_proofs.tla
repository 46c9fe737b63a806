------------------------ MODULE ArtifactStore_proofs ------------------------
(***************************************************************************)
(* Theorems about the artifact receiver's store, for every set of frames,  *)
(* sizes and limits and any number of failed calls, deaths of the process  *)
(* and losses of power: an accepted artifact keeps its record and every    *)
(* record its content; the receiver's account of the manifest and of the   *)
(* bytes stored is what the disk holds; and no manifest it leaves is one   *)
(* it refuses to open.  The sum of the blobs' sizes is the library's fold: *)
(* what it is for every set follows from its own definition, by looking at *)
(* a smallest set for which it would not be so.                            *)
(***************************************************************************)
EXTENDS ArtifactStore, FiniteSetTheorems, SequenceTheorems, WellFoundedInduction, TLAPS

----------------------------------------------------------------------------
(* Records *)

LEMMA Constants ==
    /\ 0 \notin Ids /\ \A i \in Ids : i \in Nat
    /\ \A i \in Ids : Digest[i] \in Digests /\ RecordBytes[i] \in Nat /\ RecordBytes[i] >= 2
    /\ MaxManifest \in Nat /\ MaxArtifacts \in Nat /\ MaxArtifacts >= 1 /\ MaxManifest >= 1
<1>1. Ids \subseteq Nat \ {0} /\ Digest \in [Ids -> Digests] /\ RecordBytes \in [Ids -> Nat \ {0, 1}]
  BY ContentAssumption
<1>2. \A n \in Nat \ {0, 1} : n \in Nat /\ n >= 2
  OBVIOUS
<1>3. MaxManifest \in Nat /\ MaxArtifacts \in Nat /\ MaxArtifacts >= 1 /\ MaxManifest >= 1
  BY LimitsAssumption
<1> QED
  BY <1>1, <1>2, <1>3

\* What a sequence of records is, one record at a time.
LEMMA LineFacts ==
    ASSUME NEW lines \in Seq(Line)
    PROVE  /\ Len(lines) \in Nat /\ DOMAIN lines = 1 .. Len(lines)
           /\ \A k \in 1 .. Len(lines) : lines[k].id \in Ids /\ lines[k].end \in Nat
           /\ End(lines) \in Nat
           /\ End(lines) = IF Len(lines) = 0 THEN 0 ELSE lines[Len(lines)].end
<1>1. Len(lines) \in Nat /\ DOMAIN lines = 1 .. Len(lines)
  BY LenProperties
<1>2. \A k \in 1 .. Len(lines) : lines[k] \in Line
  BY ElementOfSeq
<1>3. \A k \in 1 .. Len(lines) : lines[k].id \in Ids /\ lines[k].end \in Nat
  BY <1>2 DEF Line
<1>4. lines = <<>> <=> Len(lines) = 0
  BY EmptySeq
<1>5. Len(lines) # 0 => Len(lines) \in 1 .. Len(lines)
  BY <1>1
<1> QED
  BY <1>1, <1>3, <1>4, <1>5 DEF End

LEMMA FiledFacts ==
    ASSUME NEW m, Filed(m)
    PROVE  /\ m.lines \in Seq(Line) /\ m.tail \in BOOLEAN
           /\ m = [lines |-> m.lines, tail |-> m.tail]
           /\ Recorded(m) = {m.lines[k].id : k \in 1 .. Len(m.lines)}
           /\ Recorded(m) \subseteq Ids
BY LineFacts DEF Filed, Recorded

\* A filed manifest has as many records as it names artifacts.
LEMMA RecordedCount ==
    ASSUME NEW m, Filed(m)
    PROVE  IsFiniteSet(Recorded(m)) /\ Cardinality(Recorded(m)) = Len(m.lines)
<1> DEFINE n == Len(m.lines)
           f == [k \in 1 .. n |-> m.lines[k].id]
<1>1. /\ n \in Nat /\ DOMAIN m.lines = 1 .. n
      /\ Recorded(m) = {m.lines[k].id : k \in 1 .. n}
  BY FiledFacts, LineFacts
<1>2. \A j, k \in 1 .. n : m.lines[j].id = m.lines[k].id => j = k
  BY <1>1 DEF Filed, Once
<1>3. f \in Injection(1 .. n, Recorded(m))
  <2>1. f \in [1 .. n -> Recorded(m)]
    BY <1>1
  <2>2. \A a, b \in DOMAIN f : f[a] = f[b] => a = b
    BY <1>2
  <2> QED
    BY <2>1, <2>2 DEF Injection, IsInjective
<1>4. f \in Surjection(1 .. n, Recorded(m))
  <2>1. f \in [1 .. n -> Recorded(m)]
    BY <1>1
  <2>2. \A t \in Recorded(m) : \E s \in 1 .. n : f[s] = t
    BY <1>1
  <2> QED
    BY <2>1, <2>2 DEF Surjection
<1>5. ExistsBijection(1 .. n, Recorded(m))
  BY <1>3, <1>4 DEF ExistsBijection, Bijection
<1> QED
  BY <1>1, <1>5, FS_NatBijection, FS_CountingElements

\* What the torn last record leaves out changes no whole record.
LEMMA FiledComplete ==
    ASSUME NEW m, Filed(m)
    PROVE  /\ Filed(Complete(m)) /\ Recorded(Complete(m)) = Recorded(m)
           /\ Complete(m).lines = m.lines /\ Complete(m).tail = FALSE
           /\ ManifestBytes(Complete(m)) = End(m.lines)
<1>1. Complete(m) = [lines |-> m.lines, tail |-> FALSE]
  BY DEF Complete
<1>2. Complete(m).lines = m.lines /\ Complete(m).tail = FALSE
  BY <1>1
<1>3. End(m.lines) \in Nat
  BY FiledFacts, LineFacts
<1>4. ManifestBytes(Complete(m)) = End(m.lines)
  BY <1>2, <1>3 DEF ManifestBytes
<1>5. End(m.lines) <= MaxManifest
  <2>1. End(m.lines) <= ManifestBytes(m)
    BY <1>3, FiledFacts DEF ManifestBytes
  <2>2. ManifestBytes(m) \in Nat
    BY <1>3 DEF ManifestBytes
  <2> QED
    BY <1>3, <2>1, <2>2, Constants DEF Filed
<1>6. Complete(m) \in [lines : Seq(Line), tail : BOOLEAN]
  BY <1>1, FiledFacts
<1> QED
  BY <1>2, <1>4, <1>5, <1>6 DEF Filed, Recorded

\* The next record is a record, and appending it records its artifact.
LEMMA NewRecord ==
    ASSUME NEW lines \in Seq(Line), NEW i \in Ids
    PROVE  /\ Record(lines, i) \in Line /\ Record(lines, i).id = i
           /\ Record(lines, i).end = End(lines) + RecordBytes[i]
<1>1. End(lines) \in Nat /\ RecordBytes[i] \in Nat
  BY LineFacts, Constants
<1> QED
  BY <1>1 DEF Record, Line

LEMMA AppendedRecord ==
    ASSUME NEW lines \in Seq(Line), NEW i \in Ids, NEW tail \in BOOLEAN, NEW tail2 \in BOOLEAN
    PROVE  Recorded([lines |-> Append(lines, Record(lines, i)), tail |-> tail])
              = Recorded([lines |-> lines, tail |-> tail2]) \cup {i}
<1> DEFINE n == Len(lines)
           longer == Append(lines, Record(lines, i))
<1>1. /\ longer \in Seq(Line) /\ Len(longer) = n + 1
      /\ \A k \in 1 .. n : longer[k] = lines[k]
      /\ longer[n + 1] = Record(lines, i)
  BY NewRecord, AppendProperties
<1>2. /\ Recorded([lines |-> longer, tail |-> tail]) = {longer[k].id : k \in 1 .. n + 1}
      /\ Recorded([lines |-> lines, tail |-> tail2]) = {lines[k].id : k \in 1 .. n}
      /\ n \in Nat
  BY <1>1, LineFacts DEF Recorded
<1> HIDE DEF longer
<1>3. longer[n + 1].id = i
  BY <1>1, NewRecord
<1>4. ASSUME NEW x PROVE x \in {longer[k].id : k \in 1 .. n + 1} <=>
                          x \in {lines[k].id : k \in 1 .. n} \/ x = i
  <2>1. ASSUME NEW k \in 1 .. n + 1, x = longer[k].id
        PROVE  x \in {lines[j].id : j \in 1 .. n} \/ x = i
    <3>1. k = n + 1 \/ k \in 1 .. n
      BY <1>2
    <3> QED
      BY <1>1, <1>3, <2>1, <3>1
  <2>2. ASSUME NEW k \in 1 .. n, x = lines[k].id PROVE x \in {longer[j].id : j \in 1 .. n + 1}
    <3>1. k \in 1 .. n + 1 /\ longer[k] = lines[k]
      BY <1>1, <1>2
    <3> QED
      BY <2>2, <3>1
  <2>3. ASSUME x = i PROVE x \in {longer[j].id : j \in 1 .. n + 1}
    <3>1. n + 1 \in 1 .. n + 1
      BY <1>2
    <3> QED
      BY <1>3, <2>3, <3>1
  <2> QED
    BY <2>1, <2>2, <2>3
<1> QED
  BY <1>2, <1>4 DEF longer

\* The next record goes behind the others, and room for it is room for a torn one.
LEMMA FiledAppend ==
    ASSUME NEW lines \in Seq(Line), NEW i \in Ids,
           Filed([lines |-> lines, tail |-> FALSE]), Len(lines) < MaxArtifacts,
           \A k \in 1 .. Len(lines) : lines[k].id # i,
           RecordBytes[i] <= MaxManifest - End(lines)
    PROVE  /\ Filed([lines |-> Append(lines, Record(lines, i)), tail |-> FALSE])
           /\ Filed([lines |-> lines, tail |-> TRUE])
<1> DEFINE n == Len(lines)
           rec == Record(lines, i)
           longer == Append(lines, rec)
           old == [lines |-> lines, tail |-> FALSE]
           whole == [lines |-> longer, tail |-> FALSE]
           torn == [lines |-> lines, tail |-> TRUE]
<1>1. /\ n \in Nat /\ DOMAIN lines = 1 .. n /\ End(lines) \in Nat
      /\ End(lines) = IF n = 0 THEN 0 ELSE lines[n].end
      /\ \A k \in 1 .. n : lines[k].id \in Ids /\ lines[k].end \in Nat
  BY LineFacts
<1>2. /\ \A j, k \in 1 .. n : j <= k => lines[j].end <= lines[k].end
      /\ \A j, k \in 1 .. n : lines[j].id = lines[k].id => j = k
  BY <1>1 DEF Filed, Once
<1>3. rec \in Line /\ rec.id = i /\ rec.end = End(lines) + RecordBytes[i]
  BY NewRecord
<1>4. /\ longer \in Seq(Line) /\ Len(longer) = n + 1
      /\ \A k \in 1 .. n : longer[k] = lines[k]
      /\ longer[n + 1] = rec
  BY <1>3, AppendProperties
<1>5. DOMAIN longer = 1 .. n + 1 /\ End(longer) = rec.end
  <2>1. DOMAIN longer = 1 .. n + 1
    BY <1>4, LineFacts
  <2>2. End(longer) = longer[n + 1].end
    <3>1. End(longer) = IF Len(longer) = 0 THEN 0 ELSE longer[Len(longer)].end
      BY <1>4, LineFacts
    <3>2. n + 1 # 0
      BY <1>1
    <3> QED
      BY <1>4, <3>1, <3>2
  <2> QED
    BY <1>4, <2>1, <2>2
<1> HIDE DEF longer, rec
<1>6. \A k \in 1 .. n : lines[k].end <= rec.end
  <2> SUFFICES ASSUME NEW k \in 1 .. n PROVE lines[k].end <= rec.end
    OBVIOUS
  <2>1. lines[k].end <= End(lines)
    BY <1>1, <1>2
  <2> QED
    BY <1>1, <1>3, <2>1, Constants
<1>7. \A j, k \in 1 .. n + 1 : j <= k => longer[j].end <= longer[k].end
  <2> SUFFICES ASSUME NEW j \in 1 .. n + 1, NEW k \in 1 .. n + 1, j <= k
               PROVE  longer[j].end <= longer[k].end
    OBVIOUS
  <2>1. CASE k = n + 1 /\ j = n + 1
    <3>1. rec.end \in Nat
      BY <1>1, <1>3, Constants
    <3> QED
      BY <1>4, <2>1, <3>1
  <2>2. CASE k = n + 1 /\ j # n + 1
    <3>1. j \in 1 .. n
      BY <1>1, <2>2
    <3> QED
      BY <1>4, <1>6, <2>2, <3>1
  <2>3. CASE k # n + 1
    <3>1. j \in 1 .. n /\ k \in 1 .. n
      BY <1>1, <2>3
    <3> QED
      BY <1>2, <1>4, <3>1
  <2> QED
    BY <2>1, <2>2, <2>3
<1>8. \A j, k \in 1 .. n + 1 : longer[j].id = longer[k].id => j = k
  <2>1. \A k \in 1 .. n + 1 : k = n + 1 \/ k \in 1 .. n
    BY <1>1
  <2>2. n + 1 \notin 1 .. n /\ \A k \in 1 .. n : longer[k].id # i
    BY <1>1, <1>4
  <2>3. longer[n + 1].id = i
    BY <1>3, <1>4
  <2> QED
    BY <1>2, <1>4, <2>1, <2>2, <2>3
<1>9. Filed(whole)
  <2>1. whole.lines = longer /\ whole.tail = FALSE /\ whole \in [lines : Seq(Line), tail : BOOLEAN]
    BY <1>4
  <2>2. ManifestBytes(whole) = rec.end + 0
    BY <1>5, <2>1 DEF ManifestBytes
  <2>3. ManifestBytes(whole) <= MaxManifest
    BY <1>1, <1>3, <2>2, Constants
  <2>4. Len(longer) <= MaxArtifacts
    BY <1>1, <1>4, Constants
  <2>5. Once(longer)
    BY <1>5, <1>8 DEF Once
  <2> QED
    BY <1>5, <1>7, <2>1, <2>3, <2>4, <2>5 DEF Filed
<1>10. Filed(torn)
  <2>1. torn.lines = lines /\ torn.tail = TRUE /\ torn \in [lines : Seq(Line), tail : BOOLEAN]
    OBVIOUS
  <2>2. ManifestBytes(torn) = End(lines) + 1
    BY <2>1 DEF ManifestBytes
  <2>3. ManifestBytes(torn) <= MaxManifest
    BY <1>1, <2>2, Constants
  <2>4. Len(lines) <= MaxArtifacts /\ Once(lines)
    BY DEF Filed
  <2> QED
    BY <1>1, <1>2, <2>1, <2>3, <2>4 DEF Filed
<1> QED
  BY <1>9, <1>10 DEF longer, rec

\* Cutting a manifest back to its first n records.
LEMMA FiledCut ==
    ASSUME NEW m, Filed(m), NEW n \in 0 .. Len(m.lines)
    PROVE  LET cut == [lines |-> SubSeq(m.lines, 1, n), tail |-> FALSE] IN
           /\ Filed(cut) /\ Len(cut.lines) = n
           /\ \A k \in 1 .. n : cut.lines[k] = m.lines[k]
<1> DEFINE s == SubSeq(m.lines, 1, n)
           cut == [lines |-> s, tail |-> FALSE]
<1>1. /\ m.lines \in Seq(Line) /\ Len(m.lines) \in Nat /\ DOMAIN m.lines = 1 .. Len(m.lines)
      /\ n \in Nat /\ n <= Len(m.lines)
  BY FiledFacts, LineFacts
<1>2. s \in Seq(Line) /\ Len(s) = n /\ \A k \in 1 .. n : s[k] = m.lines[k]
  <2>1. \A k \in 1 .. n : m.lines[k] \in Line
    <3>1. \A k \in 1 .. n : k \in 1 .. Len(m.lines)
      BY <1>1
    <3> QED
      BY <1>1, <3>1, ElementOfSeq
  <2>2. /\ s \in Seq(Line) /\ Len(s) = IF 1 <= n THEN n - 1 + 1 ELSE 0
        /\ \A k \in 1 .. n - 1 + 1 : s[k] = m.lines[1 + k - 1]
    BY <1>1, <2>1, SubSeqProperties
  <2>3. \A k \in 1 .. n : k \in 1 .. n - 1 + 1 /\ 1 + k - 1 = k
    BY <1>1
  <2> QED
    BY <1>1, <2>2, <2>3
<1> HIDE DEF s
<1>3. cut.lines = s /\ cut.tail = FALSE /\ cut \in [lines : Seq(Line), tail : BOOLEAN]
  BY <1>2
<1>4. DOMAIN s = 1 .. n /\ \A k \in 1 .. n : k \in DOMAIN m.lines
  BY <1>1, <1>2, LineFacts
<1>5. /\ \A j, k \in DOMAIN s : j <= k => s[j].end <= s[k].end
      /\ Once(s)
  BY <1>2, <1>4 DEF Filed, Once
<1>6. End(s) <= End(m.lines) /\ End(s) \in Nat /\ End(m.lines) \in Nat
  <2>1. End(s) = IF n = 0 THEN 0 ELSE s[n].end
    BY <1>2, LineFacts
  <2>2. /\ End(m.lines) = IF Len(m.lines) = 0 THEN 0 ELSE m.lines[Len(m.lines)].end
        /\ End(m.lines) \in Nat /\ End(s) \in Nat
    BY <1>1, <1>2, LineFacts
  <2>3. CASE n = 0
    BY <2>1, <2>2, <2>3
  <2>4. CASE n # 0
    <3>1. n \in DOMAIN m.lines /\ Len(m.lines) \in DOMAIN m.lines /\ n \in 1 .. n
      BY <1>1, <2>4
    <3>2. m.lines[n].end <= m.lines[Len(m.lines)].end
      BY <1>1, <3>1 DEF Filed
    <3> QED
      BY <1>1, <1>2, <2>1, <2>2, <2>4, <3>1, <3>2
  <2> QED
    BY <2>3, <2>4
<1>7. ManifestBytes(cut) <= MaxManifest
  <2>1. ManifestBytes(cut) = End(s)
    BY <1>3, <1>6 DEF ManifestBytes
  <2>2. End(m.lines) <= ManifestBytes(m) /\ ManifestBytes(m) \in Nat
    BY <1>6 DEF ManifestBytes
  <2> QED
    BY <1>6, <2>1, <2>2, Constants DEF Filed
<1>8. Len(s) <= MaxArtifacts
  <2>1. Len(m.lines) <= MaxArtifacts
    BY DEF Filed
  <2> QED
    BY <1>1, <1>2, <2>1, Constants
<1>9. Filed(cut)
  BY <1>3, <1>5, <1>7, <1>8 DEF Filed
<1> QED
  BY <1>2, <1>3, <1>9 DEF s

----------------------------------------------------------------------------
(* The files *)

LEMMA StoreInit ==
    Init => FileInv /\ RecordInv /\ FrameInv /\ BlobInv /\ ReopensUnlessLinked
<1> SUFFICES ASSUME Init
             PROVE  FileInv /\ RecordInv /\ FrameInv /\ BlobInv /\ ReopensUnlessLinked
  OBVIOUS
<1>1. /\ manifest = Empty /\ maybe_manifest = {Empty} /\ phase = "down" /\ status = "none"
      /\ blob_created = FALSE /\ store_state = "consistent" /\ refusal = "none" /\ acked = {}
      /\ part = [i \in Ids |-> "none"]
      /\ blobs = [d \in Digests |-> "none"] /\ maybe_blob = [d \in Digests |-> {"none"}]
  BY DEF Init
<1>2. Empty.lines = <<>> /\ Empty.tail = FALSE /\ Empty \in [lines : Seq(Line), tail : BOOLEAN]
  BY EmptySeq DEF Empty
<1>3. Len(Empty.lines) = 0 /\ DOMAIN Empty.lines = {} /\ End(Empty.lines) = 0
  <2>1. <<>> \in Seq(Line) /\ Len(<<>>) = 0
    BY EmptySeq
  <2>2. DOMAIN <<>> = {}
    OBVIOUS
  <2> QED
    BY <1>2, <2>1, <2>2 DEF End
<1>4. Filed(Empty) /\ Recorded(Empty) = {}
  <2>1. ManifestBytes(Empty) = 0
    BY <1>2, <1>3 DEF ManifestBytes
  <2>2. 0 <= MaxManifest /\ 0 <= MaxArtifacts
    BY Constants
  <2> QED
    BY <1>2, <1>3, <2>1, <2>2 DEF Filed, Once, Recorded
<1>5. FileInv
  BY <1>1, <1>4 DEF FileInv, PartStates, BlobStates
<1>6. RecordInv
  BY <1>1 DEF RecordInv
<1>7. FrameInv
  BY <1>1 DEF FrameInv, NewBlob, Phases
<1>8. BlobInv
  BY <1>1, <1>2 DEF BlobInv, Present, Init
<1> QED
  BY <1>1, <1>5, <1>6, <1>7, <1>8 DEF ReopensUnlessLinked, RecordsAdmitted, BlobsAdmitted

LEMMA PartStep ==
    ASSUME part \in [Ids -> PartStates], [Next]_vars
    PROVE  part' \in [Ids -> PartStates]
<1>1. ASSUME NEW i \in Ids \cup {frame}, NEW state \in PartStates, SetPart(i, state)
      PROVE  part' \in [Ids -> PartStates]
  BY <1>1 DEF SetPart
<1>2. {"none", "partial", "whole", "flushed", "linked"} \subseteq PartStates
  BY DEF PartStates
<1>3. ASSUME CreateTemporary \/ ReadContent \/ Flush \/ RemoveTemporary \/ Link \/ Unlink \/ Retire
      PROVE  part' \in [Ids -> PartStates]
  BY <1>1, <1>2, <1>3 DEF CreateTemporary, ReadContent, Flush, RemoveTemporary, Link, Unlink,
         Retire, fileVars
<1>4. ASSUME PowerLoss PROVE part' \in [Ids -> PartStates]
  BY <1>2, <1>4 DEF PowerLoss
<1>5. ASSUME ~ (CreateTemporary \/ ReadContent \/ Flush \/ RemoveTemporary \/ Link \/ Unlink
                \/ Retire \/ PowerLoss)
      PROVE  part' \in [Ids -> PartStates]
  BY <1>5 DEF Next, vars, fileVars, Open, OpenThrows, Header, LinkExisting, LinkFails,
         SyncDirectories, OpenManifest, AppendRecord, SyncManifest, Restore, Answer, Crash
<1> QED
  BY <1>3, <1>4, <1>5

\* The facts about the files every later step uses.
LEMMA FileFacts ==
    ASSUME FileInv
    PROVE  /\ manifest \in maybe_manifest /\ Filed(manifest)
           /\ manifest.lines \in Seq(Line) /\ manifest.tail \in BOOLEAN
           /\ manifest = [lines |-> manifest.lines, tail |-> manifest.tail]
           /\ Recorded(manifest) = {manifest.lines[k].id : k \in 1 .. Len(manifest.lines)}
           /\ \A m \in maybe_manifest : Filed(m) /\ Recorded(m) \subseteq Ids
           /\ \A d \in Digests : maybe_blob[d] \subseteq {"none", "flushed"} /\ blobs[d] \in maybe_blob[d]
           /\ \A d \in Digests : blobs[d] \in {"none", "flushed"}
BY FiledFacts DEF FileInv

\* The records before the one at hand, when the receiver is at no append: all of them.
LEMMA RecordFacts ==
    ASSUME FileInv, RecordInv, phase \notin {"down", "fsync", "restore"}, store_state = "consistent"
    PROVE  /\ manifest.tail = FALSE /\ manifest = [lines |-> manifest.lines, tail |-> FALSE]
           /\ IsFiniteSet(artifact_ids) /\ Cardinality(artifact_ids) = Len(manifest.lines)
           /\ artifact_ids = Recorded(manifest)
           /\ manifest_bytes = End(manifest.lines) /\ manifest_bytes \in Nat
<1>1. /\ IsFiniteSet(artifact_ids) /\ Cardinality(artifact_ids) = Len(manifest.lines)
      /\ artifact_ids = {manifest.lines[k].id : k \in 1 .. Cardinality(artifact_ids)}
      /\ ~ manifest.tail
      /\ manifest_bytes = IF Cardinality(artifact_ids) = 0 THEN 0
                          ELSE manifest.lines[Cardinality(artifact_ids)].end
  BY DEF RecordInv
<1>2. manifest.tail = FALSE /\ manifest = [lines |-> manifest.lines, tail |-> FALSE]
  BY <1>1, FileFacts
<1>3. manifest_bytes = End(manifest.lines) /\ manifest_bytes \in Nat
  BY <1>1, FileFacts, LineFacts
<1> QED
  BY <1>1, <1>2, <1>3, FileFacts

\* The records the receiver knows are in the manifest whatever it is appending.
LEMMA KnownRecorded ==
    ASSUME FileInv, RecordInv, phase # "down", store_state = "consistent"
    PROVE  /\ artifact_ids \subseteq Recorded(manifest) /\ artifact_ids \subseteq Ids
           /\ Cardinality(artifact_ids) \in 0 .. Len(manifest.lines)
           /\ Len(manifest.lines) \in Nat
<1>1. /\ Cardinality(artifact_ids) \in 0 .. Len(manifest.lines)
      /\ artifact_ids = {manifest.lines[k].id : k \in 1 .. Cardinality(artifact_ids)}
  BY DEF RecordInv
<1>2. Len(manifest.lines) \in Nat
  BY FileFacts, LineFacts
<1>3. \A k \in 1 .. Cardinality(artifact_ids) : k \in 1 .. Len(manifest.lines)
  BY <1>1, <1>2
<1> QED
  BY <1>1, <1>2, <1>3, FileFacts

----------------------------------------------------------------------------
(* Whatever a loss of power leaves *)

\* The files survive a step that adds manifests of the receiver's making to what may be left.
LEMMA FileMore ==
    ASSUME FileInv, part' \in [Ids -> PartStates],
           UNCHANGED <<blobs, maybe_blob, acked>>,
           manifest' \in maybe_manifest',
           \A m \in maybe_manifest' : m \in maybe_manifest \/
              (Filed(m) /\ acked \subseteq Recorded(m) /\ \A i \in Recorded(m) : Durable(i))
    PROVE  FileInv'
<1>1. \A m \in maybe_manifest' :
         Filed(m) /\ acked \subseteq Recorded(m) /\ \A i \in Recorded(m) : Durable(i)
  BY DEF FileInv
<1> QED
  BY <1>1 DEF FileInv, Durable

\* The files survive a step that changes blobs no manifest names.
LEMMA FileBlobs ==
    ASSUME FileInv, part' \in [Ids -> PartStates],
           UNCHANGED <<manifest, maybe_manifest, acked>>,
           blobs' \in [Digests -> BlobStates],
           maybe_blob' \in [Digests -> SUBSET {"none", "flushed"}],
           \A d \in Digests : blobs'[d] \in maybe_blob'[d],
           \A m \in maybe_manifest : \A i \in Recorded(m) : maybe_blob'[Digest[i]] = {"flushed"}
    PROVE  FileInv'
BY DEF FileInv, Durable

LEMMA FileAppend ==
    ASSUME FileInv, RecordInv, FrameInv, AppendRecord
    PROVE  FileInv'
<1> DEFINE lines == manifest.lines
           torn == [lines |-> lines, tail |-> TRUE]
           whole == [lines |-> Append(lines, Record(lines, frame)), tail |-> FALSE]
<1>1. /\ phase = "append" /\ manifest' \in {manifest, torn, whole}
      /\ maybe_manifest' = maybe_manifest \cup {torn, whole}
      /\ UNCHANGED <<part, blobs, maybe_blob, acked>>
  BY DEF AppendRecord
<1>2. /\ frame \in Ids /\ store_state = "consistent" /\ frame \notin artifact_ids
      /\ Cardinality(artifact_ids) < MaxArtifacts /\ Durable(frame)
      /\ RecordBytes[frame] <= MaxManifest - manifest_bytes
  BY <1>1 DEF FrameInv
<1>3. /\ manifest = [lines |-> lines, tail |-> FALSE] /\ artifact_ids = Recorded(manifest)
      /\ Cardinality(artifact_ids) = Len(lines) /\ manifest_bytes = End(lines)
  BY <1>1, <1>2, RecordFacts
<1>4. lines \in Seq(Line) /\ Filed(manifest) /\ acked \subseteq Recorded(manifest)
      /\ Recorded(manifest) = {lines[k].id : k \in 1 .. Len(lines)}
      /\ \A i \in Recorded(manifest) : Durable(i)
  BY FileFacts DEF FileInv
<1>5. \A k \in 1 .. Len(lines) : lines[k].id # frame
  BY <1>2, <1>3, <1>4
<1>6. Filed(whole) /\ Filed(torn)
  <2>1. Filed([lines |-> lines, tail |-> FALSE])
    BY <1>3, <1>4
  <2> QED
    BY <1>2, <1>3, <1>4, <1>5, <2>1, FiledAppend
<1>7. Recorded(torn) = Recorded(manifest) /\ Recorded(whole) = Recorded(manifest) \cup {frame}
  <2>1. Recorded(torn) = Recorded(manifest)
    BY DEF Recorded
  <2>2. Recorded(whole) = Recorded([lines |-> lines, tail |-> FALSE]) \cup {frame}
    BY <1>2, <1>4, AppendedRecord
  <2> QED
    BY <1>3, <2>1, <2>2
<1> HIDE DEF torn, whole, lines
<1>8. \A m \in {torn, whole} :
         Filed(m) /\ acked \subseteq Recorded(m) /\ \A i \in Recorded(m) : Durable(i)
  BY <1>2, <1>4, <1>6, <1>7
<1>9. part' \in [Ids -> PartStates]
  BY <1>1 DEF FileInv
<1>10. manifest' \in maybe_manifest'
  BY <1>1, FileFacts
<1> QED
  BY <1>1, <1>8, <1>9, <1>10, FileMore

\* Restore keeps the records the receiver knows.
LEMMA RestoredFacts ==
    ASSUME FileInv, RecordInv, phase = "restore", store_state = "consistent", frame \in Ids
    PROVE  LET lines == manifest.lines
               kept == CHOOSE k \in 0 .. Len(lines) : \A j \in DOMAIN lines :
                          lines[j].end <= manifest_bytes <=> j <= k
           IN  kept = Cardinality(artifact_ids)
<1> DEFINE lines == manifest.lines
           n == Cardinality(artifact_ids)
           P(k) == \A j \in DOMAIN lines : lines[j].end <= manifest_bytes <=> j <= k
<1>1. /\ n \in 0 .. Len(lines)
      /\ manifest_bytes = (IF n = 0 THEN 0 ELSE lines[n].end)
      /\ n < Len(lines) => n + 1 = Len(lines) /\ lines[n + 1].end = manifest_bytes + RecordBytes[frame]
  BY DEF RecordInv
<1>2. /\ DOMAIN lines = 1 .. Len(lines) /\ Len(lines) \in Nat
      /\ \A k \in 1 .. Len(lines) : lines[k].end \in Nat
      /\ \A j, k \in 1 .. Len(lines) : j <= k => lines[j].end <= lines[k].end
  BY FileFacts, LineFacts DEF Filed
<1>3. manifest_bytes \in Nat /\ RecordBytes[frame] \in Nat /\ RecordBytes[frame] >= 2
  BY <1>1, <1>2, Constants
<1>4. P(n)
  <2> SUFFICES ASSUME NEW j \in 1 .. Len(lines) PROVE lines[j].end <= manifest_bytes <=> j <= n
    BY <1>2
  <2>1. ASSUME j <= n PROVE lines[j].end <= manifest_bytes
    <3>1. n # 0 /\ n \in 1 .. Len(lines)
      BY <1>1, <2>1
    <3> QED
      BY <1>1, <1>2, <2>1, <3>1
  <2>2. ASSUME ~ (j <= n) PROVE ~ (lines[j].end <= manifest_bytes)
    <3>1. n < Len(lines) /\ j = n + 1
      BY <1>1, <1>2, <2>2
    <3>2. lines[j].end = manifest_bytes + RecordBytes[frame]
      BY <1>1, <3>1
    <3> QED
      BY <1>3, <3>2
  <2> QED
    BY <2>1, <2>2
<1>5. \A k \in 0 .. Len(lines) : P(k) => k = n
  <2> SUFFICES ASSUME NEW k \in 0 .. Len(lines), P(k), k # n PROVE FALSE
    OBVIOUS
  <2>1. CASE k < n
    <3>1. n \in DOMAIN lines /\ ~ (n <= k) /\ n <= n
      BY <1>1, <1>2, <2>1
    <3> QED
      BY <1>4, <3>1
  <2>2. CASE n < k
    <3>1. k \in DOMAIN lines /\ ~ (k <= n) /\ k <= k
      BY <1>1, <1>2, <2>2
    <3> QED
      BY <1>4, <3>1
  <2> QED
    BY <1>1, <1>2, <2>1, <2>2
<1> HIDE DEF P
<1>6. (CHOOSE k \in 0 .. Len(lines) : P(k)) = n
  BY <1>1, <1>4, <1>5
<1> QED
  BY <1>6 DEF P

LEMMA RestoredManifest ==
    ASSUME FileInv, RecordInv, phase = "restore", store_state = "consistent"
    PROVE  LET n == Cardinality(artifact_ids)
               cut == [lines |-> SubSeq(manifest.lines, 1, n), tail |-> FALSE] IN
           /\ Filed(cut) /\ Recorded(cut) = artifact_ids /\ acked \subseteq Recorded(cut)
           /\ Len(cut.lines) = n
           /\ \A k \in 1 .. n : cut.lines[k] = manifest.lines[k]
           /\ \A i \in Recorded(cut) : Durable(i)
<1> DEFINE n == Cardinality(artifact_ids)
           cut == [lines |-> SubSeq(manifest.lines, 1, n), tail |-> FALSE]
<1>1. /\ n \in 0 .. Len(manifest.lines) /\ acked \subseteq artifact_ids
      /\ artifact_ids = {manifest.lines[k].id : k \in 1 .. n}
  BY DEF RecordInv
<1>2. Filed(cut) /\ Len(cut.lines) = n /\ \A k \in 1 .. n : cut.lines[k] = manifest.lines[k]
  BY <1>1, FileFacts, FiledCut
<1> HIDE DEF cut
<1>3. Recorded(cut) = {cut.lines[k].id : k \in 1 .. n}
  BY <1>2, FiledFacts
<1>4. Recorded(cut) = artifact_ids
  BY <1>1, <1>2, <1>3
<1>5. \A i \in Recorded(cut) : Durable(i)
  BY <1>4, KnownRecorded, FileFacts DEF FileInv
<1> QED
  BY <1>1, <1>2, <1>4, <1>5 DEF cut

\* What a roll-back leaves, whether or not it was synchronised.
LEMMA RestoreCut ==
    ASSUME FileInv, RecordInv, FrameInv, Restore
    PROVE  LET cut == [lines |-> SubSeq(manifest.lines, 1, Cardinality(artifact_ids)),
                       tail |-> FALSE] IN
           /\ phase = "restore" /\ store_state = "consistent" /\ frame \in Ids
           /\ status' = "io_error"
           /\ \/ /\ manifest' = cut /\ maybe_manifest' = {cut} /\ phase' = "retire"
                 /\ UNCHANGED store_state
              \/ /\ phase' = "answer" /\ store_state' = "failed"
                 /\ \/ manifest' = cut /\ maybe_manifest' = maybe_manifest \cup {cut}
                    \/ UNCHANGED <<manifest, maybe_manifest>>
           /\ UNCHANGED <<part, blobs, maybe_blob, frame, blob_created, manifest_bytes,
                          artifact_ids, acked, refusal, crashes, unretired>>
<1>1. phase = "restore" /\ store_state = "consistent" /\ frame \in Ids
  BY DEF Restore, FrameInv
<1> DEFINE kept == CHOOSE k \in 0 .. Len(manifest.lines) : \A j \in DOMAIN manifest.lines :
                      manifest.lines[j].end <= manifest_bytes <=> j <= k
<1>2. kept = Cardinality(artifact_ids)
  BY <1>1, RestoredFacts
<1>3. LET cut == [lines |-> SubSeq(manifest.lines, 1, kept), tail |-> FALSE] IN
      /\ status' = "io_error"
      /\ \/ /\ manifest' = cut /\ maybe_manifest' = {cut} /\ phase' = "retire"
            /\ UNCHANGED store_state
         \/ /\ phase' = "answer" /\ store_state' = "failed"
            /\ \/ manifest' = cut /\ maybe_manifest' = maybe_manifest \cup {cut}
               \/ UNCHANGED <<manifest, maybe_manifest>>
      /\ UNCHANGED <<part, blobs, maybe_blob, frame, blob_created, manifest_bytes,
                     artifact_ids, acked, refusal, crashes, unretired>>
  BY DEF Restore, SetManifest
<1> HIDE DEF kept
<1> QED
  BY <1>1, <1>2, <1>3

\* The actions that neither write a manifest nor a blob nor answer.
FilesQuiet == UNCHANGED <<blobs, maybe_blob, manifest, maybe_manifest, acked>>

LEMMA QuietActions ==
    ASSUME \/ Header \/ CreateTemporary \/ ReadContent \/ Flush \/ RemoveTemporary
           \/ LinkExisting \/ LinkFails \/ Unlink \/ OpenManifest \/ Crash \/ UNCHANGED vars
    PROVE  FilesQuiet
BY DEF FilesQuiet, Header, CreateTemporary, ReadContent, Flush, RemoveTemporary, LinkExisting,
       LinkFails, Unlink, OpenManifest, Crash, Forget, vars, fileVars, lossVars, SetPart

\* What retiring a blob does to the directory.
LEMMA RetireFacts ==
    ASSUME FileInv, FrameInv, Retire
    PROVE  LET d == Digest[frame] IN
           /\ phase = "retire" /\ phase' = "answer" /\ status' = status /\ d \in Digests
           /\ UNCHANGED <<manifest, maybe_manifest, acked, frame, blob_created, manifest_bytes,
                          artifact_ids, store_state, refusal, crashes>>
           /\ \/ ~ blob_created /\ UNCHANGED <<blobs, maybe_blob, unretired>>
              \/ blob_created /\ unretired' = TRUE /\ UNCHANGED <<blobs, maybe_blob>>
              \/ /\ blob_created /\ UNCHANGED unretired
                 /\ blobs' = [blobs EXCEPT ![d] = "none"]
                 /\ \/ maybe_blob' = [e \in Digests |-> {blobs'[e]}]
                    \/ maybe_blob' = [maybe_blob EXCEPT ![d] = @ \cup {"none"}]
<1>1. phase = "retire"
  BY DEF Retire
<1>2. frame \in Ids
  BY <1>1 DEF FrameInv
<1>3. Digest[frame] \in Digests
  BY <1>2, Constants
<1> QED
  BY <1>1, <1>3 DEF Retire, Goto, fileVars, lossVars

LEMMA FileRetire ==
    ASSUME FileInv, FrameInv, Retire, part' \in [Ids -> PartStates]
    PROVE  FileInv'
<1> DEFINE d == Digest[frame]
<1>1. /\ phase = "retire" /\ d \in Digests
      /\ UNCHANGED <<manifest, maybe_manifest, acked>>
  BY RetireFacts
<1>2. CASE UNCHANGED <<blobs, maybe_blob>>
  BY <1>1, <1>2, FileMore, FileFacts
<1>3. CASE /\ blob_created /\ blobs' = [blobs EXCEPT ![d] = "none"]
           /\ \/ maybe_blob' = [e \in Digests |-> {blobs'[e]}]
              \/ maybe_blob' = [maybe_blob EXCEPT ![d] = @ \cup {"none"}]
  <2>1. \A m \in maybe_manifest : \A i \in Recorded(m) :
           Digest[i] # d /\ Digest[i] \in Digests /\ maybe_blob[Digest[i]] = {"flushed"}
    BY <1>1, <1>3, FileFacts, Constants DEF FrameInv, NewBlob, FileInv, Durable
  <2>2. blobs' \in [Digests -> BlobStates]
    BY <1>3 DEF FileInv, BlobStates
  <2>3. blobs'[d] = "none" /\ \A e \in Digests : e # d => blobs'[e] = blobs[e]
    BY <1>1, <1>3 DEF FileInv
  <2>4. \A e \in Digests : blobs'[e] \in {"none", "flushed"}
    BY <2>3, FileFacts
  <2>5. CASE maybe_blob' = [e \in Digests |-> {blobs'[e]}]
    <3>1. maybe_blob' \in [Digests -> SUBSET {"none", "flushed"}]
      BY <2>4, <2>5
    <3>2. \A e \in Digests : maybe_blob'[e] = {blobs'[e]}
      BY <2>5
    <3>3. \A m \in maybe_manifest : \A i \in Recorded(m) : maybe_blob'[Digest[i]] = {"flushed"}
      BY <2>1, <2>3, <3>2, FileFacts
    <3> QED
      BY <1>1, <2>2, <3>1, <3>2, <3>3, FileBlobs
  <2>6. CASE maybe_blob' = [maybe_blob EXCEPT ![d] = @ \cup {"none"}]
    <3>1. maybe_blob' \in [Digests -> SUBSET {"none", "flushed"}]
      BY <2>6 DEF FileInv
    <3>2. /\ maybe_blob'[d] = maybe_blob[d] \cup {"none"}
          /\ \A e \in Digests : e # d => maybe_blob'[e] = maybe_blob[e]
      BY <1>1, <2>6 DEF FileInv
    <3>3. \A e \in Digests : blobs'[e] \in maybe_blob'[e]
      BY <2>3, <3>2, FileFacts
    <3>4. \A m \in maybe_manifest : \A i \in Recorded(m) : maybe_blob'[Digest[i]] = {"flushed"}
      BY <2>1, <3>2
    <3> QED
      BY <1>1, <2>2, <3>1, <3>3, <3>4, FileBlobs
  <2> QED
    BY <1>3, <2>5, <2>6
<1> QED
  BY <1>2, <1>3, RetireFacts

LEMMA FileLink ==
    ASSUME FileInv, FrameInv, Link, part' \in [Ids -> PartStates]
    PROVE  FileInv'
<1> DEFINE d == Digest[frame]
<1>1. /\ phase = "link" /\ blobs[d] = "none"
      /\ blobs' = [blobs EXCEPT ![d] = part[frame]]
      /\ maybe_blob' = [maybe_blob EXCEPT ![d] = @ \cup {part[frame]}]
      /\ UNCHANGED <<manifest, maybe_manifest, acked>>
  BY DEF Link, SetBlob
<1>2. part[frame] = "flushed" /\ d \in Digests
  BY <1>1, Constants DEF FrameInv
<1>3. \A m \in maybe_manifest : \A i \in Recorded(m) :
         Digest[i] # d /\ Digest[i] \in Digests /\ maybe_blob[Digest[i]] = {"flushed"}
  BY <1>1, FileFacts, Constants DEF FileInv, Durable
<1>4. blobs' \in [Digests -> BlobStates] /\ maybe_blob' \in [Digests -> SUBSET {"none", "flushed"}]
  BY <1>1, <1>2 DEF FileInv, BlobStates
<1>5. /\ blobs'[d] = "flushed" /\ maybe_blob'[d] = maybe_blob[d] \cup {"flushed"}
      /\ \A e \in Digests : e # d => blobs'[e] = blobs[e] /\ maybe_blob'[e] = maybe_blob[e]
  BY <1>1, <1>2 DEF FileInv
<1>6. \A e \in Digests : blobs'[e] \in maybe_blob'[e]
  BY <1>5, FileFacts
<1>7. \A m \in maybe_manifest : \A i \in Recorded(m) : maybe_blob'[Digest[i]] = {"flushed"}
  BY <1>3, <1>5
<1> QED
  BY <1>1, <1>4, <1>6, <1>7, FileBlobs

LEMMA FileSync ==
    ASSUME FileInv, SyncDirectories, part' \in [Ids -> PartStates]
    PROVE  FileInv'
<1>1. UNCHANGED <<blobs, manifest, maybe_manifest, acked>>
  BY DEF SyncDirectories, fileVars
<1>2. CASE UNCHANGED maybe_blob
  BY <1>1, <1>2, FileMore, FileFacts
<1>3. CASE maybe_blob' = [d \in Digests |-> {blobs[d]}]
  <2>1. /\ maybe_blob' \in [Digests -> SUBSET {"none", "flushed"}]
        /\ \A d \in Digests : maybe_blob'[d] = {blobs[d]}
    BY <1>3, FileFacts
  <2>2. \A m \in maybe_manifest : \A i \in Recorded(m) : maybe_blob'[Digest[i]] = {"flushed"}
    BY <2>1, FileFacts, Constants DEF FileInv, Durable
  <2> QED
    BY <1>1, <2>1, <2>2, FileBlobs DEF FileInv
<1> QED
  BY <1>2, <1>3 DEF SyncDirectories

\* A loss of power leaves one of the states there were since the last synchronisation.
LEMMA FilePowerLoss ==
    ASSUME FileInv, PowerLoss, part' \in [Ids -> PartStates]
    PROVE  FileInv'
<1>1. PICK b \in [Digests -> BlobStates] :
         /\ \A d \in Digests : b[d] \in maybe_blob[d]
         /\ blobs' = [d \in Digests |-> IF b[d] = "whole" THEN "torn" ELSE b[d]]
  BY DEF PowerLoss
<1>2. /\ manifest' \in maybe_manifest /\ maybe_manifest' = {manifest'} /\ acked' = acked
      /\ maybe_blob' = [d \in Digests |-> {blobs'[d]}]
  BY DEF PowerLoss, Forget
<1>3. \A d \in Digests : blobs'[d] \in maybe_blob[d] /\ blobs'[d] \in {"none", "flushed"}
  BY <1>1, FileFacts
<1>4. blobs' \in [Digests -> BlobStates]
  BY <1>1, <1>3 DEF BlobStates
<1>5. /\ maybe_blob' \in [Digests -> SUBSET {"none", "flushed"}]
      /\ \A d \in Digests : maybe_blob'[d] = {blobs'[d]}
  BY <1>2, <1>3
<1>6. Filed(manifest') /\ acked' \subseteq Recorded(manifest')
  BY <1>2 DEF FileInv
<1>7. \A i \in Recorded(manifest') : maybe_blob'[Digest[i]] = {"flushed"}
  BY <1>2, <1>3, <1>5, FileFacts, Constants DEF FileInv, Durable
<1> QED
  BY <1>2, <1>4, <1>5, <1>6, <1>7 DEF FileInv, Durable

\* A torn record cut off at a start leaves the whole ones.
LEMMA FileOpen ==
    ASSUME FileInv, Open \/ OpenThrows, part' \in [Ids -> PartStates]
    PROVE  FileInv'
<1>1. /\ UNCHANGED <<blobs, maybe_blob, acked>>
      /\ \/ UNCHANGED <<manifest, maybe_manifest>>
         \/ manifest' = Complete(manifest)
            /\ maybe_manifest' \in {{manifest'}, maybe_manifest \cup {manifest'}, maybe_manifest}
  BY DEF Open, OpenThrows, SetManifest
<1>2. /\ Filed(Complete(manifest)) /\ acked \subseteq Recorded(Complete(manifest))
      /\ \A i \in Recorded(Complete(manifest)) : Durable(i)
  BY FileFacts, FiledComplete DEF FileInv
<1>3. ~ manifest.tail => Complete(manifest) = manifest
  BY FileFacts DEF Complete
<1>4. Open /\ manifest.tail => maybe_manifest' = {manifest'}
  BY DEF Open
<1>5. manifest' \in maybe_manifest'
  <2>1. CASE Open
    BY <1>3, <1>4, <2>1, FileFacts DEF Open
  <2>2. CASE OpenThrows
    BY <2>2, FileFacts DEF OpenThrows, SetManifest
  <2> QED
    BY <2>1, <2>2
<1>6. \A m \in maybe_manifest' : m \in maybe_manifest \/ m = Complete(manifest)
  BY <1>1, FileFacts
<1> QED
  BY <1>1, <1>2, <1>5, <1>6, FileMore

LEMMA FileStep == FileInv /\ RecordInv /\ FrameInv /\ [Next]_vars => FileInv'
<1> SUFFICES ASSUME FileInv, RecordInv, FrameInv, [Next]_vars PROVE FileInv'
  OBVIOUS
<1>1. part' \in [Ids -> PartStates]
  BY PartStep DEF FileInv
<1>2. ASSUME \/ Header \/ CreateTemporary \/ ReadContent \/ Flush \/ RemoveTemporary
             \/ LinkExisting \/ LinkFails \/ Unlink \/ OpenManifest \/ Crash \/ UNCHANGED vars
      PROVE  FileInv'
  <2>1. FilesQuiet
    BY <1>2, QuietActions
  <2> QED
    BY <1>1, <2>1, FileMore, FileFacts DEF FilesQuiet
<1>3. ASSUME SyncManifest PROVE FileInv'
  <2>1. /\ UNCHANGED <<blobs, maybe_blob, manifest, acked>>
        /\ maybe_manifest' \in {{manifest}, maybe_manifest}
    BY <1>3 DEF SyncManifest, fileVars
  <2> QED
    BY <1>1, <2>1, FileMore, FileFacts
<1>4. ASSUME Restore PROVE FileInv'
  <2> DEFINE cut == [lines |-> SubSeq(manifest.lines, 1, Cardinality(artifact_ids)),
                     tail |-> FALSE]
  <2>1. /\ Filed(cut) /\ acked \subseteq Recorded(cut) /\ \A i \in Recorded(cut) : Durable(i)
    BY <1>4, RestoreCut, RestoredManifest
  <2>2. /\ UNCHANGED <<blobs, maybe_blob, acked>> /\ manifest' \in maybe_manifest'
        /\ \A m \in maybe_manifest' : m \in maybe_manifest \/ m = cut
    BY <1>4, RestoreCut, FileFacts
  <2> HIDE DEF cut
  <2> QED
    BY <1>1, <2>1, <2>2, FileMore
<1>5. ASSUME Answer PROVE FileInv'
  <2>1. /\ UNCHANGED <<part, blobs, maybe_blob, manifest, maybe_manifest>>
        /\ acked' = IF status = "accepted" THEN acked \cup {frame} ELSE acked
    BY <1>5 DEF Answer, fileVars, lossVars
  <2>2. \A m \in maybe_manifest : acked' \subseteq Recorded(m)
    BY <2>1 DEF FileInv, FrameInv
  <2> QED
    BY <2>1, <2>2 DEF FileInv, Durable
<1> QED
  BY <1>1, <1>2, <1>3, <1>4, <1>5, FileAppend, FileRetire, FileLink, FileSync, FilePowerLoss,
     FileOpen DEF Next

----------------------------------------------------------------------------
(* What the receiver knows of its manifest *)

LEMMA RecordQuiet ==
    ASSUME RecordInv, phase \notin {"down", "fsync", "restore"},
           phase' \notin {"fsync", "restore"},
           UNCHANGED <<manifest, artifact_ids, manifest_bytes, store_state, acked>>
    PROVE  RecordInv'
BY DEF RecordInv

LEMMA RecordOpen ==
    ASSUME FileInv, Open
    PROVE  RecordInv'
<1>1. /\ manifest' = Complete(manifest) /\ manifest_bytes' = ManifestBytes(manifest')
      /\ artifact_ids' = Recorded(manifest) /\ acked' = acked /\ phase' = "idle"
  BY DEF Open, Goto
<1>2. /\ Filed(manifest') /\ Recorded(manifest') = Recorded(manifest)
      /\ manifest'.tail = FALSE /\ manifest_bytes' = End(manifest'.lines)
  BY <1>1, FileFacts, FiledComplete
<1>3. /\ IsFiniteSet(artifact_ids') /\ Cardinality(artifact_ids') = Len(manifest'.lines)
      /\ artifact_ids' = {manifest'.lines[k].id : k \in 1 .. Len(manifest'.lines)}
      /\ manifest'.lines \in Seq(Line)
  BY <1>1, <1>2, RecordedCount, FiledFacts
<1>4. /\ Len(manifest'.lines) \in Nat
      /\ manifest_bytes' = IF Len(manifest'.lines) = 0 THEN 0
                           ELSE manifest'.lines[Len(manifest'.lines)].end
  BY <1>2, <1>3, LineFacts
<1>5. acked' \subseteq artifact_ids'
  BY <1>1 DEF FileInv
<1>6. /\ Len(manifest'.lines) \in 0 .. Len(manifest'.lines)
      /\ ~ (Len(manifest'.lines) < Len(manifest'.lines))
  BY <1>4
<1> QED
  BY <1>1, <1>2, <1>3, <1>4, <1>5, <1>6 DEF RecordInv

LEMMA RecordAppend ==
    ASSUME FileInv, RecordInv, FrameInv, AppendRecord
    PROVE  RecordInv'
<1> DEFINE lines == manifest.lines
           n == Cardinality(artifact_ids)
           rec == Record(lines, frame)
           longer == Append(lines, rec)
<1>1. /\ phase = "append" /\ store_state = "consistent" /\ frame \in Ids
      /\ \/ manifest' = [lines |-> longer, tail |-> FALSE] /\ phase' = "fsync"
         \/ phase' = "restore" /\ manifest' \in {manifest, [lines |-> lines, tail |-> TRUE],
                                                 [lines |-> longer, tail |-> FALSE]}
      /\ UNCHANGED <<artifact_ids, manifest_bytes, store_state, acked, frame>>
  BY DEF AppendRecord, FrameInv, Goto, memberVars
<1>2. /\ n = Len(lines) /\ manifest_bytes = End(lines) /\ lines \in Seq(Line) /\ n \in Nat
      /\ IsFiniteSet(artifact_ids) /\ acked \subseteq artifact_ids
      /\ artifact_ids = {lines[k].id : k \in 1 .. n}
      /\ manifest_bytes = IF n = 0 THEN 0 ELSE lines[n].end
  BY <1>1, RecordFacts, FileFacts, LineFacts DEF RecordInv
<1>3. /\ Len(longer) = n + 1 /\ \A k \in 1 .. n : longer[k] = lines[k]
      /\ longer[n + 1] = [id |-> frame, end |-> manifest_bytes + RecordBytes[frame]]
  BY <1>1, <1>2, NewRecord, AppendProperties DEF Record
<1>4. /\ artifact_ids = {longer[k].id : k \in 1 .. n}
      /\ manifest_bytes = IF n = 0 THEN 0 ELSE longer[n].end
      /\ n \in 0 .. n + 1 /\ n \in 0 .. n /\ ~ (n < n) /\ n < n + 1
  <2>1. n # 0 => n \in 1 .. n
    BY <1>2
  <2>2. n \in 0 .. n + 1 /\ n \in 0 .. n /\ ~ (n < n) /\ n < n + 1
    BY <1>2
  <2>3. {lines[k].id : k \in 1 .. n} = {longer[k].id : k \in 1 .. n}
    BY <1>3
  <2> QED
    BY <1>2, <1>3, <2>1, <2>2, <2>3
<1> HIDE DEF lines, longer, n
<1>5. \/ manifest'.lines = longer /\ ~ manifest'.tail /\ phase' = "fsync"
      \/ manifest'.lines \in {lines, longer} /\ phase' = "restore"
  BY <1>1 DEF lines
<1>6. n' = n
  BY <1>1 DEF n
<1>7. CASE manifest'.lines = longer
  BY <1>1, <1>2, <1>3, <1>4, <1>5, <1>7 DEF RecordInv, n
<1>8. CASE manifest'.lines = lines /\ phase' = "restore"
  BY <1>1, <1>2, <1>4, <1>8 DEF RecordInv, n
<1> QED
  BY <1>5, <1>7, <1>8

LEMMA RecordSync ==
    ASSUME FileInv, RecordInv, FrameInv, SyncManifest
    PROVE  RecordInv'
<1> DEFINE lines == manifest.lines
           n == Cardinality(artifact_ids)
<1>1. /\ phase = "fsync" /\ store_state = "consistent" /\ frame \notin artifact_ids
      /\ UNCHANGED <<manifest, store_state, acked, frame>>
  BY DEF SyncManifest, FrameInv, fileVars
<1>2. /\ IsFiniteSet(artifact_ids) /\ n \in 0 .. Len(lines) /\ n + 1 = Len(lines)
      /\ artifact_ids = {lines[k].id : k \in 1 .. n} /\ acked \subseteq artifact_ids
      /\ manifest_bytes = (IF n = 0 THEN 0 ELSE lines[n].end) /\ ~ manifest.tail
      /\ n < Len(lines) =>
            lines[n + 1] = [id |-> frame, end |-> manifest_bytes + RecordBytes[frame]]
  BY <1>1 DEF RecordInv
<1>3. Len(lines) \in Nat /\ n \in Nat /\ n < Len(lines)
  BY <1>2, FileFacts, LineFacts
<1>4. CASE /\ manifest_bytes' = manifest_bytes + RecordBytes[frame] /\ phase' = "answer"
           /\ artifact_ids' = artifact_ids \cup {frame}
  <2>1. IsFiniteSet(artifact_ids') /\ Cardinality(artifact_ids') = n + 1
    BY <1>1, <1>2, <1>4, FS_AddElement
  <2>2. lines[n + 1].id = frame /\ lines[n + 1].end = manifest_bytes'
    BY <1>2, <1>3, <1>4
  <2>3. artifact_ids' = {lines[k].id : k \in 1 .. n + 1}
    <3>1. \A k \in 1 .. n + 1 : k \in 1 .. n \/ k = n + 1
      BY <1>3
    <3>2. \A k \in 1 .. n : k \in 1 .. n + 1
      BY <1>3
    <3>3. n + 1 \in 1 .. n + 1
      BY <1>3
    <3> HIDE DEF n, lines
    <3>4. \A x : x \in artifact_ids' <=> x \in {lines[k].id : k \in 1 .. n} \/ x = frame
      BY <1>2, <1>4
    <3>5. \A x : x \in {lines[k].id : k \in 1 .. n} => x \in {lines[k].id : k \in 1 .. n + 1}
      BY <3>2
    <3>6. \A x : x \in {lines[k].id : k \in 1 .. n + 1} =>
                    x \in {lines[k].id : k \in 1 .. n} \/ x = frame
      BY <2>2, <3>1
    <3>7. frame \in {lines[k].id : k \in 1 .. n + 1}
      BY <2>2, <3>3
    <3> QED
      BY <3>4, <3>5, <3>6, <3>7
  <2>4. /\ n + 1 \in 0 .. Len(lines) /\ n + 1 # 0 /\ ~ (n + 1 < Len(lines))
    BY <1>2, <1>3
  <2>5. acked' \subseteq artifact_ids'
    BY <1>1, <1>2, <1>4
  <2> HIDE DEF n
  <2>6. lines' = lines
    BY <1>1
  <2> HIDE DEF lines
  <2>7. manifest'.lines = lines /\ ~ manifest'.tail
    BY <1>1, <1>2 DEF lines
  <2> DEFINE more == n + 1
  <2>8. /\ IsFiniteSet(artifact_ids') /\ Cardinality(artifact_ids') = more
        /\ more \in 0 .. Len(lines) /\ more = Len(lines) /\ ~ (more < Len(lines))
        /\ artifact_ids' = {lines[k].id : k \in 1 .. more}
        /\ manifest_bytes' = IF more = 0 THEN 0 ELSE lines[more].end
    BY <1>2, <2>1, <2>2, <2>3, <2>4
  <2> HIDE DEF more
  <2> QED
    BY <1>4, <2>5, <2>7, <2>8 DEF RecordInv
<1>5. CASE /\ UNCHANGED <<manifest_bytes, artifact_ids>> /\ phase' = "restore"
  BY <1>1, <1>2, <1>3, <1>5 DEF RecordInv
<1> QED
  BY <1>4, <1>5 DEF SyncManifest, Refuse, Goto

LEMMA RecordRestore ==
    ASSUME FileInv, RecordInv, FrameInv, Restore
    PROVE  RecordInv'
<1> DEFINE n == Cardinality(artifact_ids)
           cut == [lines |-> SubSeq(manifest.lines, 1, n), tail |-> FALSE]
<1>1. /\ phase = "restore" /\ store_state = "consistent"
      /\ (manifest' = cut /\ phase' = "retire") \/ store_state' = "failed"
      /\ UNCHANGED <<manifest_bytes, artifact_ids, acked>>
  BY RestoreCut
<1>2. CASE store_state' = "failed"
  BY <1>2 DEF RecordInv
<1>3. CASE manifest' = cut /\ phase' = "retire"
  <2>1. /\ Filed(cut) /\ Len(cut.lines) = n /\ \A k \in 1 .. n : cut.lines[k] = manifest.lines[k]
        /\ acked \subseteq artifact_ids /\ cut.tail = FALSE
    BY <1>1, RestoredManifest DEF RecordInv
  <2>2. /\ IsFiniteSet(artifact_ids) /\ n \in 0 .. Len(manifest.lines)
        /\ artifact_ids = {manifest.lines[k].id : k \in 1 .. n}
        /\ manifest_bytes = (IF n = 0 THEN 0 ELSE manifest.lines[n].end)
    BY <1>1 DEF RecordInv
  <2>3. n \in Nat
    BY <2>2, FileFacts, LineFacts
  <2> HIDE DEF cut
  <2>4. artifact_ids = {cut.lines[k].id : k \in 1 .. n}
    BY <2>1, <2>2
  <2>5. manifest_bytes = IF n = 0 THEN 0 ELSE cut.lines[n].end
    <3>1. n # 0 => n \in 1 .. n
      BY <2>3
    <3> QED
      BY <2>1, <2>2, <3>1
  <2>6. n \in 0 .. n /\ ~ (n < n)
    BY <2>3
  <2>7. Cardinality(artifact_ids') = n
    BY <1>1
  <2> HIDE DEF n
  <2> QED
    BY <1>1, <1>3, <2>1, <2>2, <2>4, <2>5, <2>6, <2>7 DEF RecordInv
<1> QED
  BY <1>1, <1>2, <1>3

LEMMA RecordStep == FileInv /\ RecordInv /\ FrameInv /\ [Next]_vars => RecordInv'
<1> SUFFICES ASSUME FileInv, RecordInv, FrameInv, [Next]_vars PROVE RecordInv'
  OBVIOUS
<1>1. ASSUME \/ Header \/ CreateTemporary \/ ReadContent \/ Flush \/ RemoveTemporary
             \/ Link \/ LinkExisting \/ LinkFails \/ Unlink \/ SyncDirectories \/ OpenManifest
             \/ Retire
      PROVE  RecordInv'
  <2>1. /\ phase \notin {"down", "fsync", "restore"} /\ phase' \notin {"fsync", "restore"}
        /\ UNCHANGED <<manifest, artifact_ids, manifest_bytes, store_state, acked>>
    BY <1>1 DEF Header, CreateTemporary, ReadContent, Flush, RemoveTemporary, Link, LinkExisting,
         LinkFails, Unlink, SyncDirectories, OpenManifest, Retire, Goto, Refuse, fileVars,
         memberVars
  <2> QED
    BY <2>1, RecordQuiet
<1>2. ASSUME Answer PROVE RecordInv'
  <2>1. /\ phase = "answer" /\ phase' = "idle"
        /\ acked' = IF status = "accepted" THEN acked \cup {frame} ELSE acked
        /\ UNCHANGED <<manifest, artifact_ids, manifest_bytes, store_state>>
    BY <1>2 DEF Answer, fileVars, memberVars
  <2>2. store_state = "consistent" => acked' \subseteq artifact_ids
    BY <2>1 DEF RecordInv, FrameInv
  <2> QED
    BY <2>1, <2>2 DEF RecordInv
<1>3. ASSUME Crash \/ PowerLoss \/ OpenThrows PROVE RecordInv'
  <2>1. phase' = "down"
    BY <1>3 DEF Crash, PowerLoss, OpenThrows, Forget
  <2> QED
    BY <2>1 DEF RecordInv
<1>4. ASSUME UNCHANGED vars PROVE RecordInv'
  BY <1>4 DEF vars, fileVars, memberVars, RecordInv
<1> QED
  BY <1>1, <1>2, <1>3, <1>4, RecordOpen, RecordAppend, RecordSync, RecordRestore DEF Next

----------------------------------------------------------------------------
(* The frame at hand *)

LEMMA FrameHeader ==
    ASSUME FileInv, RecordInv, FrameInv, Header
    PROVE  FrameInv'
<1>1. PICK i \in Ids : /\ frame' = i
                       /\ status' \in IF Refusal(i) = "none" THEN {"none", "invalid"} ELSE {Refusal(i)}
                       /\ phase' = IF status' = "none" THEN "create" ELSE "answer"
  BY DEF Header
<1>2. phase = "idle" /\ ~ blob_created
      /\ UNCHANGED <<artifact_ids, store_state, blob_created, part, blobs, maybe_blob,
                     maybe_manifest, manifest_bytes>>
  BY DEF Header, FrameInv, fileVars, lossVars, memberVars
<1>3. Refusal(i) \in {"io_error", "too_large", "sensitive_capture_disabled", "conflict", "none"}
  BY DEF Refusal
<1>4. status' # "accepted" /\ (phase' = "create" => Refusal(i) = "none")
      /\ phase' \in {"create", "answer"}
  BY <1>1, <1>3
<1>5. Refusal(i) = "none" => /\ store_state = "consistent" /\ i \notin artifact_ids
                             /\ ~ (Cardinality(artifact_ids) >= MaxArtifacts)
  <2>1. store_state = "failed" => Refusal(i) = "io_error"
    BY DEF Refusal
  <2>2. Cardinality(artifact_ids) >= MaxArtifacts => Refusal(i) # "none"
    BY DEF Refusal
  <2>3. i \in artifact_ids => Refusal(i) # "none"
    BY DEF Refusal
  <2>4. store_state \in {"consistent", "failed"}
    BY DEF FrameInv
  <2> QED
    BY <2>1, <2>2, <2>3, <2>4
<1>6. Refusal(i) = "none" => Cardinality(artifact_ids) < MaxArtifacts
  <2>1. store_state = "consistent" => Cardinality(artifact_ids) \in Nat
    BY <1>2, RecordFacts, FileFacts, LineFacts
  <2> QED
    BY <1>5, <2>1, Constants
<1>7. ~ NewBlob'
  BY <1>4 DEF NewBlob
<1> QED
  BY <1>1, <1>2, <1>4, <1>5, <1>6, <1>7 DEF FrameInv, Phases

\* From the frame's admission to the link, no blob is made.
LEMMA FrameBefore ==
    ASSUME FileInv, FrameInv, CreateTemporary \/ ReadContent \/ Flush \/ RemoveTemporary
    PROVE  FrameInv'
<1>1. /\ phase \in {"create", "content", "flush", "remove"} /\ frame \in Ids
      /\ phase' \in {"content", "flush", "link", "remove", "answer"}
      /\ phase' = "link" => phase = "flush" /\ SetPart(frame, "flushed")
      /\ phase' \in {"content", "flush", "link"} => phase \in {"create", "content", "flush"}
      /\ status' # "accepted"
      /\ UNCHANGED <<frame, artifact_ids, store_state, blob_created, blobs, maybe_blob,
                     maybe_manifest, manifest_bytes>>
  BY DEF CreateTemporary, ReadContent, Flush, RemoveTemporary, Goto, Refuse, FrameInv, memberVars
<1>2. ~ NewBlob'
  BY <1>1 DEF NewBlob
<1>3. (phase' = "link" => part'[frame] = "flushed")
      /\ (phase' \in {"content", "flush", "link"} => ~ blob_created)
  BY <1>1 DEF SetPart, FrameInv, FileInv
<1> QED
  BY <1>1, <1>2, <1>3 DEF FrameInv, Phases

\* A blob that is made has a digest no record names: a recorded digest has its blob.
LEMMA FrameLink ==
    ASSUME FileInv, RecordInv, FrameInv, Link
    PROVE  FrameInv'
<1> DEFINE d == Digest[frame]
<1>1. /\ phase = "link" /\ phase' = "unlink" /\ frame \in Ids /\ d \in Digests
      /\ blobs[d] = "none" /\ blobs' = [blobs EXCEPT ![d] = part[frame]]
      /\ part[frame] = "flushed" /\ status' = status /\ status # "accepted"
      /\ store_state = "consistent"
      /\ UNCHANGED <<frame, artifact_ids, store_state, maybe_manifest, manifest_bytes>>
  BY Constants DEF Link, SetBlob, Goto, FrameInv
<1>2. blobs'[d] = "flushed"
  BY <1>1 DEF FileInv
<1>3. \A m \in maybe_manifest : \A i \in Recorded(m) : Digest[i] # d
  <2> SUFFICES ASSUME NEW m \in maybe_manifest, NEW i \in Recorded(m), Digest[i] = d PROVE FALSE
    OBVIOUS
  <2>1. maybe_blob[d] = {"flushed"} /\ blobs[d] \in maybe_blob[d]
    BY <1>1 DEF FileInv, Durable
  <2> QED
    BY <1>1, <2>1
<1>4. \A i \in artifact_ids : Digest[i] # d
  BY <1>1, <1>3, KnownRecorded, FileFacts
<1> QED
  BY <1>1, <1>2, <1>3, <1>4 DEF FrameInv, Phases

\* What neither makes nor removes a blob, from the link to the append.
LEMMA FrameMiddle ==
    ASSUME FileInv, RecordInv, FrameInv,
           LinkExisting \/ LinkFails \/ Unlink \/ SyncDirectories \/ OpenManifest
    PROVE  FrameInv'
<1> DEFINE d == Digest[frame]
<1>1. /\ phase \in {"link", "unlink", "sync", "manifest"} /\ frame \in Ids /\ d \in Digests
      /\ phase = "link" => phase' \in {"unlink", "remove"} /\ ~ blob_created
      /\ phase' = "unlink" => blobs[d] # "none"
      /\ phase = "unlink" => phase' \in {"sync", "retire"}
      /\ phase = "sync" => phase' \in {"manifest", "retire"}
      /\ phase = "manifest" => phase' \in {"append", "retire"}
      /\ phase' = "append" => RecordBytes[frame] <= MaxManifest - manifest_bytes
      /\ phase' = "manifest" => maybe_blob' = [e \in Digests |-> {blobs[e]}]
      /\ phase' # "manifest" => maybe_blob' = maybe_blob
      /\ status' # "accepted"
      /\ UNCHANGED <<frame, artifact_ids, store_state, blob_created, blobs, maybe_manifest,
                     manifest_bytes>>
  <2>1. /\ phase \in {"link", "unlink", "sync", "manifest"} /\ status # "accepted"
        /\ phase = "link" => ~ blob_created
    BY DEF LinkExisting, LinkFails, Unlink, SyncDirectories, OpenManifest, FrameInv
  <2>2. frame \in Ids /\ d \in Digests
    BY <2>1, Constants DEF FrameInv
  <2> QED
    BY <2>1, <2>2 DEF LinkExisting, LinkFails, Unlink, SyncDirectories, OpenManifest, Goto, Refuse,
         fileVars, lossVars, memberVars
<1>2. NewBlob' => NewBlob /\ phase \in {"unlink", "sync", "manifest"}
  BY <1>1 DEF NewBlob
<1>3. phase' \in {"unlink", "sync", "manifest", "append"} => blobs[d] = "flushed"
  BY <1>1, FileFacts DEF FrameInv
<1>4. phase' \in {"manifest", "append"} => maybe_blob'[d] = {"flushed"}
  BY <1>1, <1>3 DEF FrameInv, Durable
<1>5. phase' \in {"unlink", "sync", "manifest", "append", "retire", "remove"}
  BY <1>1
<1>6. /\ store_state = "consistent" /\ frame \notin artifact_ids
      /\ Cardinality(artifact_ids) < MaxArtifacts
  BY <1>1 DEF FrameInv
<1>7. NewBlob => /\ \A i \in artifact_ids : Digest[i] # d
                 /\ phase \notin {"fsync", "restore"} =>
                       \A m \in maybe_manifest : \A i \in Recorded(m) : Digest[i] # d
  BY DEF FrameInv
<1> QED
  BY <1>1, <1>2, <1>3, <1>4, <1>5, <1>6, <1>7 DEF FrameInv, Phases, Durable

LEMMA FrameAppend ==
    ASSUME FrameInv, AppendRecord
    PROVE  FrameInv'
<1>1. /\ phase = "append" /\ phase' \in {"fsync", "restore"} /\ status' = status
      /\ UNCHANGED <<frame, artifact_ids, store_state, blob_created, blobs>>
  BY DEF AppendRecord, Goto, memberVars
<1> QED
  BY <1>1 DEF FrameInv, NewBlob, Phases

LEMMA FrameSync ==
    ASSUME FileInv, RecordInv, FrameInv, SyncManifest
    PROVE  FrameInv'
<1>1. /\ phase = "fsync" /\ frame \in Ids /\ store_state = "consistent" /\ status # "accepted"
      /\ UNCHANGED <<manifest, frame, store_state, blob_created>>
  BY DEF SyncManifest, FrameInv, fileVars
<1>2. CASE /\ maybe_manifest' = {manifest} /\ Refuse("answer", "accepted")
           /\ artifact_ids' = artifact_ids \cup {frame}
  <2>1. /\ Cardinality(artifact_ids) + 1 = Len(manifest.lines)
        /\ Cardinality(artifact_ids) < Len(manifest.lines) =>
              manifest.lines[Cardinality(artifact_ids) + 1].id = frame
        /\ Cardinality(artifact_ids) \in 0 .. Len(manifest.lines)
    BY <1>1 DEF RecordInv
  <2>2. Len(manifest.lines) \in 1 .. Len(manifest.lines)
        /\ Cardinality(artifact_ids) < Len(manifest.lines)
    BY <2>1, FileFacts, LineFacts
  <2>3. frame \in Recorded(manifest)
    BY <2>1, <2>2, FileFacts
  <2>4. phase' = "answer" /\ ~ NewBlob'
    BY <1>2 DEF Refuse, NewBlob
  <2> QED
    BY <1>1, <1>2, <2>3, <2>4 DEF FrameInv, Phases
<1>3. CASE UNCHANGED <<maybe_manifest, artifact_ids>> /\ Goto("restore")
  BY <1>1, <1>3 DEF FrameInv, Goto, NewBlob, Phases
<1> QED
  BY <1>2, <1>3 DEF SyncManifest

LEMMA FrameRestore ==
    ASSUME FileInv, RecordInv, FrameInv, Restore
    PROVE  FrameInv'
<1> DEFINE cut == [lines |-> SubSeq(manifest.lines, 1, Cardinality(artifact_ids)),
                   tail |-> FALSE]
<1>1. /\ phase = "restore" /\ store_state = "consistent" /\ frame \in Ids
      /\ status' = "io_error"
      /\ \/ maybe_manifest' = {cut} /\ phase' = "retire" /\ UNCHANGED store_state
         \/ phase' = "answer" /\ store_state' = "failed"
      /\ UNCHANGED <<frame, blob_created, artifact_ids>>
  BY RestoreCut
<1>2. Recorded(cut) = artifact_ids
  BY <1>1, RestoredManifest
<1> HIDE DEF cut
<1>3. CASE phase' = "answer" /\ store_state' = "failed"
  BY <1>1, <1>3 DEF FrameInv, NewBlob, Phases
<1>4. CASE maybe_manifest' = {cut} /\ phase' = "retire" /\ UNCHANGED store_state
  <2>1. NewBlob' => NewBlob
    BY <1>1, <1>4 DEF NewBlob
  <2>2. NewBlob => \A i \in Recorded(cut) : Digest[i] # Digest[frame]
    BY <1>2 DEF FrameInv
  <2> QED
    BY <1>1, <1>2, <1>4, <2>1, <2>2 DEF FrameInv, Phases
<1> QED
  BY <1>1, <1>3, <1>4

LEMMA FrameStep == FileInv /\ RecordInv /\ FrameInv /\ [Next]_vars => FrameInv'
<1> SUFFICES ASSUME FileInv, RecordInv, FrameInv, [Next]_vars PROVE FrameInv'
  OBVIOUS
<1>1. ASSUME Retire PROVE FrameInv'
  <2>1. /\ phase = "retire" /\ phase' = "answer" /\ status' = status /\ frame' = frame
        /\ store_state' = store_state
    BY <1>1 DEF Retire, Goto
  <2> QED
    BY <2>1 DEF FrameInv, NewBlob, Phases
<1>2. ASSUME Answer PROVE FrameInv'
  <2>1. /\ phase' = "idle" /\ status' = "none" /\ blob_created' = FALSE
        /\ store_state' = store_state
    BY <1>2 DEF Answer, memberVars
  <2> QED
    BY <2>1 DEF FrameInv, NewBlob, Phases
<1>3. ASSUME Open PROVE FrameInv'
  <2>1. /\ phase = "down" /\ phase' = "idle" /\ status' = status
        /\ store_state' = "consistent" /\ blob_created' = blob_created
    BY <1>3 DEF Open, Goto
  <2>2. status # "accepted" /\ ~ blob_created
    BY <2>1 DEF FrameInv
  <2> QED
    BY <2>1, <2>2 DEF FrameInv, NewBlob, Phases
<1>4. ASSUME OpenThrows PROVE FrameInv'
  <2>1. phase = "down" /\ UNCHANGED <<phase, status, store_state, blob_created>>
    BY <1>4 DEF OpenThrows, memberVars
  <2>2. status # "accepted" /\ ~ blob_created
    BY <2>1 DEF FrameInv
  <2> QED
    BY <2>1, <2>2 DEF FrameInv, NewBlob, Phases
<1>5. ASSUME Crash \/ PowerLoss PROVE FrameInv'
  <2>1. /\ phase' = "down" /\ status' = "none" /\ blob_created' = FALSE
        /\ store_state' = "consistent"
    BY <1>5 DEF Crash, PowerLoss, Forget
  <2> QED
    BY <2>1 DEF FrameInv, NewBlob, Phases
<1>6. ASSUME UNCHANGED vars PROVE FrameInv'
  BY <1>6 DEF vars, fileVars, lossVars, memberVars, FrameInv, NewBlob, Durable
<1> QED
  BY <1>1, <1>2, <1>3, <1>4, <1>5, <1>6, FrameHeader, FrameBefore, FrameLink, FrameMiddle,
     FrameAppend, FrameSync, FrameRestore DEF Next

----------------------------------------------------------------------------
(* The blobs of a run in which nothing was left behind *)

LEMMA BlobQuiet ==
    ASSUME BlobInv, phase # "down", phase' # "down",
           UNCHANGED <<blobs, artifact_ids, crashes, unretired>>,
           store_state' = store_state \/ store_state' = "failed",
           NewBlob' <=> NewBlob, NewBlob => frame' = frame
    PROVE  BlobInv'
<1>1. Present' = Present
  BY DEF Present
<1> QED
  BY <1>1 DEF BlobInv

LEMMA BlobLink ==
    ASSUME FileInv, FrameInv, BlobInv, Link
    PROVE  BlobInv'
<1> DEFINE d == Digest[frame]
<1>1. /\ phase = "link" /\ phase' = "unlink" /\ frame \in Ids /\ d \in Digests
      /\ blobs' = [blobs EXCEPT ![d] = "flushed"] /\ blob_created' = TRUE /\ ~ blob_created
      /\ UNCHANGED <<frame, artifact_ids, crashes, unretired, store_state>>
  BY Constants DEF Link, SetBlob, Goto, FrameInv
<1>2. Present' = Present \cup {d}
  <2>1. blobs'[d] = "flushed" /\ \A e \in Digests : e # d => blobs'[e] = blobs[e]
    BY <1>1 DEF FileInv
  <2> QED
    BY <1>1, <2>1 DEF Present
<1>3. NewBlob' /\ ~ NewBlob
  BY <1>1 DEF NewBlob
<1> QED
  BY <1>1, <1>2, <1>3 DEF BlobInv

LEMMA BlobSync ==
    ASSUME FileInv, FrameInv, BlobInv, SyncManifest
    PROVE  BlobInv'
<1> DEFINE d == Digest[frame]
<1>1. /\ phase = "fsync" /\ frame \in Ids /\ d \in Digests /\ blobs[d] = "flushed"
      /\ UNCHANGED <<blobs, frame, blob_created, crashes, unretired, store_state>>
  BY Constants DEF SyncManifest, FrameInv, fileVars
<1>2. CASE artifact_ids' = artifact_ids \cup {frame} /\ phase' = "answer"
  <2>1. Present' = Present /\ d \in Present
    BY <1>1 DEF Present
  <2>2. {Digest[i] : i \in artifact_ids'} = {Digest[i] : i \in artifact_ids} \cup {d}
    BY <1>2
  <2>3. ~ NewBlob'
    BY <1>2 DEF NewBlob
  <2> QED
    BY <1>1, <1>2, <2>1, <2>2, <2>3 DEF BlobInv
<1>3. CASE artifact_ids' = artifact_ids /\ phase' = "restore"
  <2>1. NewBlob' <=> NewBlob
    BY <1>1, <1>3 DEF NewBlob
  <2> QED
    BY <1>1, <1>3, <2>1, BlobQuiet
<1> QED
  BY <1>2, <1>3 DEF SyncManifest, Refuse, Goto

LEMMA BlobRetire ==
    ASSUME FileInv, FrameInv, BlobInv, Retire
    PROVE  BlobInv'
<1> DEFINE d == Digest[frame]
<1>1. /\ phase = "retire" /\ phase' = "answer" /\ d \in Digests
      /\ UNCHANGED <<frame, blob_created, artifact_ids, crashes, store_state>>
      /\ \/ ~ blob_created /\ UNCHANGED <<blobs, unretired>>
         \/ unretired' = TRUE
         \/ /\ blob_created /\ UNCHANGED unretired /\ blobs' = [blobs EXCEPT ![d] = "none"]
  BY RetireFacts
<1>2. ~ NewBlob'
  BY <1>1 DEF NewBlob
<1>3. CASE ~ blob_created /\ UNCHANGED <<blobs, unretired>>
  <2>1. ~ NewBlob
    BY <1>3 DEF NewBlob
  <2> QED
    BY <1>1, <1>2, <1>3, <2>1, BlobQuiet
<1>4. CASE unretired' = TRUE
  BY <1>1, <1>4 DEF BlobInv
<1>5. CASE blob_created /\ UNCHANGED unretired /\ blobs' = [blobs EXCEPT ![d] = "none"]
  <2>1. NewBlob /\ \A i \in artifact_ids : Digest[i] # d
    BY <1>1, <1>5 DEF NewBlob, FrameInv
  <2>2. blobs'[d] = "none" /\ \A e \in Digests : e # d => blobs'[e] = blobs[e]
    BY <1>1, <1>5 DEF FileInv
  <2>3. Present' = Present \ {d}
    BY <1>1, <2>2 DEF Present
  <2>4. ({Digest[i] : i \in artifact_ids} \cup {d}) \ {d} = {Digest[i] : i \in artifact_ids}
    BY <2>1
  <2> QED
    BY <1>1, <1>2, <1>5, <2>1, <2>3, <2>4 DEF BlobInv
<1> QED
  BY <1>1, <1>3, <1>4, <1>5

LEMMA BlobStep == FileInv /\ RecordInv /\ FrameInv /\ BlobInv /\ [Next]_vars => BlobInv'
<1> SUFFICES ASSUME FileInv, RecordInv, FrameInv, BlobInv, [Next]_vars PROVE BlobInv'
  OBVIOUS
<1>1. ASSUME \/ Header \/ CreateTemporary \/ ReadContent \/ Flush \/ RemoveTemporary
             \/ LinkExisting \/ LinkFails \/ Answer
      PROVE  BlobInv'
  <2>1. /\ phase \in {"idle", "create", "content", "flush", "remove", "link", "answer"}
        /\ phase' \in {"idle", "create", "content", "flush", "remove", "link", "unlink", "answer"}
        /\ phase' = "unlink" => phase = "link" /\ blob_created' = blob_created
        /\ UNCHANGED <<blobs, artifact_ids, crashes, unretired, store_state>>
    BY <1>1 DEF Header, CreateTemporary, ReadContent, Flush, RemoveTemporary, LinkExisting,
         LinkFails, Answer, Goto, Refuse, fileVars, memberVars, boundVars
  <2>2. ~ NewBlob /\ ~ NewBlob'
    BY <2>1 DEF NewBlob, FrameInv
  <2> QED
    BY <2>1, <2>2, BlobQuiet
<1>2. ASSUME Unlink \/ SyncDirectories \/ OpenManifest \/ AppendRecord PROVE BlobInv'
  <2>1. /\ phase \in {"unlink", "sync", "manifest", "append"}
        /\ phase' \in {"sync", "manifest", "append", "fsync", "restore", "retire"}
        /\ UNCHANGED <<blobs, frame, blob_created, artifact_ids, crashes, unretired, store_state>>
    BY <1>2 DEF Unlink, SyncDirectories, OpenManifest, AppendRecord, Goto, Refuse, fileVars,
         memberVars
  <2>2. NewBlob' <=> NewBlob
    BY <2>1 DEF NewBlob
  <2> QED
    BY <2>1, <2>2, BlobQuiet
<1>3. ASSUME Restore PROVE BlobInv'
  <2>1. /\ phase = "restore"
        /\ (phase' = "retire" /\ UNCHANGED store_state)
           \/ (phase' = "answer" /\ store_state' = "failed")
        /\ UNCHANGED <<blobs, frame, blob_created, artifact_ids, crashes, unretired>>
    BY <1>3, RestoreCut
  <2>2. CASE phase' = "retire" /\ UNCHANGED store_state
    <3>1. NewBlob' <=> NewBlob
      BY <2>1, <2>2 DEF NewBlob
    <3> QED
      BY <2>1, <2>2, <3>1, BlobQuiet
  <2>3. CASE store_state' = "failed"
    BY <2>1, <2>3 DEF BlobInv
  <2> QED
    BY <2>1, <2>2, <2>3
<1>4. ASSUME Open PROVE BlobInv'
  <2>1. /\ phase = "down" /\ phase' = "idle" /\ artifact_ids' = Recorded(manifest)
        /\ store_state' = "consistent"
        /\ UNCHANGED <<blobs, crashes, unretired>>
    BY <1>4 DEF Open, Goto
  <2>2. Present' = Present /\ ~ NewBlob'
    BY <2>1 DEF Present, NewBlob
  <2>3. manifest.lines = <<>> => Recorded(manifest) = {}
    BY DEF Recorded
  <2>4. store_state = "consistent"
    BY <2>1 DEF FrameInv
  <2> QED
    BY <2>1, <2>2, <2>3, <2>4 DEF BlobInv
<1>5. ASSUME OpenThrows PROVE BlobInv'
  <2>1. /\ phase = "down" /\ phase' = phase /\ manifest'.lines = manifest.lines
        /\ UNCHANGED <<blobs, crashes, unretired, store_state>>
    BY <1>5, FiledComplete, FileFacts DEF OpenThrows, SetManifest, memberVars
  <2>2. Present' = Present
    BY <2>1 DEF Present
  <2> QED
    BY <2>1, <2>2 DEF BlobInv
<1>6. ASSUME Crash \/ PowerLoss PROVE BlobInv'
  <2>1. crashes' = crashes + 1
    BY <1>6 DEF Crash, PowerLoss, Forget
  <2>2. crashes \in Nat
    BY DEF BlobInv
  <2>3. crashes' \in Nat /\ crashes' # 0
    BY <2>1, <2>2
  <2> QED
    BY <2>3 DEF BlobInv
<1>7. ASSUME UNCHANGED vars PROVE BlobInv'
  BY <1>7 DEF vars, fileVars, memberVars, boundVars, BlobInv, Present, NewBlob
<1> QED
  BY <1>1, <1>2, <1>3, <1>4, <1>5, <1>6, <1>7, BlobLink, BlobSync, BlobRetire DEF Next

----------------------------------------------------------------------------
(* Opening again *)

LEMMA AdmittedStep == FileInv /\ RecordsAdmitted /\ [Next]_vars => RecordsAdmitted'
<1> SUFFICES ASSUME FileInv, RecordsAdmitted, [Next]_vars PROVE RecordsAdmitted'
  OBVIOUS
<1>1. WhyRefused \notin {"manifest", "records"}
  <2>1. ManifestBytes(manifest) <= MaxManifest /\ ManifestBytes(manifest) \in Nat
    <3>1. End(manifest.lines) \in Nat
      BY FileFacts, LineFacts
    <3>2. ManifestBytes(manifest) \in Nat
      BY <3>1 DEF ManifestBytes
    <3> QED
      BY <3>2, FileFacts DEF Filed
  <2>2. Len(manifest.lines) <= MaxArtifacts /\ Once(manifest.lines) /\ Len(manifest.lines) \in Nat
    BY FileFacts, LineFacts DEF Filed
  <2>3. ~ (ManifestBytes(manifest) > MaxManifest) /\ ~ (Len(manifest.lines) > MaxArtifacts)
    BY <2>1, <2>2, Constants
  <2> QED
    BY <2>2, <2>3 DEF WhyRefused
<1>2. ASSUME OpenThrows PROVE RecordsAdmitted'
  BY <1>1, <1>2 DEF OpenThrows, RecordsAdmitted
<1>3. ASSUME Open PROVE RecordsAdmitted'
  BY <1>3 DEF Open, RecordsAdmitted
<1>4. ASSUME ~ Open, ~ OpenThrows PROVE refusal' = refusal
  BY <1>4 DEF Next, vars, Header, CreateTemporary, ReadContent, Flush, RemoveTemporary, Link,
       LinkExisting, LinkFails, Unlink, SyncDirectories, OpenManifest, AppendRecord, SyncManifest,
       Restore, Retire, Answer, Crash, PowerLoss, Forget
<1> QED
  BY <1>2, <1>3, <1>4 DEF RecordsAdmitted

----------------------------------------------------------------------------
(* Sums over finite sets *)

\* Of the subsets of a finite set that are in some way special, one is smallest.
LEMMA SmallestSet ==
    ASSUME NEW T, IsFiniteSet(T), NEW A, A \subseteq SUBSET T, A # {}
    PROVE  \E s \in A : \A t \in A : ~ (Cardinality(t) < Cardinality(s))
<1> DEFINE Sizes == {Cardinality(s) : s \in A}
           R == OpToRel(<, Nat)
<1>1. \A s \in A : IsFiniteSet(s) /\ Cardinality(s) \in Nat
  BY FS_Subset, FS_CardinalityType
<1>2. Sizes \subseteq Nat /\ Sizes # {}
  BY <1>1
<1>3. PICK n \in Sizes : \A m \in Sizes : ~ (<<m, n>> \in R)
  <2> HIDE DEF Sizes
  <2> QED  BY <1>2, NatLessThanWellFounded, WFMin
<1>4. \A m \in Sizes : ~ (m < n)
  BY <1>2, <1>3 DEF OpToRel
<1>5. PICK s \in A : n = Cardinality(s)
  BY <1>3
<1> QED
  BY <1>4, <1>5

\* The library's sum over a set, as the function its definition chooses: from the sum over a
\* subset without one element, the sum over the subset.
First(s) == CHOOSE x \in s : TRUE
Sums(F, T, g) == g = [s \in SUBSET T |->
    IF s = {} THEN 0 ELSE F[First(s)] + g[s \ {First(s)}]]

LEMMA FirstIn == ASSUME NEW s, s # {} PROVE First(s) \in s
BY DEF First

\* There is such a function: one for the subsets of at most n elements, for every n.
LEMMA SumsExist ==
    ASSUME NEW T, IsFiniteSet(T), NEW F
    PROVE  \E g : Sums(F, T, g)
<1> DEFINE Small(n) == {s \in SUBSET T : Cardinality(s) <= n}
           On(n, g) == g = [s \in Small(n) |->
                               IF s = {} THEN 0 ELSE F[First(s)] + g[s \ {First(s)}]]
           Bad == {n \in Nat : ~ \E g : On(n, g)}
           R == OpToRel(<, Nat)
<1>0. \A s \in SUBSET T : IsFiniteSet(s) /\ Cardinality(s) \in Nat /\ (Cardinality(s) = 0 <=> s = {})
  BY FS_Subset, FS_CardinalityType, FS_EmptySet
<1>1. \A s \in SUBSET T : s # {} => /\ First(s) \in s /\ s \ {First(s)} \in SUBSET T
                                    /\ Cardinality(s \ {First(s)}) = Cardinality(s) - 1
  BY <1>0, FirstIn, FS_RemoveElement
<1>2. Bad = {}
  <2> SUFFICES ASSUME Bad # {} PROVE FALSE
    OBVIOUS
  <2>1. Bad \subseteq Nat
    OBVIOUS
  <2>2. PICK n \in Bad : \A m \in Bad : ~ (<<m, n>> \in R)
    <3> HIDE DEF Bad
    <3> QED  BY <2>1, NatLessThanWellFounded, WFMin
  <2>3. n \in Nat /\ \A m \in Nat : m < n => \E g : On(m, g)
    <3>1. \A m \in Bad : ~ (m < n)
      <4> HIDE DEF Bad
      <4> QED BY <2>1, <2>2 DEF OpToRel
    <3> HIDE DEF On
    <3> QED  BY <3>1
  <2>4. CASE n = 0
    <3>1. Small(n) = {{}}
      <4>1. \A s \in Small(n) : s = {}
        BY <1>0, <2>4
      <4>2. {} \in Small(n)
        BY <1>0, <2>4
      <4> QED BY <4>1, <4>2
    <3>2. On(n, [s \in Small(n) |-> 0])
      <4> HIDE DEF Small
      <4> QED BY <3>1
    <3> QED  BY <3>2
  <2>5. CASE n # 0
    <3>1. n - 1 \in Nat /\ n - 1 < n
      BY <2>3, <2>5
    <3>2. PICK g : On(n - 1, g)
      BY <2>3, <3>1
    <3> DEFINE h == [s \in Small(n) |-> IF s = {} THEN 0 ELSE F[First(s)] + g[s \ {First(s)}]]
    <3>3. \A s \in Small(n) : s # {} => s \ {First(s)} \in Small(n - 1) /\ s \ {First(s)} \in Small(n)
      BY <1>0, <1>1, <2>3
    <3>4. \A s \in Small(n - 1) : s \in Small(n)
      BY <1>0, <2>3, <3>1
    <3>5. \A s \in Small(n - 1) : h[s] = g[s]
      <4> SUFFICES ASSUME NEW s \in Small(n - 1) PROVE h[s] = g[s]
        OBVIOUS
      <4>1. s \in Small(n)
        BY <3>4
      <4>2. h[s] = IF s = {} THEN 0 ELSE F[First(s)] + g[s \ {First(s)}]
        <5> HIDE DEF Small
        <5> QED BY <4>1
      <4>3. g[s] = IF s = {} THEN 0 ELSE F[First(s)] + g[s \ {First(s)}]
        <5> HIDE DEF Small, h
        <5> QED BY <3>2
      <4> QED  BY <4>2, <4>3
    <3>6. \A s \in Small(n) : s # {} => h[s \ {First(s)}] = g[s \ {First(s)}]
      <4> HIDE DEF h, Small
      <4> QED  BY <3>3, <3>5
    <3>7. On(n, h)
      <4> HIDE DEF Small
      <4> QED  BY <3>6
    <3> QED
      <4> HIDE DEF h, On
      <4> QED BY <3>7
  <2> QED  BY <2>4, <2>5
<1>3. Cardinality(T) \in Nat /\ Small(Cardinality(T)) = SUBSET T
  BY <1>0, FS_Subset, FS_CardinalityType
<1>4. PICK g : On(Cardinality(T), g)
  <2> HIDE DEF On
  <2> QED BY <1>2, <1>3
<1>5. Sums(F, T, g)
  <2> HIDE DEF Small
  <2> QED  BY <1>3, <1>4 DEF Sums
<1> QED  BY <1>5

\* Whichever element is left out, the sum is that element's share and the sum of the others.
LEMMA SumsAny ==
    ASSUME NEW T, IsFiniteSet(T), NEW F, \A x \in T : F[x] \in Nat, NEW g, Sums(F, T, g)
    PROVE  \A s \in SUBSET T : g[s] \in Nat /\ \A x \in s : g[s] = F[x] + g[s \ {x}]
<1> DEFINE Right(s) == g[s] \in Nat /\ \A x \in s : g[s] = F[x] + g[s \ {x}]
           Wrong == {s \in SUBSET T : ~ Right(s)}
<1>1. \A s \in SUBSET T : g[s] = IF s = {} THEN 0 ELSE F[First(s)] + g[s \ {First(s)}]
  BY DEF Sums
<1>2. \A s \in SUBSET T : \A x \in s :
         Cardinality(s \ {x}) < Cardinality(s) /\ s \ {x} \in SUBSET T
  <2> SUFFICES ASSUME NEW s \in SUBSET T, NEW x \in s
               PROVE  Cardinality(s \ {x}) < Cardinality(s)
    OBVIOUS
  <2>1. IsFiniteSet(s) /\ Cardinality(s) \in Nat
    BY FS_Subset, FS_CardinalityType
  <2>2. Cardinality(s \ {x}) = Cardinality(s) - 1
    BY <2>1, FS_RemoveElement
  <2> QED  BY <2>1, <2>2
<1>3. Wrong = {}
  <2> SUFFICES ASSUME Wrong # {} PROVE FALSE
    OBVIOUS
  <2>1. PICK s \in Wrong : \A t \in Wrong : ~ (Cardinality(t) < Cardinality(s))
    <3>1. Wrong \subseteq SUBSET T
      OBVIOUS
    <3> HIDE DEF Wrong
    <3> QED  BY <3>1, SmallestSet
  <2>2. s \in SUBSET T /\ \A t \in SUBSET T : Cardinality(t) < Cardinality(s) => Right(t)
    <3> HIDE DEF Right
    <3> QED  BY <2>1
  <2>3. CASE s = {}
    BY <1>1, <2>1, <2>3
  <2>4. CASE s # {}
    <3> DEFINE y == First(s)
    <3>1. y \in s /\ y \in T /\ F[y] \in Nat
      BY <2>2, <2>4, FirstIn
    <3>2. g[s] = F[y] + g[s \ {y}] /\ Right(s \ {y})
      <4>1. g[s] = F[y] + g[s \ {y}]
        BY <1>1, <2>2, <2>4
      <4> HIDE DEF Right, y
      <4> QED BY <4>1, <1>2, <2>2, <3>1
    <3>3. g[s] \in Nat
      <4> HIDE DEF y
      <4> QED BY <3>1, <3>2
    <3>4. ASSUME NEW x \in s, x # y PROVE g[s] = F[x] + g[s \ {x}]
      <4>1. Right(s \ {x})
        <5> HIDE DEF Right
        <5> QED  BY <1>2, <2>2
      <4>2. F[x] \in Nat /\ x \in s \ {y} /\ y \in s \ {x}
        <5> HIDE DEF y
        <5> QED BY <2>2, <3>1, <3>4
      <4> HIDE DEF y
      <4>3. g[s \ {y}] = F[x] + g[(s \ {y}) \ {x}]
        BY <3>2, <4>2
      <4>4. g[s \ {x}] = F[y] + g[(s \ {x}) \ {y}]
        BY <4>1, <4>2
      <4>5. (s \ {y}) \ {x} = (s \ {x}) \ {y}
        OBVIOUS
      <4>6. g[(s \ {y}) \ {x}] \in Nat
        <5>1. s \ {y} \in SUBSET T /\ (s \ {y}) \ {x} \in SUBSET T
          BY <2>2
        <5>2. Cardinality((s \ {y}) \ {x}) < Cardinality(s \ {y})
          BY <1>2, <5>1, <4>2
        <5>3. Cardinality(s \ {y}) < Cardinality(s)
          BY <1>2, <2>2, <3>1
        <5>4. /\ Cardinality((s \ {y}) \ {x}) \in Nat /\ Cardinality(s \ {y}) \in Nat
              /\ Cardinality(s) \in Nat
          BY <5>1, <2>2, FS_Subset, FS_CardinalityType
        <5>5. Cardinality((s \ {y}) \ {x}) < Cardinality(s)
          BY <5>2, <5>3, <5>4
        <5>6. Right((s \ {y}) \ {x})
          <6> HIDE DEF Right
          <6> QED BY <2>2, <5>1, <5>5
        <5> QED  BY <5>6
      <4>7. g[s] = F[y] + (F[x] + g[(s \ {y}) \ {x}])
        BY <3>2, <4>3
      <4>8. g[s \ {x}] = F[y] + g[(s \ {y}) \ {x}]
        BY <4>4, <4>5
      <4> QED
        BY <3>1, <4>2, <4>6, <4>7, <4>8
    <3>5. Right(s)
      BY <3>2, <3>3, <3>4
    <3> QED  BY <2>1, <3>5
  <2> QED  BY <2>3, <2>4
<1> QED  BY <1>3

\* The sums over the subsets of a smaller set are the same.
LEMMA SumsAgree ==
    ASSUME NEW T, IsFiniteSet(T), NEW S, S \subseteq T, NEW F, NEW g, NEW h,
           Sums(F, S, g), Sums(F, T, h)
    PROVE  \A s \in SUBSET S : g[s] = h[s]
<1> DEFINE Wrong == {s \in SUBSET S : g[s] # h[s]}
<1>1. \A s \in SUBSET S :
         /\ g[s] = IF s = {} THEN 0 ELSE F[First(s)] + g[s \ {First(s)}]
         /\ h[s] = IF s = {} THEN 0 ELSE F[First(s)] + h[s \ {First(s)}]
  BY DEF Sums
<1>2. Wrong = {}
  <2> SUFFICES ASSUME Wrong # {} PROVE FALSE
    OBVIOUS
  <2>1. PICK s \in Wrong : \A t \in Wrong : ~ (Cardinality(t) < Cardinality(s))
    <3>1. Wrong \subseteq SUBSET S /\ IsFiniteSet(S)
      BY FS_Subset
    <3> HIDE DEF Wrong
    <3> QED  BY <3>1, SmallestSet
  <2>2. s # {}
    BY <1>1, <2>1
  <2> DEFINE x == First(s)
  <2>3. x \in s /\ s \ {x} \in SUBSET S
    BY <2>1, <2>2, FirstIn
  <2>4. Cardinality(s \ {x}) < Cardinality(s)
    <3>1. IsFiniteSet(s) /\ Cardinality(s) \in Nat
      BY <2>1, FS_Subset, FS_CardinalityType
    <3>2. Cardinality(s \ {x}) = Cardinality(s) - 1
      <4> HIDE DEF x
      <4> QED BY <2>3, <3>1, FS_RemoveElement
    <3> QED  BY <3>1, <3>2
  <2>5. g[s \ {x}] = h[s \ {x}]
    BY <2>1, <2>3, <2>4
  <2> QED  BY <1>1, <2>1, <2>2, <2>5
<1> QED  BY <1>2

----------------------------------------------------------------------------
(* The bytes of a set of blobs *)

BytesOf(P) == MapThenSumSet(LAMBDA d : Size[d], P)

\* The library sums as the function above does.
LEMMA BytesAreSums ==
    ASSUME NEW P, IsFiniteSet(P)
    PROVE  \E g : Sums(Size, P, g) /\ BytesOf(P) = g[P]
<1> DEFINE G == CHOOSE g : Sums(Size, P, g)
<1>1. Sums(Size, P, G)
  BY SumsExist
<1>2. BytesOf(P) = G[P]
  BY DEF BytesOf, MapThenSumSet, MapThenFoldSet, Sums, First
<1> QED  BY <1>1, <1>2

\* A blob more is its size more.
LEMMA BytesOfMore ==
    ASSUME NEW P \in SUBSET Digests, NEW d \in Digests \ P, IsFiniteSet(Digests)
    PROVE  BytesOf(P) \in Nat /\ BytesOf(P \cup {d}) = BytesOf(P) + Size[d] /\ Size[d] \in Nat
<1> DEFINE Q == P \cup {d}
<1>1. \A x \in Digests : Size[x] \in Nat
  BY ContentAssumption
<1>2. IsFiniteSet(P) /\ IsFiniteSet(Q) /\ P \subseteq Q /\ Q \subseteq Digests
  BY FS_Subset
<1>3. PICK g : Sums(Size, P, g) /\ BytesOf(P) = g[P]
  BY <1>2, BytesAreSums
<1>4. PICK h : Sums(Size, Q, h) /\ BytesOf(Q) = h[Q]
  <2> HIDE DEF Q
  <2> QED BY <1>2, BytesAreSums
<1>5. g[P] = h[P]
  <2> HIDE DEF Q
  <2> QED BY <1>2, <1>3, <1>4, SumsAgree
<1>6. g[P] \in Nat
  BY <1>1, <1>2, <1>3, SumsAny
<1>7. h[Q] = Size[d] + h[Q \ {d}]
  <2>1. d \in Q /\ \A x \in Q : Size[x] \in Nat
    BY <1>1
  <2> HIDE DEF Q
  <2>2. \A s \in SUBSET Q : h[s] \in Nat /\ \A x \in s : h[s] = Size[x] + h[s \ {x}]
    BY <2>1, <1>2, <1>4, SumsAny
  <2> QED  BY <2>1, <2>2
<1>8. Q \ {d} = P
  OBVIOUS
<1>9. h[Q] = Size[d] + h[P]
  BY <1>7, <1>8
<1>10. Size[d] \in Nat
  BY <1>1
<1>11. BytesOf(Q) = Size[d] + BytesOf(P) /\ BytesOf(P) \in Nat
  <2> HIDE DEF Q
  <2> QED  BY <1>3, <1>4, <1>5, <1>6, <1>9
<1>12. BytesOf(Q) = BytesOf(P) + Size[d]
  <2> HIDE DEF Q
  <2> QED  BY <1>10, <1>11
<1> QED  BY <1>10, <1>11, <1>12

LEMMA NoBytes == BytesOf({}) = 0
<1>1. PICK g : Sums(Size, {}, g) /\ BytesOf({}) = g[{}]
  BY BytesAreSums, FS_EmptySet
<1> QED  BY <1>1 DEF Sums

LEMMA FinitelyMany == IsFiniteSet(Digests)
<1>1. IsFiniteSet(Ids) /\ Digest \in [Ids -> Digests]
  BY ContentAssumption
<1>2. \A d \in Digests : \E i \in Ids : Digest[i] = d
  BY <1>1 DEF Digests, Range
<1>3. Digest \in Surjection(Ids, Digests)
  BY <1>1, <1>2 DEF Surjection
<1> QED
  BY <1>1, <1>3, FS_Surjection

\* What the store counts, before and after a step.
LEMMA BlobBytesFacts ==
    /\ BlobBytes = BytesOf(Present) /\ BlobBytes \in Nat
    /\ BlobBytes' = BytesOf(Present') /\ BlobBytes' \in Nat
<1>1. \A P \in SUBSET Digests : BytesOf(P) \in Nat
  <2> SUFFICES ASSUME NEW P \in SUBSET Digests PROVE BytesOf(P) \in Nat
    OBVIOUS
  <2>1. PICK g : Sums(Size, P, g) /\ BytesOf(P) = g[P]
    BY FinitelyMany, FS_Subset, BytesAreSums
  <2>2. IsFiniteSet(P) /\ \A x \in P : Size[x] \in Nat
    BY FinitelyMany, FS_Subset, ContentAssumption
  <2>3. \A s \in SUBSET P : g[s] \in Nat
    BY <2>1, <2>2, SumsAny
  <2> QED  BY <2>1, <2>3
<1>2. Present \subseteq Digests /\ Present' \subseteq Digests
  BY DEF Present
<1>3. BlobBytes = BytesOf(Present)
  BY DEF BlobBytes, BytesOf
<1>4. BlobBytes' = BytesOf(Present')
  BY DEF BlobBytes, BytesOf, MapThenSumSet, MapThenFoldSet
<1> QED  BY <1>1, <1>2, <1>3, <1>4

LEMMA BytesKept == ASSUME UNCHANGED blobs PROVE BlobBytes' = BlobBytes
<1>1. Present' = Present
  BY DEF Present
<1> QED  BY <1>1, BlobBytesFacts

LEMMA AccountInit == Init => AccountInv
<1> SUFFICES ASSUME Init PROVE AccountInv
  OBVIOUS
<1>1. Present = {}
  BY DEF Init, Present
<1>2. BlobBytes = 0 /\ MaxStore \in Nat
  BY <1>1, BlobBytesFacts, NoBytes, LimitsAssumption
<1>3. stored_bytes = 0 /\ phase = "down"
  BY DEF Init
<1> QED  BY <1>2, <1>3 DEF AccountInv, NewBlob

\* Making a blob and retiring one change the count by its size.
LEMMA AccountLink ==
    ASSUME FileInv, FrameInv, AccountInv, Link
    PROVE  AccountInv'
<1> DEFINE d == Digest[frame]
<1>1. /\ phase = "link" /\ phase' = "unlink" /\ blobs[d] = "none" /\ frame' = frame
      /\ blobs' = [blobs EXCEPT ![d] = part[frame]]
      /\ stored_bytes' = stored_bytes + Size[d] /\ power_lost' = power_lost
  BY DEF Link, SetBlob, Goto
<1>2. part[frame] = "flushed" /\ d \in Digests
  BY <1>1, Constants DEF FrameInv
<1>3. blobs'[d] = "flushed" /\ \A e \in Digests : e # d => blobs'[e] = blobs[e]
  BY <1>1, <1>2 DEF FileInv
<1>4. Present' = Present \cup {d} /\ d \notin Present /\ Present \subseteq Digests
  BY <1>1, <1>2, <1>3 DEF Present
<1>5. BlobBytes' = BlobBytes + Size[d] /\ BlobBytes \in Nat /\ Size[d] \in Nat
  BY <1>2, <1>4, BlobBytesFacts, BytesOfMore, FinitelyMany
<1>6. stored_bytes = BlobBytes /\ Size[d] <= MaxStore - stored_bytes /\ MaxStore \in Nat
  BY <1>1, LimitsAssumption DEF AccountInv
<1>7. stored_bytes' = BlobBytes' /\ BlobBytes' <= MaxStore
  BY <1>1, <1>5, <1>6
<1>8. blobs'[Digest[frame']] # "none"
  BY <1>1, <1>3
<1> QED
  BY <1>1, <1>7, <1>8 DEF AccountInv

LEMMA AccountRetire ==
    ASSUME FileInv, FrameInv, AccountInv, Retire
    PROVE  AccountInv'
<1> DEFINE d == Digest[frame]
<1>1. /\ phase = "retire" /\ phase' = "answer" /\ d \in Digests /\ power_lost' = power_lost
      /\ \/ UNCHANGED <<blobs, stored_bytes>>
         \/ /\ blob_created /\ blobs' = [blobs EXCEPT ![d] = "none"]
            /\ stored_bytes' = stored_bytes - Size[d]
  <2>1. phase = "retire" /\ d \in Digests /\ phase' = "answer"
    BY RetireFacts
  <2> QED
    BY <2>1 DEF Retire, fileVars
<1>2. stored_bytes = BlobBytes /\ (power_lost \/ BlobBytes <= MaxStore) /\ MaxStore \in Nat
  BY <1>1, LimitsAssumption DEF AccountInv
<1>3. stored_bytes' = BlobBytes' /\ BlobBytes' <= BlobBytes
  <2>1. CASE UNCHANGED <<blobs, stored_bytes>>
    BY <1>2, <2>1, BytesKept, BlobBytesFacts
  <2>2. CASE /\ blob_created /\ blobs' = [blobs EXCEPT ![d] = "none"]
             /\ stored_bytes' = stored_bytes - Size[d]
    <3>1. blobs[d] # "none"
      BY <1>1, <2>2 DEF AccountInv, NewBlob
    <3>2. blobs'[d] = "none" /\ \A e \in Digests : e # d => blobs'[e] = blobs[e]
      BY <1>1, <2>2 DEF FileInv
    <3>3. Present = Present' \cup {d} /\ d \notin Present' /\ Present' \subseteq Digests
      BY <1>1, <3>1, <3>2 DEF Present
    <3>4. BytesOf(Present' \cup {d}) = BytesOf(Present') + Size[d] /\ Size[d] \in Nat
      BY <1>1, <3>3, BytesOfMore, FinitelyMany
    <3>5. BlobBytes = BlobBytes' + Size[d]
      BY <3>3, <3>4, BlobBytesFacts
    <3> QED  BY <1>2, <2>2, <3>4, <3>5, BlobBytesFacts
  <2> QED  BY <1>1, <2>1, <2>2
<1>4. power_lost \/ BlobBytes' <= MaxStore
  BY <1>2, <1>3, BlobBytesFacts
<1> QED
  BY <1>1, <1>3, <1>4 DEF AccountInv, NewBlob

\* A frame is admitted only if it fits beside the blobs there are.
LEMMA AccountHeader ==
    ASSUME FrameInv, AccountInv, Header
    PROVE  AccountInv'
<1>1. /\ phase = "idle" /\ UNCHANGED <<blobs, stored_bytes, power_lost, blob_created>>
      /\ phase' \in {"create", "answer"} /\ ~ blob_created
  BY DEF Header, fileVars, memberVars, FrameInv
<1>2. phase' = "create" => frame' \in Ids /\ Refusal(frame') = "none"
  BY DEF Header
<1>3. stored_bytes = BlobBytes /\ BlobBytes \in Nat /\ BlobBytes' = BlobBytes /\ MaxStore \in Nat
  BY <1>1, BytesKept, BlobBytesFacts, LimitsAssumption DEF AccountInv
<1>4. phase' = "create" => Size[Digest[frame']] <= MaxStore - stored_bytes
  <2> SUFFICES ASSUME phase' = "create" PROVE Size[Digest[frame']] <= MaxStore - stored_bytes
    OBVIOUS
  <2>1. ~ (Size[Digest[frame']] > MaxStore - stored_bytes)
    BY <1>2 DEF Refusal
  <2>2. Size[Digest[frame']] \in Nat
    BY <1>2, Constants, ContentAssumption
  <2> QED  BY <1>3, <2>1, <2>2
<1> QED
  BY <1>1, <1>3, <1>4 DEF AccountInv, NewBlob

\* Every other step of ReceiveOne leaves the blobs and their count alone.
LEMMA AccountQuiet ==
    ASSUME FrameInv, AccountInv,
           \/ CreateTemporary \/ ReadContent \/ Flush \/ RemoveTemporary
           \/ LinkExisting \/ LinkFails \/ Unlink \/ SyncDirectories \/ OpenManifest
           \/ AppendRecord \/ SyncManifest \/ Restore \/ Answer
    PROVE  AccountInv'
<1> DEFINE Before == {"create", "content", "flush", "link"}
           After == {"unlink", "sync", "manifest", "append", "fsync", "restore", "retire"}
<1>1. /\ UNCHANGED <<blobs, stored_bytes, power_lost>>
      /\ phase # "down" /\ phase' # "down"
  BY DEF CreateTemporary, ReadContent, Flush, RemoveTemporary, LinkExisting, LinkFails, Unlink,
     SyncDirectories, OpenManifest, AppendRecord, SyncManifest, Restore, Answer, Goto, Refuse,
     fileVars, memberVars, boundVars
<1>2. phase' \in Before => phase \in Before /\ frame' = frame
  BY DEF CreateTemporary, ReadContent, Flush, RemoveTemporary, LinkExisting, LinkFails, Unlink,
     SyncDirectories, OpenManifest, AppendRecord, SyncManifest, Restore, Answer, Goto, Refuse
<1>3. NewBlob' => NewBlob /\ frame' = frame
  <2>1. CASE \/ CreateTemporary \/ ReadContent \/ Flush \/ RemoveTemporary \/ LinkFails \/ Answer
    BY <2>1 DEF CreateTemporary, ReadContent, Flush, RemoveTemporary, LinkFails, Answer, Goto,
       Refuse, NewBlob
  <2>2. CASE LinkExisting
    BY <2>2 DEF LinkExisting, FrameInv, NewBlob
  <2>3. CASE \/ Unlink \/ SyncDirectories \/ OpenManifest \/ AppendRecord \/ SyncManifest \/ Restore
    BY <2>3 DEF Unlink, SyncDirectories, OpenManifest, AppendRecord, SyncManifest, Restore,
       NewBlob
  <2> QED  BY <2>1, <2>2, <2>3
<1>4. BlobBytes' = BlobBytes
  BY <1>1, BytesKept
<1>5. stored_bytes' = BlobBytes' /\ (power_lost' \/ BlobBytes' <= MaxStore)
  BY <1>1, <1>4 DEF AccountInv
<1>6. phase' \in Before => Size[Digest[frame']] <= MaxStore - stored_bytes'
  BY <1>1, <1>2 DEF AccountInv
<1>7. NewBlob' => blobs'[Digest[frame']] # "none"
  BY <1>1, <1>3 DEF AccountInv
<1> QED
  BY <1>1, <1>5, <1>6, <1>7 DEF AccountInv

LEMMA AccountStep == FileInv /\ FrameInv /\ AccountInv /\ [Next]_vars => AccountInv'
<1> SUFFICES ASSUME FileInv, FrameInv, AccountInv, [Next]_vars PROVE AccountInv'
  OBVIOUS
<1>1. ASSUME Open PROVE AccountInv'
  <2>1. /\ WhyRefused = "none" /\ phase' = "idle" /\ stored_bytes' = BlobBytes
        /\ UNCHANGED <<blobs, power_lost>>
    BY <1>1 DEF Open, Goto
  <2>2. ~ (BlobBytes > MaxStore)
    BY <2>1 DEF WhyRefused
  <2>3. BlobBytes' = BlobBytes /\ BlobBytes <= MaxStore
    BY <2>1, <2>2, BytesKept, BlobBytesFacts, LimitsAssumption
  <2> QED
    BY <2>1, <2>3 DEF AccountInv, NewBlob
<1>2. ASSUME OpenThrows \/ UNCHANGED vars PROVE AccountInv'
  <2>1. UNCHANGED <<blobs, phase, frame, blob_created, stored_bytes, power_lost>>
    BY <1>2 DEF OpenThrows, vars, fileVars, memberVars, boundVars
  <2>2. BlobBytes' = BlobBytes
    BY <2>1, BytesKept
  <2> QED
    BY <2>1, <2>2 DEF AccountInv, NewBlob
<1>3. ASSUME Crash PROVE AccountInv'
  <2>1. phase' = "down" /\ stored_bytes' = 0 /\ UNCHANGED <<blobs, power_lost>>
    BY <1>3 DEF Crash, Forget, fileVars
  <2>2. BlobBytes' = BlobBytes
    BY <2>1, BytesKept
  <2> QED
    BY <2>1, <2>2 DEF AccountInv, NewBlob
<1>4. ASSUME PowerLoss PROVE AccountInv'
  BY <1>4 DEF PowerLoss, Forget, AccountInv, NewBlob
<1> QED
  BY <1>1, <1>2, <1>3, <1>4, AccountLink, AccountRetire, AccountHeader, AccountQuiet DEF Next

\* The constructor refuses the blobs only after a loss of power.
LEMMA ReopenStep ==
    AccountInv /\ BlobsAdmitted /\ [Next]_vars => BlobsAdmitted'
<1> SUFFICES ASSUME AccountInv, BlobsAdmitted, [Next]_vars PROVE BlobsAdmitted'
  OBVIOUS
<1>1. WhyRefused = "blobs" => power_lost
  <2>1. WhyRefused = "blobs" => BlobBytes > MaxStore
    BY DEF WhyRefused
  <2> QED
    BY <2>1, BlobBytesFacts, LimitsAssumption DEF AccountInv
<1>2. ASSUME OpenThrows PROVE BlobsAdmitted'
  BY <1>1, <1>2 DEF OpenThrows, BlobsAdmitted
<1>3. ASSUME Open PROVE BlobsAdmitted'
  BY <1>3 DEF Open, BlobsAdmitted
<1>4. ASSUME ~ Open, ~ OpenThrows PROVE refusal' = refusal /\ (power_lost => power_lost')
  BY <1>4 DEF Next, vars, boundVars, Header, CreateTemporary, ReadContent, Flush, RemoveTemporary,
       Link, LinkExisting, LinkFails, Unlink, SyncDirectories, OpenManifest, AppendRecord,
       SyncManifest, Restore, Retire, Answer, Crash, PowerLoss, Forget
<1> QED
  BY <1>2, <1>3, <1>4 DEF BlobsAdmitted

----------------------------------------------------------------------------
(* Types *)

LEMMA TypeInit == Init => TypeOK
<1> SUFFICES ASSUME Init PROVE TypeOK
  OBVIOUS
<1>1. IsFiniteSet({}) /\ Cardinality({}) = 0
  BY FS_EmptySet
<1>2. /\ part \in [Ids -> PartStates] /\ blobs \in [Digests -> BlobStates]
      /\ maybe_part \in [Ids -> (SUBSET PartStates) \ {{}}]
      /\ maybe_blob \in [Digests -> (SUBSET BlobStates) \ {{}}] /\ maybe_manifest # {}
  BY DEF Init, PartStates, BlobStates
<1>3. manifest.lines \in Seq(Line) /\ manifest.tail \in BOOLEAN
  BY EmptySeq DEF Init, Empty
<1>4. /\ stored_bytes \in 0 .. MaxStore /\ manifest_bytes \in 0 .. MaxManifest
      /\ Cardinality(artifact_ids) <= MaxArtifacts
  BY <1>1, LimitsAssumption DEF Init
<1>5. frames \in 0 .. MaxFrames /\ failures \in 0 .. MaxFailures /\ crashes \in 0 .. MaxCrashes
  BY BoundsAssumption DEF Init
<1>6. /\ phase \in Phases /\ frame \in Ids \cup {NoFrame} /\ status \in Statuses
      /\ blob_created \in BOOLEAN /\ artifact_ids \subseteq Ids
      /\ store_state \in {"consistent", "failed"}
      /\ refusal \in {"none", "io", "linked", "blobs", "manifest", "records"}
      /\ acked \subseteq Ids /\ unretired \in BOOLEAN /\ power_lost \in BOOLEAN
  BY DEF Init, Phases, Statuses
<1> QED
  BY <1>2, <1>3, <1>4, <1>5, <1>6 DEF TypeOK

\* What a loss of power may leave of the temporary files and the blobs is never nothing.
LEMMA TypeFiles ==
    ASSUME TypeOK, FileInv, FileInv', [Next]_vars
    PROVE  /\ part' \in [Ids -> PartStates] /\ blobs' \in [Digests -> BlobStates]
           /\ manifest'.lines \in Seq(Line) /\ manifest'.tail \in BOOLEAN
           /\ maybe_part' \in [Ids -> (SUBSET PartStates) \ {{}}]
           /\ maybe_blob' \in [Digests -> (SUBSET BlobStates) \ {{}}] /\ maybe_manifest' # {}
<1>1. part' \in [Ids -> PartStates] /\ blobs' \in [Digests -> BlobStates]
  BY DEF FileInv
<1>2. maybe_manifest' # {}
  BY DEF FileInv
<1>3. manifest'.lines \in Seq(Line) /\ manifest'.tail \in BOOLEAN
  <2>1. Filed(manifest)'
    BY DEF FileInv
  <2> QED  BY <2>1 DEF Filed
<1>4. maybe_blob' \in [Digests -> (SUBSET BlobStates) \ {{}}]
  <2>1. maybe_blob' \in [Digests -> SUBSET {"none", "flushed"}]
    BY DEF FileInv
  <2>2. \A d \in Digests : maybe_blob'[d] # {}
    BY DEF FileInv
  <2>3. {"none", "flushed"} \subseteq BlobStates
    BY DEF BlobStates
  <2> QED  BY <2>1, <2>2, <2>3
<1>5. maybe_part' \in [Ids -> (SUBSET PartStates) \ {{}}]
  <2>1. maybe_part \in [Ids -> (SUBSET PartStates) \ {{}}]
    BY DEF TypeOK
  <2>2. ASSUME NEW i, NEW state \in PartStates, SetPart(i, state)
        PROVE  maybe_part' \in [Ids -> (SUBSET PartStates) \ {{}}]
    BY <2>1, <2>2 DEF SetPart
  <2>3. {"none", "partial", "whole", "flushed", "linked"} \subseteq PartStates
    BY DEF PartStates
  <2>4. ASSUME CreateTemporary \/ ReadContent \/ Flush \/ RemoveTemporary \/ Link \/ Unlink \/ Retire
        PROVE  maybe_part' \in [Ids -> (SUBSET PartStates) \ {{}}]
    BY <2>1, <2>2, <2>3, <2>4 DEF CreateTemporary, ReadContent, Flush, RemoveTemporary, Link,
       Unlink, Retire, lossVars
  <2>5. ASSUME PowerLoss \/ SyncDirectories
        PROVE  maybe_part' \in [Ids -> (SUBSET PartStates) \ {{}}]
    <3>1. maybe_part' = maybe_part \/ maybe_part' = [i \in Ids |-> {part'[i]}]
      BY <2>5 DEF PowerLoss, SyncDirectories, fileVars
    <3>2. \A i \in Ids : part'[i] \in PartStates
      BY <1>1
    <3> QED  BY <2>1, <3>1, <3>2
  <2>6. ASSUME ~ (CreateTemporary \/ ReadContent \/ Flush \/ RemoveTemporary \/ Link \/ Unlink
                  \/ Retire \/ PowerLoss \/ SyncDirectories)
        PROVE  maybe_part' = maybe_part
    BY <2>6 DEF Next, vars, lossVars, Open, OpenThrows, Header, LinkExisting, LinkFails,
       OpenManifest, AppendRecord, SyncManifest, Restore, Answer, Crash
  <2> QED  BY <2>1, <2>4, <2>5, <2>6
<1> QED
  BY <1>1, <1>2, <1>3, <1>4, <1>5

\* The counts stay in their limits.
LEMMA TypeLimits ==
    ASSUME TypeOK, FileInv, RecordInv, FrameInv, AccountInv, AccountInv', [Next]_vars
    PROVE  /\ stored_bytes' \in 0 .. MaxStore /\ manifest_bytes' \in 0 .. MaxManifest
           /\ artifact_ids' \subseteq Ids /\ Cardinality(artifact_ids') <= MaxArtifacts
<1>1. stored_bytes' \in 0 .. MaxStore
  <2>1. stored_bytes' \in Nat
    BY BlobBytesFacts DEF AccountInv
  <2>2. stored_bytes \in Nat /\ stored_bytes <= MaxStore /\ MaxStore \in Nat
    BY LimitsAssumption DEF TypeOK
  <2>3. stored_bytes' <= MaxStore
    <3>1. ASSUME Open PROVE stored_bytes' <= MaxStore
      <4>1. ~ (BlobBytes > MaxStore) /\ stored_bytes' = BlobBytes
        BY <3>1 DEF Open, WhyRefused
      <4> QED  BY <4>1, <2>2, BlobBytesFacts
    <3>2. ASSUME Link PROVE stored_bytes' <= MaxStore
      <4>1. /\ phase = "link" /\ stored_bytes' = stored_bytes + Size[Digest[frame]]
            /\ frame \in Ids
        BY <3>2 DEF Link, FrameInv
      <4>2. Size[Digest[frame]] <= MaxStore - stored_bytes
        BY <4>1 DEF AccountInv
      <4>3. Size[Digest[frame]] \in Nat
        BY <4>1, Constants, ContentAssumption
      <4> QED  BY <4>1, <4>2, <4>3, <2>2
    <3>3. ASSUME Retire PROVE stored_bytes' <= MaxStore
      <4>1. phase = "retire" /\ frame \in Ids
        BY <3>3 DEF Retire, FrameInv
      <4>2. Size[Digest[frame]] \in Nat
        BY <4>1, Constants, ContentAssumption
      <4>3. stored_bytes' = stored_bytes \/ stored_bytes' = stored_bytes - Size[Digest[frame]]
        BY <3>3 DEF Retire
      <4> QED  BY <4>2, <4>3, <2>2
    <3>4. ASSUME Crash \/ PowerLoss PROVE stored_bytes' <= MaxStore
      BY <3>4, <2>2 DEF Crash, PowerLoss, Forget
    <3>5. ASSUME ~ (Open \/ Link \/ Retire \/ Crash \/ PowerLoss) PROVE stored_bytes' = stored_bytes
      BY <3>5 DEF Next, vars, memberVars, OpenThrows, Header, CreateTemporary, ReadContent, Flush,
         RemoveTemporary, LinkExisting, LinkFails, Unlink, SyncDirectories, OpenManifest,
         AppendRecord, SyncManifest, Restore, Answer
    <3> QED  BY <2>2, <3>1, <3>2, <3>3, <3>4, <3>5
  <2> QED  BY <2>1, <2>2, <2>3
<1>2. /\ manifest_bytes \in 0 .. MaxManifest /\ artifact_ids \subseteq Ids
      /\ Cardinality(artifact_ids) <= MaxArtifacts
  BY DEF TypeOK
<1>3. ASSUME Open
      PROVE  /\ manifest_bytes' \in 0 .. MaxManifest /\ artifact_ids' \subseteq Ids
             /\ Cardinality(artifact_ids') <= MaxArtifacts
  <2>1. /\ manifest_bytes' = ManifestBytes(Complete(manifest))
        /\ artifact_ids' = Recorded(manifest)
    BY <1>3 DEF Open
  <2>2. Filed(manifest) /\ Filed(Complete(manifest))
    BY FileFacts, FiledComplete
  <2>3. ManifestBytes(Complete(manifest)) \in Nat
    BY <2>2, FiledFacts, LineFacts DEF ManifestBytes
  <2>4. ManifestBytes(Complete(manifest)) <= MaxManifest /\ Len(manifest.lines) <= MaxArtifacts
    BY <2>2 DEF Filed
  <2> QED
    BY <2>1, <2>2, <2>3, <2>4, RecordedCount, FiledFacts, Constants
<1>4. ASSUME SyncManifest
      PROVE  /\ manifest_bytes' \in 0 .. MaxManifest /\ artifact_ids' \subseteq Ids
             /\ Cardinality(artifact_ids') <= MaxArtifacts
  <2>1. CASE UNCHANGED <<manifest_bytes, artifact_ids>>
    BY <1>2, <2>1
  <2>2. CASE /\ manifest_bytes' = manifest_bytes + RecordBytes[frame]
             /\ artifact_ids' = artifact_ids \cup {frame}
    <3>1. /\ phase = "fsync" /\ frame \in Ids /\ store_state = "consistent"
          /\ frame \notin artifact_ids /\ Cardinality(artifact_ids) < MaxArtifacts
      BY <1>4 DEF SyncManifest, FrameInv
    <3>2. IsFiniteSet(artifact_ids) /\ Cardinality(artifact_ids) \in Nat
      BY <1>2, ContentAssumption, FS_Subset, FS_CardinalityType
    <3>3. Cardinality(artifact_ids') = Cardinality(artifact_ids) + 1
      BY <2>2, <3>1, <3>2, FS_AddElement
    <3>4. Cardinality(artifact_ids') <= MaxArtifacts
      BY <3>1, <3>2, <3>3, Constants
    <3> DEFINE n == Cardinality(artifact_ids)
               lines == manifest.lines
    <3>5. /\ n + 1 = Len(lines)
          /\ n < Len(lines) =>
               lines[n + 1] = [id |-> frame, end |-> manifest_bytes + RecordBytes[frame]]
      BY <3>1 DEF RecordInv
    <3>6. Len(lines) \in Nat /\ Len(lines) # 0 /\ lines[Len(lines)].end = manifest_bytes'
      BY <2>2, <3>2, <3>5
    <3>7. End(lines) = manifest_bytes' /\ End(lines) \in Nat
      BY <3>6, FileFacts, LineFacts
    <3>8. End(lines) <= ManifestBytes(manifest)
      BY <3>7 DEF ManifestBytes
    <3>9. ManifestBytes(manifest) <= MaxManifest /\ ManifestBytes(manifest) \in Nat
      BY <3>7, FileFacts DEF Filed, ManifestBytes
    <3>10. manifest_bytes' \in 0 .. MaxManifest
      BY <3>7, <3>8, <3>9, Constants
    <3> QED
      BY <1>2, <2>2, <3>1, <3>4, <3>10
  <2> QED  BY <1>4, <2>1, <2>2 DEF SyncManifest
<1>5. ASSUME Crash \/ PowerLoss
      PROVE  /\ manifest_bytes' \in 0 .. MaxManifest /\ artifact_ids' \subseteq Ids
             /\ Cardinality(artifact_ids') <= MaxArtifacts
  <2>1. manifest_bytes' = 0 /\ artifact_ids' = {}
    BY <1>5 DEF Crash, PowerLoss, Forget
  <2> QED  BY <2>1, FS_EmptySet, Constants
<1>6. ASSUME ~ (Open \/ SyncManifest \/ Crash \/ PowerLoss)
      PROVE  UNCHANGED <<manifest_bytes, artifact_ids>>
  BY <1>6 DEF Next, vars, memberVars, OpenThrows, Header, CreateTemporary, ReadContent, Flush,
     RemoveTemporary, Link, LinkExisting, LinkFails, Unlink, SyncDirectories, OpenManifest,
     AppendRecord, Restore, Retire, Answer
<1> QED
  BY <1>1, <1>2, <1>3, <1>4, <1>5, <1>6

LEMMA TypeBounds ==
    ASSUME TypeOK, [Next]_vars
    PROVE  /\ frames' \in 0 .. MaxFrames /\ failures' \in 0 .. MaxFailures
           /\ crashes' \in 0 .. MaxCrashes
<1>1. /\ frames \in 0 .. MaxFrames /\ failures \in 0 .. MaxFailures /\ crashes \in 0 .. MaxCrashes
      /\ MaxFrames \in Nat /\ MaxFailures \in Nat /\ MaxCrashes \in Nat
  BY BoundsAssumption DEF TypeOK
<1>2. frames' = frames \/ (frames < MaxFrames /\ frames' = frames + 1)
  BY DEF Next, vars, boundVars, Open, OpenThrows, Header, CreateTemporary, ReadContent, Flush,
     RemoveTemporary, Link, LinkExisting, LinkFails, Unlink, SyncDirectories, OpenManifest,
     AppendRecord, SyncManifest, Restore, Retire, Answer, Crash, PowerLoss, Forget
<1>3. failures' = failures \/ (failures < MaxFailures /\ failures' = failures + 1)
  BY DEF Next, vars, boundVars, Open, OpenThrows, Header, CreateTemporary, ReadContent, Flush,
     RemoveTemporary, Link, LinkExisting, LinkFails, Unlink, SyncDirectories, OpenManifest,
     AppendRecord, SyncManifest, Restore, Retire, Answer, Crash, PowerLoss, Forget, Works, Fails
<1>4. crashes' = crashes \/ (crashes < MaxCrashes /\ crashes' = crashes + 1)
  BY DEF Next, vars, boundVars, Open, OpenThrows, Header, CreateTemporary, ReadContent, Flush,
     RemoveTemporary, Link, LinkExisting, LinkFails, Unlink, SyncDirectories, OpenManifest,
     AppendRecord, SyncManifest, Restore, Retire, Answer, Crash, PowerLoss, Forget
<1> QED
  BY <1>1, <1>2, <1>3, <1>4

LEMMA TypeLocals ==
    ASSUME TypeOK, FrameInv, [Next]_vars
    PROVE  /\ frame' \in Ids \cup {NoFrame} /\ status' \in Statuses /\ blob_created' \in BOOLEAN
           /\ refusal' \in {"none", "io", "linked", "blobs", "manifest", "records"}
           /\ acked' \subseteq Ids /\ unretired' \in BOOLEAN /\ power_lost' \in BOOLEAN
<1>1. /\ frame \in Ids \cup {NoFrame} /\ status \in Statuses /\ blob_created \in BOOLEAN
      /\ refusal \in {"none", "io", "linked", "blobs", "manifest", "records"}
      /\ acked \subseteq Ids /\ unretired \in BOOLEAN /\ power_lost \in BOOLEAN
  BY DEF TypeOK
<1>2. frame' \in Ids \cup {NoFrame}
  <2>1. ASSUME Header PROVE frame' \in Ids
    BY <2>1 DEF Header
  <2>2. ASSUME Answer \/ Crash \/ PowerLoss PROVE frame' = NoFrame
    BY <2>2 DEF Answer, Crash, PowerLoss, Forget
  <2>3. ASSUME ~ (Header \/ Answer \/ Crash \/ PowerLoss) PROVE frame' = frame
    BY <2>3 DEF Next, vars, Open, OpenThrows, CreateTemporary, ReadContent, Flush,
       RemoveTemporary, Link, LinkExisting, LinkFails, Unlink, SyncDirectories, OpenManifest,
       AppendRecord, SyncManifest, Restore, Retire
  <2> QED  BY <1>1, <2>1, <2>2, <2>3
<1>3. status' \in Statuses
  <2>1. \A i : Refusal(i) \in Statuses
    BY DEF Refusal, Statuses
  <2>2. ASSUME Header PROVE status' \in Statuses
    BY <2>1, <2>2 DEF Header, Statuses
  <2>3. ASSUME ~ Header PROVE status' = status \/ status' \in Statuses
    BY <2>3 DEF Next, vars, Open, OpenThrows, CreateTemporary, ReadContent, Flush,
       RemoveTemporary, Link, LinkExisting, LinkFails, Unlink, SyncDirectories, OpenManifest,
       AppendRecord, SyncManifest, Restore, Retire, Answer, Crash, PowerLoss, Forget, Goto,
       Refuse, Statuses
  <2> QED  BY <1>1, <2>2, <2>3
<1>4. blob_created' \in {blob_created, TRUE, FALSE} /\ power_lost' \in {power_lost, TRUE}
      /\ unretired' \in {unretired, TRUE}
  BY DEF Next, vars, boundVars, Open, OpenThrows, Header, CreateTemporary, ReadContent, Flush,
     RemoveTemporary, Link, LinkExisting, LinkFails, Unlink, SyncDirectories, OpenManifest,
     AppendRecord, SyncManifest, Restore, Retire, Answer, Crash, PowerLoss, Forget
<1>5. refusal' \in {"none", "io", "linked", "blobs", "manifest", "records"}
  <2>1. WhyRefused \in {"none", "linked", "blobs", "manifest", "records"}
    BY DEF WhyRefused
  <2>2. ASSUME Open \/ OpenThrows PROVE refusal' \in {"none", "io", WhyRefused}
    BY <2>2 DEF Open, OpenThrows
  <2>3. ASSUME ~ Open, ~ OpenThrows PROVE refusal' = refusal
    BY <2>3 DEF Next, vars, Header, CreateTemporary, ReadContent, Flush, RemoveTemporary, Link,
       LinkExisting, LinkFails, Unlink, SyncDirectories, OpenManifest, AppendRecord, SyncManifest,
       Restore, Retire, Answer, Crash, PowerLoss, Forget
  <2> QED  BY <1>1, <2>1, <2>2, <2>3
<1>6. acked' \subseteq Ids
  <2>1. ASSUME Answer PROVE acked' \subseteq acked \cup {frame} /\ frame \in Ids
    BY <2>1 DEF Answer, FrameInv
  <2>2. ASSUME ~ Answer PROVE acked' = acked
    BY <2>2 DEF Next, vars, Open, OpenThrows, Header, CreateTemporary, ReadContent, Flush,
       RemoveTemporary, Link, LinkExisting, LinkFails, Unlink, SyncDirectories, OpenManifest,
       AppendRecord, SyncManifest, Restore, Retire, Crash, PowerLoss, Forget
  <2> QED  BY <1>1, <2>1, <2>2
<1> QED
  BY <1>1, <1>2, <1>3, <1>4, <1>5, <1>6

LEMMA TypeStep ==
    TypeOK /\ FileInv /\ RecordInv /\ FrameInv /\ AccountInv
    /\ FileInv' /\ FrameInv' /\ AccountInv' /\ [Next]_vars => TypeOK'
<1> SUFFICES ASSUME TypeOK, FileInv, RecordInv, FrameInv, AccountInv,
                    FileInv', FrameInv', AccountInv', [Next]_vars
             PROVE  TypeOK'
  OBVIOUS
<1>1. phase' \in Phases /\ store_state' \in {"consistent", "failed"}
  BY DEF FrameInv
<1> QED
  BY <1>1, TypeFiles, TypeLimits, TypeBounds, TypeLocals DEF TypeOK

----------------------------------------------------------------------------
(* Theorems *)

\* The inductive invariant of the store: what a loss of power may leave of its files, what the
\* receiver knows of its manifest, and what ReceiveOne has done for the frame at hand.
THEOREM InvCorrect == Spec => []IInv
<1>1. Init => IInv
  BY StoreInit, TypeInit, AccountInit DEF IInv
<1>2. IInv /\ [Next]_vars => IInv'
  <2> SUFFICES ASSUME IInv, [Next]_vars PROVE IInv'
    OBVIOUS
  <2>1. /\ TypeOK /\ FileInv /\ RecordInv /\ FrameInv /\ BlobInv /\ AccountInv
        /\ RecordsAdmitted /\ BlobsAdmitted
    BY DEF IInv, ReopensUnlessLinked
  <2>2. FileInv' /\ RecordInv' /\ FrameInv' /\ BlobInv' /\ AccountInv'
    BY <2>1, FileStep, RecordStep, FrameStep, BlobStep, AccountStep
  <2>3. TypeOK'
    BY <2>1, <2>2, TypeStep
  <2>4. ReopensUnlessLinked'
    BY <2>1, AdmittedStep, ReopenStep DEF ReopensUnlessLinked
  <2> QED
    BY <2>2, <2>3, <2>4 DEF IInv
<1> QED
  BY <1>1, <1>2, PTL DEF Spec

\* Every accepted artifact keeps its record and every record its whole content, whatever call
\* failed, whenever the process died and whatever the machine had not synchronised.
THEOREM EvidenceKeptCorrect == Spec => []EvidenceKept
<1>1. IInv => EvidenceKept
  <2> SUFFICES ASSUME IInv PROVE EvidenceKept
    OBVIOUS
  <2>1. FileInv
    BY DEF IInv
  <2>2. acked \subseteq Recorded(manifest)
    BY <2>1 DEF FileInv
  <2>3. \A i \in Recorded(manifest) : Digest[i] \in Digests /\ maybe_blob[Digest[i]] = {"flushed"}
    BY <2>1, FileFacts, Constants DEF FileInv, Durable
  <2>4. \A i \in Recorded(manifest) : blobs[Digest[i]] = "flushed"
    BY <2>1, <2>3, FileFacts
  <2> QED
    BY <2>2, <2>4 DEF EvidenceKept
<1> QED
  BY InvCorrect, <1>1, PTL

\* Between frames the manifest the receiver remembers is the one on disk: its length, its
\* records, and no torn one.
THEOREM RecordsExactCorrect == Spec => []RecordsExact
<1>1. IInv => RecordsExact
  <2> SUFFICES ASSUME IInv, phase = "idle", store_state = "consistent"
               PROVE  /\ manifest_bytes = ManifestBytes(manifest) /\ ~ manifest.tail
                      /\ artifact_ids = Recorded(manifest)
    BY DEF RecordsExact
  <2>1. /\ manifest.tail = FALSE /\ artifact_ids = Recorded(manifest)
        /\ manifest_bytes = End(manifest.lines) /\ manifest_bytes \in Nat
    BY RecordFacts DEF IInv
  <2>2. ManifestBytes(manifest) = End(manifest.lines)
    BY <2>1 DEF ManifestBytes
  <2> QED
    BY <2>1, <2>2
<1> QED
  BY InvCorrect, <1>1, PTL

\* As long as the process has not died and no blob could be kept from retiring, the blobs on disk
\* between frames are exactly those the records name.
THEOREM BlobsNamedCorrect == Spec => []BlobsNamed
<1>1. IInv => BlobsNamed
  <2> SUFFICES ASSUME IInv, phase = "idle", store_state = "consistent", crashes = 0, ~ unretired
               PROVE  Present = {Digest[i] : i \in Recorded(manifest)}
    BY DEF BlobsNamed
  <2>1. artifact_ids = Recorded(manifest)
    BY RecordFacts DEF IInv
  <2>2. ~ NewBlob
    BY DEF NewBlob
  <2> QED
    BY <2>1, <2>2 DEF IInv, BlobInv
<1> QED
  BY InvCorrect, <1>1, PTL

\* Between frames the receiver counts exactly the bytes of the blobs on disk, whatever was made,
\* retired or could not be; with its records and the blobs they name, its whole account of the
\* store is the store's, and every variable keeps to its type and limits.
THEOREM ConsistentCorrect == Spec => []Consistent
<1>1. IInv => TypeOK /\ (phase = "idle" => stored_bytes = BlobBytes)
  BY DEF IInv, AccountInv
<1> QED
  BY <1>1, InvCorrect, RecordsExactCorrect, BlobsNamedCorrect, PTL DEF Consistent, AccountingExact

\* The constructor never refuses a manifest the receiver left: no record twice, none over the
\* limits on records and bytes, after any failure, death or loss of power.  It refuses the blobs
\* for their size only after a loss of power.
THEOREM ReopensUnlessLinkedCorrect == Spec => []ReopensUnlessLinked
BY InvCorrect, PTL DEF IInv

\* ReceiveOne appends where its own records end: the check for a manifest that was changed from
\* outside the receiver never fires for what the receiver did itself.
THEOREM AppendsBehindItsRecords ==
    Spec => [](phase = "append" => ManifestBytes(manifest) = manifest_bytes)
<1>1. IInv => (phase = "append" => ManifestBytes(manifest) = manifest_bytes)
  <2> SUFFICES ASSUME IInv, phase = "append" PROVE ManifestBytes(manifest) = manifest_bytes
    OBVIOUS
  <2>1. store_state = "consistent"
    BY DEF IInv, FrameInv
  <2>2. /\ manifest.tail = FALSE /\ manifest_bytes = End(manifest.lines) /\ manifest_bytes \in Nat
    BY <2>1, RecordFacts DEF IInv
  <2> QED
    BY <2>2 DEF ManifestBytes
<1> QED
  BY InvCorrect, <1>1, PTL
=============================================================================
