------------------------ MODULE ArtifactChannel_proofs ------------------------
(***************************************************************************)
(* Theorems about the artifact channel, for every limit of its queue, every*)
(* set of sizes and every number of transfers, connections and faults: an  *)
(* accepted transfer is in one place until its one truthful result, a      *)
(* result is recorded once and by the session of its capture, every        *)
(* descriptor has one owner, no capture is refused in silence, and the     *)
(* channel implements the ledger it promises the capture sink.             *)
(***************************************************************************)
EXTENDS ArtifactChannel, FiniteSetTheorems, SequenceTheorems, TLAPS

----------------------------------------------------------------------------
(* The inductive invariant *)

\* The writer's places in each state of the channel.
PhaseInv ==
    /\ state = "idle" => wpc = "off" /\ queue = <<>>
    /\ state = "connected" =>
          wpc \in {"take", "asleep", "probe", "send", "ack", "acknowledged", "connection_lost",
                   "lost_idle", "lost_sent"}
    /\ state = "reconnecting" => wpc \in {"backoff", "connect", "install", "gave_up", "lose"}
    /\ state = "lost" => wpc \in {"flush", "done"}
    /\ state = "stopping" => wpc # "asleep"
    /\ capturing <=> state \in {"connected", "reconnecting", "lost"}
    /\ wpc \in {"backoff", "connect"} => attempt \in 1 .. Attempts

\* The writer has a transfer in its hand from Take to Report or GiveUp, and the result it
\* is about to report of it is true.
HandInv ==
    /\ wpc \in {"probe", "send", "ack", "acknowledged", "connection_lost", "lost_idle"} =>
          hand # NoTransfer
    /\ wpc \in {"off", "take", "asleep", "lost_sent", "lose", "flush", "done"} =>
          hand = NoTransfer
    /\ wpc \in {"acknowledged", "connection_lost"} =>
          status \in Statuses /\ (status = "accepted" => hand.id \in stored)

\* The one descriptor that is open, and where it is kept.
DescriptorInv ==
    /\ open = IF wpc = "install" THEN {descriptor}
              ELSE IF socket_descriptor = 0 THEN {} ELSE {socket_descriptor}
    /\ state = "connected" => socket_descriptor # 0
    /\ state \in {"idle", "lost", "reconnecting"} => socket_descriptor = 0
    /\ wpc \in {"backoff", "connect", "install"} => socket_descriptor = 0
    /\ wpc = "install" => descriptor # 0
    /\ wpc \in {"probe", "send", "ack", "acknowledged"} =>
          descriptor = socket_descriptor /\ socket_descriptor # 0

\* A connection with no frame under way and no acknowledgment to be read.
Quiet(d) == conns[d].frame = 0 /\ conns[d].ack = "none"

\* An acknowledgment that is still to be read answers the transfer in the writer's hand.
AckInv ==
    /\ wpc \in {"take", "asleep", "probe", "send", "acknowledged"} /\ socket_descriptor # 0 =>
          Quiet(socket_descriptor)
    /\ wpc = "install" => Quiet(descriptor)
    /\ wpc = "ack" =>
          /\ conns[descriptor].frame \in {0, hand.id}
          /\ conns[descriptor].ack # "none" => conns[descriptor].frame = 0
          /\ conns[descriptor].ack = "accepted" => hand.id \in stored

\* Posted tasks: the completions, then the loss, then the end of the session.
Before(task, next) == task.op = "done" \/ (task.op = "lost" /\ next.op = "finish")
Has(op) == \E i \in 1 .. Len(tasks) : tasks[i].op = op

TaskInv ==
    /\ \A i, j \in 1 .. Len(tasks) : i < j => Before(tasks[i], tasks[j])
    /\ Has("finish") <=> state = "stopping" /\ wpc = "off"
    /\ Has("lost") =>
          ~ lost /\ queue = <<>> /\ state \in {"lost", "stopping"} /\ wpc \in {"done", "off"}
    /\ lost => state \in {"idle", "lost", "stopping"} /\ wpc \in {"done", "off"} /\ queue = <<>>
    /\ \A i \in 1 .. Len(tasks) : tasks[i].status = "accepted" => tasks[i].id \in stored

\* Where a transfer is.
Queued(id) == \E i \in 1 .. Len(queue) : queue[i].id = id
Held(id) == hand.id = id
Posted(id) == \E i \in 1 .. Len(tasks) : tasks[i].op = "done" /\ tasks[i].id = id
Logged(id) == \E i \in 1 .. Len(log) : log[i].id = id

\* The accepted transfers are the ones that are somewhere, each in one place.
PlaceInv ==
    /\ \A id \in Ids : id \in accepted <=> Queued(id) \/ Held(id) \/ Posted(id) \/ Logged(id)
    /\ \A id \in Ids : /\ Queued(id) => ~ Held(id) /\ ~ Posted(id) /\ ~ Logged(id)
                       /\ Held(id) => ~ Posted(id) /\ ~ Logged(id)
                       /\ Posted(id) => ~ Logged(id)

\* No sequence holds a transfer twice.
OnceInv ==
    /\ \A i, j \in 1 .. Len(queue) : queue[i].id = queue[j].id => i = j
    /\ \A i, j \in 1 .. Len(tasks) :
          tasks[i].op = "done" /\ tasks[j].op = "done" /\ tasks[i].id = tasks[j].id => i = j
    /\ \A i, j \in 1 .. Len(log) : log[i].id = log[j].id => i = j

\* Identifiers are given out in order, each to a capture of the generation that is on, and
\* an open tee has one that was neither sent nor recorded.
SinkInv ==
    /\ \A id \in accepted : id <= offered
    /\ \A id \in Ids : owner[id] <= generation
    /\ \A id \in Ids : id > offered => owner[id] = 0
    /\ \A id \in Ids : ~ capturing /\ id <= offered => owner[id] < generation
    /\ capturing => generation > 0
    /\ \A body \in bodies :
          /\ body.id <= offered /\ body.id \notin accepted /\ ~ Recorded(body.id)
          /\ body.generation = owner[body.id]
    /\ \A i \in 1 .. Len(results) : results[i].id <= offered

IInv ==
    /\ TypeOK /\ PhaseInv /\ HandInv /\ DescriptorInv /\ AckInv /\ TaskInv
    /\ PlaceInv /\ OnceInv /\ SinkInv
    /\ PendingMatches /\ ResultsOwn /\ NoResultLost
    /\ AcceptedIsStored /\ RefusalAnnounced

----------------------------------------------------------------------------
(* The queue's sums *)

LEMMA AddsUpEmpty == AddsUp(<<>>, 0)
<1> DEFINE sums == [i \in 0 .. 0 |-> 0]
<1>1. sums \in [0 .. 0 -> 0 .. MaxBytes] /\ \A i \in 0 .. 0 : sums[i] = 0
  BY LimitsAssumption
<1>2. Len(<<>>) = 0 /\ 1 .. 0 = {}
  OBVIOUS
<1> HIDE DEF sums
<1> QED
  BY <1>1, <1>2 DEF AddsUp

LEMMA AddsUpAppend ==
    ASSUME NEW q \in Seq(Transfer), NEW t, t.size \in Nat,
           NEW total \in 0 .. MaxBytes, AddsUp(q, total), total + t.size <= MaxBytes
    PROVE  AddsUp(Append(q, t), total + t.size)
<1>1. PICK sums \in [0 .. Len(q) -> 0 .. MaxBytes] :
         /\ sums[0] = 0 /\ sums[Len(q)] = total
         /\ \A i \in 1 .. Len(q) : sums[i] = sums[i - 1] + q[i].size
         /\ \A i, j \in 0 .. Len(q) : i <= j => sums[i] <= sums[j]
  BY DEF AddsUp
<1> DEFINE n == Len(q)
           longer == [i \in 0 .. n + 1 |-> IF i = n + 1 THEN total + t.size ELSE sums[i]]
<1>2. /\ n \in Nat /\ Len(Append(q, t)) = n + 1 /\ Append(q, t)[n + 1] = t
      /\ \A i \in 1 .. n : Append(q, t)[i] = q[i]
  OBVIOUS
<1>3. longer \in [0 .. n + 1 -> 0 .. MaxBytes]
  BY <1>1, <1>2, LimitsAssumption
<1>4. /\ \A i \in 0 .. n : longer[i] = sums[i] /\ sums[i] \in Nat /\ sums[i] <= total
      /\ longer[n + 1] = total + t.size
  BY <1>1, <1>2, LimitsAssumption
<1> HIDE DEF longer
<1>5. ASSUME NEW i \in 1 .. n + 1
      PROVE  longer[i] = longer[i - 1] + Append(q, t)[i].size
  <2>1. CASE i = n + 1
    BY <1>1, <1>2, <1>4, <2>1
  <2>2. CASE i # n + 1
    <3>1. i \in 1 .. n /\ i \in 0 .. n /\ i - 1 \in 0 .. n
      BY <1>2, <2>2
    <3> QED
      BY <1>1, <1>2, <1>4, <3>1
  <2> QED
    BY <2>1, <2>2
<1>6. ASSUME NEW i \in 0 .. n + 1, NEW j \in 0 .. n + 1, i <= j
      PROVE  longer[i] <= longer[j]
  <2>1. CASE j # n + 1
    <3>1. i \in 0 .. n /\ j \in 0 .. n
      BY <1>2, <1>6, <2>1
    <3> QED
      BY <1>1, <1>4, <1>6, <3>1
  <2>2. CASE j = n + 1 /\ i # n + 1
    BY <1>2, <1>4, <2>2
  <2>3. CASE i = n + 1 /\ j = n + 1
    BY <1>4, <2>3
  <2> QED
    BY <2>1, <2>2, <2>3
<1>7. longer[0] = 0
  BY <1>1, <1>2, <1>4
<1> QED
  BY <1>2, <1>3, <1>4, <1>5, <1>6, <1>7 DEF AddsUp

LEMMA AddsUpTail ==
    ASSUME NEW q \in Seq(Transfer), q # <<>>,
           NEW total \in 0 .. MaxBytes, AddsUp(q, total)
    PROVE  /\ total - Head(q).size \in 0 .. MaxBytes
           /\ AddsUp(Tail(q), total - Head(q).size)
<1>1. PICK sums \in [0 .. Len(q) -> 0 .. MaxBytes] :
         /\ sums[0] = 0 /\ sums[Len(q)] = total
         /\ \A i \in 1 .. Len(q) : sums[i] = sums[i - 1] + q[i].size
         /\ \A i, j \in 0 .. Len(q) : i <= j => sums[i] <= sums[j]
  BY DEF AddsUp
<1> DEFINE n == Len(q) - 1
           rest == [i \in 0 .. n |-> sums[i + 1] - sums[1]]
<1>2. /\ n \in Nat /\ Len(Tail(q)) = n /\ Head(q) = q[1]
      /\ \A i \in 1 .. n : Tail(q)[i] = q[i + 1]
  OBVIOUS
<1>3. Head(q).size = sums[1] /\ sums[1] \in 0 .. MaxBytes /\ sums[1] <= total
  <2>1. 1 \in 1 .. Len(q) /\ 0 \in 0 .. Len(q) /\ Len(q) \in 0 .. Len(q) /\ 1 \in 0 .. Len(q)
    BY <1>2
  <2>2. Head(q) \in Transfer
    OBVIOUS
  <2>3. Head(q).size \in Nat
    BY <2>2, LimitsAssumption DEF Transfer
  <2> QED
    BY <1>1, <1>2, <2>1, <2>3
<1>4. rest \in [0 .. n -> 0 .. MaxBytes]
  <2> SUFFICES ASSUME NEW i \in 0 .. n PROVE sums[i + 1] - sums[1] \in 0 .. MaxBytes
    OBVIOUS
  <2>1. i + 1 \in 0 .. Len(q) /\ 1 \in 0 .. Len(q) /\ 1 <= i + 1
    BY <1>2
  <2>2. sums[1] <= sums[i + 1] /\ sums[i + 1] \in 0 .. MaxBytes
    BY <1>1, <2>1
  <2> QED
    BY <1>3, <2>2, LimitsAssumption
<1>5. \A i \in 1 .. n : rest[i] = rest[i - 1] + Tail(q)[i].size
  <2> SUFFICES ASSUME NEW i \in 1 .. n PROVE rest[i] = rest[i - 1] + Tail(q)[i].size
    OBVIOUS
  <2>1. i + 1 \in 1 .. Len(q) /\ i - 1 \in 0 .. n /\ i \in 0 .. n /\ i \in 0 .. Len(q) /\ i + 1 \in 0 .. Len(q)
    BY <1>2
  <2>2. q[i + 1] \in Transfer
    BY <2>1
  <2>3. q[i + 1].size \in Nat
    BY <2>2, LimitsAssumption DEF Transfer
  <2>4. sums[i + 1] = sums[i] + q[i + 1].size /\ sums[i] \in Nat
    BY <1>1, <2>1, LimitsAssumption
  <2> QED
    BY <1>2, <1>3, <2>1, <2>3, <2>4, LimitsAssumption
<1>6. ASSUME NEW i \in 0 .. n, NEW j \in 0 .. n, i <= j
      PROVE  rest[i] <= rest[j]
  <2>1. i + 1 \in 0 .. Len(q) /\ j + 1 \in 0 .. Len(q) /\ i + 1 <= j + 1
    BY <1>2, <1>6
  <2>2. sums[i + 1] <= sums[j + 1]
    BY <1>1, <2>1
  <2>3. sums[i + 1] \in 0 .. MaxBytes /\ sums[j + 1] \in 0 .. MaxBytes /\ sums[1] \in 0 .. MaxBytes
    BY <1>1, <1>3, <2>1
  <2>4. rest[i] = sums[i + 1] - sums[1] /\ rest[j] = sums[j + 1] - sums[1]
    OBVIOUS
  <2> HIDE DEF rest
  <2> QED
    BY <2>2, <2>3, <2>4, LimitsAssumption
<1>7. rest[0] = 0 /\ rest[n] = total - Head(q).size
  BY <1>1, <1>2, <1>3, LimitsAssumption
<1>8. total - Head(q).size \in 0 .. MaxBytes
  BY <1>3, LimitsAssumption
<1>9. AddsUp(Tail(q), total - Head(q).size)
  <2> HIDE DEF rest
  <2> SUFFICES \E r \in [0 .. n -> 0 .. MaxBytes] :
                  /\ r[0] = 0 /\ r[n] = total - Head(q).size
                  /\ \A i \in 1 .. n : r[i] = r[i - 1] + Tail(q)[i].size
                  /\ \A i, j \in 0 .. n : i <= j => r[i] <= r[j]
    BY <1>2 DEF AddsUp
  <2> WITNESS rest \in [0 .. n -> 0 .. MaxBytes]
  <2> QED
    BY <1>5, <1>6, <1>7
<1> QED
  BY <1>8, <1>9

----------------------------------------------------------------------------
(* The sequences *)

LEMMA ConcatIndex ==
    ASSUME NEW S, NEW s \in Seq(S), NEW e \in Seq(S)
    PROVE  /\ s \o e \in Seq(S) /\ Len(s \o e) = Len(s) + Len(e)
           /\ \A i \in 1 .. Len(s) : (s \o e)[i] = s[i]
           /\ \A i \in 1 .. Len(e) : (s \o e)[Len(s) + i] = e[i]
           /\ \A i \in 1 .. Len(s \o e) : i \in 1 .. Len(s) \/ i - Len(s) \in 1 .. Len(e)
OBVIOUS

LEMMA IoErrorsAre ==
    ASSUME NEW q \in Seq(Transfer)
    PROVE  /\ IoErrors(q) \in Seq(Completions) /\ Len(IoErrors(q)) = Len(q)
           /\ \A i \in 1 .. Len(q) : IoErrors(q)[i] = Done(q[i].id, "io_error")
<1>1. ASSUME NEW i \in 1 .. Len(q) PROVE Done(q[i].id, "io_error") \in Completions
  <2>1. q[i] \in Transfer
    OBVIOUS
  <2> QED
    BY <2>1 DEF Done, Completions, Transfer, Statuses
<1>2. [i \in 1 .. Len(q) |-> Done(q[i].id, "io_error")] \in [1 .. Len(q) -> Completions]
  BY <1>1
<1> QED
  BY <1>2 DEF IoErrors

----------------------------------------------------------------------------
THEOREM InitInv == Init => IInv
<1> SUFFICES ASSUME Init PROVE IInv
  OBVIOUS
<1> USE DEF Init
<1>1. ClientTypes
  BY LimitsAssumption, BoundsAssumption, AddsUpEmpty DEF ClientTypes, States
<1>2. WriterTypes
  BY AttemptsAssumption, BoundsAssumption DEF WriterTypes, WriterPlaces
<1>3. SinkTypes
  <2>1. tasks \in Seq(Completions \cup {Lost, Finish}) /\ log \in Seq([id : Ids, status : Statuses])
    OBVIOUS
  <2>2. /\ capturing \in BOOLEAN /\ expired \in BOOLEAN /\ lost \in BOOLEAN /\ generation \in Nat
        /\ pending \subseteq [id : Ids, generation : Nat] /\ bodies \subseteq [id : Ids, generation : Nat]
    OBVIOUS
  <2>3. accepted \in SUBSET Ids /\ offered \in 0 .. MaxTransfers /\ owner \in [Ids -> Nat]
    BY BoundsAssumption
  <2>4. results \in Seq([id : Ids, status : Statuses \cup {"failed"}, generation : Nat])
    OBVIOUS
  <2> QED
    BY <2>1, <2>2, <2>3, <2>4 DEF SinkTypes
<1>4. ReceiverTypes
  BY BoundsAssumption DEF ReceiverTypes, Unused
<1>5. PhaseInv /\ HandInv /\ DescriptorInv /\ AckInv
  BY DEF PhaseInv, HandInv, DescriptorInv, AckInv
<1>6. TaskInv /\ OnceInv
  BY DEF TaskInv, Has, OnceInv
<1>9. SinkInv /\ PendingMatches /\ ResultsOwn /\ NoResultLost
  BY BoundsAssumption DEF SinkInv, PendingMatches, ResultsOwn, NoResultLost, Ids
<1>7. PlaceInv
  BY BoundsAssumption DEF PlaceInv, Queued, Held, Posted, Logged, NoTransfer, Ids
<1>8. AcceptedIsStored /\ RefusalAnnounced
  BY DEF AcceptedIsStored, RefusalAnnounced
<1> QED
  BY <1>1, <1>2, <1>3, <1>4, <1>5, <1>6, <1>7, <1>8, <1>9 DEF IInv, TypeOK

----------------------------------------------------------------------------
(* What the steps do to the queue, the hand, the tasks and the completions *)

\* What every capture leaves alone.
LEMMA CapturesKeep ==
    Captures => /\ UNCHANGED <<state, socket_descriptor, hand, descriptor, attempt, status, open,
                               tasks, capturing, expired, generation>>
                /\ UNCHANGED <<up, conns, connections, faults, stored, log, lost>>
                /\ wpc' \in {wpc, Woken}
BY DEF Captures, Capture, BeginBody, EndBody, CaptureRest, receiverVars, Enqueue

\* A capture sends nothing, or a transfer that was not sent before, as its generation's.
KeepsQueue == UNCHANGED <<queue, queued_bytes, wpc, pending, accepted>>
Sends(id) ==
    /\ AcceptsTransfers /\ owner'[id] = generation
    /\ wpc' = Woken
    /\ pending' = pending \cup {[id |-> id, generation |-> generation]}
    /\ accepted' = accepted \cup {id}
    /\ results' = results
    /\ \E size \in Sizes : /\ CanQueue(size)
                           /\ queue' = Append(queue, [id |-> id, size |-> size])
                           /\ queued_bytes' = queued_bytes + size

LEMMA CapturesSend ==
    ASSUME IInv, Captures
    PROVE  KeepsQueue \/ \E id \in Ids \ accepted : Sends(id)
<1>0. /\ SinkInv /\ offered \in 0 .. MaxTransfers /\ MaxTransfers \in Nat /\ owner \in [Ids -> Nat]
      /\ bodies \subseteq [id : Ids, generation : Nat]
  BY BoundsAssumption DEF IInv, TypeOK, SinkTypes
<1>1. \A id, g : Enqueue(id, g) /\ g = generation /\ owner'[id] = generation => KeepsQueue \/ Sends(id)
  BY DEF Enqueue, KeepsQueue, Sends
<1>2. CASE Capture
  <2>1. offered < MaxTransfers /\ owner' = [owner EXCEPT ![offered + 1] = generation]
    BY <1>2 DEF Capture, Admit
  <2>2. offered + 1 \in Ids /\ offered + 1 \notin accepted
    BY <1>0, <2>1 DEF Ids, SinkInv
  <2>3. owner'[offered + 1] = generation
    BY <1>0, <2>1, <2>2
  <2> QED
    BY <1>1, <1>2, <2>2, <2>3 DEF Capture
<1>3. CASE BeginBody
  BY <1>3 DEF BeginBody, KeepsQueue
<1>4. CASE EndBody
  <2>1. PICK body \in bodies :
           \/ KeepsQueue
           \/ body.generation = generation /\ Enqueue(body.id, body.generation)
    BY <1>4 DEF EndBody, KeepsQueue
  <2>2. body.id \in Ids /\ body.id \notin accepted /\ body.generation = owner[body.id]
    BY <1>0 DEF SinkInv
  <2>3. owner' = owner
    BY <1>4 DEF EndBody
  <2> QED
    BY <1>1, <2>1, <2>2, <2>3
<1> QED
  BY <1>2, <1>3, <1>4 DEF Captures

\* A capture gives out the next identifier; or the copying of a body ends.
Offers(id) ==
    /\ id = offered + 1 /\ offered' = offered + 1 /\ capturing
    /\ owner' = [owner EXCEPT ![id] = generation]
Ends(id) ==
    /\ UNCHANGED <<offered, owner>>
    /\ \E body \in bodies : body.id = id /\ bodies' = bodies \ {body}

\* What becomes of it: a copy under way, a transfer, a failure on record, or nothing.
Opens(id) ==
    /\ Offers(id) /\ KeepsQueue /\ results' = results
    /\ bodies' = bodies \cup {[id |-> id, generation |-> generation]}
Fails(id) == KeepsQueue /\ EmitResult(id, "failed") /\ owner'[id] = generation
Drops(id) == Ends(id) /\ KeepsQueue /\ results' = results /\ owner[id] # generation

LEMMA CapturesAre ==
    ASSUME IInv, Captures
    PROVE  \E id \in Ids \ accepted :
              /\ ~ Recorded(id)
              /\ \/ Opens(id)
                 \/ Offers(id) /\ bodies' = bodies /\ (Sends(id) \/ Fails(id))
                 \/ Ends(id) /\ (Sends(id) \/ Fails(id))
                 \/ Drops(id)
<1>0. /\ SinkInv /\ offered \in 0 .. MaxTransfers /\ MaxTransfers \in Nat /\ owner \in [Ids -> Nat]
      /\ bodies \subseteq [id : Ids, generation : Nat]
  BY BoundsAssumption DEF IInv, TypeOK, SinkTypes
<1>1. \A id, g : Enqueue(id, g) /\ g = generation /\ owner'[id] = generation =>
                   Sends(id) \/ Fails(id)
  BY DEF Enqueue, KeepsQueue, Sends, Fails
<1>2. ASSUME Admit
      PROVE  /\ offered + 1 \in Ids \ accepted /\ ~ Recorded(offered + 1)
             /\ Offers(offered + 1) /\ owner'[offered + 1] = generation
  <2>1. /\ offered < MaxTransfers /\ offered' = offered + 1 /\ capturing
        /\ owner' = [owner EXCEPT ![offered + 1] = generation]
    BY <1>2 DEF Admit, IsEnabled
  <2>2. offered + 1 \in Ids /\ offered + 1 \notin accepted
    BY <1>0, <2>1 DEF Ids, SinkInv
  <2>3. ~ Recorded(offered + 1)
    BY <1>0 DEF SinkInv, Recorded
  <2>4. owner'[offered + 1] = generation
    BY <1>0, <2>1, <2>2
  <2> QED
    BY <2>1, <2>2, <2>3, <2>4 DEF Offers
<1>3. CASE Capture
  BY <1>1, <1>2, <1>3 DEF Capture
<1>4. CASE BeginBody
  BY <1>2, <1>4 DEF BeginBody, KeepsQueue, Opens
<1>5. CASE EndBody
  <2>1. PICK body \in bodies :
           /\ bodies' = bodies \ {body}
           /\ \/ /\ body.generation # generation
                 /\ KeepsQueue /\ results' = results
              \/ /\ body.generation = generation
                 /\ KeepsQueue /\ EmitResult(body.id, "failed")
              \/ /\ body.generation = generation
                 /\ Enqueue(body.id, body.generation)
    BY <1>5 DEF EndBody, KeepsQueue
  <2>2. /\ body.id \in Ids \ accepted /\ ~ Recorded(body.id)
        /\ body.generation = owner[body.id]
    BY <1>0 DEF SinkInv
  <2>3. UNCHANGED <<offered, owner>>
    BY <1>5 DEF EndBody
  <2>4. Ends(body.id)
    BY <2>1, <2>3 DEF Ends
  <2> QED
    BY <1>1, <2>1, <2>2, <2>3, <2>4 DEF Drops, Fails
<1> QED
  BY <1>3, <1>4, <1>5 DEF Captures

LEMMA CapturesRecord ==
    ASSUME IInv, Captures
    PROVE  results' = results \/ \E id \in Ids : EmitResult(id, "failed")
BY CapturesAre DEF Opens, Sends, Fails, Drops

\* The steps that move no transfer.
Still == UNCHANGED <<queue, queued_bytes, hand, tasks, log, accepted>>

LEMMA StillSteps ==
    ASSUME Start \/ Stop \/ Expire \/ Probe \/ SendFrame \/ ReadAck \/ NoAck \/ Reconnect \/ Backoff
              \/ TryConnect \/ Install \/ LoseChannel \/ Receiver \/ UNCHANGED vars
    PROVE  Still
<1> USE DEF Still, clientVars, writerVars, historyVars, sinkVars, receiverVars
<1>1. CASE Start \/ Stop
  BY <1>1 DEF Start, Stop
<1>0. CASE Expire
  BY <1>0 DEF Expire
<1>2. CASE Probe \/ SendFrame \/ ReadAck \/ NoAck
  BY <1>2 DEF Probe, SendFrame, ReadAck, NoAck
<1>3. CASE Reconnect \/ Backoff \/ TryConnect \/ Install \/ LoseChannel
  BY <1>3 DEF Reconnect, Backoff, TryConnect, Install, LoseChannel
<1>4. CASE Receiver
  BY <1>4 DEF Receiver, Exit, Restart, Receive, RejectAndClose, CloseConnection
<1>5. CASE UNCHANGED vars
  BY <1>5 DEF vars
<1> QED
  BY <1>0, <1>1, <1>2, <1>3, <1>4, <1>5

LEMMA Steps ==
    ASSUME [Next]_vars
    PROVE  \/ Start \/ Stop \/ Expire \/ Probe \/ SendFrame \/ ReadAck \/ NoAck \/ Reconnect \/ Backoff
              \/ TryConnect \/ Install \/ LoseChannel \/ Receiver \/ UNCHANGED vars
           \/ Captures \/ JoinWriter \/ RunTask \/ Take \/ Report \/ GiveUp \/ Flush
BY DEF Next, Writer

\* What every other step leaves alone.
SinkStill == UNCHANGED <<sinkVars, offered, owner, accepted, log, results>>

LEMMA SinkSteps ==
    ASSUME [Next]_vars
    PROVE  \/ Start \/ Stop \/ Expire \/ Captures \/ (RunTask /\ Head(tasks).op = "done")
           \/ SinkStill
<1> USE DEF SinkStill, historyVars
<1>1. CASE RunTask
  BY <1>1 DEF RunTask, AnnounceLoss, FinishStop
<1>2. CASE JoinWriter \/ UNCHANGED vars
  BY <1>2 DEF JoinWriter, vars
<1>3. CASE Take \/ Probe \/ SendFrame \/ ReadAck \/ NoAck \/ Report
  BY <1>3 DEF Take, Probe, SendFrame, ReadAck, NoAck, Report
<1>4. CASE Reconnect \/ Backoff \/ TryConnect \/ Install
  BY <1>4 DEF Reconnect, Backoff, TryConnect, Install
<1>5. CASE GiveUp \/ LoseChannel \/ Flush
  BY <1>5 DEF GiveUp, LoseChannel, Flush
<1>6. CASE Receiver
  BY <1>6 DEF Receiver, Exit, Restart, Receive, RejectAndClose, CloseConnection
<1> QED
  BY <1>1, <1>2, <1>3, <1>4, <1>5, <1>6 DEF Next, Writer

LEMMA ClientTypesStep ==
    ASSUME IInv, [Next]_vars
    PROVE  ClientTypes'
<1>0. /\ ClientTypes /\ WriterTypes /\ ReceiverTypes
      /\ MaxBytes \in Nat /\ MaxCount \in Nat /\ MaxConnections \in Nat
  BY LimitsAssumption, BoundsAssumption DEF IInv, TypeOK
<1>1. /\ queue' \in Seq(Transfer) /\ Len(queue') <= MaxCount
      /\ queued_bytes' \in 0 .. MaxBytes /\ AddsUp(queue, queued_bytes)'
  <2> DEFINE Fits(q, n) == /\ q \in Seq(Transfer) /\ Len(q) <= MaxCount
                           /\ n \in 0 .. MaxBytes /\ AddsUp(q, n)
  <2>0. Fits(queue, queued_bytes)
    BY <1>0 DEF ClientTypes
  <2>1. CASE Still
    BY <2>0, <2>1 DEF Still, AddsUp
  <2>2. CASE Captures
    <3>1. CASE KeepsQueue
      BY <2>0, <3>1 DEF KeepsQueue, AddsUp
    <3>2. ASSUME NEW id \in Ids, NEW size \in Sizes, CanQueue(size),
                 queue' = Append(queue, [id |-> id, size |-> size]),
                 queued_bytes' = queued_bytes + size
          PROVE  Fits(queue', queued_bytes')
      <4> DEFINE t == [id |-> id, size |-> size]
      <4>1. t \in Transfer /\ t.size = size /\ size \in Nat
        BY LimitsAssumption DEF Transfer
      <4>2. queued_bytes \in 0 .. MaxBytes /\ queued_bytes + size <= MaxBytes
        BY <1>0, <2>0, <3>2, <4>1 DEF CanQueue
      <4> HIDE DEF t
      <4>3. AddsUp(queue', queued_bytes')
        BY <2>0, <3>2, <4>1, <4>2, AddsUpAppend DEF t
      <4>4. queued_bytes' \in 0 .. MaxBytes
        BY <1>0, <3>2, <4>1, <4>2
      <4>5. queue' \in Seq(Transfer) /\ Len(queue') = Len(queue) + 1 /\ Len(queue) \in Nat
        BY <2>0, <3>2, <4>1 DEF t
      <4>6. Len(queue') <= MaxCount
        BY <1>0, <3>2, <4>5 DEF CanQueue
      <4> QED
        BY <4>3, <4>4, <4>5, <4>6
    <3> HIDE DEF Fits
    <3>3. (\E id \in Ids \ accepted : Sends(id)) => Fits(queue', queued_bytes')
      BY <3>2 DEF Sends
    <3> QED
      BY <2>2, <3>1, <3>3, CapturesSend DEF Fits, AddsUp
  <2>3. CASE JoinWriter \/ Report \/ GiveUp
    <3>1. UNCHANGED <<queue, queued_bytes>>
      BY <2>3 DEF JoinWriter, Report, GiveUp, clientVars
    <3> QED
      BY <2>0, <3>1 DEF AddsUp
  <2>4. CASE RunTask \/ Flush
    <3>1. UNCHANGED <<queue, queued_bytes>> \/ (queue' = <<>> /\ queued_bytes' = 0)
      BY <2>4 DEF RunTask, Complete, AnnounceLoss, FinishStop, Flush, clientVars
    <3>2. CASE UNCHANGED <<queue, queued_bytes>>
      BY <2>0, <3>2 DEF AddsUp
    <3>3. CASE queue' = <<>> /\ queued_bytes' = 0
      BY <1>0, <3>3, AddsUpEmpty DEF AddsUp
    <3> QED
      BY <3>1, <3>2, <3>3
  <2>5. CASE Take
    <3>1. \/ UNCHANGED <<queue, queued_bytes>>
          \/ queue # <<>> /\ queue' = Tail(queue) /\ queued_bytes' = queued_bytes - Head(queue).size
      BY <2>5 DEF Take
    <3>2. CASE UNCHANGED <<queue, queued_bytes>>
      BY <2>0, <3>2 DEF AddsUp
    <3>3. CASE queue # <<>> /\ queue' = Tail(queue) /\ queued_bytes' = queued_bytes - Head(queue).size
      <4>1. AddsUp(queue', queued_bytes') /\ queued_bytes' \in 0 .. MaxBytes
        BY <2>0, <3>3, AddsUpTail
      <4>2. queue' \in Seq(Transfer) /\ Len(queue') <= MaxCount
        BY <1>0, <2>0, <3>3
      <4> QED
        BY <4>1, <4>2 DEF AddsUp
    <3> QED
      BY <3>1, <3>2, <3>3
  <2> QED
    BY <2>1, <2>2, <2>3, <2>4, <2>5, Steps, StillSteps
<1>2. state' \in States
  BY <1>0, CapturesKeep DEF ClientTypes, States, Next, Start, Expire, Stop, JoinWriter, RunTask, Complete,
     AnnounceLoss, FinishStop, Writer, Take, Probe, SendFrame, ReadAck, NoAck, Report, Reconnect,
     Backoff, TryConnect, Install, GiveUp, LoseChannel, Flush, Receiver, Exit, Restart, Receive,
     RejectAndClose, CloseConnection, clientVars, vars
<1>3. socket_descriptor' \in 0 .. MaxConnections /\ open' \in SUBSET Descriptors
  <2>0. /\ socket_descriptor \in 0 .. MaxConnections /\ open \in SUBSET (1 .. MaxConnections)
        /\ descriptor \in 0 .. MaxConnections /\ connections \in 0 .. MaxConnections
    BY <1>0 DEF ClientTypes, WriterTypes, ReceiverTypes, Descriptors
  <2>1. CASE Start \/ TryConnect
    <3>1. \/ socket_descriptor' = socket_descriptor /\ open' = open
          \/ /\ connections < MaxConnections /\ open' = open \cup {connections + 1}
             /\ socket_descriptor' \in {socket_descriptor, connections + 1}
      BY <2>1 DEF Start, TryConnect, Connect, clientVars
    <3>2. connections < MaxConnections =>
             connections + 1 \in Descriptors /\ connections + 1 \in 0 .. MaxConnections
      BY <1>0, <2>0 DEF Descriptors
    <3>3. socket_descriptor \in 0 .. MaxConnections /\ open \in SUBSET Descriptors
      BY <1>0 DEF ClientTypes
    <3> HIDE <1>0, <2>0
    <3> QED
      BY <3>1, <3>2, <3>3
  <2>2. CASE Reconnect \/ Install \/ RunTask
    <3>1. /\ socket_descriptor' \in {socket_descriptor, 0, descriptor}
          /\ open' \in {open, open \ {socket_descriptor}, open \ {descriptor}}
      <4>1. CASE Reconnect
        BY <4>1 DEF Reconnect
      <4>2. CASE Install
        BY <4>2 DEF Install
      <4>3. CASE RunTask
        BY <4>3 DEF RunTask, Complete, AnnounceLoss, FinishStop, clientVars
      <4> QED
        BY <2>2, <4>1, <4>2, <4>3
    <3> QED
      BY <1>0, <2>0, <3>1 DEF Descriptors
  <2>3. CASE ~ (Start \/ TryConnect \/ Reconnect \/ Install \/ RunTask)
    <3>1. UNCHANGED <<socket_descriptor, open>>
      BY <2>3, CapturesKeep DEF Next, Expire, Stop, JoinWriter, Writer, Take, Probe,
         SendFrame, ReadAck, NoAck, Report, Backoff, GiveUp, LoseChannel,
         Flush, Receiver, Exit, Restart, Receive, RejectAndClose, CloseConnection, clientVars, vars
    <3> QED
      BY <2>0, <3>1 DEF Descriptors
  <2> QED
    BY <2>1, <2>2, <2>3
<1> QED
  BY <1>1, <1>2, <1>3 DEF ClientTypes

LEMMA WriterTypesStep ==
    ASSUME IInv, [Next]_vars
    PROVE  WriterTypes'
<1>0. ClientTypes /\ WriterTypes /\ ReceiverTypes /\ PhaseInv
  BY DEF IInv, TypeOK
<1>1. wpc' \in WriterPlaces
  BY <1>0, CapturesKeep DEF WriterTypes, WriterPlaces, Next, Start, Expire, Stop, JoinWriter, RunTask, Woken,
     Writer, Take, Probe, SendFrame, ReadAck, NoAck, Report, Reconnect,
     Backoff, TryConnect, Install, GiveUp, LoseChannel, Flush, Receiver, Exit, Restart, Receive,
     RejectAndClose, CloseConnection, writerVars, vars
<1>2. hand' \in Transfer \cup {NoTransfer}
  <2>1. hand' \in {hand, NoTransfer} \/ (queue # <<>> /\ hand' = Head(queue))
    <3>1. CASE Still
      BY <3>1 DEF Still
    <3>2. CASE Captures \/ JoinWriter \/ RunTask \/ Take \/ Report \/ GiveUp \/ Flush
      BY <3>2, CapturesKeep DEF JoinWriter, RunTask, Take, Report, GiveUp, Flush, writerVars
    <3> QED
      BY <3>1, <3>2, Steps, StillSteps
  <2>2. queue # <<>> => Head(queue) \in Transfer
    BY <1>0 DEF ClientTypes
  <2> QED
    BY <1>0, <2>1, <2>2 DEF WriterTypes
<1>3. descriptor' \in 0 .. MaxConnections
  <2>1. /\ descriptor \in 0 .. MaxConnections /\ socket_descriptor \in 0 .. MaxConnections
        /\ connections \in 0 .. MaxConnections /\ MaxConnections \in Nat
    BY <1>0, BoundsAssumption DEF WriterTypes, ClientTypes, ReceiverTypes
  <2>2. \/ descriptor' \in {descriptor, socket_descriptor, 0}
        \/ connections < MaxConnections /\ descriptor' = connections + 1
    BY CapturesKeep DEF Next, Start, Expire, Stop, JoinWriter, RunTask, Connect,
       Writer, Take, Probe, SendFrame, ReadAck, NoAck, Report, Reconnect,
       Backoff, TryConnect, Install, GiveUp, LoseChannel, Flush, Receiver, Exit, Restart, Receive,
       RejectAndClose, CloseConnection, writerVars, vars
  <2> QED
    BY <2>1, <2>2
<1>4. attempt' \in 0 .. Attempts + 1
  <2>1. attempt \in 0 .. Attempts + 1 /\ (wpc = "connect" => attempt \in 1 .. Attempts) /\ Attempts \in Nat
    BY <1>0, AttemptsAssumption DEF WriterTypes, PhaseInv
  <2>2. attempt' \in {attempt, 1} \/ (wpc = "connect" /\ attempt' = attempt + 1)
    BY CapturesKeep DEF Next, Start, Expire, Stop, JoinWriter, RunTask,
       Writer, Take, Probe, SendFrame, ReadAck, NoAck, Report, Reconnect,
       Backoff, TryConnect, Install, GiveUp, LoseChannel, Flush, Receiver, Exit, Restart, Receive,
       RejectAndClose, CloseConnection, writerVars, vars
  <2> QED
    BY <2>1, <2>2
<1>5. status' \in Statuses \cup {"none"}
  <2>1. status \in Statuses \cup {"none"} /\ (descriptor \in Descriptors => conns[descriptor].ack \in Statuses \cup {"none"})
    BY <1>0 DEF WriterTypes, ReceiverTypes
  <2>2. ReadAck => descriptor \in Descriptors
    BY <1>0, BoundsAssumption DEF IInv, DescriptorInv, ReadAck, WriterTypes, Descriptors
  <2>3. status' \in {status, "none", "io_error"} \/ (ReadAck /\ status' = conns[descriptor].ack)
    BY CapturesKeep DEF Next, Start, Expire, Stop, JoinWriter, RunTask,
       Writer, Take, Probe, SendFrame, ReadAck, NoAck, Report, Reconnect,
       Backoff, TryConnect, Install, GiveUp, LoseChannel, Flush, Receiver, Exit, Restart, Receive,
       RejectAndClose, CloseConnection, writerVars, vars
  <2> QED
    BY <2>1, <2>2, <2>3 DEF Statuses
<1> QED
  BY <1>1, <1>2, <1>3, <1>4, <1>5 DEF WriterTypes

LEMMA ReceiverTypesStep ==
    ASSUME IInv, [Next]_vars
    PROVE  ReceiverTypes'
<1>0. ClientTypes /\ WriterTypes /\ ReceiverTypes /\ SinkTypes /\ DescriptorInv
  BY DEF IInv, TypeOK
<1> DEFINE Conn == [frame : 0 .. MaxTransfers, ack : Statuses \cup {"none"},
                    peer : BOOLEAN, shut : BOOLEAN]
<1>1. up' \in BOOLEAN
  <2>1. up' \in {up, TRUE, FALSE}
    BY CapturesKeep DEF Next, Start, Expire, Stop, JoinWriter, RunTask, Connect,
       Writer, Take, Probe, SendFrame, ReadAck, NoAck, Report, Reconnect,
       Backoff, TryConnect, Install, GiveUp, LoseChannel, Flush, Receiver, Exit, Restart, Receive,
       RejectAndClose, CloseConnection, receiverVars, vars
  <2> QED
    BY <1>0, <2>1 DEF ReceiverTypes
<1>2. connections' \in 0 .. MaxConnections
  <2>1. connections \in 0 .. MaxConnections /\ MaxConnections \in Nat
    BY <1>0, BoundsAssumption DEF ReceiverTypes
  <2>2. connections' = connections \/ (connections < MaxConnections /\ connections' = connections + 1)
    BY CapturesKeep DEF Next, Start, Expire, Stop, JoinWriter, RunTask, Connect,
       Writer, Take, Probe, SendFrame, ReadAck, NoAck, Report, Reconnect,
       Backoff, TryConnect, Install, GiveUp, LoseChannel, Flush, Receiver, Exit, Restart, Receive,
       RejectAndClose, CloseConnection, receiverVars, vars
  <2> QED
    BY <2>1, <2>2
<1>3. faults' \in 0 .. MaxFaults
  <2>1. faults \in 0 .. MaxFaults /\ MaxFaults \in Nat
    BY <1>0, BoundsAssumption DEF ReceiverTypes
  <2>2. faults' = faults \/ (faults < MaxFaults /\ faults' = faults + 1)
    BY CapturesKeep DEF Next, Start, Expire, Stop, JoinWriter, RunTask, Connect,
       Writer, Take, Probe, SendFrame, ReadAck, NoAck, Report, Reconnect,
       Backoff, TryConnect, Install, GiveUp, LoseChannel, Flush, Receiver, Exit, Restart, Receive,
       RejectAndClose, CloseConnection, receiverVars, vars
  <2> QED
    BY <2>1, <2>2
<1>4. conns' \in [Descriptors -> Conn]
  <2>0. /\ conns \in [Descriptors -> Conn] /\ Fresh \in Conn /\ hand.id \in 0 .. MaxTransfers
        /\ 0 \in 0 .. MaxTransfers
    <3>1. Fresh \in Conn /\ 0 \in 0 .. MaxTransfers
      BY BoundsAssumption DEF Fresh
    <3>2. hand.id \in 0 .. MaxTransfers
      BY <1>0, BoundsAssumption DEF WriterTypes, Transfer, Ids, NoTransfer
    <3> QED
      BY <1>0, <3>1, <3>2 DEF ReceiverTypes
  <2>1. CASE Start \/ TryConnect
    <3>1. \E d : conns' \in {conns, [conns EXCEPT ![d] = Fresh]}
      BY <2>1 DEF Start, TryConnect, Connect
    <3> QED
      BY <2>0, <3>1
  <2>2. CASE Stop
    <3>1. conns' = conns \/ conns' = [conns EXCEPT ![socket_descriptor].shut = TRUE]
      BY <2>2 DEF Stop
    <3>2. \A d \in Descriptors : [conns[d] EXCEPT !.shut = TRUE] \in Conn
      BY <2>0
    <3> QED
      BY <2>0, <3>1, <3>2
  <2>3. CASE SendFrame \/ ReadAck
    <3>1. CASE conns' = conns
      BY <2>0, <3>1
    <3>2. CASE conns' = [conns EXCEPT ![descriptor].frame = hand.id]
      BY <2>0, <3>2
    <3>3. CASE conns' = [conns EXCEPT ![descriptor].ack = "none"]
      BY <2>0, <3>3
    <3> QED
      BY <2>3, <3>1, <3>2, <3>3 DEF SendFrame, ReadAck
  <2>4. CASE Receiver
    <3>1. CASE Exit
      BY <2>0, <3>1 DEF Exit, HangUp
    <3>2. ASSUME NEW d \in Descriptors, CloseConnection(d)
          PROVE  conns' \in [Descriptors -> Conn]
      BY <2>0, <3>2 DEF CloseConnection, HangUp
    <3>3. ASSUME NEW d \in Descriptors, Receive(d)
          PROVE  conns' \in [Descriptors -> Conn]
      BY <2>0, <3>3 DEF Receive, Statuses
    <3>4. ASSUME NEW d \in Descriptors, RejectAndClose(d)
          PROVE  conns' \in [Descriptors -> Conn]
      BY <2>0, <3>4 DEF RejectAndClose, Statuses
    <3>5. CASE Restart
      BY <2>0, <3>5 DEF Restart
    <3> QED
      BY <2>4, <3>1, <3>2, <3>3, <3>4, <3>5 DEF Receiver
  <2>5. CASE ~ (Start \/ TryConnect \/ Stop \/ SendFrame \/ ReadAck \/ Receiver)
    <3>1. conns' = conns
      BY <2>5, CapturesKeep DEF Next, Expire, JoinWriter, RunTask, Writer, Take, Probe, NoAck, Report, Reconnect,
         Backoff, Install, GiveUp, LoseChannel, Flush, receiverVars, vars
    <3> QED
      BY <2>0, <3>1
  <2> QED
    BY <2>1, <2>2, <2>3, <2>4, <2>5
<1>5. stored' \in SUBSET Ids
  <2>1. stored' = stored \/ \E d \in Descriptors : conns[d].frame # 0 /\ stored' = stored \cup {conns[d].frame}
    BY CapturesKeep DEF Next, Start, Expire, Stop, JoinWriter, RunTask, Connect,
       Writer, Take, Probe, SendFrame, ReadAck, NoAck, Report, Reconnect,
       Backoff, TryConnect, Install, GiveUp, LoseChannel, Flush, Receiver, Exit, Restart, Receive,
       RejectAndClose, CloseConnection, receiverVars, vars
  <2>2. \A d \in Descriptors : conns[d].frame # 0 => conns[d].frame \in Ids
    BY <1>0, BoundsAssumption DEF ReceiverTypes, Ids
  <2> QED
    BY <1>0, <2>1, <2>2 DEF ReceiverTypes
<1> QED
  BY <1>1, <1>2, <1>3, <1>4, <1>5 DEF ReceiverTypes

----------------------------------------------------------------------------
(* The posted tasks *)

Task == Completions \cup {Lost, Finish}

\* The step runs the first `ran` tasks and posts those of new.
Moved(ran, new) ==
    /\ ran \in {0, 1} /\ ran <= Len(tasks) /\ new \in Seq(Task)
    /\ tasks' \in Seq(Task) /\ Len(tasks') = Len(tasks) - ran + Len(new)
    /\ \A i \in 1 .. Len(tasks) - ran : tasks'[i] = tasks[i + ran]
    /\ \A i \in 1 .. Len(new) : tasks'[Len(tasks) - ran + i] = new[i]

LEMMA Posts ==
    ASSUME tasks \in Seq(Task), NEW new \in Seq(Task), tasks' = tasks \o new
    PROVE  Moved(0, new)
<1>1. /\ tasks \o new \in Seq(Task) /\ Len(tasks \o new) = Len(tasks) + Len(new)
      /\ \A i \in 1 .. Len(tasks) : (tasks \o new)[i] = tasks[i]
      /\ \A i \in 1 .. Len(new) : (tasks \o new)[Len(tasks) + i] = new[i]
  BY ConcatIndex
<1>2. Len(tasks) \in Nat /\ Len(new) \in Nat
  OBVIOUS
<1> QED
  BY <1>1, <1>2 DEF Moved

LEMMA Runs ==
    ASSUME tasks \in Seq(Task), tasks # <<>>, NEW new \in Seq(Task), tasks' = Tail(tasks) \o new
    PROVE  Moved(1, new)
<1>1. /\ Tail(tasks) \in Seq(Task) /\ Len(Tail(tasks)) = Len(tasks) - 1
      /\ \A i \in 1 .. Len(tasks) - 1 : Tail(tasks)[i] = tasks[i + 1]
      /\ Len(tasks) \in Nat /\ Len(tasks) >= 1 /\ Len(new) \in Nat
  OBVIOUS
<1>2. /\ Tail(tasks) \o new \in Seq(Task) /\ Len(Tail(tasks) \o new) = Len(Tail(tasks)) + Len(new)
      /\ \A i \in 1 .. Len(Tail(tasks)) : (Tail(tasks) \o new)[i] = Tail(tasks)[i]
      /\ \A i \in 1 .. Len(new) : (Tail(tasks) \o new)[Len(Tail(tasks)) + i] = new[i]
  BY <1>1, ConcatIndex
<1> QED
  BY <1>1, <1>2 DEF Moved

LEMMA TaskMoves ==
    ASSUME IInv
    PROVE  /\ Still \/ Captures \/ Take => tasks' = tasks
           /\ JoinWriter => Moved(0, <<Finish>>)
           /\ Report => Moved(0, <<Done(hand.id, status)>>)
           /\ GiveUp /\ hand = NoTransfer => tasks' = tasks
           /\ GiveUp /\ hand # NoTransfer => Moved(0, <<Done(hand.id, "io_error")>>)
           /\ Flush => Moved(0, IoErrors(queue) \o <<Lost>>)
           /\ RunTask /\ Head(tasks).op # "finish" => Moved(1, <<>>)
           /\ RunTask /\ Head(tasks).op = "finish" => Moved(1, IoErrors(queue))
<1>0. /\ tasks \in Seq(Task) /\ queue \in Seq(Transfer) /\ hand \in Transfer \cup {NoTransfer}
      /\ HandInv
  BY DEF IInv, TypeOK, SinkTypes, ClientTypes, WriterTypes, Task
<1>1. Still \/ Captures \/ Take => tasks' = tasks
  BY CapturesKeep DEF Still, Take
<1>2. ASSUME JoinWriter PROVE Moved(0, <<Finish>>)
  <2>1. tasks' = tasks \o <<Finish>> /\ <<Finish>> \in Seq(Task)
    BY <1>0, <1>2 DEF JoinWriter, Task
  <2> QED
    BY <1>0, <2>1, Posts
<1>3. ASSUME NEW s \in Statuses, hand # NoTransfer PROVE <<Done(hand.id, s)>> \in Seq(Task)
  <2>1. Done(hand.id, s) \in Task
    BY <1>0, <1>3 DEF Done, Task, Completions, Transfer
  <2> QED
    BY <2>1
<1>4. ASSUME Report PROVE Moved(0, <<Done(hand.id, status)>>)
  <2>1. hand # NoTransfer /\ status \in Statuses /\ tasks' = Append(tasks, Done(hand.id, status))
    BY <1>0, <1>4 DEF Report, HandInv
  <2>2. <<Done(hand.id, status)>> \in Seq(Task)
    BY <1>3, <2>1
  <2>3. tasks' = tasks \o <<Done(hand.id, status)>>
    BY <1>0, <2>1, <2>2
  <2> QED
    BY <1>0, <2>2, <2>3, Posts
<1>5. ASSUME GiveUp, hand # NoTransfer PROVE Moved(0, <<Done(hand.id, "io_error")>>)
  <2>1. tasks' = Append(tasks, Done(hand.id, "io_error"))
    BY <1>5 DEF GiveUp
  <2>2. <<Done(hand.id, "io_error")>> \in Seq(Task)
    BY <1>3, <1>5 DEF Statuses
  <2>3. tasks' = tasks \o <<Done(hand.id, "io_error")>>
    BY <1>0, <2>1, <2>2
  <2> QED
    BY <1>0, <2>2, <2>3, Posts
<1>6. IoErrors(queue) \in Seq(Task) /\ <<Lost>> \in Seq(Task)
  <2>1. IoErrors(queue) \in Seq(Completions)
    BY <1>0, IoErrorsAre
  <2> QED
    BY <2>1, SeqMonotonic DEF Task
<1>7. ASSUME Flush PROVE Moved(0, IoErrors(queue) \o <<Lost>>)
  <2>1. tasks' = (tasks \o IoErrors(queue)) \o <<Lost>>
    BY <1>7 DEF Flush
  <2>2. tasks' = tasks \o (IoErrors(queue) \o <<Lost>>) /\ IoErrors(queue) \o <<Lost>> \in Seq(Task)
    BY <1>0, <1>6, <2>1, ConcatAssociative, ConcatProperties
  <2> QED
    BY <1>0, <2>2, Posts
<1>8. ASSUME RunTask, Head(tasks).op # "finish" PROVE Moved(1, <<>>)
  <2>1. tasks # <<>> /\ tasks' = Tail(tasks)
    BY <1>8 DEF RunTask, Complete, AnnounceLoss
  <2>2. <<>> \in Seq(Task) /\ tasks' = Tail(tasks) \o <<>>
    BY <1>0, <2>1
  <2> QED
    BY <1>0, <2>1, <2>2, Runs
<1>9. ASSUME RunTask, Head(tasks).op = "finish" PROVE Moved(1, IoErrors(queue))
  <2>1. tasks # <<>> /\ tasks' = Tail(tasks) \o IoErrors(queue)
    BY <1>9 DEF RunTask, FinishStop
  <2> QED
    BY <1>0, <1>6, <2>1, Runs
<1>10. GiveUp /\ hand = NoTransfer => tasks' = tasks
  BY DEF GiveUp
<1> QED
  BY <1>1, <1>2, <1>4, <1>5, <1>7, <1>8, <1>9, <1>10

LEMMA SinkTypesStep ==
    ASSUME IInv, [Next]_vars
    PROVE  SinkTypes'
<1>0. SinkTypes /\ ClientTypes /\ WriterTypes
  BY DEF IInv, TypeOK
<1>1. tasks' \in Seq(Completions \cup {Lost, Finish})
  BY <1>0, TaskMoves, Steps, StillSteps DEF Moved, Task, SinkTypes
<1>2. /\ capturing' \in BOOLEAN /\ expired' \in BOOLEAN /\ lost' \in BOOLEAN
      /\ generation' \in Nat
  <2>1. /\ capturing' \in {capturing, TRUE, FALSE} /\ expired' \in {expired, TRUE, FALSE}
        /\ lost' \in {lost, TRUE, FALSE} /\ generation' \in {generation, generation + 1}
    BY CapturesKeep DEF Next, Start, Expire, Stop, SetEmitter, JoinWriter, RunTask, Complete,
       AnnounceLoss, FinishStop, Writer, Take, Probe, SendFrame, ReadAck, NoAck, Report, Reconnect,
       Backoff, TryConnect, Install, GiveUp, LoseChannel, Flush, Receiver, Exit, Restart, Receive,
       RejectAndClose, CloseConnection, sinkVars, historyVars, vars
  <2>2. /\ capturing \in BOOLEAN /\ expired \in BOOLEAN /\ lost \in BOOLEAN
    BY <1>0 DEF SinkTypes
  <2>3. capturing' \in BOOLEAN /\ expired' \in BOOLEAN /\ lost' \in BOOLEAN
    BY <2>1, <2>2
  <2>4. generation \in Nat
    BY <1>0 DEF SinkTypes
  <2>5. generation' \in Nat
    <3>1. \A n \in Nat : n + 1 \in Nat
      OBVIOUS
    <3> QED
      BY <2>1, <2>4, <3>1
  <2> QED
    BY <2>3, <2>5
<1>3. /\ accepted' \in SUBSET Ids
      /\ log' \in Seq([id : Ids, status : Statuses])
  <2>0. /\ accepted \in SUBSET Ids /\ MaxTransfers \in Nat
        /\ log \in Seq([id : Ids, status : Statuses]) /\ tasks \in Seq(Task)
    BY <1>0, BoundsAssumption DEF SinkTypes, Task
  <2>1. CASE Captures
    BY <2>0, <2>1, CapturesKeep, CapturesSend DEF KeepsQueue, Sends
  <2>2. CASE RunTask
    <3>1. accepted' = accepted
      BY <2>2 DEF RunTask
    <3>2. \/ log' = log
          \/ Head(tasks).op = "done" /\ log' = Append(log, [id |-> Head(tasks).id, status |-> Head(tasks).status])
      BY <2>2 DEF RunTask, Complete, AnnounceLoss, FinishStop
    <3>3. Head(tasks).op = "done" => Head(tasks) \in Completions
      <4>1. Head(tasks) \in Task
        BY <2>0, <2>2 DEF RunTask
      <4> QED
        BY <4>1 DEF Task, Lost, Finish
    <3>4. Head(tasks).op = "done" => [id |-> Head(tasks).id, status |-> Head(tasks).status] \in [id : Ids, status : Statuses]
      BY <3>3 DEF Completions
    <3>5. \A r \in [id : Ids, status : Statuses] : Append(log, r) \in Seq([id : Ids, status : Statuses])
      BY <2>0
    <3>6. log' \in Seq([id : Ids, status : Statuses])
      BY <2>0, <3>2, <3>4, <3>5
    <3> QED
      BY <2>0, <3>1, <3>6
  <2>3. CASE Still
    BY <2>0, <2>3 DEF Still
  <2>4. CASE JoinWriter \/ Take \/ Report \/ GiveUp \/ Flush
    BY <2>0, <2>4 DEF JoinWriter, Take, Report, GiveUp, Flush, historyVars
  <2> QED
    BY <2>1, <2>2, <2>3, <2>4, Steps, StillSteps
<1>4. offered' \in 0 .. MaxTransfers /\ owner' \in [Ids -> Nat]
  <2>0. offered \in 0 .. MaxTransfers /\ MaxTransfers \in Nat /\ owner \in [Ids -> Nat] /\ generation \in Nat
    BY <1>0, BoundsAssumption DEF SinkTypes
  <2>1. CASE Admit
    <3>1. offered < MaxTransfers /\ offered' = offered + 1 /\ owner' = [owner EXCEPT ![offered + 1] = generation]
      BY <2>1 DEF Admit
    <3>2. offered' \in 0 .. MaxTransfers
      BY <2>0, <3>1
    <3> QED
      BY <2>0, <3>1, <3>2
  <2>2. Admit \/ UNCHANGED <<offered, owner>>
    BY SinkSteps DEF Captures, Capture, BeginBody, EndBody, Start, Stop, Expire, RunTask, SinkStill, historyVars
  <2> QED
    BY <2>0, <2>1, <2>2
<1>5. pending' \subseteq [id : Ids, generation : Nat] /\ bodies' \subseteq [id : Ids, generation : Nat]
  <2> DEFINE Noted == [id : Ids, generation : Nat]
  <2>0. pending \subseteq Noted /\ bodies \subseteq Noted /\ generation \in Nat
    BY <1>0 DEF SinkTypes
  <2>1. \A id \in Ids : [id |-> id, generation |-> generation] \in Noted
    BY <2>0
  <2>2. CASE Captures
    <3>1. pending' \subseteq Noted
      BY <2>0, <2>1, <2>2, CapturesSend DEF KeepsQueue, Sends
    <3>2. \/ bodies' \subseteq bodies
          \/ offered + 1 \in Ids /\ bodies' = bodies \cup {[id |-> offered + 1, generation |-> generation]}
      BY <1>0, <2>2, BoundsAssumption DEF Captures, Capture, BeginBody, EndBody, Admit, SinkTypes, Ids
    <3> QED
      BY <2>0, <2>1, <3>1, <3>2
  <2>3. CASE ~ Captures
    <3>1. pending' \subseteq pending /\ bodies' = bodies
      BY <2>3, SinkSteps DEF Start, Stop, SetEmitter, Expire, RunTask, Complete, AnnounceLoss,
         FinishStop, SinkStill, sinkVars
    <3> QED
      BY <2>0, <3>1
  <2> QED
    BY <2>2, <2>3
<1>6. results' \in Seq([id : Ids, status : Statuses \cup {"failed"}, generation : Nat])
  <2> DEFINE Result == [id : Ids, status : Statuses \cup {"failed"}, generation : Nat]
  <2>0. results \in Seq(Result) /\ generation \in Nat /\ tasks \in Seq(Task)
    BY <1>0 DEF SinkTypes, Task
  <2>1. ASSUME NEW id \in Ids, NEW s \in Statuses \cup {"failed"}, EmitResult(id, s)
        PROVE  results' \in Seq(Result)
    <3>1. [id |-> id, status |-> s, generation |-> generation] \in Result
      BY <2>0
    <3>2. \A r \in Result : Append(results, r) \in Seq(Result)
      BY <2>0
    <3> HIDE DEF Result
    <3> QED
      BY <2>0, <2>1, <3>1, <3>2 DEF EmitResult
  <2>2. CASE Captures
    BY <2>0, <2>1, <2>2, CapturesRecord
  <2>3. CASE RunTask
    <3>1. results' = results \/ (Head(tasks).op = "done" /\ EmitResult(Head(tasks).id, Head(tasks).status))
      BY <2>3 DEF RunTask, Complete, AnnounceLoss, FinishStop
    <3>2. Head(tasks).op = "done" => Head(tasks).id \in Ids /\ Head(tasks).status \in Statuses
      <4>1. Head(tasks) \in Task
        BY <2>0, <2>3 DEF RunTask
      <4> QED
        BY <4>1 DEF Task, Completions, Lost, Finish
    <3> QED
      BY <2>0, <2>1, <3>1, <3>2
  <2>4. CASE ~ Captures /\ ~ RunTask
    <3>1. results' = results
      BY <2>4, SinkSteps DEF Start, Stop, Expire, SinkStill, historyVars
    <3> QED
      BY <2>0, <3>1
  <2> QED
    BY <2>2, <2>3, <2>4
<1> QED
  BY <1>1, <1>2, <1>3, <1>4, <1>5, <1>6 DEF SinkTypes

----------------------------------------------------------------------------
(* The channel's states, the writer's hand and the descriptors *)

\* The end of a session is the last task, and finds the writer joined.
LEMMA FinishIsLast ==
    ASSUME IInv, RunTask
    PROVE  /\ Head(tasks) = tasks[1] /\ 1 \in 1 .. Len(tasks) /\ Head(tasks) \in Task
           /\ Head(tasks).op = "finish" => state = "stopping" /\ wpc = "off"
<1>1. tasks \in Seq(Task) /\ tasks # <<>>
  BY DEF IInv, TypeOK, SinkTypes, Task, RunTask
<1>2. Head(tasks) = tasks[1] /\ 1 \in 1 .. Len(tasks) /\ Head(tasks) \in Task
  BY <1>1
<1> QED
  BY <1>2 DEF IInv, TaskInv, Has

LEMMA PhaseInvStep ==
    ASSUME IInv, [Next]_vars
    PROVE  PhaseInv'
<1>0. PhaseInv /\ wpc \in WriterPlaces /\ state \in States /\ Attempts \in Nat \ {0} /\ DescriptorInv
  BY AttemptsAssumption DEF IInv, TypeOK, WriterTypes, ClientTypes
<1>1. CASE Start
  BY <1>0, <1>1 DEF PhaseInv, Start, SetEmitter
<1>2. CASE Captures
  <2>1. /\ UNCHANGED <<state, capturing, attempt>>
        /\ UNCHANGED <<queue, wpc>> \/ (state \in {"connected", "reconnecting"} /\ wpc' = Woken)
    BY <1>2, CapturesKeep, CapturesSend DEF KeepsQueue, Sends, AcceptsTransfers
  <2> QED
    BY <1>0, <2>1 DEF PhaseInv, Woken
<1>3. CASE Stop
  BY <1>0, <1>3 DEF PhaseInv, Stop, Woken, SetEmitter
<1>4. CASE JoinWriter
  BY <1>0, <1>4 DEF PhaseInv, JoinWriter, clientVars, sinkVars
<1>5. CASE RunTask
  <2>1. CASE Head(tasks).op = "finish"
    <3>1. state = "stopping" /\ wpc = "off"
      BY <1>5, <2>1, FinishIsLast
    <3>2. FinishStop /\ UNCHANGED writerVars
      BY <1>5, <2>1 DEF RunTask
    <3> QED
      BY <1>0, <3>1, <3>2 DEF PhaseInv, FinishStop, sinkVars, writerVars
  <2>2. CASE Head(tasks).op # "finish"
    BY <1>0, <1>5, <2>2 DEF RunTask, Complete, AnnounceLoss, PhaseInv, clientVars, sinkVars, writerVars
  <2> QED
    BY <2>1, <2>2
<1>6. CASE Take \/ Probe \/ SendFrame
  BY <1>0, <1>6 DEF PhaseInv, Take, Probe, SendFrame, clientVars, sinkVars
<1>7. CASE ReadAck \/ NoAck \/ Report
  BY <1>0, <1>7 DEF PhaseInv, ReadAck, NoAck, Report, clientVars, sinkVars
<1>8. CASE Reconnect \/ Backoff
  BY <1>0, <1>8 DEF PhaseInv, Reconnect, Backoff, clientVars, sinkVars, States, WriterPlaces
<1>9. CASE TryConnect
  <2>1. /\ wpc = "connect" /\ UNCHANGED <<state, queue, capturing>>
        /\ \/ wpc' = "install" /\ attempt' = attempt
           \/ wpc' = "gave_up"
           \/ wpc' = "backoff" /\ attempt # Attempts /\ attempt' = attempt + 1
    BY <1>9 DEF TryConnect, clientVars, sinkVars
  <2> QED
    BY <1>0, <2>1 DEF PhaseInv
<1>10. CASE Install \/ GiveUp \/ LoseChannel \/ Flush
  BY <1>0, <1>10 DEF PhaseInv, Install, GiveUp, LoseChannel, Flush, clientVars, sinkVars, States, WriterPlaces
<1>11. CASE Expire \/ Receiver \/ UNCHANGED vars
  <2>1. UNCHANGED <<state, wpc, queue, capturing, attempt>>
    BY <1>11 DEF Expire, Receiver, Exit, Restart, Receive, RejectAndClose, CloseConnection, vars, clientVars,
       writerVars, sinkVars
  <2> QED
    BY <1>0, <2>1 DEF PhaseInv
<1> QED
  BY <1>1, <1>2, <1>3, <1>4, <1>5, <1>6, <1>7, <1>8, <1>9, <1>10, <1>11 DEF Next, Writer

LEMMA StoredGrows ==
    ASSUME [Next]_vars
    PROVE  stored \subseteq stored'
BY CapturesKeep DEF Next, Start, Expire, Stop, JoinWriter, RunTask,
   Writer, Take, Probe, SendFrame, ReadAck, NoAck, Report, Reconnect,
   Backoff, TryConnect, Install, GiveUp, LoseChannel, Flush, Receiver, Exit, Restart, Receive,
   RejectAndClose, CloseConnection, receiverVars, vars

LEMMA TransferFacts ==
    ASSUME NEW t \in Transfer
    PROVE  t.id \in Ids /\ t.id # 0 /\ t # NoTransfer
<1>1. t.id \in Ids
  BY DEF Transfer
<1> QED
  BY <1>1, BoundsAssumption DEF Ids, NoTransfer

LEMMA HandInvStep ==
    ASSUME IInv, [Next]_vars
    PROVE  HandInv'
<1>0. PhaseInv /\ HandInv /\ AckInv /\ wpc \in WriterPlaces /\ stored \subseteq stored'
  BY StoredGrows DEF IInv, TypeOK, WriterTypes
<1>1. CASE Start \/ Captures \/ Stop \/ JoinWriter
  <2>1. /\ UNCHANGED <<hand, status>>
        /\ wpc' = wpc \/ (wpc = "asleep" /\ wpc' = "take") \/ (wpc = "off" /\ wpc' = "take")
           \/ (wpc = "done" /\ wpc' = "off")
    BY <1>0, <1>1, CapturesKeep DEF Start, Stop, JoinWriter, Woken, PhaseInv
  <2> QED
    BY <1>0, <2>1 DEF HandInv
<1>2. CASE Expire \/ RunTask \/ Receiver \/ UNCHANGED vars
  <2>1. UNCHANGED <<hand, status, wpc>>
    BY <1>2 DEF Expire, RunTask, Receiver, Exit, Restart, Receive, RejectAndClose, CloseConnection, vars, writerVars
  <2> QED
    BY <1>0, <2>1 DEF HandInv
<1>3. CASE Take
  <2>1. queue # <<>> => Head(queue) # NoTransfer
    <3>1. queue # <<>> => Head(queue) \in Transfer
      BY DEF IInv, TypeOK, ClientTypes
    <3> QED
      BY <3>1, TransferFacts
  <2> QED
    BY <1>0, <1>3, <2>1 DEF HandInv, Take
<1>4. CASE Probe \/ SendFrame
  BY <1>0, <1>4 DEF HandInv, Probe, SendFrame
<1>5. CASE ReadAck
  <2>1. conns[descriptor].ack \in Statuses \cup {"none"}
    <3>1. descriptor \in Descriptors
      BY <1>5, BoundsAssumption DEF IInv, TypeOK, WriterTypes, DescriptorInv, ReadAck, Descriptors
    <3> QED
      BY <3>1 DEF IInv, TypeOK, ReceiverTypes
  <2> QED
    BY <1>0, <1>5, <2>1 DEF HandInv, ReadAck, AckInv
<1>6. CASE NoAck \/ Report
  BY <1>0, <1>6 DEF HandInv, NoAck, Report, Statuses
<1>7. CASE Reconnect \/ Backoff \/ TryConnect
  BY <1>0, <1>7 DEF HandInv, Reconnect, Backoff, TryConnect
<1>8. CASE Install \/ GiveUp \/ LoseChannel \/ Flush
  BY <1>0, <1>8 DEF HandInv, Install, GiveUp, LoseChannel, Flush
<1> QED
  BY <1>1, <1>2, <1>3, <1>4, <1>5, <1>6, <1>7, <1>8 DEF Next, Writer

LEMMA DescriptorInvStep ==
    ASSUME IInv, [Next]_vars
    PROVE  DescriptorInv'
<1>0. /\ PhaseInv /\ DescriptorInv /\ wpc \in WriterPlaces /\ state \in States
      /\ connections \in Nat /\ socket_descriptor \in Nat
  BY BoundsAssumption DEF IInv, TypeOK, WriterTypes, ClientTypes, ReceiverTypes
<1>1. CASE Start
  BY <1>0, <1>1 DEF DescriptorInv, PhaseInv, Start, Connect
<1>2. CASE Captures \/ Stop \/ JoinWriter
  <2>1. /\ UNCHANGED <<open, socket_descriptor, descriptor>>
        /\ state' \in {state, "stopping"}
        /\ wpc' = wpc \/ (wpc = "asleep" /\ wpc' = "take") \/ (wpc = "done" /\ wpc' = "off")
    BY <1>2, CapturesKeep DEF Stop, JoinWriter, Woken, clientVars
  <2> QED
    BY <1>0, <2>1 DEF DescriptorInv
<1>3. CASE RunTask
  <2>1. CASE Head(tasks).op = "finish"
    <3>1. state = "stopping" /\ wpc = "off"
      BY <1>3, <2>1, FinishIsLast
    <3>2. FinishStop /\ UNCHANGED writerVars
      BY <1>3, <2>1 DEF RunTask
    <3> QED
      BY <1>0, <3>1, <3>2 DEF DescriptorInv, FinishStop, writerVars
  <2>2. CASE Head(tasks).op # "finish"
    <3>1. UNCHANGED <<open, socket_descriptor, descriptor, state, wpc>>
      BY <1>3, <2>2 DEF RunTask, Complete, AnnounceLoss, clientVars, writerVars
    <3> QED
      BY <1>0, <3>1 DEF DescriptorInv
  <2> QED
    BY <2>1, <2>2
<1>4. CASE Take \/ Probe
  BY <1>0, <1>4 DEF DescriptorInv, Take, Probe, clientVars
<1>5. CASE SendFrame \/ ReadAck \/ NoAck
  BY <1>0, <1>5 DEF DescriptorInv, SendFrame, ReadAck, NoAck, clientVars
<1>6. CASE Report
  BY <1>0, <1>6 DEF DescriptorInv, Report, clientVars
<1>7. CASE Reconnect
  BY <1>0, <1>7 DEF DescriptorInv, PhaseInv, Reconnect
<1>8. CASE Backoff \/ GiveUp
  <2>1. /\ UNCHANGED <<open, socket_descriptor, descriptor, state>>
        /\ (wpc = "backoff" /\ wpc' \in {"connect", "gave_up"}) \/ (wpc = "gave_up" /\ wpc' = "lose")
    BY <1>8 DEF Backoff, GiveUp, clientVars
  <2> QED
    BY <1>0, <2>1 DEF DescriptorInv
<1>9. CASE TryConnect
  BY <1>0, <1>9 DEF DescriptorInv, TryConnect, Connect, clientVars
<1>10. CASE Install
  BY <1>0, <1>10 DEF DescriptorInv, PhaseInv, Install
<1>11. CASE LoseChannel \/ Flush
  BY <1>0, <1>11 DEF DescriptorInv, LoseChannel, Flush
<1>12. CASE Expire \/ Receiver \/ UNCHANGED vars
  <2>1. UNCHANGED <<open, socket_descriptor, descriptor, state, wpc>>
    BY <1>12 DEF Expire, Receiver, Exit, Restart, Receive, RejectAndClose, CloseConnection, vars, clientVars, writerVars
  <2> QED
    BY <1>0, <2>1 DEF DescriptorInv
<1> QED
  BY <1>1, <1>2, <1>3, <1>4, <1>5, <1>6, <1>7, <1>8, <1>9, <1>10, <1>11, <1>12 DEF Next, Writer

LEMMA AckInvStep ==
    ASSUME IInv, [Next]_vars
    PROVE  AckInv'
<1>0. /\ PhaseInv /\ DescriptorInv /\ AckInv /\ HandInv /\ wpc \in WriterPlaces
      /\ socket_descriptor \in 0 .. MaxConnections /\ descriptor \in 0 .. MaxConnections
      /\ connections \in 0 .. MaxConnections /\ MaxConnections \in Nat
      /\ DOMAIN conns = 1 .. MaxConnections /\ stored \subseteq stored'
  BY BoundsAssumption, StoredGrows
     DEF IInv, TypeOK, WriterTypes, ClientTypes, ReceiverTypes, Descriptors
<1>a. ASSUME NEW d \in 1 .. MaxConnections
      PROVE  conns[d] = [frame |-> conns[d].frame, ack |-> conns[d].ack,
                         peer |-> conns[d].peer, shut |-> conns[d].shut]
  <2>1. conns[d] \in [frame : 0 .. MaxTransfers, ack : Statuses \cup {"none"},
                      peer : BOOLEAN, shut : BOOLEAN]
    BY <1>a DEF IInv, TypeOK, ReceiverTypes, Descriptors
  <2> QED
    BY <2>1
<1>1. CASE Start
  <2>1. socket_descriptor' \in DOMAIN conns /\ conns'[socket_descriptor'] = Fresh /\ wpc' = "take"
    BY <1>0, <1>1 DEF Start, Connect
  <2> QED
    BY <2>1 DEF AckInv, Quiet, Fresh
<1>2. CASE Captures \/ JoinWriter
  <2>1. /\ UNCHANGED <<conns, socket_descriptor, descriptor, hand>>
        /\ wpc' = wpc \/ (wpc = "asleep" /\ wpc' = "take") \/ (wpc = "done" /\ wpc' = "off")
    BY <1>2, CapturesKeep DEF JoinWriter, Woken, clientVars, receiverVars
  <2> QED
    BY <1>0, <2>1 DEF AckInv, Quiet
<1>3. CASE Stop
  <2>1. /\ UNCHANGED <<socket_descriptor, descriptor, hand>>
        /\ wpc' = wpc \/ (wpc = "asleep" /\ wpc' = "take")
        /\ conns' = conns \/ conns' = [conns EXCEPT ![socket_descriptor].shut = TRUE]
    BY <1>3 DEF Stop, Woken
  <2>2. \A d \in 1 .. MaxConnections : conns'[d].frame = conns[d].frame /\ conns'[d].ack = conns[d].ack
    BY <1>0, <1>a, <2>1
  <2>3. wpc \in {"install", "ack"} => descriptor \in 1 .. MaxConnections
    BY <1>0 DEF DescriptorInv
  <2>4. socket_descriptor # 0 => socket_descriptor \in 1 .. MaxConnections
    BY <1>0
  <2> QED
    BY <1>0, <2>1, <2>2, <2>3, <2>4 DEF AckInv, Quiet
<1>4. CASE RunTask
  <2>1. UNCHANGED <<conns, wpc, descriptor, hand>> /\ socket_descriptor' \in {socket_descriptor, 0}
    BY <1>4 DEF RunTask, Complete, AnnounceLoss, FinishStop, clientVars, writerVars, receiverVars
  <2> QED
    BY <1>0, <2>1 DEF AckInv, Quiet
<1>5. CASE Take
  <2>1. UNCHANGED <<conns, socket_descriptor>> /\ wpc = "take" /\ wpc' \in {"probe", "asleep", "done"}
    BY <1>5 DEF Take, receiverVars
  <2> QED
    BY <1>0, <2>1 DEF AckInv, Quiet
<1>6. CASE Probe
  <2>1. UNCHANGED <<conns, socket_descriptor>> /\ wpc = "probe" /\ wpc' \in {"send", "lost_idle"}
    BY <1>6 DEF Probe, receiverVars, clientVars
  <2> QED
    BY <1>0, <2>1 DEF AckInv, Quiet
<1>7. CASE SendFrame
  <2>1. /\ UNCHANGED <<descriptor, hand>> /\ wpc = "send" /\ wpc' = "ack"
        /\ conns' = conns \/ conns' = [conns EXCEPT ![descriptor].frame = hand.id]
    BY <1>7 DEF SendFrame
  <2>2. descriptor \in 1 .. MaxConnections /\ Quiet(descriptor)
    BY <1>0, <2>1 DEF DescriptorInv, AckInv
  <2>3. conns'[descriptor].frame \in {0, hand.id} /\ conns'[descriptor].ack = "none"
    BY <1>0, <1>a, <2>1, <2>2 DEF Quiet
  <2> QED
    BY <2>1, <2>3 DEF AckInv
<1>8. CASE ReadAck
  <2>1. /\ wpc = "ack" /\ wpc' \in {"acknowledged", "connection_lost"}
        /\ conns[descriptor].ack # "none"
        /\ socket_descriptor' = socket_descriptor
        /\ conns' = [conns EXCEPT ![descriptor].ack = "none"]
    BY <1>8 DEF ReadAck, clientVars
  <2>2. descriptor \in 1 .. MaxConnections /\ descriptor = socket_descriptor
    BY <1>0, <2>1 DEF DescriptorInv
  <2>3. conns'[descriptor].frame = 0 /\ conns'[descriptor].ack = "none"
    BY <1>0, <1>a, <2>1, <2>2 DEF AckInv
  <2> QED
    BY <2>1, <2>2, <2>3 DEF AckInv, Quiet
<1>9. CASE NoAck \/ Report
  <2>1. /\ UNCHANGED <<conns, socket_descriptor>>
        /\ wpc' \in {"connection_lost", "lost_sent"} \/ (wpc = "acknowledged" /\ wpc' = "take")
    BY <1>9 DEF NoAck, Report, receiverVars, clientVars
  <2> QED
    BY <1>0, <2>1 DEF AckInv, Quiet
<1>10. CASE Reconnect \/ Backoff \/ GiveUp \/ LoseChannel \/ Flush
  <2>1. wpc' \in {"backoff", "connect", "gave_up", "lose", "flush", "done"}
    BY <1>10 DEF Reconnect, Backoff, GiveUp, LoseChannel, Flush
  <2> QED
    BY <2>1 DEF AckInv
<1>11. CASE TryConnect
  <2>1. CASE wpc' # "install"
    <3>1. wpc' \in {"backoff", "gave_up"}
      BY <1>11, <2>1 DEF TryConnect
    <3> QED
      BY <3>1 DEF AckInv
  <2>2. CASE wpc' = "install"
    <3>1. descriptor' = connections + 1 /\ connections < MaxConnections
          /\ conns' = [conns EXCEPT ![connections + 1] = Fresh]
      BY <1>11, <2>2 DEF TryConnect, Connect
    <3>2. conns'[descriptor'] = Fresh
      BY <1>0, <3>1
    <3> QED
      BY <2>2, <3>2 DEF AckInv, Quiet, Fresh
  <2> QED
    BY <2>1, <2>2
<1>12. CASE Install
  <2>1. /\ conns' = conns /\ wpc = "install"
        /\ wpc' = "gave_up" \/ (wpc' \in {"take", "send"} /\ socket_descriptor' = descriptor)
    BY <1>12 DEF Install, receiverVars
  <2> QED
    BY <1>0, <2>1 DEF AckInv, Quiet
<1>13. CASE Receiver
  <2>0. UNCHANGED <<wpc, socket_descriptor, descriptor, hand>>
    BY <1>13 DEF Receiver, Exit, Restart, Receive, RejectAndClose, CloseConnection, clientVars, writerVars
  <2>1. \A d \in 1 .. MaxConnections :
           \/ conns'[d].frame = conns[d].frame /\ conns'[d].ack = conns[d].ack
           \/ /\ conns[d].frame # 0 /\ conns'[d].frame = 0 /\ conns'[d].ack = "rejected"
           \/ /\ conns[d].frame # 0 /\ conns'[d].frame = 0 /\ conns'[d].ack = "accepted"
              /\ conns[d].frame \in stored'
    <3>1. CASE Exit
      BY <1>0, <1>a, <3>1 DEF Exit, HangUp, Descriptors
    <3>2. CASE Restart
      BY <3>2 DEF Restart
    <3>3. ASSUME NEW e \in Descriptors, CloseConnection(e)
          PROVE  \A d \in 1 .. MaxConnections : conns'[d].frame = conns[d].frame /\ conns'[d].ack = conns[d].ack
      BY <1>0, <1>a, <3>3 DEF CloseConnection, HangUp, Descriptors
    <3>4. ASSUME NEW e \in Descriptors, RejectAndClose(e)
          PROVE  \A d \in 1 .. MaxConnections :
                    \/ conns'[d].frame = conns[d].frame /\ conns'[d].ack = conns[d].ack
                    \/ conns[d].frame # 0 /\ conns'[d].frame = 0 /\ conns'[d].ack = "rejected"
      BY <1>0, <1>a, <3>4 DEF RejectAndClose, Descriptors
    <3>5. ASSUME NEW e \in Descriptors, Receive(e)
          PROVE  \A d \in 1 .. MaxConnections :
                    \/ conns'[d].frame = conns[d].frame /\ conns'[d].ack = conns[d].ack
                    \/ conns[d].frame # 0 /\ conns'[d].frame = 0 /\ conns'[d].ack = "rejected"
                    \/ /\ conns[d].frame # 0 /\ conns'[d].frame = 0 /\ conns'[d].ack = "accepted"
                       /\ conns[d].frame \in stored'
      BY <1>0, <1>a, <3>5 DEF Receive, Descriptors
    <3> QED
      BY <1>13, <3>1, <3>2, <3>3, <3>4, <3>5 DEF Receiver
  <2>2. wpc \in {"install", "ack"} => descriptor \in 1 .. MaxConnections
    BY <1>0 DEF DescriptorInv
  <2>3. socket_descriptor # 0 => socket_descriptor \in 1 .. MaxConnections
    BY <1>0
  <2>4. wpc' \in {"take", "asleep", "probe", "send", "acknowledged"} /\ socket_descriptor' # 0 => Quiet(socket_descriptor)'
    BY <1>0, <2>0, <2>1, <2>3 DEF AckInv, Quiet
  <2>5. wpc' = "install" => Quiet(descriptor)'
    BY <1>0, <2>0, <2>1, <2>2 DEF AckInv, Quiet
  <2>6. wpc' = "ack" =>
          /\ conns'[descriptor].frame \in {0, hand.id}
          /\ conns'[descriptor].ack # "none" => conns'[descriptor].frame = 0
          /\ conns'[descriptor].ack = "accepted" => hand.id \in stored'
    BY <1>0, <2>0, <2>1, <2>2 DEF AckInv
  <2> QED
    BY <2>0, <2>4, <2>5, <2>6 DEF AckInv
<1>14. CASE Expire \/ UNCHANGED vars
  BY <1>0, <1>14 DEF Expire, AckInv, Quiet, vars, writerVars, clientVars, receiverVars
<1> QED
  BY <1>1, <1>2, <1>3, <1>4, <1>5, <1>6, <1>7, <1>8, <1>9, <1>10, <1>11, <1>12, <1>13, <1>14 DEF Next, Writer

----------------------------------------------------------------------------
(* The order of the tasks *)

\* Every task of the next state is one that has not run, or a new one; and they are all there.
Indexed(ran, new) ==
    /\ \A i \in 1 .. Len(tasks') :
          \/ /\ i + ran \in 1 .. Len(tasks) /\ i + ran > ran
             /\ i <= Len(tasks) - ran /\ tasks'[i] = tasks[i + ran]
          \/ /\ i - (Len(tasks) - ran) \in 1 .. Len(new)
             /\ i > Len(tasks) - ran /\ tasks'[i] = new[i - (Len(tasks) - ran)]
    /\ \A j \in 1 .. Len(tasks) :
          j > ran => j - ran \in 1 .. Len(tasks') /\ tasks'[j - ran] = tasks[j]
    /\ \A k \in 1 .. Len(new) :
          \E i \in 1 .. Len(tasks') : i = Len(tasks) - ran + k /\ tasks'[i] = new[k]

LEMMA MovedIndex ==
    ASSUME tasks \in Seq(Task), NEW ran, NEW new, Moved(ran, new)
    PROVE  Indexed(ran, new)
<1>1. Len(tasks) \in Nat /\ Len(new) \in Nat /\ ran \in Nat
  BY DEF Moved
<1>2. ASSUME NEW i \in 1 .. Len(tasks')
      PROVE  \/ /\ i + ran \in 1 .. Len(tasks) /\ i + ran > ran
                /\ i <= Len(tasks) - ran /\ tasks'[i] = tasks[i + ran]
             \/ /\ i - (Len(tasks) - ran) \in 1 .. Len(new)
                /\ i > Len(tasks) - ran /\ tasks'[i] = new[i - (Len(tasks) - ran)]
  <2>1. CASE i <= Len(tasks) - ran
    BY <1>1, <2>1 DEF Moved
  <2>2. CASE i > Len(tasks) - ran
    <3> DEFINE k == i - (Len(tasks) - ran)
    <3>1. k \in 1 .. Len(new) /\ Len(tasks) - ran + k = i
      BY <1>1, <2>2 DEF Moved
    <3>2. tasks'[Len(tasks) - ran + k] = new[k]
      BY <3>1 DEF Moved
    <3> QED
      BY <2>2, <3>1, <3>2
  <2> QED
    BY <1>1, <2>1, <2>2
<1>3. ASSUME NEW j \in 1 .. Len(tasks), j > ran
      PROVE  j - ran \in 1 .. Len(tasks') /\ tasks'[j - ran] = tasks[j]
  <2>1. j - ran \in 1 .. Len(tasks) - ran /\ (j - ran) + ran = j
    BY <1>1, <1>3
  <2> QED
    BY <1>1, <2>1 DEF Moved
<1>4. ASSUME NEW k \in 1 .. Len(new)
      PROVE  \E i \in 1 .. Len(tasks') : i = Len(tasks) - ran + k /\ tasks'[i] = new[k]
  <2>1. ASSUME NEW i, i = Len(tasks) - ran + k
        PROVE  i \in 1 .. Len(tasks') /\ tasks'[i] = new[k]
    <3>1. Len(tasks) - ran + k \in 1 .. Len(tasks) - ran + Len(new)
      BY <1>1 DEF Moved
    <3>2. tasks'[Len(tasks) - ran + k] = new[k] /\ Len(tasks') = Len(tasks) - ran + Len(new)
      BY DEF Moved
    <3> QED
      BY <2>1, <3>1, <3>2
  <2> QED
    BY <2>1
<1> QED
  BY <1>2, <1>3, <1>4 DEF Indexed

LEMMA MovedHas ==
    ASSUME tasks \in Seq(Task), NEW ran, NEW new, Moved(ran, new), NEW op
    PROVE  /\ Has(op)' => Has(op) \/ \E k \in 1 .. Len(new) : new[k].op = op
           /\ (\E k \in 1 .. Len(new) : new[k].op = op) => Has(op)'
           /\ Has(op) => Has(op)' \/ (ran = 1 /\ Head(tasks).op = op)
<1>0. Indexed(ran, new)
  BY MovedIndex
<1>1. ASSUME NEW i \in 1 .. Len(tasks'), tasks'[i].op = op
      PROVE  Has(op) \/ \E k \in 1 .. Len(new) : new[k].op = op
  <2>1. \/ \E j \in 1 .. Len(tasks) : tasks'[i] = tasks[j]
        \/ \E k \in 1 .. Len(new) : tasks'[i] = new[k]
    BY <1>0 DEF Indexed
  <2> QED
    BY <1>1, <2>1 DEF Has
<1>2. ASSUME NEW k \in 1 .. Len(new), new[k].op = op PROVE Has(op)'
  <2>1. PICK i \in 1 .. Len(tasks') : tasks'[i] = new[k]
    BY <1>0 DEF Indexed
  <2> QED
    BY <1>2, <2>1 DEF Has
<1>3. ASSUME NEW j \in 1 .. Len(tasks), tasks[j].op = op, ~ Has(op)'
      PROVE  ran = 1 /\ Head(tasks).op = op
  <2>1. ran \in {0, 1} /\ ~ j > ran
    BY <1>3, <1>0 DEF Indexed, Has, Moved
  <2>2. ran = 1 /\ j = 1 /\ Head(tasks) = tasks[1]
    BY <1>3, <2>1
  <2> QED
    BY <1>3, <2>2
<1> QED
  BY <1>1, <1>2, <1>3 DEF Has

LEMMA OrderMoves ==
    ASSUME tasks \in Seq(Task), NEW ran, NEW new, Moved(ran, new),
           \A i, j \in 1 .. Len(tasks) : i < j => Before(tasks[i], tasks[j]),
           \A i, j \in 1 .. Len(new) : i < j => Before(new[i], new[j]),
           \A i \in 1 .. Len(tasks), k \in 1 .. Len(new) : i > ran => Before(tasks[i], new[k])
    PROVE  \A i, j \in 1 .. Len(tasks') : i < j => Before(tasks'[i], tasks'[j])
<1> SUFFICES ASSUME NEW i \in 1 .. Len(tasks'), NEW j \in 1 .. Len(tasks'), i < j
             PROVE  Before(tasks'[i], tasks'[j])
  OBVIOUS
<1> DEFINE m == Len(tasks) - ran
<1>0. Indexed(ran, new)
  BY MovedIndex
<1>1. m \in Nat /\ ran \in Nat
  BY DEF Moved
<1>2. CASE j <= m
  <2>1. /\ i + ran \in 1 .. Len(tasks) /\ j + ran \in 1 .. Len(tasks) /\ i + ran < j + ran
        /\ tasks'[i] = tasks[i + ran] /\ tasks'[j] = tasks[j + ran]
    BY <1>1, <1>2, <1>0 DEF Indexed
  <2> QED
    BY <2>1
<1>3. CASE i <= m /\ j > m
  <2>1. /\ i + ran \in 1 .. Len(tasks) /\ i + ran > ran /\ j - m \in 1 .. Len(new)
        /\ tasks'[i] = tasks[i + ran] /\ tasks'[j] = new[j - m]
    BY <1>1, <1>3, <1>0 DEF Indexed
  <2> QED
    BY <2>1
<1>4. CASE i > m
  <2>1. i - m \in 1 .. Len(new) /\ tasks'[i] = new[i - m]
    BY <1>1, <1>4, <1>0 DEF Indexed
  <2>2. j > m /\ i - m < j - m
    BY <1>1, <1>4
  <2>3. j - m \in 1 .. Len(new) /\ tasks'[j] = new[j - m]
    BY <1>1, <2>2, <1>0 DEF Indexed
  <2> QED
    BY <2>1, <2>2, <2>3
<1> QED
  BY <1>1, <1>2, <1>3, <1>4

\* What TaskInv says of the tasks alone, after a step that posts new.
LEMMA TruthMoves ==
    ASSUME IInv, [Next]_vars, NEW ran, NEW new, Moved(ran, new),
           \A k \in 1 .. Len(new) : new[k].status = "accepted" => new[k].id \in stored
    PROVE  \A i \in 1 .. Len(tasks') : tasks'[i].status = "accepted" => tasks'[i].id \in stored'
<1>1. tasks \in Seq(Task) /\ TaskInv /\ stored \subseteq stored'
  BY StoredGrows DEF IInv, TypeOK, SinkTypes, Task
<1>2. Indexed(ran, new)
  BY <1>1, MovedIndex
<1> QED
  BY <1>1, <1>2 DEF Indexed, TaskInv

LEMMA TaskInvStep ==
    ASSUME IInv, [Next]_vars
    PROVE  TaskInv'
<1>0. /\ tasks \in Seq(Task) /\ TaskInv /\ PhaseInv /\ HandInv /\ wpc \in WriterPlaces
      /\ state \in States /\ stored \subseteq stored' /\ queue \in Seq(Transfer) /\ lost \in BOOLEAN
  BY StoredGrows DEF IInv, TypeOK, SinkTypes, Task, WriterTypes, ClientTypes
<1>a. /\ Finish.op = "finish" /\ Finish.status = "none"
      /\ Lost.op = "lost" /\ Lost.status = "none"
      /\ \A id, s : Done(id, s).op = "done" /\ Done(id, s).status = s /\ Done(id, s).id = id
  BY DEF Finish, Lost, Done
<1>b. \A task \in Task : task.op \in {"done", "lost", "finish"}
  BY DEF Task, Completions, Finish, Lost
<1>1. CASE \/ Start \/ Stop \/ Expire \/ Probe \/ SendFrame \/ ReadAck \/ NoAck \/ Reconnect \/ Backoff
           \/ TryConnect \/ Install \/ LoseChannel \/ Receiver \/ UNCHANGED vars
           \/ Captures \/ Take \/ (GiveUp /\ hand = NoTransfer)
  <2> DEFINE Ended == state \in {"idle", "lost", "stopping"} /\ wpc \in {"done", "off"}
  <2>1. /\ tasks' = tasks
        /\ state = "stopping" /\ wpc = "off" <=> state' = "stopping" /\ wpc' = "off"
        /\ lost' \in {lost, FALSE}
        /\ Ended /\ state # "idle" => lost' = lost /\ state' \in {"lost", "stopping"}
        /\ Ended /\ lost' => Ended' /\ queue' = queue
        /\ Ended /\ state # "idle" => Ended' /\ queue' = queue
    <3>1. CASE Start \/ Stop
      <4>1. Still
        BY <3>1, StillSteps
      <4>2. CASE Start
        BY <1>0, <4>1, <4>2 DEF Still, Start, PhaseInv
      <4>3. CASE Stop
        BY <1>0, <4>1, <4>3 DEF Still, Stop, PhaseInv, historyVars, Woken, States
      <4> QED
        BY <3>1, <4>2, <4>3
    <3>2. CASE \/ Probe \/ SendFrame \/ ReadAck \/ NoAck \/ Reconnect \/ Backoff
               \/ TryConnect \/ Install \/ LoseChannel
      <4>1. Still
        BY <3>2, StillSteps
      <4>2. /\ wpc \notin {"off", "done"} /\ wpc' # "off" /\ lost' = lost
        BY <3>2 DEF Probe, SendFrame, ReadAck, NoAck, Reconnect, Backoff,
           TryConnect, Install, LoseChannel, historyVars
      <4> QED
        BY <4>1, <4>2 DEF Still
    <3>3. CASE Expire \/ Receiver \/ UNCHANGED vars
      <4>1. UNCHANGED <<tasks, state, wpc, lost, queue>>
        BY <3>3 DEF Expire, Receiver, Exit, Restart, Receive, RejectAndClose, CloseConnection, vars,
           clientVars, writerVars, historyVars
      <4> QED
        BY <4>1
    <3>4. CASE Captures
      <4>1. /\ UNCHANGED <<tasks, state, lost>>
            /\ UNCHANGED <<wpc, queue>> \/ state \in {"connected", "reconnecting"}
        BY <3>4, CapturesKeep, CapturesSend DEF KeepsQueue, Sends, AcceptsTransfers
      <4> QED
        BY <4>1
    <3>5. CASE Take \/ (GiveUp /\ hand = NoTransfer)
      <4>1. UNCHANGED <<tasks, state, lost>> /\ wpc \in {"take", "gave_up"} /\ wpc' # "off"
        BY <3>5 DEF Take, GiveUp, historyVars, clientVars
      <4> QED
        BY <4>1
    <3> QED
      BY <1>1, <3>1, <3>2, <3>3, <3>4, <3>5
  <2>2. Has("lost")' = Has("lost") /\ Has("finish")' = Has("finish")
    BY <2>1 DEF Has
  <2>3. \A i \in 1 .. Len(tasks') : tasks'[i].status = "accepted" => tasks'[i].id \in stored'
    BY <1>0, <2>1 DEF TaskInv
  <2>4. \A i, j \in 1 .. Len(tasks') : i < j => Before(tasks'[i], tasks'[j])
    BY <1>0, <2>1 DEF TaskInv
  <2>5. Has("lost")' =>
          ~ lost' /\ queue' = <<>> /\ state' \in {"lost", "stopping"} /\ wpc' \in {"done", "off"}
    BY <1>0, <2>1, <2>2 DEF TaskInv
  <2>6. lost' => state' \in {"idle", "lost", "stopping"} /\ wpc' \in {"done", "off"} /\ queue' = <<>>
    BY <1>0, <2>1 DEF TaskInv
  <2>7. Has("finish")' <=> state' = "stopping" /\ wpc' = "off"
    BY <1>0, <2>1, <2>2 DEF TaskInv
  <2> QED
    BY <2>3, <2>4, <2>5, <2>6, <2>7 DEF TaskInv, Before
<1>2. ASSUME NEW s, Moved(0, <<Done(hand.id, s)>>), s = "accepted" => hand.id \in stored,
             Report \/ GiveUp
      PROVE  TaskInv'
  <2> DEFINE new == <<Done(hand.id, s)>>
  <2>1. /\ wpc \notin {"done", "off"} /\ wpc' \notin {"done", "off"}
        /\ UNCHANGED <<lost, state, queue>>
    BY <1>2 DEF Report, GiveUp, historyVars, clientVars
  <2>2. ~ Has("lost") /\ ~ Has("finish") /\ ~ lost
    BY <1>0, <2>1 DEF TaskInv
  <2>3. Len(new) = 1 /\ \A k \in 1 .. 1 : new[k].op = "done" /\ new[k].status = s /\ new[k].id = hand.id
    BY <1>a
  <2> HIDE DEF new
  <2>4. Moved(0, new) /\ ~ Has("lost")' /\ ~ Has("finish")'
    BY <1>0, <1>2, <2>2, <2>3, MovedHas DEF new
  <2>5. \A i \in 1 .. Len(tasks) : tasks[i].op = "done"
    BY <1>0, <1>b, <2>2 DEF Has
  <2>6. \A i, j \in 1 .. Len(tasks') : i < j => Before(tasks'[i], tasks'[j])
    BY <1>0, <2>3, <2>4, <2>5, OrderMoves DEF Before, TaskInv
  <2>7. \A i \in 1 .. Len(tasks') : tasks'[i].status = "accepted" => tasks'[i].id \in stored'
    BY <1>2, <2>3, <2>4, TruthMoves
  <2> QED
    BY <2>1, <2>2, <2>4, <2>6, <2>7 DEF TaskInv, Before
<1>3. CASE Report
  BY <1>0, <1>2, <1>3, TaskMoves DEF Report, HandInv
<1>4. CASE GiveUp /\ hand # NoTransfer
  BY <1>2, <1>4, TaskMoves
<1>5. CASE JoinWriter
  <2> DEFINE new == <<Finish>>
  <2>1. /\ state = "stopping" /\ wpc = "done" /\ wpc' = "off" /\ UNCHANGED <<lost, state, queue>>
        /\ Moved(0, new)
    BY <1>5, TaskMoves DEF JoinWriter, historyVars, clientVars
  <2>2. ~ Has("finish")
    BY <1>0, <2>1 DEF TaskInv
  <2>3. Len(new) = 1 /\ \A k \in 1 .. 1 : new[k].op = "finish" /\ new[k].status = "none"
    BY <1>a
  <2> HIDE DEF new
  <2>4. Has("finish")' /\ (Has("lost")' => Has("lost"))
    BY <1>0, <2>1, <2>3, MovedHas
  <2>5. \A i \in 1 .. Len(tasks) : tasks[i].op \in {"done", "lost"}
    BY <1>0, <1>b, <2>2 DEF Has
  <2>6. \A i, j \in 1 .. Len(tasks') : i < j => Before(tasks'[i], tasks'[j])
    <3>1. \A i, j \in 1 .. Len(new) : i < j => Before(new[i], new[j])
      BY <2>3
    <3>2. \A i \in 1 .. Len(tasks), k \in 1 .. Len(new) : Before(tasks[i], new[k])
      BY <2>3, <2>5 DEF Before
    <3> QED
      BY <1>0, <2>1, <3>1, <3>2, OrderMoves DEF TaskInv
  <2>7. \A i \in 1 .. Len(tasks') : tasks'[i].status = "accepted" => tasks'[i].id \in stored'
    BY <2>1, <2>3, TruthMoves
  <2> QED
    BY <1>0, <2>1, <2>4, <2>6, <2>7 DEF TaskInv, Before
<1>6. CASE Flush
  <2> DEFINE new == IoErrors(queue) \o <<Lost>>
             n == Len(queue)
  <2>1. /\ wpc = "flush" /\ wpc' = "done" /\ queue' = <<>> /\ UNCHANGED <<lost, state>>
        /\ Moved(0, new)
    BY <1>6, TaskMoves DEF Flush, historyVars
  <2>2. ~ Has("finish") /\ ~ Has("lost") /\ ~ lost /\ state \in {"lost", "stopping"}
    BY <1>0, <2>1 DEF TaskInv, PhaseInv, States
  <2>3. /\ n \in Nat /\ Len(new) = n + 1
        /\ \A k \in 1 .. n + 1 : /\ k <= n => new[k].op = "done" /\ new[k].status = "io_error"
                                 /\ k = n + 1 => new[k].op = "lost" /\ new[k].status = "none"
    <3>1. IoErrors(queue) \in Seq(Task) /\ <<Lost>> \in Seq(Task) /\ Len(IoErrors(queue)) = n /\ n \in Nat
      <4>1. IoErrors(queue) \in Seq(Completions)
        BY <1>0, IoErrorsAre
      <4> QED
        BY <1>0, <4>1, SeqMonotonic, IoErrorsAre DEF Task
    <3>2. Len(new) = n + 1 /\ new[n + 1] = Lost /\ \A k \in 1 .. n : new[k] = IoErrors(queue)[k]
      BY <3>1
    <3>3. \A k \in 1 .. n : IoErrors(queue)[k] = Done(queue[k].id, "io_error")
      BY <1>0, IoErrorsAre
    <3> QED
      BY <1>a, <3>1, <3>2, <3>3
  <2> HIDE DEF new, n
  <2>4. ~ Has("finish")'
    BY <1>0, <2>1, <2>2, <2>3, MovedHas
  <2>5. \A i \in 1 .. Len(tasks) : tasks[i].op = "done"
    BY <1>0, <1>b, <2>2 DEF Has
  <2>6. \A i, j \in 1 .. Len(tasks') : i < j => Before(tasks'[i], tasks'[j])
    <3>1. \A i, j \in 1 .. Len(new) : i < j => Before(new[i], new[j])
      BY <2>3 DEF Before
    <3>2. \A i \in 1 .. Len(tasks), k \in 1 .. Len(new) : Before(tasks[i], new[k])
      BY <2>5 DEF Before
    <3>3. \A i, j \in 1 .. Len(tasks) : i < j => Before(tasks[i], tasks[j])
      BY <2>5 DEF Before
    <3> QED
      BY <1>0, <2>1, <3>1, <3>2, <3>3, OrderMoves
  <2>7. \A i \in 1 .. Len(tasks') : tasks'[i].status = "accepted" => tasks'[i].id \in stored'
    <3>1. \A k \in 1 .. Len(new) : new[k].status # "accepted"
      BY <2>3
    <3> QED
      BY <2>1, <3>1, TruthMoves
  <2> QED
    BY <2>1, <2>2, <2>4, <2>6, <2>7 DEF TaskInv, Before
<1>7. CASE RunTask /\ Head(tasks).op # "finish"
  <2>1. /\ Moved(1, <<>>) /\ Head(tasks) = tasks[1] /\ 1 \in 1 .. Len(tasks)
        /\ UNCHANGED <<state, wpc, queue>>
        /\ lost' = lost \/ (Head(tasks).op = "lost" /\ lost' = TRUE)
    BY <1>7, TaskMoves, FinishIsLast DEF RunTask, Complete, AnnounceLoss, clientVars, writerVars
  <2>2. /\ Len(<<>>) = 0 /\ 1 .. 0 = {}
    OBVIOUS
  <2>3. /\ Has("lost")' => Has("lost")
        /\ Has("finish")' <=> Has("finish")
    BY <1>0, <1>7, <2>1, <2>2, MovedHas
  <2>4. Head(tasks).op = "lost" => Has("lost") /\ ~ Has("lost")'
    <3> SUFFICES ASSUME Head(tasks).op = "lost" PROVE Has("lost") /\ ~ Has("lost")'
      OBVIOUS
    <3>1. Has("lost")
      BY <2>1 DEF Has
    <3>2. \A j \in 1 .. Len(tasks) : j > 1 => tasks[j].op = "finish"
      BY <1>0, <2>1 DEF TaskInv, Before
    <3>3. Indexed(1, <<>>)
      BY <1>0, <2>1, MovedIndex
    <3> QED
      BY <2>2, <3>1, <3>2, <3>3 DEF Indexed, Has
  <2>5. \A i, j \in 1 .. Len(tasks') : i < j => Before(tasks'[i], tasks'[j])
    BY <1>0, <2>1, <2>2, OrderMoves DEF TaskInv
  <2>6. \A i \in 1 .. Len(tasks') : tasks'[i].status = "accepted" => tasks'[i].id \in stored'
    BY <2>1, <2>2, TruthMoves
  <2>7. Has("lost")' => ~ lost'
    BY <1>0, <2>1, <2>3, <2>4 DEF TaskInv
  <2>8. lost' => lost \/ Has("lost")
    BY <2>1, <2>4
  <2> QED
    BY <1>0, <2>1, <2>3, <2>5, <2>6, <2>7, <2>8 DEF TaskInv, Before
<1>8. CASE RunTask /\ Head(tasks).op = "finish"
  <2> DEFINE new == IoErrors(queue)
  <2>1. /\ Moved(1, new) /\ Head(tasks) = tasks[1] /\ 1 \in 1 .. Len(tasks)
        /\ state = "stopping" /\ wpc = "off" /\ state' = "idle" /\ queue' = <<>>
        /\ wpc' = wpc /\ lost' = lost
    BY <1>8, TaskMoves, FinishIsLast DEF RunTask, FinishStop, writerVars
  <2>2. /\ Len(new) = Len(queue)
        /\ \A k \in 1 .. Len(new) : new[k].op = "done" /\ new[k].status = "io_error"
    BY <1>0, <1>a, IoErrorsAre
  <2> HIDE DEF new
  <2>3. Len(tasks) = 1
    <3>1. \A j \in 1 .. Len(tasks) : ~ 1 < j
      BY <1>0, <1>8, <2>1 DEF TaskInv, Before
    <3>2. Len(tasks) \in Nat /\ Len(tasks) \in 1 .. Len(tasks)
      BY <1>0, <2>1
    <3> QED
      BY <3>1, <3>2
  <2>4. \A i \in 1 .. Len(tasks') : tasks'[i].op = "done" /\ tasks'[i].status = "io_error"
    <3>1. Indexed(1, new)
      BY <1>0, <2>1, MovedIndex
    <3>2. \A i \in 1 .. Len(tasks') : \E k \in 1 .. Len(new) : tasks'[i] = new[k]
      BY <2>3, <3>1 DEF Indexed
    <3> QED
      BY <2>2, <3>2
  <2>5. ~ Has("lost")' /\ ~ Has("finish")'
    BY <2>4 DEF Has
  <2>6. /\ \A i, j \in 1 .. Len(tasks') : i < j => Before(tasks'[i], tasks'[j])
        /\ \A i \in 1 .. Len(tasks') : tasks'[i].status = "accepted" => tasks'[i].id \in stored'
    BY <2>4 DEF Before
  <2> QED
    BY <1>0, <2>1, <2>5, <2>6 DEF TaskInv, Before
<1> QED
  BY <1>1, <1>3, <1>4, <1>5, <1>6, <1>7, <1>8 DEF Next, Writer

----------------------------------------------------------------------------
(* Where a transfer is, and where a step takes it *)

OnlyQueued(id) == Queued(id) /\ ~ Held(id) /\ ~ Posted(id) /\ ~ Logged(id)
OnlyHeld(id) == ~ Queued(id) /\ Held(id) /\ ~ Posted(id) /\ ~ Logged(id)
OnlyPosted(id) == ~ Queued(id) /\ ~ Held(id) /\ Posted(id) /\ ~ Logged(id)
OnlyLogged(id) == ~ Queued(id) /\ ~ Held(id) /\ ~ Posted(id) /\ Logged(id)
Nowhere(id) == ~ Queued(id) /\ ~ Held(id) /\ ~ Posted(id) /\ ~ Logged(id)

LEMMA Placed ==
    ASSUME PlaceInv, NEW id \in Ids
    PROVE  \/ id \in accepted /\ (OnlyQueued(id) \/ OnlyHeld(id) \/ OnlyPosted(id) \/ OnlyLogged(id))
           \/ id \notin accepted /\ Nowhere(id)
BY DEF PlaceInv, OnlyQueued, OnlyHeld, OnlyPosted, OnlyLogged, Nowhere

\* A step leaves a transfer where it is, or moves it on.
Stays(id) ==
    /\ Queued(id)' <=> Queued(id)
    /\ Held(id)' <=> Held(id)
    /\ Posted(id)' <=> Posted(id)
    /\ Logged(id)' <=> Logged(id)

LEMMA PostedMoves ==
    ASSUME IInv, NEW ran, NEW new, Moved(ran, new), NEW id
    PROVE  Posted(id)' <=> \/ /\ Posted(id)
                              /\ ~ (ran = 1 /\ Head(tasks).op = "done" /\ Head(tasks).id = id)
                           \/ \E k \in 1 .. Len(new) : new[k].op = "done" /\ new[k].id = id
<1>0. tasks \in Seq(Task) /\ ran \in {0, 1} /\ OnceInv
  BY DEF IInv, TypeOK, SinkTypes, Task, Moved
<1>1. Indexed(ran, new)
  BY <1>0, MovedIndex
<1>2. ASSUME Posted(id)'
      PROVE  \/ /\ Posted(id)
                /\ ~ (ran = 1 /\ Head(tasks).op = "done" /\ Head(tasks).id = id)
             \/ \E k \in 1 .. Len(new) : new[k].op = "done" /\ new[k].id = id
  <2>1. PICK i \in 1 .. Len(tasks') : tasks'[i].op = "done" /\ tasks'[i].id = id
    BY <1>2 DEF Posted
  <2>2. CASE \E k \in 1 .. Len(new) : tasks'[i] = new[k]
    BY <2>1, <2>2
  <2>3. CASE i + ran \in 1 .. Len(tasks) /\ i + ran > ran /\ tasks'[i] = tasks[i + ran]
    <3>1. Posted(id)
      BY <2>1, <2>3 DEF Posted
    <3>2. ran = 1 => Head(tasks) = tasks[1] /\ i + ran # 1 /\ 1 \in 1 .. Len(tasks)
      BY <1>0, <2>3
    <3> QED
      BY <1>0, <2>1, <2>3, <3>1, <3>2 DEF OnceInv
  <2> QED
    BY <1>1, <2>2, <2>3 DEF Indexed
<1>3. ASSUME NEW j \in 1 .. Len(tasks), tasks[j].op = "done", tasks[j].id = id,
             ~ (ran = 1 /\ Head(tasks).op = "done" /\ Head(tasks).id = id)
      PROVE  Posted(id)'
  <2>1. j > ran
    BY <1>0, <1>3
  <2> QED
    BY <1>1, <1>3, <2>1 DEF Indexed, Posted
<1>4. ASSUME NEW k \in 1 .. Len(new), new[k].op = "done", new[k].id = id
      PROVE  Posted(id)'
  BY <1>1, <1>4 DEF Indexed, Posted
<1> QED
  BY <1>2, <1>3, <1>4 DEF Posted

LEMMA IoErrorsPost ==
    ASSUME queue \in Seq(Transfer), NEW id
    PROVE  /\ (\E k \in 1 .. Len(IoErrors(queue)) :
                  IoErrors(queue)[k].op = "done" /\ IoErrors(queue)[k].id = id) <=> Queued(id)
           /\ (\E k \in 1 .. Len(IoErrors(queue) \o <<Lost>>) :
                  /\ (IoErrors(queue) \o <<Lost>>)[k].op = "done"
                  /\ (IoErrors(queue) \o <<Lost>>)[k].id = id) <=> Queued(id)
<1> DEFINE e == IoErrors(queue)
           n == Len(queue)
<1>1. /\ n \in Nat /\ Len(e) = n
      /\ \A k \in 1 .. n : e[k] = Done(queue[k].id, "io_error")
  BY IoErrorsAre
<1>2. /\ Len(e \o <<Lost>>) = n + 1 /\ (e \o <<Lost>>)[n + 1] = Lost
      /\ \A k \in 1 .. n : (e \o <<Lost>>)[k] = e[k]
  <2>1. e \in Seq(Task) /\ <<Lost>> \in Seq(Task)
    <3>1. e \in Seq(Completions)
      BY IoErrorsAre
    <3> QED
      BY <3>1, SeqMonotonic DEF Task
  <2> QED
    BY <1>1, <2>1
<1>3. \A k \in 1 .. n : e[k].op = "done" /\ e[k].id = queue[k].id
  <2> SUFFICES ASSUME NEW k \in 1 .. n PROVE e[k].op = "done" /\ e[k].id = queue[k].id
    OBVIOUS
  <2> HIDE DEF e, n
  <2>1. e[k] = Done(queue[k].id, "io_error")
    BY <1>1
  <2>2. \A x, y : Done(x, y).op = "done" /\ Done(x, y).id = x
    BY DEF Done
  <2> QED
    BY <2>1, <2>2
<1>4. Lost.op # "done"
  BY DEF Lost
<1> HIDE DEF e
<1>5. (\E k \in 1 .. Len(e) : e[k].op = "done" /\ e[k].id = id) <=> Queued(id)
  BY <1>1, <1>3 DEF Queued
<1>6. (\E k \in 1 .. n + 1 : (e \o <<Lost>>)[k].op = "done" /\ (e \o <<Lost>>)[k].id = id) => Queued(id)
  BY <1>1, <1>2, <1>3, <1>4 DEF Queued
<1>7. Queued(id) => \E k \in 1 .. n + 1 : (e \o <<Lost>>)[k].op = "done" /\ (e \o <<Lost>>)[k].id = id
  BY <1>1, <1>2, <1>3 DEF Queued
<1> QED
  BY <1>2, <1>5, <1>6, <1>7 DEF e

\* The path of a transfer: accepted, queued, perhaps taken, posted, and reported.
LEMMA Path ==
    ASSUME IInv, [Next]_vars, NEW id \in Ids
    PROVE  \/ Stays(id) /\ (id \in accepted' <=> id \in accepted)
           \/ Captures /\ Sends(id) /\ Nowhere(id) /\ OnlyQueued(id)' /\ id \in accepted'
           \/ accepted' = accepted /\ OnlyQueued(id) /\ OnlyHeld(id)'
           \/ accepted' = accepted /\ (OnlyQueued(id) \/ OnlyHeld(id)) /\ OnlyPosted(id)'
           \/ accepted' = accepted /\ OnlyPosted(id) /\ OnlyLogged(id)'
<1>0. /\ tasks \in Seq(Task) /\ queue \in Seq(Transfer) /\ hand \in Transfer \cup {NoTransfer}
      /\ log \in Seq([id : Ids, status : Statuses]) /\ offered \in 0 .. MaxTransfers
      /\ HandInv /\ PlaceInv /\ OnceInv /\ NoTransfer.id = 0 /\ id # 0
      /\ accepted \subseteq Ids
  BY BoundsAssumption DEF IInv, TypeOK, SinkTypes, Task, ClientTypes, WriterTypes, NoTransfer, Ids
<1> USE DEF OnlyQueued, OnlyHeld, OnlyPosted, OnlyLogged, Nowhere
<1>1. CASE Still
  BY <1>1 DEF Still, Stays, Queued, Held, Posted, Logged
<1>2. CASE Captures
  <2>1. UNCHANGED <<hand, tasks, log>>
    BY <1>2, CapturesKeep
  <2>2. /\ Held(id)' <=> Held(id)
        /\ Posted(id)' <=> Posted(id)
        /\ Logged(id)' <=> Logged(id)
    BY <2>1 DEF Held, Posted, Logged
  <2>3. CASE KeepsQueue
    BY <2>2, <2>3 DEF KeepsQueue, Stays, Queued
  <2>4. ASSUME NEW x \in Ids \ accepted, Sends(x)
        PROVE  \/ Stays(id) /\ (id \in accepted' <=> id \in accepted)
               \/ Sends(id) /\ Nowhere(id) /\ OnlyQueued(id)' /\ id \in accepted'
    <3>0. PICK size : queue' = Append(queue, [id |-> x, size |-> size])
      BY <2>4 DEF Sends
    <3> DEFINE t == [id |-> x, size |-> size]
               n == Len(queue)
    <3>1. /\ n \in Nat /\ Len(queue') = n + 1 /\ queue'[n + 1] = t /\ t.id = x
          /\ \A i \in 1 .. n : queue'[i] = queue[i]
      BY <1>0, <3>0
    <3> HIDE DEF t
    <3>2. Queued(id)' <=> Queued(id) \/ id = x
      BY <3>1 DEF Queued
    <3>3. accepted' = accepted \cup {x}
      BY <2>4 DEF Sends
    <3>4. CASE id = x
      <4>1. Nowhere(id)
        BY <1>0, <3>4, Placed
      <4> QED
        BY <2>2, <2>4, <3>2, <3>3, <3>4, <4>1
    <3>5. CASE id # x
      BY <2>2, <3>2, <3>3, <3>5 DEF Stays
    <3> QED
      BY <3>4, <3>5
  <2> QED
    BY <1>2, <2>3, <2>4, CapturesSend
<1>3. CASE Take
  <2>0. UNCHANGED <<tasks, log, accepted>>
    BY <1>3 DEF Take, historyVars
  <2>1. /\ Posted(id)' <=> Posted(id)
        /\ Logged(id)' <=> Logged(id)
    BY <2>0 DEF Posted, Logged
  <2>2. CASE UNCHANGED <<queue, hand>>
    BY <2>0, <2>1, <2>2 DEF Stays, Queued, Held
  <2>3. CASE queue # <<>> /\ hand' = Head(queue) /\ queue' = Tail(queue)
    <3>1. /\ Head(queue) = queue[1] /\ 1 \in 1 .. Len(queue) /\ Len(queue') = Len(queue) - 1
          /\ Len(queue) \in Nat
          /\ \A i \in 1 .. Len(queue) - 1 : queue'[i] = queue[i + 1]
      BY <1>0, <2>3
    <3>2. hand = NoTransfer
      BY <1>0, <1>3 DEF Take, HandInv
    <3>3. ~ Held(id) /\ (Held(id)' <=> id = queue[1].id)
      BY <1>0, <2>3, <3>1, <3>2 DEF Held
    <3>4. id = queue[1].id => Queued(id) /\ ~ Queued(id)'
      <4> SUFFICES ASSUME id = queue[1].id, NEW i \in 1 .. Len(queue'), queue'[i].id = id PROVE FALSE
        BY <3>1 DEF Queued
      <4>1. i + 1 \in 1 .. Len(queue) /\ queue[i + 1].id = queue[1].id /\ i + 1 # 1
        BY <3>1
      <4> QED
        BY <1>0, <3>1, <4>1 DEF OnceInv
    <3>5. id # queue[1].id => (Queued(id)' <=> Queued(id))
      <4> SUFFICES ASSUME id # queue[1].id PROVE Queued(id)' <=> Queued(id)
        OBVIOUS
      <4>1. ASSUME NEW i \in 1 .. Len(queue), queue[i].id = id
            PROVE  i - 1 \in 1 .. Len(queue') /\ queue'[i - 1] = queue[i]
        <5>1. i # 1
          BY <4>1
        <5>2. i - 1 \in 1 .. Len(queue) - 1 /\ (i - 1) + 1 = i
          BY <3>1, <5>1
        <5> QED
          BY <3>1, <5>2
      <4>2. ASSUME NEW i \in 1 .. Len(queue'), queue'[i].id = id
            PROVE  i + 1 \in 1 .. Len(queue) /\ queue[i + 1].id = id
        BY <3>1, <4>2
      <4> QED
        BY <4>1, <4>2 DEF Queued
    <3>6. CASE id = queue[1].id
      <4>1. OnlyQueued(id)
        BY <1>0, <3>4, <3>6 DEF PlaceInv
      <4> QED
        BY <2>0, <2>1, <3>3, <3>4, <3>6, <4>1
    <3>7. CASE id # queue[1].id
      BY <2>0, <2>1, <3>3, <3>5, <3>7 DEF Stays
    <3> QED
      BY <3>6, <3>7
  <2> QED
    BY <1>3, <2>2, <2>3 DEF Take
<1>4. ASSUME NEW s, Report \/ (GiveUp /\ hand # NoTransfer), Moved(0, <<Done(hand.id, s)>>)
      PROVE  \/ Stays(id) /\ accepted' = accepted
             \/ accepted' = accepted /\ OnlyHeld(id) /\ OnlyPosted(id)'
  <2> DEFINE new == <<Done(hand.id, s)>>
  <2>1. UNCHANGED <<queue, log, accepted>> /\ hand' = NoTransfer
    BY <1>4 DEF Report, GiveUp, clientVars, historyVars
  <2>2. /\ Queued(id)' <=> Queued(id)
        /\ Logged(id)' <=> Logged(id)
        /\ ~ Held(id)'
    BY <1>0, <2>1 DEF Queued, Logged, Held
  <2>3. Len(new) = 1 /\ \A k \in 1 .. 1 : new[k].op = "done" /\ new[k].id = hand.id
    BY DEF Done
  <2> HIDE DEF new
  <2>4. Posted(id)' <=> Posted(id) \/ id = hand.id
    <3>1. Moved(0, new)
      BY <1>4 DEF new
    <3> QED
      BY <2>3, <3>1, PostedMoves
  <2>5. CASE id = hand.id
    <3>1. OnlyHeld(id)
      BY <1>0, <2>5 DEF PlaceInv, Held
    <3> QED
      BY <2>1, <2>2, <2>4, <2>5, <3>1
  <2>6. CASE id # hand.id
    BY <2>1, <2>2, <2>4, <2>6 DEF Stays, Held
  <2> QED
    BY <2>5, <2>6
<1>5. ASSUME NEW ran, NEW new, Moved(ran, new), Flush \/ RunTask,
             ran = 1 => Head(tasks).op # "done",
             (\E k \in 1 .. Len(new) : new[k].op = "done" /\ new[k].id = id) <=> Queued(id),
             queue' = <<>>, UNCHANGED <<hand, log, accepted>>
      PROVE  \/ Stays(id) /\ accepted' = accepted
             \/ accepted' = accepted /\ OnlyQueued(id) /\ OnlyPosted(id)'
  <2>1. Posted(id)' <=> Posted(id) \/ Queued(id)
    BY <1>5, PostedMoves
  <2>2. /\ Logged(id)' <=> Logged(id)
        /\ Held(id)' <=> Held(id)
        /\ ~ Queued(id)'
    BY <1>5 DEF Queued, Logged, Held
  <2>3. Queued(id) => OnlyQueued(id)
    BY <1>0 DEF PlaceInv
  <2> QED
    BY <1>5, <2>1, <2>2, <2>3 DEF Stays
<1>6. CASE Report
  BY <1>4, <1>6, TaskMoves
<1>7. CASE GiveUp
  <2>1. CASE hand = NoTransfer
    <3>1. UNCHANGED <<queue, log, accepted, tasks, hand>>
      BY <1>7, <2>1 DEF GiveUp, clientVars, historyVars
    <3> QED
      BY <3>1 DEF Stays, Queued, Held, Posted, Logged
  <2>2. CASE hand # NoTransfer
    BY <1>4, <1>7, <2>2, TaskMoves
  <2> QED
    BY <2>1, <2>2
<1>8. CASE Flush
  <2>1. queue' = <<>> /\ UNCHANGED <<hand, log, accepted>> /\ Moved(0, IoErrors(queue) \o <<Lost>>)
    BY <1>8, TaskMoves DEF Flush, historyVars
  <2> DEFINE new == IoErrors(queue) \o <<Lost>>
  <2>2. (\E k \in 1 .. Len(new) : new[k].op = "done" /\ new[k].id = id) <=> Queued(id)
    BY <1>0, IoErrorsPost
  <2>3. Moved(0, new)
    BY <2>1
  <2> HIDE DEF new
  <2> QED
    BY <1>5, <1>8, <2>1, <2>2, <2>3
<1>9. CASE JoinWriter
  <2>1. UNCHANGED <<queue, hand, log, accepted>> /\ Moved(0, <<Finish>>)
    BY <1>9, TaskMoves DEF JoinWriter, clientVars, historyVars
  <2>2. Len(<<Finish>>) = 1 /\ \A k \in 1 .. 1 : <<Finish>>[k].op # "done"
    BY DEF Finish
  <2>3. Posted(id)' <=> Posted(id)
    BY <2>1, <2>2, PostedMoves
  <2> QED
    BY <2>1, <2>3 DEF Stays, Queued, Held, Logged
<1>10. CASE RunTask
  <2>0. accepted' = accepted /\ hand' = hand
    BY <1>10 DEF RunTask, writerVars
  <2>1. CASE Head(tasks).op = "finish"
    <3>1. queue' = <<>> /\ log' = log /\ Moved(1, IoErrors(queue))
      BY <1>10, <2>1, TaskMoves DEF RunTask, FinishStop
    <3> QED
      BY <1>0, <1>5, <1>10, <2>0, <2>1, <3>1, IoErrorsPost
  <2>2. CASE Head(tasks).op = "lost"
    <3>1. UNCHANGED <<queue, log>> /\ Moved(1, <<>>)
      BY <1>10, <2>2, TaskMoves DEF RunTask, AnnounceLoss, clientVars
    <3>2. Len(<<>>) = 0 /\ 1 .. 0 = {}
      OBVIOUS
    <3>3. Posted(id)' <=> Posted(id)
      BY <2>2, <3>1, <3>2, PostedMoves
    <3> QED
      BY <2>0, <3>1, <3>3 DEF Stays, Queued, Held, Logged
  <2>3. CASE Head(tasks).op = "done"
    <3> DEFINE h == Head(tasks).id
    <3>1. /\ queue' = queue /\ log' = Append(log, [id |-> h, status |-> Head(tasks).status])
          /\ Moved(1, <<>>) /\ tasks # <<>>
      BY <1>10, <2>3, TaskMoves DEF RunTask, Complete, clientVars
    <3>2. Len(<<>>) = 0 /\ 1 .. 0 = {}
      OBVIOUS
    <3>3. Posted(id)' <=> Posted(id) /\ h # id
      BY <2>3, <3>1, <3>2, PostedMoves
    <3>4. Posted(h)
      BY <1>10, <2>3, FinishIsLast DEF Posted
    <3>5. Logged(id)' <=> Logged(id) \/ id = h
      <4>1. /\ Len(log) \in Nat /\ Len(log') = Len(log) + 1
            /\ log'[Len(log) + 1].id = h /\ \A i \in 1 .. Len(log) : log'[i] = log[i]
        BY <1>0, <3>1
      <4> HIDE DEF h
      <4> QED
        BY <4>1 DEF Logged
    <3>6. /\ Queued(id)' <=> Queued(id)
          /\ Held(id)' <=> Held(id)
      BY <2>0, <3>1 DEF Queued, Held
    <3>7. CASE id = h
      <4>1. OnlyPosted(id)
        BY <1>0, <3>4, <3>7 DEF PlaceInv
      <4> QED
        BY <2>0, <3>3, <3>5, <3>6, <3>7, <4>1
    <3>8. CASE id # h
      BY <2>0, <3>3, <3>5, <3>6, <3>8 DEF Stays
    <3> QED
      BY <3>7, <3>8
  <2>4. Head(tasks).op \in {"done", "lost", "finish"}
    BY <1>10, FinishIsLast DEF Task, Completions, Lost, Finish
  <2> QED
    BY <2>1, <2>2, <2>3, <2>4
<1> QED
  BY <1>1, <1>2, <1>3, <1>6, <1>7, <1>8, <1>9, <1>10, Steps, StillSteps

LEMMA PlaceInvStep ==
    ASSUME IInv, [Next]_vars
    PROVE  PlaceInv'
<1>0. /\ PlaceInv /\ accepted \in SUBSET Ids /\ accepted' \in SUBSET Ids
      /\ offered \in 0 .. MaxTransfers /\ MaxTransfers \in Nat
  BY SinkTypesStep, BoundsAssumption DEF IInv, TypeOK, SinkTypes
<1>1. ASSUME NEW id \in Ids
      PROVE  \/ id \in accepted' /\ (OnlyQueued(id)' \/ OnlyHeld(id)' \/ OnlyPosted(id)' \/ OnlyLogged(id)')
             \/ id \notin accepted' /\ Nowhere(id)'
  <2>1. \/ id \in accepted /\ (OnlyQueued(id) \/ OnlyHeld(id) \/ OnlyPosted(id) \/ OnlyLogged(id))
        \/ id \notin accepted /\ Nowhere(id)
    BY <1>0, Placed
  <2>2. CASE Stays(id) /\ (id \in accepted' <=> id \in accepted)
    BY <2>1, <2>2 DEF Stays, OnlyQueued, OnlyHeld, OnlyPosted, OnlyLogged, Nowhere
  <2>3. CASE id \in accepted' /\ OnlyQueued(id)'
    BY <2>3
  <2>4. CASE accepted' = accepted /\ ~ Nowhere(id) /\ (OnlyHeld(id)' \/ OnlyPosted(id)' \/ OnlyLogged(id)')
    BY <2>1, <2>4
  <2>5. OnlyQueued(id) \/ OnlyHeld(id) \/ OnlyPosted(id) => ~ Nowhere(id)
    BY DEF OnlyQueued, OnlyHeld, OnlyPosted, Nowhere
  <2> QED
    BY <2>2, <2>3, <2>4, <2>5, Path
<1>3. \A id \in Ids : (id \in accepted <=> Queued(id) \/ Held(id) \/ Posted(id) \/ Logged(id))'
  BY <1>1 DEF OnlyQueued, OnlyHeld, OnlyPosted, OnlyLogged, Nowhere
<1>4. \A id \in Ids : /\ Queued(id)' => ~ Held(id)' /\ ~ Posted(id)' /\ ~ Logged(id)'
                      /\ Held(id)' => ~ Posted(id)' /\ ~ Logged(id)'
                      /\ Posted(id)' => ~ Logged(id)'
  BY <1>1 DEF OnlyQueued, OnlyHeld, OnlyPosted, OnlyLogged, Nowhere
<1> QED
  BY <1>3, <1>4 DEF PlaceInv

----------------------------------------------------------------------------
(* What is pending, and what is recorded *)

\* A completion that runs is of an accepted transfer that has not completed before.
LEMMA CompletesOne ==
    ASSUME IInv, RunTask, Head(tasks).op = "done",
           NEW h, h = Head(tasks).id, NEW s, s = Head(tasks).status
    PROVE  /\ h \in Ids /\ s \in Statuses /\ h \in accepted /\ ~ Logged(h)
           /\ Len(log) \in Nat /\ Len(log') = Len(log) + 1
           /\ log'[Len(log) + 1] = [id |-> h, status |-> s]
           /\ \A i \in 1 .. Len(log) : log'[i] = log[i]
           /\ \A x : Logged(x)' <=> Logged(x) \/ x = h
           /\ Complete(Head(tasks))
           /\ UNCHANGED <<state, offered, owner, accepted, capturing, expired, generation, bodies>>
<1>1. Head(tasks) \in Completions /\ Posted(h)
  BY FinishIsLast DEF Posted, Task, Lost, Finish
<1>2. h \in Ids /\ s \in Statuses
  BY <1>1 DEF Completions
<1>3. h \in accepted /\ ~ Logged(h)
  BY <1>1, <1>2 DEF IInv, PlaceInv
<1>4. /\ Complete(Head(tasks))
      /\ UNCHANGED <<state, offered, owner, accepted, capturing, expired, generation, bodies>>
  BY DEF RunTask, Complete, AnnounceLoss, FinishStop, clientVars
<1> DEFINE r == [id |-> h, status |-> s]
<1>5. log' = Append(log, r) /\ r.id = h
  BY <1>4 DEF Complete
<1>6. log \in Seq([id : Ids, status : Statuses])
  BY DEF IInv, TypeOK, SinkTypes
<1>7. /\ Len(log) \in Nat /\ Len(log') = Len(log) + 1 /\ log'[Len(log) + 1] = r
      /\ \A i \in 1 .. Len(log) : log'[i] = log[i]
  BY <1>5, <1>6
<1>8. \A x : Logged(x)' <=> Logged(x) \/ x = h
  <2> HIDE DEF r
  <2>1. 1 .. Len(log') = 1 .. Len(log) \cup {Len(log) + 1}
    BY <1>7
  <2> QED
    BY <1>5, <1>7, <2>1 DEF Logged
<1> QED
  BY <1>2, <1>3, <1>4, <1>7, <1>8

\* A result that is recorded is the last one, and of the session that is on.
LEMMA Emits ==
    ASSUME IInv, NEW id, NEW s, EmitResult(id, s)
    PROVE  /\ ~ (capturing /\ ~ expired) => results' = results
           /\ capturing /\ ~ expired =>
                 /\ Len(results) \in Nat /\ Len(results') = Len(results) + 1
                 /\ results'[Len(results) + 1] = [id |-> id, status |-> s, generation |-> generation]
                 /\ \A i \in 1 .. Len(results) : results'[i] = results[i]
           /\ \A x : Recorded(x)' <=> Recorded(x) \/ (capturing /\ ~ expired /\ x = id)
<1>0. results \in Seq([id : Ids, status : Statuses \cup {"failed"}, generation : Nat])
  BY DEF IInv, TypeOK, SinkTypes
<1>1. CASE ~ (capturing /\ ~ expired)
  BY <1>1 DEF EmitResult, Recorded
<1>2. CASE capturing /\ ~ expired
  <2> DEFINE r == [id |-> id, status |-> s, generation |-> generation]
  <2>1. results' = Append(results, r) /\ r.id = id
    BY <1>2 DEF EmitResult
  <2>2. /\ Len(results) \in Nat /\ Len(results') = Len(results) + 1
        /\ results'[Len(results) + 1] = r
        /\ \A i \in 1 .. Len(results) : results'[i] = results[i]
    BY <1>0, <2>1
  <2>3. \A x : Recorded(x)' <=> Recorded(x) \/ x = id
    <3> HIDE DEF r
    <3>1. 1 .. Len(results') = 1 .. Len(results) \cup {Len(results) + 1}
      BY <2>2
    <3> QED
      BY <2>1, <2>2, <3>1 DEF Recorded
  <2> QED
    BY <1>2, <2>2, <2>3
<1> QED
  BY <1>1, <1>2

\* A transfer that is recorded has completed.
LEMMA RecordedIsLogged ==
    ASSUME IInv, NEW id \in accepted, Recorded(id)
    PROVE  Logged(id)
<1>1. PICK i \in 1 .. Len(results) : results[i].id = id
  BY DEF Recorded
<1>2. \E j \in 1 .. Len(log) : log[j] = [id |-> id, status |-> results[i].status]
  BY <1>1 DEF IInv, ResultsOwn
<1> QED
  BY <1>2 DEF Logged

LEMMA SinkInvStep ==
    ASSUME IInv, [Next]_vars
    PROVE  SinkInv'
<1>0. /\ SinkInv /\ offered \in 0 .. MaxTransfers /\ owner \in [Ids -> Nat] /\ generation \in Nat
      /\ Ids = 1 .. MaxTransfers /\ MaxTransfers \in Nat /\ accepted \subseteq Ids
      /\ bodies \subseteq [id : Ids, generation : Nat]
      /\ results \in Seq([id : Ids, status : Statuses \cup {"failed"}, generation : Nat])
  BY BoundsAssumption DEF IInv, TypeOK, SinkTypes, Ids
<1>1. CASE Start \/ Stop
  <2>1. /\ UNCHANGED <<offered, owner, accepted, results, bodies>> /\ generation' = generation + 1
    BY <1>1 DEF Start, Stop, SetEmitter, historyVars
  <2> QED
    BY <1>0, <2>1 DEF SinkInv, Recorded
<1>2. CASE Expire \/ SinkStill
  <2>1. UNCHANGED <<offered, owner, accepted, results, bodies, generation, capturing>>
    BY <1>2 DEF Expire, SinkStill, sinkVars, historyVars
  <2> QED
    BY <1>0, <2>1 DEF SinkInv, Recorded
<1>3. CASE RunTask /\ Head(tasks).op = "done"
  <2> DEFINE h == Head(tasks).id
             s == Head(tasks).status
  <2>1. /\ h \in accepted /\ UNCHANGED <<offered, owner, accepted, bodies, generation, capturing>>
        /\ results' = results \/ EmitResult(h, s)
    BY <1>3, CompletesOne DEF Complete
  <2> HIDE DEF h, s
  <2>2. \A x : Recorded(x)' => Recorded(x) \/ x = h
    BY <2>1, Emits DEF Recorded
  <2>3. \A i \in 1 .. Len(results') : results'[i].id <= offered
    <3>1. \A x : Recorded(x) => x <= offered
      BY <1>0 DEF SinkInv, Recorded
    <3>2. h <= offered
      BY <1>0, <2>1 DEF SinkInv
    <3>3. \A x : Recorded(x)' => x <= offered
      BY <2>2, <3>1, <3>2
    <3> QED
      BY <3>3 DEF Recorded
  <2> QED
    BY <1>0, <2>1, <2>2, <2>3 DEF SinkInv
<1>4. CASE Captures
  <2>0. PICK x \in Ids \ accepted :
           /\ ~ Recorded(x)
           /\ \/ Opens(x)
              \/ Offers(x) /\ bodies' = bodies /\ (Sends(x) \/ Fails(x))
              \/ Ends(x) /\ (Sends(x) \/ Fails(x))
              \/ Drops(x)
    BY <1>4, CapturesAre
  <2>1. UNCHANGED <<generation, capturing>>
    BY <1>4, CapturesKeep
  <2>2. Offers(x) \/ Ends(x)
    BY <2>0 DEF Opens, Drops
  <2>3. /\ x <= offered' /\ offered <= offered' /\ offered' \in Nat
        /\ \A id \in Ids : id <= offered => id # x \/ Ends(x)
    BY <1>0, <2>2 DEF Offers, Ends, SinkInv
  <2>4. \A id \in Ids : owner'[id] = owner[id] \/ (Offers(x) /\ id = x /\ owner'[id] = generation)
    BY <1>0, <2>2 DEF Offers, Ends
  <2>5. accepted' = accepted \/ accepted' = accepted \cup {x}
    BY <2>0 DEF Opens, Sends, Fails, Drops, KeepsQueue
  <2>6. \A id : Recorded(id)' => Recorded(id) \/ id = x
    <3>1. results' = results \/ EmitResult(x, "failed")
      BY <2>0 DEF Opens, Sends, Fails, Drops
    <3> QED
      BY <3>1, Emits DEF Recorded
  <2>7. \A body \in bodies' : \/ body \in bodies /\ body.id # x
                              \/ /\ Opens(x) /\ body = [id |-> x, generation |-> generation]
    <3>1. CASE Opens(x) \/ (Offers(x) /\ bodies' = bodies)
      <4>1. Offers(x) /\ x = offered + 1
        BY <3>1 DEF Opens, Offers
      <4>2. \A body \in bodies : body.id # x
        BY <1>0, <4>1 DEF SinkInv
      <4> QED
        BY <3>1, <4>2 DEF Opens
    <3>2. CASE Ends(x)
      <4>1. PICK b \in bodies : b.id = x /\ bodies' = bodies \ {b}
        BY <3>2 DEF Ends
      <4>2. ASSUME NEW body \in bodies, body.id = x PROVE body = b
        <5>1. body.generation = b.generation
          BY <1>0, <4>1, <4>2 DEF SinkInv
        <5> QED
          BY <1>0, <4>1, <4>2, <5>1
      <4> QED
        BY <4>1, <4>2
    <3> QED
      BY <2>0, <3>1, <3>2 DEF Drops
  <2>8. \A id \in accepted' : id <= offered'
    <3>1. \A id \in Ids : id <= offered => id <= offered'
      BY <1>0, <2>3
    <3>2. \A id \in accepted : id \in Ids /\ id <= offered
      BY <1>0 DEF SinkInv
    <3> QED
      BY <2>3, <2>5, <3>1, <3>2
  <2>9. \A id \in Ids : owner'[id] <= generation
    BY <1>0, <2>4 DEF SinkInv
  <2>10. \A id \in Ids : id > offered' => owner'[id] = 0
    BY <1>0, <2>2, <2>3, <2>4 DEF SinkInv
  <2>11. \A id \in Ids : ~ capturing /\ id <= offered' => owner'[id] < generation
    <3> SUFFICES ASSUME NEW id \in Ids, ~ capturing, id <= offered' PROVE owner'[id] < generation
      OBVIOUS
    <3>1. Ends(x)
      BY <2>2 DEF Offers
    <3> QED
      BY <1>0, <3>1 DEF Ends, SinkInv
  <2>12. ASSUME NEW body \in bodies'
         PROVE  /\ body.id <= offered' /\ body.id \notin accepted' /\ ~ Recorded(body.id)'
                /\ body.generation = owner'[body.id]
    <3>1. CASE body \in bodies /\ body.id # x
      <4>1. body.id \in Ids
        BY <1>0, <3>1
      <4> QED
        BY <1>0, <2>3, <2>4, <2>5, <2>6, <3>1, <4>1 DEF SinkInv
    <3>2. CASE Opens(x) /\ body = [id |-> x, generation |-> generation]
      <4>1. accepted' = accepted /\ results' = results /\ Offers(x)
        BY <3>2 DEF Opens, KeepsQueue
      <4>2. body.id = x /\ body.generation = generation
        BY <3>2
      <4>3. ~ Recorded(x)'
        BY <2>0, <4>1 DEF Recorded
      <4>4. owner'[x] = generation
        BY <1>0, <4>1 DEF Offers
      <4> QED
        BY <2>0, <2>3, <4>1, <4>2, <4>3, <4>4
    <3> QED
      BY <2>7, <3>1, <3>2
  <2>13. \A i \in 1 .. Len(results') : results'[i].id <= offered'
    <3>1. ASSUME NEW k \in 1 .. Len(results) PROVE results[k].id \in Ids /\ results[k].id <= offered
      <4>1. results[k] \in [id : Ids, status : Statuses \cup {"failed"}, generation : Nat]
        BY <1>0, ElementOfSeq
      <4> QED
        BY <1>0, <4>1 DEF SinkInv
    <3>2. \A id : Recorded(id) => id \in Ids /\ id <= offered
      BY <3>1 DEF Recorded
    <3>3. \A id \in Ids : id <= offered => id <= offered'
      BY <1>0, <2>3
    <3>4. \A id : Recorded(id)' => id <= offered'
      BY <2>3, <2>6, <3>2, <3>3
    <3> QED
      BY <3>4 DEF Recorded
  <2> QED
    BY <1>0, <2>1, <2>8, <2>9, <2>10, <2>11, <2>12, <2>13 DEF SinkInv
<1> QED
  BY <1>1, <1>2, <1>3, <1>4, SinkSteps

LEMMA PendingIs ==
    PendingMatches <=>
       \A p : p \in pending <=>
          \E id \in accepted : /\ owner[id] = generation /\ ~ Logged(id)
                              /\ p = [id |-> id, generation |-> generation]
<1>1. \A id : InLog(id) = {} <=> ~ Logged(id)
  BY DEF InLog, Logged
<1> QED
  BY <1>1 DEF PendingMatches

\* An identifier keeps its generation once it is given out.
LEMMA OwnersStay ==
    ASSUME IInv, [Next]_vars, NEW id \in Ids, id <= offered
    PROVE  owner'[id] = owner[id]
<1>1. CASE Captures
  <2>1. PICK x \in Ids : Offers(x) \/ Ends(x)
    BY <1>1, CapturesAre DEF Opens, Drops
  <2>2. offered \in Nat /\ owner \in [Ids -> Nat] /\ id \in Nat
    BY DEF IInv, TypeOK, SinkTypes, Ids
  <2> QED
    BY <2>1, <2>2 DEF Offers, Ends
<1>2. CASE ~ Captures
  BY <1>2, SinkSteps DEF Start, Stop, Expire, RunTask, SinkStill, historyVars
<1> QED
  BY <1>1, <1>2

LEMMA PendingMatchesStep ==
    ASSUME IInv, [Next]_vars
    PROVE  PendingMatches'
<1> DEFINE Note(id) == [id |-> id, generation |-> generation]
<1>0. /\ SinkInv /\ PlaceInv /\ accepted \subseteq Ids /\ owner \in [Ids -> Nat] /\ generation \in Nat
      /\ \A id \in accepted : owner'[id] = owner[id]
      /\ \A p : p \in pending <=>
            \E id \in accepted : owner[id] = generation /\ ~ Logged(id) /\ p = Note(id)
  <2>1. SinkInv /\ PlaceInv /\ PendingMatches /\ SinkTypes
    BY DEF IInv, TypeOK
  <2>2. \A id \in accepted : owner'[id] = owner[id]
    BY <2>1, OwnersStay DEF SinkTypes, SinkInv
  <2> QED
    BY <2>1, <2>2, PendingIs DEF SinkTypes
<1>1. \A p : p \in pending' <=>
          \E id \in accepted' : /\ owner'[id] = generation' /\ ~ Logged(id)'
                               /\ p = [id |-> id, generation |-> generation']
  <2>1. CASE Start \/ Stop
    <3>1. /\ pending' = {} /\ accepted' = accepted /\ generation' = generation + 1
      BY <2>1 DEF Start, Stop, SetEmitter, historyVars
    <3>2. \A id \in accepted : owner'[id] # generation'
      BY <1>0, <3>1 DEF SinkInv
    <3> QED
      BY <3>1, <3>2
  <2>2. CASE Expire \/ SinkStill
    <3>1. UNCHANGED <<pending, accepted, generation, log>>
      BY <2>2 DEF Expire, SinkStill, sinkVars, historyVars
    <3> QED
      BY <1>0, <3>1 DEF Logged
  <2>3. CASE RunTask /\ Head(tasks).op = "done"
    <3> DEFINE h == Head(tasks).id
    <3>1. /\ \A x : Logged(x)' <=> Logged(x) \/ x = h
          /\ UNCHANGED <<accepted, generation>>
          /\ pending' = {p \in pending : p.id # h}
      BY <2>3, CompletesOne DEF Complete
    <3> HIDE DEF h
    <3>2. \A id : Note(id).id = id
      OBVIOUS
    <3> QED
      BY <1>0, <3>1, <3>2
  <2>4. CASE Captures
    <3>1. UNCHANGED <<generation, log>> /\ \A id : Logged(id)' <=> Logged(id)
      BY <2>4, CapturesKeep DEF Logged
    <3>2. CASE KeepsQueue
      BY <1>0, <3>1, <3>2 DEF KeepsQueue
    <3>3. ASSUME NEW x \in Ids \ accepted, Sends(x)
          PROVE  \A p : p \in pending' <=>
                    \E id \in accepted' : owner'[id] = generation /\ ~ Logged(id)' /\ p = Note(id)
      <4>1. /\ owner'[x] = generation /\ accepted' = accepted \cup {x}
            /\ pending' = pending \cup {Note(x)}
        BY <3>3 DEF Sends
      <4>2. ~ Logged(x)
        BY <1>0, <3>3 DEF PlaceInv
      <4> HIDE DEF Note
      <4> QED
        BY <1>0, <3>1, <4>1, <4>2
    <3> QED
      BY <2>4, <3>1, <3>2, <3>3, CapturesSend
  <2> QED
    BY <2>1, <2>2, <2>3, <2>4, SinkSteps
<1>2. (PendingMatches <=>
         \A p : p \in pending <=>
            \E id \in accepted : /\ owner[id] = generation /\ ~ Logged(id)
                                /\ p = [id |-> id, generation |-> generation])'
  BY PendingIs, PTL
<1> QED
  BY <1>1, <1>2

LEMMA ResultsOwnStep ==
    ASSUME IInv, [Next]_vars
    PROVE  ResultsOwn'
<1> DEFINE Result == [id : Ids, status : Statuses \cup {"failed"}, generation : Nat]
           Entry(r) == [id |-> r.id, status |-> r.status]
<1>0. /\ results \in Seq(Result) /\ log \in Seq([id : Ids, status : Statuses])
      /\ ResultsOwn /\ SinkInv /\ PlaceInv /\ accepted \subseteq Ids
  BY DEF IInv, TypeOK, SinkTypes
<1>1. ASSUME NEW i \in 1 .. Len(results)
      PROVE  /\ results[i].id \in Ids /\ results[i].id <= offered /\ Recorded(results[i].id)
             /\ results[i].generation = owner'[results[i].id]
             /\ IF results[i].status = "failed" THEN results[i].id \notin accepted
                ELSE \E j \in 1 .. Len(log) : log[j] = Entry(results[i])
  <2>1. results[i] \in Result
    BY <1>0, ElementOfSeq
  <2>2. results[i].id \in Ids /\ results[i].id <= offered
    BY <1>0, <2>1 DEF SinkInv
  <2>3. owner'[results[i].id] = owner[results[i].id]
    BY <2>2, OwnersStay
  <2> QED
    BY <1>0, <2>2, <2>3 DEF ResultsOwn, Recorded
\* The results that were there remain true.
<1>2. ASSUME NEW i \in 1 .. Len(results)
      PROVE  IF results[i].status = "failed" THEN results[i].id \notin accepted'
             ELSE \E j \in 1 .. Len(log') : log'[j] = Entry(results[i])
  <2>1. CASE Start \/ Stop \/ Expire \/ SinkStill
    <3>1. UNCHANGED <<accepted, log>>
      BY <2>1 DEF Start, Stop, Expire, SinkStill, historyVars
    <3> QED
      BY <1>1, <3>1
  <2>2. CASE RunTask /\ Head(tasks).op = "done"
    <3>1. /\ Len(log) \in Nat /\ Len(log') = Len(log) + 1 /\ accepted' = accepted
          /\ \A j \in 1 .. Len(log) : log'[j] = log[j]
      BY <2>2, CompletesOne
    <3> HIDE DEF Entry
    <3>2. 1 .. Len(log) \subseteq 1 .. Len(log')
      BY <3>1
    <3> QED
      BY <1>1, <3>1, <3>2
  <2>3. CASE Captures
    <3>1. log' = log
      BY <2>3, CapturesKeep
    <3>2. results[i].id \notin accepted => results[i].id \notin accepted'
      <4>1. PICK x \in Ids \ accepted :
               ~ Recorded(x) /\ accepted' \in {accepted, accepted \cup {x}}
        BY <2>3, CapturesAre DEF Opens, Sends, Fails, Drops, KeepsQueue
      <4> QED
        BY <1>1, <4>1
    <3> QED
      BY <1>1, <3>1, <3>2
  <2> QED
    BY <2>1, <2>2, <2>3, SinkSteps
<1>3. CASE results' = results
  <2>1. \A i, j \in 1 .. Len(results') : results'[i].id = results'[j].id => i = j
    BY <1>0, <1>3 DEF ResultsOwn
  <2> QED
    BY <1>1, <1>2, <1>3, <2>1 DEF ResultsOwn
\* A result that is added is its session's only one of the capture, and true.
<1>4. ASSUME NEW id \in Ids, NEW s, EmitResult(id, s), results' # results,
             ~ Recorded(id), owner'[id] = generation,
             IF s = "failed" THEN id \notin accepted'
             ELSE \E j \in 1 .. Len(log') : log'[j] = [id |-> id, status |-> s]
      PROVE  ResultsOwn'
  <2> DEFINE n == Len(results)
  <2>1. /\ n \in Nat /\ Len(results') = n + 1
        /\ results'[n + 1] = [id |-> id, status |-> s, generation |-> generation]
        /\ \A i \in 1 .. n : results'[i] = results[i]
    BY <1>4, Emits
  <2>2. /\ results'[n + 1].id = id /\ results'[n + 1].status = s
        /\ results'[n + 1].generation = generation
    BY <2>1
  <2>3. \A i \in 1 .. n : results[i].id # id
    BY <1>4 DEF Recorded
  <2>4. \A i \in 1 .. n + 1 : i \in 1 .. n \/ i = n + 1
    BY <2>1
  <2> HIDE DEF n
  <2>5. \A i, j \in 1 .. n + 1 : results'[i].id = results'[j].id => i = j
    <3>1. \A i, j \in 1 .. n : results[i].id = results[j].id => i = j
      BY <1>0 DEF ResultsOwn, n
    <3> QED
      BY <2>1, <2>2, <2>3, <2>4, <3>1
  <2>6. ASSUME NEW i \in 1 .. n + 1
        PROVE  /\ results'[i].generation = owner'[results'[i].id]
               /\ IF results'[i].status = "failed" THEN results'[i].id \notin accepted'
                  ELSE \E j \in 1 .. Len(log') : log'[j] = Entry(results'[i])
    <3>1. CASE i = n + 1
      BY <1>4, <2>2, <3>1
    <3>2. CASE i \in 1 .. n
      <4>1. results'[i] = results[i] /\ i \in 1 .. Len(results)
        BY <2>1, <3>2 DEF n
      <4> QED
        BY <1>1, <1>2, <4>1
    <3> QED
      BY <2>4, <3>1, <3>2
  <2> QED
    BY <2>1, <2>5, <2>6 DEF ResultsOwn
<1>5. CASE Captures
  <2>1. PICK x \in Ids \ accepted : ~ Recorded(x) /\ (results' = results \/ Fails(x))
    BY <1>5, CapturesAre DEF Opens, Sends, Drops
  <2>2. CASE Fails(x)
    <3>1. EmitResult(x, "failed") /\ owner'[x] = generation /\ accepted' = accepted
      BY <2>2 DEF Fails, KeepsQueue
    <3> QED
      BY <1>3, <1>4, <2>1, <3>1
  <2> QED
    BY <1>3, <2>1, <2>2
<1>6. CASE RunTask /\ Head(tasks).op = "done"
  <2> DEFINE h == Head(tasks).id
             s == Head(tasks).status
  <2>1. /\ h \in Ids /\ h \in accepted /\ s \in Statuses /\ ~ Logged(h)
        /\ Len(log) \in Nat /\ Len(log') = Len(log) + 1
        /\ log'[Len(log) + 1] = [id |-> h, status |-> s]
        /\ Complete(Head(tasks)) /\ owner' = owner
    BY <1>6, CompletesOne
  <2>2. ~ Recorded(h)
    BY <2>1, RecordedIsLogged
  <2>3. \/ results' = results
        \/ EmitResult(h, s) /\ \E p \in pending : p.id = h /\ p.generation = generation
    BY <2>1 DEF Complete
  <2> HIDE DEF h, s
  <2>4. CASE EmitResult(h, s) /\ \E p \in pending : p.id = h /\ p.generation = generation
    <3>1. owner[h] = generation
      BY <2>4, PendingIs DEF IInv
    <3>2. Len(log) + 1 \in 1 .. Len(log') /\ s # "failed"
      BY <2>1 DEF Statuses
    <3>3. \E j \in 1 .. Len(log') : log'[j] = [id |-> h, status |-> s]
      BY <2>1, <3>2
    <3> QED
      BY <1>3, <1>4, <2>1, <2>2, <2>4, <3>1, <3>2, <3>3
  <2> QED
    BY <1>3, <2>3, <2>4
<1>7. CASE Start \/ Stop \/ Expire \/ SinkStill
  BY <1>3, <1>7 DEF Start, Stop, Expire, SinkStill, historyVars
<1> QED
  BY <1>5, <1>6, <1>7, SinkSteps

\* Once lost, the channel stays lost until it is stopped.
LEMMA LostStays ==
    ASSUME IInv, [Next]_vars, state = "lost"
    PROVE  state' \in {"lost", "stopping"}
<1>1. RunTask => Head(tasks).op # "finish"
  BY FinishIsLast
<1> QED
  BY <1>1, CapturesKeep DEF IInv, PhaseInv, Next, Start, Expire, Stop, JoinWriter, RunTask, Complete,
     AnnounceLoss, FinishStop, Writer, Take, Probe, SendFrame, ReadAck, NoAck, Report, Reconnect,
     Backoff, TryConnect, Install, GiveUp, LoseChannel, Flush, Receiver, Exit, Restart, Receive,
     RejectAndClose, CloseConnection, clientVars, vars

LEMMA NoResultLostStep ==
    ASSUME IInv, [Next]_vars
    PROVE  NoResultLost'
<1> DEFINE Note(id) == [id |-> id, generation |-> generation]
           Given(id) == id \in Modules /\ ~ AcceptsTransfers /\ Logged(id)
<1>0. /\ SinkInv /\ PlaceInv /\ PhaseInv /\ generation \in Nat /\ owner \in [Ids -> Nat]
      /\ \A id : InLog(id) = {} <=> ~ Logged(id)
      /\ \A id : InLog(id)' = {} <=> ~ Logged(id)'
      /\ capturing /\ ~ expired =>
            \A id \in Ids : owner[id] = generation =>
               Note(id) \in bodies \/ Note(id) \in pending \/ Recorded(id) \/ Given(id)
  <2>1. \A id : InLog(id) = {} <=> ~ Logged(id)
    BY DEF InLog, Logged
  <2>2. \A id : InLog(id)' = {} <=> ~ Logged(id)'
    BY DEF InLog, Logged
  <2> QED
    BY <2>1, <2>2 DEF IInv, TypeOK, SinkTypes, NoResultLost
\* A refused channel is a lost one, and stays so.
<1>1. capturing /\ capturing' /\ ~ AcceptsTransfers => ~ AcceptsTransfers'
  <2>1. PhaseInv'
    BY PhaseInvStep
  <2> QED
    BY <1>0, <2>1, LostStays DEF PhaseInv, AcceptsTransfers
<1>2. SUFFICES ASSUME capturing', ~ expired', NEW id \in Ids, owner'[id] = generation'
               PROVE  \/ [id |-> id, generation |-> generation'] \in bodies'
                      \/ [id |-> id, generation |-> generation'] \in pending'
                      \/ Recorded(id)'
                      \/ id \in Modules /\ ~ AcceptsTransfers' /\ Logged(id)'
  BY <1>0 DEF NoResultLost
<1>3. CASE Start \/ Stop \/ Expire
  <2>1. Start /\ owner' = owner /\ generation' = generation + 1
    BY <1>2, <1>3 DEF Start, Stop, Expire, SetEmitter
  <2> QED
    BY <1>0, <1>2, <2>1 DEF SinkInv
<1>4. CASE SinkStill
  <2>1. /\ UNCHANGED <<capturing, expired, owner, generation, bodies, pending>>
        /\ Recorded(id)' <=> Recorded(id)
        /\ Logged(id)' <=> Logged(id)
    BY <1>4 DEF SinkStill, sinkVars, Recorded, Logged
  <2> QED
    BY <1>0, <1>1, <1>2, <2>1
<1>5. CASE RunTask /\ Head(tasks).op = "done"
  <2> DEFINE h == Head(tasks).id
             s == Head(tasks).status
  <2>1. /\ h \in accepted /\ Complete(Head(tasks))
        /\ \A x : Logged(x)' <=> Logged(x) \/ x = h
        /\ UNCHANGED <<capturing, expired, owner, generation, bodies, state>>
    BY <1>5, CompletesOne
  <2>2. /\ results' = results \/ EmitResult(h, s)
        /\ pending' = {p \in pending : p.id # h}
        /\ Note(h) \in pending /\ (h \in Modules => IsEnabled) => EmitResult(h, s)
    BY <2>1 DEF Complete
  <2> HIDE DEF h, s
  <2>3. Recorded(id) => Recorded(id)'
    BY <2>2, Emits DEF Recorded
  <2>4. Given(id) => id \in Modules /\ ~ AcceptsTransfers' /\ Logged(id)'
    BY <2>1 DEF AcceptsTransfers
  <2>5. CASE id # h
    BY <1>0, <1>2, <2>1, <2>2, <2>3, <2>4, <2>5
  <2>6. CASE id = h /\ Note(id) \in pending
    <3>1. CASE h \in Modules /\ ~ IsEnabled
      BY <1>2, <2>1, <2>6, <3>1 DEF IsEnabled, AcceptsTransfers
    <3>2. CASE h \in Modules => IsEnabled
      <4>1. EmitResult(h, s)
        BY <2>2, <2>6, <3>2
      <4>2. Recorded(id)'
        BY <1>2, <2>1, <2>6, <4>1, Emits
      <4> QED
        BY <4>2
    <3> QED
      BY <3>1, <3>2
  <2>7. CASE id = h /\ Note(id) \notin pending
    <3>1. Note(id) \notin bodies
      BY <1>0, <2>1, <2>7 DEF SinkInv
    <3> QED
      BY <1>0, <1>2, <2>1, <2>3, <2>4, <2>7, <3>1
  <2> QED
    BY <2>5, <2>6, <2>7
<1>6. CASE Captures
  <2>0. PICK x \in Ids \ accepted :
           /\ ~ Recorded(x)
           /\ \/ Opens(x)
              \/ Offers(x) /\ bodies' = bodies /\ (Sends(x) \/ Fails(x))
              \/ Ends(x) /\ (Sends(x) \/ Fails(x))
              \/ Drops(x)
    BY <1>6, CapturesAre
  <2>1. /\ UNCHANGED <<capturing, expired, generation, state, log>>
        /\ Logged(id)' <=> Logged(id)
        /\ AcceptsTransfers' <=> AcceptsTransfers
    BY <1>6, CapturesKeep DEF Logged, AcceptsTransfers
  <2>2. results' = results \/ EmitResult(x, "failed")
    BY <2>0 DEF Opens, Sends, Fails, Drops
  <2>3. Recorded(id) => Recorded(id)'
    BY <2>2, Emits DEF Recorded
  <2>4. pending \subseteq pending'
    BY <2>0 DEF Opens, Sends, Fails, Drops, KeepsQueue
  <2>5. CASE id = x
    <3>1. CASE Opens(x)
      BY <2>1, <2>5, <3>1 DEF Opens
    <3>2. CASE Sends(x)
      BY <2>1, <2>5, <3>2 DEF Sends
    <3>3. CASE Fails(x)
      <4>1. EmitResult(x, "failed")
        BY <3>3 DEF Fails
      <4> QED
        BY <1>2, <2>1, <2>5, <4>1, Emits
    <3>4. CASE Drops(x)
      BY <1>2, <2>1, <2>5, <3>4 DEF Drops, Ends
    <3> QED
      BY <2>0, <3>1, <3>2, <3>3, <3>4
  <2>6. CASE id # x
    <3>1. owner'[id] = owner[id]
      <4>1. Offers(x) \/ Ends(x)
        BY <2>0 DEF Opens, Drops
      <4> QED
        BY <1>0, <2>6, <4>1 DEF Offers, Ends
    <3>2. Note(id) \in bodies => Note(id) \in bodies'
      <4>1. \A y \in bodies : y.id # x => y \in bodies'
        BY <2>0 DEF Opens, Ends, Drops
      <4> QED
        BY <2>6, <4>1
    <3> QED
      BY <1>0, <1>2, <2>1, <2>3, <2>4, <3>1, <3>2
  <2> QED
    BY <2>5, <2>6
<1> QED
  BY <1>3, <1>4, <1>5, <1>6, SinkSteps

----------------------------------------------------------------------------
(* What is in a sequence once, and what is announced *)

LEMMA OnceInvStep ==
    ASSUME IInv, [Next]_vars
    PROVE  OnceInv'
<1>0. /\ tasks \in Seq(Task) /\ queue \in Seq(Transfer) /\ hand \in Transfer \cup {NoTransfer}
      /\ log \in Seq([id : Ids, status : Statuses]) /\ offered \in 0 .. MaxTransfers
      /\ HandInv /\ PlaceInv /\ OnceInv /\ accepted \subseteq Ids
  BY DEF IInv, TypeOK, SinkTypes, Task, ClientTypes, WriterTypes
<1>1. \A i, j \in 1 .. Len(queue') : queue'[i].id = queue'[j].id => i = j
  <2>1. CASE queue' = queue
    BY <1>0, <2>1 DEF OnceInv
  <2>2. CASE queue' = <<>>
    BY <2>2
  <2>3. CASE queue # <<>> /\ queue' = Tail(queue)
    <3>1. /\ Len(queue') = Len(queue) - 1 /\ Len(queue) \in Nat
          /\ \A i \in 1 .. Len(queue) - 1 : queue'[i] = queue[i + 1]
      BY <1>0, <2>3
    <3> SUFFICES ASSUME NEW i \in 1 .. Len(queue'), NEW j \in 1 .. Len(queue'),
                        queue'[i].id = queue'[j].id
                 PROVE  i = j
      OBVIOUS
    <3>2. /\ i + 1 \in 1 .. Len(queue) /\ j + 1 \in 1 .. Len(queue)
          /\ queue[i + 1].id = queue[j + 1].id
      BY <3>1
    <3>3. i + 1 = j + 1
      BY <1>0, <3>2 DEF OnceInv
    <3> QED
      BY <3>3
  <2>4. ASSUME NEW x \in Ids \ accepted, Sends(x)
        PROVE  \A i, j \in 1 .. Len(queue') : queue'[i].id = queue'[j].id => i = j
    <3>0. PICK size : queue' = Append(queue, [id |-> x, size |-> size])
      BY <2>4 DEF Sends
    <3>1. /\ Len(queue) \in Nat /\ Len(queue') = Len(queue) + 1
          /\ queue'[Len(queue) + 1].id = x
          /\ \A i \in 1 .. Len(queue) : queue'[i] = queue[i]
      BY <1>0, <3>0
    <3>2. \A i \in 1 .. Len(queue) : queue[i].id # x
      BY <1>0, <2>4 DEF PlaceInv, Queued
    <3> SUFFICES ASSUME NEW i \in 1 .. Len(queue'), NEW j \in 1 .. Len(queue'),
                        queue'[i].id = queue'[j].id
                 PROVE  i = j
      OBVIOUS
    <3>3. CASE i \in 1 .. Len(queue) /\ j \in 1 .. Len(queue)
      BY <1>0, <3>1, <3>3 DEF OnceInv
    <3>4. CASE i = Len(queue) + 1
      BY <3>1, <3>2, <3>4
    <3>5. CASE j = Len(queue) + 1
      BY <3>1, <3>2, <3>5
    <3> QED
      BY <3>1, <3>3, <3>4, <3>5
  <2>5. CASE Still
    BY <2>1, <2>5 DEF Still
  <2>6. CASE Captures
    BY <2>1, <2>4, <2>6, CapturesSend DEF KeepsQueue
  <2>7. CASE RunTask \/ Take
    BY <2>1, <2>2, <2>3, <2>7 DEF RunTask, Complete, AnnounceLoss, FinishStop, Take, clientVars
  <2>8. CASE JoinWriter \/ Report \/ GiveUp \/ Flush
    BY <2>1, <2>2, <2>8 DEF JoinWriter, Report, GiveUp, Flush, clientVars
  <2> QED
    BY <2>5, <2>6, <2>7, <2>8, Steps, StillSteps
<1>2. \A i, j \in 1 .. Len(tasks') :
         tasks'[i].op = "done" /\ tasks'[j].op = "done" /\ tasks'[i].id = tasks'[j].id => i = j
  <2>1. CASE tasks' = tasks
    BY <1>0, <2>1 DEF OnceInv
  <2>2. ASSUME NEW ran, NEW new, Moved(ran, new),
               \A k, l \in 1 .. Len(new) :
                  new[k].op = "done" /\ new[l].op = "done" /\ new[k].id = new[l].id => k = l,
               \A k \in 1 .. Len(new) : new[k].op = "done" => ~ Posted(new[k].id)
        PROVE  \A i, j \in 1 .. Len(tasks') :
                  tasks'[i].op = "done" /\ tasks'[j].op = "done" /\ tasks'[i].id = tasks'[j].id => i = j
    <3> SUFFICES ASSUME NEW i \in 1 .. Len(tasks'), NEW j \in 1 .. Len(tasks'),
                        tasks'[i].op = "done", tasks'[j].op = "done", tasks'[i].id = tasks'[j].id
                 PROVE  i = j
      OBVIOUS
    <3> DEFINE m == Len(tasks) - ran
    <3>0. m \in Nat /\ ran \in Nat /\ Indexed(ran, new)
      <4>1. Indexed(ran, new)
        BY <1>0, <2>2, MovedIndex
      <4>2. ran \in {0, 1} /\ ran <= Len(tasks) /\ Len(tasks) \in Nat
        BY <1>0, <2>2 DEF Moved
      <4> QED
        BY <4>1, <4>2
    <3>1. CASE i <= m /\ j <= m
      <4>1. /\ i + ran \in 1 .. Len(tasks) /\ j + ran \in 1 .. Len(tasks)
            /\ tasks'[i] = tasks[i + ran] /\ tasks'[j] = tasks[j + ran]
        BY <3>0, <3>1 DEF Indexed
      <4>2. i + ran = j + ran
        BY <1>0, <4>1 DEF OnceInv
      <4> QED
        BY <3>0, <4>2
    <3>2. ASSUME NEW k \in 1 .. Len(tasks'), NEW l \in 1 .. Len(tasks'), k <= m, ~ l <= m,
                 tasks'[k].op = "done", tasks'[l].op = "done", tasks'[k].id = tasks'[l].id
          PROVE  FALSE
      <4>1. k + ran \in 1 .. Len(tasks) /\ tasks'[k] = tasks[k + ran]
        BY <3>0, <3>2 DEF Indexed
      <4>2. l - m \in 1 .. Len(new) /\ tasks'[l] = new[l - m]
        BY <3>0, <3>2 DEF Indexed
      <4>3. Posted(tasks'[k].id)
        BY <3>2, <4>1 DEF Posted
      <4> QED
        BY <2>2, <3>2, <4>2, <4>3
    <3>3. CASE ~ i <= m /\ ~ j <= m
      <4>1. i - m \in 1 .. Len(new) /\ tasks'[i] = new[i - m]
        BY <3>0, <3>3 DEF Indexed
      <4>2. j - m \in 1 .. Len(new) /\ tasks'[j] = new[j - m]
        BY <3>0, <3>3 DEF Indexed
      <4>3. i - m = j - m
        BY <2>2, <4>1, <4>2
      <4> QED
        BY <3>0, <4>3
    <3> QED
      BY <3>1, <3>2, <3>3
  <2>3. ASSUME NEW s, Report \/ (GiveUp /\ hand # NoTransfer), Moved(0, <<Done(hand.id, s)>>)
        PROVE  \A i, j \in 1 .. Len(tasks') :
                  tasks'[i].op = "done" /\ tasks'[j].op = "done" /\ tasks'[i].id = tasks'[j].id => i = j
    <3> DEFINE new == <<Done(hand.id, s)>>
    <3>1. Len(new) = 1 /\ \A k \in 1 .. 1 : new[k].id = hand.id
      BY DEF Done
    <3>2. hand.id \in Ids
      <4>1. hand \in Transfer
        BY <1>0, <2>3 DEF Report, HandInv
      <4> QED
        BY <4>1 DEF Transfer
    <3>3. ~ Posted(hand.id)
      BY <1>0, <3>2 DEF PlaceInv, Held
    <3>4. Moved(0, new)
      BY <2>3
    <3> HIDE DEF new
    <3> QED
      BY <2>2, <3>1, <3>3, <3>4
  <2>4. CASE Report
    BY <2>3, <2>4, TaskMoves
  <2>5. CASE GiveUp
    BY <2>1, <2>3, <2>5, TaskMoves
  <2>6. CASE JoinWriter
    <3> DEFINE new == <<Finish>>
    <3>1. Len(new) = 1 /\ \A k \in 1 .. 1 : new[k].op # "done"
      BY DEF Finish
    <3>2. Moved(0, new)
      BY <2>6, TaskMoves
    <3> HIDE DEF new
    <3> QED
      BY <2>2, <3>1, <3>2
  <2>7. ASSUME NEW e, e = IoErrors(queue)
        PROVE  /\ Len(e) = Len(queue) /\ e \in Seq(Task) /\ Len(queue) \in Nat
               /\ \A k \in 1 .. Len(queue) : e[k].id = queue[k].id
               /\ \A k \in 1 .. Len(queue) : ~ Posted(queue[k].id)
               /\ \A k, l \in 1 .. Len(queue) : queue[k].id = queue[l].id => k = l
    <3>1. Len(e) = Len(queue) /\ e \in Seq(Completions) /\ Len(queue) \in Nat
      BY <1>0, <2>7, IoErrorsAre
    <3>2. e \in Seq(Task)
      BY <3>1, SeqMonotonic DEF Task
    <3>3. ASSUME NEW k \in 1 .. Len(queue) PROVE e[k].id = queue[k].id
      <4>1. e[k] = Done(queue[k].id, "io_error")
        BY <1>0, <2>7, IoErrorsAre
      <4> QED
        BY <4>1 DEF Done
    <3>4. ASSUME NEW k \in 1 .. Len(queue) PROVE ~ Posted(queue[k].id)
      <4>0. queue[k] \in Transfer
        BY <1>0
      <4>1. queue[k].id \in Ids /\ Queued(queue[k].id)
        BY <4>0 DEF Transfer, Queued
      <4> QED
        BY <1>0, <4>1 DEF PlaceInv
    <3> QED
      BY <1>0, <3>1, <3>2, <3>3, <3>4 DEF OnceInv
  <2>8. CASE Flush
    <3> DEFINE e == IoErrors(queue)
               new == e \o <<Lost>>
    <3>1. Moved(0, new)
      BY <2>8, TaskMoves
    <3>2. /\ Len(e) = Len(queue) /\ e \in Seq(Task) /\ Len(queue) \in Nat
          /\ \A k \in 1 .. Len(queue) : e[k].id = queue[k].id
          /\ \A k \in 1 .. Len(queue) : ~ Posted(queue[k].id)
          /\ \A k, l \in 1 .. Len(queue) : queue[k].id = queue[l].id => k = l
      BY <2>7
    <3> HIDE DEF e
    <3>3. <<Lost>> \in Seq(Task) /\ Lost.op # "done"
      BY DEF Task, Lost
    <3>4. /\ Len(new) = Len(queue) + 1 /\ new[Len(queue) + 1] = Lost
          /\ \A k \in 1 .. Len(queue) : new[k] = e[k]
      BY <3>2, <3>3
    <3> HIDE DEF new
    <3>5. \A k \in 1 .. Len(new) : new[k].op = "done" => k \in 1 .. Len(queue) /\ new[k].id = queue[k].id
      BY <3>2, <3>3, <3>4
    <3> QED
      BY <2>2, <3>1, <3>2, <3>5
  <2>9. CASE RunTask
    <3>1. CASE Head(tasks).op = "finish"
      <4> DEFINE e == IoErrors(queue)
      <4>1. Moved(1, e)
        BY <2>9, <3>1, TaskMoves
      <4>2. /\ Len(e) = Len(queue)
            /\ \A k \in 1 .. Len(queue) : e[k].id = queue[k].id
            /\ \A k \in 1 .. Len(queue) : ~ Posted(queue[k].id)
            /\ \A k, l \in 1 .. Len(queue) : queue[k].id = queue[l].id => k = l
        BY <2>7
      <4> HIDE DEF e
      <4> QED
        BY <2>2, <4>1, <4>2
    <3>2. CASE Head(tasks).op # "finish"
      <4>1. Moved(1, <<>>) /\ Len(<<>>) = 0 /\ 1 .. 0 = {}
        BY <2>9, <3>2, TaskMoves
      <4> QED
        BY <2>2, <4>1
    <3> QED
      BY <3>1, <3>2
  <2> QED
    BY <2>1, <2>4, <2>5, <2>6, <2>8, <2>9, Steps, StillSteps, TaskMoves
<1>3. \A i, j \in 1 .. Len(log') : log'[i].id = log'[j].id => i = j
  <2>1. CASE log' = log
    BY <1>0, <2>1 DEF OnceInv
  <2>2. CASE log' # log
    <3> DEFINE h == Head(tasks).id
    <3>1. /\ RunTask /\ Head(tasks).op = "done"
          /\ log' = Append(log, [id |-> h, status |-> Head(tasks).status])
      <4>1. ~ Still /\ ~ (Captures \/ JoinWriter \/ Take \/ Report \/ GiveUp \/ Flush)
        BY <2>2, CapturesKeep DEF Still, JoinWriter, Take, Report, GiveUp, Flush, historyVars
      <4>2. RunTask
        BY <4>1, Steps, StillSteps
      <4> QED
        BY <2>2, <4>2 DEF RunTask, Complete, AnnounceLoss, FinishStop
    <3>2. Posted(h) /\ h \in Ids
      BY <3>1, FinishIsLast DEF Posted, Task, Completions, Lost, Finish
    <3>3. ~ Logged(h)
      BY <1>0, <3>2 DEF PlaceInv
    <3>4. /\ Len(log) \in Nat /\ Len(log') = Len(log) + 1
          /\ log'[Len(log) + 1].id = h /\ \A i \in 1 .. Len(log) : log'[i] = log[i]
      BY <1>0, <3>1
    <3> HIDE DEF h
    <3>5. \A i \in 1 .. Len(log) : log[i].id # h
      BY <3>3 DEF Logged
    <3> QED
      BY <1>0, <3>4, <3>5 DEF OnceInv
  <2> QED
    BY <2>1, <2>2
<1> QED
  BY <1>1, <1>2, <1>3 DEF OnceInv

LEMMA AcceptedIsStoredStep ==
    ASSUME IInv, [Next]_vars
    PROVE  AcceptedIsStored'
<1>0. /\ log \in Seq([id : Ids, status : Statuses]) /\ stored \subseteq stored'
      /\ AcceptedIsStored /\ TaskInv
  BY StoredGrows DEF IInv, TypeOK, SinkTypes
<1>1. CASE log' = log
  BY <1>0, <1>1 DEF AcceptedIsStored
<1>2. CASE RunTask /\ Head(tasks).op = "done"
  <2>1. log' = Append(log, [id |-> Head(tasks).id, status |-> Head(tasks).status])
    BY <1>2 DEF RunTask, Complete
  <2>2. /\ Len(log) \in Nat /\ Len(log') = Len(log) + 1
        /\ log'[Len(log) + 1].id = Head(tasks).id /\ log'[Len(log) + 1].status = Head(tasks).status
        /\ \A i \in 1 .. Len(log) : log'[i] = log[i]
    BY <1>0, <2>1
  <2>3. Head(tasks).status = "accepted" => Head(tasks).id \in stored
    BY <1>0, <1>2, FinishIsLast DEF TaskInv
  <2> QED
    BY <1>0, <2>2, <2>3 DEF AcceptedIsStored
<1>3. CASE log' # log
  <2>1. ~ Still /\ ~ (Captures \/ JoinWriter \/ Take \/ Report \/ GiveUp \/ Flush)
    BY <1>3, CapturesKeep DEF Still, JoinWriter, Take, Report, GiveUp, Flush, historyVars
  <2>2. RunTask
    BY <2>1, Steps, StillSteps
  <2>3. Head(tasks).op = "done"
    BY <1>3, <2>2 DEF RunTask, AnnounceLoss, FinishStop
  <2> QED
    BY <1>2, <2>2, <2>3
<1> QED
  BY <1>1, <1>3

LEMMA RefusalIs ==
    ASSUME TypeOK, PhaseInv
    PROVE  RefusalAnnounced <=> (state = "lost" => lost \/ wpc = "flush" \/ Has("lost"))
<1>1. capturing /\ ~ AcceptsTransfers <=> state = "lost"
  BY DEF PhaseInv, AcceptsTransfers
<1>2. \A i \in 1 .. Len(tasks) : tasks[i] = Lost <=> tasks[i].op = "lost"
  <2> SUFFICES ASSUME NEW i \in 1 .. Len(tasks) PROVE tasks[i] = Lost <=> tasks[i].op = "lost"
    OBVIOUS
  <2>1. tasks[i] \in Completions \cup {Lost, Finish}
    BY DEF TypeOK, SinkTypes
  <2> QED
    BY <2>1 DEF Completions, Lost, Finish
<1> QED
  BY <1>1, <1>2 DEF RefusalAnnounced, Has

LEMMA RefusalAnnouncedStep ==
    ASSUME IInv, [Next]_vars
    PROVE  RefusalAnnounced'
<1>0. /\ tasks \in Seq(Task) /\ PhaseInv /\ HandInv
      /\ state = "lost" => lost \/ wpc = "flush" \/ Has("lost")
  BY RefusalIs DEF IInv, TypeOK, SinkTypes, Task
<1>1. ASSUME state' = "lost" PROVE lost' \/ wpc' = "flush" \/ Has("lost")'
  <2>1. CASE LoseChannel
    BY <1>0, <1>1, <2>1 DEF LoseChannel, PhaseInv
  <2>2. CASE Flush
    <3> DEFINE new == IoErrors(queue) \o <<Lost>>
               n == Len(queue)
    <3>1. Moved(0, new)
      BY <2>2, TaskMoves
    <3>2. IoErrors(queue) \in Seq(Task) /\ Len(IoErrors(queue)) = n /\ n \in Nat /\ <<Lost>> \in Seq(Task)
      <4>1. queue \in Seq(Transfer)
        BY DEF IInv, TypeOK, ClientTypes
      <4> QED
        BY <4>1, SeqMonotonic, IoErrorsAre DEF Task
    <3>3. Len(new) = n + 1 /\ new[n + 1] = Lost
      BY <3>2
    <3>4. Lost.op = "lost"
      BY DEF Lost
    <3> HIDE DEF new, n
    <3>5. \E k \in 1 .. Len(new) : new[k].op = "lost"
      BY <3>2, <3>3, <3>4
    <3> QED
      BY <1>0, <3>1, <3>5, MovedHas
  <2>3. CASE RunTask
    <3>1. Head(tasks).op # "finish" /\ state' = state /\ wpc' = wpc
      BY <1>1, <2>3 DEF RunTask, FinishStop, Complete, AnnounceLoss, clientVars, writerVars
    <3>2. CASE Head(tasks).op = "lost"
      BY <2>3, <3>2 DEF RunTask, AnnounceLoss
    <3>3. CASE Head(tasks).op # "lost"
      <4>1. lost' = lost /\ Moved(1, <<>>)
        BY <2>3, <3>1, <3>3, TaskMoves DEF RunTask, Complete
      <4>2. Has("lost") => Has("lost")'
        BY <1>0, <3>3, <4>1, MovedHas
      <4> QED
        BY <1>0, <1>1, <3>1, <4>1, <4>2
    <3> QED
      BY <3>2, <3>3
  <2>4. CASE ~ (LoseChannel \/ Flush \/ RunTask)
    <3>1. state = "lost" /\ lost' = lost /\ (wpc = "flush" => wpc' = "flush")
      BY <1>1, <2>4, CapturesKeep DEF Next, Start, Expire, Stop, JoinWriter, Woken,
         Writer, Take, Probe, SendFrame, ReadAck, NoAck, Report, Reconnect,
         Backoff, TryConnect, Install, GiveUp, Receiver, Exit, Restart, Receive,
         RejectAndClose, CloseConnection, clientVars, writerVars, historyVars, vars
    <3>2. Has("lost") => Has("lost")'
      <4>1. CASE tasks' = tasks
        BY <4>1 DEF Has
      <4>2. CASE \E new : Moved(0, new)
        BY <1>0, <4>2, MovedHas
      <4> QED
        BY <2>4, <4>1, <4>2, Steps, StillSteps, TaskMoves
    <3> QED
      BY <1>0, <3>1, <3>2
  <2> QED
    BY <2>1, <2>2, <2>3, <2>4
<1>2. TypeOK' /\ PhaseInv'
  BY ClientTypesStep, WriterTypesStep, SinkTypesStep, ReceiverTypesStep, PhaseInvStep DEF TypeOK
<1>3. (TypeOK /\ PhaseInv => (RefusalAnnounced <=> (state = "lost" => lost \/ wpc = "flush" \/ Has("lost"))))'
  BY RefusalIs, PTL
<1> QED
  BY <1>1, <1>2, <1>3

LEMMA IInvStep == IInv /\ [Next]_vars => IInv'
BY ClientTypesStep, WriterTypesStep, SinkTypesStep, ReceiverTypesStep, PhaseInvStep, HandInvStep,
   DescriptorInvStep, AckInvStep, TaskInvStep, PlaceInvStep, OnceInvStep, SinkInvStep,
   PendingMatchesStep, ResultsOwnStep, NoResultLostStep,
   AcceptedIsStoredStep, RefusalAnnouncedStep
   DEF IInv, TypeOK

----------------------------------------------------------------------------
(* What the invariant says of the channel's properties *)

\* A set of indices that hold the same transfer has one member, or none.
LEMMA CountOnce ==
    ASSUME NEW S, \A i, j \in S : i = j
    PROVE  Cardinality(S) = IF S = {} THEN 0 ELSE 1
<1>1. CASE S = {}
  BY <1>1, FS_EmptySet
<1>2. CASE S # {}
  <2>1. PICK i \in S : S = {i}
    BY <1>2
  <2> QED
    BY <1>2, <2>1, FS_Singleton
<1> QED
  BY <1>1, <1>2

LEMMA OnePlace == IInv => OnePlaceEach
<1> SUFFICES ASSUME IInv, NEW id \in Ids
             PROVE  Cardinality(InQueue(id)) + (IF hand.id = id THEN 1 ELSE 0)
                       + Cardinality(InTasks(id)) + Cardinality(InLog(id))
                    = IF id \in accepted THEN 1 ELSE 0
  BY DEF OnePlaceEach
<1>1. Cardinality(InQueue(id)) = IF Queued(id) THEN 1 ELSE 0
  <2>1. \A i, j \in InQueue(id) : i = j
    BY DEF InQueue, IInv, OnceInv
  <2>2. InQueue(id) = {} <=> ~ Queued(id)
    BY DEF InQueue, Queued
  <2> QED
    BY <2>1, <2>2, CountOnce
<1>2. Cardinality(InTasks(id)) = IF Posted(id) THEN 1 ELSE 0
  <2>1. \A i, j \in InTasks(id) : i = j
    BY DEF InTasks, IInv, OnceInv
  <2>2. InTasks(id) = {} <=> ~ Posted(id)
    BY DEF InTasks, Posted
  <2> QED
    BY <2>1, <2>2, CountOnce
<1>3. Cardinality(InLog(id)) = IF Logged(id) THEN 1 ELSE 0
  <2>1. \A i, j \in InLog(id) : i = j
    BY DEF InLog, IInv, OnceInv
  <2>2. InLog(id) = {} <=> ~ Logged(id)
    BY DEF InLog, Logged
  <2> QED
    BY <2>1, <2>2, CountOnce
<1>4. /\ id \in accepted <=> Queued(id) \/ Held(id) \/ Posted(id) \/ Logged(id)
      /\ Queued(id) => ~ Held(id) /\ ~ Posted(id) /\ ~ Logged(id)
      /\ Held(id) => ~ Posted(id) /\ ~ Logged(id)
      /\ Posted(id) => ~ Logged(id)
      /\ Held(id) <=> hand.id = id
  BY DEF IInv, PlaceInv, Held
<1> QED
  BY <1>1, <1>2, <1>3, <1>4

LEMMA DescriptorsAreOwned == IInv => DescriptorsOwned
BY DEF IInv, DescriptorInv, PhaseInv, DescriptorsOwned

----------------------------------------------------------------------------
(* The theorems *)

\* The inductive invariant holds in every state the client, its writer thread, the
\* browser sequence and the receiver reach together.
THEOREM InvCorrect == Spec => []IInv
<1>1. Init => IInv
  BY InitInv
<1>2. IInv /\ [Next]_vars => IInv'
  BY IInvStep
<1> QED
  BY <1>1, <1>2, PTL DEF Spec

\* The channel's invariant: for any queue limits, transfer sizes and reconnect delays,
\* through every reconnect, loss, expiry, stop and restart, an accepted transfer is in one
\* place and counted there, "accepted" is reported only of what the receiver stored, and the
\* one open descriptor has an owner; pending_ is exactly the running generation's transfers
\* that have not completed; a result is recorded once, true, and in the session of its
\* capture; and while that session records none is lost, but for a module that completes
\* after the channel was.
THEOREM ConsistentCorrect == Spec => []Consistent
<1>1. IInv => Consistent
  BY OnePlace, DescriptorsAreOwned DEF Consistent, IInv
<1> QED
  BY <1>1, InvCorrect, PTL

----------------------------------------------------------------------------
(* The refinement *)

Completed == {log[i] : i \in 1 .. Len(log)}

LEMMA CompletedAre ==
    ASSUME IInv
    PROVE  /\ Ledger!Reported \subseteq Ids
           /\ \A id \in Ids : id \in Ledger!Reported <=> Logged(id)
           /\ Ledger!Reported \subseteq accepted
<1>0. log \in Seq([id : Ids, status : Statuses]) /\ PlaceInv
  BY DEF IInv, TypeOK, SinkTypes
<1>1. ASSUME NEW i \in 1 .. Len(log) PROVE log[i].id \in Ids
  <2>1. log[i] \in [id : Ids, status : Statuses]
    BY <1>0, ElementOfSeq
  <2> QED
    BY <2>1
<1>2. \A id : id \in Ledger!Reported <=> Logged(id)
  BY DEF Ledger!Reported, Logged
<1>3. \A id : Logged(id) => id \in Ids
  BY <1>1 DEF Logged
<1> QED
  BY <1>0, <1>2, <1>3 DEF PlaceInv

LEMMA LedgerStep ==
    ASSUME IInv, [Next]_vars
    PROVE  [Ledger!Next]_<<accepted, Completed, lost>>
<1>0. /\ tasks \in Seq(Task) /\ log \in Seq([id : Ids, status : Statuses])
      /\ PlaceInv /\ TaskInv /\ HandInv /\ accepted \in SUBSET Ids /\ offered \in 0 .. MaxTransfers
      /\ MaxTransfers \in Nat /\ lost \in BOOLEAN
  BY BoundsAssumption DEF IInv, TypeOK, SinkTypes, Task
<1>1. CASE UNCHANGED <<accepted, log, lost>>
  BY <1>1 DEF Completed
<1>2. CASE Captures
  <2>1. UNCHANGED <<log, lost, Completed>>
    BY <1>2, CapturesKeep DEF Completed
  <2>2. CASE accepted' = accepted
    BY <2>1, <2>2
  <2>3. ASSUME NEW id \in Ids \ accepted, Sends(id)
        PROVE  ~ lost /\ accepted' = accepted \cup {id}
    BY <1>0, <2>3 DEF Sends, AcceptsTransfers, TaskInv
  <2> QED
    BY <1>2, <2>1, <2>2, <2>3, CapturesSend DEF KeepsQueue, Ledger!Next, Ledger!Accept
<1>3. CASE RunTask /\ Head(tasks).op = "done"
  <2> DEFINE h == Head(tasks).id
             r == [id |-> h, status |-> Head(tasks).status]
  <2>1. log' = Append(log, r) /\ UNCHANGED <<accepted, lost>>
    BY <1>3 DEF RunTask, Complete
  <2>2. /\ Posted(h) /\ h \in Ids /\ Head(tasks).status \in Statuses
    BY <1>3, FinishIsLast DEF Posted, Task, Completions, Lost, Finish
  <2>3. h \in accepted /\ h \notin Ledger!Reported
    BY <1>0, <2>2, CompletedAre DEF PlaceInv
  <2>4. Completed' = Completed \cup {r}
    <3>1. /\ Len(log) \in Nat /\ Len(log') = Len(log) + 1 /\ log'[Len(log) + 1] = r
          /\ \A i \in 1 .. Len(log) : log'[i] = log[i]
      BY <1>0, <2>1
    <3> HIDE DEF r
    <3> QED
      BY <3>1 DEF Completed
  <2> QED
    BY <2>1, <2>2, <2>3, <2>4 DEF Ledger!Next, Ledger!Report, Completed
<1>4. CASE RunTask /\ Head(tasks).op = "lost"
  <2>1. lost' = TRUE /\ UNCHANGED <<accepted, log>>
    BY <1>4 DEF RunTask, AnnounceLoss
  <2>2. 1 \in 1 .. Len(tasks) /\ tasks[1].op = "lost"
    BY <1>4, FinishIsLast
  <2>3. ~ lost /\ queue = <<>> /\ wpc \in {"done", "off"}
    BY <1>0, <2>2 DEF TaskInv, Has
  <2>4. \A i \in 1 .. Len(tasks) : tasks[i].op # "done"
    <3> SUFFICES ASSUME NEW i \in 1 .. Len(tasks), tasks[i].op = "done" PROVE FALSE
      OBVIOUS
    <3>1. 1 < i
      BY <2>2
    <3> QED
      BY <1>0, <2>2, <3>1 DEF TaskInv, Before
  <2>5. \A id \in Ids : ~ Queued(id) /\ ~ Held(id) /\ ~ Posted(id)
    <3>1. \A id \in Ids : ~ Held(id)
      BY <1>0, <2>3, BoundsAssumption DEF HandInv, Held, NoTransfer, Ids
    <3> QED
      BY <2>3, <2>4, <3>1 DEF Queued, Posted
  <2>6. Ledger!Reported = accepted
    BY <1>0, <2>5, CompletedAre DEF PlaceInv
  <2> QED
    BY <2>1, <2>3, <2>6 DEF Ledger!Next, Ledger!AnnounceLoss, Completed
<1>5. CASE Start
  <2>1. lost' = FALSE /\ UNCHANGED <<accepted, log>>
    BY <1>5 DEF Start
  <2> QED
    BY <1>0, <2>1 DEF Ledger!Next, Ledger!Reopen, Completed
<1>6. CASE ~ (Captures \/ Start \/ (RunTask /\ Head(tasks).op \in {"done", "lost"}))
  <2>1. UNCHANGED <<accepted, log, lost>>
    BY <1>6 DEF Next, Expire, Stop, JoinWriter, RunTask, FinishStop,
       Writer, Take, Probe, SendFrame, ReadAck, NoAck, Report, Reconnect,
       Backoff, TryConnect, Install, GiveUp, LoseChannel, Flush, Receiver, Exit, Restart, Receive,
       RejectAndClose, CloseConnection, historyVars, vars
  <2> QED
    BY <1>1, <2>1
<1> QED
  BY <1>2, <1>3, <1>4, <1>5, <1>6

\* The channel keeps the ledger it promises the capture sink: a transfer that was accepted
\* is reported once and with one status, the loss is announced behind the last of them,
\* and nothing is accepted on a lost channel.
THEOREM ImplementsLedgerCorrect == Spec => ImplementsLedger
<1>1. Init => Ledger!Init
  BY DEF Init, Ledger!Init
<1>2. IInv /\ [Next]_vars => [Ledger!Next]_<<accepted, Completed, lost>>
  BY LedgerStep
<1> QED
  BY <1>1, <1>2, InvCorrect, PTL DEF Spec, ImplementsLedger, Ledger!Spec, Completed
=============================================================================
