----------------------------- MODULE EventBroker -----------------------------
(***************************************************************************)
(* The event broker: admission under the session policy, a ring of the     *)
(* newest records, and for every stream (session and process) the sequence *)
(* numbers that are missing between the lowest and the highest seen, as    *)
(* intervals in bounded storage.  Every call holds mutex_, so a call is    *)
(* one step; calls come from any thread, with any clock reading.           *)
(***************************************************************************)
EXTENDS Integers, Sequences, FiniteSets, FiniteSetsExt, TLC

CONSTANTS
    Capacity,      \* capacity_: of the ring, of the trackers and of their intervals
    CountMax,      \* the largest value of a 64-bit counter
    Streams,       \* StreamKeys
    Sequences_,    \* sequence numbers
    Payloads,      \* what a gap record's payload says: a drop count, or 0 for anything else
    Inputs,        \* bound: the records that may arrive
    MaxIngest      \* bound: calls

ASSUME CapacityAssumption == Capacity \in Nat \ {0}
ASSUME CountAssumption == CountMax \in Nat \ {0} /\ Payloads \subseteq 0 .. CountMax

VARIABLES
    events, next_event,         \* the ring: events_, next_event_ (0-based, as in the code)
    trackers,                   \* sequence_trackers_: tracked stream -> low, high, missing
    missing_interval_count,
    stream_insertion_order,
    stats,                      \* BrokerStats but for sequence_gaps, which Stats derives
    received,                   \* history: sequence numbers accepted, for each stream
    since,                      \* history: those accepted since the stream's tracker was made
    reported                    \* history: drops reported by accepted gap records

vars == <<events, next_event, trackers, missing_interval_count, stream_insertion_order, stats,
          received, since, reported>>

Events == [stream : Streams, sequence : Sequences_, gap : BOOLEAN, payload : Payloads]

ASSUME InputsAssumption ==
    /\ IsFiniteSet(Streams)     \* a key has 96 bits
    /\ Sequences_ \subseteq 0 .. CountMax /\ Inputs \subseteq Events /\ MaxIngest \in Nat

----------------------------------------------------------------------------
(* Counters *)

\* SaturateAdd
SaturateAdd(sum, amount) ==
    IF amount > CountMax - sum.total THEN [total |-> CountMax, saturated |-> TRUE]
                                     ELSE [sum EXCEPT !.total = @ + amount]

Zero == [total |-> 0, saturated |-> FALSE]

\* ReportedQueueDrops: a payload that is no drop count weighs one event.
ReportedQueueDrops(event) == IF event.payload = 0 THEN 1 ELSE event.payload

----------------------------------------------------------------------------
(* Sequence tracking *)

Hole(first, last) == IF first <= last THEN {[first |-> first, last |-> last]} ELSE {}

NewTracker(sequence) == [low |-> sequence, high |-> sequence, missing |-> {}]

\* Mutant: the part of the hole above the late number is forgotten.
Bug_Observe_NoSplit(tracker, sequence) ==
    IF sequence > tracker.high
    THEN [tracker EXCEPT !.high = sequence,
                         !.missing = @ \cup Hole(tracker.high + 1, sequence - 1)]
    ELSE IF sequence < tracker.low
    THEN [tracker EXCEPT !.low = sequence,
                         !.missing = @ \cup Hole(sequence + 1, tracker.low - 1)]
    ELSE LET hit == {h \in tracker.missing : h.first <= sequence /\ sequence <= h.last}
         IN [tracker EXCEPT !.missing =
                (@ \ hit) \cup UNION {Hole(h.first, sequence - 1) : h \in hit}]

\* A known stream's next number: past the highest, before the lowest, or between them,
\* where the last hole that starts at or before it is split if it holds the number.
Observe(tracker, sequence) ==
    IF sequence > tracker.high
    THEN [tracker EXCEPT !.high = sequence,
                         !.missing = @ \cup Hole(tracker.high + 1, sequence - 1)]
    ELSE IF sequence < tracker.low
    THEN [tracker EXCEPT !.low = sequence,
                         !.missing = @ \cup Hole(sequence + 1, tracker.low - 1)]
    ELSE LET below == {h \in tracker.missing : h.first <= sequence}
             hit == {h \in below : sequence <= h.last /\ \A g \in below : g.first <= h.first}
         IN [tracker EXCEPT !.missing =
                (@ \ hit) \cup UNION {Hole(h.first, sequence - 1) \cup Hole(sequence + 1, h.last)
                                         : h \in hit}]

\* The intervals the oldest n of the trackers hold.
Held(table, n) ==
    MapThenSumSet(LAMBDA i : Cardinality(table[stream_insertion_order[i]].missing), 1 .. n)

\* How many of the oldest trackers go until the intervals fit.
Excess(table, count) ==
    CHOOSE n \in 0 .. Len(stream_insertion_order) :
       /\ count - Held(table, n) <= Capacity
       /\ \A m \in 0 .. n - 1 : count - Held(table, m) > Capacity

\* EvictSequenceTracker, n times: table and count lose the oldest n trackers.
Evict(table, count, n) ==
    /\ trackers' = Restrict(table, DOMAIN table \ {stream_insertion_order[i] : i \in 1 .. n})
    /\ missing_interval_count' = count - Held(table, n)
    /\ stream_insertion_order' =
          SubSeq(stream_insertion_order, n + 1, Len(stream_insertion_order))

TrackNew(stream, sequence, n) ==
    /\ n = IF Cardinality(DOMAIN trackers) = Capacity THEN 1 ELSE 0
    /\ LET kept == DOMAIN trackers \ {stream_insertion_order[i] : i \in 1 .. n} IN
          trackers' = [s \in kept \cup {stream} |->
                          IF s = stream THEN NewTracker(sequence) ELSE trackers[s]]
    /\ missing_interval_count' = missing_interval_count - Held(trackers, n)
    /\ stream_insertion_order' =
          Append(SubSeq(stream_insertion_order, n + 1, Len(stream_insertion_order)), stream)
    /\ since' = [since EXCEPT ![stream] = {sequence}]

TrackKnown(stream, sequence, n) ==
    LET table == [trackers EXCEPT ![stream] = Observe(@, sequence)]
        count == missing_interval_count - Cardinality(trackers[stream].missing)
                    + Cardinality(table[stream].missing)
    IN /\ n = Excess(table, count)
       /\ Evict(table, count, n)
       /\ since' = [since EXCEPT ![stream] = @ \cup {sequence}]

\* TrackSequence; n counts the trackers it evicts.
TrackSequence(stream, sequence, n) ==
    IF stream \in DOMAIN trackers THEN TrackKnown(stream, sequence, n)
                                  ELSE TrackNew(stream, sequence, n)

----------------------------------------------------------------------------
Init ==
    /\ events = <<>> /\ next_event = 0
    /\ trackers = [s \in {} |-> NewTracker(0)]
    /\ missing_interval_count = 0 /\ stream_insertion_order = <<>>
    /\ stats = [accepted |-> 0, invalid |-> 0, category_rejected |-> 0, expired |-> 0,
                queue_drops |-> Zero, sequence_tracking_evictions |-> 0, evicted |-> 0]
    /\ received = [s \in Streams |-> {}] /\ since = [s \in Streams |-> {}] /\ reported = 0

\* The record takes the next slot: a new one, or that of the oldest record.
Store(event) ==
    /\ events' = IF Len(events) = Capacity
                 THEN [events EXCEPT ![next_event + 1] = event] ELSE Append(events, event)
    /\ next_event' = IF next_event + 1 = Capacity THEN 0 ELSE next_event + 1

Calls == stats.accepted + stats.invalid + stats.expired + stats.category_rejected

\* A record that is refused is counted under its first reason and changes nothing else.
Refuse(valid, expired, allowed) ==
    /\ ~ valid \/ expired \/ ~ allowed
    /\ stats' = IF ~ valid THEN [stats EXCEPT !.invalid = @ + 1]
                ELSE IF expired THEN [stats EXCEPT !.expired = @ + 1]
                ELSE [stats EXCEPT !.category_rejected = @ + 1]
    /\ UNCHANGED <<events, next_event, trackers, missing_interval_count,
                   stream_insertion_order, received, since, reported>>

Accept(event) ==
    /\ \E n \in 0 .. Capacity :
          /\ TrackSequence(event.stream, event.sequence, n)
          /\ stats' = [stats EXCEPT
                          !.sequence_tracking_evictions = @ + n,
                          !.queue_drops =
                             IF event.gap THEN SaturateAdd(@, ReportedQueueDrops(event)) ELSE @,
                          !.evicted = IF Len(events) = Capacity THEN @ + 1 ELSE @,
                          !.accepted = @ + 1]
    /\ Store(event)
    /\ received' = [received EXCEPT ![event.stream] = @ \cup {event.sequence}]
    /\ reported' = IF event.gap THEN reported + ReportedQueueDrops(event) ELSE reported

\* IsValidEvent, IsExpired and Allows say what is refused.
IngestAt ==
    /\ Calls < MaxIngest
    /\ \/ \E valid, expired, allowed \in BOOLEAN : Refuse(valid, expired, allowed)
       \/ \E event \in Inputs : Accept(event)

Next == IngestAt

Spec == Init /\ [][Next]_vars

----------------------------------------------------------------------------
(* What callers read *)

\* Mutant: a full ring is read from its first slot.
Bug_Snapshot_Unwrapped(limit) ==
    LET count == IF limit < Len(events) THEN limit ELSE Len(events)
        start == IF next_event >= count THEN next_event - count ELSE 0
        first_count == IF count < Len(events) - start THEN count ELSE Len(events) - start
    IN SubSeq(events, start + 1, start + first_count) \o SubSeq(events, 1, count - first_count)

\* Snapshot: the newest records, from the older end of the ring to its write position.
Snapshot(limit) ==
    LET count == IF limit < Len(events) THEN limit ELSE Len(events)
        start == IF next_event >= count THEN next_event - count
                                        ELSE Len(events) - (count - next_event)
        first_count == IF count < Len(events) - start THEN count ELSE Len(events) - start
    IN SubSeq(events, start + 1, start + first_count) \o SubSeq(events, 1, count - first_count)

\* Stats: sequence_gaps sums what the trackers miss, saturating.
SequenceGaps ==
    LET holes == UNION {{s} \X trackers[s].missing : s \in DOMAIN trackers}
    IN FoldSet(LAMBDA h, sum : SaturateAdd(sum, h[2].last - h[2].first + 1), Zero, holes)

----------------------------------------------------------------------------
(* Properties *)

Trackers == [low : Sequences_, high : Sequences_,
             missing : SUBSET [first : 0 .. CountMax, last : 0 .. CountMax]]

\* Every variable has its type; the write position is a slot of the ring or its next one.
TypeOK ==
    /\ events \in Seq(Events) /\ Len(events) <= Capacity
    /\ next_event \in 0 .. Capacity - 1
    /\ Len(events) < Capacity => next_event = Len(events)
    /\ DOMAIN trackers \subseteq Streams /\ \A s \in DOMAIN trackers : trackers[s] \in Trackers
    /\ missing_interval_count \in 0 .. Capacity
    /\ stream_insertion_order \in Seq(Streams)
    /\ stats.queue_drops \in [total : 0 .. CountMax, saturated : BOOLEAN]
    /\ \A field \in DOMAIN stats \ {"queue_drops"} : stats[field] \in Nat
    /\ received \in [Streams -> SUBSET Sequences_] /\ since \in [Streams -> SUBSET Sequences_]
    /\ reported \in Nat

Numbers(hole) == hole.first .. hole.last

\* A tracker is what an independent set of the numbers would say: the bounds are the
\* lowest and highest since it was made, and its holes, with a number seen between any
\* two of them, hold exactly the absent numbers, whatever the order of arrival.
TrackersExact ==
    \A s \in DOMAIN trackers :
       LET t == trackers[s] IN
       /\ {t.low, t.high} \subseteq since[s] /\ since[s] \subseteq t.low .. t.high
       /\ UNION {Numbers(h) : h \in t.missing} = (t.low .. t.high) \ since[s]
       /\ \A h, g \in t.missing : h # g => h.last + 1 < g.first \/ g.last + 1 < h.first

\* The storage is bounded: the order lists each tracked stream once, the count is that of
\* the intervals held, and neither trackers nor intervals exceed the capacity.
TrackersBounded ==
    /\ Len(stream_insertion_order) = Cardinality(DOMAIN trackers)
    /\ {stream_insertion_order[i] : i \in DOMAIN stream_insertion_order} = DOMAIN trackers
    /\ missing_interval_count =
          MapThenSumSet(LAMBDA s : Cardinality(trackers[s].missing), DOMAIN trackers)
    /\ missing_interval_count <= Capacity /\ Cardinality(DOMAIN trackers) <= Capacity

\* The numbers absent between the lowest and the highest that ever arrived.
Absent(s) ==
    {q \in 0 .. CountMax : \E low, high \in received[s] : low < q /\ q < high} \ received[s]
AllAbsent == MapThenSumSet(LAMBDA s : Cardinality(Absent(s)), Streams)

\* While nothing was evicted sequence_gaps is exact, up to saturation, and says so: late
\* arrivals retract what they fill, duplicates change nothing.
GapsExact ==
    stats.sequence_tracking_evictions = 0 =>
       /\ SequenceGaps.total = IF AllAbsent > CountMax THEN CountMax ELSE AllAbsent
       /\ SequenceGaps.saturated <=> AllAbsent > CountMax

\* queue_drops survives the ring: the sum of every gap record accepted, saturating.
QueueDropsExact ==
    /\ stats.queue_drops.total = IF reported > CountMax THEN CountMax ELSE reported
    /\ stats.queue_drops.saturated <=> reported > CountMax

\* A snapshot with a limit is the newest end of the whole one.
SnapshotLimited ==
    \A limit \in 0 .. Capacity + 1 :
       LET all == Snapshot(Capacity)
           count == IF limit < Len(all) THEN limit ELSE Len(all)
       IN Snapshot(limit) = SubSeq(all, Len(all) - count + 1, Len(all))

\* What Stats and Snapshot tell after any arrivals: trackers and drop totals are those of
\* the whole history, within their bounds, and a limit only shortens a snapshot.
Consistent ==
    TypeOK /\ TrackersExact /\ TrackersBounded /\ GapsExact /\ QueueDropsExact /\ SnapshotLimited

\* The ring implements the window of the newest arrivals.
Window == INSTANCE RecentWindow WITH Events <- Inputs, Size <- Capacity, window <- Snapshot(Capacity)

ImplementsWindow == Window!Spec

\* event_broker.hpp says that with evictions sequence_gaps is "an incomplete lower bound"
\* of the numbers absent within the observed bounds.
GapsLowerBound == SequenceGaps.total <= AllAbsent
=============================================================================
