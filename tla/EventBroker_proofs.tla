------------------------- MODULE EventBroker_proofs -------------------------
(***************************************************************************)
(* Theorems about the event broker for any capacity, counter width,        *)
(* streams, sequence numbers and arrivals: what its ring shows, what its   *)
(* trackers say is missing and how much storage they take, what the gap    *)
(* totals count, and the total of the drops reported to it.  The library's *)
(* sums are compared with Total, whose laws follow from a smallest set     *)
(* that would break them.                                                  *)
(***************************************************************************)
EXTENDS EventBroker, FiniteSetTheorems, SequenceTheorems, WellFoundedInduction, TLAPS

----------------------------------------------------------------------------
(* The ring *)

\* The records fill their slots from the first; the next write goes behind them, and
\* once every slot is taken to the oldest.
RingInv ==
    /\ events \in Seq(Events) /\ Len(events) <= Capacity
    /\ next_event \in 0 .. Capacity - 1
    /\ Len(events) < Capacity => next_event = Len(events)

\* The i-th record from the oldest.
At(i) == IF Len(events) < Capacity THEN events[i]
         ELSE IF next_event + i <= Capacity THEN events[next_event + i]
         ELSE events[next_event + i - Capacity]

Shown(limit) == IF limit < Len(events) THEN limit ELSE Len(events)

LEMMA SnapshotIs ==
    ASSUME RingInv, NEW limit \in Nat
    PROVE  /\ Snapshot(limit) \in Seq(Events) /\ Len(Snapshot(limit)) = Shown(limit)
           /\ \A i \in 1 .. Shown(limit) : Snapshot(limit)[i] = At(Len(events) - Shown(limit) + i)
<1> DEFINE len == Len(events)
           count == Shown(limit)
           start == IF next_event >= count THEN next_event - count ELSE len - (count - next_event)
           first_count == IF count < len - start THEN count ELSE len - start
           old == SubSeq(events, start + 1, start + first_count)
           new == SubSeq(events, 1, count - first_count)
<1>1. /\ events \in Seq(Events) /\ len \in Nat /\ len <= Capacity /\ Capacity \in Nat
      /\ next_event \in 0 .. Capacity - 1 /\ (len < Capacity => next_event = len)
  BY CapacityAssumption DEF RingInv
<1>2. Snapshot(limit) = old \o new
  BY DEF Snapshot, Shown
<1>3. count \in 0 .. len /\ len \in Nat
  BY <1>1 DEF Shown
<1> HIDE DEF len, count
<1>4. start \in 0 .. len
  BY <1>1, <1>3
<1>5. len < Capacity => start + count = len
  BY <1>1, <1>3
<1>6. len = Capacity => start + count = next_event \/ start + count = next_event + Capacity
  BY <1>1, <1>3
<1> HIDE DEF start
<1>7. first_count \in 0 .. count /\ start + first_count <= len /\ count - first_count <= len
  BY <1>3, <1>4
<1>8. first_count = count \/ (start + first_count = len /\ start + count > len)
  BY <1>3, <1>4
<1> HIDE DEF first_count
<1>9. start + 1 \in Int /\ start + first_count \in Int /\ first_count \in Nat /\ start \in Nat
  BY <1>3, <1>4, <1>7
<1>10. /\ old \in Seq(Events) /\ Len(old) = first_count
       /\ \A i \in 1 .. first_count : old[i] = events[start + i]
  <2>1. \A i \in 1 .. first_count : start + i \in 1 .. len
    BY <1>3, <1>4, <1>7
  <2>2. /\ start + 1 > start + first_count => first_count = 0
        /\ start + first_count - (start + 1) + 1 = first_count
        /\ \A i \in 1 .. first_count : start + 1 + i - 1 = start + i
    BY <1>9
  <2>3. \A i \in (start + 1) .. (start + first_count) : i \in 1 .. len
    BY <1>3, <1>4, <1>7
  <2> QED
    BY <1>1, <1>9, <2>1, <2>2, <2>3, SubSeqProperties DEF len
<1>11. /\ new \in Seq(Events) /\ Len(new) = count - first_count
       /\ \A i \in 1 .. (count - first_count) : new[i] = events[i]
  <2>1. count - first_count \in Nat /\ \A i \in 1 .. (count - first_count) : i \in 1 .. len
    BY <1>3, <1>7
  <2> QED
    BY <1>1, <2>1, SubSeqProperties DEF len
<1> HIDE DEF old, new
<1>12. /\ old \o new \in Seq(Events) /\ Len(old \o new) = count
       /\ \A i \in 1 .. count : (old \o new)[i] = IF i <= first_count THEN old[i] ELSE new[i - first_count]
  <2>1. Len(old) + Len(new) = count
    BY <1>3, <1>7, <1>10, <1>11
  <2>2. /\ old \o new \in Seq(Events) /\ Len(old \o new) = Len(old) + Len(new)
        /\ \A i \in 1 .. (Len(old) + Len(new)) :
              (old \o new)[i] = IF i <= Len(old) THEN old[i] ELSE new[i - Len(old)]
    BY <1>10, <1>11, ConcatProperties
  <2> QED
    BY <1>10, <2>1, <2>2
<1>13. ASSUME NEW i \in 1 .. count
       PROVE  (old \o new)[i] = At(len - count + i)
  <2>1. CASE i <= first_count
    <3>1. (old \o new)[i] = events[start + i] /\ i \in 1 .. first_count
      BY <1>7, <1>10, <1>12, <2>1
    <3>2. CASE len < Capacity
      <4>1. len - count + i = start + i
        BY <1>3, <1>4, <1>5, <3>2
      <4> QED
        BY <3>1, <3>2, <4>1 DEF At, len
    <3>3. CASE len = Capacity
      <4>1. \/ /\ next_event + (len - count + i) <= Capacity
               /\ next_event + (len - count + i) = start + i
            \/ /\ ~ (next_event + (len - count + i) <= Capacity)
               /\ next_event + (len - count + i) - Capacity = start + i
        BY <1>1, <1>3, <1>4, <1>6, <1>7, <2>1, <3>3
      <4> QED
        BY <1>1, <3>1, <3>3, <4>1 DEF At, len
    <3>4. len < Capacity \/ len = Capacity
      BY <1>1
    <3> QED
      BY <3>2, <3>3, <3>4
  <2>2. CASE i > first_count
    <3>1. (old \o new)[i] = events[i - first_count] /\ i - first_count \in 1 .. (count - first_count)
      <4>1. i - first_count \in 1 .. (count - first_count) /\ ~ (i <= first_count)
        BY <1>3, <1>7, <2>2
      <4> QED
        BY <1>11, <1>12, <4>1
    <3>2. start + first_count = len /\ start + count > len /\ len = Capacity
      BY <1>1, <1>3, <1>4, <1>5, <1>7, <1>8, <2>2
    <3>3. start + count = next_event + Capacity
      BY <1>1, <1>3, <1>4, <1>6, <3>2
    <3>4. /\ ~ (next_event + (len - count + i) <= Capacity)
          /\ next_event + (len - count + i) - Capacity = i - first_count
      BY <1>1, <1>3, <1>4, <1>7, <2>2, <3>2, <3>3
    <3> QED
      BY <1>1, <3>1, <3>2, <3>4 DEF At, len
  <2>3. i <= first_count \/ i > first_count
    BY <1>3, <1>7
  <2> QED
    BY <2>1, <2>2, <2>3
<1> QED
  BY <1>2, <1>12, <1>13 DEF count, len

SnapshotSpec ==
    \A limit \in Nat :
       /\ Snapshot(limit) \in Seq(Events) /\ Len(Snapshot(limit)) = Shown(limit)
       /\ \A i \in 1 .. Shown(limit) : Snapshot(limit)[i] = At(Len(events) - Shown(limit) + i)

LEMMA SnapshotNow == RingInv => SnapshotSpec
BY SnapshotIs DEF SnapshotSpec

LEMMA SnapshotNext == RingInv' => SnapshotSpec'
BY SnapshotNow, PTL

\* A snapshot with a limit is the newest end of the whole one.
LEMMA SnapshotsAgree == RingInv => SnapshotLimited
<1> SUFFICES ASSUME RingInv, NEW limit \in 0 .. Capacity + 1
             PROVE  LET all == Snapshot(Capacity)
                        count == IF limit < Len(all) THEN limit ELSE Len(all)
                    IN Snapshot(limit) = SubSeq(all, Len(all) - count + 1, Len(all))
  BY DEF SnapshotLimited
<1> DEFINE all == Snapshot(Capacity)
           len == Len(events)
           count == Shown(limit)
           end == SubSeq(all, len - count + 1, len)
<1>1. Capacity \in Nat /\ limit \in Nat /\ len \in Nat /\ len <= Capacity
  BY CapacityAssumption DEF RingInv
<1>2. Shown(Capacity) = len /\ count \in 0 .. len
  BY <1>1 DEF Shown
<1>3. /\ all \in Seq(Events) /\ Len(all) = len
      /\ \A i \in 1 .. len : all[i] = At(len - len + i)
  BY <1>1, <1>2, SnapshotIs
<1>4. /\ Snapshot(limit) \in Seq(Events) /\ Len(Snapshot(limit)) = count
      /\ \A i \in 1 .. count : Snapshot(limit)[i] = At(len - count + i)
  BY <1>1, SnapshotIs
<1>5. count = IF limit < Len(all) THEN limit ELSE Len(all)
  BY <1>3 DEF Shown
<1> HIDE DEF all, len, count
<1>6. len - count + 1 \in Int /\ len \in Int /\ len \in Nat
  BY <1>1, <1>2
<1>7. /\ end \in Seq(Events) /\ Len(end) = count
      /\ \A i \in 1 .. count : end[i] = all[len - count + i]
  <2>1. \A i \in (len - count + 1) .. len : i \in 1 .. Len(all)
    BY <1>1, <1>2, <1>3
  <2>2. /\ len - count + 1 > len => count = 0
        /\ len - (len - count + 1) + 1 = count
        /\ \A i \in 1 .. count : len - count + 1 + i - 1 = len - count + i
    BY <1>1, <1>2
  <2> QED
    BY <1>3, <1>6, <2>1, <2>2, SubSeqProperties
<1> HIDE DEF end
<1>8. \A i \in 1 .. count : Snapshot(limit)[i] = end[i]
  <2>1. ASSUME NEW i \in 1 .. count PROVE Snapshot(limit)[i] = end[i]
    <3>1. len - count + i \in 1 .. len /\ len - len + (len - count + i) = len - count + i
      BY <1>1, <1>2
    <3> QED
      BY <1>3, <1>4, <1>7, <3>1
  <2> QED
    BY <2>1
<1>9. Snapshot(limit) = end
  BY <1>4, <1>7, <1>8, SeqEqual
<1> QED
  BY <1>3, <1>5, <1>9 DEF end, all

----------------------------------------------------------------------------
(* The ring implements the window of the newest arrivals *)

LEMMA RingStep ==
    ASSUME RingInv, NEW event \in Events, Store(event)
    PROVE  RingInv'
<1>1. /\ events \in Seq(Events) /\ Len(events) \in Nat /\ Len(events) <= Capacity
      /\ next_event \in 0 .. Capacity - 1 /\ (Len(events) < Capacity => next_event = Len(events))
      /\ Capacity \in Nat \ {0}
  BY CapacityAssumption DEF RingInv
<1>2. next_event' = IF next_event + 1 = Capacity THEN 0 ELSE next_event + 1
  BY DEF Store
<1>3. CASE Len(events) = Capacity
  <2>1. events' = [events EXCEPT ![next_event + 1] = event] /\ next_event + 1 \in 1 .. Len(events)
    BY <1>1, <1>3 DEF Store
  <2>2. events' \in Seq(Events) /\ Len(events') = Len(events)
    BY <1>1, <2>1, ExceptSeq
  <2> QED
    BY <1>1, <1>2, <1>3, <2>2 DEF RingInv
<1>4. CASE Len(events) # Capacity
  <2>1. events' = Append(events, event)
    BY <1>4 DEF Store
  <2>2. events' \in Seq(Events) /\ Len(events') = Len(events) + 1
    BY <1>1, <2>1, AppendProperties
  <2> QED
    BY <1>1, <1>2, <1>4, <2>2 DEF RingInv
<1> QED
  BY <1>3, <1>4

LEMMA WindowStep ==
    ASSUME RingInv, NEW event \in Inputs, Store(event)
    PROVE  Window!Arrive(event)
<1> DEFINE w == Snapshot(Capacity)
           len == Len(events)
<1>0. event \in Events
  BY InputsAssumption
<1>1. /\ events \in Seq(Events) /\ len \in Nat /\ len <= Capacity
      /\ next_event \in 0 .. Capacity - 1 /\ (len < Capacity => next_event = len)
      /\ Capacity \in Nat \ {0}
  BY CapacityAssumption DEF RingInv
<1>2. RingInv'
  BY <1>0, RingStep
<1>3. /\ w \in Seq(Events) /\ Len(w) = len
      /\ \A i \in 1 .. len : w[i] = At(i)
  <2>1. Shown(Capacity) = len /\ \A i \in 1 .. len : len - len + i = i
    BY <1>1 DEF Shown
  <2> QED
    BY <1>1, <2>1, SnapshotNow DEF SnapshotSpec
<1>4. /\ w' \in Seq(Events) /\ Len(w') = Len(events')
      /\ \A i \in 1 .. Len(events') : w'[i] = At(i)'
  <2>1. Len(events') \in Nat /\ Len(events') <= Capacity
    BY <1>2 DEF RingInv
  <2>2. Shown(Capacity)' = Len(events') /\ \A i \in 1 .. Len(events') : Len(events') - Len(events') + i = i
    BY <1>1, <2>1 DEF Shown
  <2> QED
    BY <1>1, <1>2, <2>1, <2>2, SnapshotNext DEF SnapshotSpec
<1>5. next_event' = IF next_event + 1 = Capacity THEN 0 ELSE next_event + 1
  BY DEF Store
<1> HIDE DEF w
<1>6. CASE len < Capacity
  <2>1. /\ events' = Append(events, event) /\ Len(events') = len + 1 /\ next_event = len
        /\ events'[len + 1] = event /\ \A i \in 1 .. len : events'[i] = events[i]
    BY <1>0, <1>1, <1>6, AppendProperties DEF Store
  <2>2. \A i \in 1 .. len : At(i) = events[i]
    BY <1>6 DEF At
  <2>3. \A i \in 1 .. len + 1 : At(i)' = events'[i]
    <3>1. CASE len + 1 < Capacity
      BY <2>1, <3>1 DEF At
    <3>2. CASE len + 1 = Capacity
      <4>1. next_event' = 0 /\ ~ (Len(events') < Capacity)
        BY <1>1, <1>5, <2>1, <3>2
      <4>2. \A i \in 1 .. len + 1 : 0 + i <= Capacity /\ 0 + i = i
        BY <1>1, <3>2
      <4> QED
        BY <4>1, <4>2 DEF At
    <3>3. len + 1 < Capacity \/ len + 1 = Capacity
      BY <1>1, <1>6
    <3> QED
      BY <3>1, <3>2, <3>3
  <2>4. /\ Append(w, event) \in Seq(Events) /\ Len(Append(w, event)) = len + 1
        /\ Append(w, event)[len + 1] = event /\ \A i \in 1 .. len : Append(w, event)[i] = w[i]
    BY <1>0, <1>3, AppendProperties
  <2>5. ASSUME NEW i \in 1 .. len + 1 PROVE w'[i] = Append(w, event)[i]
    <3>1. i = len + 1 \/ i \in 1 .. len
      BY <1>1
    <3>2. w'[i] = events'[i]
      BY <1>4, <2>1, <2>3
    <3> QED
      BY <1>3, <2>1, <2>2, <2>4, <3>1, <3>2
  <2>6. w' = Append(w, event)
    BY <1>4, <2>1, <2>4, <2>5, SeqEqual
  <2> QED
    BY <1>3, <1>6, <2>6 DEF Window!Arrive, w
<1>7. CASE len = Capacity
  <2>1. events' = [events EXCEPT ![next_event + 1] = event] /\ next_event + 1 \in 1 .. len
    BY <1>1, <1>7 DEF Store
  <2>2. /\ Len(events') = len /\ events'[next_event + 1] = event
        /\ \A i \in 1 .. len : i # next_event + 1 => events'[i] = events[i]
    BY <1>0, <1>1, <2>1, ExceptSeq
  <2>3. ASSUME NEW i \in 1 .. len - 1 PROVE At(i)' = At(i + 1)
    <3>1. i \in Nat /\ i # 0 /\ i < Capacity
      BY <1>1, <1>7
    <3>2. ~ (Len(events) < Capacity) /\ ~ (Len(events') < Capacity)
      BY <1>1, <1>7, <2>2
    <3>3. At(i)' = IF next_event' + i <= Capacity THEN events'[next_event' + i]
                   ELSE events'[next_event' + i - Capacity]
      BY <3>2 DEF At
    <3>4. At(i + 1) = IF next_event + (i + 1) <= Capacity THEN events[next_event + (i + 1)]
                      ELSE events[next_event + (i + 1) - Capacity]
      BY <3>2 DEF At
    <3>5. CASE next_event + 1 = Capacity
      <4>1. /\ next_event' = 0 /\ 0 + i <= Capacity /\ 0 + i = i
            /\ ~ (next_event + (i + 1) <= Capacity) /\ next_event + (i + 1) - Capacity = i
            /\ i # next_event + 1 /\ i \in 1 .. len
        BY <1>1, <1>5, <1>7, <3>1, <3>5
      <4> QED
        BY <2>2, <3>3, <3>4, <4>1
    <3>6. CASE next_event + 1 # Capacity /\ next_event + (i + 1) <= Capacity
      <4>1. /\ next_event' + i = next_event + (i + 1) /\ next_event + (i + 1) \in 1 .. len
            /\ next_event + (i + 1) # next_event + 1
        BY <1>1, <1>5, <1>7, <3>1, <3>6
      <4> QED
        BY <2>2, <3>3, <3>4, <3>6, <4>1
    <3>7. CASE next_event + 1 # Capacity /\ ~ (next_event + (i + 1) <= Capacity)
      <4>1. /\ ~ (next_event' + i <= Capacity)
            /\ next_event' + i - Capacity = next_event + (i + 1) - Capacity
            /\ next_event + (i + 1) - Capacity \in 1 .. len
            /\ next_event + (i + 1) - Capacity # next_event + 1
        BY <1>1, <1>5, <1>7, <3>1, <3>7
      <4> QED
        BY <2>2, <3>3, <3>4, <3>7, <4>1
    <3> QED
      BY <3>5, <3>6, <3>7
  <2>4. At(len)' = event
    <3>1. /\ ~ (Len(events') < Capacity)
          /\ next_event' + len <= Capacity => next_event' + len = next_event + 1
          /\ ~ (next_event' + len <= Capacity) => next_event' + len - Capacity = next_event + 1
      BY <1>1, <1>5, <1>7, <2>2
    <3>2. At(len)' = IF next_event' + len' <= Capacity THEN events'[next_event' + len']
                     ELSE events'[next_event' + len' - Capacity]
      BY <3>1 DEF At
    <3> QED
      BY <2>2, <3>1, <3>2
  <2>5. w # <<>> /\ len - 1 \in Nat
    BY <1>1, <1>3, <1>7
  <2>6. /\ Tail(w) \in Seq(Events) /\ Len(Tail(w)) = len - 1
        /\ \A i \in 1 .. len - 1 : Tail(w)[i] = w[i + 1]
    BY <1>3, <2>5, HeadTailProperties
  <2> DEFINE new == Append(Tail(w), event)
  <2>7. /\ new \in Seq(Events) /\ Len(new) = len - 1 + 1
        /\ new[len - 1 + 1] = event /\ \A i \in 1 .. len - 1 : new[i] = Tail(w)[i]
    BY <1>0, <2>6, AppendProperties
  <2> HIDE DEF new
  <2>8. len - 1 + 1 = len
    BY <1>1
  <2>9. ASSUME NEW i \in 1 .. len PROVE w'[i] = new[i]
    <3>1. w'[i] = At(i)'
      BY <1>4, <2>2
    <3>2. CASE i = len
      BY <1>4, <2>2, <2>4, <2>7, <2>8, <3>2
    <3>3. CASE i # len
      <4>1. i \in 1 .. len - 1 /\ i + 1 \in 1 .. len
        BY <1>1, <3>3
      <4> QED
        BY <1>3, <2>3, <2>6, <2>7, <3>1, <4>1
    <3> QED
      BY <3>2, <3>3
  <2>10. w' = new
    BY <1>4, <2>2, <2>7, <2>8, <2>9, SeqEqual
  <2>11. ~ (Len(w) < Capacity)
    BY <1>1, <1>3, <1>7
  <2> QED
    BY <2>10, <2>11 DEF Window!Arrive, w, new
<1> QED
  BY <1>1, <1>6, <1>7

----------------------------------------------------------------------------
(* A tracker and the numbers seen *)

Within(q, h) == h.first <= q /\ q <= h.last

\* The tracker says of the numbers seen what there is to say: see TrackersExact.
Exact(t, seen) ==
    /\ t \in Trackers /\ t.low \in seen /\ t.high \in seen
    /\ \A q \in seen : t.low <= q /\ q <= t.high
    /\ \A q \in Int : (\E h \in t.missing : Within(q, h)) <=> t.low <= q /\ q <= t.high /\ q \notin seen
    /\ \A h, g \in t.missing : h # g => h.last + 1 < g.first \/ g.last + 1 < h.first
    /\ \A h \in t.missing : h.first <= h.last

Holes == [first : 0 .. CountMax, last : 0 .. CountMax]

LEMMA SequencesAre == Sequences_ \subseteq 0 .. CountMax /\ CountMax \in Nat
BY InputsAssumption, CountAssumption

LEMMA HoleIs ==
    ASSUME NEW first \in 0 .. CountMax + 1, NEW last \in -1 .. CountMax
    PROVE  /\ Hole(first, last) \subseteq Holes
           /\ \A h \in Hole(first, last) : h.first = first /\ h.last = last /\ first <= last
           /\ \A q \in Int : (\E h \in Hole(first, last) : Within(q, h)) <=> first <= q /\ q <= last
<1>0. CountMax \in Nat
  BY SequencesAre
<1>1. CASE first <= last
  <2>1. Hole(first, last) = {[first |-> first, last |-> last]}
    BY <1>1 DEF Hole
  <2>2. first \in 0 .. CountMax /\ last \in 0 .. CountMax
    BY <1>0, <1>1
  <2> QED
    BY <1>1, <2>1, <2>2 DEF Holes, Within
<1>2. CASE ~ (first <= last)
  <2>1. Hole(first, last) = {}
    BY <1>2 DEF Hole
  <2>2. \A q \in Int : ~ (first <= q /\ q <= last)
    BY <1>0, <1>2
  <2> QED
    BY <2>1, <2>2
<1> QED
  BY <1>1, <1>2

LEMMA NewExact ==
    ASSUME NEW sequence \in Sequences_
    PROVE  Exact(NewTracker(sequence), {sequence})
<1>1. sequence \in 0 .. CountMax /\ CountMax \in Nat
  BY SequencesAre
<1>2. NewTracker(sequence) \in Trackers
  BY DEF NewTracker, Trackers
<1> QED
  BY <1>1, <1>2 DEF Exact, NewTracker

\* The numbers that arrive past the highest, or before the lowest, open a hole.
LEMMA ObserveOutside ==
    ASSUME NEW t, NEW seen \in SUBSET Sequences_, Exact(t, seen), NEW sequence \in Sequences_,
           sequence > t.high \/ sequence < t.low
    PROVE  Exact(Observe(t, sequence), seen \cup {sequence})
<1> DEFINE first == IF sequence > t.high THEN t.high + 1 ELSE sequence + 1
           last == IF sequence > t.high THEN sequence - 1 ELSE t.low - 1
           low == IF sequence > t.high THEN t.low ELSE sequence
           high == IF sequence > t.high THEN sequence ELSE t.high
           u == Observe(t, sequence)
           hole == Hole(first, last)
<1>1. /\ t \in Trackers /\ t.low \in Sequences_ /\ t.high \in Sequences_ /\ t.missing \subseteq Holes
      /\ t.low \in seen /\ t.high \in seen
  BY DEF Exact, Trackers, Holes
<1>2. /\ t.low \in 0 .. CountMax /\ t.high \in 0 .. CountMax /\ sequence \in 0 .. CountMax
      /\ CountMax \in Nat /\ t.low <= t.high
  BY <1>1, SequencesAre DEF Exact
<1>3. first \in 0 .. CountMax + 1 /\ last \in -1 .. CountMax
  BY <1>2
<1>4. /\ u = [low |-> low, high |-> high, missing |-> t.missing \cup hole]
      /\ u.low = low /\ u.high = high /\ u.missing = t.missing \cup hole
  BY <1>1, <1>2 DEF Observe, Trackers
<1>5. low \in Sequences_ /\ high \in Sequences_
  BY <1>1
<1>6. /\ \A q \in Int : q >= t.low /\ q <= t.high => ~ (first <= q /\ q <= last)
      /\ \A q \in Int : low <= q /\ q <= high <=>
            (t.low <= q /\ q <= t.high) \/ q = sequence \/ (first <= q /\ q <= last)
      /\ ~ (first <= sequence /\ sequence <= last)
      /\ low <= t.low /\ t.high <= high /\ low <= sequence /\ sequence <= high
      /\ low \in {t.low, sequence} /\ high \in {t.high, sequence}
      /\ first > t.high + 1 \/ first = t.high + 1 \/ last = t.low - 1
  BY <1>2
<1>7. /\ hole \subseteq Holes
      /\ \A h \in hole : h.first = first /\ h.last = last /\ first <= last
      /\ \A q \in Int : (\E h \in hole : Within(q, h)) <=> first <= q /\ q <= last
  BY <1>3, HoleIs
<1> HIDE DEF u, hole
<1>8. u \in Trackers
  BY <1>1, <1>4, <1>5, <1>7 DEF Trackers, Holes
<1>9. \A q \in seen \cup {sequence} : q \in Int /\ low <= q /\ q <= high
  BY <1>2, SequencesAre DEF Exact
<1>10. \A q \in Int : (\E h \in u.missing : Within(q, h)) <=>
                         low <= q /\ q <= high /\ q \notin seen \cup {sequence}
  <2> SUFFICES ASSUME NEW q \in Int
               PROVE  (\E h \in t.missing \cup hole : Within(q, h)) <=>
                         low <= q /\ q <= high /\ q \notin seen \cup {sequence}
    BY <1>4
  <2>1. (\E h \in t.missing : Within(q, h)) <=> t.low <= q /\ q <= t.high /\ q \notin seen
    BY DEF Exact
  <2>2. (\E h \in hole : Within(q, h)) <=> first <= q /\ q <= last
    BY <1>7
  <2>3. q \in seen => t.low <= q /\ q <= t.high
    BY DEF Exact
  <2>4. q = sequence => ~ (t.low <= q /\ q <= t.high) /\ ~ (first <= q /\ q <= last)
    BY <1>2
  <2>5. low <= q /\ q <= high <=> (t.low <= q /\ q <= t.high) \/ q = sequence \/ (first <= q /\ q <= last)
    BY <1>6
  <2>6. first <= q /\ q <= last => ~ (t.low <= q /\ q <= t.high)
    BY <1>2
  <2> HIDE DEF first, last, low, high
  <2> QED
    BY <2>1, <2>2, <2>3, <2>4, <2>5, <2>6
<1>11. \A h \in t.missing : h.first <= h.last /\ t.low < h.first /\ h.last < t.high
                             /\ h.first \in Int /\ h.last \in Int
  <2> SUFFICES ASSUME NEW h \in t.missing
               PROVE  h.first <= h.last /\ t.low < h.first /\ h.last < t.high
                      /\ h.first \in Int /\ h.last \in Int
    OBVIOUS
  <2>1. h \in Holes /\ h.first <= h.last
    BY <1>1 DEF Exact
  <2>2. h.first \in Int /\ h.last \in Int
    BY <1>2, <2>1 DEF Holes
  <2>3. Within(h.first, h) /\ Within(h.last, h)
    BY <2>1, <2>2 DEF Within
  <2>4. /\ t.low <= h.first /\ h.first <= t.high /\ h.first \notin seen
        /\ t.low <= h.last /\ h.last <= t.high /\ h.last \notin seen
    BY <2>2, <2>3 DEF Exact
  <2>5. h.first # t.low /\ h.last # t.high
    BY <1>1, <2>4
  <2> QED
    BY <1>2, <2>1, <2>2, <2>4, <2>5
<1>12. \A h \in t.missing, g \in hole : h.last + 1 < g.first \/ g.last + 1 < h.first
  <2> SUFFICES ASSUME NEW h \in t.missing, NEW g \in hole
               PROVE  h.last + 1 < first \/ last + 1 < h.first
    BY <1>7
  <2>1. t.low < h.first /\ h.last < t.high /\ h.first \in Int /\ h.last \in Int
    BY <1>11
  <2> QED
    BY <1>2, <2>1
<1>13. \A h, g \in u.missing : h # g => h.last + 1 < g.first \/ g.last + 1 < h.first
  <2> SUFFICES ASSUME NEW h \in u.missing, NEW g \in u.missing, h # g
               PROVE  h.last + 1 < g.first \/ g.last + 1 < h.first
    OBVIOUS
  <2>1. CASE h \in t.missing /\ g \in t.missing
    BY <2>1 DEF Exact
  <2>2. ~ (h \in hole /\ g \in hole)
    BY DEF hole, Hole
  <2> QED
    BY <1>4, <1>12, <2>1, <2>2
<1>14. \A h \in u.missing : h.first <= h.last
  BY <1>4, <1>7, <1>11
<1>15. low \in seen \cup {sequence} /\ high \in seen \cup {sequence}
  BY <1>1
<1> HIDE DEF low, high, first, last
<1> QED
  BY <1>4, <1>8, <1>9, <1>10, <1>13, <1>14, <1>15 DEF Exact, u

\* A number between the bounds fills the place it has in a hole, or is a duplicate.
LEMMA ObserveInside ==
    ASSUME NEW t, NEW seen \in SUBSET Sequences_, Exact(t, seen), NEW sequence \in Sequences_,
           t.low <= sequence, sequence <= t.high
    PROVE  Exact(Observe(t, sequence), seen \cup {sequence})
<1> DEFINE below == {h \in t.missing : h.first <= sequence}
           hit == {h \in below : sequence <= h.last /\ \A g \in below : g.first <= h.first}
           parts == UNION {Hole(h.first, sequence - 1) \cup Hole(sequence + 1, h.last) : h \in hit}
           u == Observe(t, sequence)
<1>1. /\ t \in Trackers /\ t.low \in Sequences_ /\ t.high \in Sequences_ /\ t.missing \subseteq Holes
      /\ t.low \in seen /\ t.high \in seen
  BY DEF Exact, Trackers, Holes
<1>2. /\ t.low \in 0 .. CountMax /\ t.high \in 0 .. CountMax /\ sequence \in 0 .. CountMax
      /\ CountMax \in Nat
  BY <1>1, SequencesAre
<1>3. u = [t EXCEPT !.missing = (t.missing \ hit) \cup parts]
  <2>1. ~ (sequence > t.high) /\ ~ (sequence < t.low)
    BY <1>2
  <2> QED
    BY <2>1 DEF Observe
<1>4. /\ u.low = t.low /\ u.high = t.high /\ u.missing = (t.missing \ hit) \cup parts
      /\ u = [low |-> t.low, high |-> t.high, missing |-> u.missing]
  BY <1>1, <1>3 DEF Trackers
<1>5. \A h \in t.missing : h.first \in 0 .. CountMax /\ h.last \in 0 .. CountMax /\ h.first <= h.last
  BY <1>1 DEF Exact, Holes
<1>6. CASE sequence \in seen
  <2>1. \A h \in t.missing : ~ Within(sequence, h)
    BY <1>2, <1>6 DEF Exact
  <2>2. hit = {}
    BY <2>1 DEF Within
  <2>3. u.missing = t.missing /\ seen \cup {sequence} = seen
    BY <1>4, <1>6, <2>2
  <2>4. u = t
    BY <1>1, <1>4, <2>3 DEF Trackers
  <2> HIDE DEF u
  <2> QED
    BY <2>3, <2>4 DEF u
<1>7. CASE sequence \notin seen
  <2>1. PICK h \in t.missing : Within(sequence, h)
    BY <1>2, <1>7 DEF Exact
  <2>2. ASSUME NEW g \in t.missing, g # h
        PROVE  g.last + 1 < h.first \/ h.last + 1 < g.first
    BY <2>2 DEF Exact
  <2>3. ASSUME NEW g \in below PROVE g.first <= h.first
    <3>1. CASE g = h
      BY <1>5, <3>1
    <3>2. CASE g # h
      <4>1. /\ h.first \in Int /\ h.last \in Int /\ g.first \in Int /\ g.last \in Int
            /\ sequence \in Int /\ g.first <= g.last /\ g.first <= sequence /\ sequence <= h.last
            /\ g.last + 1 < h.first \/ h.last + 1 < g.first
        BY <1>2, <1>5, <2>1, <2>2, <2>3, <3>2 DEF Within
      <4> QED
        BY <4>1
    <3> QED
      BY <3>1, <3>2
  <2>4. h \in hit
    BY <2>1, <2>3 DEF Within
  <2>5. ASSUME NEW g \in hit PROVE g = h
    <3>1. g \in below /\ sequence <= g.last
      OBVIOUS
    <3>2. g # h => FALSE
      <4> SUFFICES ASSUME g # h PROVE FALSE
        OBVIOUS
      <4>1. /\ h.first \in Int /\ h.last \in Int /\ g.first \in Int /\ g.last \in Int
            /\ sequence \in Int /\ g.first <= sequence /\ sequence <= g.last
            /\ h.first <= sequence /\ sequence <= h.last
            /\ g.last + 1 < h.first \/ h.last + 1 < g.first
        BY <1>2, <1>5, <2>1, <2>2, <3>1 DEF Within
      <4> QED
        BY <4>1
    <3> QED
      BY <3>2
  <2>6. hit = {h}
    BY <2>4, <2>5
  <2> DEFINE left == Hole(h.first, sequence - 1)
             right == Hole(sequence + 1, h.last)
  <2>7. u.missing = (t.missing \ {h}) \cup left \cup right
    BY <1>4, <2>6
  <2>8. /\ h.first \in 0 .. CountMax /\ h.last \in 0 .. CountMax
        /\ h.first <= sequence /\ sequence <= h.last
    BY <1>5, <2>1 DEF Within
  <2>9. /\ left \subseteq Holes
        /\ \A g \in left : g.first = h.first /\ g.last = sequence - 1 /\ g.first <= g.last
        /\ \A q \in Int : (\E g \in left : Within(q, g)) <=> h.first <= q /\ q <= sequence - 1
    <3>1. h.first \in 0 .. CountMax + 1 /\ sequence - 1 \in -1 .. CountMax
      BY <1>2, <2>8
    <3> QED
      BY <3>1, HoleIs
  <2>10. /\ right \subseteq Holes
         /\ \A g \in right : g.first = sequence + 1 /\ g.last = h.last /\ g.first <= g.last
         /\ \A q \in Int : (\E g \in right : Within(q, g)) <=> sequence + 1 <= q /\ q <= h.last
    <3>1. sequence + 1 \in 0 .. CountMax + 1 /\ h.last \in -1 .. CountMax
      BY <1>2, <2>8
    <3> QED
      BY <3>1, HoleIs
  <2> HIDE DEF left, right, u, hit, below, parts
  <2>11. u \in Trackers
    BY <1>1, <1>4, <2>7, <2>9, <2>10 DEF Trackers, Holes
  <2>12. \A q \in Int : (\E g \in u.missing : Within(q, g)) <=>
                           t.low <= q /\ q <= t.high /\ q \notin seen \cup {sequence}
    <3> SUFFICES ASSUME NEW q \in Int
                 PROVE  (\E g \in (t.missing \ {h}) \cup left \cup right : Within(q, g)) <=>
                           t.low <= q /\ q <= t.high /\ q \notin seen \cup {sequence}
      BY <2>7
    <3>1. (\E g \in t.missing : Within(q, g)) <=> t.low <= q /\ q <= t.high /\ q \notin seen
      BY DEF Exact
    <3>2. Within(q, h) <=> (h.first <= q /\ q <= sequence - 1) \/ q = sequence
                              \/ (sequence + 1 <= q /\ q <= h.last)
      BY <1>2, <2>8 DEF Within
    <3>3. /\ (\E g \in left : Within(q, g)) <=> h.first <= q /\ q <= sequence - 1
          /\ (\E g \in right : Within(q, g)) <=> sequence + 1 <= q /\ q <= h.last
      BY <2>9, <2>10
    <3>4. q = sequence => /\ ~ (h.first <= q /\ q <= sequence - 1)
                          /\ ~ (sequence + 1 <= q /\ q <= h.last)
                          /\ \A g \in t.missing \ {h} : ~ Within(q, g)
      <4>1. q = sequence => ~ (h.first <= q /\ q <= sequence - 1) /\ ~ (sequence + 1 <= q /\ q <= h.last)
        BY <1>2, <2>8
      <4>2. ASSUME NEW g \in t.missing \ {h}, q = sequence PROVE ~ Within(q, g)
        <5>1. /\ h.first \in Int /\ h.last \in Int /\ g.first \in Int /\ g.last \in Int
              /\ h.first <= q /\ q <= h.last
              /\ g.last + 1 < h.first \/ h.last + 1 < g.first
          BY <1>5, <2>2, <2>8, <4>2
        <5> QED
          BY <5>1 DEF Within
      <4> QED
        BY <4>1, <4>2
    <3> DEFINE inLeft == h.first <= q /\ q <= sequence - 1
               inRight == sequence + 1 <= q /\ q <= h.last
    <3> HIDE DEF inLeft, inRight
    <3>5. /\ Within(q, h) <=> inLeft \/ q = sequence \/ inRight
          /\ (\E g \in left : Within(q, g)) <=> inLeft
          /\ (\E g \in right : Within(q, g)) <=> inRight
          /\ q = sequence => ~ inLeft /\ ~ inRight /\ \A g \in t.missing \ {h} : ~ Within(q, g)
      BY <3>2, <3>3, <3>4 DEF inLeft, inRight
    <3> QED
      BY <3>1, <3>5, <2>1
  <2>13. \A g \in u.missing : g.first <= g.last
    BY <1>5, <2>7, <2>9, <2>10
  <2>14. ASSUME NEW g \in t.missing \ {h}, NEW f \in left \cup right
         PROVE  g.last + 1 < f.first \/ f.last + 1 < g.first
    <3>1. /\ h.first \in Int /\ h.last \in Int /\ g.first \in Int /\ g.last \in Int /\ sequence \in Int
          /\ h.first <= sequence /\ sequence <= h.last
          /\ g.last + 1 < h.first \/ h.last + 1 < g.first
      BY <1>2, <1>5, <2>2, <2>8
    <3>2. \/ f.first = h.first /\ f.last = sequence - 1
          \/ f.first = sequence + 1 /\ f.last = h.last
      BY <2>9, <2>10
    <3> QED
      BY <3>1, <3>2
  <2>15. ASSUME NEW g \in left, NEW f \in right PROVE g.last + 1 < f.first
    BY <1>2, <2>9, <2>10
  <2>16. \A g, f \in left : g = f
    BY DEF left, Hole
  <2>17. \A g, f \in right : g = f
    BY DEF right, Hole
  <2>18. \A g, f \in u.missing : g # f => g.last + 1 < f.first \/ f.last + 1 < g.first
    <3> SUFFICES ASSUME NEW g \in u.missing, NEW f \in u.missing, g # f
                 PROVE  g.last + 1 < f.first \/ f.last + 1 < g.first
      OBVIOUS
    <3>1. CASE g \in t.missing /\ f \in t.missing
      BY <3>1 DEF Exact
    <3> QED
      BY <2>7, <2>14, <2>15, <2>16, <2>17, <3>1
  <2>19. \A q \in seen \cup {sequence} : t.low <= q /\ q <= t.high
    BY DEF Exact
  <2> QED
    BY <1>1, <1>4, <2>11, <2>12, <2>13, <2>18, <2>19 DEF Exact, u
<1> QED
  BY <1>6, <1>7

LEMMA ObserveExact ==
    ASSUME NEW t, NEW seen \in SUBSET Sequences_, Exact(t, seen), NEW sequence \in Sequences_
    PROVE  Exact(Observe(t, sequence), seen \cup {sequence})
<1>1. t.low \in Int /\ t.high \in Int /\ sequence \in Int
  <2>1. t.low \in Sequences_ /\ t.high \in Sequences_
    BY DEF Exact, Trackers
  <2>2. \A q \in Sequences_ : q \in Int
    BY SequencesAre
  <2> QED
    BY <2>1, <2>2
<1>2. \/ sequence > t.high \/ sequence < t.low \/ (t.low <= sequence /\ sequence <= t.high)
  BY <1>1
<1> QED
  BY <1>2, ObserveOutside, ObserveInside

\* Every tracker says what there is to say of the numbers seen since it was made.
TrackInv ==
    /\ trackers = [s \in DOMAIN trackers |-> trackers[s]]
    /\ DOMAIN trackers \subseteq Streams
    /\ since \in [Streams -> SUBSET Sequences_]
    /\ \A s \in DOMAIN trackers : Exact(trackers[s], since[s])

----------------------------------------------------------------------------
(* Sums over finite sets *)

\* Of the subsets of a finite set that are in some way special, one is smallest.
LEMMA SmallestSet ==
    ASSUME NEW T, IsFiniteSet(T), NEW A, A \subseteq SUBSET T, A # {}
    PROVE  \E s \in A : \A t \in A : ~ (Cardinality(t) < Cardinality(s))
<1> DEFINE Sizes == {Cardinality(s) : s \in A}
           R == OpToRel(<, Nat)
<1>1. \A s \in A : IsFiniteSet(s) /\ Cardinality(s) \in Nat
  BY FS_Subset, FS_CardinalityType
<1>2. Sizes \subseteq Nat /\ Sizes # {}
  BY <1>1
<1>3. PICK n \in Sizes : \A m \in Sizes : ~ (<<m, n>> \in R)
  <2> HIDE DEF Sizes
  <2> QED  BY <1>2, NatLessThanWellFounded, WFMin
<1>4. \A m \in Sizes : ~ (m < n)
  BY <1>2, <1>3 DEF OpToRel
<1>5. PICK s \in A : n = Cardinality(s)
  BY <1>3
<1> QED
  BY <1>4, <1>5

\* The library's sum over a set, as the function its definition chooses: from the sum over a
\* subset without one element, the sum over the subset.
First(s) == CHOOSE x \in s : TRUE
Sums(F, T, g) == g = [s \in SUBSET T |->
    IF s = {} THEN 0 ELSE F[First(s)] + g[s \ {First(s)}]]

LEMMA FirstIn == ASSUME NEW s, s # {} PROVE First(s) \in s
BY DEF First

\* There is such a function: one for the subsets of at most n elements, for every n.
LEMMA SumsExist ==
    ASSUME NEW T, IsFiniteSet(T), NEW F
    PROVE  \E g : Sums(F, T, g)
<1> DEFINE Small(n) == {s \in SUBSET T : Cardinality(s) <= n}
           On(n, g) == g = [s \in Small(n) |->
                               IF s = {} THEN 0 ELSE F[First(s)] + g[s \ {First(s)}]]
           Bad == {n \in Nat : ~ \E g : On(n, g)}
           R == OpToRel(<, Nat)
<1>0. \A s \in SUBSET T : IsFiniteSet(s) /\ Cardinality(s) \in Nat /\ (Cardinality(s) = 0 <=> s = {})
  BY FS_Subset, FS_CardinalityType, FS_EmptySet
<1>1. \A s \in SUBSET T : s # {} => /\ First(s) \in s /\ s \ {First(s)} \in SUBSET T
                                    /\ Cardinality(s \ {First(s)}) = Cardinality(s) - 1
  BY <1>0, FirstIn, FS_RemoveElement
<1>2. Bad = {}
  <2> SUFFICES ASSUME Bad # {} PROVE FALSE
    OBVIOUS
  <2>1. Bad \subseteq Nat
    OBVIOUS
  <2>2. PICK n \in Bad : \A m \in Bad : ~ (<<m, n>> \in R)
    <3> HIDE DEF Bad
    <3> QED  BY <2>1, NatLessThanWellFounded, WFMin
  <2>3. n \in Nat /\ \A m \in Nat : m < n => \E g : On(m, g)
    <3>1. \A m \in Bad : ~ (m < n)
      <4> HIDE DEF Bad
      <4> QED BY <2>1, <2>2 DEF OpToRel
    <3> HIDE DEF On
    <3> QED  BY <3>1
  <2>4. CASE n = 0
    <3>1. Small(n) = {{}}
      <4>1. \A s \in Small(n) : s = {}
        BY <1>0, <2>4
      <4>2. {} \in Small(n)
        BY <1>0, <2>4
      <4> QED BY <4>1, <4>2
    <3>2. On(n, [s \in Small(n) |-> 0])
      <4> HIDE DEF Small
      <4> QED BY <3>1
    <3> QED  BY <3>2
  <2>5. CASE n # 0
    <3>1. n - 1 \in Nat /\ n - 1 < n
      BY <2>3, <2>5
    <3>2. PICK g : On(n - 1, g)
      BY <2>3, <3>1
    <3> DEFINE h == [s \in Small(n) |-> IF s = {} THEN 0 ELSE F[First(s)] + g[s \ {First(s)}]]
    <3>3. \A s \in Small(n) : s # {} => s \ {First(s)} \in Small(n - 1) /\ s \ {First(s)} \in Small(n)
      BY <1>0, <1>1, <2>3
    <3>4. \A s \in Small(n - 1) : s \in Small(n)
      BY <1>0, <2>3, <3>1
    <3>5. \A s \in Small(n - 1) : h[s] = g[s]
      <4> SUFFICES ASSUME NEW s \in Small(n - 1) PROVE h[s] = g[s]
        OBVIOUS
      <4>1. s \in Small(n)
        BY <3>4
      <4>2. h[s] = IF s = {} THEN 0 ELSE F[First(s)] + g[s \ {First(s)}]
        <5> HIDE DEF Small
        <5> QED BY <4>1
      <4>3. g[s] = IF s = {} THEN 0 ELSE F[First(s)] + g[s \ {First(s)}]
        <5> HIDE DEF Small, h
        <5> QED BY <3>2
      <4> QED  BY <4>2, <4>3
    <3>6. \A s \in Small(n) : s # {} => h[s \ {First(s)}] = g[s \ {First(s)}]
      <4> HIDE DEF h, Small
      <4> QED  BY <3>3, <3>5
    <3>7. On(n, h)
      <4> HIDE DEF Small
      <4> QED  BY <3>6
    <3> QED
      <4> HIDE DEF h, On
      <4> QED BY <3>7
  <2> QED  BY <2>4, <2>5
<1>3. Cardinality(T) \in Nat /\ Small(Cardinality(T)) = SUBSET T
  BY <1>0, FS_Subset, FS_CardinalityType
<1>4. PICK g : On(Cardinality(T), g)
  <2> HIDE DEF On
  <2> QED BY <1>2, <1>3
<1>5. Sums(F, T, g)
  <2> HIDE DEF Small
  <2> QED  BY <1>3, <1>4 DEF Sums
<1> QED  BY <1>5

\* Whichever element is left out, the sum is that element's share and the sum of the others.
LEMMA SumsAny ==
    ASSUME NEW T, IsFiniteSet(T), NEW F, \A x \in T : F[x] \in Nat, NEW g, Sums(F, T, g)
    PROVE  \A s \in SUBSET T : g[s] \in Nat /\ \A x \in s : g[s] = F[x] + g[s \ {x}]
<1> DEFINE Right(s) == g[s] \in Nat /\ \A x \in s : g[s] = F[x] + g[s \ {x}]
           Wrong == {s \in SUBSET T : ~ Right(s)}
<1>1. \A s \in SUBSET T : g[s] = IF s = {} THEN 0 ELSE F[First(s)] + g[s \ {First(s)}]
  BY DEF Sums
<1>2. \A s \in SUBSET T : \A x \in s :
         Cardinality(s \ {x}) < Cardinality(s) /\ s \ {x} \in SUBSET T
  <2> SUFFICES ASSUME NEW s \in SUBSET T, NEW x \in s
               PROVE  Cardinality(s \ {x}) < Cardinality(s)
    OBVIOUS
  <2>1. IsFiniteSet(s) /\ Cardinality(s) \in Nat
    BY FS_Subset, FS_CardinalityType
  <2>2. Cardinality(s \ {x}) = Cardinality(s) - 1
    BY <2>1, FS_RemoveElement
  <2> QED  BY <2>1, <2>2
<1>3. Wrong = {}
  <2> SUFFICES ASSUME Wrong # {} PROVE FALSE
    OBVIOUS
  <2>1. PICK s \in Wrong : \A t \in Wrong : ~ (Cardinality(t) < Cardinality(s))
    <3>1. Wrong \subseteq SUBSET T
      OBVIOUS
    <3> HIDE DEF Wrong
    <3> QED  BY <3>1, SmallestSet
  <2>2. s \in SUBSET T /\ \A t \in SUBSET T : Cardinality(t) < Cardinality(s) => Right(t)
    <3> HIDE DEF Right
    <3> QED  BY <2>1
  <2>3. CASE s = {}
    BY <1>1, <2>1, <2>3
  <2>4. CASE s # {}
    <3> DEFINE y == First(s)
    <3>1. y \in s /\ y \in T /\ F[y] \in Nat
      BY <2>2, <2>4, FirstIn
    <3>2. g[s] = F[y] + g[s \ {y}] /\ Right(s \ {y})
      <4>1. g[s] = F[y] + g[s \ {y}]
        BY <1>1, <2>2, <2>4
      <4> HIDE DEF Right, y
      <4> QED BY <4>1, <1>2, <2>2, <3>1
    <3>3. g[s] \in Nat
      <4> HIDE DEF y
      <4> QED BY <3>1, <3>2
    <3>4. ASSUME NEW x \in s, x # y PROVE g[s] = F[x] + g[s \ {x}]
      <4>1. Right(s \ {x})
        <5> HIDE DEF Right
        <5> QED  BY <1>2, <2>2
      <4>2. F[x] \in Nat /\ x \in s \ {y} /\ y \in s \ {x}
        <5> HIDE DEF y
        <5> QED BY <2>2, <3>1, <3>4
      <4> HIDE DEF y
      <4>3. g[s \ {y}] = F[x] + g[(s \ {y}) \ {x}]
        BY <3>2, <4>2
      <4>4. g[s \ {x}] = F[y] + g[(s \ {x}) \ {y}]
        BY <4>1, <4>2
      <4>5. (s \ {y}) \ {x} = (s \ {x}) \ {y}
        OBVIOUS
      <4>6. g[(s \ {y}) \ {x}] \in Nat
        <5>1. s \ {y} \in SUBSET T /\ (s \ {y}) \ {x} \in SUBSET T
          BY <2>2
        <5>2. Cardinality((s \ {y}) \ {x}) < Cardinality(s \ {y})
          BY <1>2, <5>1, <4>2
        <5>3. Cardinality(s \ {y}) < Cardinality(s)
          BY <1>2, <2>2, <3>1
        <5>4. /\ Cardinality((s \ {y}) \ {x}) \in Nat /\ Cardinality(s \ {y}) \in Nat
              /\ Cardinality(s) \in Nat
          BY <5>1, <2>2, FS_Subset, FS_CardinalityType
        <5>5. Cardinality((s \ {y}) \ {x}) < Cardinality(s)
          BY <5>2, <5>3, <5>4
        <5>6. Right((s \ {y}) \ {x})
          <6> HIDE DEF Right
          <6> QED BY <2>2, <5>1, <5>5
        <5> QED  BY <5>6
      <4>7. g[s] = F[y] + (F[x] + g[(s \ {y}) \ {x}])
        BY <3>2, <4>3
      <4>8. g[s \ {x}] = F[y] + g[(s \ {y}) \ {x}]
        BY <4>4, <4>5
      <4> QED
        BY <3>1, <4>2, <4>6, <4>7, <4>8
    <3>5. Right(s)
      BY <3>2, <3>3, <3>4
    <3> QED  BY <2>1, <3>5
  <2> QED  BY <2>3, <2>4
<1> QED  BY <1>3

\* The sums over the subsets of a smaller set are the same, and so are those of other shares that
\* are the same there.
LEMMA SumsAgree ==
    ASSUME NEW T, IsFiniteSet(T), NEW S, S \subseteq T, NEW F, NEW G, \A x \in S : F[x] = G[x],
           NEW g, NEW h, Sums(F, S, g), Sums(G, T, h)
    PROVE  \A s \in SUBSET S : g[s] = h[s]
<1> DEFINE Wrong == {s \in SUBSET S : g[s] # h[s]}
<1>1. \A s \in SUBSET S :
         /\ g[s] = IF s = {} THEN 0 ELSE F[First(s)] + g[s \ {First(s)}]
         /\ h[s] = IF s = {} THEN 0 ELSE G[First(s)] + h[s \ {First(s)}]
  BY DEF Sums
<1>2. Wrong = {}
  <2> SUFFICES ASSUME Wrong # {} PROVE FALSE
    OBVIOUS
  <2>1. PICK s \in Wrong : \A t \in Wrong : ~ (Cardinality(t) < Cardinality(s))
    <3>1. Wrong \subseteq SUBSET S /\ IsFiniteSet(S)
      BY FS_Subset
    <3> HIDE DEF Wrong
    <3> QED  BY <3>1, SmallestSet
  <2>2. s # {}
    BY <1>1, <2>1
  <2> DEFINE x == First(s)
  <2>3. x \in s /\ s \ {x} \in SUBSET S /\ F[x] = G[x]
    BY <2>1, <2>2, FirstIn
  <2>4. Cardinality(s \ {x}) < Cardinality(s)
    <3>1. IsFiniteSet(s) /\ Cardinality(s) \in Nat
      BY <2>1, FS_Subset, FS_CardinalityType
    <3>2. Cardinality(s \ {x}) = Cardinality(s) - 1
      <4> HIDE DEF x
      <4> QED BY <2>3, <3>1, FS_RemoveElement
    <3> QED  BY <3>1, <3>2
  <2>5. g[s \ {x}] = h[s \ {x}]
    BY <2>1, <2>3, <2>4
  <2> QED  BY <1>1, <2>1, <2>2, <2>3, <2>5
<1> QED  BY <1>2

\* The sum over a set of each element's share.
Total(F, S) == (CHOOSE g : Sums(F, S, g))[S]

LEMMA TotalIs ==
    ASSUME NEW T, IsFiniteSet(T), NEW S, S \subseteq T, NEW F, NEW g, Sums(F, T, g)
    PROVE  Total(F, S) = g[S]
<1> DEFINE G == CHOOSE h : Sums(F, S, h)
<1>1. Sums(F, S, G)
  BY FS_Subset, SumsExist
<1>2. G[S] = g[S]
  <2> HIDE DEF G
  <2> QED  BY <1>1, SumsAgree
<1> QED  BY <1>2 DEF Total

LEMMA TotalNone == ASSUME NEW F PROVE Total(F, {}) = 0
<1>1. PICK g : Sums(F, {}, g)
  BY SumsExist, FS_EmptySet
<1>2. Total(F, {}) = g[{}]
  BY <1>1, TotalIs, FS_EmptySet
<1> QED  BY <1>1, <1>2 DEF Sums

\* One element more is its share more.
LEMMA TotalMore ==
    ASSUME NEW S, IsFiniteSet(S), NEW F, NEW d, d \notin S, \A x \in S \cup {d} : F[x] \in Nat
    PROVE  /\ Total(F, S) \in Nat /\ Total(F, S \cup {d}) \in Nat /\ IsFiniteSet(S \cup {d})
           /\ Total(F, S \cup {d}) = F[d] + Total(F, S)
<1> DEFINE T == S \cup {d}
<1>1. IsFiniteSet(T) /\ d \in T /\ T \in SUBSET T /\ S \in SUBSET T
  BY FS_AddElement
<1>2. T \ {d} = S /\ \A x \in T : F[x] \in Nat
  OBVIOUS
<1> HIDE DEF T
<1>3. PICK g : Sums(F, T, g)
  BY <1>1, SumsExist
<1>4. \A s \in SUBSET T : g[s] \in Nat /\ \A x \in s : g[s] = F[x] + g[s \ {x}]
  BY <1>1, <1>2, <1>3, SumsAny
<1>5. Total(F, S) = g[S] /\ Total(F, T) = g[T]
  BY <1>1, <1>3, TotalIs
<1>6. g[T] = F[d] + g[S] /\ g[T] \in Nat /\ g[S] \in Nat
  BY <1>1, <1>2, <1>4
<1>7. /\ Total(F, S) \in Nat /\ Total(F, T) \in Nat /\ IsFiniteSet(T)
      /\ Total(F, T) = F[d] + Total(F, S)
  BY <1>1, <1>5, <1>6
<1> QED  BY <1>7 DEF T

LEMMA TotalSame ==
    ASSUME NEW S, IsFiniteSet(S), NEW F, NEW G, \A x \in S : F[x] = G[x]
    PROVE  Total(F, S) = Total(G, S)
<1>1. PICK g : Sums(F, S, g)
  BY SumsExist
<1>2. PICK h : Sums(G, S, h)
  BY SumsExist
<1>3. g[S] = h[S]
  BY <1>1, <1>2, SumsAgree
<1> QED  BY <1>1, <1>2, <1>3, TotalIs

LEMMA TotalType ==
    ASSUME NEW S, IsFiniteSet(S), NEW F, \A x \in S : F[x] \in Nat
    PROVE  Total(F, S) \in Nat
<1>1. PICK g : Sums(F, S, g)
  BY SumsExist
<1>2. g[S] \in Nat
  BY <1>1, SumsAny
<1> QED  BY <1>1, <1>2, TotalIs

\* A smallest set for which something is wrong is right without any of its elements.
LEMMA SmallestWrong ==
    ASSUME NEW T, IsFiniteSet(T), NEW A, A \subseteq SUBSET T, A # {}, {} \notin A
    PROVE  \E s \in SUBSET T, x \in T : x \notin s /\ s \notin A /\ s \cup {x} \in A
<1>1. PICK t \in A : \A s \in A : ~ (Cardinality(s) < Cardinality(t))
  BY SmallestSet
<1>2. PICK x \in t : TRUE
  OBVIOUS
<1>3. IsFiniteSet(t) /\ Cardinality(t) \in Nat
  BY FS_Subset, FS_CardinalityType
<1>4. Cardinality(t \ {x}) < Cardinality(t)
  <2>1. Cardinality(t \ {x}) = Cardinality(t) - 1
    BY <1>2, <1>3, FS_RemoveElement
  <2> QED  BY <1>3, <2>1
<1>5. t \ {x} \notin A /\ (t \ {x}) \cup {x} = t
  BY <1>1, <1>2, <1>4
<1>6. t \ {x} \in SUBSET T /\ x \in T /\ x \notin t \ {x} /\ (t \ {x}) \cup {x} \in A
  BY <1>1, <1>2, <1>5
<1> QED  BY <1>5, <1>6

\* Two sets without a common element.
LEMMA TotalSplit ==
    ASSUME NEW R, IsFiniteSet(R), NEW S, IsFiniteSet(S), R \cap S = {}, NEW F,
           \A x \in R \cup S : F[x] \in Nat
    PROVE  /\ Total(F, R \cup S) = Total(F, R) + Total(F, S)
           /\ Total(F, R) \in Nat /\ Total(F, S) \in Nat
<1> DEFINE Wrong == {s \in SUBSET S : Total(F, R \cup s) # Total(F, R) + Total(F, s)}
<1>1. Total(F, R) \in Nat /\ Total(F, S) \in Nat
  BY TotalType
<1>2. {} \notin Wrong
  <2>1. R \cup {} = R
    OBVIOUS
  <2> QED  BY <1>1, <2>1, TotalNone
<1>3. ASSUME NEW s \in SUBSET S, NEW x \in S, x \notin s, s \notin Wrong
      PROVE  s \cup {x} \notin Wrong
  <2>1. IsFiniteSet(s) /\ IsFiniteSet(R \cup s) /\ x \notin R \cup s /\ F[x] \in Nat
    BY <1>3, FS_Subset, FS_Union
  <2>2. /\ Total(F, s) \in Nat /\ Total(F, s \cup {x}) = F[x] + Total(F, s)
    BY <1>3, <2>1, TotalMore
  <2>3. Total(F, (R \cup s) \cup {x}) = F[x] + Total(F, R \cup s)
    BY <1>3, <2>1, TotalMore
  <2>4. Total(F, R \cup s) = Total(F, R) + Total(F, s)
    BY <1>3
  <2>5. (R \cup s) \cup {x} = R \cup (s \cup {x})
    OBVIOUS
  <2>6. Total(F, R \cup (s \cup {x})) = Total(F, R) + Total(F, s \cup {x})
    <3>1. Total(F, R \cup (s \cup {x})) = F[x] + (Total(F, R) + Total(F, s))
      BY <2>3, <2>4, <2>5
    <3>2. Total(F, R) \in Nat /\ Total(F, s) \in Nat /\ F[x] \in Nat
      BY <1>1, <2>1, <2>2
    <3>3. Total(F, s \cup {x}) = F[x] + Total(F, s)
      BY <2>2
    <3> QED  BY <3>1, <3>2, <3>3
  <2> QED  BY <2>6
<1>4. Wrong = {}
  <2>1. Wrong \subseteq SUBSET S
    OBVIOUS
  <2> HIDE DEF Wrong
  <2> QED  BY <1>2, <1>3, <2>1, SmallestWrong
<1> QED  BY <1>1, <1>4

\* The sum over the images of a set under a function that makes no two elements one.
LEMMA TotalImage ==
    ASSUME NEW S, IsFiniteSet(S), NEW f, \A x, y \in S : f[x] = f[y] => x = y,
           NEW F, NEW G, \A x \in S : G[x] = F[f[x]] /\ F[f[x]] \in Nat
    PROVE  /\ Total(G, S) = Total(F, {f[x] : x \in S})
           /\ IsFiniteSet({f[x] : x \in S})
<1> DEFINE Image(s) == {f[x] : x \in s}
           Wrong == {s \in SUBSET S : ~ (Total(G, s) = Total(F, Image(s)) /\ IsFiniteSet(Image(s)))}
<1>1. {} \notin Wrong
  <2>1. Image({}) = {}
    OBVIOUS
  <2> HIDE DEF Image
  <2> QED  BY <2>1, TotalNone, FS_EmptySet
<1>2. ASSUME NEW s \in SUBSET S, NEW x \in S, x \notin s, s \notin Wrong
      PROVE  s \cup {x} \notin Wrong
  <2>1. Image(s \cup {x}) = Image(s) \cup {f[x]} /\ f[x] \notin Image(s)
    BY <1>2
  <2>2. \A y \in Image(s) \cup {f[x]} : F[y] \in Nat
    OBVIOUS
  <2>3. Total(G, s) = Total(F, Image(s)) /\ IsFiniteSet(Image(s))
    BY <1>2
  <2>4. IsFiniteSet(s) /\ \A y \in s \cup {x} : G[y] \in Nat
    BY FS_Subset
  <2> HIDE DEF Image
  <2>5. Total(G, s \cup {x}) = G[x] + Total(G, s)
    BY <1>2, <2>4, TotalMore
  <2>6. /\ Total(F, Image(s) \cup {f[x]}) = F[f[x]] + Total(F, Image(s))
        /\ IsFiniteSet(Image(s) \cup {f[x]})
    BY <2>1, <2>2, <2>3, TotalMore
  <2>7. /\ Total(G, s \cup {x}) = Total(F, Image(s \cup {x}))
        /\ IsFiniteSet(Image(s \cup {x}))
    BY <2>1, <2>3, <2>5, <2>6
  <2> QED  BY <2>7
<1>3. Wrong = {}
  <2>1. Wrong \subseteq SUBSET S
    OBVIOUS
  <2> HIDE DEF Wrong
  <2> QED  BY <1>1, <1>2, <2>1, SmallestWrong
<1>4. S \notin Wrong
  <2> HIDE DEF Wrong
  <2> QED BY <1>3
<1> QED  BY <1>4

----------------------------------------------------------------------------
(* The intervals the trackers hold *)

Intervals(table) == [s \in DOMAIN table |-> Cardinality(table[s].missing)]

\* The library's sum, here and in two more places, is the total above.
LEMMA HeldIs ==
    ASSUME NEW table, NEW n \in Nat
    PROVE  Held(table, n) =
             Total([i \in 1 .. n |-> Cardinality(table[stream_insertion_order[i]].missing)], 1 .. n)
<1> DEFINE F == [i \in 1 .. n |-> Cardinality(table[stream_insertion_order[i]].missing)]
           Step(g, s) == IF s = {} THEN 0
                         ELSE Cardinality(table[stream_insertion_order[First(s)]].missing)
                                 + g[s \ {First(s)}]
           G == CHOOSE g : g = [s \in SUBSET (1 .. n) |-> Step(g, s)]
<1>0. IsFiniteSet(1 .. n)
  BY FS_Interval
<1>1. \A s \in SUBSET (1 .. n) : s # {} =>
         F[First(s)] = Cardinality(table[stream_insertion_order[First(s)]].missing)
  BY FirstIn
<1>2. \A g : Sums(F, 1 .. n, g) <=> g = [s \in SUBSET (1 .. n) |-> Step(g, s)]
  <2> HIDE DEF F
  <2> QED  BY <1>1 DEF Sums
<1>3. \E g : Sums(F, 1 .. n, g)
  BY <1>0, SumsExist
<1>4. Sums(F, 1 .. n, G)
  <2> HIDE DEF F, Step
  <2> QED  BY <1>2, <1>3
<1>5. Held(table, n) = G[1 .. n]
  BY DEF Held, MapThenSumSet, MapThenFoldSet, First
<1> HIDE DEF F, G
<1>6. Total(F, 1 .. n) = G[1 .. n]
  BY <1>0, <1>4, TotalIs
<1> QED  BY <1>5, <1>6 DEF F

LEMMA CountIs ==
    ASSUME NEW D, IsFiniteSet(D), D = DOMAIN trackers
    PROVE  MapThenSumSet(LAMBDA s : Cardinality(trackers[s].missing), DOMAIN trackers)
              = Total(Intervals(trackers), D)
<1> DEFINE F == Intervals(trackers)
           Step(g, s) == IF s = {} THEN 0
                         ELSE Cardinality(trackers[First(s)].missing) + g[s \ {First(s)}]
           G == CHOOSE g : g = [s \in SUBSET D |-> Step(g, s)]
<1>1. \A s \in SUBSET D : s # {} => F[First(s)] = Cardinality(trackers[First(s)].missing)
  BY FirstIn DEF Intervals
<1>2. \A g : Sums(F, D, g) <=> g = [s \in SUBSET D |-> Step(g, s)]
  <2> HIDE DEF F
  <2> QED  BY <1>1 DEF Sums
<1>3. \E g : Sums(F, D, g)
  BY SumsExist
<1>4. Sums(F, D, G)
  <2> HIDE DEF F, Step
  <2> QED  BY <1>2, <1>3
<1>5. MapThenSumSet(LAMBDA s : Cardinality(trackers[s].missing), DOMAIN trackers) = G[D]
  BY DEF MapThenSumSet, MapThenFoldSet, First
<1> HIDE DEF F, G
<1>6. Total(F, D) = G[D]
  BY <1>4, TotalIs
<1> QED  BY <1>5, <1>6 DEF F

\* The order of the trackers lists each once, and the count is that of the intervals they hold.
StorageInv ==
    /\ stream_insertion_order \in Seq(Streams) /\ Len(stream_insertion_order) <= Capacity
    /\ \A i, j \in 1 .. Len(stream_insertion_order) :
          stream_insertion_order[i] = stream_insertion_order[j] => i = j
    /\ {stream_insertion_order[i] : i \in 1 .. Len(stream_insertion_order)} = DOMAIN trackers
    /\ missing_interval_count = Total(Intervals(trackers), DOMAIN trackers)
    /\ missing_interval_count <= Capacity

Oldest(n) == {stream_insertion_order[i] : i \in 1 .. n}

LEMMA OrderFacts ==
    ASSUME StorageInv
    PROVE  LET len == Len(stream_insertion_order) IN
           /\ len \in Nat /\ Capacity \in Nat /\ Capacity > 0
           /\ IsFiniteSet(DOMAIN trackers) /\ Cardinality(DOMAIN trackers) = len
           /\ Oldest(len) = DOMAIN trackers
           /\ \A n \in 0 .. len : Oldest(n) \subseteq DOMAIN trackers /\ IsFiniteSet(Oldest(n))
<1> DEFINE len == Len(stream_insertion_order)
           f == [i \in 1 .. len |-> stream_insertion_order[i]]
<1>1. len \in Nat /\ Capacity \in Nat /\ Capacity > 0
  BY LenProperties, CapacityAssumption DEF StorageInv
<1>2. Oldest(len) = DOMAIN trackers
  BY DEF StorageInv, Oldest
<1>3. f \in Bijection(1 .. len, DOMAIN trackers)
  <2>1. f \in [1 .. len -> DOMAIN trackers]
    BY DEF StorageInv
  <2>2. \A i, j \in 1 .. len : f[i] = f[j] => i = j
    BY DEF StorageInv
  <2>3. \A s \in DOMAIN trackers : \E i \in 1 .. len : f[i] = s
    BY DEF StorageInv
  <2> HIDE DEF f, len
  <2> QED  BY <2>1, <2>2, <2>3 DEF Bijection, Injection, Surjection, IsInjective
<1>4. IsFiniteSet(DOMAIN trackers) /\ Cardinality(DOMAIN trackers) = len
  <2>1. IsFiniteSet(1 .. len) /\ Cardinality(1 .. len) = len
    <3> HIDE DEF len
    <3>1. Cardinality(1 .. len) = IF 1 > len THEN 0 ELSE len - 1 + 1
      BY <1>1, FS_Interval
    <3> QED  BY <1>1, <3>1, FS_Interval
  <2>2. ExistsBijection(1 .. len, DOMAIN trackers)
    BY <1>3 DEF ExistsBijection
  <2> HIDE DEF f, len
  <2> QED  BY <2>1, <2>2, FS_Bijection
<1>5. \A n \in 0 .. len : Oldest(n) \subseteq Oldest(len)
  BY <1>1 DEF Oldest
<1> QED  BY <1>1, <1>2, <1>4, <1>5, FS_Subset

\* What the oldest trackers hold, and what the others do.
LEMMA HeldOldest ==
    ASSUME StorageInv, NEW table, DOMAIN table = DOMAIN trackers,
           \A s \in DOMAIN trackers : IsFiniteSet(table[s].missing),
           NEW n \in 0 .. Len(stream_insertion_order)
    PROVE  /\ Held(table, n) = Total(Intervals(table), Oldest(n)) /\ Held(table, n) \in Nat
           /\ Total(Intervals(table), DOMAIN trackers \ Oldest(n)) \in Nat
           /\ Total(Intervals(table), DOMAIN trackers)
                 = Held(table, n) + Total(Intervals(table), DOMAIN trackers \ Oldest(n))
<1> DEFINE len == Len(stream_insertion_order)
           F == Intervals(table)
           D == DOMAIN trackers
           f == [i \in 1 .. n |-> stream_insertion_order[i]]
           G == [i \in 1 .. n |-> Cardinality(table[stream_insertion_order[i]].missing)]
<1>1. n \in Nat /\ IsFiniteSet(1 .. n) /\ \A i \in 1 .. n : i \in 1 .. len
  BY OrderFacts, FS_Interval
<1>2. \A s \in D : F[s] \in Nat /\ F[s] = Cardinality(table[s].missing)
  BY FS_CardinalityType DEF Intervals
<1>3. \A i \in 1 .. n : f[i] \in D /\ f[i] = stream_insertion_order[i]
  BY <1>1 DEF StorageInv
<1>4. \A x, y \in 1 .. n : f[x] = f[y] => x = y
  BY <1>1 DEF StorageInv
<1>5. \A i \in 1 .. n : G[i] = F[f[i]] /\ F[f[i]] \in Nat
  BY <1>2, <1>3
<1>6. {f[i] : i \in 1 .. n} = Oldest(n)
  BY DEF Oldest
<1>7. Held(table, n) = Total(G, 1 .. n)
  BY <1>1, HeldIs
<1>8. Held(table, n) = Total(F, Oldest(n))
  <2> HIDE DEF F, f, G
  <2>1. Total(G, 1 .. n) = Total(F, {f[i] : i \in 1 .. n})
    BY <1>1, <1>4, <1>5, TotalImage
  <2> QED  BY <1>6, <1>7, <2>1
<1>9. /\ IsFiniteSet(D) /\ Oldest(n) \subseteq D /\ IsFiniteSet(Oldest(n)) /\ IsFiniteSet(D \ Oldest(n))
      /\ Oldest(n) \cup (D \ Oldest(n)) = D /\ Oldest(n) \cap (D \ Oldest(n)) = {}
  BY OrderFacts, FS_Subset
<1> HIDE DEF F, D
<1>10. /\ Total(F, D) = Total(F, Oldest(n)) + Total(F, D \ Oldest(n))
       /\ Total(F, Oldest(n)) \in Nat /\ Total(F, D \ Oldest(n)) \in Nat
  <2>1. \A x \in Oldest(n) \cup (D \ Oldest(n)) : F[x] \in Nat
    BY <1>2, <1>9
  <2> QED  BY <1>9, <2>1, TotalSplit
<1> QED  BY <1>8, <1>10 DEF F, D

\* The order without the oldest.
LEMMA OrderShift ==
    ASSUME StorageInv, NEW n \in 0 .. Len(stream_insertion_order)
    PROVE  LET rest == SubSeq(stream_insertion_order, n + 1, Len(stream_insertion_order)) IN
           /\ rest \in Seq(Streams) /\ Len(rest) = Len(stream_insertion_order) - n
           /\ \A i, j \in 1 .. Len(rest) : rest[i] = rest[j] => i = j
           /\ {rest[i] : i \in 1 .. Len(rest)} = DOMAIN trackers \ Oldest(n)
<1> DEFINE order == stream_insertion_order
           len == Len(order)
           rest == SubSeq(order, n + 1, len)
<1>1. len \in Nat /\ n \in Nat /\ n <= len
  BY OrderFacts
<1>2. /\ order \in Seq(Streams) /\ \A i, j \in 1 .. len : order[i] = order[j] => i = j
      /\ {order[i] : i \in 1 .. len} = DOMAIN trackers
  BY DEF StorageInv
<1>3. /\ rest \in Seq(Streams) /\ Len(rest) = len - n
      /\ \A i \in 1 .. len - n : rest[i] = order[n + i]
  <2> HIDE DEF order
  <2>1. \A i \in n + 1 .. len : i \in 1 .. len
    BY <1>1
  <2>2. /\ rest \in Seq(Streams)
        /\ Len(rest) = IF n + 1 <= len THEN len - (n + 1) + 1 ELSE 0
        /\ \A i \in 1 .. len - (n + 1) + 1 : rest[i] = order[n + 1 + i - 1]
    BY <1>1, <1>2, <2>1, SubSeqProperties
  <2> HIDE DEF rest, len
  <2>3. len - (n + 1) + 1 = len - n /\ \A i \in 1 .. len - n : n + 1 + i - 1 = n + i
    BY <1>1
  <2> QED  BY <1>1, <2>2, <2>3
<1> HIDE DEF rest, order, len
<1>4. \A i \in 1 .. len - n : n + i \in 1 .. len
  BY <1>1
<1>5. \A i, j \in 1 .. Len(rest) : rest[i] = rest[j] => i = j
  <2> SUFFICES ASSUME NEW i \in 1 .. len - n, NEW j \in 1 .. len - n, rest[i] = rest[j]
               PROVE  i = j
    BY <1>3
  <2>1. n + i = n + j
    BY <1>2, <1>3, <1>4
  <2> QED  BY <1>1, <2>1
<1>6. {rest[i] : i \in 1 .. Len(rest)} = {order[k] : k \in n + 1 .. len}
  <2>1. \A i \in 1 .. len - n : n + i \in n + 1 .. len
    BY <1>1
  <2>2. \A k \in n + 1 .. len : k - n \in 1 .. len - n /\ n + (k - n) = k
    BY <1>1
  <2> QED  BY <1>3, <2>1, <2>2
<1>7. {order[k] : k \in n + 1 .. len} = DOMAIN trackers \ Oldest(n)
  <2>1. \A k \in 1 .. len : k \in 1 .. n \/ k \in n + 1 .. len
    BY <1>1
  <2>2. \A k \in n + 1 .. len : k \in 1 .. len /\ k \notin 1 .. n
    BY <1>1
  <2>3. \A k \in 1 .. n : k \in 1 .. len
    BY <1>1
  <2>4. Oldest(n) = {order[i] : i \in 1 .. n}
    BY DEF Oldest, order
  <2> QED  BY <1>2, <2>1, <2>2, <2>3, <2>4
<1> QED  BY <1>3, <1>5, <1>6, <1>7 DEF rest, len, order

\* So many trackers can go that the intervals fit: all of them would do.
LEMMA ExcessIs ==
    ASSUME StorageInv, NEW table, DOMAIN table = DOMAIN trackers,
           \A s \in DOMAIN trackers : IsFiniteSet(table[s].missing),
           NEW count, count = Total(Intervals(table), DOMAIN trackers)
    PROVE  /\ Excess(table, count) \in 0 .. Len(stream_insertion_order)
           /\ count - Held(table, Excess(table, count)) <= Capacity
<1> DEFINE len == Len(stream_insertion_order)
           Fits(n) == count - Held(table, n) <= Capacity
           Good == {n \in 0 .. len : Fits(n)}
           R == OpToRel(<, Nat)
<1>1. len \in Nat /\ Capacity \in Nat /\ Oldest(len) = DOMAIN trackers
  BY OrderFacts
<1>2. len \in Good
  <2>1. Held(table, len) = count /\ count \in Nat
    <3>1. len \in 0 .. len
      BY <1>1
    <3>2. /\ Held(table, len) = Total(Intervals(table), Oldest(len))
          /\ Held(table, len) \in Nat
      BY <3>1, HeldOldest
    <3> QED  BY <1>1, <3>2
  <2> QED  BY <1>1, <2>1
<1>3. PICK n \in Good : \A m \in Good : ~ (<<m, n>> \in R)
  <2>1. Good \subseteq Nat /\ Good # {}
    BY <1>1, <1>2
  <2> HIDE DEF Good
  <2> QED  BY <2>1, NatLessThanWellFounded, WFMin
<1>4. n \in 0 .. len /\ Fits(n) /\ \A m \in Good : ~ (m < n)
  <2>1. \A m \in Good : m \in Nat
    BY <1>1
  <2>2. \A m \in Good : ~ (m < n)
    <3> HIDE DEF Good
    <3> QED  BY <1>3, <2>1 DEF OpToRel
  <2> QED  BY <1>3, <2>2
<1>5. \A m \in 0 .. n - 1 : count - Held(table, m) > Capacity
  <2> SUFFICES ASSUME NEW m \in 0 .. n - 1 PROVE count - Held(table, m) > Capacity
    OBVIOUS
  <2>1. m \in 0 .. len /\ m < n
    BY <1>1, <1>4
  <2>2. ~ Fits(m)
    <3> HIDE DEF Fits
    <3> QED  BY <1>4, <2>1
  <2>3. Held(table, m) \in Nat /\ count \in Nat
    <3>1. Held(table, m) \in Nat
      BY <2>1, HeldOldest
    <3>2. len \in 0 .. len
      BY <1>1
    <3>3. Held(table, len) = count /\ Held(table, len) \in Nat
      BY <1>1, <3>2, HeldOldest
    <3> QED  BY <3>1, <3>3
  <2> QED  BY <1>1, <2>2, <2>3
<1>6. \E k \in 0 .. len :
         /\ count - Held(table, k) <= Capacity
         /\ \A m \in 0 .. k - 1 : count - Held(table, m) > Capacity
  BY <1>4, <1>5
<1> QED  BY <1>6 DEF Excess

LEMMA ExactFinite ==
    ASSUME NEW t, NEW seen, Exact(t, seen)
    PROVE  IsFiniteSet(t.missing) /\ Cardinality(t.missing) \in Nat
<1> DEFINE Ends == 0 .. CountMax
           f == [p \in Ends \X Ends |-> [first |-> p[1], last |-> p[2]]]
<1>1. IsFiniteSet(Ends \X Ends)
  <2>1. IsFiniteSet(Ends)
    BY SequencesAre, FS_Interval
  <2> QED  BY <2>1, FS_Product
<1>2. f \in Surjection(Ends \X Ends, Holes)
  <2>1. f \in [Ends \X Ends -> Holes]
    BY DEF Holes
  <2>2. ASSUME NEW h \in Holes PROVE \E p \in Ends \X Ends : f[p] = h
    <3>1. <<h.first, h.last>> \in Ends \X Ends /\ h = [first |-> h.first, last |-> h.last]
      BY DEF Holes
    <3>2. f[<<h.first, h.last>>] = h
      BY <3>1
    <3> QED  BY <3>1, <3>2
  <2> HIDE DEF f
  <2> QED  BY <2>1, <2>2 DEF Surjection
<1>3. IsFiniteSet(Holes)
  BY <1>1, <1>2, FS_Surjection
<1>4. t.missing \subseteq Holes
  BY DEF Exact, Trackers, Holes
<1> QED  BY <1>3, <1>4, FS_Subset, FS_CardinalityType

\* A new stream's tracker takes the place of the oldest, if all places are taken.
LEMMA StorageNew ==
    ASSUME StorageInv, TrackInv, NEW stream \in Streams, NEW sequence, NEW n,
           stream \notin DOMAIN trackers, TrackNew(stream, sequence, n)
    PROVE  StorageInv' /\ n \in Nat /\ (n = 0 => DOMAIN trackers' = DOMAIN trackers \cup {stream})
<1> DEFINE order == stream_insertion_order
           len == Len(order)
           rest == SubSeq(order, n + 1, len)
           D == DOMAIN trackers
           kept == D \ Oldest(n)
           F == Intervals(trackers)
           G == Intervals(trackers')
<1>1. /\ len \in Nat /\ Capacity \in Nat /\ Capacity > 0 /\ Cardinality(D) = len /\ IsFiniteSet(D)
      /\ len <= Capacity
  BY OrderFacts DEF StorageInv
<1>2. n = (IF len = Capacity THEN 1 ELSE 0) /\ n \in 0 .. len
  BY <1>1 DEF TrackNew
<1>3. /\ rest \in Seq(Streams) /\ Len(rest) = len - n
      /\ \A i, j \in 1 .. Len(rest) : rest[i] = rest[j] => i = j
      /\ {rest[i] : i \in 1 .. Len(rest)} = kept
  BY <1>2, OrderShift
<1>4. /\ trackers' = [s \in kept \cup {stream} |->
                         IF s = stream THEN NewTracker(sequence) ELSE trackers[s]]
      /\ missing_interval_count' = missing_interval_count - Held(trackers, n)
      /\ order' = Append(rest, stream)
  BY DEF TrackNew, Oldest
<1>5. /\ DOMAIN trackers' = kept \cup {stream} /\ stream \notin kept
      /\ trackers'[stream].missing = {} /\ \A s \in kept : trackers'[s] = trackers[s]
  BY <1>4 DEF NewTracker
<1>6. \A s \in D : IsFiniteSet(trackers[s].missing) /\ F[s] \in Nat
  BY ExactFinite DEF TrackInv, Intervals
<1>7. /\ Held(trackers, n) \in Nat /\ Total(F, kept) \in Nat
      /\ Total(F, D) = Held(trackers, n) + Total(F, kept)
  BY <1>2, <1>6, HeldOldest
<1>8. G[stream] = 0 /\ \A s \in kept : G[s] = F[s] /\ G[s] \in Nat
  BY <1>5, <1>6, FS_EmptySet DEF Intervals
<1>9. Total(G, DOMAIN trackers') = Total(F, kept)
  <2>1. IsFiniteSet(kept)
    BY <1>1, FS_Subset
  <2> HIDE DEF G, F, kept
  <2>2. Total(G, kept) = Total(F, kept)
    BY <1>8, <2>1, TotalSame
  <2>3. \A s \in kept \cup {stream} : G[s] \in Nat
    BY <1>8
  <2>4. Total(G, kept \cup {stream}) = G[stream] + Total(G, kept)
    BY <1>5, <2>1, <2>3, TotalMore
  <2> QED  BY <1>5, <1>7, <1>8, <2>2, <2>4
<1>10. missing_interval_count = Total(F, D) /\ missing_interval_count <= Capacity
  BY DEF StorageInv
<1>11. /\ missing_interval_count' = Total(G, DOMAIN trackers')
       /\ missing_interval_count' <= Capacity
  <2> HIDE DEF F, G, D, kept
  <2> QED  BY <1>1, <1>4, <1>7, <1>9, <1>10
<1>12. /\ order' \in Seq(Streams) /\ Len(order') = Len(rest) + 1
       /\ \A i \in 1 .. Len(rest) : order'[i] = rest[i]
       /\ order'[Len(rest) + 1] = stream
  <2> HIDE DEF rest
  <2> QED  BY <1>3, <1>4, AppendProperties
<1>13. Len(order') <= Capacity
  <2> HIDE DEF rest, len
  <2> QED  BY <1>1, <1>2, <1>3, <1>12
<1>14. Len(rest) \in Nat /\ \A i \in 1 .. Len(rest) : rest[i] \in kept
  BY <1>3, LenProperties
<1>15. /\ \A i, j \in 1 .. Len(order') : order'[i] = order'[j] => i = j
       /\ {order'[i] : i \in 1 .. Len(order')} = DOMAIN trackers'
  <2> HIDE DEF rest, order, kept
  <2>1. \A i \in 1 .. Len(order') : i \in 1 .. Len(rest) \/ i = Len(rest) + 1
    BY <1>12, <1>14
  <2>2. \A i \in 1 .. Len(rest) : i \in 1 .. Len(order')
    BY <1>12, <1>14
  <2>3. Len(rest) + 1 \in 1 .. Len(order')
    BY <1>12, <1>14
  <2>4. ASSUME NEW i \in 1 .. Len(order'), NEW j \in 1 .. Len(order'), order'[i] = order'[j]
        PROVE  i = j
    BY <1>3, <1>5, <1>12, <1>14, <2>1, <2>4
  <2>5. {order'[i] : i \in 1 .. Len(order')} = {rest[i] : i \in 1 .. Len(rest)} \cup {stream}
    BY <1>12, <2>1, <2>2, <2>3
  <2> QED  BY <1>3, <1>5, <2>4, <2>5
<1>16. n = 0 => DOMAIN trackers' = D \cup {stream}
  <2>1. n = 0 => Oldest(n) = {}
    BY DEF Oldest
  <2> QED  BY <1>5, <2>1
<1>17. StorageInv'
  BY <1>11, <1>12, <1>13, <1>15 DEF StorageInv
<1> QED  BY <1>2, <1>16, <1>17

\* A known stream's tracker changes its intervals, and the oldest trackers go until all fit.
LEMMA StorageKnown ==
    ASSUME StorageInv, TrackInv, NEW stream \in DOMAIN trackers, NEW sequence \in Sequences_,
           NEW n, TrackKnown(stream, sequence, n)
    PROVE  StorageInv' /\ n \in Nat /\ (n = 0 => DOMAIN trackers' = DOMAIN trackers)
<1> DEFINE order == stream_insertion_order
           len == Len(order)
           D == DOMAIN trackers
           table == [trackers EXCEPT ![stream] = Observe(trackers[stream], sequence)]
           count == missing_interval_count - Cardinality(trackers[stream].missing)
                       + Cardinality(table[stream].missing)
           F == Intervals(trackers)
           G == Intervals(table)
           H == Intervals(trackers')
<1>1. len \in Nat /\ Capacity \in Nat /\ IsFiniteSet(D) /\ len <= Capacity
  BY OrderFacts DEF StorageInv
<1>2. /\ n = Excess(table, count)
      /\ trackers' = Restrict(table, DOMAIN table \ Oldest(n))
      /\ missing_interval_count' = count - Held(table, n)
      /\ order' = SubSeq(order, n + 1, len)
  BY DEF TrackKnown, Evict, Oldest
<1>3. /\ DOMAIN table = D /\ table[stream] = Observe(trackers[stream], sequence)
      /\ \A s \in D : s # stream => table[s] = trackers[s]
  BY DEF TrackInv
<1> HIDE DEF table
<1>4. \A s \in D : IsFiniteSet(trackers[s].missing)
  BY ExactFinite DEF TrackInv
<1>5. IsFiniteSet(table[stream].missing)
  <2>1. Exact(trackers[stream], since[stream]) /\ since[stream] \in SUBSET Sequences_
    BY DEF TrackInv
  <2> QED  BY <1>3, <2>1, ObserveExact, ExactFinite
<1>6. \A s \in D : IsFiniteSet(table[s].missing)
  BY <1>3, <1>4, <1>5
<1>7. /\ \A s \in D : F[s] \in Nat /\ G[s] \in Nat /\ (s # stream => F[s] = G[s])
      /\ F[stream] = Cardinality(trackers[stream].missing)
      /\ G[stream] = Cardinality(table[stream].missing)
  BY <1>3, <1>4, <1>6, FS_CardinalityType DEF Intervals
<1>8. missing_interval_count = Total(F, D)
  BY DEF StorageInv
<1>9. count = Total(G, D)
  <2> DEFINE E == D \ {stream}
  <2>1. E \cup {stream} = D /\ stream \notin E /\ IsFiniteSet(E) /\ \A s \in E : s \in D /\ s # stream
    BY <1>1, FS_Subset
  <2> HIDE DEF E, F, G, D
  <2>2. Total(F, D) = F[stream] + Total(F, E) /\ Total(F, E) \in Nat
    BY <1>7, <2>1, TotalMore
  <2>3. Total(G, D) = G[stream] + Total(G, E)
    BY <1>7, <2>1, TotalMore
  <2>4. Total(F, E) = Total(G, E)
    BY <1>7, <2>1, TotalSame
  <2>5. F[stream] \in Nat /\ G[stream] \in Nat
    BY <1>7, <2>1
  <2>6. count = (F[stream] + Total(F, E)) - F[stream] + G[stream]
    BY <1>7, <1>8, <2>2
  <2> QED  BY <2>2, <2>3, <2>4, <2>5, <2>6
<1> HIDE DEF count
<1>10. n \in 0 .. len /\ count - Held(table, n) <= Capacity
  <2>1. DOMAIN table = DOMAIN trackers /\ \A s \in DOMAIN trackers : IsFiniteSet(table[s].missing)
    BY <1>3, <1>6
  <2>2. count = Total(Intervals(table), DOMAIN trackers)
    BY <1>9
  <2>3. /\ Excess(table, count) \in 0 .. len
        /\ count - Held(table, Excess(table, count)) <= Capacity
    BY <2>1, <2>2, ExcessIs
  <2> QED  BY <1>2, <2>3
<1> DEFINE kept == D \ Oldest(n)
<1>11. /\ trackers' = [s \in kept |-> table[s]]
       /\ DOMAIN trackers' = kept /\ \A s \in kept : trackers'[s] = table[s]
  BY <1>2, <1>3 DEF Restrict
<1>12. /\ Held(table, n) \in Nat /\ Total(G, kept) \in Nat
       /\ Total(G, D) = Held(table, n) + Total(G, kept)
  BY <1>3, <1>6, <1>10, HeldOldest
<1>13. Total(H, kept) = Total(G, kept)
  <2>1. IsFiniteSet(kept) /\ \A s \in kept : H[s] = G[s]
    BY <1>1, <1>3, <1>11, FS_Subset DEF Intervals
  <2> HIDE DEF H, G, kept
  <2> QED  BY <2>1, TotalSame
<1>14. missing_interval_count' = Total(H, DOMAIN trackers') /\ missing_interval_count' <= Capacity
  <2> HIDE DEF H, G, kept, D
  <2> QED  BY <1>2, <1>9, <1>10, <1>11, <1>12, <1>13
<1>15. /\ order' \in Seq(Streams) /\ Len(order') = len - n
       /\ \A i, j \in 1 .. Len(order') : order'[i] = order'[j] => i = j
       /\ {order'[i] : i \in 1 .. Len(order')} = kept
  BY <1>2, <1>10, OrderShift
<1>16. Len(order') <= Capacity
  <2> HIDE DEF len
  <2> QED  BY <1>1, <1>10, <1>15
<1>17. n = 0 => kept = D
  BY DEF Oldest
<1>18. StorageInv'
  BY <1>11, <1>14, <1>15, <1>16 DEF StorageInv
<1>19. n \in Nat
  BY <1>1, <1>10
<1> QED  BY <1>11, <1>17, <1>18, <1>19

LEMMA StorageInit == Init => StorageInv
<1> SUFFICES ASSUME Init PROVE StorageInv
  OBVIOUS
<1>1. /\ stream_insertion_order = <<>> /\ missing_interval_count = 0 /\ DOMAIN trackers = {}
  BY DEF Init
<1>2. Len(stream_insertion_order) = 0 /\ stream_insertion_order \in Seq(Streams)
  BY <1>1, EmptySeq
<1>3. Total(Intervals(trackers), DOMAIN trackers) = 0
  BY <1>1, TotalNone
<1> QED  BY <1>1, <1>2, <1>3, CapacityAssumption DEF StorageInv

\* What Stats and the limits on storage rest on.
LEMMA StorageBounded ==
    ASSUME StorageInv
    PROVE  TrackersBounded
<1>1. /\ IsFiniteSet(DOMAIN trackers)
      /\ Len(stream_insertion_order) = Cardinality(DOMAIN trackers)
      /\ Cardinality(DOMAIN trackers) <= Capacity
      /\ missing_interval_count <= Capacity
  BY OrderFacts DEF StorageInv
<1>2. {stream_insertion_order[i] : i \in DOMAIN stream_insertion_order} = DOMAIN trackers
  <2>1. DOMAIN stream_insertion_order = 1 .. Len(stream_insertion_order)
    BY LenProperties DEF StorageInv
  <2> QED  BY <2>1 DEF StorageInv
<1>3. missing_interval_count
         = MapThenSumSet(LAMBDA s : Cardinality(trackers[s].missing), DOMAIN trackers)
  BY <1>1, CountIs DEF StorageInv
<1> QED  BY <1>1, <1>2, <1>3 DEF TrackersBounded

----------------------------------------------------------------------------
(* The numbers that are missing *)

Width == [h \in Holes |-> h.last - h.first + 1]
Covered(m) == UNION {Numbers(h) : h \in m}

LEMMA HoleWidth ==
    ASSUME NEW t, NEW seen, Exact(t, seen), NEW h \in t.missing
    PROVE  /\ h.first \in Int /\ h.last \in Int /\ Width[h] \in Nat
           /\ IsFiniteSet(Numbers(h)) /\ Cardinality(Numbers(h)) = Width[h]
<1>1. h \in Holes /\ h.first <= h.last
  BY DEF Exact, Trackers, Holes
<1>2. h.first \in Int /\ h.last \in Int /\ Width[h] = h.last - h.first + 1
  BY <1>1, SequencesAre DEF Holes, Width
<1>3. /\ IsFiniteSet(h.first .. h.last)
      /\ Cardinality(h.first .. h.last) = IF h.first > h.last THEN 0 ELSE h.last - h.first + 1
  BY <1>2, FS_Interval
<1> QED  BY <1>1, <1>2, <1>3 DEF Numbers

\* The holes of a tracker have no number in common, so their widths add up.
LEMMA WidthsAre ==
    ASSUME NEW t, NEW seen, Exact(t, seen)
    PROVE  /\ IsFiniteSet(Covered(t.missing))
           /\ Total(Width, t.missing) = Cardinality(Covered(t.missing))
<1> DEFINE M == t.missing
           Right(m) == IsFiniteSet(Covered(m)) /\ Total(Width, m) = Cardinality(Covered(m))
           Wrong == {m \in SUBSET M : ~ Right(m)}
<1>0. IsFiniteSet(M)
  BY ExactFinite
<1>1. {} \notin Wrong
  BY TotalNone, FS_EmptySet DEF Covered
<1>2. ASSUME NEW m \in SUBSET M, NEW x \in M, x \notin m, m \notin Wrong
      PROVE  m \cup {x} \notin Wrong
  <2>1. Covered(m \cup {x}) = Covered(m) \cup Numbers(x)
    BY DEF Covered
  <2>2. Covered(m) \cap Numbers(x) = {}
    <3> SUFFICES ASSUME NEW h \in m PROVE Numbers(h) \cap Numbers(x) = {}
      BY DEF Covered
    <3>1. h.last + 1 < x.first \/ x.last + 1 < h.first
      BY <1>2 DEF Exact
    <3>2. h.first \in Int /\ h.last \in Int /\ x.first \in Int /\ x.last \in Int
      BY HoleWidth
    <3> QED  BY <3>1, <3>2 DEF Numbers
  <2>3. IsFiniteSet(Covered(m)) /\ Total(Width, m) = Cardinality(Covered(m))
    BY <1>2
  <2>4. IsFiniteSet(Numbers(x)) /\ Cardinality(Numbers(x)) = Width[x]
    BY HoleWidth
  <2>5. /\ IsFiniteSet(Covered(m) \cup Numbers(x))
        /\ Cardinality(Covered(m) \cup Numbers(x)) = Cardinality(Covered(m)) + Width[x] - Cardinality({})
    BY <2>2, <2>3, <2>4, FS_Union
  <2>6. IsFiniteSet(m) /\ \A h \in m \cup {x} : Width[h] \in Nat
    BY <1>0, FS_Subset, HoleWidth
  <2>7. Total(Width, m \cup {x}) = Width[x] + Total(Width, m) /\ Total(Width, m) \in Nat
    BY <1>2, <2>6, TotalMore
  <2>8. Cardinality({}) = 0 /\ Width[x] \in Nat
    BY FS_EmptySet, HoleWidth
  <2>9. Cardinality(Covered(m) \cup Numbers(x)) = Width[x] + Total(Width, m)
    BY <2>3, <2>5, <2>7, <2>8
  <2> QED  BY <2>1, <2>5, <2>7, <2>9
<1>3. Wrong = {}
  <2>1. Wrong \subseteq SUBSET M
    OBVIOUS
  <2> HIDE DEF Wrong, M
  <2> QED  BY <1>0, <1>1, <1>2, <2>1, SmallestWrong
<1>4. M \notin Wrong
  BY <1>3
<1> QED  BY <1>4

\* They are the numbers absent between the lowest and the highest that arrived.
LEMMA AbsentIs ==
    ASSUME NEW t, NEW s \in Streams, received[s] \in SUBSET Sequences_, Exact(t, received[s])
    PROVE  Absent(s) = Covered(t.missing)
<1> DEFINE seen == received[s]
<1>1. /\ \A q \in Sequences_ : q \in Int /\ q \in Nat /\ q <= CountMax
      /\ CountMax \in Nat
  <2>1. CountMax \in Nat /\ \A q \in Sequences_ : q \in 0 .. CountMax
    BY SequencesAre
  <2>2. \A q \in 0 .. CountMax : q \in Int /\ q \in Nat /\ q <= CountMax
    BY <2>1
  <2> QED  BY <2>1, <2>2
<1>2. t.low \in seen /\ t.high \in seen /\ \A q \in seen : t.low <= q /\ q <= t.high
  BY DEF Exact
<1>3. t.low \in Nat /\ t.high \in Nat /\ t.high <= CountMax
  BY <1>1, <1>2
<1>4. ASSUME NEW q \in Covered(t.missing) PROVE q \in Absent(s)
  <2>1. PICK h \in t.missing : q \in h.first .. h.last
    BY DEF Covered, Numbers
  <2>2. q \in Int /\ Within(q, h)
    BY <2>1, HoleWidth DEF Within
  <2>3. t.low <= q /\ q <= t.high /\ q \notin seen
    BY <2>2 DEF Exact
  <2>4. t.low < q /\ q < t.high /\ q \in 0 .. CountMax
    <3>1. q # t.low /\ q # t.high /\ q \in Int
      BY <1>2, <2>2, <2>3
    <3> QED  BY <1>1, <1>3, <2>3, <3>1
  <2> QED  BY <1>2, <2>3, <2>4 DEF Absent
<1>5. ASSUME NEW q \in Absent(s) PROVE q \in Covered(t.missing)
  <2>1. q \in 0 .. CountMax /\ q \notin seen
    BY DEF Absent
  <2>2. PICK low \in seen, high \in seen : low < q /\ q < high
    BY DEF Absent
  <2>3. low \in Nat /\ high \in Nat /\ t.low <= low /\ high <= t.high
    BY <1>1, <1>2
  <2>4. q \in Int /\ t.low <= q /\ q <= t.high
    BY <1>3, <2>1, <2>2, <2>3
  <2>5. PICK h \in t.missing : Within(q, h)
    BY <2>1, <2>4 DEF Exact
  <2>6. q \in h.first .. h.last
    BY <2>4, <2>5, HoleWidth DEF Within
  <2> QED  BY <2>6 DEF Covered, Numbers
<1> QED  BY <1>4, <1>5

\* A saturating sum stops at the largest count, and says so.
Saturated(sum) == [total |-> IF sum > CountMax THEN CountMax ELSE sum, saturated |-> sum > CountMax]

LEMMA SaturatedIs ==
    ASSUME NEW sum \in Nat
    PROVE  /\ sum > CountMax => Saturated(sum) = [total |-> CountMax, saturated |-> TRUE]
           /\ ~ (sum > CountMax) => Saturated(sum) = [total |-> sum, saturated |-> FALSE]
<1> DEFINE over == sum > CountMax
<1>1. Saturated(sum) = [total |-> IF over THEN CountMax ELSE sum, saturated |-> over]
  BY DEF Saturated
<1>2. over \in BOOLEAN
  OBVIOUS
<1> HIDE DEF over
<1>3. over => Saturated(sum) = [total |-> CountMax, saturated |-> TRUE]
  <2> SUFFICES ASSUME over PROVE Saturated(sum) = [total |-> CountMax, saturated |-> TRUE]
    OBVIOUS
  <2>1. over = TRUE
    BY <1>2
  <2> QED  BY <1>1, <2>1
<1>4. ~ over => Saturated(sum) = [total |-> sum, saturated |-> FALSE]
  <2> SUFFICES ASSUME ~ over PROVE Saturated(sum) = [total |-> sum, saturated |-> FALSE]
    OBVIOUS
  <2>1. over = FALSE
    BY <1>2
  <2> QED  BY <1>1, <2>1
<1> QED  BY <1>3, <1>4 DEF over

LEMMA SaturatedMore ==
    ASSUME NEW a \in Nat, NEW b \in Nat
    PROVE  SaturateAdd(Saturated(a), b) = Saturated(b + a)
<1>0. CountMax \in Nat
  BY SequencesAre
<1> DEFINE old == Saturated(a)
           most == [total |-> CountMax, saturated |-> TRUE]
<1>1. SaturateAdd(old, b) = IF b > CountMax - old.total THEN most
                            ELSE [old EXCEPT !.total = old.total + b]
  BY DEF SaturateAdd
<1>2. \A n, v, m : [[total |-> n, saturated |-> v] EXCEPT !.total = m] = [total |-> m, saturated |-> v]
  OBVIOUS
<1>3. CASE a > CountMax
  <2>1. old = most /\ old.total = CountMax
    BY <1>3, SaturatedIs
  <2>2. b + a \in Nat /\ b + a > CountMax
    BY <1>0, <1>3
  <2>3. Saturated(b + a) = most
    BY <2>2, SaturatedIs
  <2> HIDE DEF old
  <2>4. ~ (b > CountMax - old.total) => old.total + b = CountMax
    BY <1>0, <2>1
  <2>5. [old EXCEPT !.total = CountMax] = most
    BY <1>2, <2>1
  <2>6. SaturateAdd(old, b) = most
    BY <1>1, <2>4, <2>5
  <2> QED  BY <2>3, <2>6 DEF old
<1>4. CASE ~ (a > CountMax)
  <2>1. old = [total |-> a, saturated |-> FALSE] /\ old.total = a
    BY <1>4, SaturatedIs
  <2>2. b + a \in Nat /\ (b > CountMax - a <=> b + a > CountMax) /\ a + b = b + a
    BY <1>0
  <2>3. /\ b + a > CountMax => Saturated(b + a) = most
        /\ ~ (b + a > CountMax) => Saturated(b + a) = [total |-> b + a, saturated |-> FALSE]
    BY <2>2, SaturatedIs
  <2> HIDE DEF old
  <2>4. [old EXCEPT !.total = old.total + b] = [total |-> a + b, saturated |-> FALSE]
    BY <1>2, <2>1
  <2> HIDE DEF most
  <2>5. SaturateAdd(old, b) = Saturated(b + a)
    BY <1>1, <2>1, <2>2, <2>3, <2>4
  <2> QED  BY <2>5 DEF old
<1> QED  BY <1>3, <1>4

LEMMA SaturatedZero == Saturated(0) = Zero
<1>1. ~ (0 > CountMax)
  BY SequencesAre
<1> QED  BY <1>1, SaturatedIs DEF Zero

\* Every hole of every tracker, with its stream.
Pairs(D) == UNION {{s} \X trackers[s].missing : s \in D}
PairWidth == [p \in Pairs(DOMAIN trackers) |-> p[2].last - p[2].first + 1]

\* The fold of SequenceGaps is the saturated total, in whatever order it takes the holes.
LEMMA GapsFold ==
    ASSUME IsFiniteSet(Pairs(DOMAIN trackers)),
           \A p \in Pairs(DOMAIN trackers) : PairWidth[p] \in Nat
    PROVE  SequenceGaps = Saturated(Total(PairWidth, Pairs(DOMAIN trackers)))
<1> DEFINE P == Pairs(DOMAIN trackers)
           Step(g, s) == IF s = {} THEN Zero
                         ELSE SaturateAdd(g[s \ {First(s)}], First(s)[2].last - First(s)[2].first + 1)
           IsFold(g) == g = [s \in SUBSET P |-> Step(g, s)]
           K == CHOOSE g : IsFold(g)
<1>1. PICK h : Sums(PairWidth, P, h)
  BY SumsExist
<1>2. \A s \in SUBSET P : h[s] \in Nat
  BY <1>1, SumsAny
<1>3. \A s \in SUBSET P :
         /\ h[s] = IF s = {} THEN 0 ELSE PairWidth[First(s)] + h[s \ {First(s)}]
         /\ s # {} => /\ First(s) \in s /\ First(s) \in P /\ s \ {First(s)} \in SUBSET P
                      /\ PairWidth[First(s)] = First(s)[2].last - First(s)[2].first + 1
                      /\ PairWidth[First(s)] \in Nat
  <2>1. \A s \in SUBSET P : s # {} => First(s) \in s /\ First(s) \in P /\ s \ {First(s)} \in SUBSET P
    BY FirstIn
  <2>2. \A p \in P : PairWidth[p] = p[2].last - p[2].first + 1 /\ PairWidth[p] \in Nat
    BY DEF PairWidth
  <2> QED  BY <1>1, <2>1, <2>2 DEF Sums
<1> HIDE DEF P
<1> DEFINE k == [s \in SUBSET P |-> Saturated(h[s])]
<1>4. IsFold(k)
  <2>1. ASSUME NEW s \in SUBSET P PROVE k[s] = Step(k, s)
    <3>1. CASE s = {}
      BY <1>3, <3>1, SaturatedZero
    <3>2. CASE s # {}
      <4> DEFINE x == First(s)
      <4>1. k[s \ {x}] = Saturated(h[s \ {x}]) /\ h[s \ {x}] \in Nat /\ PairWidth[x] \in Nat
        BY <1>2, <1>3, <3>2
      <4>2. SaturateAdd(k[s \ {x}], PairWidth[x]) = Saturated(PairWidth[x] + h[s \ {x}])
        BY <4>1, SaturatedMore
      <4>3. h[s] = PairWidth[x] + h[s \ {x}] /\ PairWidth[x] = x[2].last - x[2].first + 1
        BY <1>3, <3>2
      <4> HIDE DEF k
      <4>4. k[s] = Saturated(h[s])
        BY DEF k
      <4> QED  BY <3>2, <4>2, <4>3, <4>4
    <3> QED  BY <3>1, <3>2
  <2>2. k = [s \in SUBSET P |-> k[s]]
    OBVIOUS
  <2> HIDE DEF k, Step
  <2> QED  BY <2>1, <2>2
<1>5. IsFold(K)
  <2> HIDE DEF IsFold, k
  <2> QED  BY <1>4
<1>6. SequenceGaps = K[P]
  BY DEF SequenceGaps, FoldSet, MapThenFoldSet, First, P, Pairs
<1>7. \A s \in SUBSET P : K[s] = k[s]
  <2> HIDE DEF K, k
  <2> DEFINE Wrong == {s \in SUBSET P : K[s] # k[s]}
  <2>1. \A s \in SUBSET P : K[s] = Step(K, s) /\ k[s] = Step(k, s)
    <3> HIDE DEF Step
    <3> QED  BY <1>4, <1>5
  <2>2. SUFFICES ASSUME Wrong # {} PROVE FALSE
    OBVIOUS
  <2>3. PICK s \in Wrong : \A t \in Wrong : ~ (Cardinality(t) < Cardinality(s))
    <3>1. Wrong \subseteq SUBSET P /\ IsFiniteSet(P)
      BY DEF P
    <3> HIDE DEF Wrong
    <3> QED  BY <2>2, <3>1, SmallestSet
  <2>4. s \in SUBSET P /\ s # {}
    BY <2>1, <2>3
  <2> DEFINE x == First(s)
  <2>5. x \in s /\ s \ {x} \in SUBSET P
    BY <1>3, <2>4
  <2>6. Cardinality(s \ {x}) < Cardinality(s)
    <3>1. IsFiniteSet(s) /\ Cardinality(s) \in Nat
      BY <2>4, FS_Subset, FS_CardinalityType DEF P
    <3>2. Cardinality(s \ {x}) = Cardinality(s) - 1
      <4> HIDE DEF x
      <4> QED BY <2>5, <3>1, FS_RemoveElement
    <3> QED  BY <3>1, <3>2
  <2>7. K[s \ {x}] = k[s \ {x}]
    BY <2>3, <2>5, <2>6
  <2> QED  BY <2>1, <2>3, <2>4, <2>7
<1>8. K[P] = Saturated(h[P])
  <2> HIDE DEF K
  <2> QED  BY <1>7
<1>9. Total(PairWidth, P) = h[P]
  BY <1>1, TotalIs DEF P
<1> QED  BY <1>6, <1>8, <1>9 DEF P

\* While no tracker was evicted, each knows all that was received of its stream.
GapInv ==
    /\ received \in [Streams -> SUBSET Sequences_]
    /\ stats.sequence_tracking_evictions = 0 =>
          /\ \A s \in DOMAIN trackers : since[s] = received[s]
          /\ \A s \in Streams \ DOMAIN trackers : received[s] = {}

AbsentCount == [s \in Streams |-> Cardinality(Absent(s))]

LEMMA AllAbsentIs == AllAbsent = Total(AbsentCount, Streams)
<1> DEFINE Step(g, s) == IF s = {} THEN 0 ELSE Cardinality(Absent(First(s))) + g[s \ {First(s)}]
           G == CHOOSE g : g = [s \in SUBSET Streams |-> Step(g, s)]
<1>0. IsFiniteSet(Streams)
  BY InputsAssumption
<1>1. \A s \in SUBSET Streams : s # {} => AbsentCount[First(s)] = Cardinality(Absent(First(s)))
  BY FirstIn DEF AbsentCount
<1>2. \A g : Sums(AbsentCount, Streams, g) <=> g = [s \in SUBSET Streams |-> Step(g, s)]
  BY <1>1 DEF Sums
<1>3. \E g : Sums(AbsentCount, Streams, g)
  BY <1>0, SumsExist
<1>4. Sums(AbsentCount, Streams, G)
  <2> HIDE DEF Step
  <2> QED  BY <1>2, <1>3
<1>5. AllAbsent = G[Streams]
  BY DEF AllAbsent, MapThenSumSet, MapThenFoldSet, First
<1> HIDE DEF G
<1> QED  BY <1>0, <1>4, <1>5, TotalIs

\* What one tracker's holes add up to.
LEMMA TrackerTotal ==
    ASSUME NEW s \in DOMAIN trackers, DOMAIN trackers \subseteq Streams,
           received[s] \in SUBSET Sequences_, Exact(trackers[s], received[s])
    PROVE  /\ IsFiniteSet({s} \X trackers[s].missing) /\ AbsentCount[s] \in Nat
           /\ Total(PairWidth, {s} \X trackers[s].missing) = AbsentCount[s]
           /\ \A p \in {s} \X trackers[s].missing : PairWidth[p] \in Nat
<1> DEFINE M == trackers[s].missing
           f == [h \in M |-> <<s, h>>]
<1>1. IsFiniteSet(M)
  BY ExactFinite
<1>2. {f[h] : h \in M} = {s} \X M
  <2>1. \A h \in M : f[h] = <<s, h>>
    OBVIOUS
  <2> HIDE DEF f, M
  <2>2. ASSUME NEW p \in {s} \X M PROVE p \in {f[h] : h \in M}
    <3>1. p = <<s, p[2]>> /\ p[2] \in M
      OBVIOUS
    <3> QED  BY <2>1, <3>1
  <2>3. ASSUME NEW h \in M PROVE f[h] \in {s} \X M
    BY <2>1
  <2> QED  BY <2>2, <2>3
<1>3. \A x, y \in M : f[x] = f[y] => x = y
  <2>1. \A x \in M : f[x] = <<s, x>>
    OBVIOUS
  <2>2. \A x, y \in M : <<s, x>> = <<s, y>> => x = y
    <3> SUFFICES ASSUME NEW x \in M, NEW y \in M, <<s, x>> = <<s, y>> PROVE x = y
      OBVIOUS
    <3>1. <<s, x>>[2] = <<s, y>>[2]
      OBVIOUS
    <3> QED  BY <3>1
  <2> HIDE DEF f, M
  <2> QED  BY <2>1, <2>2
<1>4. \A h \in M : h \in Holes /\ f[h] \in Pairs(DOMAIN trackers) /\ Width[h] \in Nat
  <2>1. M \subseteq Holes
    BY DEF Exact, Trackers, Holes
  <2> QED  BY <2>1, HoleWidth DEF Pairs
<1>5. \A h \in M : Width[h] = PairWidth[f[h]] /\ PairWidth[f[h]] \in Nat
  <2> SUFFICES ASSUME NEW h \in M PROVE PairWidth[f[h]] = Width[h]
    BY <1>4
  <2>1. PairWidth[f[h]] = f[h][2].last - f[h][2].first + 1
    BY <1>4 DEF PairWidth
  <2>2. f[h][2] = h
    OBVIOUS
  <2>3. Width[h] = h.last - h.first + 1
    BY <1>4 DEF Width
  <2> QED  BY <2>1, <2>2, <2>3
<1>6. \A p \in {s} \X M : PairWidth[p] \in Nat
  BY <1>2, <1>5
<1>7. Total(Width, M) = Total(PairWidth, {s} \X M) /\ IsFiniteSet({s} \X M)
  <2>1. IsFiniteSet(M) /\ \A x \in M : Width[x] = PairWidth[f[x]] /\ PairWidth[f[x]] \in Nat
    BY <1>1, <1>5
  <2> HIDE DEF f, M
  <2>2. /\ Total(Width, M) = Total(PairWidth, {f[h] : h \in M})
        /\ IsFiniteSet({f[h] : h \in M})
    BY <1>3, <2>1, TotalImage
  <2> QED  BY <1>2, <2>2
<1>8. AbsentCount[s] = Cardinality(Covered(M)) /\ IsFiniteSet(Covered(M))
  <2>1. Absent(s) = Covered(M)
    BY AbsentIs
  <2> QED  BY <2>1, WidthsAre DEF AbsentCount
<1>9. Total(Width, M) = Cardinality(Covered(M)) /\ Cardinality(Covered(M)) \in Nat
  BY <1>8, WidthsAre, FS_CardinalityType
<1> QED  BY <1>6, <1>7, <1>8, <1>9

\* And all trackers' together: the numbers absent from all streams.
LEMMA GapsAre ==
    ASSUME StorageInv, TrackInv, GapInv, stats.sequence_tracking_evictions = 0
    PROVE  AllAbsent \in Nat /\ SequenceGaps = Saturated(AllAbsent)
<1> DEFINE D == DOMAIN trackers
           A == AbsentCount
           Right(S) == /\ IsFiniteSet(Pairs(S)) /\ \A p \in Pairs(S) : PairWidth[p] \in Nat
                       /\ Total(PairWidth, Pairs(S)) = Total(A, S)
           Wrong == {S \in SUBSET D : ~ Right(S)}
<1>1. /\ IsFiniteSet(D) /\ D \subseteq Streams /\ IsFiniteSet(Streams)
      /\ \A s \in D : received[s] \in SUBSET Sequences_ /\ Exact(trackers[s], received[s])
      /\ \A s \in Streams \ D : received[s] = {}
  BY OrderFacts, InputsAssumption DEF TrackInv, GapInv
<1>2. ASSUME NEW s \in D
      PROVE  /\ IsFiniteSet({s} \X trackers[s].missing) /\ A[s] \in Nat
             /\ Total(PairWidth, {s} \X trackers[s].missing) = A[s]
             /\ \A p \in {s} \X trackers[s].missing : PairWidth[p] \in Nat
  BY <1>1, TrackerTotal
<1>3. {} \notin Wrong
  <2>1. Pairs({}) = {}
    BY DEF Pairs
  <2> HIDE DEF A
  <2> QED  BY <2>1, TotalNone, FS_EmptySet
<1>4. ASSUME NEW S \in SUBSET D, NEW s \in D, s \notin S, S \notin Wrong
      PROVE  S \cup {s} \notin Wrong
  <2> DEFINE M == {s} \X trackers[s].missing
  <2>1. Pairs(S \cup {s}) = Pairs(S) \cup M
    BY DEF Pairs
  <2>2. Pairs(S) \cap M = {}
    BY <1>4 DEF Pairs
  <2>3. Right(S)
    BY <1>4
  <2>4. /\ IsFiniteSet(M) /\ A[s] \in Nat /\ Total(PairWidth, M) = A[s]
        /\ \A p \in M : PairWidth[p] \in Nat
    BY <1>2
  <2> HIDE DEF M, A
  <2>5. IsFiniteSet(Pairs(S) \cup M) /\ \A p \in Pairs(S) \cup M : PairWidth[p] \in Nat
    BY <2>3, <2>4, FS_Union
  <2>6. Total(PairWidth, Pairs(S) \cup M) = Total(PairWidth, Pairs(S)) + Total(PairWidth, M)
    BY <2>2, <2>3, <2>4, <2>5, TotalSplit
  <2>7. IsFiniteSet(S) /\ \A x \in S \cup {s} : A[x] \in Nat
    BY <1>1, <1>2, FS_Subset DEF A
  <2>8. Total(A, S \cup {s}) = A[s] + Total(A, S) /\ Total(A, S) \in Nat
    BY <1>4, <2>7, TotalMore
  <2>9. Total(PairWidth, Pairs(S) \cup M) = Total(A, S \cup {s})
    BY <2>3, <2>4, <2>6, <2>8
  <2> QED  BY <2>1, <2>5, <2>9
<1>5. Right(D)
  <2>1. Wrong = {}
    <3>1. Wrong \subseteq SUBSET D
      OBVIOUS
    <3> HIDE DEF Wrong, D
    <3> QED  BY <1>1, <1>3, <1>4, <3>1, SmallestWrong
  <2> HIDE DEF Right
  <2> QED  BY <2>1
<1>6. \A s \in Streams \ D : A[s] = 0
  <2> SUFFICES ASSUME NEW s \in Streams \ D PROVE Cardinality(Absent(s)) = 0
    BY DEF AbsentCount
  <2>1. Absent(s) = {}
    BY <1>1 DEF Absent
  <2> QED  BY <2>1, FS_EmptySet
<1> HIDE DEF A, D
<1> DEFINE U == Streams \ D
<1>7. Total(A, U) = 0
  <2> DEFINE Off == {S \in SUBSET U : Total(A, S) # 0}
  <2>1. {} \notin Off
    BY TotalNone
  <2>2. ASSUME NEW S \in SUBSET U, NEW s \in U, s \notin S, S \notin Off
        PROVE  S \cup {s} \notin Off
    <3>1. IsFiniteSet(S) /\ \A x \in S \cup {s} : A[x] \in Nat
      BY <1>1, <1>6, FS_Subset
    <3>2. A[s] = 0 /\ Total(A, S) = 0
      BY <1>6, <2>2
    <3>3. Total(A, S \cup {s}) = A[s] + Total(A, S)
      BY <2>2, <3>1, TotalMore
    <3> QED  BY <3>2, <3>3
  <2>3. Off = {}
    <3>1. Off \subseteq SUBSET U /\ IsFiniteSet(U)
      BY <1>1, FS_Subset
    <3> HIDE DEF Off, U
    <3> QED  BY <2>1, <2>2, <3>1, SmallestWrong
  <2>4. U \notin Off
    BY <2>3
  <2> QED  BY <2>4
<1>8. AllAbsent = Total(A, D) /\ AllAbsent \in Nat
  <2>1. IsFiniteSet(U) /\ D \cap U = {} /\ D \cup U = Streams
    BY <1>1, FS_Subset
  <2>2. \A s \in Streams : A[s] \in Nat
    <3> SUFFICES ASSUME NEW s \in Streams PROVE A[s] \in Nat
      OBVIOUS
    <3>1. CASE s \in D
      BY <1>2, <3>1 DEF A
    <3>2. CASE s \notin D
      BY <1>6, <3>2
    <3> QED  BY <3>1, <3>2
  <2>3. AllAbsent = Total(A, Streams)
    BY AllAbsentIs DEF A
  <2> HIDE DEF U
  <2>4. Total(A, D \cup U) = Total(A, D) + Total(A, U) /\ Total(A, D) \in Nat
    BY <1>1, <2>1, <2>2, TotalSplit
  <2> QED  BY <1>7, <2>1, <2>3, <2>4
<1>9. SequenceGaps = Saturated(Total(PairWidth, Pairs(D)))
  BY <1>5, GapsFold DEF D
<1> QED  BY <1>5, <1>8, <1>9

\* What Stats tells of the gaps.
LEMMA GapsKnown ==
    ASSUME StorageInv, TrackInv, GapInv
    PROVE  GapsExact
<1> SUFFICES ASSUME stats.sequence_tracking_evictions = 0
             PROVE  /\ SequenceGaps.total = IF AllAbsent > CountMax THEN CountMax ELSE AllAbsent
                    /\ SequenceGaps.saturated <=> AllAbsent > CountMax
  BY DEF GapsExact
<1>1. AllAbsent \in Nat /\ SequenceGaps = Saturated(AllAbsent)
  BY GapsAre
<1> DEFINE sum == AllAbsent
           gaps == SequenceGaps
<1> HIDE DEF sum, gaps
<1>2. /\ sum > CountMax => gaps = [total |-> CountMax, saturated |-> TRUE]
      /\ ~ (sum > CountMax) => gaps = [total |-> sum, saturated |-> FALSE]
  BY <1>1, SaturatedIs DEF sum, gaps
<1>3. CASE sum > CountMax
  <2>1. gaps.total = CountMax /\ gaps.saturated = TRUE
    BY <1>2, <1>3
  <2> QED  BY <1>3, <2>1 DEF sum, gaps
<1>4. CASE ~ (sum > CountMax)
  <2>1. gaps.total = sum /\ gaps.saturated = FALSE
    BY <1>2, <1>4
  <2> QED  BY <1>4, <2>1 DEF sum, gaps
<1> QED  BY <1>3, <1>4

\* With no eviction a stream's tracker was made by the first number that arrived.
LEMMA GapStep ==
    ASSUME GapInv, TrackInv, NEW event \in Events, NEW n \in Nat,
           stats.sequence_tracking_evictions \in Nat,
           stats'.sequence_tracking_evictions = stats.sequence_tracking_evictions + n,
           TrackSequence(event.stream, event.sequence, n),
           n = 0 => DOMAIN trackers' = DOMAIN trackers \cup {event.stream},
           received' = [received EXCEPT ![event.stream] = @ \cup {event.sequence}]
    PROVE  GapInv'
<1> DEFINE stream == event.stream
           sequence == event.sequence
<1>0. stream \in Streams /\ sequence \in Sequences_
  BY DEF Events
<1> HIDE DEF stream, sequence
<1>1. received' = [received EXCEPT ![stream] = received[stream] \cup {sequence}]
  BY DEF stream, sequence
<1>2. /\ received' \in [Streams -> SUBSET Sequences_]
      /\ received'[stream] = received[stream] \cup {sequence}
      /\ \A s \in Streams : s # stream => received'[s] = received[s]
  <2>1. received \in [Streams -> SUBSET Sequences_]
    BY DEF GapInv
  <2>2. received[stream] \cup {sequence} \in SUBSET Sequences_
    BY <1>0, <2>1
  <2> DEFINE more == received[stream] \cup {sequence}
  <2> HIDE DEF more
  <2>3. received' = [received EXCEPT ![stream] = more] /\ more \in SUBSET Sequences_
    BY <1>1, <2>2 DEF more
  <2>4. /\ received' \in [Streams -> SUBSET Sequences_] /\ received'[stream] = more
        /\ \A s \in Streams : s # stream => received'[s] = received[s]
    BY <1>0, <2>1, <2>3
  <2> QED  BY <2>4 DEF more
<1>3. ASSUME stats'.sequence_tracking_evictions = 0
      PROVE  /\ \A s \in DOMAIN trackers' : since'[s] = received'[s]
             /\ \A s \in Streams \ DOMAIN trackers' : received'[s] = {}
  <2>1. n = 0 /\ stats.sequence_tracking_evictions = 0
    BY <1>3
  <2>2. DOMAIN trackers' = DOMAIN trackers \cup {stream} /\ DOMAIN trackers \subseteq Streams
    BY <2>1 DEF stream, TrackInv
  <2>3. /\ \A s \in DOMAIN trackers : since[s] = received[s]
        /\ \A s \in Streams \ DOMAIN trackers : received[s] = {}
    BY <2>1 DEF GapInv
  <2>4. since' = [since EXCEPT ![stream] = received[stream] \cup {sequence}]
    <3>1. CASE stream \in DOMAIN trackers
      <4>1. since' = [since EXCEPT ![stream] = since[stream] \cup {sequence}]
        BY <3>1 DEF TrackSequence, TrackKnown, stream, sequence
      <4> QED  BY <2>3, <3>1, <4>1
    <3>2. CASE stream \notin DOMAIN trackers
      <4>1. since' = [since EXCEPT ![stream] = {sequence}]
        BY <3>2 DEF TrackSequence, TrackNew, stream, sequence
      <4>2. received[stream] = {}
        BY <1>0, <2>3, <3>2
      <4> QED  BY <4>1, <4>2
    <3> QED  BY <3>1, <3>2
  <2>5. /\ since'[stream] = received'[stream]
        /\ \A s \in Streams : s # stream => since'[s] = since[s]
    BY <1>0, <1>2, <2>4 DEF TrackInv
  <2> QED  BY <1>0, <1>2, <2>2, <2>3, <2>5
<1> QED  BY <1>2, <1>3 DEF GapInv

\* Either way the storage stays bounded, and without an eviction the stream joins the others.
LEMMA StorageStep ==
    ASSUME StorageInv, TrackInv, NEW event \in Events, NEW n,
           TrackSequence(event.stream, event.sequence, n)
    PROVE  /\ StorageInv' /\ n \in Nat
           /\ n = 0 => DOMAIN trackers' = DOMAIN trackers \cup {event.stream}
<1>0. event.stream \in Streams /\ event.sequence \in Sequences_
  BY DEF Events
<1>1. CASE event.stream \in DOMAIN trackers
  <2>1. TrackKnown(event.stream, event.sequence, n)
    BY <1>1 DEF TrackSequence
  <2>2. StorageInv' /\ n \in Nat /\ (n = 0 => DOMAIN trackers' = DOMAIN trackers)
    BY <1>0, <1>1, <2>1, StorageKnown
  <2> QED  BY <1>1, <2>2
<1>2. CASE event.stream \notin DOMAIN trackers
  <2>1. TrackNew(event.stream, event.sequence, n)
    BY <1>2 DEF TrackSequence
  <2> QED  BY <1>0, <1>2, <2>1, StorageNew
<1> QED  BY <1>1, <1>2

\* What does not touch the trackers leaves their sums alone.
LEMMA Standing ==
    ASSUME TrackInv, StorageInv, GapInv,
           UNCHANGED <<trackers, missing_interval_count, stream_insertion_order, since, received>>,
           stats'.sequence_tracking_evictions = stats.sequence_tracking_evictions
    PROVE  StorageInv' /\ GapInv'
<1>1. Intervals(trackers)' = Intervals(trackers)
  BY DEF Intervals
<1>2. Total(Intervals(trackers), DOMAIN trackers)' = Total(Intervals(trackers), DOMAIN trackers)
  BY <1>1 DEF Total, Sums, First
<1>3. StorageInv'
  BY <1>2 DEF StorageInv
<1> QED  BY <1>3 DEF GapInv

----------------------------------------------------------------------------
(* The inductive invariant *)

\* The total of the reported drops stops at the counter's largest value.
DropInv ==
    /\ reported \in Nat
    /\ stats.queue_drops \in [total : 0 .. CountMax, saturated : BOOLEAN]
    /\ QueueDropsExact

StatsInv ==
    /\ stats \in [accepted : Nat, invalid : Nat, category_rejected : Nat, expired : Nat,
                  queue_drops : [total : 0 .. CountMax, saturated : BOOLEAN],
                  sequence_tracking_evictions : Nat, evicted : Nat]
    /\ DropInv

IInv == RingInv /\ TrackInv /\ StatsInv /\ StorageInv /\ GapInv

LEMMA InitInv == Init => IInv
<1> SUFFICES ASSUME Init PROVE IInv
  OBVIOUS
<1>1. RingInv
  BY CapacityAssumption DEF Init, RingInv
<1>2. TrackInv
  BY DEF Init, TrackInv
<1>3. Zero \in [total : 0 .. CountMax, saturated : BOOLEAN]
  BY SequencesAre DEF Zero
<1>4. StatsInv
  BY <1>3, SequencesAre DEF Init, StatsInv, DropInv, QueueDropsExact, Zero
<1>5. GapInv
  BY DEF Init, GapInv
<1> QED
  BY <1>1, <1>2, <1>4, <1>5, StorageInit DEF IInv

LEMMA TrackStep ==
    ASSUME TrackInv, NEW event \in Events, NEW n, TrackSequence(event.stream, event.sequence, n)
    PROVE  TrackInv'
<1> DEFINE stream == event.stream
           sequence == event.sequence
           seen == since[stream] \cup {sequence}
<1>0. stream \in Streams /\ sequence \in Sequences_ /\ seen \in SUBSET Sequences_
  BY DEF Events, TrackInv
<1> HIDE DEF stream, sequence
<1>1. CASE stream \in DOMAIN trackers
  <2> DEFINE table == [trackers EXCEPT ![stream] = Observe(trackers[stream], sequence)]
  <2>1. PICK gone : /\ trackers' = Restrict(table, DOMAIN table \ gone)
                    /\ since' = [since EXCEPT ![stream] = seen]
    BY <1>1 DEF TrackSequence, TrackKnown, Evict, stream, sequence
  <2>2. DOMAIN table = DOMAIN trackers
    BY DEF TrackInv
  <2>3. /\ table[stream] = Observe(trackers[stream], sequence)
        /\ \A s \in DOMAIN trackers : s # stream => table[s] = trackers[s]
    BY <1>1 DEF TrackInv
  <2>4. Exact(table[stream], seen)
    BY <1>0, <1>1, <2>3, ObserveExact DEF TrackInv
  <2> HIDE DEF table
  <2>5. trackers' = [s \in DOMAIN trackers \ gone |-> table[s]]
    BY <2>1, <2>2 DEF Restrict
  <2>6. DOMAIN trackers' = DOMAIN trackers \ gone /\ \A s \in DOMAIN trackers' : trackers'[s] = table[s]
    BY <2>5
  <2>7. /\ since' \in [Streams -> SUBSET Sequences_] /\ since'[stream] = seen
        /\ \A s \in Streams : s # stream => since'[s] = since[s]
    BY <1>0, <2>1 DEF TrackInv
  <2>8. ASSUME NEW s \in DOMAIN trackers' PROVE Exact(trackers'[s], since'[s])
    <3>1. s \in DOMAIN trackers /\ s \in Streams /\ trackers'[s] = table[s]
      BY <2>6 DEF TrackInv
    <3> QED
      BY <2>3, <2>4, <2>7, <3>1 DEF TrackInv
  <2>9. trackers' = [s \in DOMAIN trackers' |-> trackers'[s]] /\ DOMAIN trackers' \subseteq Streams
    BY <2>5, <2>6 DEF TrackInv
  <2> QED
    BY <2>7, <2>8, <2>9 DEF TrackInv
<1>2. CASE stream \notin DOMAIN trackers
  <2>1. PICK gone :
           /\ trackers' = [s \in (DOMAIN trackers \ gone) \cup {stream} |->
                             IF s = stream THEN NewTracker(sequence) ELSE trackers[s]]
           /\ since' = [since EXCEPT ![stream] = {sequence}]
    BY <1>2 DEF TrackSequence, TrackNew, stream, sequence
  <2>2. DOMAIN trackers' = (DOMAIN trackers \ gone) \cup {stream}
    BY <2>1
  <2>3. /\ trackers'[stream] = NewTracker(sequence)
        /\ \A s \in DOMAIN trackers' : s # stream => s \in DOMAIN trackers /\ trackers'[s] = trackers[s]
    BY <2>1
  <2>4. /\ since' \in [Streams -> SUBSET Sequences_] /\ since'[stream] = {sequence}
        /\ \A s \in Streams : s # stream => since'[s] = since[s]
    BY <1>0, <2>1 DEF TrackInv
  <2>5. Exact(NewTracker(sequence), {sequence})
    BY <1>0, NewExact
  <2>6. ASSUME NEW s \in DOMAIN trackers' PROVE Exact(trackers'[s], since'[s])
    <3>1. CASE s = stream
      BY <2>3, <2>4, <2>5, <3>1
    <3>2. CASE s # stream
      <4>1. s \in DOMAIN trackers /\ s \in Streams /\ trackers'[s] = trackers[s]
        BY <2>3, <3>2 DEF TrackInv
      <4> QED
        BY <2>4, <3>2, <4>1 DEF TrackInv
    <3> QED
      BY <3>1, <3>2
  <2>7. trackers' = [s \in DOMAIN trackers' |-> trackers'[s]] /\ DOMAIN trackers' \subseteq Streams
    BY <1>0, <2>1, <2>2 DEF TrackInv
  <2> QED
    BY <2>4, <2>6, <2>7 DEF TrackInv
<1> QED
  BY <1>1, <1>2

LEMMA DropStep ==
    ASSUME DropInv, NEW event \in Events,
           stats'.queue_drops = IF event.gap THEN SaturateAdd(stats.queue_drops, ReportedQueueDrops(event))
                                             ELSE stats.queue_drops,
           reported' = IF event.gap THEN reported + ReportedQueueDrops(event) ELSE reported
    PROVE  DropInv'
<1> DEFINE drops == stats.queue_drops
           amount == ReportedQueueDrops(event)
<1>1. amount \in Nat /\ amount > 0
  <2>1. event.payload \in Payloads
    BY DEF Events
  <2>2. event.payload \in 0 .. CountMax
    BY <2>1, CountAssumption
  <2> QED
    BY <2>2, SequencesAre DEF ReportedQueueDrops
<1>2. /\ reported \in Nat /\ CountMax \in Nat
      /\ drops \in [total : 0 .. CountMax, saturated : BOOLEAN]
      /\ drops.total = IF reported > CountMax THEN CountMax ELSE reported
      /\ drops.saturated <=> reported > CountMax
  BY SequencesAre DEF DropInv, QueueDropsExact
<1> HIDE DEF drops, amount
<1>3. CASE event.gap /\ amount > CountMax - drops.total
  <2>1. reported' = reported + amount /\ stats'.queue_drops = [total |-> CountMax, saturated |-> TRUE]
    BY <1>3 DEF SaturateAdd, drops, amount
  <2>2. reported + amount > CountMax /\ reported + amount \in Nat
    BY <1>1, <1>2, <1>3
  <2>3. stats'.queue_drops \in [total : 0 .. CountMax, saturated : BOOLEAN]
    <3>1. CountMax \in 0 .. CountMax /\ TRUE \in BOOLEAN
      BY <1>2
    <3>2. \A n \in 0 .. CountMax, b \in BOOLEAN :
             [total |-> n, saturated |-> b] \in [total : 0 .. CountMax, saturated : BOOLEAN]
      OBVIOUS
    <3> QED
      BY <2>1, <3>1, <3>2
  <2>4. stats'.queue_drops.total = CountMax /\ stats'.queue_drops.saturated
    BY <2>1
  <2> QED
    BY <2>1, <2>2, <2>3, <2>4 DEF DropInv, QueueDropsExact
<1>4. CASE event.gap /\ ~ (amount > CountMax - drops.total)
  <2>1. reported' = reported + amount /\ stats'.queue_drops = [drops EXCEPT !.total = drops.total + amount]
    BY <1>4 DEF SaturateAdd, drops, amount
  <2>2. drops.total \in 0 .. CountMax
    BY <1>2
  <2>3. /\ ~ (reported > CountMax) /\ drops.total = reported
        /\ reported + amount \in 0 .. CountMax /\ ~ (reported + amount > CountMax)
    BY <1>1, <1>2, <1>4, <2>2
  <2>4. stats'.queue_drops \in [total : 0 .. CountMax, saturated : BOOLEAN]
    BY <1>2, <2>1, <2>3
  <2>5. stats'.queue_drops.total = reported + amount /\ stats'.queue_drops.saturated = drops.saturated
    BY <1>2, <2>1, <2>3
  <2>6. ~ stats'.queue_drops.saturated
    BY <1>2, <2>3, <2>5
  <2>7. reported' \in Nat
    BY <2>1, <2>3
  <2> QED
    BY <2>1, <2>3, <2>4, <2>5, <2>6, <2>7 DEF DropInv, QueueDropsExact
<1>5. CASE ~ event.gap
  BY <1>5 DEF DropInv, QueueDropsExact
<1> QED
  BY <1>3, <1>4, <1>5

LEMMA AcceptStep ==
    ASSUME IInv, NEW event \in Inputs, Accept(event)
    PROVE  IInv'
<1>0. event \in Events
  BY InputsAssumption
<1>1. RingInv'
  BY <1>0, RingStep DEF IInv, Accept
<1>2. TrackInv'
  BY <1>0, TrackStep DEF IInv, Accept
<1>3. PICK n \in 0 .. Capacity :
         /\ TrackSequence(event.stream, event.sequence, n)
         /\ stats' = [stats EXCEPT
                        !.sequence_tracking_evictions = stats.sequence_tracking_evictions + n,
                        !.queue_drops = IF event.gap THEN SaturateAdd(stats.queue_drops, ReportedQueueDrops(event))
                                                     ELSE stats.queue_drops,
                        !.evicted = IF Len(events) = Capacity THEN stats.evicted + 1 ELSE stats.evicted,
                        !.accepted = stats.accepted + 1]
  BY DEF Accept
<1>4. stats \in [accepted : Nat, invalid : Nat, category_rejected : Nat, expired : Nat,
                 queue_drops : [total : 0 .. CountMax, saturated : BOOLEAN],
                 sequence_tracking_evictions : Nat, evicted : Nat] /\ DropInv
  BY DEF IInv, StatsInv
<1>5. stats'.queue_drops = IF event.gap THEN SaturateAdd(stats.queue_drops, ReportedQueueDrops(event))
                                        ELSE stats.queue_drops
  BY <1>3, <1>4
<1>6. reported' = IF event.gap THEN reported + ReportedQueueDrops(event) ELSE reported
  BY DEF Accept
<1>7. DropInv'
  BY <1>0, <1>4, <1>5, <1>6, DropStep
<1>8. stats'.queue_drops \in [total : 0 .. CountMax, saturated : BOOLEAN]
  BY <1>7 DEF DropInv
<1>9. /\ stats.sequence_tracking_evictions + n \in Nat
      /\ (IF Len(events) = Capacity THEN stats.evicted + 1 ELSE stats.evicted) \in Nat
      /\ stats.accepted + 1 \in Nat
  <2>1. n \in Nat
    BY CapacityAssumption
  <2> QED
    BY <1>4, <2>1
<1>10. stats' = [stats EXCEPT
                   !.sequence_tracking_evictions = stats.sequence_tracking_evictions + n,
                   !.queue_drops = stats'.queue_drops,
                   !.evicted = IF Len(events) = Capacity THEN stats.evicted + 1 ELSE stats.evicted,
                   !.accepted = stats.accepted + 1]
  BY <1>3, <1>5
<1>11. StatsInv'
  <2>1. stats' \in [accepted : Nat, invalid : Nat, category_rejected : Nat, expired : Nat,
                    queue_drops : [total : 0 .. CountMax, saturated : BOOLEAN],
                    sequence_tracking_evictions : Nat, evicted : Nat]
    BY <1>4, <1>8, <1>9, <1>10
  <2> QED
    BY <1>7, <2>1 DEF StatsInv
<1>12. /\ StorageInv' /\ n \in Nat
       /\ n = 0 => DOMAIN trackers' = DOMAIN trackers \cup {event.stream}
  BY <1>0, <1>3, StorageStep DEF IInv
<1>13. stats'.sequence_tracking_evictions = stats.sequence_tracking_evictions + n
  BY <1>4, <1>10
<1>14. /\ received' = [received EXCEPT ![event.stream] = received[event.stream] \cup {event.sequence}]
       /\ stats.sequence_tracking_evictions \in Nat
  BY <1>4 DEF Accept
<1>15. GapInv'
  BY <1>0, <1>3, <1>12, <1>13, <1>14, GapStep DEF IInv
<1> QED
  BY <1>1, <1>2, <1>11, <1>12, <1>15 DEF IInv

LEMMA RefuseStep ==
    ASSUME IInv, NEW valid \in BOOLEAN, NEW expired \in BOOLEAN, NEW allowed \in BOOLEAN,
           Refuse(valid, expired, allowed)
    PROVE  IInv' /\ UNCHANGED <<events, next_event>>
<1>1. UNCHANGED <<events, next_event, trackers, missing_interval_count, stream_insertion_order,
                  received, since, reported>>
  BY DEF Refuse
<1>2. RingInv' /\ TrackInv'
  BY <1>1 DEF IInv, RingInv, TrackInv
<1>3. stats \in [accepted : Nat, invalid : Nat, category_rejected : Nat, expired : Nat,
                 queue_drops : [total : 0 .. CountMax, saturated : BOOLEAN],
                 sequence_tracking_evictions : Nat, evicted : Nat] /\ DropInv
  BY DEF IInv, StatsInv
<1>4. \/ stats' = [stats EXCEPT !.invalid = stats.invalid + 1]
      \/ stats' = [stats EXCEPT !.expired = stats.expired + 1]
      \/ stats' = [stats EXCEPT !.category_rejected = stats.category_rejected + 1]
  BY DEF Refuse
<1>5. /\ stats' \in [accepted : Nat, invalid : Nat, category_rejected : Nat, expired : Nat,
                     queue_drops : [total : 0 .. CountMax, saturated : BOOLEAN],
                     sequence_tracking_evictions : Nat, evicted : Nat]
      /\ stats'.queue_drops = stats.queue_drops
      /\ stats'.sequence_tracking_evictions = stats.sequence_tracking_evictions
  BY <1>3, <1>4
<1>6. DropInv'
  BY <1>1, <1>3, <1>5 DEF DropInv, QueueDropsExact
<1>7. StorageInv' /\ GapInv'
  BY <1>1, <1>5, Standing DEF IInv
<1> QED
  BY <1>1, <1>2, <1>5, <1>6, <1>7 DEF IInv, StatsInv

LEMMA NextInv == IInv /\ [Next]_vars => IInv'
<1> SUFFICES ASSUME IInv, [Next]_vars PROVE IInv'
  OBVIOUS
<1>1. CASE Next
  BY <1>1, AcceptStep, RefuseStep DEF Next, IngestAt
<1>2. CASE UNCHANGED vars
  <2>1. StorageInv' /\ GapInv'
    BY <1>2, Standing DEF vars, IInv
  <2> QED
    BY <1>2, <2>1 DEF vars, IInv, RingInv, TrackInv, StatsInv, DropInv, QueueDropsExact
<1> QED
  BY <1>1, <1>2

\* The invariant in the terms of TrackersExact.
LEMMA TrackersKnown == IInv => TrackersExact
<1> SUFFICES ASSUME IInv, NEW s \in DOMAIN trackers
             PROVE  LET t == trackers[s] IN
                    /\ {t.low, t.high} \subseteq since[s] /\ since[s] \subseteq t.low .. t.high
                    /\ UNION {Numbers(h) : h \in t.missing} = (t.low .. t.high) \ since[s]
                    /\ \A h, g \in t.missing : h # g => h.last + 1 < g.first \/ g.last + 1 < h.first
  BY DEF TrackersExact
<1> DEFINE t == trackers[s]
<1>1. Exact(t, since[s]) /\ since[s] \subseteq Sequences_
  BY DEF IInv, TrackInv
<1>2. \A q \in Sequences_ : q \in Int
  BY SequencesAre
<1> HIDE DEF t
<1>3. t.low \in Int /\ t.high \in Int
  BY <1>1, <1>2 DEF Exact
<1>4. since[s] \subseteq t.low .. t.high
  BY <1>1, <1>2, <1>3 DEF Exact
<1>5. \A h \in t.missing : h.first \in Int /\ h.last \in Int
  <2>1. t.missing \subseteq Holes
    BY <1>1 DEF Exact, Trackers, Holes
  <2> QED
    BY <2>1, SequencesAre DEF Holes
<1>6. ASSUME NEW q \in UNION {Numbers(h) : h \in t.missing} PROVE q \in (t.low .. t.high) \ since[s]
  <2>1. PICK h \in t.missing : q \in h.first .. h.last
    BY <1>6 DEF Numbers
  <2>2. q \in Int /\ Within(q, h)
    BY <1>5, <2>1 DEF Within
  <2> QED
    BY <1>1, <1>3, <2>2 DEF Exact
<1>7. ASSUME NEW q \in (t.low .. t.high) \ since[s] PROVE q \in UNION {Numbers(h) : h \in t.missing}
  <2>1. q \in Int /\ t.low <= q /\ q <= t.high /\ q \notin since[s]
    BY <1>3, <1>7
  <2>2. PICK h \in t.missing : Within(q, h)
    BY <1>1, <2>1 DEF Exact
  <2>3. q \in Numbers(h)
    BY <1>5, <2>1, <2>2 DEF Within, Numbers
  <2> QED
    BY <2>3
<1>8. UNION {Numbers(h) : h \in t.missing} = (t.low .. t.high) \ since[s]
  BY <1>6, <1>7
<1> QED
  BY <1>1, <1>4, <1>8 DEF Exact, t

\* Types follow from the parts.
LEMMA Typed == IInv => TypeOK
<1> SUFFICES ASSUME IInv PROVE TypeOK
  OBVIOUS
<1>1. /\ events \in Seq(Events) /\ Len(events) <= Capacity
      /\ next_event \in 0 .. Capacity - 1
      /\ Len(events) < Capacity => next_event = Len(events)
  BY DEF IInv, RingInv
<1>2. /\ DOMAIN trackers \subseteq Streams /\ \A s \in DOMAIN trackers : trackers[s] \in Trackers
      /\ since \in [Streams -> SUBSET Sequences_]
  BY DEF IInv, TrackInv, Exact
<1>3. missing_interval_count \in 0 .. Capacity
  <2>1. IsFiniteSet(DOMAIN trackers) /\ Capacity \in Nat
    BY OrderFacts DEF IInv
  <2>2. \A s \in DOMAIN trackers : Intervals(trackers)[s] \in Nat
    BY ExactFinite DEF Intervals, IInv, TrackInv
  <2>3. Total(Intervals(trackers), DOMAIN trackers) \in Nat
    BY <2>1, <2>2, TotalType
  <2>4. missing_interval_count \in Nat /\ missing_interval_count <= Capacity
    BY <2>3 DEF IInv, StorageInv
  <2> QED
    BY <2>1, <2>4
<1>4. stream_insertion_order \in Seq(Streams)
  BY DEF IInv, StorageInv
<1>5. /\ stats.queue_drops \in [total : 0 .. CountMax, saturated : BOOLEAN]
      /\ \A field \in DOMAIN stats \ {"queue_drops"} : stats[field] \in Nat
  BY DEF IInv, StatsInv
<1>6. received \in [Streams -> SUBSET Sequences_] /\ reported \in Nat
  BY DEF IInv, StatsInv, DropInv, GapInv
<1> QED
  BY <1>1, <1>2, <1>3, <1>4, <1>5, <1>6 DEF TypeOK

----------------------------------------------------------------------------
(* The theorems *)

\* The inductive invariant holds in every state of every behaviour.
THEOREM InvCorrect == Spec => []IInv
BY InitInv, NextInv, PTL DEF Spec

\* Whatever order numbers arrive in, and however often, a tracker's bounds and holes are
\* what the set of the numbers seen since it was made would give (TrackSequence).
THEOREM TrackersExactCorrect == Spec => []TrackersExact
<1>1. IInv => TrackersExact
  BY TrackersKnown
<1> QED
  BY <1>1, InvCorrect, PTL

\* The order of the trackers lists each tracked stream once, the count kept is that of the
\* intervals held, and neither exceeds the capacity, whatever is evicted (TrackSequence).
THEOREM TrackersBoundedCorrect == Spec => []TrackersBounded
<1>1. IInv => TrackersBounded
  BY StorageBounded DEF IInv
<1> QED
  BY <1>1, InvCorrect, PTL

\* While nothing was evicted sequence_gaps counts exactly the numbers absent between the lowest
\* and the highest that ever arrived, or says that it saturated (Stats).
THEOREM GapsExactCorrect == Spec => []GapsExact
<1>1. IInv => GapsExact
  BY GapsKnown DEF IInv
<1> QED
  BY <1>1, InvCorrect, PTL

\* queue_drops outlives the ring: it is the sum of all accepted gap records, or the
\* counter's largest value with its mark (SaturateAdd).
THEOREM QueueDropsExactCorrect == Spec => []QueueDropsExact
<1>1. IInv => QueueDropsExact
  BY DEF IInv, StatsInv, DropInv
<1> QED
  BY <1>1, InvCorrect, PTL

\* A limit only shortens a snapshot at its older end (Snapshot).
THEOREM SnapshotLimitedCorrect == Spec => []SnapshotLimited
<1>1. IInv => SnapshotLimited
  BY SnapshotsAgree DEF IInv
<1> QED
  BY <1>1, InvCorrect, PTL

\* What Stats and Snapshot tell, all together (EventBroker).
THEOREM ConsistentCorrect == Spec => []Consistent
<1>1. IInv => Consistent
  BY Typed, TrackersKnown, StorageBounded, GapsKnown, SnapshotsAgree
     DEF IInv, StatsInv, DropInv, Consistent
<1> QED
  BY <1>1, InvCorrect, PTL

\* The ring with its write position implements the window of the newest arrivals (IngestAt).
THEOREM ImplementsWindowCorrect == Spec => ImplementsWindow
<1>1. Init => Window!Init
  <2> SUFFICES ASSUME Init PROVE Snapshot(Capacity) = <<>>
    BY DEF Window!Init
  <2>1. RingInv /\ Len(events) = 0
    BY InitInv DEF Init, IInv
  <2>2. Capacity \in Nat
    BY CapacityAssumption
  <2>3. Shown(Capacity) = 0
    BY <2>1, <2>2 DEF Shown
  <2>4. Snapshot(Capacity) \in Seq(Events) /\ Len(Snapshot(Capacity)) = 0
    BY <2>1, <2>2, <2>3, SnapshotIs
  <2> QED
    BY <2>4, EmptySeq
<1>2. IInv /\ [Next]_vars => [Window!Next]_(Snapshot(Capacity))
  <2> SUFFICES ASSUME IInv, [Next]_vars
               PROVE  Window!Next \/ Snapshot(Capacity)' = Snapshot(Capacity)
    OBVIOUS
  <2>1. CASE UNCHANGED <<events, next_event>>
    BY <2>1 DEF Snapshot
  <2>2. ASSUME NEW event \in Inputs, Accept(event) PROVE Window!Next
    BY <2>2, WindowStep DEF IInv, Accept, Window!Next
  <2>3. \/ UNCHANGED <<events, next_event>> \/ \E event \in Inputs : Accept(event)
    BY RefuseStep DEF Next, IngestAt, vars
  <2> QED
    BY <2>1, <2>2, <2>3
<1> QED
  BY <1>1, <1>2, InvCorrect, PTL DEF Spec, ImplementsWindow, Window!Spec
=============================================================================
