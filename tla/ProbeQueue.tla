----------------------------- MODULE ProbeQueue -----------------------------
(***************************************************************************)
(* The renderer's bounded multi-producer, single-consumer shared-memory    *)
(* queue (NativeProbeQueue), the producer path that feeds it               *)
(* (NativeProbeTransport::EmitEvent) and the browser-process consumer that *)
(* empties it (NativeProbeHost::Drain, EventsAvailable and Disable).       *)
(*                                                                         *)
(* Every access to a shared atomic is one step; what a thread does with    *)
(* its own locals between two such accesses is merged into the step.       *)
(* dequeue_position_ is read and written by the consumer alone, so its     *)
(* store is merged with the release of the slot.  Atomics are sequentially *)
(* consistent here; positions are naturals (2^64 pushes are out of reach). *)
(***************************************************************************)
EXTENDS Integers, Sequences

CONSTANTS
    Producers,   \* renderer threads that run probes
    Capacity,    \* kNativeProbeQueueCapacity
    Weight,      \* NativeProbeDropWeight of a producer's nth record: 1, or what a gap stands for
    DropMax,     \* std::numeric_limits<std::uint64_t>::max()
    MaxEmits     \* bound: records each producer tries to emit

ASSUME CapacityAssumption == Capacity \in Nat /\ Capacity >= 2
ASSUME DropMaxAssumption == DropMax \in Nat \ {0}
ASSUME MaxEmitsAssumption == MaxEmits \in Nat
ASSUME WeightAssumption == Weight \in [Producers \X (1 .. MaxEmits) -> Nat \ {0}]

VARIABLES
    enqueue_position, dequeue_position,   \* the queue's counters
    sequence, slot_event,                 \* Slot::sequence and Slot::event, per slot
    dropped, notification_pending,        \* dropped_ and notification_pending_
    pc, event, position, observed, emits, \* per producer: place, record, locals, count
    wakeups,                              \* EventsAvailable messages in flight
    hpc, popped, drained, reported,       \* the host: place, locals, reported_dropped_events_
    disabling,                            \* the running Drain was called by Disable
    claimed, delivered, gaps, lost,       \* history: order of claims and of Emit calls,
                                          \* sum of the gap records, sum of the drops
    at_disable                            \* history: what was owed when Disable began

queueVars == <<enqueue_position, dequeue_position, sequence, slot_event, dropped,
               notification_pending>>
producerVars == <<pc, event, position, observed, emits>>
hostVars == <<hpc, popped, drained, reported, disabling>>
historyVars == <<claimed, delivered, gaps, lost, at_disable>>
vars == <<queueVars, producerVars, wakeups, hostVars, historyVars>>

Weights == {Weight[r] : r \in Producers \X (1 .. MaxEmits)}
Event == [from : Producers, nth : 1 .. MaxEmits, weight : Weights]
NoEvent == [from |-> "none", nth |-> 0, weight |-> 0]

\* slots_[position & kIndexMask]
Idx(q) == q % Capacity
Slots == 0 .. Capacity - 1

\* The head slot has been published and not yet taken: TryPop succeeds.
Ready == sequence[Idx(dequeue_position)] = dequeue_position + 1

----------------------------------------------------------------------------
\* NativeProbeQueue(): slot i starts with sequence i; everything else is zero.
Init ==
    /\ enqueue_position = 0 /\ dequeue_position = 0
    /\ sequence = [i \in Slots |-> i]
    /\ slot_event = [i \in Slots |-> NoEvent]
    /\ dropped = 0 /\ notification_pending = FALSE
    /\ pc = [p \in Producers |-> "idle"]
    /\ event = [p \in Producers |-> NoEvent]
    /\ position = [p \in Producers |-> 0]
    /\ observed = [p \in Producers |-> 0]
    /\ emits = [p \in Producers |-> 0]
    /\ wakeups = 0
    /\ hpc = "idle" /\ popped = NoEvent /\ drained = FALSE /\ reported = 0
    /\ disabling = FALSE
    /\ claimed = <<>> /\ delivered = <<>> /\ gaps = 0 /\ lost = 0
    /\ at_disable = [head |-> 0, queued |-> {}, dropped |-> 0]

----------------------------------------------------------------------------
(* Producers: EmitEvent -> TryPush -> MarkNotificationPending -> EventsAvailable *)

\* EmitEvent enters TryPush with the record's weight and loads enqueue_position_.
Emit(p) ==
    /\ pc[p] = "idle" /\ emits[p] < MaxEmits
    /\ event' = [event EXCEPT ![p] = [from |-> p, nth |-> emits[p] + 1,
                                       weight |-> Weight[<<p, emits[p] + 1>>]]]
    /\ emits' = [emits EXCEPT ![p] = @ + 1]
    /\ position' = [position EXCEPT ![p] = enqueue_position]
    /\ pc' = [pc EXCEPT ![p] = "probe"]
    /\ UNCHANGED <<queueVars, observed, wakeups, hostVars, historyVars>>

\* Mutant: an occupied slot is taken for a free one.
Bug_ProbeSlot_NoFullCheck(p) ==
    /\ pc[p] = "probe"
    /\ pc' = [pc EXCEPT ![p] = IF sequence[Idx(position[p])] <= position[p]
                               THEN "cas" ELSE "reload"]
    /\ UNCHANGED <<queueVars, event, position, observed, emits, wakeups, hostVars, historyVars>>

\* Mutant: a slot taken in the meantime is taken for a full queue.
Bug_ProbeSlot_ContentionDrops(p) ==
    /\ pc[p] = "probe"
    /\ pc' = [pc EXCEPT ![p] = IF sequence[Idx(position[p])] = position[p]
                               THEN "cas" ELSE "drop"]
    /\ UNCHANGED <<queueVars, event, position, observed, emits, wakeups, hostVars, historyVars>>

\* Loads the slot's sequence and branches on the sign of the difference.
ProbeSlot(p) ==
    /\ pc[p] = "probe"
    /\ LET seq == sequence[Idx(position[p])] IN
          pc' = [pc EXCEPT ![p] = IF seq = position[p] THEN "cas"
                                  ELSE IF seq < position[p] THEN "drop" ELSE "reload"]
    /\ UNCHANGED <<queueVars, event, position, observed, emits, wakeups, hostVars, historyVars>>

\* The slot was taken since the position was read: load the position again.
Reload(p) ==
    /\ pc[p] = "reload"
    /\ position' = [position EXCEPT ![p] = enqueue_position]
    /\ pc' = [pc EXCEPT ![p] = "probe"]
    /\ UNCHANGED <<queueVars, event, observed, emits, wakeups, hostVars, historyVars>>

\* Mutant: a load and a store instead of the compare-exchange.
Bug_Claim_Store(p) ==
    /\ pc[p] = "cas"
    /\ enqueue_position' = position[p] + 1
    /\ claimed' = Append(claimed, event[p])
    /\ pc' = [pc EXCEPT ![p] = "write"]
    /\ UNCHANGED <<dequeue_position, sequence, slot_event, dropped, notification_pending,
                   event, position, observed, emits, wakeups, hostVars,
                   delivered, gaps, lost, at_disable>>

\* compare_exchange_weak succeeds: the position is this producer's.
Claim(p) ==
    /\ pc[p] = "cas" /\ enqueue_position = position[p]
    /\ enqueue_position' = enqueue_position + 1
    /\ claimed' = Append(claimed, event[p])
    /\ pc' = [pc EXCEPT ![p] = "write"]
    /\ UNCHANGED <<dequeue_position, sequence, slot_event, dropped, notification_pending,
                   event, position, observed, emits, wakeups, hostVars,
                   delivered, gaps, lost, at_disable>>

\* compare_exchange_weak fails, perhaps spuriously, and reloads the position.
ClaimFails(p) ==
    /\ pc[p] = "cas"
    /\ position' = [position EXCEPT ![p] = enqueue_position]
    /\ pc' = [pc EXCEPT ![p] = "probe"]
    /\ UNCHANGED <<queueVars, event, observed, emits, wakeups, hostVars, historyVars>>

\* slot.event = event, a plain write.
Write(p) ==
    /\ pc[p] = "write"
    /\ slot_event' = [slot_event EXCEPT ![Idx(position[p])] = event[p]]
    /\ pc' = [pc EXCEPT ![p] = "publish"]
    /\ UNCHANGED <<enqueue_position, dequeue_position, sequence, dropped, notification_pending,
                   event, position, observed, emits, wakeups, hostVars, historyVars>>

\* Mutant: the record is published and never announced.
Bug_Publish_NoMark(p) ==
    /\ pc[p] = "publish"
    /\ sequence' = [sequence EXCEPT ![Idx(position[p])] = position[p] + 1]
    /\ pc' = [pc EXCEPT ![p] = "idle"]
    /\ UNCHANGED <<enqueue_position, dequeue_position, slot_event, dropped, notification_pending,
                   event, position, observed, emits, wakeups, hostVars, historyVars>>

\* slot.sequence.store(position + 1); TryPush returns true.
Publish(p) ==
    /\ pc[p] = "publish"
    /\ sequence' = [sequence EXCEPT ![Idx(position[p])] = position[p] + 1]
    /\ pc' = [pc EXCEPT ![p] = "mark"]
    /\ UNCHANGED <<enqueue_position, dequeue_position, slot_event, dropped, notification_pending,
                   event, position, observed, emits, wakeups, hostVars, historyVars>>

\* IncrementDroppedCount loads the counter.
DropLoad(p) ==
    /\ pc[p] = "drop"
    /\ observed' = [observed EXCEPT ![p] = dropped]
    /\ pc' = [pc EXCEPT ![p] = "drop_cas"]
    /\ UNCHANGED <<queueVars, event, position, emits, wakeups, hostVars, historyVars>>

\* The saturated counter stays as it is; TryPush and EmitEvent return.
DropSaturated(p) ==
    /\ pc[p] = "drop_cas" /\ observed[p] = DropMax
    /\ pc' = [pc EXCEPT ![p] = "idle"]
    /\ lost' = lost + event[p].weight
    /\ UNCHANGED <<queueVars, event, position, observed, emits, wakeups, hostVars,
                   claimed, delivered, gaps, at_disable>>

\* dropped + min(weight, remaining).
SaturatingSum(a, b) == IF b > DropMax - a THEN DropMax ELSE a + b

\* Mutant: an unconditional store of the sum loses a concurrent drop.
Bug_DropCount_Store(p) ==
    /\ pc[p] = "drop_cas" /\ observed[p] # DropMax
    /\ dropped' = SaturatingSum(observed[p], event[p].weight)
    /\ lost' = lost + event[p].weight
    /\ pc' = [pc EXCEPT ![p] = "idle"]
    /\ UNCHANGED <<enqueue_position, dequeue_position, sequence, slot_event,
                   notification_pending, event, position, observed, emits, wakeups, hostVars,
                   claimed, delivered, gaps, at_disable>>

\* The counter is advanced by the record's weight; nobody is notified of a drop.
DropCount(p) ==
    /\ pc[p] = "drop_cas" /\ observed[p] # DropMax /\ dropped = observed[p]
    /\ dropped' = SaturatingSum(dropped, event[p].weight)
    /\ lost' = lost + event[p].weight
    /\ pc' = [pc EXCEPT ![p] = "idle"]
    /\ UNCHANGED <<enqueue_position, dequeue_position, sequence, slot_event,
                   notification_pending, event, position, observed, emits, wakeups, hostVars,
                   claimed, delivered, gaps, at_disable>>

\* compare_exchange_weak on dropped_ fails, perhaps spuriously, and reloads it.
DropCountFails(p) ==
    /\ pc[p] = "drop_cas" /\ observed[p] # DropMax
    /\ observed' = [observed EXCEPT ![p] = dropped]
    /\ UNCHANGED <<queueVars, pc, event, position, emits, wakeups, hostVars, historyVars>>

\* MarkNotificationPending: an exchange, by every producer.
Mark(p) ==
    /\ pc[p] = "mark"
    /\ notification_pending' = TRUE
    /\ pc' = [pc EXCEPT ![p] = IF notification_pending THEN "idle" ELSE "send"]
    /\ UNCHANGED <<enqueue_position, dequeue_position, sequence, slot_event, dropped,
                   event, position, observed, emits, wakeups, hostVars, historyVars>>

\* The producer that set the flag sends one EventsAvailable.
Send(p) ==
    /\ pc[p] = "send"
    /\ wakeups' = wakeups + 1
    /\ pc' = [pc EXCEPT ![p] = "idle"]
    /\ UNCHANGED <<queueVars, event, position, observed, emits, hostVars, historyVars>>

----------------------------------------------------------------------------
(* The consumer: NativeProbeHost, on one browser-process sequence *)

\* EventsAvailable starts a Drain.
EventsAvailable ==
    /\ hpc = "idle" /\ wakeups > 0
    /\ wakeups' = wakeups - 1
    /\ hpc' = "pop" /\ drained' = FALSE
    /\ UNCHANGED <<queueVars, producerVars, popped, reported, disabling, historyVars>>

\* EventsAvailable after Disable: queue_ is null and Drain returns at once.
EventsAvailableLate ==
    /\ hpc = "detached" /\ wakeups > 0
    /\ wakeups' = wakeups - 1
    /\ UNCHANGED <<queueVars, producerVars, hostVars, historyVars>>

\* Positions whose record is published and not yet taken.
Published == {q \in dequeue_position .. enqueue_position - 1 : sequence[Idx(q)] = q + 1}

\* Mutant: Disable without its Drain.
Bug_Disable_NoDrain ==
    /\ hpc = "idle"
    /\ hpc' = "detached" /\ disabling' = TRUE /\ reported' = 0
    /\ at_disable' = [head |-> dequeue_position, queued |-> Published, dropped |-> dropped]
    /\ UNCHANGED <<queueVars, producerVars, wakeups, popped, drained,
                   claimed, delivered, gaps, lost>>

\* Disable starts the last Drain; the history notes what is owed at that moment.
Disable ==
    /\ hpc = "idle"
    /\ hpc' = "pop" /\ drained' = FALSE /\ disabling' = TRUE
    /\ at_disable' = [head |-> dequeue_position, queued |-> Published, dropped |-> dropped]
    /\ UNCHANGED <<queueVars, producerVars, wakeups, popped, reported,
                   claimed, delivered, gaps, lost>>

\* TryPop loads the head slot's sequence.
Pop ==
    /\ hpc = "pop"
    /\ hpc' = IF Ready THEN "copy" ELSE "count"
    /\ UNCHANGED <<queueVars, producerVars, wakeups, popped, drained, reported, disabling,
                   historyVars>>

\* event = slot.event, a plain read.
Copy ==
    /\ hpc = "copy"
    /\ popped' = slot_event[Idx(dequeue_position)]
    /\ hpc' = "release"
    /\ UNCHANGED <<queueVars, producerVars, wakeups, drained, reported, disabling, historyVars>>

\* The slot is handed back for the next lap and the record is emitted.
Release ==
    /\ hpc = "release"
    /\ sequence' = [sequence EXCEPT ![Idx(dequeue_position)] = dequeue_position + Capacity]
    /\ dequeue_position' = dequeue_position + 1
    /\ delivered' = Append(delivered, popped)
    /\ drained' = TRUE
    /\ hpc' = "pop"
    /\ UNCHANGED <<enqueue_position, slot_event, dropped, notification_pending, producerVars,
                   wakeups, popped, reported, disabling, claimed, gaps, lost, at_disable>>

\* DroppedCount, and a gap for what is unreported if this pass drained a record.
ReportDrops ==
    /\ hpc = "count"
    /\ IF drained /\ dropped > reported
         THEN /\ gaps' = gaps + (dropped - reported)
              /\ reported' = dropped
         ELSE UNCHANGED <<gaps, reported>>
    /\ hpc' = "clear"
    /\ UNCHANGED <<queueVars, producerVars, wakeups, popped, drained, disabling,
                   claimed, delivered, lost, at_disable>>

ClearNotificationPending ==
    /\ hpc = "clear"
    /\ notification_pending' = FALSE
    /\ hpc' = "check"
    /\ UNCHANGED <<enqueue_position, dequeue_position, sequence, slot_event, dropped,
                   producerVars, wakeups, popped, drained, reported, disabling, historyVars>>

\* Drain returns to its caller; Disable then drops the mapping and its counter.
Return ==
    /\ hpc' = IF disabling THEN "detached" ELSE "idle"
    /\ reported' = IF disabling THEN 0 ELSE reported
    /\ UNCHANGED <<popped, drained, disabling>>

\* Mutant: Drain returns after the clear without looking at the queue again.
Bug_CheckEmpty_NoRecheck ==
    /\ hpc = "check"
    /\ Return
    /\ UNCHANGED <<queueVars, producerVars, wakeups, historyVars>>

\* Empty() after the clear: return, or announce the continuation.
CheckEmpty ==
    /\ hpc = "check"
    /\ IF Ready
         THEN hpc' = "mark" /\ UNCHANGED <<popped, drained, reported, disabling>>
         ELSE Return
    /\ UNCHANGED <<queueVars, producerVars, wakeups, historyVars>>

\* The host's own MarkNotificationPending: go round, or leave it to whoever marked.
MarkContinuation ==
    /\ hpc = "mark"
    /\ notification_pending' = TRUE
    /\ IF notification_pending
         THEN Return
         ELSE hpc' = "pop" /\ drained' = FALSE /\ UNCHANGED <<popped, reported, disabling>>
    /\ UNCHANGED <<enqueue_position, dequeue_position, sequence, slot_event, dropped,
                   producerVars, wakeups, historyVars>>

----------------------------------------------------------------------------
Producer(p) ==
    \/ Emit(p) \/ ProbeSlot(p) \/ Reload(p) \/ Claim(p) \/ ClaimFails(p) \/ Write(p)
    \/ Publish(p) \/ DropLoad(p) \/ DropSaturated(p) \/ DropCount(p) \/ DropCountFails(p)
    \/ Mark(p) \/ Send(p)

Drain ==
    \/ Pop \/ Copy \/ Release \/ ReportDrops \/ ClearNotificationPending \/ CheckEmpty
    \/ MarkContinuation

Next ==
    \/ \E p \in Producers : Producer(p)
    \/ EventsAvailable \/ EventsAvailableLate \/ Disable \/ Drain

\* A thread inside EmitEvent is scheduled (its weak exchange may still fail for ever),
\* Mojo delivers and the host drains; nobody owes the queue a new record or a Disable.
Fairness ==
    /\ \A p \in Producers : WF_vars(pc[p] # "idle" /\ Producer(p))
    /\ WF_vars(EventsAvailable) /\ WF_vars(EventsAvailableLate) /\ WF_vars(Drain)

Spec == Init /\ [][Next]_vars
FairSpec == Spec /\ Fairness
----------------------------------------------------------------------------
(* Properties *)

ProducerPlaces == {"idle", "probe", "reload", "cas", "write", "publish", "drop", "drop_cas",
                   "mark", "send"}
HostPlaces == {"idle", "pop", "copy", "release", "count", "clear", "check", "mark", "detached"}

QueueType ==
    /\ enqueue_position \in Nat /\ dequeue_position \in Nat
    /\ sequence \in [Slots -> Nat]
    /\ slot_event \in [Slots -> Event \cup {NoEvent}]
    /\ dropped \in 0 .. DropMax /\ notification_pending \in BOOLEAN

ProducerType ==
    /\ pc \in [Producers -> ProducerPlaces]
    /\ event \in [Producers -> Event \cup {NoEvent}]
    /\ \A p \in Producers : pc[p] # "idle" => event[p] \in Event
    /\ position \in [Producers -> Nat]
    /\ observed \in [Producers -> 0 .. DropMax]
    /\ emits \in [Producers -> Nat]

HostType ==
    /\ wakeups \in Nat
    /\ hpc \in HostPlaces /\ popped \in Event \cup {NoEvent} /\ drained \in BOOLEAN
    /\ reported \in 0 .. DropMax /\ disabling \in BOOLEAN

HistoryType ==
    /\ claimed \in Seq(Event) /\ delivered \in Seq(Event \cup {NoEvent})
    /\ gaps \in Nat /\ lost \in Nat
    /\ at_disable \in [head : Nat, queued : SUBSET Nat, dropped : 0 .. DropMax]

\* Every counter, slot, local and history variable has its type.
TypeOK == QueueType /\ ProducerType /\ HostType /\ HistoryType

(* The strengthening the safety invariants follow from, in named parts. *)

Busy(p) == pc[p] \in {"write", "publish"}

\* At most one lap is claimed and unreleased; the histories agree with the counters.
Window ==
    /\ dequeue_position <= enqueue_position
    /\ enqueue_position <= dequeue_position + Capacity
    /\ Len(claimed) = enqueue_position
    /\ Len(delivered) = dequeue_position
    /\ \A i \in 1 .. dequeue_position : delivered[i] = claimed[i]

\* Each position of the current lap finds its slot free, claimed, or holding its record.
SlotsInWindow ==
    \A q \in dequeue_position .. dequeue_position + Capacity - 1 :
       \/ sequence[Idx(q)] = q
       \/ /\ q < enqueue_position
          /\ sequence[Idx(q)] = q + 1
          /\ slot_event[Idx(q)] = claimed[q + 1]

\* A producer between its claim and its publication owns its position alone.
Ownership ==
    \A p \in Producers :
       /\ position[p] <= enqueue_position
       /\ pc[p] = "cas" /\ position[p] = enqueue_position =>
             enqueue_position < dequeue_position + Capacity
       /\ Busy(p) =>
             /\ dequeue_position <= position[p] /\ position[p] < enqueue_position
             /\ sequence[Idx(position[p])] = position[p]
             /\ claimed[position[p] + 1] = event[p]
             /\ pc[p] = "publish" => slot_event[Idx(position[p])] = event[p]
             /\ \A r \in Producers \ {p} : Busy(r) => position[r] # position[p]

\* The host copies and releases the published head only.
HostAtHead ==
    /\ hpc \in {"copy", "release"} => Ready
    /\ hpc = "release" => popped = claimed[dequeue_position + 1]

\* What every interleaving of producers and host preserves: slots hold what their
\* claims say, a claimed slot has one owner, and the host reads published slots only.
QueueInv == Window /\ SlotsInWindow /\ Ownership /\ HostAtHead

\* The plain (non-atomic) accesses to a slot's event never race: no two producers
\* write one slot at a time, and none writes the slot the host is copying.
NoDataRace ==
    \A p \in Producers : pc[p] = "write" =>
       /\ hpc = "copy" => Idx(position[p]) # Idx(dequeue_position)
       /\ \A q \in Producers \ {p} : pc[q] = "write" => Idx(position[q]) # Idx(position[p])

\* Every state is well typed, the drop counter within its width, and no access to a
\* slot's plain event bytes in TryPush races with another or with TryPop.
Consistent == TypeOK /\ NoDataRace

\* Records reach Session::Emit once each, whole, and in the order in which their
\* producers claimed positions, whatever the interleaving of TryPush and TryPop.
FifoDelivery ==
    /\ Len(delivered) = dequeue_position
    /\ Len(delivered) <= Len(claimed)
    /\ \A i \in 1 .. Len(delivered) : delivered[i] = claimed[i]

\* A published head record is never stranded: with the host at rest, either its
\* producer has still to announce it, or a wake-up is being sent or is in flight.
NoLostWakeup ==
    hpc = "idle" /\ Ready =>
       wakeups > 0 \/ \E p \in Producers : pc[p] \in {"mark", "send"}

\* Who owes the host a wake-up: an unannounced head has a producer about to mark it,
\* and a set flag has a wake-up behind it unless the host is still draining.
WakeupInv ==
    /\ hpc = "idle" /\ Ready /\ ~ notification_pending =>
          \E p \in Producers : pc[p] = "mark"
    /\ notification_pending /\ hpc \in {"idle", "check", "mark"} =>
          wakeups > 0 \/ \E p \in Producers : pc[p] = "send"

\* Every dropped weight is counted once, saturating at the counter's width, and the
\* gap records sum to what has been reported, never to more than was counted.
DropsCountedOnce ==
    /\ dropped = IF lost > DropMax THEN DropMax ELSE lost
    /\ gaps <= dropped
    /\ hpc # "detached" => reported = gaps

\* DropsCountedOnce, and no producer has read a count the counter has not reached.
DropInv ==
    /\ DropsCountedOnce
    /\ \A p \in Producers : pc[p] = "drop_cas" => observed[p] <= dropped

\* What was contiguously published from the head when Disable began has been taken.
HeadRunTaken ==
    \A q \in at_disable.queued :
       at_disable.head .. q \subseteq at_disable.queued => q < dequeue_position

\* What was published when Disable began is taken or still published.
OwedPresent ==
    \A q \in at_disable.queued :
       q < dequeue_position \/ (q < enqueue_position /\ sequence[Idx(q)] = q + 1)

\* Whatever was contiguously published from the head when Disable began has been
\* emitted by the time Disable gives the mapping up.
DisableDeliversHead == hpc = "detached" => HeadRunTaken

\* While Disable runs, nothing it owed is overwritten, and once its drain has found the
\* head unpublished the leading run is taken.
DisableInv ==
    /\ hpc = "idle" => ~ disabling
    /\ hpc = "detached" => disabling
    /\ disabling => at_disable.head <= dequeue_position /\ OwedPresent
    /\ disabling /\ hpc \in {"count", "clear", "check", "mark", "detached"} => HeadRunTaken

\* TryPush takes its drop branch only if all Capacity positions are claimed at
\* that moment: contention alone never loses a record.
DropOnlyWhenFull ==
    [][\A p \in Producers :
          pc[p] = "probe" /\ pc'[p] = "drop" =>
             enqueue_position = dequeue_position + Capacity]_vars

\* No claimed record waits for ever: whenever producers pause (their emits are
\* bounded here), the host catches up with every claim, unless Disable came first.
RecordsDelivered == []<>(Len(delivered) = Len(claimed) \/ hpc = "detached")

\* The queue and its host implement the bounded FIFO: a record is accepted when
\* its position is claimed and delivered when its slot is released.
Fifo == INSTANCE BoundedFifo WITH
    Items <- Event,
    waiting <- SubSeq(claimed, dequeue_position + 1, enqueue_position)

\* Spec implements BoundedFifo's specification.
ImplementsFifo == Fifo!Spec

\* native_probe_host.cc:739 says of Disable that "drops it has not reported" are
\* published "before the mapping goes".
DisableReportsDrops ==
    hpc = "detached" => gaps >= at_disable.dropped
=============================================================================
