-------------------------- MODULE ProbeQueue_proofs --------------------------
(***************************************************************************)
(* Theorems about the probe queue, for every number of producers, every    *)
(* capacity of at least two slots, every counter width and every bound on  *)
(* the records emitted.                                                    *)
(***************************************************************************)
EXTENDS ProbeQueue, SequenceTheorems, TLAPS

----------------------------------------------------------------------------
(* Slot indices *)

\* A position is a number of laps and a slot.
LEMMA DivMod ==
    ASSUME NEW q \in Nat
    PROVE  /\ q \div Capacity \in Int
           /\ q % Capacity \in 0 .. Capacity - 1
           /\ q = Capacity * (q \div Capacity) + (q % Capacity)
BY CapacityAssumption

LEMMA MulMono ==
    ASSUME NEW c \in Int, c >= 2, NEW k \in Int
    PROVE  c * k \in Int /\ (k >= 1 => c * k >= c)
<1>1. c * k \in Int
  OBVIOUS
<1>2. k >= 1 => c * k >= c
  OBVIOUS
<1> QED
  BY <1>1, <1>2

LEMMA MulMinus ==
    ASSUME NEW c \in Int, NEW x \in Int, NEW y \in Int
    PROVE  c * (y - x) = c * y - c * x
OBVIOUS

\* That decomposition is unique.
LEMMA DivModUnique ==
    ASSUME NEW x \in Int, NEW y \in Int,
           NEW r \in 0 .. Capacity - 1, NEW s \in 0 .. Capacity - 1,
           Capacity * x + r = Capacity * y + s
    PROVE  x = y /\ r = s
<1>1. /\ Capacity * x \in Int /\ Capacity * y \in Int
      /\ Capacity * (y - x) = Capacity * y - Capacity * x
      /\ Capacity * (x - y) = Capacity * x - Capacity * y
  BY MulMinus, CapacityAssumption
<1>2. ~ (y - x >= 1) /\ ~ (x - y >= 1)
  BY <1>1, MulMono, CapacityAssumption
<1>3. x = y
  BY <1>2
<1>4. Capacity * x = Capacity * y
  BY <1>3
<1> QED
  BY <1>1, <1>3, <1>4, CapacityAssumption

\* The slot of a position is one of the queue's slots.
LEMMA IdxType ==
    ASSUME NEW q \in Nat
    PROVE  Idx(q) \in Slots
BY CapacityAssumption DEF Idx, Slots

\* One lap later a position has the same slot.
LEMMA IdxPeriod ==
    ASSUME NEW q \in Nat
    PROVE  Idx(q + Capacity) = Idx(q)
<1>1. q + Capacity \in Nat
  BY CapacityAssumption
<1> DEFINE x == q \div Capacity
           y == (q + Capacity) \div Capacity
<1>2. /\ x \in Int /\ y \in Int
      /\ Capacity * (x + 1) = Capacity * x + Capacity
      /\ q = Capacity * x + (q % Capacity)
      /\ q + Capacity = Capacity * y + ((q + Capacity) % Capacity)
      /\ q % Capacity \in 0 .. Capacity - 1
      /\ (q + Capacity) % Capacity \in 0 .. Capacity - 1
  <2>1. x \in Int
    BY DivMod
  <2>2. Capacity * (x + 1) = Capacity * x + Capacity
    BY <2>1, CapacityAssumption
  <2> QED
    BY <1>1, <2>1, <2>2, DivMod
<1>3. Capacity * (x + 1) + (q % Capacity) = Capacity * y + ((q + Capacity) % Capacity)
  <2> HIDE DEF x, y
  <2>1. Capacity * x \in Int /\ Capacity * y \in Int
    BY <1>2, CapacityAssumption
  <2> QED
    BY <1>2, <2>1, CapacityAssumption
<1> QED
  BY <1>2, <1>3, DivModUnique DEF Idx

\* On the first lap a position is its slot.
LEMMA IdxOfSlot ==
    ASSUME NEW i \in Slots
    PROVE  Idx(i) = i
<1>1. i \in Nat /\ i \in 0 .. Capacity - 1 /\ Capacity * 0 + i = i
  BY CapacityAssumption DEF Slots
<1> QED
  BY <1>1, DivMod, DivModUnique DEF Idx

\* Within a window of Capacity positions no two positions share a slot.
LEMMA IdxInjective ==
    ASSUME NEW a \in Nat, NEW b \in Nat, Idx(a) = Idx(b), a <= b, b < a + Capacity
    PROVE  a = b
<1> DEFINE x == a \div Capacity
           y == b \div Capacity
           r == a % Capacity
<1>1. /\ x \in Int /\ y \in Int /\ r \in Int
      /\ a = Capacity * x + r /\ b = Capacity * y + r
  BY DivMod DEF Idx
<1> HIDE DEF x, y, r
<1>2. /\ Capacity * x \in Int /\ Capacity * y \in Int
      /\ Capacity * (y - x) = Capacity * y - Capacity * x
      /\ Capacity * (x - y) = Capacity * x - Capacity * y
  BY <1>1, MulMinus, CapacityAssumption
<1>3. ~ (y - x >= 1) /\ ~ (x - y >= 1)
  BY <1>1, <1>2, MulMono, CapacityAssumption
<1>4. x = y
  BY <1>1, <1>3
<1> QED
  BY <1>1, <1>4

\* Every slot belongs to a position of any window of Capacity positions.
LEMMA IdxSurjective ==
    ASSUME NEW d \in Nat, NEW i \in Slots
    PROVE  \E q \in d .. d + Capacity - 1 : Idx(q) = i
<1> DEFINE x == d \div Capacity
           r == d % Capacity
<1>1. x \in Int /\ r \in 0 .. Capacity - 1 /\ d = Capacity * x + r /\ i \in 0 .. Capacity - 1
  BY DivMod DEF Slots
<1> HIDE DEF x, r
<1>2. Capacity * x \in Int /\ Capacity * (x + 1) = Capacity * x + Capacity
  BY <1>1, CapacityAssumption
<1>3. \A q \in Nat, z \in Int : q = Capacity * z + i => Idx(q) = i
  <2> TAKE q \in Nat, z \in Int
  <2> HAVE q = Capacity * z + i
  <2> QED
    BY <1>1, DivMod, DivModUnique DEF Idx
<1>4. CASE i >= r
  <2>1. Capacity * x + i \in d .. d + Capacity - 1 /\ Capacity * x + i \in Nat
    BY <1>1, <1>2, <1>4, CapacityAssumption
  <2> QED
    BY <2>1, <1>1, <1>3
<1>5. CASE i < r
  <2>1. /\ Capacity * (x + 1) + i \in d .. d + Capacity - 1
        /\ Capacity * (x + 1) + i \in Nat /\ x + 1 \in Int
    BY <1>1, <1>2, <1>5, CapacityAssumption
  <2> QED
    BY <2>1, <1>3
<1> QED
  BY <1>1, <1>4, <1>5, CapacityAssumption
----------------------------------------------------------------------------
(* Type correctness *)

\* A record weighs something.
LEMMA EventWeight ==
    ASSUME NEW e \in Event
    PROVE  e.weight \in Nat \ {0}
BY WeightAssumption DEF Event, Weights

LEMMA TypeInit == Init => TypeOK
<1> SUFFICES ASSUME Init PROVE TypeOK
  OBVIOUS
<1>1. QueueType
  <2>1. \A i \in Slots : i \in Nat
    BY CapacityAssumption DEF Slots
  <2>2. sequence \in [Slots -> Nat]
    BY <2>1 DEF Init
  <2>3. dropped \in 0 .. DropMax /\ enqueue_position \in Nat /\ dequeue_position \in Nat
    BY DropMaxAssumption DEF Init
  <2>4. slot_event \in [Slots -> Event \cup {NoEvent}] /\ notification_pending \in BOOLEAN
    BY DEF Init
  <2> QED
    BY <2>2, <2>3, <2>4 DEF QueueType
<1>2. ProducerType
  BY DropMaxAssumption DEF Init, ProducerType, ProducerPlaces
<1>3. HostType
  <2>1. wakeups \in Nat /\ hpc \in HostPlaces /\ reported \in 0 .. DropMax
    BY DropMaxAssumption DEF Init, HostPlaces
  <2>2. popped \in Event \cup {NoEvent} /\ drained \in BOOLEAN /\ disabling \in BOOLEAN
    BY DEF Init
  <2> QED
    BY <2>1, <2>2 DEF HostType
<1>4. HistoryType
  BY DropMaxAssumption DEF Init, HistoryType
<1> QED
  BY <1>1, <1>2, <1>3, <1>4 DEF TypeOK

LEMMA QueueTypeStep == TypeOK /\ [Next]_vars => QueueType'
<1> SUFFICES ASSUME TypeOK, [Next]_vars PROVE QueueType'
  OBVIOUS
<1> USE DEF QueueType,
            queueVars, producerVars, hostVars, historyVars
<1>0. QueueType /\ ProducerType /\ HostType /\ HistoryType
  BY DEF TypeOK
<1>1. ASSUME NEW p \in Producers, Claim(p) PROVE QueueType'
  BY <1>0, <1>1 DEF Claim, ProducerType
<1>2. ASSUME NEW p \in Producers, Write(p) PROVE QueueType'
  BY <1>0, <1>2 DEF Write, ProducerType
<1>3. ASSUME NEW p \in Producers, Publish(p) PROVE QueueType'
  <2>1. position[p] + 1 \in Nat
    BY <1>0 DEF ProducerType
  <2> QED
    BY <1>0, <1>3, <2>1 DEF Publish
<1>4. ASSUME NEW p \in Producers, DropCount(p) PROVE QueueType'
  BY <1>0, <1>4, EventWeight, DropMaxAssumption DEF DropCount, SaturatingSum, ProducerType
<1>5. ASSUME NEW p \in Producers, Mark(p) PROVE QueueType'
  BY <1>0, <1>5 DEF Mark
<1>6. ASSUME Release PROVE QueueType'
  <2>1. dequeue_position + 1 \in Nat /\ dequeue_position + Capacity \in Nat
    BY <1>0, CapacityAssumption
  <2> QED
    BY <1>0, <1>6, <2>1 DEF Release
<1>7. ASSUME ClearNotificationPending PROVE QueueType'
  BY <1>0, <1>7 DEF ClearNotificationPending
<1>8. ASSUME MarkContinuation PROVE QueueType'
  BY <1>0, <1>8 DEF MarkContinuation, Return
<1>9. ASSUME UNCHANGED queueVars PROVE QueueType'
  BY <1>0, <1>9 DEF queueVars, producerVars, hostVars, historyVars
<1> QED
  BY <1>1, <1>2, <1>3, <1>4, <1>5, <1>6, <1>7, <1>8, <1>9
     DEF Next, Producer, Drain, vars, CheckEmpty, ClaimFails, Copy, Disable, DropCountFails, DropLoad, DropSaturated, Emit, EventsAvailable, EventsAvailableLate, Pop, ProbeSlot, Reload, ReportDrops, Send

LEMMA ProducerTypeStep == TypeOK /\ [Next]_vars => ProducerType'
<1> SUFFICES ASSUME TypeOK, [Next]_vars PROVE ProducerType'
  OBVIOUS
<1> USE DEF ProducerType, ProducerPlaces,
            queueVars, producerVars, hostVars, historyVars
<1>0. QueueType /\ ProducerType
  BY DEF TypeOK
<1>1. ASSUME NEW p \in Producers, Emit(p) PROVE ProducerType'
  <2> DEFINE w == Weight[<<p, emits[p] + 1>>]
  <2>1. event' = [event EXCEPT ![p] = [from |-> p, nth |-> emits[p] + 1, weight |-> w]]
    BY <1>1 DEF Emit
  <2>2. emits[p] + 1 \in Nat /\ emits[p] + 1 \in 1 .. MaxEmits
    BY <1>0, <1>1, MaxEmitsAssumption DEF Emit
  <2>4. w \in Weights
    BY <2>2 DEF Weights
  <2> HIDE DEF w
  <2>3. [from |-> p, nth |-> emits[p] + 1, weight |-> w] \in Event
    BY <2>2, <2>4 DEF Event
  <2> QED
    BY <1>0, <1>1, <2>1, <2>2, <2>3 DEF Emit, QueueType
<1>2. ASSUME NEW p \in Producers, ProbeSlot(p) PROVE ProducerType'
  BY <1>0, <1>2 DEF ProbeSlot
<1>3. ASSUME NEW p \in Producers, Reload(p) PROVE ProducerType'
  BY <1>0, <1>3 DEF Reload, QueueType
<1>4. ASSUME NEW p \in Producers, Claim(p) PROVE ProducerType'
  BY <1>0, <1>4 DEF Claim
<1>5. ASSUME NEW p \in Producers, ClaimFails(p) PROVE ProducerType'
  BY <1>0, <1>5 DEF ClaimFails, QueueType
<1>6. ASSUME NEW p \in Producers, Write(p) PROVE ProducerType'
  BY <1>0, <1>6 DEF Write
<1>7. ASSUME NEW p \in Producers, Publish(p) PROVE ProducerType'
  BY <1>0, <1>7 DEF Publish
<1>8. ASSUME NEW p \in Producers, DropLoad(p) PROVE ProducerType'
  BY <1>0, <1>8, DropMaxAssumption DEF DropLoad, QueueType
<1>9. ASSUME NEW p \in Producers, DropSaturated(p) PROVE ProducerType'
  BY <1>0, <1>9 DEF DropSaturated
<1>10. ASSUME NEW p \in Producers, DropCount(p) PROVE ProducerType'
  BY <1>0, <1>10 DEF DropCount, SaturatingSum
<1>11. ASSUME NEW p \in Producers, DropCountFails(p) PROVE ProducerType'
  BY <1>0, <1>11, DropMaxAssumption DEF DropCountFails, QueueType
<1>12. ASSUME NEW p \in Producers, Mark(p) PROVE ProducerType'
  BY <1>0, <1>12 DEF Mark
<1>13. ASSUME NEW p \in Producers, Send(p) PROVE ProducerType'
  BY <1>0, <1>13 DEF Send
<1>14. ASSUME UNCHANGED producerVars PROVE ProducerType'
  BY <1>0, <1>14 DEF queueVars, producerVars, hostVars, historyVars
<1> QED
  BY <1>1, <1>2, <1>3, <1>4, <1>5, <1>6, <1>7, <1>8, <1>9, <1>10, <1>11, <1>12, <1>13, <1>14
     DEF Next, Producer, Drain, vars, CheckEmpty, ClearNotificationPending, Copy, Disable, EventsAvailable, EventsAvailableLate, MarkContinuation, Pop, Release, ReportDrops

LEMMA HostTypeStep == TypeOK /\ [Next]_vars => HostType'
<1> SUFFICES ASSUME TypeOK, [Next]_vars PROVE HostType'
  OBVIOUS
<1> USE DEF HostType, HostPlaces,
            queueVars, producerVars, hostVars, historyVars
<1>0. QueueType /\ HostType
  BY DEF TypeOK
<1>1. ASSUME NEW p \in Producers, Send(p) PROVE HostType'
  BY <1>0, <1>1 DEF Send
<1>2. ASSUME EventsAvailable PROVE HostType'
  <2>1. wakeups' \in Nat
    <3>1. wakeups \in Nat /\ wakeups > 0 /\ wakeups' = wakeups - 1
      BY <1>0, <1>2 DEF EventsAvailable
    <3> QED
      BY <3>1
  <2> QED
    BY <1>0, <1>2, <2>1 DEF EventsAvailable
<1>3. ASSUME EventsAvailableLate PROVE HostType'
  BY <1>0, <1>3 DEF EventsAvailableLate
<1>4. ASSUME Disable PROVE HostType'
  BY <1>0, <1>4 DEF Disable, Published
<1>5. ASSUME Pop PROVE HostType'
  BY <1>0, <1>5 DEF Pop
<1>6. ASSUME Copy PROVE HostType'
  BY <1>0, <1>6, IdxType DEF Copy, QueueType
<1>7. ASSUME Release PROVE HostType'
  BY <1>0, <1>7 DEF Release
<1>8. ASSUME ReportDrops PROVE HostType'
  BY <1>0, <1>8, DropMaxAssumption DEF ReportDrops, QueueType
<1>9. ASSUME ClearNotificationPending PROVE HostType'
  BY <1>0, <1>9 DEF ClearNotificationPending
<1>10. ASSUME CheckEmpty PROVE HostType'
  BY <1>0, <1>10, DropMaxAssumption DEF CheckEmpty, Return
<1>11. ASSUME MarkContinuation PROVE HostType'
  <2>1. CASE notification_pending
    <3>1. reported' \in 0 .. DropMax
      BY <1>0, <1>11, <2>1, DropMaxAssumption DEF MarkContinuation, Return
    <3> QED
      BY <1>0, <1>11, <2>1, <3>1 DEF MarkContinuation, Return
  <2>2. CASE ~ notification_pending
    BY <1>0, <1>11, <2>2 DEF MarkContinuation
  <2> QED
    BY <2>1, <2>2
<1>12. ASSUME UNCHANGED <<wakeups, hostVars>> PROVE HostType'
  BY <1>0, <1>12 DEF queueVars, producerVars, hostVars, historyVars
<1> QED
  BY <1>1, <1>2, <1>3, <1>4, <1>5, <1>6, <1>7, <1>8, <1>9, <1>10, <1>11, <1>12
     DEF Next, Producer, Drain, vars, Claim, ClaimFails, DropCount, DropCountFails, DropLoad, DropSaturated, Emit, Mark, ProbeSlot, Publish, Reload, Write

LEMMA HistoryTypeStep == TypeOK /\ [Next]_vars => HistoryType'
<1> SUFFICES ASSUME TypeOK, [Next]_vars PROVE HistoryType'
  OBVIOUS
<1> USE DEF HistoryType,
            queueVars, producerVars, hostVars, historyVars
<1>0. QueueType /\ ProducerType /\ HostType /\ HistoryType
  BY DEF TypeOK
<1>1. ASSUME NEW p \in Producers, Claim(p) PROVE HistoryType'
  BY <1>0, <1>1 DEF Claim, ProducerType
<1>2. ASSUME NEW p \in Producers, DropSaturated(p) PROVE HistoryType'
  BY <1>0, <1>2, EventWeight DEF DropSaturated, ProducerType
<1>3. ASSUME NEW p \in Producers, DropCount(p) PROVE HistoryType'
  <2>1. lost + event[p].weight \in Nat
    BY <1>0, <1>3, EventWeight DEF DropCount, ProducerType
  <2> QED
    BY <1>0, <1>3, <2>1 DEF DropCount
<1>4. ASSUME Disable PROVE HistoryType'
  BY <1>0, <1>4 DEF Disable, Published, QueueType, HostType
<1>5. ASSUME Release PROVE HistoryType'
  BY <1>0, <1>5 DEF Release, QueueType, HostType
<1>6. ASSUME ReportDrops PROVE HistoryType'
  BY <1>0, <1>6, DropMaxAssumption DEF ReportDrops, QueueType, HostType
<1>7. ASSUME UNCHANGED historyVars PROVE HistoryType'
  BY <1>0, <1>7 DEF queueVars, producerVars, hostVars, historyVars
<1> QED
  BY <1>1, <1>2, <1>3, <1>4, <1>5, <1>6, <1>7
     DEF Next, Producer, Drain, vars, CheckEmpty, ClaimFails, ClearNotificationPending, Copy, DropCountFails, DropLoad, Emit, EventsAvailable, EventsAvailableLate, Mark, MarkContinuation, Pop, ProbeSlot, Publish, Reload, Send, Write

\* Every reachable state is well typed: in particular the drop counter never leaves
\* its width, and records in the slots and in the output are producers' records.
THEOREM TypeCorrect == Spec => []TypeOK
<1>1. TypeOK /\ [Next]_vars => TypeOK'
  BY QueueTypeStep, ProducerTypeStep, HostTypeStep, HistoryTypeStep DEF TypeOK
<1> QED
  BY TypeInit, <1>1, PTL DEF Spec
----------------------------------------------------------------------------
(* No lost wake-up *)

LEMMA WakeupInit == Init => WakeupInv
<1> SUFFICES ASSUME Init PROVE WakeupInv
  OBVIOUS
<1>1. ~ Ready
  BY IdxOfSlot, CapacityAssumption DEF Init, Ready, Slots
<1> QED
  BY <1>1 DEF Init, WakeupInv

LEMMA WakeupStep == TypeOK /\ WakeupInv /\ [Next]_vars => WakeupInv'
<1> SUFFICES ASSUME TypeOK, WakeupInv, [Next]_vars PROVE WakeupInv'
  OBVIOUS
<1>0. pc \in [Producers -> ProducerPlaces] /\ wakeups \in Nat
  BY DEF TypeOK, ProducerType, HostType
<1>w. WakeupInv
  OBVIOUS
<1> USE DEF WakeupInv, Ready
<1>1. ASSUME NEW p \in Producers, pc[p] \notin {"mark", "send"},
             \A q \in Producers \ {p} : pc'[q] = pc[q],
             UNCHANGED <<sequence, dequeue_position, notification_pending, wakeups, hpc>>
      PROVE  WakeupInv'
  BY <1>0, <1>w, <1>1
<1>2. ASSUME NEW p \in Producers, Publish(p) PROVE WakeupInv'
  BY <1>0, <1>w, <1>2 DEF Publish, hostVars
<1>3. ASSUME NEW p \in Producers, Mark(p) PROVE WakeupInv'
  BY <1>0, <1>w, <1>3 DEF Mark, hostVars
<1>4. ASSUME NEW p \in Producers, Send(p) PROVE WakeupInv'
  <2>1. wakeups' > 0
    BY <1>0, <1>4 DEF Send
  <2> QED
    BY <1>0, <1>w, <1>4, <2>1 DEF Send, hostVars, queueVars
<1>5. ASSUME NEW p \in Producers, Producer(p) PROVE WakeupInv'
  <2>1. Emit(p) \/ ProbeSlot(p) \/ Reload(p) \/ Claim(p) \/ ClaimFails(p) \/ Write(p)
        \/ DropLoad(p) \/ DropSaturated(p) \/ DropCount(p) \/ DropCountFails(p)
        => /\ pc[p] \notin {"mark", "send"}
           /\ \A q \in Producers \ {p} : pc'[q] = pc[q]
           /\ UNCHANGED <<sequence, dequeue_position, notification_pending, wakeups, hpc>>
    BY <1>0 DEF Emit, ProbeSlot, Reload, Claim, ClaimFails, Write, DropLoad, DropSaturated,
                DropCount, DropCountFails, queueVars, hostVars
  <2> QED
    BY <1>1, <1>2, <1>3, <1>4, <1>5, <2>1 DEF Producer
<1>6. ASSUME hpc' \in {"pop", "copy", "release", "count", "clear", "detached"} PROVE WakeupInv'
  BY <1>6
<1>7. ASSUME ClearNotificationPending PROVE WakeupInv'
  BY <1>7 DEF ClearNotificationPending
<1>8. ASSUME EventsAvailableLate PROVE WakeupInv'
  BY <1>8 DEF EventsAvailableLate, hostVars
<1>9. ASSUME CheckEmpty PROVE WakeupInv'
  BY <1>w, <1>9 DEF CheckEmpty, Return, queueVars, producerVars
<1>10. ASSUME MarkContinuation PROVE WakeupInv'
  BY <1>w, <1>10 DEF MarkContinuation, Return, producerVars
<1>11. ASSUME UNCHANGED vars PROVE WakeupInv'
  BY <1>w, <1>11 DEF vars, queueVars, producerVars, hostVars
<1>12. EventsAvailable \/ Disable \/ Pop \/ Copy \/ Release \/ ReportDrops
       => hpc' \in {"pop", "copy", "release", "count", "clear", "detached"}
  BY DEF EventsAvailable, Disable, Pop, Copy, Release, ReportDrops
<1> QED
  BY <1>5, <1>6, <1>7, <1>8, <1>9, <1>10, <1>11, <1>12 DEF Next, Drain

\* No interleaving of producers, wake-ups and drains strands a published record: with
\* the host idle and a record ready, somebody is about to wake it.
THEOREM NoLostWakeupCorrect == Spec => []NoLostWakeup
<1>1. WakeupInv => NoLostWakeup
  BY DEF WakeupInv, NoLostWakeup
<1> QED
  BY TypeCorrect, WakeupInit, WakeupStep, <1>1, PTL DEF Spec
----------------------------------------------------------------------------
(* The queue's data invariant *)

\* IdxInjective for two positions of the current lap, in either order.
LEMMA LapUnique ==
    ASSUME NEW d \in Nat, NEW a \in d .. d + Capacity - 1, NEW b \in d .. d + Capacity - 1,
           Idx(a) = Idx(b)
    PROVE  a = b
<1>1. a \in Nat /\ b \in Nat /\ a < b + Capacity /\ b < a + Capacity
  BY CapacityAssumption
<1>2. CASE a <= b
  BY <1>1, <1>2, IdxInjective
<1>3. CASE b <= a
  BY <1>1, <1>3, IdxInjective
<1> QED
  BY <1>1, <1>2, <1>3

\* The types the data invariant's steps need, without the Boolean variables.
LEMMA QueueFacts ==
    ASSUME TypeOK
    PROVE  /\ enqueue_position \in Nat /\ dequeue_position \in Nat
           /\ sequence \in [Slots -> Nat]
           /\ slot_event \in [Slots -> Event \cup {NoEvent}]
           /\ pc \in [Producers -> ProducerPlaces]
           /\ event \in [Producers -> Event \cup {NoEvent}]
           /\ \A p \in Producers : pc[p] # "idle" => event[p] \in Event
           /\ position \in [Producers -> Nat]
           /\ claimed \in Seq(Event) /\ delivered \in Seq(Event \cup {NoEvent})
           /\ popped \in Event \cup {NoEvent}
BY DEF TypeOK, QueueType, ProducerType, HostType, HistoryType

\* A ready head has been claimed, and its slot holds what was claimed.
LEMMA ReadyHead ==
    ASSUME TypeOK, QueueInv, Ready
    PROVE  /\ dequeue_position < enqueue_position
           /\ slot_event[Idx(dequeue_position)] = claimed[dequeue_position + 1]
<1>1. dequeue_position \in dequeue_position .. dequeue_position + Capacity - 1
  BY QueueFacts, CapacityAssumption
<1> QED
  BY <1>1, QueueFacts DEF QueueInv, SlotsInWindow, Ready

LEMMA QueueInit == Init => QueueInv
<1> SUFFICES ASSUME Init PROVE QueueInv
  OBVIOUS
<1>1. Window
  BY CapacityAssumption DEF Init, Window
<1>2. SlotsInWindow
  BY IdxOfSlot, CapacityAssumption DEF Init, SlotsInWindow, Slots
<1>3. Ownership
  <2>1. /\ \A p \in Producers : pc[p] = "idle" /\ position[p] = 0
        /\ enqueue_position = 0
    BY DEF Init
  <2>2. \A p \in Producers : pc[p] # "cas" /\ ~ Busy(p)
    BY <2>1 DEF Busy
  <2>3. \A p \in Producers : position[p] <= enqueue_position
    <3>1. 0 <= 0
      OBVIOUS
    <3> QED
      BY <2>1, <3>1, Zenon
  <2> QED
    BY <2>2, <2>3 DEF Ownership
<1>4. HostAtHead
  BY DEF Init, HostAtHead
<1> QED
  BY <1>1, <1>2, <1>3, <1>4 DEF QueueInv

LEMMA ClaimStep ==
    ASSUME TypeOK, QueueInv, NEW p \in Producers, Claim(p)
    PROVE  QueueInv'
<1>1. /\ pc[p] = "cas" /\ enqueue_position = position[p]
      /\ enqueue_position' = enqueue_position + 1
      /\ claimed' = Append(claimed, event[p]) /\ event[p] \in Event
      /\ pc' = [pc EXCEPT ![p] = "write"]
      /\ UNCHANGED <<dequeue_position, sequence, slot_event, event, position, delivered,
                     hpc, popped>>
  BY QueueFacts DEF Claim, hostVars
<1>2. enqueue_position < dequeue_position + Capacity
  BY <1>1 DEF QueueInv, Ownership
<1>3. /\ Len(claimed') = enqueue_position + 1
      /\ \A i \in 1 .. enqueue_position : claimed'[i] = claimed[i]
      /\ claimed'[enqueue_position + 1] = event[p]
  <2>1. claimed \in Seq(Event) /\ Len(claimed) = enqueue_position
    BY QueueFacts DEF QueueInv, Window
  <2> QED
    BY <1>1, <2>1, AppendProperties
<1>0. enqueue_position \in Nat /\ dequeue_position \in Nat
  BY QueueFacts
<1>4. Window'
  <2>1. \A i \in 1 .. dequeue_position : i \in 1 .. enqueue_position
    BY <1>0 DEF QueueInv, Window
  <2>2. \A i \in 1 .. dequeue_position : delivered'[i] = claimed'[i]
    BY <1>1, <1>3, <2>1 DEF QueueInv, Window
  <2>3. /\ dequeue_position' <= enqueue_position'
        /\ enqueue_position' <= dequeue_position' + Capacity
    BY <1>0, <1>1, <1>2, CapacityAssumption DEF QueueInv, Window
  <2>4. Len(claimed') = enqueue_position' /\ Len(delivered') = dequeue_position'
    BY <1>1, <1>3 DEF QueueInv, Window
  <2> QED
    BY <1>1, <2>2, <2>3, <2>4 DEF Window
<1>5. SlotsInWindow'
  <2>1. \A q \in Nat : q < enqueue_position => claimed'[q + 1] = claimed[q + 1]
    <3>1. \A q \in Nat : q < enqueue_position => q + 1 \in 1 .. enqueue_position
      BY <1>0
    <3> QED
      BY <1>3, <3>1
  <2>2. \A q \in dequeue_position .. dequeue_position + Capacity - 1 : q \in Nat
    BY QueueFacts, CapacityAssumption
  <2>3. \A q \in Nat : q < enqueue_position => q < enqueue_position'
    BY <1>0, <1>1
  <2>4. SlotsInWindow
    BY DEF QueueInv
  <2> QED
    BY <1>1, <2>1, <2>2, <2>3, <2>4 DEF SlotsInWindow, Idx
<1>6. sequence[Idx(enqueue_position)] = enqueue_position
  <2>1. enqueue_position \in dequeue_position .. dequeue_position + Capacity - 1
    BY <1>2, QueueFacts, CapacityAssumption DEF QueueInv, Window
  <2> QED
    BY <2>1, QueueFacts DEF QueueInv, SlotsInWindow
<1>7. Ownership'
  <2> SUFFICES ASSUME NEW r \in Producers
               PROVE  /\ position'[r] <= enqueue_position'
                      /\ pc'[r] = "cas" /\ position'[r] = enqueue_position' =>
                            enqueue_position' < dequeue_position' + Capacity
                      /\ Busy(r)' =>
                            /\ dequeue_position' <= position'[r]
                            /\ position'[r] < enqueue_position'
                            /\ sequence'[Idx(position[r])'] = position'[r]
                            /\ claimed'[position'[r] + 1] = event'[r]
                            /\ pc'[r] = "publish" => slot_event'[Idx(position[r])'] = event'[r]
                            /\ \A u \in Producers \ {r} :
                                  Busy(u)' => position'[u] # position'[r]
    BY DEF Ownership
  <2>1. position[r] <= enqueue_position /\ position[r] \in Nat
    BY QueueFacts DEF QueueInv, Ownership
  <2>2. \A u \in Producers \ {p} : Busy(u)' => Busy(u) /\ position[u] < enqueue_position
    BY <1>1, QueueFacts DEF QueueInv, Ownership, Busy
  <2>3. CASE r = p
    <3>1. dequeue_position <= enqueue_position
      BY DEF QueueInv, Window
    <3> QED
      BY <1>1, <1>3, <1>6, <2>2, <2>3, <3>1, QueueFacts DEF Busy, Idx
  <2>4. CASE r # p
    <3>1. Busy(r)' => Busy(r) /\ claimed'[position[r] + 1] = claimed[position[r] + 1]
      BY <1>3, <2>1, <2>2, <2>4, QueueFacts
    <3>2. /\ position[r] <= enqueue_position + 1
          /\ position[r] # enqueue_position + 1
          /\ enqueue_position < enqueue_position + 1
          /\ position[r] < enqueue_position => position[r] < enqueue_position + 1
      BY <1>0, <2>1
    <3>3. pc'[r] = pc[r]
      BY <1>1, <2>4, QueueFacts
    <3>4. Busy(r) => \A u \in Producers \ {r} : Busy(u)' => position[u] # position[r]
      <4>1. \A u \in Producers \ {r} : u # p /\ Busy(u)' => Busy(u)
        BY <2>2
      <4>2. Busy(r) => position[r] # position[p]
        BY <1>0, <1>1, <2>1 DEF QueueInv, Ownership
      <4> QED
        BY <4>1, <4>2 DEF QueueInv, Ownership
    <3>5. Ownership
      BY DEF QueueInv
    <3> QED
      BY <1>1, <3>1, <3>2, <3>3, <3>4, <3>5 DEF Ownership, Idx
  <2> QED
    BY <2>3, <2>4
<1>8. HostAtHead'
  <2>1. Ready => claimed'[dequeue_position + 1] = claimed[dequeue_position + 1]
    BY ReadyHead, <1>3, QueueFacts
  <2> QED
    BY <1>1, <2>1 DEF QueueInv, HostAtHead, Ready, Idx
<1> QED
  BY <1>4, <1>5, <1>7, <1>8 DEF QueueInv

LEMMA WriteStep ==
    ASSUME TypeOK, QueueInv, NEW p \in Producers, Write(p)
    PROVE  QueueInv'
<1> DEFINE a == position[p]
<1>1. /\ pc[p] = "write" /\ Busy(p)
      /\ slot_event' = [slot_event EXCEPT ![Idx(a)] = event[p]]
      /\ pc' = [pc EXCEPT ![p] = "publish"]
      /\ UNCHANGED <<enqueue_position, dequeue_position, sequence, event, position,
                     claimed, delivered, hpc, popped>>
  BY DEF Write, Busy, hostVars, historyVars
<1>2. /\ a \in Nat /\ a \in dequeue_position .. dequeue_position + Capacity - 1
      /\ sequence[Idx(a)] = a /\ Idx(a) \in Slots
  BY <1>1, QueueFacts, IdxType, CapacityAssumption DEF QueueInv, Ownership, Window
<1>3. Window' /\ HostAtHead'
  BY <1>1 DEF QueueInv, Window, HostAtHead, Ready, Idx
<1>4. SlotsInWindow'
  <2> SUFFICES ASSUME NEW q \in dequeue_position .. dequeue_position + Capacity - 1,
                      sequence[Idx(q)] # q
               PROVE  /\ q < enqueue_position /\ sequence[Idx(q)] = q + 1
                      /\ slot_event'[Idx(q)] = claimed[q + 1]
    BY <1>1 DEF SlotsInWindow, Idx
  <2>1. /\ q < enqueue_position /\ sequence[Idx(q)] = q + 1
        /\ slot_event[Idx(q)] = claimed[q + 1] /\ q \in Nat
    BY QueueFacts, CapacityAssumption DEF QueueInv, SlotsInWindow
  <2>2. Idx(q) # Idx(a)
    BY <1>2, LapUnique, QueueFacts
  <2> QED
    BY <1>1, <2>1, <2>2, QueueFacts, IdxType
<1>5. Ownership'
  <2>1. \A r \in Producers : r # p /\ Busy(r) => Idx(position[r]) # Idx(a)
    <3> TAKE r \in Producers
    <3> HAVE r # p /\ Busy(r)
    <3>1. position[r] # a /\ position[r] \in dequeue_position .. dequeue_position + Capacity - 1
      BY <1>1, QueueFacts, CapacityAssumption DEF QueueInv, Ownership, Window
    <3> QED
      BY <1>2, <3>1, LapUnique, QueueFacts
  <2>2. \A r \in Producers : Busy(r)' <=> Busy(r)
    BY <1>1, QueueFacts DEF Busy
  <2>3. slot_event'[Idx(a)] = event[p]
    BY <1>1, <1>2, QueueFacts
  <2>4. \A r \in Producers : r # p /\ Busy(r) =>
           slot_event'[Idx(position[r])] = slot_event[Idx(position[r])]
    BY <1>1, <2>1, QueueFacts, IdxType
  <2>5. \A r \in Producers : r # p => pc'[r] = pc[r]
    BY <1>1, QueueFacts
  <2>6. pc'[p] = "publish"
    BY <1>1, QueueFacts
  <2>7. Ownership
    BY DEF QueueInv
  <2> QED
    BY <1>1, <2>2, <2>3, <2>4, <2>5, <2>6, <2>7 DEF Ownership, Idx
<1> QED
  BY <1>3, <1>4, <1>5 DEF QueueInv

LEMMA PublishStep ==
    ASSUME TypeOK, QueueInv, NEW p \in Producers, Publish(p)
    PROVE  QueueInv'
<1> DEFINE a == position[p]
<1>0. enqueue_position \in Nat /\ dequeue_position \in Nat
  BY QueueFacts
<1>1. /\ pc[p] = "publish" /\ Busy(p)
      /\ sequence' = [sequence EXCEPT ![Idx(a)] = a + 1]
      /\ pc' = [pc EXCEPT ![p] = "mark"]
      /\ UNCHANGED <<enqueue_position, dequeue_position, slot_event, event, position,
                     claimed, delivered, hpc, popped>>
  BY DEF Publish, Busy, hostVars, historyVars
<1>2. /\ a \in Nat /\ a \in dequeue_position .. dequeue_position + Capacity - 1
      /\ a < enqueue_position
      /\ sequence[Idx(a)] = a /\ Idx(a) \in Slots
      /\ claimed[a + 1] = event[p] /\ slot_event[Idx(a)] = event[p]
  BY <1>1, QueueFacts, IdxType, CapacityAssumption DEF QueueInv, Ownership, Window
<1>3. sequence'[Idx(a)] = a + 1 /\ \A i \in Slots : i # Idx(a) => sequence'[i] = sequence[i]
  BY <1>1, <1>2, QueueFacts
<1>4. Window'
  BY <1>1 DEF QueueInv, Window
<1>5. SlotsInWindow'
  <2> SUFFICES ASSUME NEW q \in dequeue_position .. dequeue_position + Capacity - 1
               PROVE  \/ sequence'[Idx(q)] = q
                      \/ /\ q < enqueue_position
                         /\ sequence'[Idx(q)] = q + 1
                         /\ slot_event[Idx(q)] = claimed[q + 1]
    BY <1>1 DEF SlotsInWindow, Idx
  <2>1. q \in Nat
    BY <1>0, CapacityAssumption
  <2>2. CASE Idx(q) = Idx(a)
    BY <1>0, <1>2, <1>3, <2>2, LapUnique
  <2>3. CASE Idx(q) # Idx(a)
    BY <1>3, <2>1, <2>3, IdxType DEF QueueInv, SlotsInWindow
  <2> QED
    BY <2>2, <2>3
<1>6. Ownership'
  <2>1. \A r \in Producers : Busy(r)' => Busy(r) /\ r # p
    BY <1>1, QueueFacts DEF Busy
  <2>2. \A r \in Producers : r # p /\ Busy(r) =>
           sequence'[Idx(position[r])] = sequence[Idx(position[r])]
    <3> TAKE r \in Producers
    <3> HAVE r # p /\ Busy(r)
    <3>1. /\ position[r] # a /\ position[r] \in Nat
          /\ position[r] \in dequeue_position .. dequeue_position + Capacity - 1
      BY <1>1, QueueFacts, CapacityAssumption DEF QueueInv, Ownership, Window
    <3> QED
      BY <1>0, <1>2, <1>3, <3>1, LapUnique, IdxType
  <2>3. \A r \in Producers : r # p => pc'[r] = pc[r]
    BY <1>1, QueueFacts
  <2>4. pc'[p] = "mark"
    BY <1>1, QueueFacts
  <2>5. Ownership
    BY DEF QueueInv
  <2> QED
    BY <1>1, <2>1, <2>2, <2>3, <2>4, <2>5 DEF Ownership, Idx
<1>7. HostAtHead'
  <2>1. Ready => Ready'
    <3> HAVE Ready
    <3>1. /\ dequeue_position \in dequeue_position .. dequeue_position + Capacity - 1
          /\ Idx(dequeue_position) \in Slots
      BY <1>0, CapacityAssumption, IdxType
    <3>2. Idx(dequeue_position) # Idx(a)
      <4> SUFFICES ASSUME Idx(dequeue_position) = Idx(a) PROVE FALSE
        OBVIOUS
      <4>1. a = dequeue_position
        BY <1>0, <1>2, <3>1, LapUnique
      <4> QED
        BY <1>0, <1>2, <4>1 DEF Ready
    <3> QED
      BY <1>1, <1>3, <3>1, <3>2 DEF Ready, Idx
  <2> QED
    BY <1>1, <2>1 DEF QueueInv, HostAtHead
<1> QED
  BY <1>4, <1>5, <1>6, <1>7 DEF QueueInv

LEMMA ReleaseStep ==
    ASSUME TypeOK, QueueInv, Release
    PROVE  QueueInv'
<1> DEFINE d == dequeue_position
<1>0. enqueue_position \in Nat /\ d \in Nat /\ d + Capacity \in Nat
  BY QueueFacts, CapacityAssumption
<1>1. /\ hpc = "release" /\ Ready
      /\ sequence' = [sequence EXCEPT ![Idx(d)] = d + Capacity]
      /\ dequeue_position' = d + 1
      /\ delivered' = Append(delivered, popped) /\ popped = claimed[d + 1]
      /\ hpc' = "pop"
      /\ UNCHANGED <<enqueue_position, slot_event, pc, event, position, claimed>>
  BY DEF Release, producerVars, QueueInv, HostAtHead
<1>2. d < enqueue_position /\ Idx(d) \in Slots /\ sequence[Idx(d)] = d + 1
  BY <1>0, <1>1, ReadyHead, IdxType DEF Ready
<1>3. /\ sequence'[Idx(d)] = d + Capacity
      /\ \A i \in Slots : i # Idx(d) => sequence'[i] = sequence[i]
  BY <1>1, <1>2, QueueFacts
<1>4. Window'
  <2>1. /\ Len(delivered') = d + 1 /\ delivered'[d + 1] = claimed[d + 1]
        /\ \A i \in 1 .. d : delivered'[i] = delivered[i]
    <3>1. /\ delivered \in Seq(Event \cup {NoEvent}) /\ popped \in Event \cup {NoEvent}
          /\ Len(delivered) = d
      BY QueueFacts DEF QueueInv, Window
    <3> QED
      BY <1>1, <3>1, AppendProperties
  <2>2. \A i \in 1 .. d + 1 : i \in 1 .. d \/ i = d + 1
    BY <1>0
  <2>3. /\ d + 1 <= enqueue_position
        /\ enqueue_position <= d + 1 + Capacity
    BY <1>0, <1>2, CapacityAssumption DEF QueueInv, Window
  <2> QED
    BY <1>1, <2>1, <2>2, <2>3 DEF QueueInv, Window
<1>5. SlotsInWindow'
  <2> SUFFICES ASSUME NEW q \in d + 1 .. d + 1 + Capacity - 1
               PROVE  \/ sequence'[Idx(q)] = q
                      \/ /\ q < enqueue_position
                         /\ sequence'[Idx(q)] = q + 1
                         /\ slot_event[Idx(q)] = claimed[q + 1]
    BY <1>1 DEF SlotsInWindow, Idx
  <2>1. q \in Nat
    BY <1>0, CapacityAssumption
  <2>2. CASE q = d + Capacity
    BY <1>0, <1>3, <2>2, IdxPeriod
  <2>3. CASE q # d + Capacity
    <3>1. q \in d .. d + Capacity - 1 /\ q # d /\ d \in d .. d + Capacity - 1
      BY <1>0, <2>1, <2>3, CapacityAssumption
    <3>2. Idx(q) # Idx(d)
      BY <1>0, <3>1, LapUnique
    <3> QED
      BY <1>3, <2>1, <3>1, <3>2, IdxType DEF QueueInv, SlotsInWindow
  <2> QED
    BY <2>2, <2>3
<1>6. Ownership'
  <2>1. \A r \in Producers : Busy(r)' <=> Busy(r)
    BY <1>1 DEF Busy
  <2>2. \A r \in Producers : Busy(r) =>
           d + 1 <= position[r] /\ sequence'[Idx(position[r])] = sequence[Idx(position[r])]
    <3> TAKE r \in Producers
    <3> HAVE Busy(r)
    <3>1. /\ position[r] \in Nat /\ d \in d .. d + Capacity - 1
          /\ position[r] \in d .. d + Capacity - 1
          /\ sequence[Idx(position[r])] = position[r]
      BY <1>0, QueueFacts, CapacityAssumption DEF QueueInv, Ownership, Window
    <3>2. position[r] # d
      BY <1>0, <1>2, <3>1
    <3>3. Idx(position[r]) # Idx(d)
      BY <1>0, <3>1, <3>2, LapUnique
    <3> QED
      BY <1>0, <1>3, <3>1, <3>2, <3>3, IdxType
  <2>3. enqueue_position < d + Capacity => enqueue_position < d + 1 + Capacity
    BY <1>0, CapacityAssumption
  <2>4. Ownership
    BY DEF QueueInv
  <2> QED
    BY <1>1, <2>1, <2>2, <2>3, <2>4 DEF Ownership, Idx
<1>7. HostAtHead'
  BY <1>1 DEF HostAtHead
<1> QED
  BY <1>4, <1>5, <1>6, <1>7 DEF QueueInv

\* A producer that has just found its slot free has room for it if it is up to date.
LEMMA ProbeSlotStep ==
    ASSUME TypeOK, QueueInv, NEW p \in Producers, ProbeSlot(p)
    PROVE  QueueInv'
<1>0. enqueue_position \in Nat /\ dequeue_position \in Nat
  BY QueueFacts
<1>1. /\ pc[p] = "probe" /\ pc'[p] \in {"cas", "drop", "reload"}
      /\ pc'[p] = "cas" => sequence[Idx(position[p])] = position[p]
      /\ \A r \in Producers : r # p => pc'[r] = pc[r]
      /\ UNCHANGED <<enqueue_position, dequeue_position, sequence, slot_event, event,
                     position, claimed, delivered, hpc, popped>>
  BY QueueFacts DEF ProbeSlot, queueVars, hostVars, historyVars
<1>2. ASSUME pc'[p] = "cas", position[p] = enqueue_position
      PROVE  enqueue_position < dequeue_position + Capacity
  <2> SUFFICES ASSUME enqueue_position = dequeue_position + Capacity PROVE FALSE
    BY <1>0, CapacityAssumption DEF QueueInv, Window
  <2>1. dequeue_position \in dequeue_position .. dequeue_position + Capacity - 1
    BY <1>0, CapacityAssumption
  <2>2. sequence[Idx(dequeue_position)] \in {dequeue_position, dequeue_position + 1}
    BY <2>1 DEF QueueInv, SlotsInWindow
  <2>3. sequence[Idx(dequeue_position)] = dequeue_position + Capacity
    BY <1>0, <1>1, <1>2, IdxPeriod
  <2> QED
    BY <1>0, <2>2, <2>3, CapacityAssumption
<1>3. Ownership'
  <2>1. \A r \in Producers : Busy(r)' <=> Busy(r)
    BY <1>1 DEF Busy
  <2>2. Ownership
    BY DEF QueueInv
  <2> QED
    BY <1>1, <1>2, <2>1, <2>2 DEF Ownership, Busy, Idx
<1> QED
  BY <1>1, <1>3 DEF QueueInv, Window, SlotsInWindow, HostAtHead, Ready, Idx

\* Emit, Reload and ClaimFails load the current position.
LEMMA LoadStep ==
    ASSUME TypeOK, QueueInv, NEW p \in Producers,
           pc[p] \in {"idle", "reload", "cas"}, pc' = [pc EXCEPT ![p] = "probe"],
           position' = [position EXCEPT ![p] = enqueue_position],
           \A r \in Producers : r # p => event'[r] = event[r],
           UNCHANGED <<queueVars, hostVars, historyVars>>
    PROVE  QueueInv'
<1>1. /\ \A r \in Producers : r # p => /\ pc'[r] = pc[r] /\ position'[r] = position[r]
                                       /\ event'[r] = event[r]
      /\ pc'[p] = "probe" /\ position'[p] = enqueue_position
      /\ UNCHANGED <<enqueue_position, dequeue_position, sequence, slot_event,
                     claimed, delivered, hpc, popped>>
  BY QueueFacts DEF queueVars, hostVars, historyVars
<1>2. enqueue_position <= enqueue_position
  BY QueueFacts
<1>3. Ownership'
  <2>1. \A r \in Producers : Busy(r)' => Busy(r) /\ r # p
    BY <1>1 DEF Busy
  <2>2. Ownership
    BY DEF QueueInv
  <2> QED
    BY <1>1, <1>2, <2>1, <2>2 DEF Ownership, Busy, Idx
<1> QED
  BY <1>1, <1>3 DEF QueueInv, Window, SlotsInWindow, HostAtHead, Ready, Idx

\* Steps that touch neither the slots nor a claim.
LEMMA QuietProducerStep ==
    ASSUME TypeOK, QueueInv, NEW p \in Producers,
           pc[p] \in {"drop", "drop_cas", "mark", "send"}, pc'[p] \in {"drop_cas", "idle", "send"},
           \A r \in Producers : r # p => pc'[r] = pc[r],
           UNCHANGED <<enqueue_position, dequeue_position, sequence, slot_event, event,
                       position, claimed, delivered, hpc, popped>>
    PROVE  QueueInv'
<1>1. Ownership'
  <2>1. \A r \in Producers : (Busy(r)' <=> Busy(r)) /\ (pc'[r] = "cas" <=> pc[r] = "cas")
    BY DEF Busy
  <2>2. \A r \in Producers : Busy(r) => pc'[r] = pc[r]
    BY DEF Busy
  <2> QED
    BY <2>1, <2>2 DEF QueueInv, Ownership, Idx
<1> QED
  BY <1>1 DEF QueueInv, Window, SlotsInWindow, HostAtHead, Ready, Idx

\* Host steps that move neither end of the queue.
LEMMA HostStep ==
    ASSUME TypeOK, QueueInv,
           UNCHANGED <<enqueue_position, dequeue_position, sequence, slot_event, pc, event,
                       position, claimed, delivered>>,
           hpc' = "copy" => Ready,
           hpc' = "release" => Ready /\ popped' = slot_event[Idx(dequeue_position)]
    PROVE  QueueInv'
<1>1. HostAtHead'
  BY ReadyHead DEF HostAtHead, Ready, Idx
<1> QED
  BY <1>1 DEF QueueInv, Window, SlotsInWindow, Ownership, Busy, Idx

LEMMA QueueInvStep == TypeOK /\ QueueInv /\ [Next]_vars => QueueInv'
<1> SUFFICES ASSUME TypeOK, QueueInv, [Next]_vars PROVE QueueInv'
  OBVIOUS
<1>1. ASSUME NEW p \in Producers, Emit(p) \/ Reload(p) \/ ClaimFails(p) PROVE QueueInv'
  <2>1. /\ pc[p] \in {"idle", "reload", "cas"} /\ pc' = [pc EXCEPT ![p] = "probe"]
        /\ position' = [position EXCEPT ![p] = enqueue_position]
        /\ \A r \in Producers : r # p => event'[r] = event[r]
        /\ UNCHANGED <<queueVars, hostVars, historyVars>>
    BY <1>1, QueueFacts DEF Emit, Reload, ClaimFails, queueVars, hostVars, historyVars
  <2> QED
    BY <2>1, LoadStep
<1>2. ASSUME NEW p \in Producers,
             DropLoad(p) \/ DropSaturated(p) \/ DropCount(p) \/ DropCountFails(p)
             \/ Mark(p) \/ Send(p)
      PROVE  QueueInv'
  <2>1. /\ pc[p] \in {"drop", "drop_cas", "mark", "send"}
        /\ pc'[p] \in {"drop_cas", "idle", "send"}
        /\ \A r \in Producers : r # p => pc'[r] = pc[r]
        /\ UNCHANGED <<enqueue_position, dequeue_position, sequence, slot_event, event,
                       position, claimed, delivered, hpc, popped>>
    BY <1>2, QueueFacts DEF DropLoad, DropSaturated, DropCount, DropCountFails, Mark, Send,
                queueVars, hostVars, historyVars
  <2> QED
    BY <2>1, QuietProducerStep
<1>3. ASSUME NEW p \in Producers, Producer(p) PROVE QueueInv'
  BY <1>1, <1>2, <1>3, ProbeSlotStep, ClaimStep, WriteStep, PublishStep DEF Producer
<1>4. ASSUME EventsAvailable \/ EventsAvailableLate \/ Disable \/ Pop \/ Copy \/ ReportDrops
             \/ ClearNotificationPending \/ CheckEmpty \/ MarkContinuation
      PROVE  QueueInv'
  <2>1. UNCHANGED <<enqueue_position, dequeue_position, sequence, slot_event, pc, event,
                    position, claimed, delivered>>
    BY <1>4 DEF EventsAvailable, EventsAvailableLate, Disable, Pop, Copy, ReportDrops,
                ClearNotificationPending, CheckEmpty, MarkContinuation,
                queueVars, producerVars, historyVars
  <2>2. hpc' = "copy" => Ready
    BY <1>4 DEF EventsAvailable, EventsAvailableLate, Disable, Pop, Copy, ReportDrops,
                ClearNotificationPending, CheckEmpty, MarkContinuation, Return, hostVars,
                QueueInv, HostAtHead
  <2>3. hpc' = "release" => Ready /\ popped' = slot_event[Idx(dequeue_position)]
    BY <1>4, ReadyHead DEF EventsAvailable, EventsAvailableLate, Disable, Pop, Copy, ReportDrops,
                ClearNotificationPending, CheckEmpty, MarkContinuation, Return, hostVars,
                QueueInv, HostAtHead
  <2> QED
    BY <2>1, <2>2, <2>3, HostStep
<1>5. ASSUME UNCHANGED vars PROVE QueueInv'
  BY <1>5 DEF vars, queueVars, producerVars, hostVars, historyVars, QueueInv, Window,
              SlotsInWindow, Ownership, HostAtHead, Busy, Ready, Idx
<1> QED
  BY <1>3, <1>4, <1>5, ReleaseStep DEF Next, Drain

THEOREM QueueInvCorrect == Spec => []QueueInv
BY TypeCorrect, QueueInit, QueueInvStep, PTL DEF Spec

\* What reaches Session::Emit is the sequence of claims, each once, whole, in order.
THEOREM FifoDeliveryCorrect == Spec => []FifoDelivery
<1>1. TypeOK /\ QueueInv => FifoDelivery
  BY QueueFacts DEF QueueInv, Window, FifoDelivery
<1> QED
  BY TypeCorrect, QueueInvCorrect, <1>1, PTL

\* The plain accesses to a slot's event are never concurrent with each other.
THEOREM NoDataRaceCorrect == Spec => []NoDataRace
<1>1. TypeOK /\ QueueInv => NoDataRace
  <2> SUFFICES ASSUME TypeOK, QueueInv, NEW p \in Producers, pc[p] = "write"
               PROVE  /\ hpc = "copy" => Idx(position[p]) # Idx(dequeue_position)
                      /\ \A q \in Producers \ {p} :
                            pc[q] = "write" => Idx(position[q]) # Idx(position[p])
    BY DEF NoDataRace
  <2>0. enqueue_position \in Nat /\ dequeue_position \in Nat
    BY QueueFacts
  <2>1. \A r \in Producers : pc[r] = "write" =>
           /\ position[r] \in dequeue_position .. dequeue_position + Capacity - 1
           /\ sequence[Idx(position[r])] = position[r]
    BY <2>0, QueueFacts, CapacityAssumption DEF QueueInv, Ownership, Window, Busy
  <2>2. hpc = "copy" => Idx(position[p]) # Idx(dequeue_position)
    <3> HAVE hpc = "copy"
    <3>1. sequence[Idx(dequeue_position)] = dequeue_position + 1
      BY DEF QueueInv, HostAtHead, Ready
    <3>2. dequeue_position \in dequeue_position .. dequeue_position + Capacity - 1
      BY <2>0, CapacityAssumption
    <3>3. position[p] # dequeue_position
      BY <2>0, <2>1, <3>1
    <3> QED
      BY <2>0, <2>1, <3>2, <3>3, LapUnique
  <2>3. ASSUME NEW q \in Producers, q # p, pc[q] = "write"
        PROVE  Idx(position[q]) # Idx(position[p])
    <3>1. position[q] # position[p]
      BY <2>3 DEF QueueInv, Ownership, Busy
    <3> QED
      BY <2>0, <2>1, <2>3, <3>1, LapUnique
  <2> QED
    BY <2>2, <2>3
<1> QED
  BY TypeCorrect, QueueInvCorrect, <1>1, PTL

\* Every reachable state is well typed and free of races on slot contents.
THEOREM ConsistentCorrect == Spec => []Consistent
BY TypeCorrect, NoDataRaceCorrect, PTL DEF Consistent

\* A record is dropped only when every slot is claimed: TryPush never gives up
\* because it lost a race.
THEOREM DropOnlyWhenFullCorrect == Spec => DropOnlyWhenFull
<1>1. TypeOK /\ QueueInv /\ [Next]_vars =>
         \A p \in Producers : pc[p] = "probe" /\ pc'[p] = "drop" =>
            enqueue_position = dequeue_position + Capacity
  <2> SUFFICES ASSUME TypeOK, QueueInv, [Next]_vars,
                      NEW p \in Producers, pc[p] = "probe", pc'[p] = "drop"
               PROVE  enqueue_position = dequeue_position + Capacity
    OBVIOUS
  <2> DEFINE a == position[p]
             i == Idx(a)
  <2>0. /\ enqueue_position \in Nat /\ dequeue_position \in Nat
        /\ a \in Nat /\ i \in Slots /\ a <= enqueue_position
        /\ enqueue_position <= dequeue_position + Capacity
    BY QueueFacts, IdxType DEF QueueInv, Ownership, Window
  <2>1. sequence[i] < a
    <3>1. \A q \in Producers : pc'[q] = pc[q] \/ Producer(q)
      <4>1. ASSUME NEW r \in Producers, Producer(r), NEW q \in Producers, q # r
            PROVE  pc'[q] = pc[q]
        BY <4>1, QueueFacts
           DEF Producer, Emit, ProbeSlot, Reload, Claim, ClaimFails, Write, Publish,
               DropLoad, DropSaturated, DropCount, DropCountFails, Mark, Send
      <4>2. ASSUME ~ \E r \in Producers : Producer(r) PROVE pc' = pc
        BY <4>2 DEF Next, Drain, vars, producerVars, EventsAvailable,
                EventsAvailableLate, Disable, Pop, Copy, Release, ReportDrops,
                ClearNotificationPending, CheckEmpty, MarkContinuation
      <4> QED
        BY <4>1, <4>2
    <3>2. Producer(p) => ProbeSlot(p)
      BY DEF Producer, Emit, ProbeSlot, Reload, Claim, ClaimFails, Write, Publish, DropLoad,
                DropSaturated, DropCount, DropCountFails, Mark, Send
    <3>3. ProbeSlot(p)
      BY <3>1, <3>2
    <3> QED
      BY <3>3, QueueFacts DEF ProbeSlot
  <2>2. PICK q \in dequeue_position .. dequeue_position + Capacity - 1 : Idx(q) = i
    BY <2>0, IdxSurjective
  <2>3. q \in Nat /\ sequence[i] \in {q, q + 1}
    BY <2>0, <2>2, CapacityAssumption DEF QueueInv, SlotsInWindow
  <2>4. dequeue_position < a
    BY <2>0, <2>1, <2>2, <2>3, CapacityAssumption
  <2>5. a \notin dequeue_position .. dequeue_position + Capacity - 1
    <3> SUFFICES ASSUME a \in dequeue_position .. dequeue_position + Capacity - 1 PROVE FALSE
      OBVIOUS
    <3>1. a = q
      BY <2>0, <2>2, LapUnique
    <3> QED
      BY <2>0, <2>1, <2>3, <3>1
  <2> QED
    BY <2>0, <2>4, <2>5, CapacityAssumption
<1>2. TypeOK /\ QueueInv /\ [Next]_vars =>
         [\A p \in Producers : pc[p] = "probe" /\ pc'[p] = "drop" =>
            enqueue_position = dequeue_position + Capacity]_vars
  BY <1>1
<1> QED
  BY TypeCorrect, QueueInvCorrect, <1>2, PTL DEF DropOnlyWhenFull, Spec
----------------------------------------------------------------------------
(* Drop accounting *)

LEMMA DropInit == Init => DropInv
<1> SUFFICES ASSUME Init PROVE DropInv
  OBVIOUS
<1>1. /\ dropped = 0 /\ lost = 0 /\ gaps = 0 /\ reported = 0 /\ hpc = "idle"
      /\ \A p \in Producers : pc[p] = "idle"
  BY DEF Init
<1>2. 0 <= DropMax /\ 0 <= 0
  BY DropMaxAssumption
<1> QED
  BY <1>1, <1>2, DropMaxAssumption DEF DropInv, DropsCountedOnce

\* The numbers and places the accounting is about.
LEMMA DropFacts ==
    ASSUME TypeOK
    PROVE  /\ dropped \in Nat /\ dropped <= DropMax /\ DropMax \in Nat
           /\ reported \in Nat /\ gaps \in Nat /\ lost \in Nat
           /\ \A p \in Producers : observed[p] \in Nat /\ observed[p] <= DropMax
           /\ \A p \in Producers : pc[p] # "idle" => event[p].weight \in Nat
           /\ pc \in [Producers -> ProducerPlaces]
           /\ observed \in [Producers -> 0 .. DropMax]
<1>1. /\ dropped \in 0 .. DropMax /\ reported \in 0 .. DropMax /\ DropMax \in Nat
      /\ observed \in [Producers -> 0 .. DropMax] /\ gaps \in Nat /\ lost \in Nat
      /\ pc \in [Producers -> ProducerPlaces]
  BY DropMaxAssumption DEF TypeOK, QueueType, ProducerType, HostType, HistoryType
<1>2. \A p \in Producers : pc[p] # "idle" => event[p].weight \in Nat
  BY EventWeight DEF TypeOK, ProducerType
<1> QED
  BY <1>1, <1>2

LEMMA DropStep == TypeOK /\ DropInv /\ [Next]_vars => DropInv'
<1> SUFFICES ASSUME TypeOK, DropInv, [Next]_vars PROVE DropInv'
  OBVIOUS
<1>0. DropInv
  OBVIOUS
<1>1. ASSUME NEW p \in Producers, DropLoad(p) PROVE DropInv'
  <2>1. /\ observed'[p] = dropped /\ pc'[p] = "drop_cas"
        /\ \A q \in Producers : q # p => observed'[q] = observed[q] /\ pc'[q] = pc[q]
        /\ UNCHANGED <<dropped, lost, gaps, reported, hpc>>
    BY <1>1, DropFacts DEF DropLoad, queueVars, hostVars, historyVars
  <2>2. dropped <= dropped
    BY DropFacts
  <2> QED
    BY <1>0, <2>1, <2>2 DEF DropInv, DropsCountedOnce
<1>2. ASSUME NEW p \in Producers, DropCountFails(p) PROVE DropInv'
  <2>1. /\ observed'[p] = dropped
        /\ \A q \in Producers : q # p => observed'[q] = observed[q]
        /\ UNCHANGED <<pc, dropped, lost, gaps, reported, hpc>>
    BY <1>2, DropFacts DEF DropCountFails, queueVars, hostVars, historyVars
  <2>2. dropped <= dropped
    BY DropFacts
  <2> QED
    BY <1>0, <2>1, <2>2 DEF DropInv, DropsCountedOnce
<1>3. ASSUME NEW p \in Producers, DropCount(p) \/ DropSaturated(p) PROVE DropInv'
  <2>1. /\ \A q \in Producers : q # p => pc'[q] = pc[q]
        /\ pc'[p] = "idle" /\ pc[p] = "drop_cas"
        /\ lost' = lost + event[p].weight
        /\ UNCHANGED <<observed, gaps, reported, hpc>>
    BY <1>3, DropFacts DEF DropCount, DropSaturated, queueVars, hostVars
  <2>2. /\ event[p].weight \in Nat /\ dropped' \in Nat /\ dropped <= dropped'
        /\ dropped' = IF lost' > DropMax THEN DropMax ELSE lost'
    <3>1. event[p].weight \in Nat
      BY <2>1, DropFacts
    <3>2. dropped = IF lost > DropMax THEN DropMax ELSE lost
      BY <1>0 DEF DropInv, DropsCountedOnce
    <3>3. CASE DropCount(p)
      <4>1. dropped' = IF event[p].weight > DropMax - dropped
                       THEN DropMax ELSE dropped + event[p].weight
        BY <3>3 DEF DropCount, SaturatingSum
      <4>2. dropped # DropMax
        BY <3>3 DEF DropCount
      <4> QED
        BY <2>1, <3>1, <3>2, <4>1, <4>2, DropFacts
    <3>4. CASE DropSaturated(p)
      <4>1. dropped' = dropped /\ observed[p] = DropMax
        BY <3>4 DEF DropSaturated, queueVars
      <4>2. dropped = DropMax
        BY <1>0, <2>1, <4>1, DropFacts DEF DropInv
      <4> QED
        BY <2>1, <3>1, <3>2, <4>1, <4>2, DropFacts
    <3> QED
      BY <1>3, <3>1, <3>3, <3>4
  <2>3. gaps' <= dropped'
    BY <1>0, <2>1, <2>2, DropFacts DEF DropInv, DropsCountedOnce
  <2>4. \A q \in Producers : pc'[q] = "drop_cas" => observed'[q] <= dropped'
    <3> SUFFICES ASSUME NEW q \in Producers, pc'[q] = "drop_cas" PROVE observed[q] <= dropped'
      BY <2>1
    <3>1. observed[q] <= dropped
      BY <1>0, <2>1 DEF DropInv
    <3> QED
      BY <2>2, <3>1, DropFacts
  <2> QED
    BY <1>0, <2>1, <2>2, <2>3, <2>4 DEF DropInv, DropsCountedOnce
<1>4. ASSUME ReportDrops PROVE DropInv'
  <2>1. hpc = "count" /\ hpc' = "clear" /\ UNCHANGED <<pc, observed, dropped, lost>>
    BY <1>4 DEF ReportDrops, queueVars, producerVars
  <2>2. gaps' <= dropped /\ reported' = gaps'
    <3>1. reported = gaps /\ gaps <= dropped
      BY <1>0, <2>1 DEF DropInv, DropsCountedOnce
    <3>2. CASE drained /\ dropped > reported
      <4>1. gaps' = gaps + (dropped - reported) /\ reported' = dropped
        BY <1>4, <3>2 DEF ReportDrops
      <4> QED
        BY <3>1, <4>1, DropFacts
    <3>3. CASE ~ (drained /\ dropped > reported)
      BY <1>4, <3>1, <3>3 DEF ReportDrops
    <3> QED
      BY <3>2, <3>3
  <2> QED
    BY <1>0, <2>1, <2>2 DEF DropInv, DropsCountedOnce
<1>5. ASSUME CheckEmpty \/ MarkContinuation PROVE DropInv'
  <2>1. /\ UNCHANGED <<pc, observed, dropped, lost, gaps>>
        /\ hpc # "detached"
        /\ hpc' = "detached" \/ reported' = reported
    BY <1>5 DEF CheckEmpty, MarkContinuation, Return, queueVars, producerVars, historyVars
  <2> QED
    BY <1>0, <2>1 DEF DropInv, DropsCountedOnce
<1>6. ASSUME UNCHANGED <<observed, dropped, lost, gaps, reported>>,
             hpc' = "detached" <=> hpc = "detached",
             \A q \in Producers : pc'[q] = "drop_cas" => pc[q] = "drop_cas"
      PROVE  DropInv'
  BY <1>0, <1>6 DEF DropInv, DropsCountedOnce
<1>7. ASSUME NEW p \in Producers,
             Emit(p) \/ ProbeSlot(p) \/ Reload(p) \/ Claim(p) \/ ClaimFails(p) \/ Write(p)
             \/ Publish(p) \/ Mark(p) \/ Send(p)
      PROVE  DropInv'
  <2>1. /\ UNCHANGED <<observed, dropped, lost, gaps, reported, hpc>>
        /\ \A q \in Producers : pc'[q] = "drop_cas" => pc[q] = "drop_cas"
    BY <1>7, DropFacts DEF Emit, ProbeSlot, Reload, Claim, ClaimFails, Write, Publish, Mark, Send,
                queueVars, hostVars, historyVars
  <2> QED
    BY <1>6, <2>1
<1>8. ASSUME EventsAvailable \/ EventsAvailableLate \/ Disable \/ Pop \/ Copy \/ Release
             \/ ClearNotificationPending
      PROVE  DropInv'
  <2>1. /\ UNCHANGED <<observed, dropped, lost, gaps, reported, pc>>
        /\ hpc' = "detached" <=> hpc = "detached"
    BY <1>8 DEF EventsAvailable, EventsAvailableLate, Disable, Pop, Copy, Release,
                ClearNotificationPending, queueVars, producerVars, hostVars, historyVars
  <2> QED
    BY <1>6, <2>1
<1>9. ASSUME UNCHANGED vars PROVE DropInv'
  BY <1>6, <1>9 DEF vars, queueVars, producerVars, hostVars, historyVars
<1> QED
  BY <1>1, <1>2, <1>3, <1>4, <1>5, <1>7, <1>8, <1>9 DEF Next, Producer, Drain

\* The counter is the saturated sum of what was dropped, and the gap records sum to
\* exactly the part of it that has been reported.
THEOREM DropsCountedOnceCorrect == Spec => []DropsCountedOnce
<1>1. DropInv => DropsCountedOnce
  BY DEF DropInv
<1> QED
  BY TypeCorrect, DropInit, DropStep, <1>1, PTL DEF Spec
----------------------------------------------------------------------------
(* The queue implements the bounded FIFO *)

LEMMA SubSeqAppend ==
    ASSUME NEW S, NEW s \in Seq(S), NEW x \in S, NEW m \in 1 .. Len(s) + 1
    PROVE  SubSeq(Append(s, x), m, Len(s) + 1) = Append(SubSeq(s, m, Len(s)), x)
<1> DEFINE t == SubSeq(s, m, Len(s))
           u == SubSeq(Append(s, x), m, Len(s) + 1)
           n == Len(s)
<1>0. n \in Nat /\ m \in Nat /\ m <= n + 1 /\ m >= 1
  BY LenProperties
<1>1. /\ Len(Append(s, x)) = n + 1
      /\ \A i \in 1 .. n : Append(s, x)[i] = s[i] /\ s[i] \in S
      /\ Append(s, x)[n + 1] = x
  BY AppendProperties, ElementOfSeq
<1>2. /\ t \in Seq(S) /\ Len(t) = n - m + 1
      /\ \A i \in 1 .. n - m + 1 : t[i] = s[m + i - 1]
  <2>1. \A i \in m .. n : s[i] \in S
    BY <1>0, <1>1
  <2> QED
    BY <1>0, <2>1, SubSeqProperties
<1>3. /\ u \in Seq(S) /\ Len(u) = n + 1 - m + 1
      /\ \A i \in 1 .. n + 1 - m + 1 : u[i] = Append(s, x)[m + i - 1]
  <2>1. \A i \in m .. n + 1 : Append(s, x)[i] \in S
    BY <1>0, <1>1
  <2>2. n + 1 \in Int
    BY <1>0
  <2> QED
    BY <1>0, <2>1, <2>2, SubSeqProperties
<1>4. /\ Append(t, x) \in Seq(S) /\ Len(Append(t, x)) = Len(t) + 1
      /\ \A i \in 1 .. Len(t) : Append(t, x)[i] = t[i]
      /\ Append(t, x)[Len(t) + 1] = x
  BY <1>2, AppendProperties
<1> HIDE DEF t, u, n
<1>5. ASSUME NEW i \in 1 .. Len(u) PROVE u[i] = Append(t, x)[i]
  <2>1. CASE i = n + 1 - m + 1
    BY <1>0, <1>1, <1>2, <1>3, <1>4, <2>1
  <2>2. CASE i # n + 1 - m + 1
    <3>1. i \in 1 .. n - m + 1 /\ m + i - 1 \in 1 .. n
      BY <1>0, <1>3, <1>5, <2>2
    <3> QED
      BY <1>1, <1>2, <1>3, <1>4, <1>5, <3>1
  <2> QED
    BY <2>1, <2>2
<1>6. Len(u) = Len(Append(t, x))
  BY <1>0, <1>2, <1>3, <1>4
<1>7. u = Append(t, x)
  BY <1>3, <1>4, <1>5, <1>6, SeqEqual
<1> QED
  BY <1>7 DEF t, u, n

LEMMA SubSeqTail ==
    ASSUME NEW S, NEW s \in Seq(S), NEW m \in 1 .. Len(s)
    PROVE  /\ SubSeq(s, m, Len(s)) # <<>>
           /\ Head(SubSeq(s, m, Len(s))) = s[m]
           /\ Tail(SubSeq(s, m, Len(s))) = SubSeq(s, m + 1, Len(s))
<1>1. m \in Int /\ Len(s) \in Int /\ m <= Len(s) /\ \A i \in m .. Len(s) : s[i] \in S
  BY LenProperties, ElementOfSeq
<1>2. Len(s) \in m .. Len(s)
  BY <1>1
<1>3. /\ Head(SubSeq(s, m, Len(s))) = s[m]
      /\ Tail(SubSeq(s, m, Len(s))) = SubSeq(s, m + 1, Len(s))
  BY <1>2, HeadTailOfSubSeq
<1>4. Len(SubSeq(s, m, Len(s))) = Len(s) - m + 1
  BY <1>1, SubSeqProperties
<1>5. SubSeq(s, m, Len(s)) # <<>>
  <2>1. Len(<<>>) = 0
    BY EmptySeq
  <2>2. Len(s) - m + 1 # 0
    BY <1>1
  <2> QED
    BY <1>4, <2>1, <2>2
<1> QED
  BY <1>3, <1>5

LEMMA FifoInit == Init => Fifo!Init
<1> SUFFICES ASSUME Init PROVE Fifo!Init
  OBVIOUS
<1>1. claimed = <<>> /\ delivered = <<>> /\ dequeue_position = 0 /\ enqueue_position = 0
  BY DEF Init
<1>2. SubSeq(claimed, dequeue_position + 1, enqueue_position) = <<>>
  BY <1>1, SubSeqEmpty
<1> QED
  BY <1>1, <1>2 DEF Fifo!Init

\* Claiming a position is the abstract Accept.
LEMMA FifoClaim ==
    ASSUME TypeOK, QueueInv, NEW p \in Producers, Claim(p)
    PROVE  Fifo!Accept
<1> DEFINE w == SubSeq(claimed, dequeue_position + 1, enqueue_position)
<1>1. /\ enqueue_position \in Nat /\ dequeue_position \in Nat
      /\ claimed \in Seq(Event) /\ Len(claimed) = enqueue_position
      /\ dequeue_position <= enqueue_position
      /\ enqueue_position < dequeue_position + Capacity
      /\ event[p] \in Event
  BY QueueFacts DEF Claim, QueueInv, Window, Ownership
<1>2. dequeue_position + 1 \in 1 .. Len(claimed) + 1
  BY <1>1
<1>3. w' = Append(w, event[p])
  <2>1. /\ enqueue_position' = enqueue_position + 1 /\ dequeue_position' = dequeue_position
        /\ claimed' = Append(claimed, event[p])
    BY DEF Claim
  <2> QED
    BY <1>1, <1>2, <2>1, SubSeqAppend
<1>4. Len(w) < Capacity
  <2>1. \A i \in dequeue_position + 1 .. enqueue_position : claimed[i] \in Event
    BY <1>1, ElementOfSeq
  <2>2. Len(w) = IF dequeue_position + 1 <= enqueue_position
                 THEN enqueue_position - (dequeue_position + 1) + 1 ELSE 0
    BY <1>1, <2>1, SubSeqProperties
  <2> QED
    BY <1>1, <2>2, CapacityAssumption
<1>5. delivered' = delivered
  BY DEF Claim
<1> QED
  BY <1>1, <1>3, <1>4, <1>5 DEF Fifo!Accept

\* Releasing a slot is the abstract Deliver.
LEMMA FifoRelease ==
    ASSUME TypeOK, QueueInv, Release
    PROVE  Fifo!Deliver
<1> DEFINE w == SubSeq(claimed, dequeue_position + 1, enqueue_position)
<1>1. /\ enqueue_position \in Nat /\ dequeue_position \in Nat
      /\ claimed \in Seq(Event) /\ Len(claimed) = enqueue_position
      /\ dequeue_position < enqueue_position
      /\ popped = claimed[dequeue_position + 1]
  BY QueueFacts, ReadyHead DEF Release, QueueInv, Window, HostAtHead
<1>2. dequeue_position + 1 \in 1 .. Len(claimed)
  BY <1>1
<1>3. /\ w # <<>> /\ Head(w) = claimed[dequeue_position + 1]
      /\ Tail(w) = SubSeq(claimed, dequeue_position + 1 + 1, enqueue_position)
  BY <1>1, <1>2, SubSeqTail
<1>4. /\ delivered' = Append(delivered, popped)
      /\ w' = SubSeq(claimed, dequeue_position + 1 + 1, enqueue_position)
  BY DEF Release
<1> QED
  BY <1>1, <1>3, <1>4 DEF Fifo!Deliver

LEMMA FifoStep ==
    TypeOK /\ QueueInv /\ [Next]_vars =>
       [Fifo!Next]_<<SubSeq(claimed, dequeue_position + 1, enqueue_position), delivered>>
<1> SUFFICES ASSUME TypeOK, QueueInv, [Next]_vars
             PROVE  Fifo!Next \/ UNCHANGED <<claimed, dequeue_position, enqueue_position, delivered>>
  OBVIOUS
<1>1. ASSUME NEW p \in Producers, Producer(p), ~ Claim(p)
      PROVE  UNCHANGED <<claimed, dequeue_position, enqueue_position, delivered>>
  BY <1>1 DEF Producer, Emit, ProbeSlot, Reload, ClaimFails, Write, Publish, DropLoad,
              DropSaturated, DropCount, DropCountFails, Mark, Send, queueVars, historyVars
<1>2. ASSUME EventsAvailable \/ EventsAvailableLate \/ Disable \/ Pop \/ Copy \/ ReportDrops
             \/ ClearNotificationPending \/ CheckEmpty \/ MarkContinuation
      PROVE  UNCHANGED <<claimed, dequeue_position, enqueue_position, delivered>>
  BY <1>2 DEF EventsAvailable, EventsAvailableLate, Disable, Pop, Copy, ReportDrops,
              ClearNotificationPending, CheckEmpty, MarkContinuation, queueVars, historyVars
<1>3. ASSUME UNCHANGED vars
      PROVE  UNCHANGED <<claimed, dequeue_position, enqueue_position, delivered>>
  BY <1>3 DEF vars, queueVars, historyVars
<1> QED
  BY <1>1, <1>2, <1>3, FifoClaim, FifoRelease DEF Next, Drain, Fifo!Next

\* Whatever the interleaving of producers and host, the queue behaves like a FIFO of at
\* most Capacity records, with the claim as the point of acceptance.
THEOREM ImplementsFifoCorrect == Spec => ImplementsFifo
BY TypeCorrect, QueueInvCorrect, FifoInit, FifoStep, PTL DEF Spec, ImplementsFifo, Fifo!Spec

----------------------------------------------------------------------------
(* Disable's last drain *)

LEMMA DisableFacts ==
    ASSUME TypeOK
    PROVE  /\ at_disable.head \in Nat /\ dequeue_position \in Nat /\ enqueue_position \in Nat
           /\ \A q \in at_disable.queued : q \in Nat
           /\ \A p \in Producers : position[p] \in Nat
           /\ sequence \in [Slots -> Nat]
<1>1. at_disable \in [head : Nat, queued : SUBSET Nat, dropped : 0 .. DropMax]
  BY DEF TypeOK, HistoryType
<1> QED
  BY <1>1, QueueFacts

\* A published record stays in its slot while another position is published.
LEMMA OwedPublish ==
    ASSUME TypeOK, QueueInv, OwedPresent, NEW p \in Producers, Publish(p)
    PROVE  OwedPresent'
<1>1. /\ pc[p] = "publish"
      /\ sequence' = [sequence EXCEPT ![Idx(position[p])] = position[p] + 1]
      /\ UNCHANGED <<dequeue_position, enqueue_position, at_disable>>
  BY DEF Publish, historyVars
<1>2. /\ dequeue_position <= position[p] /\ position[p] < enqueue_position
      /\ sequence[Idx(position[p])] = position[p]
      /\ enqueue_position <= dequeue_position + Capacity
  BY <1>1 DEF QueueInv, Window, Ownership, Busy
<1>3. ASSUME NEW q \in at_disable.queued, ~ (q < dequeue_position)
      PROVE  q < enqueue_position /\ sequence'[Idx(q)] = q + 1
  <2>1. q \in Nat /\ q < enqueue_position /\ sequence[Idx(q)] = q + 1
    BY <1>3, DisableFacts DEF OwedPresent
  <2>2. Idx(q) # Idx(position[p])
    <3> SUFFICES ASSUME Idx(q) = Idx(position[p]) PROVE FALSE
      OBVIOUS
    <3>1. /\ q \in dequeue_position .. dequeue_position + Capacity - 1
          /\ position[p] \in dequeue_position .. dequeue_position + Capacity - 1
      BY <1>2, <1>3, <2>1, DisableFacts, CapacityAssumption
    <3>2. q = position[p]
      BY <3>1, DisableFacts, LapUnique
    <3> QED
      BY <1>2, <2>1, <3>2
  <2> QED
    BY <1>1, <2>1, <2>2, IdxType, DisableFacts
<1> QED
  BY <1>1, <1>3 DEF OwedPresent, Idx

\* Releasing the head takes it and leaves the other slots of the lap alone.
LEMMA OwedRelease ==
    ASSUME TypeOK, QueueInv, OwedPresent, Release
    PROVE  OwedPresent'
<1>1. /\ sequence' = [sequence EXCEPT ![Idx(dequeue_position)] = dequeue_position + Capacity]
      /\ dequeue_position' = dequeue_position + 1
      /\ UNCHANGED <<enqueue_position, at_disable>>
  BY DEF Release
<1>2. ASSUME NEW q \in at_disable.queued, ~ (q < dequeue_position + 1)
      PROVE  q < enqueue_position /\ sequence'[Idx(q)] = q + 1
  <2>1. q \in Nat /\ q < enqueue_position /\ sequence[Idx(q)] = q + 1
    BY <1>2, DisableFacts DEF OwedPresent
  <2>2. Idx(q) # Idx(dequeue_position)
    <3> SUFFICES ASSUME Idx(q) = Idx(dequeue_position) PROVE FALSE
      OBVIOUS
    <3>1. /\ q \in dequeue_position .. dequeue_position + Capacity - 1
          /\ dequeue_position \in dequeue_position .. dequeue_position + Capacity - 1
      BY <1>2, <2>1, DisableFacts, CapacityAssumption DEF QueueInv, Window
    <3>2. q = dequeue_position
      BY <3>1, DisableFacts, LapUnique
    <3> QED
      BY <1>2, <3>2, DisableFacts
  <2> QED
    BY <1>1, <2>1, <2>2, IdxType, DisableFacts
<1> QED
  BY <1>1, <1>2 DEF OwedPresent, Idx

\* Every other step leaves the published slots and the head alone.
LEMMA OwedQuiet ==
    ASSUME TypeOK, OwedPresent, [Next]_vars, ~ Release, ~ Disable,
           ~ \E p \in Producers : Publish(p)
    PROVE  OwedPresent'
<1>1. UNCHANGED <<dequeue_position, sequence, at_disable>>
  BY DEF Next, Producer, Drain, vars, queueVars, historyVars, CheckEmpty, Claim, ClaimFails,
         ClearNotificationPending, Copy, DropCount, DropCountFails, DropLoad, DropSaturated,
         Emit, EventsAvailable, EventsAvailableLate, Mark, MarkContinuation, Pop, ProbeSlot,
         Reload, ReportDrops, Send, Write
<1>2. enqueue_position' = enqueue_position \/ enqueue_position' = enqueue_position + 1
  BY DEF Next, Producer, Drain, vars, queueVars, CheckEmpty, Claim, ClaimFails,
         ClearNotificationPending, Copy, DropCount, DropCountFails, DropLoad, DropSaturated,
         Emit, EventsAvailable, EventsAvailableLate, Mark, MarkContinuation, Pop, ProbeSlot,
         Reload, ReportDrops, Send, Write
<1>3. ASSUME NEW q \in at_disable.queued, q < enqueue_position PROVE q < enqueue_position'
  BY <1>2, <1>3, DisableFacts
<1> QED
  BY <1>1, <1>3 DEF OwedPresent, Idx

\* The drain gives up on an unpublished head only when the leading run is taken.
LEMMA RunTakenAtPop ==
    ASSUME TypeOK, at_disable.head <= dequeue_position, OwedPresent, ~ Ready
    PROVE  HeadRunTaken
<1> SUFFICES ASSUME NEW q \in at_disable.queued,
                    at_disable.head .. q \subseteq at_disable.queued, ~ (q < dequeue_position)
             PROVE  FALSE
  BY DEF HeadRunTaken
<1>1. dequeue_position \in at_disable.head .. q
  BY DisableFacts
<1>2. dequeue_position \in at_disable.queued
  BY <1>1
<1>3. ~ (dequeue_position < dequeue_position)
  BY DisableFacts
<1> QED
  BY <1>2, <1>3 DEF OwedPresent, Ready

LEMMA DisableInit == Init => DisableInv
BY DEF Init, DisableInv

LEMMA DisableStep == TypeOK /\ QueueInv /\ DisableInv /\ [Next]_vars => DisableInv'
<1> SUFFICES ASSUME TypeOK, QueueInv, DisableInv, [Next]_vars PROVE DisableInv'
  OBVIOUS
<1>0. DisableInv
  OBVIOUS
<1>1. CASE Disable
  <2>1. /\ hpc' = "pop" /\ UNCHANGED <<dequeue_position, enqueue_position, sequence>>
        /\ at_disable' = [head |-> dequeue_position, queued |-> Published, dropped |-> dropped]
    BY <1>1 DEF Disable, queueVars
  <2>2. at_disable'.head = dequeue_position /\ at_disable'.queued = Published
    BY <2>1
  <2>3. dequeue_position <= dequeue_position
    BY DisableFacts
  <2>4. \A q \in Published : q < enqueue_position /\ sequence[Idx(q)] = q + 1
    BY DisableFacts DEF Published
  <2>5. OwedPresent'
    BY <2>1, <2>2, <2>4 DEF OwedPresent, Idx
  <2> QED
    BY <2>1, <2>2, <2>3, <2>5 DEF DisableInv
<1>2. CASE ~ Disable
  <2>1. UNCHANGED <<disabling, at_disable>>
    BY <1>2 DEF Next, Producer, Drain, vars, hostVars, historyVars, CheckEmpty, Claim, ClaimFails,
         ClearNotificationPending, Copy, DropCount, DropCountFails, DropLoad, DropSaturated,
         Emit, EventsAvailable, EventsAvailableLate, Mark, MarkContinuation, Pop, ProbeSlot,
         Publish, Reload, Release, ReportDrops, Return, Send, Write
  <2>2. dequeue_position' = dequeue_position \/ dequeue_position' = dequeue_position + 1
    BY <1>2 DEF Next, Producer, Drain, vars, queueVars, CheckEmpty, Claim, ClaimFails,
         ClearNotificationPending, Copy, DropCount, DropCountFails, DropLoad, DropSaturated,
         Emit, EventsAvailable, EventsAvailableLate, Mark, MarkContinuation, Pop, ProbeSlot,
         Publish, Reload, Release, ReportDrops, Send, Write
  <2>3. disabling => OwedPresent'
    BY <1>0, <1>2, OwedPublish, OwedRelease, OwedQuiet DEF DisableInv
  <2>4. disabling => at_disable.head <= dequeue_position'
    <3>1. disabling => at_disable.head <= dequeue_position
      BY <1>0 DEF DisableInv
    <3> QED
      BY <2>2, <3>1, DisableFacts
  <2>5. HeadRunTaken => HeadRunTaken'
    <3>1. ASSUME NEW q \in at_disable.queued, q < dequeue_position PROVE q < dequeue_position'
      BY <2>2, <3>1, DisableFacts
    <3> QED
      BY <2>1, <3>1 DEF HeadRunTaken
  <2>6. /\ hpc' = "idle" => hpc = "idle" \/ ~ disabling
        /\ hpc' = "detached" => hpc = "detached" \/ disabling
    BY <1>2 DEF Next, Producer, Drain, vars, hostVars, CheckEmpty, Claim, ClaimFails,
         ClearNotificationPending, Copy, DropCount, DropCountFails, DropLoad, DropSaturated,
         Emit, EventsAvailable, EventsAvailableLate, Mark, MarkContinuation, Pop, ProbeSlot,
         Publish, Reload, Release, ReportDrops, Return, Send, Write
  <2>7. hpc' \in {"count", "clear", "check", "mark", "detached"} =>
           hpc \in {"count", "clear", "check", "mark", "detached"} \/ (Pop /\ ~ Ready)
    BY <1>2 DEF Next, Producer, Drain, vars, hostVars, CheckEmpty, Claim, ClaimFails,
         ClearNotificationPending, Copy, DropCount, DropCountFails, DropLoad, DropSaturated,
         Emit, EventsAvailable, EventsAvailableLate, Mark, MarkContinuation, Pop, ProbeSlot,
         Publish, Reload, Release, ReportDrops, Return, Send, Write
  <2>8. disabling /\ hpc' \in {"count", "clear", "check", "mark", "detached"} => HeadRunTaken
    BY <1>0, <2>7, RunTakenAtPop DEF DisableInv
  <2> QED
    BY <1>0, <2>1, <2>3, <2>4, <2>5, <2>6, <2>8 DEF DisableInv
<1> QED
  BY <1>1, <1>2

\* Disable gives the mapping up only when the records published without a gap from the
\* head, at the moment it began, have been emitted.
THEOREM DisableDeliversHeadCorrect == Spec => []DisableDeliversHead
<1>1. DisableInv => DisableDeliversHead
  BY DEF DisableInv, DisableDeliversHead
<1> QED
  BY TypeCorrect, QueueInvCorrect, DisableInit, DisableStep, <1>1, PTL DEF Spec
=============================================================================
