--------------------------- MODULE ArtifactChannel ---------------------------
(***************************************************************************)
(* The browser's artifact channel: NativeArtifactSocketClient, with its    *)
(* bounded queue, its writer thread and its reconnects; the capture sink   *)
(* as far as it decides what is sent and what is recorded of it; and the   *)
(* artifact receiver process at the other end of the socket.               *)
(*                                                                         *)
(* The browser sequence starts and stops the channel, captures artifacts,  *)
(* copies response bodies and runs posted tasks in order.  Each section    *)
(* the writer runs under lock_ and each of its socket operations is one    *)
(* step.  A descriptor is named by the connection it was opened for, and   *)
(* never used again.                                                       *)
(***************************************************************************)
EXTENDS Integers, Sequences, FiniteSets

CONSTANTS
    MaxCount, MaxBytes,   \* kNativeArtifactMaxQueuedCount, kNativeArtifactMaxQueuedBytes
    Sizes,                \* TransferSize of a transfer
    Attempts,             \* kReconnectDelaysMs.size()
    Modules,              \* artifacts that Wasm observations wait for
    MaxTransfers,         \* bound: transfers offered
    MaxConnections,       \* bound: connections made
    MaxFaults             \* bound: times the receiver hangs up or goes away

ASSUME LimitsAssumption == MaxCount \in Nat /\ MaxBytes \in Nat /\ Sizes \subseteq Nat
ASSUME ModulesAssumption == Modules \subseteq Nat
ASSUME AttemptsAssumption == Attempts \in Nat \ {0}
ASSUME BoundsAssumption == MaxTransfers \in Nat /\ MaxConnections \in Nat /\ MaxFaults \in Nat

VARIABLES
    state, queue, queued_bytes, socket_descriptor,   \* the client's members
    wpc, hand, descriptor, attempt, status,          \* the writer: place, transfer, locals
    open,                                            \* descriptors the client has not closed
    tasks,                                           \* posted to the browser sequence
    capturing, expired, generation,                  \* the sink: emitter_ set, past its expiry
    pending, bodies,                                 \* pending_, the contexts of open tees
    up, conns, connections, faults,                  \* the receiver and its connections
    stored,                                          \* artifacts in the receiver's manifest
    offered, owner,                                  \* identifiers given out; each one's generation
    accepted, log, lost,                             \* history: accepted ids, completions in the
                                                     \* order they ran, loss announced
    results                                          \* history: what the session recorded

clientVars == <<state, queue, queued_bytes, socket_descriptor>>
writerVars == <<wpc, hand, descriptor, attempt, status>>
sinkVars == <<capturing, expired, generation, pending, bodies>>
receiverVars == <<up, conns, connections, faults, stored>>
historyVars == <<offered, owner, accepted, log, lost, results>>
vars == <<clientVars, writerVars, open, tasks, sinkVars, receiverVars, historyVars>>

Ids == 1 .. MaxTransfers
Descriptors == 1 .. MaxConnections
Statuses == {"accepted", "rejected", "io_error"}
States == {"idle", "connected", "reconnecting", "lost", "stopping"}
Transfer == [id : Ids, size : Sizes]
NoTransfer == [id |-> 0, size |-> 0]

\* What the receiver has of a connection: a frame, its acknowledgment, and its end.
Unused == [frame |-> 0, ack |-> "none", peer |-> FALSE, shut |-> FALSE]
Fresh == [frame |-> 0, ack |-> "none", peer |-> TRUE, shut |-> FALSE]

AcceptsTransfers == state \in {"connected", "reconnecting"}

Done(id, s) == [op |-> "done", id |-> id, status |-> s]
Lost == [op |-> "lost", id |-> 0, status |-> "none"]
Finish == [op |-> "finish", id |-> 0, status |-> "none"]
IoErrors(transfers) == [i \in 1 .. Len(transfers) |-> Done(transfers[i].id, "io_error")]

\* A woken writer looks at its condition again.
Woken == IF wpc = "asleep" THEN "take" ELSE wpc

----------------------------------------------------------------------------
Init ==
    /\ state = "idle" /\ queue = <<>> /\ queued_bytes = 0 /\ socket_descriptor = 0
    /\ wpc = "off" /\ hand = NoTransfer /\ descriptor = 0 /\ attempt = 0 /\ status = "none"
    /\ open = {} /\ tasks = <<>>
    /\ capturing = FALSE /\ expired = FALSE /\ generation = 0 /\ pending = {} /\ bodies = {}
    /\ up = TRUE /\ conns = [d \in Descriptors |-> Unused] /\ connections = 0 /\ faults = 0
    /\ stored = {}
    /\ offered = 0 /\ owner = [id \in Ids |-> 0]
    /\ accepted = {} /\ log = <<>> /\ lost = FALSE /\ results = <<>>

----------------------------------------------------------------------------
(* The browser sequence *)

\* Connect: a new authenticated descriptor, while the receiver listens.
Connect ==
    /\ up /\ connections < MaxConnections
    /\ connections' = connections + 1
    /\ conns' = [conns EXCEPT ![connections + 1] = Fresh]
    /\ open' = open \cup {connections + 1}

\* SetEmitter: another generation, of which nothing is pending.
SetEmitter(on) ==
    /\ capturing' = on /\ expired' = FALSE
    /\ generation' = generation + 1
    /\ pending' = {} /\ UNCHANGED bodies

\* StartFromCommandLine, and the session the socket client starts behind it.
Start ==
    /\ state = "idle" /\ Connect
    /\ socket_descriptor' = connections + 1
    /\ state' = "connected" /\ wpc' = "take"
    /\ SetEmitter(TRUE) /\ lost' = FALSE
    /\ UNCHANGED <<queue, queued_bytes, hand, descriptor, attempt, status, tasks, up, faults,
                   stored, offered, owner, accepted, log, results>>

\* The session reaches its expiry: it admits and records nothing more.
Expire ==
    /\ capturing /\ ~ expired
    /\ expired' = TRUE
    /\ UNCHANGED <<clientVars, writerVars, open, tasks, capturing, generation, pending, bodies,
                   receiverVars, historyVars>>

IsEnabled == capturing /\ ~ expired /\ AcceptsTransfers

\* EmitResult: the session that is on records the result, as its own.
EmitResult(id, s) ==
    results' = IF capturing /\ ~ expired
               THEN Append(results, [id |-> id, status |-> s, generation |-> generation])
               ELSE results

\* next_artifact_id_ names a capture of the session that is on.
Admit ==
    /\ IsEnabled /\ offered < MaxTransfers
    /\ offered' = offered + 1
    /\ owner' = [owner EXCEPT ![offered + 1] = generation]

\* CanQueueNativeArtifact
CanQueue(size) ==
    Len(queue) < MaxCount /\ queued_bytes <= MaxBytes /\ size <= MaxBytes - queued_bytes

\* Mutant: the writer is not woken.
Bug_Enqueue_NoSignal(id, g) ==
    \E size \in Sizes :
       IF AcceptsTransfers /\ CanQueue(size)
       THEN /\ queue' = Append(queue, [id |-> id, size |-> size])
            /\ queued_bytes' = queued_bytes + size
            /\ pending' = pending \cup {[id |-> id, generation |-> g]}
            /\ accepted' = accepted \cup {id}
            /\ UNCHANGED <<wpc, results>>
       ELSE /\ EmitResult(id, "failed")
            /\ UNCHANGED <<queue, queued_bytes, wpc, pending, accepted>>

\* A transfer is queued and noted under its capture's generation, or refused on record.
Enqueue(id, g) ==
    \E size \in Sizes :
       IF AcceptsTransfers /\ CanQueue(size)
       THEN /\ queue' = Append(queue, [id |-> id, size |-> size])
            /\ queued_bytes' = queued_bytes + size
            /\ wpc' = Woken
            /\ pending' = pending \cup {[id |-> id, generation |-> g]}
            /\ accepted' = accepted \cup {id}
            /\ UNCHANGED results
       ELSE /\ EmitResult(id, "failed")
            /\ UNCHANGED <<queue, queued_bytes, wpc, pending, accepted>>

\* What no capture touches.
CaptureRest == <<state, socket_descriptor, hand, descriptor, attempt, status, open, tasks,
                 capturing, expired, generation, receiverVars, log, lost>>

\* CaptureRequestBody and CaptureGeneratedArtifact: the content is at hand.
Capture ==
    /\ Admit /\ Enqueue(offered + 1, generation)
    /\ UNCHANGED <<CaptureRest, bodies>>

\* MaybeCaptureResponse: the body is copied while it passes to the page.
BeginBody ==
    /\ Admit /\ offered + 1 \notin Modules
    /\ bodies' = bodies \cup {[id |-> offered + 1, generation |-> generation]}
    /\ UNCHANGED <<CaptureRest, queue, queued_bytes, wpc, pending, accepted, results>>

\* OnBodyComplete: the body ended, at any later time; it is sent, or failed on record,
\* unless it is another generation's.
EndBody ==
    /\ \E body \in bodies :
          /\ bodies' = bodies \ {body}
          /\ \/ /\ body.generation # generation
                /\ UNCHANGED <<queue, queued_bytes, wpc, pending, accepted, results>>
             \/ /\ body.generation = generation
                /\ EmitResult(body.id, "failed")
                /\ UNCHANGED <<queue, queued_bytes, wpc, pending, accepted>>
             \/ /\ body.generation = generation /\ IsEnabled
                /\ Enqueue(body.id, body.generation)
    /\ UNCHANGED <<CaptureRest, offered, owner>>

Captures == Capture \/ BeginBody \/ EndBody

\* Mutant: the sleeping writer is not woken.
Bug_Stop_NoBroadcast ==
    /\ state \notin {"idle", "stopping"}
    /\ state' = "stopping"
    /\ conns' = IF socket_descriptor = 0 THEN conns
                ELSE [conns EXCEPT ![socket_descriptor].shut = TRUE]
    /\ SetEmitter(FALSE)
    /\ UNCHANGED <<queue, queued_bytes, socket_descriptor, writerVars, open, tasks, up,
                   connections, faults, stored, historyVars>>

\* HandleDisconnect: StopSession clears the sink, then Stop shuts the socket down.
\* Also Stop after a refused session, which leaves the sink alone.
Stop ==
    /\ state \notin {"idle", "stopping"}
    /\ state' = "stopping"
    /\ conns' = IF socket_descriptor = 0 THEN conns
                ELSE [conns EXCEPT ![socket_descriptor].shut = TRUE]
    /\ wpc' = Woken
    /\ SetEmitter(FALSE)
    /\ UNCHANGED <<queue, queued_bytes, socket_descriptor, hand, descriptor, attempt, status,
                   open, tasks, up, connections, faults, stored, historyVars>>

\* JoinWriter on a pool thread returns; its reply goes to the browser sequence.
JoinWriter ==
    /\ state = "stopping" /\ wpc = "done"
    /\ wpc' = "off"
    /\ tasks' = Append(tasks, Finish)
    /\ UNCHANGED <<clientVars, hand, descriptor, attempt, status, open, sinkVars, receiverVars,
                   historyVars>>

\* Mutant: any completion is recorded, whosever it is.
Bug_Complete_AnySession(task) ==
    /\ log' = Append(log, [id |-> task.id, status |-> task.status])
    /\ tasks' = Tail(tasks)
    /\ pending' = {p \in pending : p.id # task.id}
    /\ EmitResult(task.id, task.status)
    /\ UNCHANGED <<clientVars, open, capturing, expired, generation, bodies, lost>>

\* OnTransferCompleted: recorded if it is pending and of this generation; a module whose
\* observations wait for it is dropped with them once nothing can be captured.
Complete(task) ==
    /\ log' = Append(log, [id |-> task.id, status |-> task.status])
    /\ tasks' = Tail(tasks)
    /\ pending' = {p \in pending : p.id # task.id}
    /\ IF /\ \E p \in pending : p.id = task.id /\ p.generation = generation
          /\ task.id \in Modules => IsEnabled
       THEN EmitResult(task.id, task.status)
       ELSE UNCHANGED results
    /\ UNCHANGED <<clientVars, open, capturing, expired, generation, bodies, lost>>

\* ArtifactChannelLost: one gap that says where artifacts stop.
AnnounceLoss ==
    /\ lost' = TRUE
    /\ tasks' = Tail(tasks)
    /\ UNCHANGED <<clientVars, open, sinkVars, log, results>>

\* FinishStop: close, report what is queued, and be idle.
FinishStop ==
    /\ open' = open \ {socket_descriptor}
    /\ socket_descriptor' = 0
    /\ tasks' = Tail(tasks) \o IoErrors(queue)
    /\ queue' = <<>> /\ queued_bytes' = 0
    /\ state' = "idle"
    /\ UNCHANGED <<sinkVars, log, lost, results>>

RunTask ==
    /\ tasks # <<>>
    /\ LET task == Head(tasks) IN
          \/ task.op = "done" /\ Complete(task)
          \/ task.op = "lost" /\ AnnounceLoss
          \/ task.op = "finish" /\ FinishStop
    /\ UNCHANGED <<writerVars, receiverVars, offered, owner, accepted>>

----------------------------------------------------------------------------
(* The writer thread: Run *)

\* Take the front of the queue, sleep while it is empty, or leave once not connected.
Take ==
    /\ wpc = "take"
    /\ \/ /\ state = "connected" /\ queue # <<>>
          /\ hand' = Head(queue) /\ queue' = Tail(queue)
          /\ queued_bytes' = queued_bytes - Head(queue).size
          /\ descriptor' = socket_descriptor
          /\ wpc' = "probe"
       \/ /\ state = "connected" /\ queue = <<>>
          /\ wpc' = "asleep" /\ UNCHANGED <<queue, queued_bytes, hand, descriptor>>
       \/ /\ state # "connected"
          /\ wpc' = "done" /\ UNCHANGED <<queue, queued_bytes, hand, descriptor>>
    /\ UNCHANGED <<state, socket_descriptor, attempt, status, open, tasks, sinkVars,
                   receiverVars, historyVars>>

\* PeerClosed: an idle connection that is readable has ended.
Probe ==
    /\ wpc = "probe"
    /\ wpc' = IF ~ conns[descriptor].peer \/ conns[descriptor].shut THEN "lost_idle" ELSE "send"
    /\ UNCHANGED <<clientVars, hand, descriptor, attempt, status, open, tasks, sinkVars,
                   receiverVars, historyVars>>

\* SendTransfer writes the frame, or fails to when the connection has ended.
SendFrame ==
    /\ wpc = "send"
    /\ conns' = IF conns[descriptor].peer /\ ~ conns[descriptor].shut
                THEN [conns EXCEPT ![descriptor].frame = hand.id] ELSE conns
    /\ wpc' = "ack"
    /\ UNCHANGED <<clientVars, hand, descriptor, attempt, status, open, tasks, sinkVars,
                   up, connections, faults, stored, historyVars>>

\* The acknowledgment: read in time, or buffered on a connection that has ended.
ReadAck ==
    /\ wpc = "ack" /\ conns[descriptor].ack # "none"
    /\ status' = conns[descriptor].ack
    /\ conns' = [conns EXCEPT ![descriptor].ack = "none"]
    /\ \/ wpc' = "acknowledged"
       \/ ~ conns[descriptor].peer /\ wpc' = "connection_lost"
    /\ UNCHANGED <<clientVars, hand, descriptor, attempt, open, tasks, sinkVars,
                   up, connections, faults, stored, historyVars>>

\* No acknowledgment: the connection ended, was shut down, or SO_RCVTIMEO ran out.
NoAck ==
    /\ wpc = "ack" /\ (conns[descriptor].ack = "none" \/ conns[descriptor].shut)
    /\ status' = "io_error"
    /\ wpc' = "connection_lost"
    /\ UNCHANGED <<clientVars, hand, descriptor, attempt, open, tasks, sinkVars,
                   receiverVars, historyVars>>

\* Report(transfer, status); a lost connection is then replaced.
Report ==
    /\ wpc \in {"acknowledged", "connection_lost"}
    /\ tasks' = Append(tasks, Done(hand.id, status))
    /\ hand' = NoTransfer /\ status' = "none"
    /\ wpc' = IF wpc = "acknowledged" THEN "take" ELSE "lost_sent"
    /\ UNCHANGED <<clientVars, descriptor, attempt, open, sinkVars, receiverVars, historyVars>>

----------------------------------------------------------------------------
(* The writer thread: Reconnect and LoseChannel *)

\* Connected -> Reconnecting under the lock; Stop may have come first.
Reconnect ==
    /\ wpc \in {"lost_idle", "lost_sent"}
    /\ IF state = "connected"
         THEN /\ state' = "reconnecting"
              /\ open' = open \ {socket_descriptor}
              /\ socket_descriptor' = 0
              /\ attempt' = 1 /\ wpc' = "backoff"
         ELSE wpc' = "gave_up" /\ UNCHANGED <<state, open, socket_descriptor, attempt>>
    /\ descriptor' = 0
    /\ UNCHANGED <<queue, queued_bytes, hand, status, tasks, sinkVars, receiverVars, historyVars>>

\* The wait before an attempt ends, by its deadline or because of Stop.
Backoff ==
    /\ wpc = "backoff"
    /\ wpc' = IF state = "reconnecting" THEN "connect" ELSE "gave_up"
    /\ UNCHANGED <<clientVars, hand, descriptor, attempt, status, open, tasks, sinkVars,
                   receiverVars, historyVars>>

\* Connect outside the lock: a new descriptor, or one attempt fewer.
TryConnect ==
    /\ wpc = "connect"
    /\ \/ /\ Connect
          /\ descriptor' = connections + 1
          /\ wpc' = "install" /\ UNCHANGED attempt
       \/ /\ attempt' = attempt + 1
          /\ wpc' = IF attempt = Attempts THEN "gave_up" ELSE "backoff"
          /\ UNCHANGED <<connections, conns, open, descriptor>>
    /\ UNCHANGED <<clientVars, hand, status, tasks, sinkVars, up, faults, stored, historyVars>>

\* Reconnecting -> Connected under the lock, or close what came too late for Stop.
Install ==
    /\ wpc = "install"
    /\ IF state = "reconnecting"
         THEN /\ state' = "connected" /\ socket_descriptor' = descriptor
              /\ wpc' = IF hand = NoTransfer THEN "take" ELSE "send"
              /\ UNCHANGED <<open, descriptor>>
         ELSE /\ open' = open \ {descriptor} /\ descriptor' = 0
              /\ wpc' = "gave_up"
              /\ UNCHANGED <<state, socket_descriptor>>
    /\ UNCHANGED <<queue, queued_bytes, hand, attempt, status, tasks, sinkVars, receiverVars,
                   historyVars>>

\* A transfer that was never sent is reported before the channel is given up.
GiveUp ==
    /\ wpc = "gave_up"
    /\ tasks' = IF hand = NoTransfer THEN tasks ELSE Append(tasks, Done(hand.id, "io_error"))
    /\ hand' = NoTransfer /\ wpc' = "lose"
    /\ UNCHANGED <<clientVars, descriptor, attempt, status, open, sinkVars, receiverVars,
                   historyVars>>

\* LoseChannel: Reconnecting -> Lost, unless Stop has taken over.
LoseChannel ==
    /\ wpc = "lose"
    /\ IF state = "reconnecting"
         THEN state' = "lost" /\ wpc' = "flush"
         ELSE wpc' = "done" /\ UNCHANGED state
    /\ UNCHANGED <<queue, queued_bytes, socket_descriptor, hand, descriptor, attempt, status,
                   open, tasks, sinkVars, receiverVars, historyVars>>

\* Mutant: the loss is posted before the completions.
Bug_Flush_LossFirst ==
    /\ wpc = "flush"
    /\ tasks' = Append(tasks, Lost) \o IoErrors(queue)
    /\ queue' = <<>> /\ queued_bytes' = 0
    /\ wpc' = "done"
    /\ UNCHANGED <<state, socket_descriptor, hand, descriptor, attempt, status, open, sinkVars,
                   receiverVars, historyVars>>

\* DisconnectPending reports the queue; the loss is posted behind the completions.
Flush ==
    /\ wpc = "flush"
    /\ tasks' = tasks \o IoErrors(queue) \o <<Lost>>
    /\ queue' = <<>> /\ queued_bytes' = 0
    /\ wpc' = "done"
    /\ UNCHANGED <<state, socket_descriptor, hand, descriptor, attempt, status, open, sinkVars,
                   receiverVars, historyVars>>

Writer ==
    \/ Take \/ Probe \/ SendFrame \/ ReadAck \/ NoAck \/ Report
    \/ Reconnect \/ Backoff \/ TryConnect \/ Install \/ GiveUp \/ LoseChannel \/ Flush

----------------------------------------------------------------------------
(* The artifact receiver *)

HangUp(ds) == conns' = [d \in Descriptors |->
                           IF d \in ds THEN [conns[d] EXCEPT !.peer = FALSE] ELSE conns[d]]

\* ReceiveOne and SendAck: stored and accepted, or rejected; the connection stays.
Receive(d) ==
    /\ conns[d].peer /\ conns[d].frame # 0
    /\ \/ /\ conns[d].frame \notin stored
          /\ stored' = stored \cup {conns[d].frame}
          /\ conns' = [conns EXCEPT ![d].frame = 0, ![d].ack = "accepted"]
       \/ /\ conns' = [conns EXCEPT ![d].frame = 0, ![d].ack = "rejected"]
          /\ UNCHANGED stored
    /\ UNCHANGED <<clientVars, writerVars, open, tasks, sinkVars, up, connections, faults,
                   historyVars>>

\* A rejection that leaves the stream unsynchronized: acknowledge and hang up.
RejectAndClose(d) ==
    /\ conns[d].peer /\ conns[d].frame # 0 /\ faults < MaxFaults
    /\ faults' = faults + 1
    /\ conns' = [conns EXCEPT ![d].frame = 0, ![d].ack = "rejected", ![d].peer = FALSE]
    /\ UNCHANGED <<clientVars, writerVars, open, tasks, sinkVars, up, connections, stored,
                   historyVars>>

\* The receiver process ends, perhaps between storing a frame and acknowledging it.
Exit ==
    /\ up /\ faults < MaxFaults
    /\ up' = FALSE /\ faults' = faults + 1
    /\ HangUp(Descriptors)
    /\ \/ UNCHANGED stored
       \/ \E d \in Descriptors : /\ conns[d].peer /\ conns[d].frame # 0
                                 /\ stored' = stored \cup {conns[d].frame}
    /\ UNCHANGED <<clientVars, writerVars, open, tasks, sinkVars, connections, historyVars>>

\* One connection is dropped, or was never authenticated.
CloseConnection(d) ==
    /\ conns[d].peer /\ faults < MaxFaults
    /\ faults' = faults + 1
    /\ HangUp({d})
    /\ UNCHANGED <<clientVars, writerVars, open, tasks, sinkVars, up, connections, stored,
                   historyVars>>

Restart ==
    /\ ~ up
    /\ up' = TRUE
    /\ UNCHANGED <<clientVars, writerVars, open, tasks, sinkVars, conns, connections, faults,
                   stored, historyVars>>

Receiver ==
    \/ Exit \/ Restart
    \/ \E d \in Descriptors : Receive(d) \/ RejectAndClose(d) \/ CloseConnection(d)

----------------------------------------------------------------------------
Next ==
    \/ Start \/ Expire \/ Captures \/ Stop \/ JoinWriter \/ RunTask \/ Writer \/ Receiver

Spec == Init /\ [][Next]_vars

\* Threads are scheduled, posted tasks run, and every socket wait has a timeout;
\* the receiver owes nothing.
FairSpec == Spec /\ WF_vars(Writer) /\ WF_vars(RunTask) /\ WF_vars(JoinWriter)
----------------------------------------------------------------------------
(* Properties *)

WriterPlaces == {"off", "take", "asleep", "probe", "send", "ack", "acknowledged",
                 "connection_lost", "lost_idle", "lost_sent", "backoff", "connect", "install",
                 "gave_up", "lose", "flush", "done"}

\* The sizes in the queue add up to total: their partial sums exist, and they ascend.
AddsUp(q, total) ==
    \E sums \in [0 .. Len(q) -> 0 .. MaxBytes] :
       /\ sums[0] = 0 /\ sums[Len(q)] = total
       /\ \A i \in 1 .. Len(q) : sums[i] = sums[i - 1] + q[i].size
       /\ \A i, j \in 0 .. Len(q) : i <= j => sums[i] <= sums[j]

Completions == [op : {"done"}, id : Ids, status : Statuses]

ClientTypes ==
    /\ state \in States /\ queue \in Seq(Transfer) /\ Len(queue) <= MaxCount
    /\ queued_bytes \in 0 .. MaxBytes /\ AddsUp(queue, queued_bytes)
    /\ socket_descriptor \in 0 .. MaxConnections /\ open \in SUBSET Descriptors

WriterTypes ==
    /\ wpc \in WriterPlaces /\ hand \in Transfer \cup {NoTransfer}
    /\ descriptor \in 0 .. MaxConnections /\ attempt \in 0 .. Attempts + 1
    /\ status \in Statuses \cup {"none"}

SinkTypes ==
    /\ tasks \in Seq(Completions \cup {Lost, Finish})
    /\ capturing \in BOOLEAN /\ expired \in BOOLEAN /\ generation \in Nat
    /\ pending \subseteq [id : Ids, generation : Nat] /\ bodies \subseteq [id : Ids, generation : Nat]
    /\ offered \in 0 .. MaxTransfers /\ owner \in [Ids -> Nat] /\ accepted \in SUBSET Ids
    /\ log \in Seq([id : Ids, status : Statuses]) /\ lost \in BOOLEAN
    /\ results \in Seq([id : Ids, status : Statuses \cup {"failed"}, generation : Nat])

ReceiverTypes ==
    /\ up \in BOOLEAN /\ connections \in 0 .. MaxConnections /\ faults \in 0 .. MaxFaults
    /\ conns \in [Descriptors -> [frame : 0 .. MaxTransfers, ack : Statuses \cup {"none"},
                                  peer : BOOLEAN, shut : BOOLEAN]]
    /\ stored \in SUBSET Ids

\* Every variable has its type; the queue stays within both limits and queued_bytes_ is
\* what it holds, through takes, flushes and stops.
TypeOK == ClientTypes /\ WriterTypes /\ SinkTypes /\ ReceiverTypes

\* The places where a transfer waits for its completion to run.
InQueue(id) == {i \in 1 .. Len(queue) : queue[i].id = id}
InTasks(id) == {i \in 1 .. Len(tasks) : tasks[i].op = "done" /\ tasks[i].id = id}
InLog(id) == {i \in 1 .. Len(log) : log[i].id = id}

\* An accepted transfer is in exactly one place at any time: the queue, the writer's
\* hand, the posted completions or the completions that ran.  Nothing is dropped or
\* reported twice by a reconnect, a loss or a stop.
OnePlaceEach ==
    \A id \in Ids :
       Cardinality(InQueue(id)) + (IF hand.id = id THEN 1 ELSE 0)
          + Cardinality(InTasks(id)) + Cardinality(InLog(id))
       = IF id \in accepted THEN 1 ELSE 0

\* "accepted" is reported only of what the receiver stored, whichever side timed out,
\* hung up or restarted around the acknowledgment.
AcceptedIsStored ==
    \A i \in 1 .. Len(log) : log[i].status = "accepted" => log[i].id \in stored

\* The client's descriptors: Stop and the writer only touch one that is open, and an
\* idle or lost channel has left none open.
DescriptorsOwned ==
    /\ socket_descriptor # 0 => socket_descriptor \in open
    /\ wpc \in {"probe", "send", "ack"} => descriptor \in open
    /\ open \subseteq {socket_descriptor, descriptor}
    /\ state \in {"idle", "lost"} => open = {}

\* pending_ is exactly the accepted transfers of the generation that is on whose
\* completion has not run, each under that generation; with no session it is empty.
PendingMatches ==
    pending = {[id |-> id, generation |-> generation] :
                  id \in {i \in accepted : owner[i] = generation /\ InLog(i) = {}}}

\* A capture is recorded at most once, in its own session, and with what became of it: the
\* status its transfer completed with, or a failure of what was never sent.  A completion or
\* a body that comes after the next session started leaves no trace in it.
ResultsOwn ==
    /\ \A i, j \in 1 .. Len(results) : results[i].id = results[j].id => i = j
    /\ \A i \in 1 .. Len(results) : LET r == results[i] IN
          /\ r.generation = owner[r.id]
          /\ IF r.status = "failed" THEN r.id \notin accepted
             ELSE \E j \in 1 .. Len(log) : log[j] = [id |-> r.id, status |-> r.status]

Recorded(id) == \E i \in 1 .. Len(results) : results[i].id = id

\* While a session records, each of its captures is being copied, is pending, or has its
\* result; only a module completed after the channel was lost goes with its observations.
NoResultLost ==
    capturing /\ ~ expired =>
       \A id \in Ids : owner[id] = generation =>
          \/ [id |-> id, generation |-> generation] \in bodies
          \/ [id |-> id, generation |-> generation] \in pending
          \/ Recorded(id)
          \/ id \in Modules /\ ~ AcceptsTransfers /\ InLog(id) # {}

\* A channel that refuses captures while its session records has announced the loss
\* or is about to: no capture is skipped without a record.
RefusalAnnounced ==
    capturing /\ ~ AcceptsTransfers =>
       lost \/ wpc = "flush" \/ \E i \in 1 .. Len(tasks) : tasks[i] = Lost

\* After every step of the writer, the browser sequence and the receiver: a transfer is in
\* one place and counted with it, its result is true, is its own session's and is not lost,
\* nothing is refused in silence, and each descriptor is closed once.
Consistent ==
    /\ TypeOK /\ OnePlaceEach /\ AcceptedIsStored /\ DescriptorsOwned
    /\ PendingMatches /\ ResultsOwn /\ NoResultLost /\ RefusalAnnounced

\* The channel implements the ledger: a transfer counts as reported when its
\* completion runs on the browser sequence.
Ledger == INSTANCE TransferLedger WITH
    reported <- {log[i] : i \in 1 .. Len(log)}

ImplementsLedger == Ledger!Spec

\* Every accepted transfer is reported, whatever the receiver does.
AcceptedReported == \A id \in Ids : id \in accepted ~> InLog(id) # {}

\* Stop always gets through: no reconnect, unanswered frame or sleep holds it up.
StopFinishes == state = "stopping" ~> state = "idle"
=============================================================================
