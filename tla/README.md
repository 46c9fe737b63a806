# TLA+ models and proofs for the Reverse Engineering Browser

The repository instruments a Brave build: probes in the renderer record what a
page's code does, the browser process forwards the records and captured bytes
to local evidence services, and the Origin Trace application (a Rust backend
and a research UI in JavaScript) reads what those services stored. The point of
the whole pipeline is that evidence is never silently lost, duplicated,
reordered or attributed to the wrong session: when a record cannot be kept, a
*gap* record says so. The point of the UI is that it never shows one selection's
evidence under another, never loses a researcher's unsaved work, and never does
twice, or on the wrong page, what it was asked to do once. The modules here
state that as properties of the code and check or prove them.

## The system: components, state, operations

`OV/` stands for
`browser/integration/brave/overlay/components/reverse_engineering_browser/`.

| Component | State it keeps | Operations | What makes it hard | What makes it correct |
|---|---|---|---|---|
| Probe sink (`OV/renderer/native_probe_sink.*`) | current configuration (session, category mask, expiry, emitter) under an even/odd generation, sampling budgets, loss counters | `SetEmitters`, `CanAdmitEvent`, `Emit*`, `Publish*` | read by any renderer thread while the bound sequence reconfigures | a record is admitted only under one consistent configuration |
| Probe transport (`OV/renderer/native_probe_transport.*`) | the mapped queue pointer, the Wasm capture epoch, retained mappings | `Configure`, `Disable`, `EmitEvent`, `EmitWasm*` | threads hold a queue pointer across a reconfiguration | a record reaches only the mapping of the configuration that admitted it |
| Probe queue (`OV/common/native_probe_queue.*`) | positions, slot sequences, drop counter, notification flag, in shared memory | `TryPush`, `TryPop`, `MarkNotificationPending`, `ClearNotificationPending` | many producers, one consumer in another process, no locks | bounded FIFO, no torn record, no lost wake-up, exact drop count |
| Probe host (`OV/browser/native_probe_host.*`) | its queue, drops already reported, capture epoch, sample budgets | `BindClient`, `EventsAvailable`/`Drain`, `Configure`, `Disable`, `Capture*` | drains race with producers; renderer messages may belong to a retired configuration | everything queued reaches the session or is reported; nothing stale is recorded |
| Probe session (`OV/browser/native_probe_session.*`) | the active session, its filters, registered hosts, browser sequence | `StartSession`, `StopSession`, `Emit`, `AddHost`, `RemoveHost` | start and stop race with hosts and records in flight | records of one session never reach another's downstream |
| Probe socket client (`OV/browser/native_probe_socket_client.*`) | a second instance of the queue, `connected_`, writer thread | `StartFromCommandLine`, `Enqueue`, `Run`, `HandleDisconnect` | wait with a poll interval, a peer that closes, drops in a final burst | drops are reported even if nothing else is queued |
| Artifact channel (`OV/browser/native_artifact_socket_client.*`) | bounded transfer queue, connection state, writer thread | `Start`, `Enqueue`, `Run`, `Reconnect`, `LoseChannel`, `Stop`, `FinishStop` | reconnection races with stopping and with new transfers | each accepted transfer gets exactly one completion; loss is announced once, last |
| Artifact capture sink (`OV/browser/native_artifact_capture_sink.*`, `native_artifact_body_tee.*`) | `pending_` transfers with their generation, contexts of open body copies, budgets | capture of generated code, response bodies, Wasm modules; completion of a transfer or a body | completions and bodies end later than the session that asked | each capture's result is recorded once, by its own session, and true |
| Network capture sink (`OV/browser/native_network_capture_sink.*`) | per-request lifecycle | request, redirect, response, completion observers | callbacks in unexpected order | one lifecycle per request |
| Worker observation and source transfer (`OV/*/native_worker_*`) | transfer gate, authority tables | grants, chunk transfer, revocation | worker, renderer and browser races | only the granted worker's source is accepted |
| Native console (`OV/*/native_console_*`, `apps/native-console`) | console session, evaluation in progress, deadline | evaluate, cancel, document-start scripts | deadline races completion | one reply per request |
| Proxy policy (`OV/browser/native_proxy_*`) | partition proxy configuration | apply, verify | fails closed | no direct connection |
| Event broker (`src/evidence/event_broker.cpp`) | bounded ring, per-source sequence trackers, counters | `Ingest`, `Snapshot`, `Stats` | late, duplicated and missing sequence numbers under a bounded memory | the count of missing records is exact until a tracker is evicted |
| Broker service (`services/event-broker/main.cpp`) | connections, evidence file, trace and signal indexes | accept, ingest, store, flush | partial failure of several outputs | output is one session's records |
| Artifact receiver (`src/evidence/artifact.cpp`, `services/artifact-receiver/main.cpp`) | content-addressed store, manifest | receive, validate, store, recover | crash between the object and its manifest line | the manifest names only complete objects |
| Evidence guard (`include/reb/evidence_guard.hpp`) | a marker file and its lock | `Acquire`, release | two owners, crash between create and marker write | one owner per output |
| Local IPC (`src/transport/local_ipc.cpp`, `include/reb/local_ipc.hpp`) | framing, hello | connect, hello, send, receive | partial reads | a frame is whole or rejected |
| SPSC ring (`include/reb/spsc_ring.hpp`) | head, tail, drop counter | `TryPush`, `TryPop`, `SizeApprox` | two threads, no locks | FIFO, exact drop count |
| Origin trace and request signals (`src/evidence/origin_trace.cpp`, `request_signal_profile.cpp`) | derived indexes | observe, finish | order of observations | index agrees with the records |
| Analysis (`src/analysis/*`, `src/capture/*`) | none (pure) or per-VM state | decode, record | bounds | encoding round trips |
| Workspace lease and durable write (`apps/origin-trace-backend/src/{workspace_lease,durable}.rs`) | lock file, temporary file | lock, write, rename, synchronise | several backends over one workspace, crash during a write | a workspace has one writer; a durable write is old or new |
| Other backend services | sessions, queries | HTTP-style requests over stdio | - | answers over files that do not change |
| Deobfuscator worker (`apps/deobfuscator-worker`) | none | transform a script | - | bounded output |
| Local library store (`apps/origin-trace-backend/src/workspace.rs`) | one document of folders and files with a generation | read, replace under compare-and-swap | several windows, requests that outlive their deadline | a replacement happens only on the generation it was made from |
| Capture lifecycle and event window (`apps/origin-trace-backend/src/{capture,app,event_window}.rs`) | running, stopping, stopped; the retained events and their entity tag | Stop, Clear, the event route | the tag and the window are read one after the other | a matching tag means nothing changed |
| Console session owner (`apps/origin-trace-backend/src/native_console.rs`) | the one console session, its documents | start, connect, targets, evaluate, poll, stop | several windows and agents share the one session | a request reaches the session and document it names, or is refused |
| Analyst workspace (`apps/research-ui/app.js`) | the admitted library, two drafts, a pending save | edit, select, save, move, delete, reload, recover | a save whose outcome is unknown, another window's edit | no draft lost, nothing unseen overwritten, no save repeated |
| Investigation notebook (`apps/research-ui/investigation_notebook.js`) | the library, a draft pin, its verification | pin, note, save, delete, reload, cancel | evidence that changes while it is hashed | a pin refers to the record that was looked at |
| Evidence names (`apps/research-ui/evidence_names.js`) | the names, the open editor | load, observe, rename | documents taken out of order | a name never goes back, a changed name is not replaced unseen |
| Evidence polling (`apps/research-ui/app.js`) | the event window, the selection, profile and trace views | poll, Stop, Clear, select, dependent reads | polls over actions, reads over selections, skipped chains | what is shown is current, and the selection's own |
| Native Console panel (`apps/research-ui/native_console.js`) | session, selected document, transcript, a queue of requests | connect, refresh, run, poll, watch, disconnect | queued requests outlive what they were made for | a command runs once, in the session and document its row names |
| Navigation, Sources, VM lab, traffic, export, runner (`apps/research-ui`) | view state, or none | render, decode, format | - | pure functions of evidence already read |
| Protocol, tools, fixtures, scripts, tests | none | - | - | - |

### How they interact

A probe hook asks the **sink** for admission, the **transport** pushes the
record into the **queue**, and the first producer after a drain sends one
`EventsAvailable` message. The **host** drains the queue on the browser's main
sequence and hands each record to the **session**, which filters by session,
category and expiry and calls its downstream: the **socket client**. That
client queues the record a second time, in a private instance of the same queue
class, for a writer thread that sends batches to the **broker service**. The
service's **broker** counts, orders and keeps the newest records. Captured
bytes travel separately: **capture sink** to **artifact channel** to
**artifact receiver**, whose acknowledgement decides which artifact event the
sink emits.

The **backend** reads both stores and answers the **research UI** over HTTP. The
UI polls the event window under an entity tag and hangs its dependent reads on
each valid poll. Three of its parts keep their documents in the one **local
library**, which each replaces as a whole under compare-and-swap on its
generation; the Analyst shows what it reads to the names. The **Console panel**
talks to the one console session the backend owns, which other windows and
agents may end or take.

## What is modelled, module by module

Every module opens with a comment that names its code and the grain of its
steps. `PROJECT.json` maps each definition to the lines it stands for. Names are
the source's names where TLA+ allows. Variables marked *history* record what
happened so that properties can speak of it; no action reads one, except where
a bound counts with it.

### `ProbeQueue`: the renderer queue and its host drain

`native_probe_queue.h`, `EmitEvent` of the transport, and `EventsAvailable`,
`Drain`, `Disable` of the host. Each access to a shared atomic is one action:

| Code | Actions |
|---|---|
| `TryPush`: load position, probe slot sequence, weak exchange, write, publish | `Emit`, `ProbeSlot`, `Reload`, `Claim`/`ClaimFails`, `Write`, `Publish` |
| the drop counter's load and exchange | `DropLoad`, `DropSaturated`, `DropCount`/`DropCountFails` |
| `MarkNotificationPending`, the Mojo message | `Mark`, `Send` |
| `EventsAvailable`, also after `Disable` | `EventsAvailable`, `EventsAvailableLate` |
| `Drain` with `TryPop`, the gap record, clearing and re-checking the flag | `Pop`, `Copy`, `Release`, `ReportDrops`, `ClearNotificationPending`, `CheckEmpty`, `MarkContinuation` |
| `Disable`, then its own `Drain` | `Disable` |

The abstract module `BoundedFifo` says what the queue is for. `ImplementsFifo`
refines it: a record is accepted when its position is claimed and delivered when
its slot is released.

### `ProbeConfig`: admission under a configuration that changes

`StartSession`/`StopSession`, the host's `BindClient`, `Configure`, `Disable`
and `CaptureWasmDispatch`, two ordered Mojo pipes, the renderer's control
sequence (`Control`: clear the epoch, begin the odd generation, store each
policy field, publish, map the queue, set the epoch), and probes on other
threads (`Probe`: snapshot under a generation, claim of the call site's
watermark, transport snapshot, `CanAdmitEvent`, re-check, push or send, release
of a refused claim). Policy fields are relaxed atomics between fences: the
control sequence stores them in any order here, so a probe that loads them in
one order meets every mixture a weak memory could show it.

### `ArtifactChannel`: transfers, acknowledgements, reconnection, stopping

`NativeArtifactSocketClient` whole (`Start`, `Enqueue`, `Run`, `Reconnect`,
`LoseChannel`, `Stop`, `JoinWriter`, `FinishStop`), the capture sink, and the
receiver process as the channel sees it: it stores and acknowledges, refuses, hangs
up, exits or restarts. One action per section the writer runs under `lock_` and per
socket operation. `TransferLedger` is the abstract promise to the sink (`ImplementsLedger`).

Of the sink the model has its session (`capturing` for `emitter_`, `expired`,
`generation`, which every `SetEmitter` moves on), `pending` with the generation
beside each transfer, and `bodies`, the contexts of body copies. `Capture` admits and
queues at once; a body is admitted by `BeginBody` and queued, failed or forgotten by
`EndBody`, which may run in a later session. `Complete` is `OnTransferCompleted` with
both its early returns: a completion that is not pending, or of another generation,
records nothing. `results` is what each session recorded. The
`Modules` are captures that Wasm observations wait for; their completion is dropped
with the observations once nothing can be captured.

### `ArtifactStore`: the receiver's disk

`ArtifactReceiver`'s constructor and `ReceiveOne`, one action per system call
that changes a file or fails: create the temporary file, read content, flush,
link, unlink, synchronise the directories, open, append and synchronise the
manifest, and on a failure restore the manifest and retire the blob. `Crash`
forgets the process, `PowerLoss` also gives each directory entry and the
manifest any state it has had since its last `fsync` (the `maybe_` variables).
`Open`/`OpenThrows` are the constructor, with the cut of a torn record.

### `EventBroker`: gaps, drops and the newest records

`IngestAt`, `Snapshot` and `Stats`. A call holds `mutex_`, so it is one action;
`TrackSequence` keeps intervals of missing numbers per stream and evicts trackers
when intervals or trackers outgrow the capacity. `RecentWindow` is the abstract
ring (`ImplementsWindow`).

### `LocalLibrary` and `AnalystWorkspace`: one window's edits and saves

`LocalLibrary` is the backend's store: the documents of each generation and
`Replace`, which refuses another generation than the current one, except for a
request that asks for what is stored already. `AnalystWorkspace` extends it with
the page of `app.js`: admitted document, file and folder drafts, selection,
delete confirmation, pending save. A JavaScript task between two awaits is one
action, and the rendering that ends it is part of the action (`Render`).

| Code | Actions |
|---|---|
| form input, discard, selection | `EditFile`, `EditFolder`, `DiscardFile`, `DiscardFolder`, `SelectFolder`, `SelectFile` |
| create, save, delete | `CreateFolder`, `CreateFile`, `SaveFolder`, `SaveFile`, `DeleteFile`, `DeleteFolder` |
| `replaceLocalAnalyst` and its recovery | `SaveAcknowledged`, `SaveUncertain`, `SaveRecovered`, `RecoveryFails` |
| `refreshLocalAnalyst`, the runner's refresh | `refreshLocalAnalyst`, `RefreshAnswered`, `RefreshFails`, `RunnerAnswered` |
| the store; other windows | `StoreHandles`, `OtherWindow` |

A request stays on the `wire` after its deadline, and may be delivered late or
twice.

### `LibraryNotes`: notebook and names over the same library

`createStore` and `mount` of `investigation_notebook.js` and of
`evidence_names.js`. A behaviour follows the user of one of them (`client`), as
they share nothing but the store; what the other one writes is another window's
replacement. The pinned record's digest is computed between two actions
(`AddPin`/`AddVerified`, `SavePin`/`SaveVerified`, `OpenPin`/`OpenVerified`), so
record, notebook and library may change meanwhile. `Observe` is what the Analyst
shows to the names.

### `EventPoll`: polls, actions and the reads that hang on them

`refresh`, `performCaptureAction`, `selectRequest`,
`refreshPollDependents`, `refreshRequestSignalProfile` and `refreshOriginTrace`
of `app.js`, against the backend's capture states, its action lock and its event
route, whose tag is read before the window (`TagRead`, `WindowAnswer`). An event
is its identity, its request and its rank in that request; the answer of a
dependent read is whose it is. `views` keep, per kind of read, the data, the key
and whether a tag is held.

### `ConsolePanel`: one panel, one session, a queue between them

`native_console.js` and the session of `native_console.rs`. `queue` is the chain
of promises behind `request`: its head is not begun, sent or answered. Each
request carries the session, the document and the generation it was made for;
`NotSent` and `Shown` are the two checks, when its turn comes and when its answer
arrives. `Timer` queues output polls and the session watch. A command has a row from
its submission: its status comes with the answer, and its result one poll later
(`RowEnds`), whatever that poll meets.

The backend detaches each action from its HTTP client and completes it
(`native_console.rs:448-489`). A sent request that fails at the panel is therefore lost,
refused, or put in `late`, from where the owner may handle it at any later step
(`LateHandled`): a command that the panel reports as "Outcome unavailable" may run
then, and a capture document may be connected.

## The runs

| Run | Instance | What it shows |
|---|---|---|
| `probe_queue` | 2 producers, 2 records each, 2 slots, drop counter 0..5 | No data race on a slot, no lost wake-up, drops counted once and never over-reported, only a full queue drops, `Disable` delivers what was contiguously published, refinement of the FIFO, and records are delivered in the end |
| `probe_queue_disable_drops` | the same, counter 0..3 | Finding 1 |
| `probe_config` | 1 surface probe, 1 Wasm probe, 2 categories, 2 sessions with the same ID, expiry | No probe acts on a mixture of two policies; a record enters only the mapping of the configuration that admitted it; a capture in flight across a reconfiguration is refused; a stop disarms the renderer |
| `probe_config_race` | 2 surface probes, 2 calls, 1 site, 2 sessions, a generation counter that runs out | A site is observed once per configuration, a refused observation gives the site back, and a generation is published at most once |
| `artifact_channel` | queue of 2, sizes 1 and 3 of 3 bytes, 2 attempts, 2 transfers of which the second is a module, 2 connections, 1 fault | One completion for each accepted transfer, before the loss is announced; each capture's result recorded once, true, in its own session and not lost; descriptors owned; every accepted transfer is reported and every `Stop` completes, whatever the receiver does |
| `artifact_store` | 3 storable artifacts of which two share content, 1 that is refused, 3 frames, 2 failing calls, 2 stops of the process or the machine | Accepted artifacts keep their record and content; the accounting is the files'; the store opens again |
| `event_broker` | 3 streams, capacity 2, numbers 1, 3, 4, 5, 7, counters up to 7, 5 calls | Intervals equal an independent set of numbers; gaps exact until an eviction; drop totals exact or saturated; snapshots are the newest records |
| `event_broker_lower_bound` | the same, data records only, 6 calls | Finding 2 |
| `analyst_workspace` | 1 file, 2 folders, 2 folder names, 2 bodies, 2 saves, 3 generations | A reported save is stored; a replacement changes only its item and only the version that was seen; a draft goes only when discarded or stored; a request given up on never undoes a later confirmed save |
| `library_notes` | 1 notebook with up to 2 pins, 1 name, 2 notes, a record with 2 versions, 2 sends, 3 generations | Only seen versions are replaced; names never go back; a pin is sent only for the record it refers to; unsaved edits survive |
| `event_poll` | 2 requests, 3 events, 3 versions of the evidence, 1 action, 1 failure, 2 choices | No poll shows evidence from before an acknowledged action; a matching tag means the page is current; a view belongs to the selected request event; the page catches up, and the profile too unless a read of the chain is never answered |
| `console_panel` | 2 documents, 2 sessions, 1 command, 2 queued requests, 1 failure: a document that closes, an exchange that is lost, or one that the owner completes late | A command runs at most once, in the session and document its row names, which are the ones shown unless its row says "Outcome unavailable"; an answer is accepted only for its selection; a result appears in its session with its document or none selected; a session that is gone is not shown as connected for ever |

Why the bounds are enough. *Queue*: two producers reach every pair of
conflicting steps, and four records over two slots lap the ring and fill it;
`MCWeight` gives the records different weights so that the drop counter is met
below, at and above its maximum. *Configuration*: two configurations are what
any hand-over involves; both have one session ID, which is the case the session
check alone cannot tell apart. Each of the two runs drops what the other
varies, because their product is too large; two sessions with their resets take
the generation to 14 of 15, and the stop after them meets its end. *Channel*: two transfers put one in
flight behind or ahead of the other, in one session or in two; the sizes fill the
queue by count and by bytes; two connections allow a
reconnect, or two sessions, so that a completion or a body of one meets the next;
one receiver fault may come at every point, and the writer's own time-outs
are unbounded. *Store*: record lengths and sizes are chosen so that each of the
count, byte and manifest limits is met; two failures reach a roll-back that fails
and a retirement that fails. *Broker*: five numbers from 1 to 7 split, shrink and
close holes; capacity 2 is met by records, trackers and intervals.
*Workspace*: two saves are one given up on and one after it, and three
generations let another window come before, between and after; the edit moves
the file or keeps it, so that moves meet deletions. *Notes*: two pins make the
identifier counter matter, and one broken document meets every validation.
*Poll*: request `a` gets a better root event while it is selected, `b` is there
when the page opens, three versions change the evidence before and after the
one action, and the failure may hit any read. *Console*: two queued requests are
one waiting behind another, two sessions let another window replace the panel's
own, and a single command suffices for what runs once; the one failure comes before the
request is handled, after it, or is handled late, or is a document that closes, so that one
behaviour has one of them; the theorems hold for any number.

`CHECK_DEADLOCK FALSE` is set everywhere: each of these systems may stop, as
when producers have nothing to emit or the channel is idle.

Symmetry is used for the broker's streams, and for the threads of
`probe_config_race`; those runs check no liveness property.

Type invariants and the structural invariants of a module are one conjunction,
`Consistent`, whose conjuncts keep their names: among them are `NoDataRace`
(queue), `ObservedOnce` and `ClaimAccounted` (configuration), `OnePlaceEach`,
`AcceptedIsStored`, `DescriptorsOwned`, `PendingMatches`, `ResultsOwn`, `NoResultLost`
and `RefusalAnnounced` (channel), `AccountingExact` (store), `TrackersExact`, `TrackersBounded`,
`GapsExact`, `QueueDropsExact` and `SnapshotLimited` (broker), `SavedIsStored`
(workspace), `ProfileOfSelected` (poll), `RunOnce` and `ResultFollows` (console).

Each property has a mutant: a definition `Bug_...` that stands beside the
definition it mutates and changes it as a plausible bug would. With the mutant
in place TLC finds the property violated.

## Findings

1. **`Disable` discards drops that no record follows** (`DisableReportsDrops`).
   `native_probe_host.cc:739` says of `Disable` that queued records *and drops not
   yet reported* are published before the mapping goes. `Drain` writes a gap
   record only in a pass that drained a record. Drops counted after the last
   drained record have no gap when `Disable` clears `reported_dropped_events_`
   and the mapping. The broker's `queue_drops` is then too low by that amount.
2. **`sequence_gaps` is no lower bound after an eviction** (`GapsLowerBound`).
   `event_broker.hpp:49-50` calls it *an incomplete lower bound*. A tracker
   made again after its eviction has forgotten the numbers its stream sent before,
   and counts one of them as absent when its bounds come to include it.

Worth knowing, though no run is given to them:

- `docs/architecture/artifact-transfer-channel.md:152-153` says that when reconnection
  fails *every queued transfer is reported*. A Wasm module that observations
  wait for is not: `OnTransferCompleted` takes it out of `pending_` and drops its observations
  without a result once the sink is no longer enabled
  (`native_artifact_capture_sink.cc:1325-1327`), and a lost channel has disabled it, as
  `IsEnabled` asks `AcceptsTransfers`. `NoResultLost` names this exception, and that
  it is the only one.
- `docs/architecture/artifact-transfer-channel.md:123` says that a temporary file
  is *atomically renamed* into the blob directory. The code calls `linkat` and
  then `unlinkat`; if the process dies between the two the blob has two links,
  and the constructor refuses the store. `ReopensUnlessLinked` shows that, short
  of a loss of power, this is the only state a dead process leaves that is refused.
- A blob that was retired without its directory being synchronised may return
  after a loss of power, and if its room was given away the store is above its
  limit and refused (`ReopensUnlessLinked` names the case).
- Records published behind a slot that is claimed and not yet published go with
  the mapping when `Disable` runs (`DisableDeliversHead` states what is delivered).
- *Workspace and notebook*: a confirmed save that changed nothing does not move
  the generation, so an earlier request that was given up on may still commit
  after it. `NoLateOverwrite` speaks of confirmed saves that changed something.
- *Poll*: a profile read in flight over Clear may still be shown, under the
  request it belongs to, until the next valid poll drops the request. After Clear
  of a broker that has exited the window stays empty, as nothing records any more.
- *Poll*: the profile read of the chain (`app.js:3094`) has neither deadline nor abort
  signal, and `refreshPollDependents` (`app.js:7912`) waits for it. While it is unanswered
  each later poll skips the profile, artifact and VM reads, until the page is loaded again:
  `ProfileCatchesUp` needs `ChainReturns` for this reason.
- *Console*: after a lost connection the panel says that refreshing the documents
  recovers (`native_console.js:54`). Once the session has ended elsewhere each
  refresh is refused, and the watch skips a panel that is disconnected; only
  Disconnect leads out, and not while another window holds a session.
  `LearnsEnd` therefore ends at `disconnected`.
- *Console*: a connection that failed at the panel may still be made
  (`native_console.rs:448`). The panel, which has no session, learns of it only when it is
  loaded again; until then Connect is refused.
- *Console*: the result of a command is appended after one more poll
  (`native_console.js:852, 867`). If that poll fails, the result of a disposable session's
  document appears when no document is selected any more; `ShownOwned` says so.
- *Console*: the live-capture consent is read when Connect is clicked; unticking
  it while the request waits in the queue does not hold the request back.

## Fairness

Liveness is stated only under fairness the code's scheduling justifies.

- `ProbeQueue!Fairness`: a thread inside `EmitEvent` keeps running, Mojo delivers
  `EventsAvailable`, and the host runs its drain. A weak exchange may fail for
  ever, as the standard allows, and nobody owes a new record or a `Disable`.
  `RecordsDelivered` therefore says that the host catches up again and again, or
  is detached: a producer whose exchange keeps failing holds no slot, and delays
  no record.
- `ProbeConfig!FairSpec`: the control sequence runs and Mojo delivers to it. Probing
  threads may stall anywhere, and no session need be started or stopped.
- `ArtifactChannel!FairSpec`: the writer runs, posted tasks run, and the join
  returns once the writer is done. Every socket wait in the code has a time-out,
  so `Writer` is never stuck in one. The receiver owes nothing.
- `EventPoll!Fairness`: the 2 s timer polls, a poll is answered or given up after
  10 s (`app.js:8124`) and an action after 15 s. The profile and trace reads have no deadline, and
  nothing is promised of them, nor of evidence, choices or the backend's handling of a posted
  action. `CatchesUp` holds although those reads may never end. `ProfileCatchesUp` has the
  hypothesis that the chain of dependent reads is idle again and again, which no deadline
  in the code guarantees.
- `ConsolePanel!Spec`: each exchange with the backend ends, as it has a deadline,
  and the timer's watch runs again and again. The watch is the panel's own; the
  researcher owes nothing.

## The proofs

Eight modules hold theorems, one beside each module they are about; the two
clients of the library share `LocalLibrary_proofs`. Each theorem holds
for every value of the constants that the named assumptions admit: any number
of threads, sessions, documents, records, transfers, artifacts, saves and
commands, any limits, widths and bounds. Every theorem of a module rests on one
inductive invariant (`QueueInv` and its companions in the queue, `IInv`
elsewhere, `NotesInv` for notebook and names), which TLC checked first on the
module's run as far as it can evaluate it. The steps are one lemma per action or
group of actions, and beneath it one per conjunct the action can disturb.

**`ProbeQueue_proofs`** (capacity at least two, drop counter of at least one)

- `ConsistentCorrect`: from `TypeCorrect` and `NoDataRaceCorrect`.
- `QueueInvCorrect`. Neither
  `NoDataRace` nor `FifoDelivery` is inductive: they say nothing of what a
  slot holds before the host reaches it. `QueueInv` adds `Window` (claims are at most
  one lap ahead, the histories agree with the counters), `SlotsInWindow` (each
  position of the lap finds its slot free, claimed or holding the claim's record),
  `Ownership` (a producer between claim and publication owns its position alone,
  and a producer that is about to exchange has seen a free slot) and
  `HostAtHead`. It rests on lemmas about
  positions modulo the capacity: within one lap the slot index is injective
  (`IdxInjective`) and onto (`IdxSurjective`).
- `FifoDeliveryCorrect`, `NoDataRaceCorrect`, `DropOnlyWhenFullCorrect` follow from it.
- `NoLostWakeupCorrect`: from `WakeupInv`, which says who owes the host a
  wake-up while the flag is clear and while it is set.
- `DropsCountedOnceCorrect`: from `DropInv`; the addition is that no producer
  holds a count above the counter, so that an exchange that succeeds adds to the
  value it read.
- `DisableDeliversHeadCorrect`: from `DisableInv`. A record that was published
  when `Disable` began is taken or still published (`OwedPresent`: nobody can
  write over it), and a drain that stops has found the head unpublished, so
  all of the leading run is behind it (`HeadRunTaken`).
- `ImplementsFifoCorrect`: a claim is an `Accept`, a
  release a `Deliver`, everything else a stutter, on `SubSeq` of the claims.

**`ProbeConfig_proofs`** (an odd generation maximum of at least three)

- `NoMixedPolicyCorrect`, `OwnConfigurationCorrect`,
  `CapturedInOwnConfigurationCorrect`, `ConsistentCorrect` and the action property
  `GenerationNeverReusedCorrect`. `PhaseInv`, `PublishedInv` and `SinkInv` say what
  sink and transport hold at each place of the control sequence: the published
  configuration's fields while the generation is even, a part of the next one's
  while it is odd. `ReadInv` and `CallInv` say what a probe has read: the policy
  of the generation it loaded, *if that is still the present one*. That condition is
  what the second load of the generation turns into a fact, and the reason
  why the weaker statement about accepted policies is not inductive. `HostInv`
  dates the configurations on their way, and `ClaimInv` gives a watermark one holder.

**`ArtifactChannel_proofs`** (sizes, limits and bounds are naturals, one attempt or more)

- `ConsistentCorrect`: `PlaceInv` says that an accepted transfer is queued, in
  hand, posted or reported, in exactly one of them, and `OnceInv` that no sequence
  holds it twice; `DescriptorInv` follows the one open descriptor; `AckInv` says
  that what is still to be read on the writer's connection answers the transfer
  in its hand, from which every result is true; `TaskInv` orders the posted tasks.
  `SinkInv` dates the sink: an identifier belongs to the generation that
  gave it out, none to a later one, and without a session the generation has no transfers.
  It says that a body being copied, a transfer in flight and a recorded
  result exclude each other. Neither `ResultsOwn` nor `NoResultLost` is inductive without it:
  that a completion meets its `pending` entry rests on `PendingMatches`, and that it
  is the first result of its identifier on that exclusion.
- `ImplementsLedgerCorrect`: `Spec => ImplementsLedger`, safety of the ledger; each
  step maps to `Accept`, `Report`, `AnnounceLoss`, `Reopen` or a stutter.

**`ArtifactStore_proofs`** (positive limits, records longer than one byte)

- `EvidenceKeptCorrect`. `FileInv` speaks of *every* state a loss of power may
  leave: each manifest in `maybe_manifest` is in order and holds every accepted
  artifact, and each artifact recorded in one of them has its blob synchronised
  (`Durable`). That makes `Crash` and `PowerLoss` the easy steps and puts the weight on the
  order of the calls. `RecordInv` says which records are the receiver's and where they
  end, so that the cut of `Restore` takes away the new one alone; `FrameInv`
  what has been done for the frame at each place, so that `Retire` never removes a blob another record names.
- `RecordsExactCorrect` and `BlobsNamedCorrect` are two conjuncts of `AccountingExact`.
- `ConsistentCorrect` and `ReopensUnlessLinkedCorrect`: from `AccountInv`, which compares the
  bytes the receiver counts with the sum over the blobs on disk at each place of
  a frame. The library writes that sum as a fold over a set; a section of its own
  states what a sum is (`Sums`), that there is one, and that a blob more is its
  size more, each from a smallest set that would break it. This needs
  the artifacts' identifiers to be a finite set (they have 64 bits).
- `AppendsBehindItsRecords`: where `ReceiveOne` is about to append, the manifest's
  length is the one the receiver remembers. The check for a manifest changed from
  outside (`artifact.cpp:869`) therefore never fires for what the
  receiver did, which is why the model leaves that branch out.

**`EventBroker_proofs`** (capacity and counter maximum positive, finitely many streams)

- `TrackersExactCorrect`: a tracker's bounds and intervals are those of the set of
  numbers seen since it was made. This is the heart of gap accounting: every way
  in which a number may extend, split, shrink or close an interval is a lemma.
- `TrackersBoundedCorrect`: from `StorageInv`. An eviction takes the oldest of the
  order, so the order must list each tracker once (`OrderShift`, `HeldOldest`), and as
  many go as make the intervals fit, which removing all would do (`ExcessIs`).
- `GapsExactCorrect`: from `GapInv`, as long as nothing was evicted a tracker was made by
  its stream's first number and has seen all of them. Intervals that do not touch
  count the numbers they cover (`WidthsAre`), those of a tracker the numbers absent
  from its stream (`AbsentIs`, `TrackerTotal`), and the saturating fold over
  all of them is the saturated sum, in whatever order it takes them (`GapsFold`).
- `QueueDropsExactCorrect`, `SnapshotLimitedCorrect`, with the above `ConsistentCorrect`, and
  `ImplementsWindowCorrect`: the ring with its write position refines `RecentWindow`.

**`LocalLibrary_proofs`, of the Analyst workspace** (identifiers up to `MaxId`, so that
a next one is new; a valid library to begin with)

- `ConsistentCorrect`, `OverwritesOnlySeenCorrect`, `NoLateOverwriteCorrect`: from
  `WireInv` (a request in flight changes only its item against the document it was
  made on, and that document is no later than what is pending, or what was
  confirmed after it), `SavingInv` (the awaited save is the pending one, and no
  refresh that may settle it is under way) and `Sound` (page and library agree). With
  the store's comparison of generations, a late or repeated request is then refused, or
  changes the version its user saw.
- `DraftKeptCorrect`: from `DraftInvCorrect`. A dirty form is not the only thing an edit
  rests on: `Shows` adds that after each task both forms are the selected items' and were
  filled from a version that exists, so that a document without the item conflicts
  with the edit and is not admitted; `Saves` adds that an awaited save holds the
  draft which its confirmation clears, or began with clean forms. `Passes(u, v)` is what
  every function of the page's state does to an edit (it stays, or it is stored), and it
  composes: one lemma each for admission, reconciliation, rendering and what follows a
  confirmed save. The assumption `NoFolderAssumption` says that the mark for a folder
  that is not there is no folder's name.

**`LocalLibrary_proofs`, of the notebook and the names** (as above, and
`BodiesAssumption`: a body that validates as a notebook has its pins below the next
identifier, as `validate` demands)

`LocalLibrary_proofs` extends the modules of both clients, so that the lemmas about
documents, requests and the store's step serve both.

- `NotesInvCorrect`: `NotesInv` adds to the types `Known` (each client's document is one of
  the library's), `ShowsNotebook` (the page has that document's notebook, and a draft is of one of its
  pins or of the next one), `VerifiesAlone` (while a digest is awaited no operation runs, and no
  draft exists when it is for a new pin), `DraftGoes` (no load is under way over an
  unsaved draft, and an awaited write holds it), and `FlightInv`.
- `NotesOverwritesOnlySeenCorrect`: from `FlightInv`. A replacement in flight differs from the
  document *it was made on* only where its user looked. That document stays in the library's
  history, so neither delay nor other windows' writes disturb the statement, and the store
  carries a replacement out only when that document is still the current one.
- `NamesAdvanceCorrect`: what a load or a rename has read is not older than the names shown, because
  the Analyst's documents are taken only while neither is under way; a rename that was posted expects
  the very generation shown.
- `PinsVerifiedCorrect`: the comparison after the digest and the write are one task, and
  a write that is not of a new pin has the identifiers of the notebook its user saw.
- `NotesDraftKeptCorrect`: from `DraftGoes`; the receipt's document holds what was sent, hence the draft.
- `NotesTypeOKCorrect`: the types, and the documents' generations.

**`EventPoll_proofs`** (each event belongs to one request and has a rank from 0 to 2)

- `NotModifiedIsCurrentCorrect`, `AdmittedAfterActionsCorrect`: from `Dated`, which
  dates an answer by a tag that was computed before its window was read.
- `AnswerOwnedCorrect`, `ConsistentCorrect`: from `ReadInv`, one current read of a
  kind and one awaited by the chain, and `ViewInv`.

**`ConsolePanel_proofs`** (bounds that are naturals)

- `ConsistentCorrect`, `ShownOwnedCorrect`, `ActsWhereShownCorrect`:
  `BegunInv` says that a request that was sent and is still current is about what the panel
  shows, `ConnectInv` that the document of a queued connection is still the selection,
  `QueueInv` that one submitted command is under way with only polls behind it, and that
  the poll before its result is alone in the queue, and `RowInv` how far the command has come.
  `LabelInv` ties a row to its request and, while the result is awaited, to what is
  shown; `LateInv` says of a command that was given up that it has not run, that its row
  will never confirm it, and that no second copy of it is left.

### Only model-checked

- Liveness and fairness: `RecordsDelivered`, `StopDisarms`, `AcceptedReported`,
  `StopFinishes`, `CatchesUp`, `ProfileCatchesUp`, `LearnsEnd`. The prover has no rules for
  fairness.

## Abstractions, and what is not modelled

- Atomics are sequentially consistent, but for the policy fields above. The
  queue publishes with release stores and reads with acquire loads;
  reorderings weaker than that are not explored. Torn plain accesses are
  excluded by proving or checking that no two conflicting ones meet.
- The queue's 64-bit positions are naturals: 2^64 pushes are out of reach. The
  generation and epoch counters end at their width.
- Records, policies, transfers and artifacts are model values or small
  records: payloads, encodings and texts are left out, and so are the
  statistics counters that nothing reads back.
- `ProbeQueue` models one mapping: a new `Configure` makes a new queue, which
  `ProbeConfig` names by the session that made it.
- `ProbeConfig` has one host and one renderer. Tear-down of a host and the
  pointer to the emitter the Wasm fast path caches are left out.
- In `ArtifactChannel` connections may be served side by side, although the
  receiver serves them in turn: there are more behaviours than the code has. The state check
  `Enqueue` makes before it takes `lock_`, and the tasks `DisconnectPending`
  posts, are each one step with what follows; so are the sink's test that it is enabled and
  the `Enqueue` behind it, and the flush of `DisconnectPending`. A `Start` whose session is
  refused afterwards is a `Start` and a `Stop`. A refusal for a budget is the failure of a
  capture that was never queued; that of a request body is recorded by the network sink, and
  counts here as the capture's result. `lost` says that `ArtifactChannelLost` ran: its gap is
  recorded unless the session has expired.
- `EventBroker` takes the clock as an arbitrary reading.
- `ArtifactStore` has no second writer: the evidence guard keeps it out, so
  the check for a manifest that changed from outside is left
  out; `AppendsBehindItsRecords` proves that it never fires for what the receiver did
  itself. A line of the manifest is its artifact and the offset at which it ends: its
  text is left out. A torn record is one byte long. A temporary file's content after a loss
  of power is of no consequence: its name alone blocks its artifact.
- In the UI, rendering, wording, focus, history and local storage are left out,
  but for what a render writes back into the state. Deadlines are failures that
  may come at any time.
- `LocalLibrary` takes a file as the folder it lies in and a body for its other
  fields; a file's time stamp is the generation that created it. Sizes and
  counts of the library's bounds are left out.
- The workspace constructs the entity tag it expects from the generation;
  the stand-alone backend's tag holds a digest as well, so the tag matches only
  behind the native shell. A reload that does not match reads the document, so
  the model lets either happen.
- `LibraryNotes` has one pinned record and one named item. A broken document
  stands for every one that does not validate.
  Pin identifiers end at `MaxPins`, which `BodiesAssumption` and its theorems leave open.
- `EventPoll` leaves out status labels and the marks of new rows. A profile or
  trace read that was superseded and belongs to no chain has no effect, and is
  dropped at once. Artifact, VM and instrumentation reads are the end of the
  chain. A broker that exits is not started again.
- `ConsolePanel` leaves out bindings, document-start arming, values and their
  handles, completion, history, helpers, Clear output and "Check availability".
  Disposable and live documents share one set of names; a read of the owner is
  one instant's state; a listing that fails is a listing that never arrives. At
  the start another window's session may be there to be adopted. Of the requests that are
  given up, commands are completed late by `LateHandled`. A late connection or Stop is what
  another window may do at any time (`OtherConnects`, `SessionEnds`), and a late listing or
  poll changes nothing.
  An owner that is busy with another window refuses a request, which is the case of a
  lost one (`RequestFails`).
- `SpscRing` (`include/reb/spsc_ring.hpp`) has one user, the demonstration
  program; the queue of the real pipeline is `ProbeQueue`.
- Components with status `not_modelled` in `PROJECT.json` have their reason there.

## Plan

Done, in the order of importance: `ProbeQueue` with its proofs, `ProbeConfig`,
`ArtifactChannel`, `EventBroker`, `ArtifactStore`, then the research UI where it
is stateful and concurrent: `LocalLibrary` with `AnalystWorkspace` and
`LibraryNotes`, `EventPoll`, `ConsolePanel`.

What would extend the model next, and is listed as a hazard or a component:
`ProbeSocket` (the socket client's writer loop and its drops in a final burst),
`WorkspaceLease` (the backend's lock file and durable save) and the evidence
guard's marker. The remaining parts of the UI are pure functions of evidence or
one window's view state; modelling them would restate them.

Every safety invariant, action property and refinement that a passing run checks is
now stated by a theorem. What a proof could still add is about the parts
above that are not modelled yet.
