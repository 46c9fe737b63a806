----------------------------- MODULE ProbeConfig -----------------------------
(***************************************************************************)
(* How a capture configuration reaches the probes of one renderer and how  *)
(* a probe is admitted against it.  The browser side (NativeProbeSession,  *)
(* NativeProbeHost) sends Configure and Disable over an ordered Mojo pipe; *)
(* the renderer's control sequence (NativeProbeTransport) installs the     *)
(* policy in the sink under a generation counter that is odd while the     *)
(* fields change; probes on any thread (NativeProbeSink) take a snapshot,  *)
(* claim their site, and push into the mapping current when they emit, or  *)
(* send a WebAssembly capture that carries the configuration's epoch.      *)
(*                                                                         *)
(* The generation, the queue pointer, the epoch and every site's watermark *)
(* are accessed one atomic step at a time.  The relaxed policy fields sit  *)
(* between fences: the control sequence stores them in any order, so that  *)
(* a probe, which loads them in one order, can meet any mixture of them.   *)
(***************************************************************************)
EXTENDS Integers, Sequences, FiniteSets, Functions

CONSTANTS
    Surface, Wasm,   \* renderer threads in RecordSurfaceOperation, in RecordNativeWasmDispatch
    Sessions,        \* session IDs other than 0
    Categories,      \* probe categories; each has one call site here
    Policies,        \* the policies sessions are started with
    GenMax,          \* the width of config_generation_ (odd, like 2^64 - 1)
    EpochMax,        \* the width of wasm_capture_epoch_
    MaxStarts,       \* bound: sessions started
    MaxCalls,        \* bound: probes the threads run
    MaxTime          \* bound: the clock

Threads == Surface \cup Wasm
Policy == [session : Sessions, mask : SUBSET Categories, expires : 1 .. MaxTime + 1,
           emitter : {TRUE}]

ASSUME ThreadsAssumption == Surface \cap Wasm = {}
ASSUME PoliciesAssumption == Policies \subseteq Policy /\ "none" \notin Sessions
ASSUME WidthAssumption == GenMax \in Nat /\ GenMax % 2 = 1 /\ GenMax >= 3
                          /\ EpochMax \in Nat \ {0}
ASSUME BoundAssumption == MaxStarts \in Nat /\ MaxCalls \in Nat /\ MaxTime \in Nat

VARIABLES
    now,                                        \* the monotonic clock
    session, bound, host_epoch, host_mapping,   \* NativeProbeSession; NativeProbeHost
    starts,                                     \* sessions started; names their mappings
    to_renderer, to_host,                       \* the two Mojo pipes
    cpc, incoming, target, pending,             \* the control sequence and its locals
    generation, sink, queue, mapped, epoch,     \* config_generation_, the policy fields, queue_,
                                                \* queue_mappings_, wasm_capture_epoch_
    observed,                                   \* each site's observed_generation
    pc, stage, call, gen, time, read, held,     \* per thread: place and locals
    calls,                                      \* per thread: probes run so far
    published, pushed, captured                 \* history: configuration of each generation,
                                                \* records in mappings, captures the host took

hostVars == <<session, bound, host_epoch, host_mapping, starts>>
controlVars == <<cpc, incoming, target, pending>>
sinkVars == <<generation, sink>>
transportVars == <<queue, mapped, epoch>>
threadVars == <<pc, stage, call, gen, time, read, held, calls>>
historyVars == <<published, pushed, captured>>
vars == <<now, hostVars, to_renderer, to_host, controlVars, sinkVars, transportVars, observed,
          threadVars, historyVars>>

\* What a null SetEmitters installs, and what Disable stands for in the pipe.
Off == [session |-> "none", mask |-> {}, expires |-> 0, emitter |-> FALSE]
NoConfig == [policy |-> Off, mapping |-> 0, epoch |-> 0]
Config == [policy : Policy, mapping : 1 .. MaxStarts, epoch : 1 .. EpochMax]

LoadOrder == <<"mask", "expires", "session", "emitter">>
Fields == {LoadOrder[i] : i \in 1 .. 4}
Nothing == [f \in {} |-> 0]
NoCall == [session |-> "none", category |-> "none"]

----------------------------------------------------------------------------
Init ==
    /\ now = 0
    /\ session = Off /\ bound = FALSE /\ host_epoch = 0 /\ host_mapping = 0 /\ starts = 0
    /\ to_renderer = <<>> /\ to_host = <<>>
    /\ cpc = "idle" /\ incoming = NoConfig /\ target = NoConfig /\ pending = {}
    /\ generation = 0 /\ sink = Off
    /\ queue = 0 /\ mapped = {} /\ epoch = 0
    /\ observed = [c \in Categories |-> 0]
    /\ pc = [t \in Threads |-> "idle"] /\ stage = [t \in Threads |-> "none"]
    /\ call = [t \in Threads |-> NoCall]
    /\ gen = [t \in Threads |-> 0] /\ time = [t \in Threads |-> 0]
    /\ read = [t \in Threads |-> Nothing] /\ held = [t \in Threads |-> 0]
    /\ calls = [t \in Threads |-> 0]
    /\ published = [g \in 0 .. GenMax |-> NoConfig]
    /\ pushed = {} /\ captured = {}

Tick ==
    /\ now < MaxTime
    /\ now' = now + 1
    /\ UNCHANGED <<hostVars, to_renderer, to_host, controlVars, sinkVars, transportVars,
                   observed, threadVars, historyVars>>

----------------------------------------------------------------------------
(* The browser sequence: NativeProbeSession and NativeProbeHost *)

\* Mutant: the epoch stays, so captures of the retired configuration look current.
Bug_NextEpoch_Same == IF host_epoch = 0 THEN 1 ELSE host_epoch

\* Disable's ++wasm_capture_epoch_, which stops at the counter's width.
NextEpoch == IF host_epoch = EpochMax THEN EpochMax ELSE host_epoch + 1

DisableMessage(to_bound) == IF to_bound THEN <<NoConfig>> ELSE <<>>

\* Mutant: the renderer is not told.
Bug_HostDisable_NoMessage ==
    /\ host_epoch' = NextEpoch
    /\ host_mapping' = 0
    /\ UNCHANGED to_renderer

\* NativeProbeHost::Disable (its Drain is ProbeQueue's subject).
HostDisable ==
    /\ host_epoch' = NextEpoch
    /\ host_mapping' = 0
    /\ to_renderer' = to_renderer \o DisableMessage(bound)

\* NativeProbeHost::Configure: Disable, then a fresh queue in a mapping of its own.
HostConfigure(policy, to_bound) ==
    /\ host_epoch' = NextEpoch
    /\ IF ~ to_bound \/ NextEpoch = EpochMax
         THEN /\ host_mapping' = 0
              /\ to_renderer' = to_renderer \o DisableMessage(to_bound)
         ELSE /\ host_mapping' = starts'
              /\ to_renderer' = to_renderer \o
                    <<NoConfig, [policy |-> policy, mapping |-> starts', epoch |-> NextEpoch]>>

StartSession(policy) ==
    /\ session = Off /\ now < policy.expires /\ starts < MaxStarts
    /\ session' = policy /\ starts' = starts + 1
    /\ HostConfigure(policy, bound)
    /\ UNCHANGED <<now, bound, to_host, controlVars, sinkVars, transportVars, observed,
                   threadVars, historyVars>>

StopSession ==
    /\ session # Off
    /\ session' = Off
    /\ HostDisable
    /\ UNCHANGED <<now, bound, starts, to_host, controlVars, sinkVars, transportVars, observed,
                   threadVars, historyVars>>

\* The renderer's transport connects: a running session is sent to it.
BindClient ==
    /\ ~ bound
    /\ bound' = TRUE /\ UNCHANGED starts
    /\ IF session # Off THEN HostConfigure(session, TRUE)
                        ELSE UNCHANGED <<host_epoch, host_mapping, to_renderer>>
    /\ UNCHANGED <<now, session, to_host, controlVars, sinkVars, transportVars, observed,
                   threadVars, historyVars>>

\* A capture belongs to the host's present configuration and session.
Current(capture) ==
    /\ host_mapping # 0 /\ capture.epoch = host_epoch
    /\ capture.session = session.session /\ capture.category \in session.mask
    /\ now < session.expires

\* CaptureWasmDispatch takes the observation, or returns at its first test.
CaptureWasmDispatch ==
    /\ to_host # <<>>
    /\ LET capture == Head(to_host) IN
          captured' = IF Current(capture)
                      THEN captured \cup {[generation |-> capture.generation,
                                           mapping |-> host_mapping]}
                      ELSE captured
    /\ to_host' = Tail(to_host)
    /\ UNCHANGED <<now, hostVars, to_renderer, controlVars, sinkVars, transportVars, observed,
                   threadVars, published, pushed>>

----------------------------------------------------------------------------
(* The renderer's control sequence: NativeProbeTransport::Configure and Disable *)

\* Mutant: Configure without the Disable it starts with.
Bug_Receive_NoDisable ==
    /\ cpc = "idle" /\ to_renderer # <<>>
    /\ incoming' = Head(to_renderer)
    /\ to_renderer' = Tail(to_renderer)
    /\ cpc' = IF incoming' = NoConfig THEN "idle" ELSE "queue"
    /\ UNCHANGED <<now, hostVars, to_host, target, pending, sinkVars, transportVars, observed,
                   threadVars, historyVars>>

\* Configure and Disable both begin with Disable.
Receive ==
    /\ cpc = "idle" /\ to_renderer # <<>>
    /\ incoming' = Head(to_renderer)
    /\ to_renderer' = Tail(to_renderer)
    /\ cpc' = "clear_epoch"
    /\ UNCHANGED <<now, hostVars, to_host, target, pending, sinkVars, transportVars, observed,
                   threadVars, historyVars>>

\* wasm_capture_epoch_.store(0), then SetEmitters(nullptr, ...).
ClearEpoch ==
    /\ cpc = "clear_epoch"
    /\ epoch' = 0
    /\ target' = NoConfig
    /\ cpc' = "stop"
    /\ UNCHANGED <<now, hostVars, to_renderer, to_host, incoming, pending, sinkVars, queue,
                   mapped, observed, threadVars, historyVars>>

\* SetEmitters: emitter_.store(nullptr) turns new readers away.
StopReaders ==
    /\ cpc = "stop"
    /\ sink' = [sink EXCEPT !.emitter = FALSE]
    /\ cpc' = "begin"
    /\ UNCHANGED <<now, hostVars, to_renderer, to_host, incoming, target, pending, generation,
                   transportVars, observed, threadVars, historyVars>>

AfterSetEmitters == IF target = NoConfig THEN "clear_queue" ELSE "idle"

\* Mutant: the counter wraps around at its width.
Bug_BeginGeneration_Wraps ==
    /\ cpc = "begin"
    /\ generation' = IF generation >= GenMax - 1 THEN 1 ELSE generation + 1
    /\ cpc' = "store" /\ pending' = Fields
    /\ UNCHANGED <<now, hostVars, to_renderer, to_host, incoming, target, sink, transportVars,
                   observed, threadVars, historyVars>>

\* The generation becomes odd; at the end of its width it stays odd for good.
BeginGeneration ==
    /\ cpc = "begin"
    /\ IF generation >= GenMax - 1
         THEN generation' = GenMax /\ cpc' = AfterSetEmitters /\ UNCHANGED pending
         ELSE generation' = generation + 1 /\ cpc' = "store" /\ pending' = Fields
    /\ UNCHANGED <<now, hostVars, to_renderer, to_host, incoming, target, sink, transportVars,
                   observed, threadVars, historyVars>>

StoreField(f) ==
    /\ cpc = "store" /\ f \in pending
    /\ sink' = [sink EXCEPT ![f] = target.policy[f]]
    /\ pending' = pending \ {f}
    /\ UNCHANGED <<now, hostVars, to_renderer, to_host, cpc, incoming, target, generation,
                   transportVars, observed, threadVars, historyVars>>

\* The even generation publishes the fields.
EndGeneration ==
    /\ cpc = "store" /\ pending = {}
    /\ generation' = generation + 1
    /\ published' = [published EXCEPT ![generation + 1] = target]
    /\ cpc' = AfterSetEmitters
    /\ UNCHANGED <<now, hostVars, to_renderer, to_host, incoming, target, pending, sink,
                   transportVars, observed, threadVars, pushed, captured>>

\* Disable ends with queue_.store(nullptr); Configure refuses an expired policy.
ClearQueue ==
    /\ cpc = "clear_queue"
    /\ queue' = 0
    /\ cpc' = IF incoming.policy.expires <= now THEN "idle" ELSE "queue"
    /\ UNCHANGED <<now, hostVars, to_renderer, to_host, incoming, target, pending, sinkVars,
                   mapped, epoch, observed, threadVars, historyVars>>

\* The mapping is kept for the process's life and published.
SetQueue ==
    /\ cpc = "queue"
    /\ mapped' = mapped \cup {incoming.mapping}
    /\ queue' = incoming.mapping
    /\ cpc' = "epoch"
    /\ UNCHANGED <<now, hostVars, to_renderer, to_host, incoming, target, pending, sinkVars,
                   epoch, observed, threadVars, historyVars>>

\* wasm_capture_epoch_.store(epoch), then SetEmitters with the new policy.
SetEpoch ==
    /\ cpc = "epoch"
    /\ epoch' = incoming.epoch
    /\ target' = incoming
    /\ cpc' = "stop"
    /\ UNCHANGED <<now, hostVars, to_renderer, to_host, incoming, pending, sinkVars, queue,
                   mapped, observed, threadVars, historyVars>>

Control ==
    \/ Receive \/ ClearEpoch \/ StopReaders \/ BeginGeneration
    \/ \E f \in Fields : StoreField(f)
    \/ EndGeneration \/ ClearQueue \/ SetQueue \/ SetEpoch

----------------------------------------------------------------------------
(* A probe on a renderer thread: NativeProbeSink, then NativeProbeTransport *)

\* The probe returns to the page's code.
Finish(t) ==
    /\ pc' = [pc EXCEPT ![t] = "idle"] /\ stage' = [stage EXCEPT ![t] = "none"]
    /\ call' = [call EXCEPT ![t] = NoCall]
    /\ gen' = [gen EXCEPT ![t] = 0] /\ time' = [time EXCEPT ![t] = 0]
    /\ read' = [read EXCEPT ![t] = Nothing] /\ held' = [held EXCEPT ![t] = 0]
    /\ UNCHANGED calls

GoTo(t, place) == pc' = [pc EXCEPT ![t] = place]

\* A probe runs only where it has seen an emitter.
Call(t) ==
    /\ pc[t] = "idle" /\ SumFunction(calls) < MaxCalls /\ sink.emitter
    /\ \E c \in Categories : call' = [call EXCEPT ![t] = [NoCall EXCEPT !.category = c]]
    /\ calls' = [calls EXCEPT ![t] = @ + 1]
    /\ GoTo(t, "generation")
    /\ UNCHANGED <<now, hostVars, to_renderer, to_host, controlVars, sinkVars, transportVars,
                   observed, stage, gen, time, read, held, historyVars>>

\* The snapshot starts at an even generation; the clock is read next.
LoadGeneration(t) ==
    /\ pc[t] = "generation"
    /\ IF generation % 2 = 1
         THEN Finish(t)
         ELSE /\ gen' = [gen EXCEPT ![t] = generation]
              /\ time' = [time EXCEPT ![t] = now]
              /\ stage' = [stage EXCEPT ![t] = "snapshot"]
              /\ GoTo(t, "load")
              /\ UNCHANGED <<call, read, held, calls>>
    /\ UNCHANGED <<now, hostVars, to_renderer, to_host, controlVars, sinkVars, transportVars,
                   observed, historyVars>>

\* One relaxed load of a policy field.
LoadField(t, f) ==
    /\ pc[t] = "load" /\ f \notin DOMAIN read[t]
    /\ \A i \in 1 .. 4 : LoadOrder[i] = f => \A j \in 1 .. i - 1 : LoadOrder[j] \in DOMAIN read[t]
    /\ read' = [read EXCEPT ![t] =
                   [g \in DOMAIN read[t] \cup {f} |-> IF g = f THEN sink[f] ELSE read[t][g]]]
    /\ UNCHANGED <<now, hostVars, to_renderer, to_host, controlVars, sinkVars, transportVars,
                   observed, pc, stage, call, gen, time, held, calls, historyVars>>

Loaded(t) == pc[t] = "load" /\ DOMAIN read[t] = Fields

\* Mutant: the generation is not compared again after the loads.
Bug_Snapshot_NoRecheck(t) ==
    /\ read[t].emitter /\ call[t].category \in read[t].mask /\ time[t] < read[t].expires

\* What RecordSurfaceOperation and SnapshotVmAdmission require of their snapshot.
Snapshot(t) ==
    /\ generation = gen[t]
    /\ read[t].emitter /\ call[t].category \in read[t].mask /\ time[t] < read[t].expires

CheckSnapshot(t) ==
    /\ Loaded(t) /\ stage[t] = "snapshot"
    /\ IF Snapshot(t)
         THEN /\ call' = [call EXCEPT ![t].session = read[t].session]
              /\ GoTo(t, IF t \in Surface THEN "claim_load" ELSE "transport")
              /\ UNCHANGED <<stage, gen, time, read, held, calls>>
         ELSE Finish(t)
    /\ UNCHANGED <<now, hostVars, to_renderer, to_host, controlVars, sinkVars, transportVars,
                   observed, historyVars>>

\* The site's watermark: this configuration, or a later one, may have it already.
ClaimLoad(t) ==
    /\ pc[t] = "claim_load"
    /\ IF observed[call[t].category] >= gen[t]
         THEN Finish(t)
         ELSE /\ held' = [held EXCEPT ![t] = observed[call[t].category]]
              /\ GoTo(t, "claim")
              /\ UNCHANGED <<stage, call, gen, time, read, calls>>
    /\ UNCHANGED <<now, hostVars, to_renderer, to_host, controlVars, sinkVars, transportVars,
                   observed, historyVars>>

\* compare_exchange_strong(observed, config_generation): one attempt.
Claim(t) ==
    /\ pc[t] = "claim"
    /\ IF observed[call[t].category] = held[t]
         THEN /\ observed' = [observed EXCEPT ![call[t].category] = gen[t]]
              /\ held' = [held EXCEPT ![t] = 0]
              /\ GoTo(t, "transport")
              /\ UNCHANGED <<stage, call, gen, time, read, calls>>
         ELSE Finish(t) /\ UNCHANGED observed
    /\ UNCHANGED <<now, hostVars, to_renderer, to_host, controlVars, sinkVars, transportVars,
                   historyVars>>

\* A refused surface record gives its site back; a refused capture just returns.
Reject(t) ==
    IF t \in Surface
    THEN GoTo(t, "release") /\ UNCHANGED <<stage, call, gen, time, read, held, calls>>
    ELSE Finish(t)

\* EmitEvent loads queue_, EmitWasmDispatch the epoch, before either validates the policy.
LoadTransport(t) ==
    /\ pc[t] = "transport"
    /\ LET loaded == IF t \in Surface THEN queue ELSE epoch IN
       IF loaded = 0
         THEN Reject(t)
         ELSE /\ held' = [held EXCEPT ![t] = loaded]
              /\ stage' = [stage EXCEPT ![t] = "admit"]
              /\ GoTo(t, "admit")
              /\ UNCHANGED <<call, gen, time, read, calls>>
    /\ UNCHANGED <<now, hostVars, to_renderer, to_host, controlVars, sinkVars, transportVars,
                   observed, historyVars>>

\* CanAdmitEvent: the generation is still the record's.
CanAdmitEvent(t) ==
    /\ pc[t] = "admit"
    /\ IF generation # gen[t]
         THEN Reject(t)
         ELSE /\ read' = [read EXCEPT ![t] = Nothing]
              /\ GoTo(t, "load")
              /\ UNCHANGED <<stage, call, gen, time, held, calls>>
    /\ UNCHANGED <<now, hostVars, to_renderer, to_host, controlVars, sinkVars, transportVars,
                   observed, historyVars>>

\* CanAdmitEvent's answer.
Admissible(t) ==
    /\ generation = gen[t]
    /\ read[t].emitter /\ read[t].session # "none"
    /\ call[t].session = read[t].session /\ call[t].category \in read[t].mask
    /\ now < read[t].expires

\* EmitEvent asks once; EmitWasmDispatch asks twice and then looks at the epoch again.
CheckAdmit(t) ==
    /\ Loaded(t) /\ stage[t] \in {"admit", "again"}
    /\ IF ~ Admissible(t)
         THEN Reject(t)
         ELSE /\ GoTo(t, IF t \in Surface THEN "push"
                         ELSE IF stage[t] = "admit" THEN "admit" ELSE "recheck")
              /\ stage' = [stage EXCEPT ![t] = IF t \in Wasm THEN "again" ELSE @]
              /\ UNCHANGED <<call, gen, time, read, held, calls>>
    /\ UNCHANGED <<now, hostVars, to_renderer, to_host, controlVars, sinkVars, transportVars,
                   observed, historyVars>>

\* TryPush into the mapping loaded before: accepted, or the queue is full.
Push(t) ==
    /\ pc[t] = "push"
    /\ \/ /\ pushed' = pushed \cup
                {[by |-> t, nth |-> calls[t], session |-> call[t].session,
                  category |-> call[t].category, generation |-> gen[t], mapping |-> held[t]]}
          /\ Finish(t)
       \/ Reject(t) /\ UNCHANGED pushed
    /\ UNCHANGED <<now, hostVars, to_renderer, to_host, controlVars, sinkVars, transportVars,
                   observed, published, captured>>

\* Mutant: the refused record lowers the watermark whatever it is by now.
Bug_Release_Store(t) ==
    /\ pc[t] = "release"
    /\ observed' = [observed EXCEPT ![call[t].category] = gen[t] - 1]
    /\ Finish(t)
    /\ UNCHANGED <<now, hostVars, to_renderer, to_host, controlVars, sinkVars, transportVars,
                   historyVars>>

\* compare_exchange_strong(claimed, config_generation - 1): only its own claim is undone.
Release(t) ==
    /\ pc[t] = "release"
    /\ observed' = [observed EXCEPT ![call[t].category] =
                       IF @ = gen[t] THEN gen[t] - 1 ELSE @]
    /\ Finish(t)
    /\ UNCHANGED <<now, hostVars, to_renderer, to_host, controlVars, sinkVars, transportVars,
                   historyVars>>

RecheckEpoch(t) ==
    /\ pc[t] = "recheck"
    /\ IF epoch = held[t]
         THEN GoTo(t, "send") /\ UNCHANGED <<stage, call, gen, time, read, held, calls>>
         ELSE Finish(t)
    /\ UNCHANGED <<now, hostVars, to_renderer, to_host, controlVars, sinkVars, transportVars,
                   observed, historyVars>>

\* (*host)->CaptureWasmDispatch(epoch, ...).
Send(t) ==
    /\ pc[t] = "send"
    /\ to_host' = Append(to_host, [epoch |-> held[t], session |-> call[t].session,
                                   category |-> call[t].category, generation |-> gen[t]])
    /\ Finish(t)
    /\ UNCHANGED <<now, hostVars, to_renderer, controlVars, sinkVars, transportVars,
                   observed, historyVars>>

Probe(t) ==
    \/ LoadGeneration(t) \/ (\E f \in Fields : LoadField(t, f)) \/ CheckSnapshot(t)
    \/ ClaimLoad(t) \/ Claim(t) \/ LoadTransport(t) \/ CanAdmitEvent(t) \/ CheckAdmit(t)
    \/ Push(t) \/ Release(t) \/ RecheckEpoch(t) \/ Send(t)

----------------------------------------------------------------------------
Browser ==
    \/ \E p \in Policies : StartSession(p)
    \/ StopSession \/ BindClient \/ CaptureWasmDispatch

Next ==
    \/ Tick \/ Browser
    \/ Control
    \/ \E t \in Threads : Call(t) \/ Probe(t)

Spec == Init /\ [][Next]_vars

\* The control sequence is scheduled and Mojo delivers; probing threads may stall anywhere.
FairSpec == Spec /\ WF_vars(Control)
----------------------------------------------------------------------------
(* Properties *)

SinkPolicy == [session : Sessions \cup {"none"}, mask : SUBSET Categories,
               expires : 0 .. MaxTime + 1, emitter : BOOLEAN]

Captures == [epoch : 1 .. EpochMax, session : Sessions, category : Categories,
             generation : 0 .. GenMax]

HostTypes ==
    /\ now \in 0 .. MaxTime
    /\ session \in Policy \cup {Off} /\ bound \in BOOLEAN
    /\ host_epoch \in 0 .. EpochMax /\ host_mapping \in 0 .. MaxStarts
    /\ starts \in 0 .. MaxStarts
    /\ to_renderer \in Seq(Config \cup {NoConfig})

ControlTypes ==
    /\ cpc \in {"idle", "clear_epoch", "stop", "begin", "store", "clear_queue", "queue", "epoch"}
    /\ incoming \in Config \cup {NoConfig} /\ target \in Config \cup {NoConfig}
    /\ pending \in SUBSET Fields
    /\ generation \in 0 .. GenMax /\ sink \in SinkPolicy
    /\ queue \in 0 .. MaxStarts /\ mapped \in SUBSET (1 .. MaxStarts) /\ epoch \in 0 .. EpochMax
    /\ published \in [0 .. GenMax -> Config \cup {NoConfig}]

ThreadTypes ==
    /\ pc \in [Threads -> {"idle", "generation", "load", "claim_load", "claim", "transport",
                           "admit", "push", "release", "recheck", "send"}]
    /\ stage \in [Threads -> {"none", "snapshot", "admit", "again"}]
    /\ call \in [Threads -> [session : Sessions \cup {"none"}, category : Categories \cup {"none"}]]
    /\ gen \in [Threads -> 0 .. GenMax] /\ time \in [Threads -> 0 .. MaxTime]
    /\ DOMAIN read = Threads /\ \A t \in Threads : DOMAIN read[t] \in SUBSET Fields
    /\ held \in [Threads -> Nat] /\ calls \in [Threads -> Nat]

RecordTypes ==
    /\ observed \in [Categories -> 0 .. GenMax]
    /\ to_host \in Seq(Captures)
    /\ pushed \subseteq [by : Surface, nth : Nat, session : Sessions, category : Categories,
                         generation : 0 .. GenMax, mapping : 1 .. MaxStarts]
    /\ captured \subseteq [generation : 0 .. GenMax, mapping : 1 .. MaxStarts]

\* Every variable has its type.
TypeOK == HostTypes /\ ControlTypes /\ ThreadTypes /\ RecordTypes

\* A policy that a probe has accepted, in its snapshot or in CanAdmitEvent, is one
\* configuration's policy whole: no interleaving with SetEmitters mixes two.
NoMixedPolicy ==
    \A t \in Threads :
       pc[t] \in {"claim_load", "claim", "transport", "admit", "push", "recheck", "send"} =>
          read[t] = published[gen[t]].policy

\* A record enters only the mapping of the configuration that admitted it, even when
\* the next configuration has the same session ID, and that policy asked for it.
OwnConfiguration ==
    \A r \in pushed :
       LET config == published[r.generation] IN
       /\ r.mapping = config.mapping
       /\ r.session = config.policy.session /\ r.category \in config.policy.mask

\* A call site is observed at most once in a configuration, however many threads race,
\* and no thread left over from an older configuration opens the site again.
ObservedOnce ==
    \A r \in pushed :
       /\ observed[r.category] >= r.generation
       /\ \A s \in pushed \ {r} : r.category = s.category => r.generation # s.generation

\* A surface probe that has claimed its site and neither emitted nor given it back.
Holds(t) ==
    /\ t \in Surface
    /\ \/ pc[t] \in {"transport", "admit", "push", "release"}
       \/ pc[t] = "load" /\ stage[t] = "admit"

\* An even watermark is a claim in flight or an accepted record: a refused record
\* never uses up its site for the configuration.
ClaimAccounted ==
    \A c \in Categories :
       observed[c] # 0 /\ observed[c] % 2 = 0 =>
          \/ \E r \in pushed : r.category = c /\ r.generation = observed[c]
          \/ \E t \in Threads : Holds(t) /\ call[t].category = c /\ gen[t] = observed[c]

\* Every state is well typed, and a call site's watermark agrees with what became of
\* it: claimed by a thread of that generation, or observed once and never again.
Consistent == TypeOK /\ ObservedOnce /\ ClaimAccounted

\* A capture the host takes was admitted in the renderer under the configuration the
\* host holds: captures that were in flight over a reconfiguration are refused.
CapturedInOwnConfiguration ==
    \A c \in captured : published[c.generation].mapping = c.mapping

\* No generation is ever published twice: the counter only advances, at the end of its
\* width included, and what it publishes is new.
GenerationNeverReused ==
    [][/\ generation <= generation'
       /\ \A g \in 0 .. GenMax : published'[g] # published[g] => generation < g]_vars

\* StopSession reaches the probes: unless a session is started, the sink ends up
\* without an emitter and the transport without a queue.
StopDisarms == []<>(session # Off \/ (~ sink.emitter /\ queue = 0 /\ epoch = 0))
=============================================================================
