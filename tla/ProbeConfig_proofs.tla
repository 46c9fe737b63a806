-------------------------- MODULE ProbeConfig_proofs --------------------------
(***************************************************************************)
(* Theorems about how a configuration reaches the probes and how a probe   *)
(* is admitted against it, for every number of threads, sessions and       *)
(* categories, every width of the generation and epoch counters and every  *)
(* bound: the generation counter makes the policy's relaxed fields a unit, *)
(* a record and a capture enter only the mapping of the configuration that *)
(* admitted them, and a call site is observed once in a configuration.     *)
(***************************************************************************)
EXTENDS ProbeConfig, SequenceTheorems, TLAPS

Even(n) == n % 2 = 0

----------------------------------------------------------------------------
(* The inductive invariant *)

\* A configuration that has left the host is of an epoch it has reached, and the present
\* epoch's configuration is the one whose mapping the host reads.
Sent(config) ==
    config # NoConfig =>
       /\ config.epoch <= host_epoch
       /\ config.epoch = host_epoch /\ host_mapping # 0 => config.mapping = host_mapping

HostInv ==
    /\ session # Off => starts # 0
    /\ host_epoch = EpochMax => host_mapping = 0
    /\ \A i \in 1 .. Len(to_renderer) : Sent(to_renderer[i])
    /\ Sent(incoming) /\ Sent(target)
    /\ \A g \in 0 .. GenMax : Sent(published[g])

\* The control sequence: the generation is odd exactly while the fields change or for
\* good, and the queue and the epoch are those of the published configuration from
\* before it is published until after it is retired.
PhaseInv ==
    /\ cpc = "store" => ~ Even(generation) /\ generation < GenMax
    /\ cpc # "store" => Even(generation) \/ generation = GenMax
    /\ cpc \in {"queue", "epoch"} => incoming # NoConfig
    /\ cpc = "epoch" => queue = incoming.mapping
    /\ cpc \in {"clear_queue", "queue", "epoch"} => target = NoConfig /\ epoch = 0
    /\ cpc \in {"stop", "begin", "store"} =>
          \/ target = NoConfig /\ epoch = 0
          \/ /\ target # NoConfig /\ target = incoming
             /\ queue = incoming.mapping /\ epoch = incoming.epoch

PublishedInv ==
    Even(generation) =>
       LET config == published[generation] IN
       /\ \/ cpc \in {"clear_queue", "queue", "epoch"}
          \/ cpc \in {"stop", "begin"} /\ target # NoConfig
          => config = NoConfig
       /\ config # NoConfig => queue = config.mapping /\ epoch \in {0, config.epoch}

\* The fields are the published policy's while the generation is even, and on their way
\* to the next one's while it is odd; the emitter may be gone before the rest.
SinkInv ==
    /\ Even(generation) =>
          LET policy == published[generation].policy IN
          /\ sink.session = policy.session /\ sink.mask = policy.mask
          /\ sink.expires = policy.expires
          /\ sink.emitter => policy.emitter
    /\ cpc = "store" => \A f \in Fields \ pending : sink[f] = target.policy[f]

\* What a probe has read so far of the policy is the configuration's of its generation,
\* if that is still the current one.
ReadInv(t) ==
    LET policy == published[gen[t]].policy IN
    /\ read[t] = [f \in DOMAIN read[t] |-> read[t][f]]
    /\ pc[t] # "idle" => call[t].category \in Categories
    /\ pc[t] \in {"idle", "generation"} => read[t] = Nothing
    /\ gen[t] <= generation /\ Even(gen[t])
    /\ pc[t] = "load" /\ generation = gen[t] =>
          \A f \in DOMAIN read[t] :
             IF f = "emitter" THEN read[t][f] => policy[f] ELSE read[t][f] = policy[f]

\* The places behind the snapshot, and those behind CanAdmitEvent.
Snapped(t) ==
    \/ pc[t] \in {"claim_load", "claim", "transport", "admit", "push", "release", "recheck", "send"}
    \/ pc[t] = "load" /\ stage[t] \in {"admit", "again"}

\* A probe behind its snapshot carries the session and a category of the configuration
\* of its generation, and what it loaded of the transport is that configuration's:
\* certainly once it was admitted, and before that if the generation is still its own.
CallInv(t) ==
    LET config == published[gen[t]]
        own == held[t] = IF t \in Surface THEN config.mapping ELSE config.epoch
    IN
    /\ Snapped(t) => /\ config # NoConfig
                     /\ call[t].session = config.policy.session
                     /\ call[t].category \in config.policy.mask
    /\ pc[t] \in {"claim_load", "claim", "push", "release"} => t \in Surface
    /\ pc[t] \in {"recheck", "send"} => t \in Wasm
    /\ pc[t] = "load" => stage[t] \in {"snapshot", "admit", "again"}
    /\ pc[t] = "admit" => stage[t] \in {"admit", "again"}
    /\ stage[t] = "again" => t \in Wasm
    /\ \/ pc[t] = "admit"
       \/ pc[t] = "load" /\ stage[t] \in {"admit", "again"}
       => held[t] # 0 /\ (generation = gen[t] => own)
    /\ pc[t] \in {"push", "recheck", "send"} => own

\* What left the probes belongs to a configuration that was published.
EmittedInv ==
    /\ \A r \in pushed : r.generation <= generation
    /\ \A i \in 1 .. Len(to_host) :
          LET capture == to_host[i] IN
          /\ capture.generation <= generation
          /\ published[capture.generation] # NoConfig
          /\ capture.epoch = published[capture.generation].epoch
    /\ \A c \in captured : c.generation <= generation

\* A claim in flight has raised its site's watermark, has one holder, and was not used up.
HolderInv(t) ==
    Holds(t) =>
       /\ gen[t] # 0 /\ gen[t] <= observed[call[t].category]
       /\ \A u \in Threads \ {t} :
             Holds(u) /\ call[u].category = call[t].category => gen[u] # gen[t]
       /\ \A r \in pushed : r.category = call[t].category => r.generation # gen[t]

ClaimInv ==
    \A t \in Threads : HolderInv(t) /\ (pc[t] = "claim" => held[t] < gen[t])

IInv ==
    /\ TypeOK /\ HostInv /\ PhaseInv /\ PublishedInv /\ SinkInv
    /\ \A t \in Threads : ReadInv(t) /\ CallInv(t)
    /\ NoMixedPolicy /\ EmittedInv /\ OwnConfiguration /\ CapturedInOwnConfiguration
    /\ ClaimInv /\ ObservedOnce /\ ClaimAccounted

----------------------------------------------------------------------------
(* Facts about the constants and the operators *)

LEMMA Parity ==
    ASSUME NEW n \in Nat
    PROVE  (Even(n + 1) <=> ~ Even(n)) /\ Even(0) /\ ~ Even(GenMax)
BY WidthAssumption DEF Even

LEMMA FieldsAre == Fields = {"mask", "expires", "session", "emitter"}
BY DEF Fields, LoadOrder

\* A configuration is not the absence of one, and its policy has an emitter.
LEMMA ConfigFacts ==
    ASSUME NEW config \in Config \cup {NoConfig}, config # NoConfig
    PROVE  /\ config \in Config /\ config.policy \in Policy
           /\ config.mapping \in 1 .. MaxStarts /\ config.epoch \in 1 .. EpochMax
BY DEF Config

LEMMA PolicyFacts ==
    ASSUME NEW policy \in Policy
    PROVE  /\ policy # Off /\ policy.emitter = TRUE /\ policy.session \in Sessions
           /\ policy.mask \in SUBSET Categories /\ policy.expires \in 1 .. MaxTime + 1
           /\ policy = [f \in Fields |-> policy[f]]
<1>1. /\ policy.emitter = TRUE /\ policy.session \in Sessions
      /\ policy.mask \in SUBSET Categories /\ policy.expires \in 1 .. MaxTime + 1
  BY DEF Policy
<1>2. policy # Off
  BY <1>1 DEF Off
<1>3. policy = [f \in Fields |-> policy[f]]
  BY FieldsAre DEF Policy
<1> QED
  BY <1>1, <1>2, <1>3

LEMMA NoConfigFacts ==
    /\ NoConfig.policy = Off /\ NoConfig \notin Config /\ NoConfig.epoch = 0
    /\ Off = [f \in Fields |-> Off[f]] /\ Off.emitter = FALSE /\ Off.expires = 0
    /\ Off.session = "none" /\ Off.mask = {}
<1>1. NoConfig \notin Config
  BY DEF NoConfig, Config
<1> QED
  BY <1>1, FieldsAre DEF NoConfig, Off

LEMMA NextEpochType ==
    ASSUME host_epoch \in 0 .. EpochMax
    PROVE  /\ NextEpoch \in 1 .. EpochMax /\ host_epoch <= NextEpoch
           /\ host_epoch = NextEpoch => host_epoch = EpochMax
BY WidthAssumption DEF NextEpoch

----------------------------------------------------------------------------
THEOREM InitInv == Init => IInv
<1> SUFFICES ASSUME Init PROVE IInv
  OBVIOUS
<1> USE DEF Init
<1>1. HostTypes
  <2>1. session \in Policy \cup {Off} /\ bound \in BOOLEAN
    OBVIOUS
  <2>2. to_renderer \in Seq(Config \cup {NoConfig})
    OBVIOUS
  <2>3. now = 0 /\ host_epoch = 0 /\ host_mapping = 0 /\ starts = 0
    OBVIOUS
  <2> HIDE DEF Init
  <2> QED
    BY <2>1, <2>2, <2>3, WidthAssumption, BoundAssumption DEF HostTypes
<1>2. ControlTypes
  <2>1. sink \in SinkPolicy
    BY BoundAssumption DEF Off, SinkPolicy
  <2>2. published \in [0 .. GenMax -> Config \cup {NoConfig}]
    OBVIOUS
  <2>3. generation = 0 /\ queue = 0 /\ epoch = 0 /\ pending = {} /\ mapped = {}
    OBVIOUS
  <2>4. /\ incoming \in Config \cup {NoConfig} /\ target \in Config \cup {NoConfig}
        /\ cpc \in {"idle", "clear_epoch", "stop", "begin", "store", "clear_queue", "queue", "epoch"}
    OBVIOUS
  <2> HIDE DEF Init
  <2> QED
    BY <2>1, <2>2, <2>3, <2>4, WidthAssumption, BoundAssumption DEF ControlTypes
<1>3. ThreadTypes
  <2>1. /\ pc \in [Threads -> {"idle", "generation", "load", "claim_load", "claim", "transport",
                              "admit", "push", "release", "recheck", "send"}]
        /\ stage \in [Threads -> {"none", "snapshot", "admit", "again"}]
    OBVIOUS
  <2>2. call \in [Threads -> [session : Sessions \cup {"none"}, category : Categories \cup {"none"}]]
    BY DEF NoCall
  <2>3. DOMAIN read = Threads /\ \A t \in Threads : DOMAIN read[t] \in SUBSET Fields
    BY DEF Nothing
  <2>4. /\ gen \in [Threads -> 0 .. GenMax] /\ time \in [Threads -> 0 .. MaxTime]
        /\ held \in [Threads -> Nat] /\ calls \in [Threads -> Nat]
    BY WidthAssumption, BoundAssumption
  <2> QED
    BY <2>1, <2>2, <2>3, <2>4 DEF ThreadTypes
<1>4. RecordTypes
  BY WidthAssumption DEF RecordTypes
<1>5. HostInv
  BY WidthAssumption DEF HostInv, Sent
<1>6. PhaseInv /\ PublishedInv /\ SinkInv
  BY Parity, NoConfigFacts, WidthAssumption DEF PhaseInv, PublishedInv, SinkInv
<1>7. \A t \in Threads : ReadInv(t) /\ CallInv(t)
  BY Parity DEF ReadInv, CallInv, Snapped, Nothing
<1>8. NoMixedPolicy /\ EmittedInv /\ OwnConfiguration /\ CapturedInOwnConfiguration
  BY DEF NoMixedPolicy, EmittedInv, OwnConfiguration, CapturedInOwnConfiguration
<1>9. ClaimInv /\ ObservedOnce /\ ClaimAccounted
  BY DEF ClaimInv, HolderInv, ObservedOnce, ClaimAccounted, Holds
<1> QED
  BY <1>1, <1>2, <1>3, <1>4, <1>5, <1>6, <1>7, <1>8, <1>9 DEF IInv, TypeOK

----------------------------------------------------------------------------
(* What each part of the system leaves alone *)

LEMMA BrowserFrame ==
    ASSUME Tick \/ Browser
    PROVE  UNCHANGED <<controlVars, sinkVars, transportVars, observed, threadVars, published, pushed>>
<1> USE DEF controlVars, sinkVars, transportVars, threadVars
<1>1. CASE Tick
  BY <1>1 DEF Tick, historyVars
<1>2. ASSUME NEW p \in Policies, StartSession(p)
      PROVE  UNCHANGED <<controlVars, sinkVars, transportVars, observed, threadVars, published, pushed>>
  BY <1>2 DEF StartSession, historyVars
<1>3. CASE StopSession
  BY <1>3 DEF StopSession, historyVars
<1>4. CASE BindClient
  BY <1>4 DEF BindClient, historyVars
<1>5. CASE CaptureWasmDispatch
  BY <1>5 DEF CaptureWasmDispatch
<1> QED
  BY <1>1, <1>2, <1>3, <1>4, <1>5 DEF Browser

LEMMA ControlFrame ==
    ASSUME Control
    PROVE  UNCHANGED <<now, hostVars, to_host, observed, threadVars, pushed, captured>>
BY DEF Control, Receive, ClearEpoch, StopReaders, BeginGeneration, StoreField, EndGeneration,
       ClearQueue, SetQueue, SetEpoch, hostVars, threadVars, historyVars

LEMMA ThreadFrame ==
    ASSUME NEW t \in Threads, Call(t) \/ Probe(t)
    PROVE  UNCHANGED <<now, hostVars, to_renderer, controlVars, sinkVars, transportVars,
                       published, captured>>
BY DEF Call, Probe, LoadGeneration, LoadField, CheckSnapshot, ClaimLoad, Claim, LoadTransport,
       CanAdmitEvent, CheckAdmit, Push, Release, RecheckEpoch, Send, hostVars, controlVars,
       sinkVars, transportVars, historyVars

----------------------------------------------------------------------------
(* The browser side *)

LEMMA ConcatElements ==
    ASSUME NEW S, NEW s \in Seq(S), NEW e \in Seq(S)
    PROVE  /\ s \o e \in Seq(S)
           /\ \A i \in 1 .. Len(s \o e) :
                 \/ \E j \in 1 .. Len(s) : (s \o e)[i] = s[j]
                 \/ \E j \in 1 .. Len(e) : (s \o e)[i] = e[j]
<1>1. s \o e \in Seq(S) /\ Len(s \o e) = Len(s) + Len(e)
  OBVIOUS
<1>2. ASSUME NEW i \in 1 .. Len(s \o e)
      PROVE  \/ \E j \in 1 .. Len(s) : (s \o e)[i] = s[j]
             \/ \E j \in 1 .. Len(e) : (s \o e)[i] = e[j]
  <2>1. CASE i <= Len(s)
    <3>1. i \in 1 .. Len(s) /\ (s \o e)[i] = s[i]
      BY <2>1
    <3> QED
      BY <3>1
  <2>2. CASE ~ (i <= Len(s))
    <3>1. i - Len(s) \in 1 .. Len(e) /\ (s \o e)[i] = e[i - Len(s)]
      BY <2>2, <1>1
    <3> QED
      BY <3>1
  <2> QED
    BY <2>1, <2>2
<1> QED
  BY <1>1, <1>2

\* A message the host appends is of the epoch it moves to and of the mapping it reads next.
Appended(messages) ==
    /\ messages \in Seq(Config \cup {NoConfig})
    /\ to_renderer' = to_renderer \o messages
    /\ \A i \in 1 .. Len(messages) :
          messages[i] # NoConfig =>
             messages[i].epoch = NextEpoch /\ messages[i].mapping = host_mapping'

Reconfigured ==
    /\ host_epoch' = NextEpoch
    /\ host_mapping' # 0 => host_mapping' = starts' /\ NextEpoch # EpochMax
    /\ \E messages \in Seq(Config \cup {NoConfig}) : Appended(messages)

LEMMA DisableMessageType ==
    ASSUME NEW to_bound
    PROVE  /\ DisableMessage(to_bound) \in Seq(Config \cup {NoConfig})
           /\ \A i \in 1 .. Len(DisableMessage(to_bound)) : DisableMessage(to_bound)[i] = NoConfig
<1>1. CASE to_bound
  BY <1>1 DEF DisableMessage
<1>2. CASE ~ to_bound
  <2>1. DisableMessage(to_bound) = <<>>
    BY <1>2 DEF DisableMessage
  <2> QED
    BY <2>1
<1> QED
  BY <1>1, <1>2

LEMMA DisableSends == HostDisable => Reconfigured
<1> SUFFICES ASSUME HostDisable PROVE Reconfigured
  OBVIOUS
<1>1. Appended(DisableMessage(bound))
  BY DisableMessageType DEF Appended, HostDisable
<1> QED
  BY <1>1, DisableMessageType DEF Reconfigured, HostDisable

LEMMA ConfigureSends ==
    ASSUME NEW policy \in Policy, NEW to_bound, HostConfigure(policy, to_bound),
           HostTypes, starts' \in 1 .. MaxStarts
    PROVE  Reconfigured
<1> DEFINE config == [policy |-> policy, mapping |-> starts', epoch |-> NextEpoch]
<1>1. CASE ~ to_bound \/ NextEpoch = EpochMax
  <2>1. Appended(DisableMessage(to_bound))
    BY <1>1, DisableMessageType DEF Appended, HostConfigure
  <2> QED
    BY <1>1, <2>1, DisableMessageType DEF Reconfigured, HostConfigure
<1>2. CASE ~ (~ to_bound \/ NextEpoch = EpochMax)
  <2>1. config \in Config
    BY NextEpochType DEF Config, HostTypes
  <2>2. <<NoConfig, config>> \in Seq(Config \cup {NoConfig})
    BY <2>1
  <2>3. Appended(<<NoConfig, config>>)
    BY <1>2, <2>2 DEF Appended, HostConfigure
  <2> QED
    BY <1>2, <2>2, <2>3 DEF Reconfigured, HostConfigure
<1> QED
  BY <1>1, <1>2

\* What a step of the browser side does to what the renderer depends on.
LEMMA BrowserEffects ==
    ASSUME HostTypes, HostInv, Browser
    PROVE  /\ session' \in Policy \cup {Off} /\ bound' \in BOOLEAN /\ now' = now
           /\ starts' \in 0 .. MaxStarts /\ (session' # Off => starts' # 0)
           /\ \/ UNCHANGED <<host_epoch, host_mapping, to_renderer>>
              \/ Reconfigured
<1> USE DEF HostTypes, HostInv
<1>1. ASSUME NEW p \in Policies, StartSession(p)
      PROVE  /\ session' \in Policy \cup {Off} /\ bound' = bound /\ now' = now
             /\ starts' \in 1 .. MaxStarts /\ Reconfigured
  <2>1. p \in Policy
    BY PoliciesAssumption
  <2>2. starts' \in 1 .. MaxStarts
    BY <1>1, BoundAssumption DEF StartSession
  <2>3. Reconfigured
    BY <1>1, <2>1, <2>2, ConfigureSends DEF StartSession
  <2> QED
    BY <1>1, <2>1, <2>2, <2>3 DEF StartSession
<1>2. CASE StopSession
  BY <1>2, DisableSends DEF StopSession
<1>3. CASE BindClient
  <2>1. session' = session /\ bound' = TRUE /\ now' = now /\ starts' = starts
    BY <1>3 DEF BindClient
  <2>2. CASE session # Off
    <3>1. HostConfigure(session, TRUE)
      BY <1>3, <2>2 DEF BindClient
    <3>2. session \in Policy
      BY <2>2
    <3>3. starts' \in 1 .. MaxStarts
      BY <2>1, <2>2, BoundAssumption
    <3>4. Reconfigured
      BY <3>1, <3>2, <3>3, ConfigureSends
    <3> QED
      BY <2>1, <2>2, <3>3, <3>4
  <2>3. CASE session = Off
    BY <1>3, <2>1, <2>3 DEF BindClient
  <2> QED
    BY <2>2, <2>3
<1>4. CASE CaptureWasmDispatch
  BY <1>4 DEF CaptureWasmDispatch, hostVars
<1> QED
  BY <1>1, <1>2, <1>3, <1>4 DEF Browser

LEMMA HostTypesStep ==
    ASSUME IInv, [Next]_vars
    PROVE  HostTypes'
<1>0. HostTypes /\ HostInv
  BY DEF IInv, TypeOK
<1>1. CASE Tick
  <2>1. now' \in 0 .. MaxTime
    BY <1>0, <1>1, BoundAssumption DEF Tick, HostTypes
  <2> QED
    BY <1>0, <1>1, <2>1 DEF Tick, HostTypes, hostVars
<1>2. CASE Browser
  <2>1. CASE UNCHANGED <<host_epoch, host_mapping, to_renderer>>
    BY <1>0, <1>2, <2>1, BrowserEffects DEF HostTypes
  <2>2. CASE Reconfigured
    <3>1. to_renderer' \in Seq(Config \cup {NoConfig})
      BY <1>0, <2>2, ConcatElements DEF HostTypes, Reconfigured, Appended
    <3>2. host_epoch' \in 0 .. EpochMax /\ host_mapping' \in 0 .. MaxStarts
      BY <1>0, <1>2, <2>2, BrowserEffects, NextEpochType, BoundAssumption DEF HostTypes, Reconfigured
    <3> QED
      BY <1>0, <1>2, <3>1, <3>2, BrowserEffects DEF HostTypes
  <2> QED
    BY <1>0, <1>2, <2>1, <2>2, BrowserEffects
<1>3. CASE Control
  <2>1. UNCHANGED <<now, hostVars>>
    BY <1>3, ControlFrame
  <2>2. to_renderer' \in Seq(Config \cup {NoConfig})
    <3>1. CASE Receive
      BY <1>0, <3>1 DEF HostTypes, Receive
    <3>2. CASE ~ Receive
      BY <1>0, <1>3, <3>2 DEF HostTypes, Control, ClearEpoch, StopReaders, BeginGeneration,
         StoreField, EndGeneration, ClearQueue, SetQueue, SetEpoch
    <3> QED
      BY <3>1, <3>2
  <2> QED
    BY <1>0, <2>1, <2>2 DEF HostTypes, hostVars
<1>4. ASSUME NEW t \in Threads, Call(t) \/ Probe(t)
      PROVE  HostTypes'
  BY <1>0, <1>4, ThreadFrame DEF HostTypes, hostVars
<1>5. CASE UNCHANGED vars
  BY <1>0, <1>5 DEF HostTypes, hostVars, vars
<1> QED
  BY <1>1, <1>2, <1>3, <1>4, <1>5 DEF Next

LEMMA HostInvStep ==
    ASSUME IInv, [Next]_vars
    PROVE  HostInv'
<1>0. HostTypes /\ ControlTypes /\ HostInv
  BY DEF IInv, TypeOK
<1>1. CASE Tick
  BY <1>0, <1>1, BrowserFrame DEF Tick, HostInv, Sent, hostVars, controlVars
<1>2. CASE Browser
  <2>1. UNCHANGED <<incoming, target, published>>
    BY <1>2, BrowserFrame DEF controlVars
  <2>2. CASE UNCHANGED <<host_epoch, host_mapping, to_renderer>>
    BY <1>0, <1>2, <2>1, <2>2, BrowserEffects DEF HostInv, Sent
  <2>3. CASE Reconfigured
    <3>1. ASSUME NEW config \in Config \cup {NoConfig}, Sent(config)
          PROVE  Sent(config)'
      BY <1>0, <2>3, <3>1, NextEpochType, ConfigFacts, WidthAssumption DEF HostTypes, HostInv, Sent, Reconfigured
    <3>2. ASSUME NEW config \in Config \cup {NoConfig}, config # NoConfig,
                 config.epoch = NextEpoch, config.mapping = host_mapping'
          PROVE  Sent(config)'
      BY <1>0, <2>3, <3>2, ConfigFacts DEF Sent, Reconfigured
    <3>3. \A i \in 1 .. Len(to_renderer') : Sent(to_renderer[i])'
      <4>1. PICK messages \in Seq(Config \cup {NoConfig}) : Appended(messages)
        BY <2>3 DEF Reconfigured
      <4>2. \A i \in 1 .. Len(to_renderer) : to_renderer[i] \in Config \cup {NoConfig} /\ Sent(to_renderer[i])
        BY <1>0 DEF HostInv, HostTypes
      <4>3. \A i \in 1 .. Len(messages) : messages[i] \in Config \cup {NoConfig} /\ Sent(messages[i])'
        BY <4>1, <3>2 DEF Appended, Sent
      <4>4. \A i \in 1 .. Len(to_renderer') :
               \/ \E j \in 1 .. Len(to_renderer) : to_renderer'[i] = to_renderer[j]
               \/ \E j \in 1 .. Len(messages) : to_renderer'[i] = messages[j]
        <5>1. to_renderer \in Seq(Config \cup {NoConfig}) /\ to_renderer' = to_renderer \o messages
          BY <1>0, <4>1 DEF Appended, HostTypes
        <5>2. \A i \in 1 .. Len(to_renderer \o messages) :
                 \/ \E j \in 1 .. Len(to_renderer) : (to_renderer \o messages)[i] = to_renderer[j]
                 \/ \E j \in 1 .. Len(messages) : (to_renderer \o messages)[i] = messages[j]
          BY <5>1, ConcatElements
        <5> QED
          BY <5>1, <5>2
      <4> TAKE i \in 1 .. Len(to_renderer')
      <4>5. CASE \E j \in 1 .. Len(to_renderer) : to_renderer'[i] = to_renderer[j]
        <5>1. PICK j \in 1 .. Len(to_renderer) : to_renderer'[i] = to_renderer[j]
          BY <4>5
        <5>2. Sent(to_renderer[j]) => (to_renderer[j] # NoConfig =>
                 /\ to_renderer[j].epoch <= host_epoch'
                 /\ to_renderer[j].epoch = host_epoch' /\ host_mapping' # 0 =>
                       to_renderer[j].mapping = host_mapping')
          BY <1>0, <2>3, <4>2, NextEpochType, ConfigFacts, WidthAssumption
             DEF HostTypes, HostInv, Sent, Reconfigured
        <5> QED
          BY <4>2, <5>1, <5>2 DEF Sent
      <4>6. CASE \E j \in 1 .. Len(messages) : to_renderer'[i] = messages[j]
        BY <4>3, <4>6 DEF Sent
      <4> QED
        BY <4>4, <4>5, <4>6
    <3>4. Sent(incoming)' /\ Sent(target)' /\ \A g \in 0 .. GenMax : Sent(published[g])'
      BY <1>0, <2>1, <3>1 DEF HostInv, ControlTypes
    <3>5. host_epoch' = EpochMax => host_mapping' = 0
      BY <2>3 DEF Reconfigured
    <3> QED
      BY <1>0, <1>2, <3>3, <3>4, <3>5, BrowserEffects DEF HostInv
  <2> QED
    BY <1>0, <1>2, <2>2, <2>3, BrowserEffects
<1>3. CASE Control
  <2>1. UNCHANGED hostVars
    BY <1>3, ControlFrame
  <2>2. /\ \A i \in 1 .. Len(to_renderer') : Sent(to_renderer'[i])
        /\ Sent(incoming') /\ Sent(target')
        /\ \A g \in 0 .. GenMax : Sent(published'[g])
    <3>1. CASE Receive
      BY <1>0, <3>1 DEF Receive, HostInv, HostTypes, historyVars
    <3>2. CASE ClearEpoch
      BY <1>0, <3>2 DEF ClearEpoch, HostInv, historyVars, Sent
    <3>3. CASE EndGeneration
      BY <1>0, <3>3 DEF EndGeneration, HostInv, ControlTypes
    <3>4. CASE SetEpoch
      BY <1>0, <3>4 DEF SetEpoch, HostInv, historyVars
    <3>5. CASE ~ (Receive \/ ClearEpoch \/ EndGeneration \/ SetEpoch)
      <4>1. UNCHANGED <<to_renderer, incoming, target, published>>
        BY <1>3, <3>5 DEF Control, StopReaders, BeginGeneration, StoreField, ClearQueue, SetQueue, historyVars
      <4> QED
        BY <1>0, <4>1 DEF HostInv
    <3> QED
      BY <3>1, <3>2, <3>3, <3>4, <3>5
  <2> QED
    BY <1>0, <2>1, <2>2 DEF HostInv, Sent, hostVars
<1>4. ASSUME NEW t \in Threads, Call(t) \/ Probe(t)
      PROVE  HostInv'
  BY <1>0, <1>4, ThreadFrame DEF HostInv, Sent, hostVars, controlVars
<1>5. CASE UNCHANGED vars
  BY <1>0, <1>5 DEF HostInv, Sent, hostVars, controlVars, historyVars, vars
<1> QED
  BY <1>1, <1>2, <1>3, <1>4, <1>5 DEF Next

----------------------------------------------------------------------------
(* The control sequence *)

LEMMA GenerationParity ==
    ASSUME ControlTypes
    PROVE  /\ generation \in Nat /\ (Even(generation + 1) <=> ~ Even(generation))
           /\ Even(0) /\ ~ Even(GenMax)
BY Parity DEF ControlTypes

LEMMA ControlTypesStep ==
    ASSUME IInv, [Next]_vars
    PROVE  ControlTypes'
<1>0. HostTypes /\ ControlTypes /\ PhaseInv
  BY DEF IInv, TypeOK
<1>1. CASE Control
  <2> USE <1>0, <1>1 DEF Control, historyVars, sinkVars, transportVars
  <2>1. cpc' \in {"idle", "clear_epoch", "stop", "begin", "store", "clear_queue", "queue", "epoch"}
    BY DEF ControlTypes, Receive, ClearEpoch, StopReaders, BeginGeneration, StoreField,
       EndGeneration, ClearQueue, SetQueue, SetEpoch, AfterSetEmitters
  <2>2. incoming' \in Config \cup {NoConfig}
    <3>1. to_renderer \in Seq(Config \cup {NoConfig}) /\ incoming \in Config \cup {NoConfig}
      BY DEF HostTypes, ControlTypes
    <3>2. incoming' = incoming \/ (to_renderer # <<>> /\ incoming' = Head(to_renderer))
      BY DEF Receive, ClearEpoch, StopReaders, BeginGeneration, StoreField,
         EndGeneration, ClearQueue, SetQueue, SetEpoch
    <3> QED
      BY <3>1, <3>2
  <2>3. target' \in Config \cup {NoConfig}
    BY DEF ControlTypes, Receive, ClearEpoch, StopReaders, BeginGeneration, StoreField,
       EndGeneration, ClearQueue, SetQueue, SetEpoch
  <2>4. pending' \in SUBSET Fields
    BY DEF ControlTypes, Receive, ClearEpoch, StopReaders, BeginGeneration, StoreField,
       EndGeneration, ClearQueue, SetQueue, SetEpoch
  <2>5. generation' \in 0 .. GenMax
    BY WidthAssumption DEF ControlTypes, PhaseInv, Receive, ClearEpoch, StopReaders,
       BeginGeneration, StoreField, EndGeneration, ClearQueue, SetQueue, SetEpoch
  <2>6. sink' \in SinkPolicy
    <3>1. CASE StopReaders
      BY <3>1 DEF StopReaders, ControlTypes, SinkPolicy
    <3>2. ASSUME NEW f \in Fields, StoreField(f)
          PROVE  sink' \in SinkPolicy
      <4>1. target.policy \in SinkPolicy
        <5>1. CASE target = NoConfig
          BY <5>1, NoConfigFacts, BoundAssumption DEF SinkPolicy, Off
        <5>2. CASE target # NoConfig
          <6>1. target.policy \in Policy
            BY <5>2, ConfigFacts DEF ControlTypes
          <6>2. \A e \in 1 .. MaxTime + 1 : e \in 0 .. MaxTime + 1
            BY BoundAssumption
          <6>3. {TRUE} \subseteq BOOLEAN
            OBVIOUS
          <6> HIDE <1>0, <1>1
          <6> QED
            BY <6>1, <6>2, <6>3 DEF SinkPolicy, Policy
        <5> QED
          BY <5>1, <5>2
      <4>2. sink \in SinkPolicy /\ sink' = [sink EXCEPT ![f] = target.policy[f]]
        BY <3>2 DEF StoreField, ControlTypes
      <4> HIDE <1>1
      <4> QED
        BY <4>1, <4>2, FieldsAre DEF SinkPolicy
    <3>3. CASE UNCHANGED sink
      BY <3>3 DEF ControlTypes
    <3> QED
      BY <3>1, <3>2, <3>3 DEF Receive, ClearEpoch, BeginGeneration, EndGeneration, ClearQueue, SetQueue, SetEpoch
  <2>7. queue' \in 0 .. MaxStarts /\ mapped' \in SUBSET (1 .. MaxStarts)
    <3>1. CASE SetQueue
      <4>1. incoming.mapping \in 1 .. MaxStarts
        BY <3>1, ConfigFacts DEF SetQueue, ControlTypes, PhaseInv
      <4>2. queue' = incoming.mapping /\ mapped' = mapped \cup {incoming.mapping}
        BY <3>1 DEF SetQueue
      <4>3. mapped \in SUBSET (1 .. MaxStarts)
        BY DEF ControlTypes
      <4> HIDE <1>0, <1>1
      <4>4. queue' \in 0 .. MaxStarts
        BY <4>1, <4>2, BoundAssumption
      <4> QED
        BY <4>1, <4>2, <4>3, <4>4
    <3>2. CASE ~ SetQueue
      BY <3>2, BoundAssumption DEF ControlTypes, Receive, ClearEpoch, StopReaders, BeginGeneration, StoreField,
         EndGeneration, ClearQueue, SetEpoch
    <3> QED
      BY <3>1, <3>2
  <2>8. epoch' \in 0 .. EpochMax
    <3>1. CASE SetEpoch
      BY <3>1, ConfigFacts DEF SetEpoch, ControlTypes, PhaseInv
    <3>2. CASE ~ SetEpoch
      BY <3>2, WidthAssumption DEF ControlTypes, Receive, ClearEpoch, StopReaders, BeginGeneration, StoreField,
         EndGeneration, ClearQueue, SetQueue
    <3> QED
      BY <3>1, <3>2
  <2>9. published' \in [0 .. GenMax -> Config \cup {NoConfig}]
    <3>1. published' = published \/ published' = [published EXCEPT ![generation + 1] = target]
      BY DEF Receive, ClearEpoch, StopReaders, BeginGeneration, StoreField,
         EndGeneration, ClearQueue, SetQueue, SetEpoch
    <3>2. published \in [0 .. GenMax -> Config \cup {NoConfig}] /\ target \in Config \cup {NoConfig}
      BY DEF ControlTypes
    <3> HIDE <1>0, <1>1
    <3> QED
      BY <3>1, <3>2
  <2> HIDE <1>0, <1>1
  <2> QED
    BY <2>1, <2>2, <2>3, <2>4, <2>5, <2>6, <2>7, <2>8, <2>9 DEF ControlTypes
<1>2. CASE Tick \/ Browser
  BY <1>0, <1>2, BrowserFrame DEF ControlTypes, controlVars, sinkVars, transportVars
<1>3. ASSUME NEW t \in Threads, Call(t) \/ Probe(t)
      PROVE  ControlTypes'
  BY <1>0, <1>3, ThreadFrame DEF ControlTypes, controlVars, sinkVars, transportVars
<1>4. CASE UNCHANGED vars
  BY <1>0, <1>4 DEF ControlTypes, controlVars, sinkVars, transportVars, historyVars, vars
<1> QED
  BY <1>1, <1>2, <1>3, <1>4 DEF Next

LEMMA PhaseInvStep ==
    ASSUME IInv, [Next]_vars
    PROVE  PhaseInv'
<1>0. /\ ControlTypes /\ PhaseInv /\ generation \in Nat /\ generation <= GenMax /\ GenMax \in Nat
      /\ ~ Even(GenMax) /\ (Even(generation + 1) <=> ~ Even(generation))
  BY GenerationParity, WidthAssumption DEF IInv, TypeOK, ControlTypes
<1>1. CASE Receive
  BY <1>0, <1>1 DEF Receive, PhaseInv, sinkVars, transportVars
<1>2. CASE ClearEpoch
  BY <1>0, <1>2 DEF ClearEpoch, PhaseInv, sinkVars, transportVars
<1>3. CASE StopReaders
  BY <1>0, <1>3 DEF StopReaders, PhaseInv, transportVars
<1>4. CASE BeginGeneration
  BY <1>0, <1>4 DEF BeginGeneration, AfterSetEmitters, PhaseInv, transportVars
<1>5. ASSUME NEW f \in Fields, StoreField(f)
      PROVE  PhaseInv'
  BY <1>0, <1>5 DEF StoreField, PhaseInv, transportVars
<1>6. CASE EndGeneration
  BY <1>0, <1>6 DEF EndGeneration, AfterSetEmitters, PhaseInv, transportVars
<1>7. CASE ClearQueue
  <2>1. ~ (incoming.policy.expires <= now) => incoming # NoConfig
    BY <1>0, NoConfigFacts DEF IInv, TypeOK, HostTypes
  <2> QED
    BY <1>0, <1>7, <2>1 DEF ClearQueue, PhaseInv, sinkVars
<1>8. CASE SetQueue
  BY <1>0, <1>8 DEF SetQueue, PhaseInv, sinkVars
<1>9. CASE SetEpoch
  BY <1>0, <1>9 DEF SetEpoch, PhaseInv, sinkVars
<1>10. CASE Tick \/ Browser
  BY <1>0, <1>10, BrowserFrame DEF PhaseInv, controlVars, sinkVars, transportVars
<1>11. ASSUME NEW t \in Threads, Call(t) \/ Probe(t)
       PROVE  PhaseInv'
  BY <1>0, <1>11, ThreadFrame DEF PhaseInv, controlVars, sinkVars, transportVars
<1>12. CASE UNCHANGED vars
  BY <1>0, <1>12 DEF PhaseInv, controlVars, sinkVars, transportVars, vars
<1> QED
  BY <1>1, <1>2, <1>3, <1>4, <1>5, <1>6, <1>7, <1>8, <1>9, <1>10, <1>11, <1>12 DEF Next, Control

LEMMA PublishedInvStep ==
    ASSUME IInv, [Next]_vars
    PROVE  PublishedInv'
<1>0. /\ ControlTypes /\ PhaseInv /\ PublishedInv
      /\ generation \in Nat /\ generation <= GenMax /\ GenMax \in Nat
      /\ ~ Even(GenMax) /\ (Even(generation + 1) <=> ~ Even(generation))
  BY GenerationParity, WidthAssumption DEF IInv, TypeOK, ControlTypes
<1> USE DEF PublishedInv, PhaseInv
<1>1. CASE Receive
  BY <1>0, <1>1 DEF Receive, sinkVars, transportVars, historyVars
<1>2. CASE ClearEpoch
  BY <1>0, <1>2 DEF ClearEpoch, sinkVars, historyVars
<1>3. CASE StopReaders
  BY <1>0, <1>3 DEF StopReaders, transportVars, historyVars
<1>4. CASE BeginGeneration
  <2>1. Even(generation) => generation' = GenMax \/ generation' = generation + 1
    BY <1>4 DEF BeginGeneration
  <2>2. ~ Even(generation')
    BY <1>0, <1>4, <2>1 DEF BeginGeneration
  <2> QED
    BY <2>2
<1>5. ASSUME NEW f \in Fields, StoreField(f)
      PROVE  PublishedInv'
  BY <1>0, <1>5 DEF StoreField, transportVars, historyVars
<1>6. CASE EndGeneration
  <2>1. published'[generation'] = target
    BY <1>0, <1>6 DEF EndGeneration, ControlTypes
  <2> QED
    BY <1>0, <1>6, <2>1 DEF EndGeneration, AfterSetEmitters, transportVars
<1>7. CASE ClearQueue
  BY <1>0, <1>7 DEF ClearQueue, sinkVars, historyVars
<1>8. CASE SetQueue
  BY <1>0, <1>8 DEF SetQueue, sinkVars, historyVars
<1>9. CASE SetEpoch
  BY <1>0, <1>9 DEF SetEpoch, sinkVars, historyVars
<1>10. CASE Tick \/ Browser
  BY <1>0, <1>10, BrowserFrame DEF controlVars, sinkVars, transportVars
<1>11. ASSUME NEW t \in Threads, Call(t) \/ Probe(t)
       PROVE  PublishedInv'
  BY <1>0, <1>11, ThreadFrame DEF controlVars, sinkVars, transportVars
<1>12. CASE UNCHANGED vars
  BY <1>0, <1>12 DEF controlVars, sinkVars, transportVars, historyVars, vars
<1> QED
  BY <1>1, <1>2, <1>3, <1>4, <1>5, <1>6, <1>7, <1>8, <1>9, <1>10, <1>11, <1>12 DEF Next, Control

LEMMA SinkInvStep ==
    ASSUME IInv, [Next]_vars
    PROVE  SinkInv'
<1>0. /\ ControlTypes /\ PhaseInv /\ SinkInv
      /\ generation \in Nat /\ generation <= GenMax /\ GenMax \in Nat
      /\ ~ Even(GenMax) /\ (Even(generation + 1) <=> ~ Even(generation))
  BY GenerationParity, WidthAssumption DEF IInv, TypeOK, ControlTypes
<1>1. CASE StopReaders
  <2>1. /\ sink'.session = sink.session /\ sink'.mask = sink.mask
        /\ sink'.expires = sink.expires /\ sink'.emitter = FALSE
    BY <1>0, <1>1 DEF StopReaders, ControlTypes, SinkPolicy
  <2> QED
    BY <1>0, <1>1, <2>1 DEF StopReaders, SinkInv, historyVars
<1>2. CASE BeginGeneration
  <2>1. ~ Even(generation')
    BY <1>0, <1>2 DEF BeginGeneration, PhaseInv
  <2>2. cpc' = "store" => pending' = Fields
    BY <1>2 DEF BeginGeneration, AfterSetEmitters
  <2> QED
    BY <2>1, <2>2 DEF SinkInv
<1>3. ASSUME NEW f \in Fields, StoreField(f)
      PROVE  SinkInv'
  <2>1. ~ Even(generation') /\ UNCHANGED <<cpc, target>>
    BY <1>0, <1>3 DEF StoreField, PhaseInv
  <2>2. \A g \in Fields : sink'[g] = IF g = f THEN target.policy[f] ELSE sink[g]
    BY <1>0, <1>3, FieldsAre DEF StoreField, ControlTypes, SinkPolicy
  <2>3. \A g \in Fields \ pending' : sink'[g] = target.policy[g]
    BY <1>0, <1>3, <2>2 DEF StoreField, SinkInv
  <2> QED
    BY <2>1, <2>3 DEF SinkInv
<1>4. CASE EndGeneration
  <2>1. published'[generation'] = target /\ sink' = sink
    BY <1>0, <1>4 DEF EndGeneration, ControlTypes, PhaseInv
  <2>3. cpc' # "store"
    BY <1>4 DEF EndGeneration, AfterSetEmitters
  <2>2. \A f \in Fields : sink[f] = target.policy[f]
    BY <1>0, <1>4 DEF EndGeneration, SinkInv
  <2> QED
    BY <2>1, <2>2, <2>3, FieldsAre DEF SinkInv
<1>5. CASE UNCHANGED <<generation, published, sink>> /\ cpc' # "store"
  BY <1>0, <1>5 DEF SinkInv
<1>6. CASE UNCHANGED <<generation, published, sink, cpc, pending, target>>
  BY <1>0, <1>6 DEF SinkInv
<1>7. CASE Receive \/ ClearEpoch \/ ClearQueue \/ SetQueue \/ SetEpoch
  BY <1>5, <1>7 DEF Receive, ClearEpoch, ClearQueue, SetQueue, SetEpoch, sinkVars, historyVars
<1>8. CASE Tick \/ Browser
  BY <1>6, <1>8, BrowserFrame DEF controlVars, sinkVars
<1>9. ASSUME NEW t \in Threads, Call(t) \/ Probe(t)
      PROVE  SinkInv'
  BY <1>6, <1>9, ThreadFrame DEF controlVars, sinkVars
<1>10. CASE UNCHANGED vars
  BY <1>6, <1>10 DEF controlVars, sinkVars, historyVars, vars
<1> QED
  BY <1>1, <1>2, <1>3, <1>4, <1>7, <1>8, <1>9, <1>10 DEF Next, Control

----------------------------------------------------------------------------
(* The probes *)

\* What a probe has loaded under a generation that is still current is the policy
\* published with it, if it has an emitter: no mixture passes for one.
LEMMA LoadedIsPublished ==
    ASSUME IInv, NEW t \in Threads, Loaded(t), generation = gen[t], read[t].emitter
    PROVE  /\ read[t] = published[gen[t]].policy
           /\ published[gen[t]] # NoConfig /\ published[gen[t]] \in Config
           /\ published[gen[t]].policy \in Policy
<1> DEFINE config == published[gen[t]]
<1>1. ReadInv(t) /\ config \in Config \cup {NoConfig}
  BY DEF IInv, TypeOK, ControlTypes
<1>2. config.policy.emitter
  BY <1>1, FieldsAre DEF ReadInv, Loaded
<1>3. config # NoConfig
  BY <1>2, NoConfigFacts
<1>4. config \in Config /\ config.policy \in Policy
  BY <1>1, <1>3, ConfigFacts
<1>5. read[t] = [f \in Fields |-> read[t][f]]
  BY <1>1 DEF ReadInv, Loaded
<1>6. \A f \in Fields \ {"emitter"} : read[t][f] = config.policy[f]
  BY <1>1 DEF ReadInv, Loaded
<1>7. config.policy = [f \in Fields |-> config.policy[f]] /\ config.policy.emitter = TRUE
  BY <1>4, PolicyFacts
<1> HIDE DEF config
<1> QED
  BY <1>3, <1>4, <1>5, <1>6, <1>7 DEF config

\* A step of one probe changes the places and locals of no other.
LEMMA ProbeEffects ==
    ASSUME ThreadTypes, NEW t \in Threads, Call(t) \/ Probe(t)
    PROVE  /\ \E v \in {"idle", "generation", "load", "claim_load", "claim", "transport",
                         "admit", "push", "release", "recheck", "send"} :
                 pc' = [pc EXCEPT ![t] = v]
           /\ \E v \in {"none", "snapshot", "admit", "again"} : stage' = [stage EXCEPT ![t] = v]
           /\ \/ call' = call \/ call' = [call EXCEPT ![t] = NoCall]
              \/ \E c \in Categories : call' = [call EXCEPT ![t] = [NoCall EXCEPT !.category = c]]
              \/ CheckSnapshot(t) /\ Snapshot(t) /\ call' = [call EXCEPT ![t].session = read[t].session]
           /\ gen' = gen \/ gen' = [gen EXCEPT ![t] = 0] \/ gen' = [gen EXCEPT ![t] = generation]
           /\ time' = time \/ time' = [time EXCEPT ![t] = 0] \/ time' = [time EXCEPT ![t] = now]
           /\ \/ read' = read \/ read' = [read EXCEPT ![t] = Nothing]
              \/ \E f \in Fields :
                    read' = [read EXCEPT ![t] =
                       [g \in DOMAIN read[t] \cup {f} |-> IF g = f THEN sink[f] ELSE read[t][g]]]
           /\ \/ held' = held \/ held' = [held EXCEPT ![t] = 0] \/ held' = [held EXCEPT ![t] = queue]
              \/ held' = [held EXCEPT ![t] = epoch]
              \/ held' = [held EXCEPT ![t] = observed[call[t].category]] /\ ClaimLoad(t)
           /\ calls' = calls \/ calls' = [calls EXCEPT ![t] = @ + 1]
<1> USE DEF Call, Probe, LoadGeneration, LoadField, CheckSnapshot, ClaimLoad, Claim,
       LoadTransport, CanAdmitEvent, CheckAdmit, Push, Release, RecheckEpoch, Send,
       GoTo, Reject, Finish
<1>1. \E v \in {"idle", "generation", "load", "claim_load", "claim", "transport",
                "admit", "push", "release", "recheck", "send"} : pc' = [pc EXCEPT ![t] = v]
  <2>1. pc' = pc => pc' = [pc EXCEPT ![t] = pc[t]]
    BY DEF ThreadTypes
  <2> QED
    BY <2>1 DEF ThreadTypes
<1>2. \E v \in {"none", "snapshot", "admit", "again"} : stage' = [stage EXCEPT ![t] = v]
  <2>1. stage' = stage => stage' = [stage EXCEPT ![t] = stage[t]]
    BY DEF ThreadTypes
  <2> QED
    BY <2>1 DEF ThreadTypes
<1>3. \/ call' = call \/ call' = [call EXCEPT ![t] = NoCall]
      \/ \E c \in Categories : call' = [call EXCEPT ![t] = [NoCall EXCEPT !.category = c]]
      \/ CheckSnapshot(t) /\ Snapshot(t) /\ call' = [call EXCEPT ![t].session = read[t].session]
  OBVIOUS
<1>4. gen' = gen \/ gen' = [gen EXCEPT ![t] = 0] \/ gen' = [gen EXCEPT ![t] = generation]
  OBVIOUS
<1>5. time' = time \/ time' = [time EXCEPT ![t] = 0] \/ time' = [time EXCEPT ![t] = now]
  OBVIOUS
<1>6. \/ read' = read \/ read' = [read EXCEPT ![t] = Nothing]
      \/ \E f \in Fields :
            read' = [read EXCEPT ![t] =
               [g \in DOMAIN read[t] \cup {f} |-> IF g = f THEN sink[f] ELSE read[t][g]]]
  OBVIOUS
<1>7. \/ held' = held \/ held' = [held EXCEPT ![t] = 0] \/ held' = [held EXCEPT ![t] = queue]
      \/ held' = [held EXCEPT ![t] = epoch]
      \/ held' = [held EXCEPT ![t] = observed[call[t].category]] /\ ClaimLoad(t)
  OBVIOUS
<1>8. calls' = calls \/ calls' = [calls EXCEPT ![t] = @ + 1]
  OBVIOUS
<1> QED
  BY <1>1, <1>2, <1>3, <1>4, <1>5, <1>6, <1>7, <1>8

LEMMA ThreadTypesStep ==
    ASSUME IInv, [Next]_vars
    PROVE  ThreadTypes'
<1>0. /\ HostTypes /\ ControlTypes /\ ThreadTypes /\ RecordTypes
      /\ \A t \in Threads : ReadInv(t) /\ CallInv(t)
  BY DEF IInv, TypeOK
<1>1. ASSUME NEW t \in Threads, Call(t) \/ Probe(t)
      PROVE  ThreadTypes'
  <2>1. pc' \in [Threads -> {"idle", "generation", "load", "claim_load", "claim", "transport",
                             "admit", "push", "release", "recheck", "send"}]
    BY <1>0, <1>1, ProbeEffects DEF ThreadTypes
  <2>2. stage' \in [Threads -> {"none", "snapshot", "admit", "again"}]
    BY <1>0, <1>1, ProbeEffects DEF ThreadTypes
  <2>3. call' \in [Threads -> [session : Sessions \cup {"none"}, category : Categories \cup {"none"}]]
    <3>0. call \in [Threads -> [session : Sessions \cup {"none"}, category : Categories \cup {"none"}]]
      BY <1>0 DEF ThreadTypes
    <3>1. CASE CheckSnapshot(t) /\ Snapshot(t) /\ call' = [call EXCEPT ![t].session = read[t].session]
      <4>1. read[t].session \in Sessions
        BY <3>1, LoadedIsPublished, PolicyFacts DEF CheckSnapshot, Snapshot
      <4> QED
        BY <3>0, <3>1, <4>1
    <3>2. CASE call' = call \/ call' = [call EXCEPT ![t] = NoCall]
      BY <3>0, <3>2 DEF NoCall
    <3>3. ASSUME NEW c \in Categories, call' = [call EXCEPT ![t] = [NoCall EXCEPT !.category = c]]
          PROVE  call' \in [Threads -> [session : Sessions \cup {"none"}, category : Categories \cup {"none"}]]
      <4>1. [NoCall EXCEPT !.category = c] \in [session : Sessions \cup {"none"}, category : Categories \cup {"none"}]
        BY DEF NoCall
      <4> QED
        BY <3>0, <3>3, <4>1
    <3> QED
      BY <1>0, <1>1, <3>1, <3>2, <3>3, ProbeEffects
  <2>4. gen' \in [Threads -> 0 .. GenMax]
    <3>1. gen \in [Threads -> 0 .. GenMax] /\ generation \in 0 .. GenMax /\ 0 \in 0 .. GenMax
      BY <1>0, WidthAssumption DEF ThreadTypes, ControlTypes
    <3>2. gen' = gen \/ gen' = [gen EXCEPT ![t] = 0] \/ gen' = [gen EXCEPT ![t] = generation]
      BY <1>0, <1>1, ProbeEffects
    <3> QED
      BY <3>1, <3>2
  <2>5. time' \in [Threads -> 0 .. MaxTime]
    <3>1. time \in [Threads -> 0 .. MaxTime] /\ now \in 0 .. MaxTime /\ 0 \in 0 .. MaxTime
      BY <1>0, BoundAssumption DEF ThreadTypes, HostTypes
    <3>2. time' = time \/ time' = [time EXCEPT ![t] = 0] \/ time' = [time EXCEPT ![t] = now]
      BY <1>0, <1>1, ProbeEffects
    <3> QED
      BY <3>1, <3>2
  <2>6. DOMAIN read' = Threads /\ \A u \in Threads : DOMAIN read'[u] \in SUBSET Fields
    <3>0. DOMAIN read = Threads /\ \A u \in Threads : DOMAIN read[u] \in SUBSET Fields
      BY <1>0 DEF ThreadTypes
    <3>1. \E r : DOMAIN r \in SUBSET Fields /\ read' \in {read, [read EXCEPT ![t] = r]}
      <4>1. DOMAIN Nothing \in SUBSET Fields
        BY DEF Nothing
      <4>2. \A f \in Fields : DOMAIN [g \in DOMAIN read[t] \cup {f} |-> IF g = f THEN sink[f] ELSE read[t][g]]
               \in SUBSET Fields
        BY <3>0
      <4> QED
        BY <1>0, <1>1, <4>1, <4>2, ProbeEffects
    <3> QED
      BY <3>0, <3>1
  <2>7. held' \in [Threads -> Nat]
    <3>0. held \in [Threads -> Nat] /\ queue \in Nat /\ epoch \in Nat
      BY <1>0, WidthAssumption, BoundAssumption DEF ThreadTypes, ControlTypes
    <3>1. ClaimLoad(t) => observed[call[t].category] \in Nat
      <4>1. ClaimLoad(t) => call[t].category \in Categories
        BY <1>0 DEF ClaimLoad, ReadInv
      <4>2. \A c \in Categories : observed[c] \in 0 .. GenMax
        BY <1>0 DEF RecordTypes
      <4> QED
        BY <4>1, <4>2, WidthAssumption
    <3> QED
      BY <1>0, <1>1, <3>0, <3>1, ProbeEffects
  <2>8. calls' \in [Threads -> Nat]
    <3>1. calls' = calls \/ calls' = [calls EXCEPT ![t] = @ + 1]
      BY <1>0, <1>1, ProbeEffects
    <3>2. calls \in [Threads -> Nat]
      BY <1>0 DEF ThreadTypes
    <3> QED
      BY <3>1, <3>2
  <2> QED
    BY <2>1, <2>2, <2>3, <2>4, <2>5, <2>6, <2>7, <2>8 DEF ThreadTypes
<1>2. CASE Tick \/ Browser
  BY <1>0, <1>2, BrowserFrame DEF ThreadTypes, threadVars
<1>3. CASE Control
  BY <1>0, <1>3, ControlFrame DEF ThreadTypes, threadVars
<1>4. CASE UNCHANGED vars
  BY <1>0, <1>4 DEF ThreadTypes, threadVars, vars
<1> QED
  BY <1>1, <1>2, <1>3, <1>4 DEF Next

LEMMA OtherProbes ==
    ASSUME ThreadTypes, NEW t \in Threads, Call(t) \/ Probe(t), NEW u \in Threads, u # t
    PROVE  /\ pc'[u] = pc[u] /\ stage'[u] = stage[u] /\ call'[u] = call[u]
           /\ gen'[u] = gen[u] /\ time'[u] = time[u] /\ read'[u] = read[u] /\ held'[u] = held[u]
<1> USE DEF ThreadTypes
<1>1. pc'[u] = pc[u]
  BY ProbeEffects
<1>2. stage'[u] = stage[u]
  BY ProbeEffects
<1>3. call'[u] = call[u]
  <2>1. \E v : call' \in {call, [call EXCEPT ![t] = v]}
    BY ProbeEffects
  <2> QED
    BY <2>1
<1>4. gen'[u] = gen[u]
  BY ProbeEffects
<1>5. time'[u] = time[u]
  BY ProbeEffects
<1>6. read'[u] = read[u]
  <2>1. \E v : read' \in {read, [read EXCEPT ![t] = v]}
    BY ProbeEffects
  <2> QED
    BY <2>1
<1>7. held'[u] = held[u]
  <2>1. \E v : held' \in {held, [held EXCEPT ![t] = v]}
    BY ProbeEffects
  <2> QED
    BY <2>1
<1> QED
  BY <1>1, <1>2, <1>3, <1>4, <1>5, <1>6, <1>7

\* The counter only advances, and what it has published stays.
LEMMA GenerationStep ==
    ASSUME IInv, [Next]_vars
    PROVE  /\ generation <= generation'
           /\ \A g \in 0 .. GenMax : published'[g] # published[g] => generation < g
<1>0. generation \in 0 .. GenMax /\ published \in [0 .. GenMax -> Config \cup {NoConfig}] /\ GenMax \in Nat
  BY WidthAssumption DEF IInv, TypeOK, ControlTypes
<1>1. CASE Control
  <2>1. CASE BeginGeneration
    BY <1>0, <2>1 DEF BeginGeneration, historyVars
  <2>2. CASE EndGeneration
    BY <1>0, <2>2 DEF EndGeneration
  <2>3. CASE ~ (BeginGeneration \/ EndGeneration)
    BY <1>0, <1>1, <2>3 DEF Control, Receive, ClearEpoch, StopReaders, StoreField, ClearQueue,
       SetQueue, SetEpoch, sinkVars, historyVars
  <2> QED
    BY <2>1, <2>2, <2>3
<1>2. CASE Tick \/ Browser
  BY <1>0, <1>2, BrowserFrame DEF sinkVars
<1>3. ASSUME NEW t \in Threads, Call(t) \/ Probe(t)
      PROVE  generation' = generation /\ published' = published
  BY <1>3, ThreadFrame DEF sinkVars
<1>4. CASE UNCHANGED vars
  BY <1>0, <1>4 DEF sinkVars, historyVars, vars
<1> QED
  BY <1>0, <1>1, <1>2, <1>3, <1>4 DEF Next

LEMMA ReadInvStep ==
    ASSUME IInv, [Next]_vars, NEW u \in Threads
    PROVE  ReadInv(u)'
<1>0. /\ ControlTypes /\ ThreadTypes /\ PhaseInv /\ SinkInv /\ ReadInv(u) /\ CallInv(u)
      /\ generation \in 0 .. GenMax /\ GenMax \in Nat /\ gen[u] \in 0 .. GenMax
  BY WidthAssumption DEF IInv, TypeOK, ControlTypes, ThreadTypes
<1>1. CASE UNCHANGED threadVars
  <2>1. generation <= generation' /\ published'[gen[u]] = published[gen[u]] /\ generation' \in Nat
    BY <1>0, GenerationStep, ControlTypesStep DEF ReadInv, ControlTypes
  <2> QED
    BY <1>0, <1>1, <2>1 DEF ReadInv, threadVars
<1>2. ASSUME NEW t \in Threads, Call(t) \/ Probe(t), t # u
      PROVE  ReadInv(u)'
  <2>1. generation' = generation /\ published' = published
    BY <1>2, ThreadFrame DEF sinkVars
  <2> QED
    BY <1>0, <1>2, <2>1, OtherProbes DEF ReadInv
<1>3. ASSUME Call(u) \/ Probe(u)
      PROVE  ReadInv(u)'
  <2>0. /\ generation' = generation /\ published' = published /\ Even(0)
        /\ u \in DOMAIN pc /\ u \in DOMAIN read /\ u \in DOMAIN gen /\ u \in DOMAIN call
    BY <1>0, <1>3, ThreadFrame, GenerationParity DEF sinkVars, ThreadTypes
  <2>1. CASE pc'[u] = "idle" /\ gen'[u] = 0 /\ read'[u] = Nothing
    BY <1>0, <2>0, <2>1 DEF ReadInv, Nothing
  <2>2. CASE Finish(u)
    BY <2>0, <2>1, <2>2 DEF Finish
  <2>3. CASE UNCHANGED <<gen, read>> /\ pc'[u] \notin {"idle", "load", "generation"}
             /\ call'[u].category = call[u].category /\ pc[u] # "idle"
    BY <1>0, <2>0, <2>3 DEF ReadInv
  <2>4. CASE Call(u)
    <3>1. pc'[u] = "generation" /\ call'[u].category \in Categories /\ UNCHANGED <<gen, read>> /\ pc[u] = "idle"
      BY <2>0, <2>4 DEF Call, GoTo, NoCall
    <3> QED
      BY <1>0, <2>0, <3>1 DEF ReadInv
  <2>5. CASE LoadGeneration(u)
    <3>1. CASE ~ Finish(u)
      <4>1. /\ pc[u] = "generation" /\ pc'[u] = "load" /\ gen'[u] = generation /\ Even(generation)
            /\ UNCHANGED <<call, read>>
        <5>1. generation % 2 # 1
          BY <2>5, <3>1 DEF LoadGeneration
        <5>2. Even(generation)
          BY <1>0, <5>1 DEF Even
        <5> QED
          BY <2>0, <2>5, <5>1, <5>2 DEF LoadGeneration, GoTo
      <4> QED
        BY <1>0, <2>0, <4>1 DEF ReadInv, Nothing
    <3> QED
      BY <2>2, <3>1
  <2>6. ASSUME NEW f \in Fields, LoadField(u, f)
        PROVE  ReadInv(u)'
    <3>1. /\ pc'[u] = "load" /\ UNCHANGED <<gen, call>> /\ pc[u] = "load"
          /\ read'[u] = [g \in DOMAIN read[u] \cup {f} |-> IF g = f THEN sink[f] ELSE read[u][g]]
      BY <2>0, <2>6 DEF LoadField
    <3>2. DOMAIN read'[u] = DOMAIN read[u] \cup {f} /\ read'[u][f] = sink[f]
      BY <3>1
    <3>3. \A g \in DOMAIN read[u] : g # f => read'[u][g] = read[u][g]
      BY <3>1
    <3>4. generation = gen[u] =>
             IF f = "emitter" THEN sink[f] => published[gen[u]].policy[f] ELSE sink[f] = published[gen[u]].policy[f]
      BY <1>0, FieldsAre DEF SinkInv, ReadInv
    <3>5. read'[u] = [g \in DOMAIN read'[u] |-> read'[u][g]]
      BY <3>1
    <3>6. pc'[u] = "load" /\ generation' = gen'[u] =>
             \A g \in DOMAIN read'[u] :
                IF g = "emitter" THEN read'[u][g] => published'[gen'[u]].policy[g]
                                 ELSE read'[u][g] = published'[gen'[u]].policy[g]
      BY <1>0, <2>0, <3>1, <3>2, <3>3, <3>4 DEF ReadInv
    <3> QED
      BY <1>0, <2>0, <3>1, <3>5, <3>6 DEF ReadInv
  <2>7. CASE CanAdmitEvent(u) /\ ~ Reject(u)
    <3>1. /\ pc[u] = "admit" /\ pc'[u] = "load" /\ read'[u] = Nothing /\ UNCHANGED <<gen, call>>
      BY <2>0, <2>7 DEF CanAdmitEvent, GoTo
    <3> QED
      BY <1>0, <2>0, <3>1 DEF ReadInv, Nothing
  <2>8. CASE pc[u] # "idle" /\ Reject(u)
    <3>1. CASE u \in Surface
      <4>1. pc'[u] = "release" /\ UNCHANGED <<gen, read, call>>
        BY <2>0, <2>8, <3>1 DEF Reject, GoTo
      <4> QED
        BY <2>3, <2>8, <4>1
    <3>2. CASE u \notin Surface
      BY <2>2, <2>8, <3>2 DEF Reject
    <3> QED
      BY <3>1, <3>2
  <2>9. CASE CheckSnapshot(u)
    <3>1. Finish(u) \/ /\ pc[u] # "idle" /\ pc'[u] \in {"claim_load", "transport"}
                       /\ UNCHANGED <<gen, read>> /\ call'[u].category = call[u].category
      BY <1>0, <2>0, <2>9 DEF CheckSnapshot, GoTo, Loaded, ThreadTypes
    <3> QED
      BY <2>2, <2>3, <3>1
  <2>10. CASE ClaimLoad(u) \/ Claim(u) \/ Release(u) \/ RecheckEpoch(u) \/ Send(u)
    <3>1. Finish(u) \/ /\ pc[u] # "idle" /\ pc'[u] \in {"claim", "transport", "send"}
                       /\ UNCHANGED <<gen, read, call>>
      BY <2>0, <2>10 DEF ClaimLoad, Claim, Release, RecheckEpoch, Send, GoTo
    <3> QED
      BY <2>2, <2>3, <3>1
  <2>11. CASE LoadTransport(u) \/ CheckAdmit(u) \/ Push(u)
    <3>1. /\ pc[u] # "idle"
          /\ Finish(u) \/ Reject(u) \/ /\ pc'[u] \in {"admit", "push", "recheck"}
                                       /\ UNCHANGED <<gen, read, call>>
      BY <2>0, <2>11 DEF LoadTransport, CheckAdmit, Push, Loaded, GoTo
    <3> QED
      BY <2>2, <2>3, <2>8, <3>1
  <2>12. CASE CanAdmitEvent(u)
    BY <2>7, <2>8, <2>12 DEF CanAdmitEvent
  <2> QED
    BY <1>3, <2>4, <2>5, <2>6, <2>9, <2>10, <2>11, <2>12 DEF Probe
<1>4. UNCHANGED threadVars \/ \E t \in Threads : Call(t) \/ Probe(t)
  BY BrowserFrame, ControlFrame DEF Next, vars, threadVars
<1> QED
  BY <1>1, <1>2, <1>3, <1>4

\* Where a probe's step ends when it gives up.
LEMMA Finished ==
    ASSUME ThreadTypes, NEW t \in Threads, Finish(t)
    PROVE  /\ pc'[t] = "idle" /\ stage'[t] = "none" /\ call'[t] = NoCall
           /\ gen'[t] = 0 /\ read'[t] = Nothing /\ held'[t] = 0
BY DEF Finish, ThreadTypes

LEMMA Rejected ==
    ASSUME ThreadTypes, NEW t \in Threads, Reject(t)
    PROVE  \/ Finish(t)
           \/ t \in Surface /\ pc'[t] = "release" /\ UNCHANGED <<stage, call, gen, read, held>>
BY DEF Reject, GoTo, ThreadTypes

LEMMA CallInvStep ==
    ASSUME IInv, [Next]_vars, NEW u \in Threads
    PROVE  CallInv(u)'
<1>0. /\ ControlTypes /\ ThreadTypes /\ PublishedInv /\ ReadInv(u) /\ CallInv(u)
      /\ generation \in 0 .. GenMax /\ gen[u] \in 0 .. GenMax /\ GenMax \in Nat
      /\ u \in Surface \/ u \in Wasm
  BY WidthAssumption DEF IInv, TypeOK, ControlTypes, ThreadTypes, Threads
<1>1. CASE UNCHANGED threadVars
  <2>1. /\ published'[gen[u]] = published[gen[u]]
        /\ generation' = gen[u] => generation = gen[u]
    BY <1>0, GenerationStep, ControlTypesStep DEF ReadInv, ControlTypes
  <2> QED
    BY <1>0, <1>1, <2>1 DEF CallInv, Snapped, threadVars
<1>2. ASSUME NEW t \in Threads, Call(t) \/ Probe(t), t # u
      PROVE  CallInv(u)'
  <2>1. generation' = generation /\ published' = published
    BY <1>2, ThreadFrame DEF sinkVars
  <2> QED
    BY <1>0, <1>2, <2>1, OtherProbes DEF CallInv, Snapped
<1>3. ASSUME Call(u) \/ Probe(u)
      PROVE  CallInv(u)'
  <2>0. /\ generation' = generation /\ published' = published
        /\ u \in DOMAIN pc /\ u \in DOMAIN stage /\ u \in DOMAIN call /\ u \in DOMAIN held
        /\ u \in DOMAIN gen
    BY <1>0, <1>3, ThreadFrame DEF sinkVars, ThreadTypes
  <2>1. CASE Finish(u)
    BY <1>0, <2>1, Finished DEF CallInv, Snapped
  <2>2. CASE Snapped(u) /\ Reject(u)
    <3>1. CASE /\ u \in Surface /\ pc'[u] = "release" /\ UNCHANGED <<stage, call, gen, read, held>>
      BY <1>0, <2>0, <2>2, <3>1 DEF CallInv, Snapped
    <3> QED
      BY <1>0, <2>1, <2>2, <3>1, Rejected
  <2>3. CASE Call(u)
    <3>1. pc'[u] = "generation" /\ UNCHANGED <<stage, gen, held>>
      BY <2>0, <2>3 DEF Call, GoTo
    <3> QED
      BY <1>0, <3>1 DEF CallInv, Snapped
  <2>4. CASE LoadGeneration(u)
    <3>1. CASE ~ Finish(u)
      <4>1. generation % 2 # 1
        BY <2>4, <3>1 DEF LoadGeneration
      <4>2. pc'[u] = "load" /\ stage'[u] = "snapshot"
        BY <2>0, <2>4, <4>1 DEF LoadGeneration, GoTo
      <4> QED
        BY <4>2 DEF CallInv, Snapped
    <3> QED
      BY <2>1, <3>1
  <2>5. ASSUME NEW f \in Fields, LoadField(u, f)
        PROVE  CallInv(u)'
    <3>1. UNCHANGED <<pc, stage, call, gen, held>>
      BY <2>5 DEF LoadField
    <3> QED
      BY <1>0, <2>0, <3>1 DEF CallInv, Snapped
  <2>6. CASE CheckSnapshot(u)
    <3>1. CASE ~ Finish(u)
      <4>1. /\ Loaded(u) /\ Snapshot(u) /\ stage'[u] = "snapshot"
            /\ pc'[u] = IF u \in Surface THEN "claim_load" ELSE "transport"
            /\ gen'[u] = gen[u] /\ call'[u].session = read[u].session
            /\ call'[u].category = call[u].category
        BY <1>0, <2>0, <2>6, <3>1 DEF CheckSnapshot, GoTo, ThreadTypes
      <4>2. read[u] = published[gen[u]].policy /\ published[gen[u]] # NoConfig
        BY <4>1, LoadedIsPublished DEF Snapshot
      <4> QED
        BY <1>0, <2>0, <4>1, <4>2 DEF CallInv, Snapped, Snapshot
    <3> QED
      BY <2>1, <3>1
  <2>7. CASE ClaimLoad(u) \/ Claim(u)
    <3>1. Finish(u) \/ /\ pc[u] \in {"claim_load", "claim"} /\ pc'[u] \in {"claim", "transport"}
                       /\ UNCHANGED <<stage, call, gen>>
      BY <2>0, <2>7 DEF ClaimLoad, Claim, GoTo
    <3>2. CASE /\ pc[u] \in {"claim_load", "claim"} /\ pc'[u] \in {"claim", "transport"}
               /\ UNCHANGED <<stage, call, gen>>
      BY <1>0, <2>0, <3>2 DEF CallInv, Snapped
    <3> QED
      BY <2>1, <3>1, <3>2
  <2>8. CASE LoadTransport(u)
    <3>1. CASE ~ Reject(u)
      <4>1. /\ pc[u] = "transport" /\ pc'[u] = "admit" /\ stage'[u] = "admit"
            /\ call'[u] = call[u] /\ gen'[u] = gen[u] /\ held'[u] # 0
            /\ held'[u] = IF u \in Surface THEN queue ELSE epoch
        BY <2>0, <2>8, <3>1 DEF LoadTransport, GoTo
      <4>2. published[gen[u]] # NoConfig
        BY <1>0, <4>1 DEF CallInv, Snapped
      <4>3. generation = gen[u] =>
               /\ queue = published[gen[u]].mapping
               /\ epoch \in {0, published[gen[u]].epoch}
        BY <1>0, <4>2 DEF PublishedInv, ReadInv
      <4> QED
        BY <1>0, <2>0, <4>1, <4>3 DEF CallInv, Snapped
    <3>2. Snapped(u)
      BY <2>8 DEF Snapped, LoadTransport
    <3> QED
      BY <2>2, <3>1, <3>2
  <2>9. CASE CanAdmitEvent(u)
    <3>1. CASE ~ Reject(u)
      <4>1. pc[u] = "admit" /\ pc'[u] = "load" /\ UNCHANGED <<stage, call, gen, held>>
        BY <2>0, <2>9, <3>1 DEF CanAdmitEvent, GoTo
      <4> QED
        BY <1>0, <2>0, <4>1 DEF CallInv, Snapped
    <3>2. Snapped(u)
      BY <2>9 DEF Snapped, CanAdmitEvent
    <3> QED
      BY <2>2, <3>1, <3>2
  <2>10. CASE CheckAdmit(u)
    <3>1. CASE ~ Reject(u)
      <4>1. /\ pc[u] = "load" /\ stage[u] \in {"admit", "again"} /\ generation = gen[u]
            /\ pc'[u] = IF u \in Surface THEN "push"
                        ELSE IF stage[u] = "admit" THEN "admit" ELSE "recheck"
            /\ stage'[u] = IF u \in Wasm THEN "again" ELSE stage[u]
            /\ UNCHANGED <<call, gen, held>>
        BY <2>0, <2>10, <3>1 DEF CheckAdmit, Admissible, Loaded, GoTo
      <4> QED
        BY <1>0, <2>0, <4>1 DEF CallInv, Snapped
    <3>2. Snapped(u)
      BY <2>10 DEF Snapped, CheckAdmit, Loaded
    <3> QED
      BY <2>2, <3>1, <3>2
  <2>11. CASE Push(u)
    BY <2>1, <2>2, <2>11 DEF Push, Snapped
  <2>12. CASE Release(u) \/ Send(u)
    BY <2>1, <2>12 DEF Release, Send
  <2>13. CASE RecheckEpoch(u)
    <3>1. CASE ~ Finish(u)
      <4>1. pc[u] = "recheck" /\ pc'[u] = "send" /\ UNCHANGED <<stage, call, gen, held>>
        BY <2>0, <2>13, <3>1 DEF RecheckEpoch, GoTo
      <4> QED
        BY <1>0, <2>0, <4>1 DEF CallInv, Snapped
    <3> QED
      BY <2>1, <3>1
  <2> QED
    BY <1>3, <2>3, <2>4, <2>5, <2>6, <2>7, <2>8, <2>9, <2>10, <2>11, <2>12, <2>13 DEF Probe
<1>4. UNCHANGED threadVars \/ \E t \in Threads : Call(t) \/ Probe(t)
  BY BrowserFrame, ControlFrame DEF Next, vars, threadVars
<1> QED
  BY <1>1, <1>2, <1>3, <1>4

LEMMA NoMixedPolicyStep ==
    ASSUME IInv, [Next]_vars
    PROVE  NoMixedPolicy'
<1> DEFINE Admitted == {"claim_load", "claim", "transport", "admit", "push", "recheck", "send"}
<1> SUFFICES ASSUME NEW u \in Threads, pc'[u] \in Admitted
             PROVE  read'[u] = published'[gen'[u]].policy
  BY DEF NoMixedPolicy
<1>0. /\ ThreadTypes /\ ReadInv(u) /\ gen[u] \in 0 .. GenMax /\ generation \in 0 .. GenMax
      /\ pc[u] \in Admitted => read[u] = published[gen[u]].policy
  BY DEF IInv, TypeOK, ThreadTypes, ControlTypes, NoMixedPolicy
<1>1. CASE UNCHANGED threadVars
  <2>1. published'[gen[u]] = published[gen[u]]
    BY <1>0, GenerationStep, WidthAssumption DEF ReadInv
  <2> QED
    BY <1>0, <1>1, <2>1 DEF threadVars
<1>2. ASSUME NEW t \in Threads, Call(t) \/ Probe(t), t # u
      PROVE  read'[u] = published'[gen'[u]].policy
  <2>1. published' = published
    BY <1>2, ThreadFrame
  <2> QED
    BY <1>0, <1>2, <2>1, OtherProbes
<1>3. ASSUME Call(u) \/ Probe(u)
      PROVE  read'[u] = published'[gen'[u]].policy
  <2>0. /\ published' = published /\ u \in DOMAIN pc
        /\ ~ Finish(u) /\ ~ Reject(u)
    BY <1>0, <1>3, ThreadFrame, Finished, Rejected DEF ThreadTypes
  <2>1. CASE pc[u] \in Admitted /\ UNCHANGED <<read, gen>>
    BY <1>0, <2>0, <2>1
  <2>2. CASE Loaded(u) /\ generation = gen[u] /\ read[u].emitter /\ UNCHANGED <<read, gen>>
    BY <2>0, <2>2, LoadedIsPublished
  <2>3. CASE CheckSnapshot(u)
    BY <2>0, <2>2, <2>3 DEF CheckSnapshot, Snapshot
  <2>4. CASE CheckAdmit(u)
    BY <2>0, <2>2, <2>4 DEF CheckAdmit, Admissible
  <2>5. CASE ClaimLoad(u) \/ Claim(u) \/ LoadTransport(u) \/ Push(u) \/ RecheckEpoch(u)
    BY <2>0, <2>1, <2>5 DEF ClaimLoad, Claim, LoadTransport, Push, RecheckEpoch
  <2>6. CASE Call(u) \/ LoadGeneration(u) \/ CanAdmitEvent(u)
    <3>1. pc'[u] \in {"generation", "load"}
      BY <2>0, <2>6 DEF Call, LoadGeneration, CanAdmitEvent, GoTo
    <3> QED
      BY <3>1
  <2>7. ASSUME NEW f \in Fields, LoadField(u, f) PROVE FALSE
    BY <2>7 DEF LoadField
  <2>8. CASE Release(u) \/ Send(u)
    BY <2>0, <2>8 DEF Release, Send
  <2> QED
    BY <1>3, <2>3, <2>4, <2>5, <2>6, <2>7, <2>8 DEF Probe
<1>4. UNCHANGED threadVars \/ \E t \in Threads : Call(t) \/ Probe(t)
  BY BrowserFrame, ControlFrame DEF Next, vars, threadVars
<1> QED
  BY <1>1, <1>2, <1>3, <1>4

----------------------------------------------------------------------------
(* What leaves the probes *)

\* A record or a capture that a probe is about to emit is its own configuration's.
LEMMA EmitsOwn ==
    ASSUME IInv, NEW t \in Threads, pc[t] \in {"push", "send"}
    PROVE  LET config == published[gen[t]] IN
           /\ config # NoConfig /\ gen[t] \in 0 .. GenMax /\ gen[t] <= generation
           /\ config.mapping \in 1 .. MaxStarts /\ config.epoch \in 1 .. EpochMax
           /\ call[t].session = config.policy.session /\ call[t].session \in Sessions
           /\ call[t].category \in config.policy.mask /\ call[t].category \in Categories
           /\ pc[t] = "push" => t \in Surface /\ held[t] = config.mapping
           /\ pc[t] = "send" => t \in Wasm /\ held[t] = config.epoch
<1> DEFINE config == published[gen[t]]
<1>1. /\ CallInv(t) /\ ReadInv(t) /\ gen[t] \in 0 .. GenMax /\ config \in Config \cup {NoConfig}
  BY DEF IInv, TypeOK, ControlTypes, ThreadTypes
<1>2. /\ config # NoConfig /\ call[t].session = config.policy.session
      /\ call[t].category \in config.policy.mask
      /\ pc[t] = "push" => t \in Surface /\ held[t] = config.mapping
      /\ pc[t] = "send" => t \in Wasm
      /\ pc[t] = "send" => held[t] = IF t \in Surface THEN config.mapping ELSE config.epoch
  BY <1>1 DEF CallInv, Snapped
<1>3. pc[t] = "send" => held[t] = config.epoch
  BY <1>2, ThreadsAssumption
<1>4. gen[t] <= generation
  BY <1>1 DEF ReadInv
<1>5. config.mapping \in 1 .. MaxStarts /\ config.epoch \in 1 .. EpochMax /\ config.policy \in Policy
  BY <1>1, <1>2, ConfigFacts
<1>6. call[t].session \in Sessions /\ call[t].category \in Categories
  BY <1>2, <1>5, PolicyFacts
<1> QED
  BY <1>1, <1>2, <1>3, <1>4, <1>5, <1>6

\* Which steps move a watermark, and which of them only raise it.
LEMMA ObservedEffects ==
    ASSUME IInv, [Next]_vars
    PROVE  \/ observed' = observed
           \/ \E t \in Threads : Claim(t) /\ observed' = [observed EXCEPT ![call[t].category] = gen[t]]
           \/ \E t \in Threads : Release(t)
<1>1. ASSUME NEW t \in Threads, Call(t) \/ Probe(t)
      PROVE  \/ observed' = observed
             \/ Claim(t) /\ observed' = [observed EXCEPT ![call[t].category] = gen[t]]
             \/ Release(t)
  BY <1>1 DEF Call, Probe, LoadGeneration, LoadField, CheckSnapshot, ClaimLoad, Claim,
     LoadTransport, CanAdmitEvent, CheckAdmit, Push, RecheckEpoch, Send
<1>2. UNCHANGED observed \/ \E t \in Threads : Call(t) \/ Probe(t)
  BY BrowserFrame, ControlFrame DEF Next, vars
<1> QED
  BY <1>1, <1>2

\* The record and the capture that a probe emits.
Record(t) == [by |-> t, nth |-> calls[t], session |-> call[t].session,
              category |-> call[t].category, generation |-> gen[t], mapping |-> held[t]]
Capture(t) == [epoch |-> held[t], session |-> call[t].session,
               category |-> call[t].category, generation |-> gen[t]]

LEMMA EmittedEffects ==
    ASSUME IInv, [Next]_vars
    PROVE  /\ \/ pushed' = pushed
              \/ \E t \in Threads : Push(t) /\ Finish(t) /\ pushed' = pushed \cup {Record(t)}
           /\ \/ to_host' = to_host
              \/ to_host # <<>> /\ to_host' = Tail(to_host)
              \/ \E t \in Threads : Send(t) /\ to_host' = Append(to_host, Capture(t))
           /\ \/ captured' = captured
              \/ /\ to_host # <<>> /\ Current(Head(to_host)) /\ published' = published
                 /\ captured' = captured \cup
                       {[generation |-> Head(to_host).generation, mapping |-> host_mapping]}
<1>1. ASSUME NEW t \in Threads, Call(t) \/ Probe(t)
      PROVE  /\ (pushed' = pushed \/ (Push(t) /\ Finish(t) /\ pushed' = pushed \cup {Record(t)}))
             /\ (to_host' = to_host \/ (Send(t) /\ to_host' = Append(to_host, Capture(t))))
             /\ captured' = captured
  <2>1. captured' = captured
    BY <1>1, ThreadFrame
  <2>2. CASE Push(t)
    <3>1. to_host' = to_host
      BY <2>2 DEF Push
    <3>2. pushed' = pushed \/ (Finish(t) /\ pushed' = pushed \cup {Record(t)})
      BY <2>2 DEF Push, Record
    <3> QED
      BY <2>1, <2>2, <3>1, <3>2
  <2>3. CASE Send(t)
    <3>1. pushed' = pushed
      BY <2>3 DEF Send, historyVars
    <3>2. to_host' = Append(to_host, Capture(t))
      BY <2>3 DEF Send, Capture
    <3> QED
      BY <2>1, <2>3, <3>1, <3>2
  <2>4. CASE Call(t)
    <3>1. to_host' = to_host /\ pushed' = pushed
      BY <2>4 DEF Call, historyVars
    <3> QED
      BY <2>1, <3>1
  <2>5. CASE Probe(t) /\ ~ Push(t) /\ ~ Send(t)
    <3>1. to_host' = to_host /\ pushed' = pushed
      BY <2>5 DEF Probe, LoadGeneration, LoadField, CheckSnapshot, ClaimLoad, Claim,
         LoadTransport, CanAdmitEvent, CheckAdmit, Release, RecheckEpoch, historyVars
    <3> QED
      BY <2>1, <3>1
  <2> QED
    BY <1>1, <2>2, <2>3, <2>4, <2>5
<1>2. CASE Control \/ UNCHANGED vars
  BY <1>2, ControlFrame DEF vars, historyVars
<1>3. CASE CaptureWasmDispatch
  BY <1>3 DEF CaptureWasmDispatch
<1>4. CASE Tick \/ Browser
  BY <1>3, <1>4 DEF Browser, Tick, StartSession, StopSession, BindClient, historyVars
<1> QED
  BY <1>1, <1>2, <1>4 DEF Next

LEMMA CaptureType ==
    ASSUME IInv, NEW t \in Threads, pc[t] = "send"
    PROVE  Capture(t) \in Captures
<1>1. /\ held[t] \in 1 .. EpochMax /\ gen[t] \in 0 .. GenMax
      /\ call[t].session \in Sessions /\ call[t].category \in Categories
  BY EmitsOwn
<1> QED
  BY <1>1 DEF Captures, Capture

LEMMA RecordTypesStep ==
    ASSUME IInv, [Next]_vars
    PROVE  RecordTypes'
<1>0. ThreadTypes /\ HostTypes /\ RecordTypes /\ ControlTypes
  BY DEF IInv, TypeOK
<1>1. observed' \in [Categories -> 0 .. GenMax]
  <2>0. observed \in [Categories -> 0 .. GenMax] /\ \A t \in Threads : gen[t] \in 0 .. GenMax
    BY <1>0 DEF RecordTypes, ThreadTypes
  <2>1. CASE observed' = observed
    BY <2>0, <2>1
  <2>2. ASSUME NEW t \in Threads, observed' = [observed EXCEPT ![call[t].category] = gen[t]]
        PROVE  observed' \in [Categories -> 0 .. GenMax]
    BY <2>0, <2>2
  <2>3. ASSUME NEW t \in Threads, Release(t)
        PROVE  observed' \in [Categories -> 0 .. GenMax]
    <3>1. Holds(t)
      BY <2>3, <1>0 DEF Holds, Release, IInv, CallInv
    <3>2. gen[t] - 1 \in 0 .. GenMax
      BY <2>0, <3>1, WidthAssumption DEF IInv, ClaimInv, HolderInv
    <3>3. observed' = [observed EXCEPT ![call[t].category] = IF @ = gen[t] THEN gen[t] - 1 ELSE @]
      BY <2>3 DEF Release
    <3> HIDE <2>3
    <3> QED
      BY <2>0, <3>2, <3>3
  <2> QED
    BY <2>1, <2>2, <2>3, ObservedEffects
<1>2. to_host' \in Seq(Captures)
  <2>0. to_host \in Seq(Captures)
    BY <1>0 DEF RecordTypes
  <2>1. ASSUME NEW t \in Threads, Send(t), to_host' = Append(to_host, Capture(t))
        PROVE  to_host' \in Seq(Captures)
    BY <2>0, <2>1, CaptureType DEF Send
  <2> QED
    BY <2>0, <2>1, EmittedEffects
<1>3. pushed' \subseteq [by : Surface, nth : Nat, session : Sessions, category : Categories,
                         generation : 0 .. GenMax, mapping : 1 .. MaxStarts]
  <2>1. ASSUME NEW t \in Threads, Push(t)
        PROVE  Record(t) \in [by : Surface, nth : Nat, session : Sessions, category : Categories,
                              generation : 0 .. GenMax, mapping : 1 .. MaxStarts]
    <3>1. /\ t \in Surface /\ held[t] \in 1 .. MaxStarts /\ gen[t] \in 0 .. GenMax
          /\ call[t].session \in Sessions /\ call[t].category \in Categories
      BY <2>1, EmitsOwn DEF Push
    <3>2. calls[t] \in Nat
      BY <1>0 DEF ThreadTypes
    <3> QED
      BY <3>1, <3>2 DEF Record
  <2> QED
    BY <1>0, <2>1, EmittedEffects DEF RecordTypes
<1>4. captured' \subseteq [generation : 0 .. GenMax, mapping : 1 .. MaxStarts]
  <2>0. captured \subseteq [generation : 0 .. GenMax, mapping : 1 .. MaxStarts]
    BY <1>0 DEF RecordTypes
  <2>1. CASE /\ to_host # <<>> /\ Current(Head(to_host))
             /\ captured' = captured \cup
                       {[generation |-> Head(to_host).generation, mapping |-> host_mapping]}
    <3>1. Head(to_host) \in Captures
      BY <1>0, <2>1 DEF RecordTypes
    <3>2. Head(to_host).generation \in 0 .. GenMax
      BY <3>1 DEF Captures
    <3>3. host_mapping \in 1 .. MaxStarts
      BY <1>0, <2>1, BoundAssumption DEF HostTypes, Current
    <3> HIDE <2>1
    <3>4. [generation |-> Head(to_host).generation, mapping |-> host_mapping]
             \in [generation : 0 .. GenMax, mapping : 1 .. MaxStarts]
      BY <3>2, <3>3
    <3> QED
      BY <2>0, <2>1, <3>4
  <2> QED
    BY <2>0, <2>1, EmittedEffects
<1> QED
  BY <1>1, <1>2, <1>3, <1>4 DEF RecordTypes

LEMMA CapturesInFlight ==
    ASSUME IInv, [Next]_vars, NEW i \in 1 .. Len(to_host')
    PROVE  \/ \E j \in 1 .. Len(to_host) : to_host'[i] = to_host[j]
           \/ \E t \in Threads : pc[t] = "send" /\ to_host'[i] = Capture(t)
<1>0. to_host \in Seq(Captures)
  BY DEF IInv, TypeOK, RecordTypes
<1>1. CASE to_host # <<>> /\ to_host' = Tail(to_host)
  <2>1. i + 1 \in 1 .. Len(to_host) /\ to_host'[i] = to_host[i + 1]
    BY <1>0, <1>1
  <2> QED
    BY <2>1
<1>2. ASSUME NEW t \in Threads, Send(t), to_host' = Append(to_host, Capture(t))
      PROVE  \/ \E j \in 1 .. Len(to_host) : to_host'[i] = to_host[j]
             \/ pc[t] = "send" /\ to_host'[i] = Capture(t)
  <2>0. pc[t] = "send" /\ Capture(t) \in Captures
    BY <1>2, CaptureType DEF Send
  <2>1. CASE i = Len(to_host) + 1
    BY <1>0, <1>2, <2>0, <2>1
  <2>2. CASE i # Len(to_host) + 1
    <3>1. i \in 1 .. Len(to_host) /\ to_host'[i] = to_host[i]
      BY <1>0, <1>2, <2>0, <2>2
    <3> QED
      BY <3>1
  <2> QED
    BY <2>1, <2>2
<1>3. CASE to_host' = to_host
  BY <1>3
<1> QED
  BY <1>1, <1>2, <1>3, EmittedEffects

LEMMA EmittedInvStep ==
    ASSUME IInv, [Next]_vars
    PROVE  EmittedInv'
<1>0. /\ EmittedInv /\ generation \in Int /\ generation' \in Int /\ GenMax \in Nat
      /\ generation <= generation'
      /\ \A g \in 0 .. GenMax : g <= generation => published'[g] = published[g]
      /\ to_host \in Seq(Captures)
      /\ pushed \subseteq [by : Surface, nth : Nat, session : Sessions, category : Categories,
                           generation : 0 .. GenMax, mapping : 1 .. MaxStarts]
      /\ captured \subseteq [generation : 0 .. GenMax, mapping : 1 .. MaxStarts]
  <2>1. generation \in 0 .. GenMax /\ generation' \in 0 .. GenMax /\ GenMax \in Nat
    BY ControlTypesStep, WidthAssumption DEF IInv, TypeOK, ControlTypes
  <2>2. generation <= generation' /\ \A g \in 0 .. GenMax : g <= generation => published'[g] = published[g]
    BY <2>1, GenerationStep
  <2> QED
    BY <2>1, <2>2 DEF IInv, TypeOK, RecordTypes
<1>1. \A r \in pushed' : r.generation <= generation'
  <2>1. \A r \in pushed : r.generation \in Int /\ r.generation <= generation
    BY <1>0 DEF EmittedInv
  <2>2. ASSUME NEW t \in Threads, Push(t)
        PROVE  Record(t).generation \in Int /\ Record(t).generation <= generation
    BY <1>0, <2>2, EmitsOwn DEF Push, Record
  <2> QED
    BY <1>0, <2>1, <2>2, EmittedEffects
<1>2. ASSUME NEW i \in 1 .. Len(to_host')
      PROVE  LET capture == to_host'[i] IN
             /\ capture.generation <= generation'
             /\ published'[capture.generation] # NoConfig
             /\ capture.epoch = published'[capture.generation].epoch
  <2>1. ASSUME NEW j \in 1 .. Len(to_host), to_host'[i] = to_host[j]
        PROVE  LET capture == to_host'[i] IN
               /\ capture.generation <= generation'
               /\ published'[capture.generation] # NoConfig
               /\ capture.epoch = published'[capture.generation].epoch
    <3>0. to_host[j] \in Captures
      BY <1>0
    <3>1. to_host[j].generation \in 0 .. GenMax /\ to_host[j].generation <= generation
      BY <1>0, <3>0 DEF Captures, EmittedInv
    <3> QED
      BY <1>0, <2>1, <3>1 DEF EmittedInv
  <2>2. ASSUME NEW t \in Threads, pc[t] = "send", to_host'[i] = Capture(t)
        PROVE  LET capture == to_host'[i] IN
               /\ capture.generation <= generation'
               /\ published'[capture.generation] # NoConfig
               /\ capture.epoch = published'[capture.generation].epoch
    <3>1. /\ gen[t] \in 0 .. GenMax /\ gen[t] <= generation
          /\ published[gen[t]] # NoConfig /\ held[t] = published[gen[t]].epoch
      BY <2>2, EmitsOwn
    <3>2. to_host'[i].generation = gen[t] /\ to_host'[i].epoch = held[t]
      BY <2>2 DEF Capture
    <3> QED
      BY <1>0, <3>1, <3>2
  <2> QED
    BY <2>1, <2>2, CapturesInFlight
<1>3. \A c \in captured' : c.generation <= generation'
  <2>1. \A c \in captured : c.generation \in Int /\ c.generation <= generation
    BY <1>0 DEF EmittedInv
  <2>2. to_host # <<>> => Head(to_host).generation \in Int /\ Head(to_host).generation <= generation
    <3>1. to_host # <<>> => 1 \in 1 .. Len(to_host) /\ Head(to_host) = to_host[1] /\ to_host[1] \in Captures
      BY <1>0
    <3> QED
      BY <1>0, <3>1 DEF EmittedInv, Captures
  <2> QED
    BY <1>0, <2>1, <2>2, EmittedEffects
<1> QED
  BY <1>1, <1>2, <1>3 DEF EmittedInv

LEMMA OwnConfigurationStep ==
    ASSUME IInv, [Next]_vars
    PROVE  OwnConfiguration'
<1>0. /\ OwnConfiguration /\ \A g \in 0 .. GenMax : g <= generation => published'[g] = published[g]
      /\ \A r \in pushed : r.generation \in 0 .. GenMax /\ r.generation <= generation
  <2>1. \A g \in 0 .. GenMax : g <= generation => published'[g] = published[g]
    BY GenerationStep, WidthAssumption DEF IInv, TypeOK, ControlTypes
  <2> QED
    BY <2>1 DEF IInv, TypeOK, RecordTypes, EmittedInv
<1>1. ASSUME NEW t \in Threads, Push(t)
      PROVE  LET config == published'[Record(t).generation] IN
             /\ Record(t).mapping = config.mapping
             /\ Record(t).session = config.policy.session
             /\ Record(t).category \in config.policy.mask
  BY <1>0, <1>1, EmitsOwn DEF Push, Record
<1> QED
  BY <1>0, <1>1, EmittedEffects DEF OwnConfiguration

LEMMA CapturedInOwnConfigurationStep ==
    ASSUME IInv, [Next]_vars
    PROVE  CapturedInOwnConfiguration'
<1>0. /\ CapturedInOwnConfiguration
      /\ \A g \in 0 .. GenMax : g <= generation => published'[g] = published[g]
      /\ \A c \in captured : c.generation \in 0 .. GenMax /\ c.generation <= generation
  <2>1. \A g \in 0 .. GenMax : g <= generation => published'[g] = published[g]
    BY GenerationStep, WidthAssumption DEF IInv, TypeOK, ControlTypes
  <2> QED
    BY <2>1 DEF IInv, TypeOK, RecordTypes, EmittedInv
<1>1. CASE /\ to_host # <<>> /\ Current(Head(to_host)) /\ published' = published
           /\ captured' = captured \cup
                 {[generation |-> Head(to_host).generation, mapping |-> host_mapping]}
  <2> DEFINE capture == Head(to_host)
             config == published[capture.generation]
  <2>1. 1 \in 1 .. Len(to_host) /\ capture = to_host[1] /\ capture \in Captures
    BY <1>1 DEF IInv, TypeOK, RecordTypes
  <2>2. /\ capture.generation \in 0 .. GenMax
        /\ config # NoConfig /\ capture.epoch = config.epoch
    BY <2>1 DEF IInv, EmittedInv, Captures
  <2>3. Sent(config)
    BY <2>2 DEF IInv, HostInv
  <2>4. config.mapping = host_mapping
    BY <1>1, <2>2, <2>3 DEF Sent, Current
  <2> QED
    BY <1>0, <1>1, <2>4 DEF CapturedInOwnConfiguration
<1>2. CASE captured' = captured
  BY <1>0, <1>2 DEF CapturedInOwnConfiguration
<1> QED
  BY <1>1, <1>2, EmittedEffects

----------------------------------------------------------------------------
(* A call site's watermark *)

\* The four ways in which a step concerns the claims: a probe takes its site, emits its
\* record, gives its site back, or none of these.
Elsewhere(t) ==
    \A u \in Threads \ {t} : (Holds(u)' <=> Holds(u)) /\ gen'[u] = gen[u] /\ call'[u] = call[u]
Takes(t) ==
    /\ ~ Holds(t) /\ call[t].category \in Categories /\ observed[call[t].category] < gen[t]
    /\ gen'[t] = gen[t] /\ call'[t] = call[t]
    /\ observed' = [observed EXCEPT ![call[t].category] = gen[t]] /\ pushed' = pushed
Emits(t) ==
    Holds(t) /\ ~ Holds(t)' /\ observed' = observed /\ pushed' = pushed \cup {Record(t)}
GivesBack(t) ==
    /\ Holds(t) /\ ~ Holds(t)' /\ pushed' = pushed
    /\ observed' = [observed EXCEPT ![call[t].category] = IF @ = gen[t] THEN gen[t] - 1 ELSE @]
Keeps(t) ==
    /\ Holds(t)' <=> Holds(t)
    /\ Holds(t) => gen'[t] = gen[t] /\ call'[t] = call[t]

LEMMA SiteEffects ==
    ASSUME IInv, NEW t \in Threads, Call(t) \/ Probe(t)
    PROVE  \/ Takes(t) /\ Holds(t)'
           \/ Emits(t) \/ GivesBack(t)
           \/ Keeps(t) /\ observed' = observed /\ pushed' = pushed
<1>0. /\ ThreadTypes /\ CallInv(t) /\ ReadInv(t) /\ ClaimInv
      /\ t \in DOMAIN pc /\ t \in DOMAIN stage /\ t \in DOMAIN gen /\ t \in DOMAIN call
      /\ t \in Surface => t \notin Wasm
  BY ThreadsAssumption DEF IInv, TypeOK, ThreadTypes
<1>1. CASE Finish(t) /\ ~ Holds(t) /\ observed' = observed /\ pushed' = pushed
  <2>1. ~ Holds(t)'
    BY <1>0, <1>1, Finished DEF Holds
  <2> QED
    BY <1>1, <2>1 DEF Keeps
<1>2. CASE Reject(t) /\ Snapped(t) /\ (t \in Surface => Holds(t)) /\ observed' = observed /\ pushed' = pushed
  <2>1. CASE t \in Surface
    <3>1. pc'[t] = "release" /\ UNCHANGED <<call, gen>>
      BY <1>0, <1>2, <2>1 DEF Reject, GoTo
    <3>2. Holds(t)'
      BY <2>1, <3>1 DEF Holds
    <3> QED
      BY <1>2, <2>1, <3>1, <3>2 DEF Keeps
  <2>2. CASE t \notin Surface
    <3>1. ~ Holds(t) /\ Finish(t)
      BY <1>2, <2>2 DEF Holds, Reject
    <3> QED
      BY <1>1, <1>2, <3>1
  <2> QED
    BY <2>1, <2>2
<1>3. CASE Call(t) \/ LoadGeneration(t)
  <2>1. pc[t] \in {"idle", "generation"} /\ observed' = observed /\ pushed' = pushed
    BY <1>3 DEF Call, LoadGeneration, historyVars
  <2>2. \/ Finish(t) \/ pc'[t] = "generation"
        \/ pc'[t] = "load" /\ stage'[t] = "snapshot"
    <3>1. CASE Call(t)
      BY <1>0, <3>1 DEF Call, GoTo
    <3>2. CASE LoadGeneration(t) /\ generation % 2 # 1
      BY <1>0, <3>2 DEF LoadGeneration, GoTo
    <3>3. CASE LoadGeneration(t) /\ generation % 2 = 1
      BY <3>3 DEF LoadGeneration
    <3> QED
      BY <1>3, <3>1, <3>2, <3>3
  <2>3. ~ Holds(t)
    BY <2>1 DEF Holds
  <2>4. CASE pc'[t] = "generation" \/ (pc'[t] = "load" /\ stage'[t] = "snapshot")
    BY <2>1, <2>3, <2>4 DEF Holds, Keeps
  <2> QED
    BY <1>1, <2>1, <2>2, <2>3, <2>4
<1>4. ASSUME NEW f \in Fields, LoadField(t, f)
      PROVE  Keeps(t) /\ observed' = observed /\ pushed' = pushed
  BY <1>4 DEF LoadField, Keeps, Holds, historyVars
<1>5. CASE CheckSnapshot(t)
  <2>1. /\ pc[t] = "load" /\ stage[t] = "snapshot" /\ observed' = observed /\ pushed' = pushed
        /\ Finish(t) \/ (pc'[t] = IF t \in Surface THEN "claim_load" ELSE "transport")
    BY <1>0, <1>5 DEF CheckSnapshot, Loaded, GoTo, historyVars
  <2>2. ~ Holds(t)
    BY <2>1 DEF Holds
  <2>3. CASE pc'[t] = IF t \in Surface THEN "claim_load" ELSE "transport"
    BY <2>1, <2>2, <2>3 DEF Keeps, Holds
  <2> QED
    BY <1>1, <2>1, <2>2, <2>3
<1>6. CASE ClaimLoad(t)
  <2>1. /\ pc[t] = "claim_load" /\ observed' = observed /\ pushed' = pushed
        /\ Finish(t) \/ pc'[t] = "claim"
    BY <1>0, <1>6 DEF ClaimLoad, GoTo, historyVars
  <2> QED
    BY <1>1, <2>1 DEF Keeps, Holds
<1>7. CASE Claim(t)
  <2>1. /\ pc[t] = "claim" /\ pushed' = pushed /\ t \in Surface /\ held[t] < gen[t]
        /\ call[t].category \in Categories
    BY <1>0, <1>7 DEF Claim, CallInv, ReadInv, ClaimInv, historyVars
  <2>2. ~ Holds(t)
    BY <2>1 DEF Holds
  <2>3. CASE ~ (Finish(t) /\ observed' = observed)
    <3>1. /\ observed[call[t].category] = held[t] /\ pc'[t] = "transport"
          /\ observed' = [observed EXCEPT ![call[t].category] = gen[t]]
          /\ gen' = gen /\ call' = call
      BY <1>0, <1>7, <2>3 DEF Claim, GoTo
    <3> QED
      BY <2>1, <2>2, <3>1 DEF Takes, Holds
  <2> QED
    BY <1>1, <2>1, <2>2, <2>3
<1>8. CASE LoadTransport(t)
  <2>1. /\ pc[t] = "transport" /\ observed' = observed /\ pushed' = pushed
        /\ Reject(t) \/ (pc'[t] = "admit" /\ call' = call /\ gen' = gen)
    BY <1>0, <1>8 DEF LoadTransport, GoTo, historyVars
  <2> QED
    BY <1>2, <2>1 DEF Keeps, Holds, Snapped
<1>9. CASE CanAdmitEvent(t)
  <2>1. /\ pc[t] = "admit" /\ observed' = observed /\ pushed' = pushed
        /\ Reject(t) \/ (pc'[t] = "load" /\ stage' = stage /\ call' = call /\ gen' = gen)
    BY <1>0, <1>9 DEF CanAdmitEvent, GoTo, historyVars
  <2>2. t \in Surface => stage[t] = "admit"
    BY <1>0, <2>1 DEF CallInv
  <2> QED
    BY <1>2, <2>1, <2>2 DEF Keeps, Holds, Snapped
<1>10. CASE CheckAdmit(t)
  <2>1. /\ pc[t] = "load" /\ stage[t] \in {"admit", "again"} /\ observed' = observed /\ pushed' = pushed
        /\ Reject(t) \/ (/\ t \in Surface => pc'[t] = "push"
                         /\ call' = call /\ gen' = gen)
    BY <1>0, <1>10 DEF CheckAdmit, Loaded, GoTo, historyVars
  <2>2. t \in Surface => stage[t] = "admit"
    BY <1>0, <2>1 DEF CallInv
  <2> QED
    BY <1>2, <2>1, <2>2 DEF Keeps, Holds, Snapped
<1>11. CASE Push(t)
  <2>1. pc[t] = "push" /\ observed' = observed /\ t \in Surface
    BY <1>0, <1>11 DEF Push, CallInv
  <2>2. CASE Finish(t) /\ pushed' = pushed \cup {Record(t)}
    BY <1>0, <2>1, <2>2, Finished DEF Emits, Holds
  <2>3. CASE Reject(t) /\ pushed' = pushed
    BY <1>2, <2>1, <2>3 DEF Holds, Snapped
  <2> QED
    BY <1>11, <2>2, <2>3 DEF Push, Record
<1>12. CASE Release(t)
  <2>1. pc[t] = "release" /\ Finish(t) /\ pushed' = pushed /\ t \in Surface
    BY <1>0, <1>12 DEF Release, CallInv, historyVars
  <2> QED
    BY <1>0, <1>12, <2>1, Finished DEF Release, GivesBack, Holds
<1>13. CASE RecheckEpoch(t) \/ Send(t)
  <2>1. /\ pc[t] \in {"recheck", "send"} /\ observed' = observed /\ pushed' = pushed
        /\ Finish(t) \/ pc'[t] = "send"
    BY <1>0, <1>13 DEF RecheckEpoch, Send, GoTo, historyVars
  <2> QED
    BY <1>1, <2>1 DEF Keeps, Holds
<1> QED
  BY <1>3, <1>4, <1>5, <1>6, <1>7, <1>8, <1>9, <1>10, <1>11, <1>12, <1>13 DEF Probe

\* What the steps of the claims have in common to start from.
LEMMA SiteFacts ==
    ASSUME IInv
    PROVE  /\ \A c \in Categories : observed[c] \in Nat
           /\ DOMAIN observed = Categories
           /\ \A t \in Threads : gen[t] \in Int /\ Even(gen[t])
           /\ \A t \in Threads : Holds(t) => call[t].category \in Categories
           /\ \A r \in pushed : r.category \in Categories /\ r.generation \in Int
<1>0. GenMax \in Nat
  BY WidthAssumption
<1>1. /\ observed \in [Categories -> 0 .. GenMax] /\ gen \in [Threads -> 0 .. GenMax]
      /\ pushed \subseteq [by : Surface, nth : Nat, session : Sessions, category : Categories,
                           generation : 0 .. GenMax, mapping : 1 .. MaxStarts]
  BY DEF IInv, TypeOK, ThreadTypes, RecordTypes
<1>2. \A t \in Threads : ReadInv(t)
  BY DEF IInv
<1>3. \A t \in Threads : Holds(t) => call[t].category \in Categories
  BY <1>2 DEF Holds, ReadInv
<1>4. \A t \in Threads : Even(gen[t])
  BY <1>2 DEF ReadInv
<1> QED
  BY <1>0, <1>1, <1>3, <1>4

LEMMA SiteSteps ==
    ASSUME IInv, [Next]_vars
    PROVE  \/ (\A t \in Threads : Keeps(t)) /\ observed' = observed /\ pushed' = pushed
           \/ \E t \in Threads : Elsewhere(t) /\ ((Takes(t) /\ Holds(t)') \/ Emits(t) \/ GivesBack(t))
<1>1. ASSUME NEW t \in Threads, Call(t) \/ Probe(t)
      PROVE  \/ (\A u \in Threads : Keeps(u)) /\ observed' = observed /\ pushed' = pushed
             \/ Elsewhere(t) /\ ((Takes(t) /\ Holds(t)') \/ Emits(t) \/ GivesBack(t))
  <2>1. Elsewhere(t)
    BY <1>1, OtherProbes DEF Elsewhere, Holds, IInv, TypeOK
  <2>2. \A u \in Threads \ {t} : Keeps(u)
    BY <2>1 DEF Elsewhere, Keeps
  <2> QED
    BY <1>1, <2>1, <2>2, SiteEffects
<1>2. CASE UNCHANGED <<observed, threadVars, pushed>>
  BY <1>2 DEF threadVars, Keeps, Holds
<1>3. UNCHANGED <<observed, threadVars, pushed>> \/ \E t \in Threads : Call(t) \/ Probe(t)
  BY BrowserFrame, ControlFrame DEF Next, vars, threadVars, historyVars
<1> QED
  BY <1>1, <1>2, <1>3

LEMMA ObservedOnceStep ==
    ASSUME IInv, [Next]_vars
    PROVE  ObservedOnce'
<1>0. /\ \A r \in pushed : r.category \in Categories /\ r.generation \in Int
      /\ \A c \in Categories : observed[c] \in Nat
      /\ DOMAIN observed = Categories
      /\ \A t \in Threads : gen[t] \in Int
      /\ \A t \in Threads : Holds(t) => call[t].category \in Categories
  BY SiteFacts
<1>1. ObservedOnce /\ \A t \in Threads : HolderInv(t)
  BY DEF IInv, ClaimInv
<1>2. ASSUME NEW t \in Threads, Takes(t)
      PROVE  ObservedOnce'
  BY <1>0, <1>1, <1>2 DEF ObservedOnce, Takes
<1>3. ASSUME NEW t \in Threads, Emits(t)
      PROVE  ObservedOnce'
  <2>1. /\ Record(t).category = call[t].category /\ Record(t).generation = gen[t]
        /\ gen[t] <= observed[call[t].category]
        /\ \A r \in pushed : r.category = call[t].category => r.generation # gen[t]
    BY <1>1, <1>3 DEF Emits, HolderInv, Record
  <2> QED
    BY <1>1, <1>3, <2>1 DEF ObservedOnce, Emits
<1>4. ASSUME NEW t \in Threads, GivesBack(t)
      PROVE  ObservedOnce'
  <2>1. \A r \in pushed : r.category = call[t].category => r.generation # gen[t]
    BY <1>1, <1>4 DEF GivesBack, HolderInv
  <2> QED
    BY <1>0, <1>1, <1>4, <2>1 DEF ObservedOnce, GivesBack
<1>5. CASE observed' = observed /\ pushed' = pushed
  BY <1>1, <1>5 DEF ObservedOnce
<1> QED
  BY <1>2, <1>3, <1>4, <1>5, SiteSteps

LEMMA ClaimAccountedStep ==
    ASSUME IInv, [Next]_vars
    PROVE  ClaimAccounted'
<1>0. /\ \A c \in Categories : observed[c] \in Nat
      /\ DOMAIN observed = Categories
      /\ \A t \in Threads : gen[t] \in Int /\ gen[t] % 2 = 0
      /\ \A t \in Threads : Holds(t) => call[t].category \in Categories
  BY SiteFacts DEF Even
<1>1. ClaimAccounted
  BY DEF IInv
<1> SUFFICES ASSUME NEW c \in Categories, observed'[c] # 0, observed'[c] % 2 = 0
             PROVE  \/ \E r \in pushed' : r.category = c /\ r.generation = observed'[c]
                    \/ \E t \in Threads : Holds(t)' /\ call'[t].category = c /\ gen'[t] = observed'[c]
  BY DEF ClaimAccounted
<1>2. ASSUME NEW t \in Threads, Elsewhere(t), Takes(t), Holds(t)'
      PROVE  \/ \E r \in pushed' : r.category = c /\ r.generation = observed'[c]
             \/ \E u \in Threads : Holds(u)' /\ call'[u].category = c /\ gen'[u] = observed'[c]
  <2>1. CASE c = call[t].category
    BY <1>0, <1>2, <2>1 DEF Takes
  <2>2. CASE c # call[t].category
    BY <1>0, <1>1, <1>2, <2>2 DEF Takes, Elsewhere, ClaimAccounted
  <2> QED
    BY <2>1, <2>2
<1>3. ASSUME NEW t \in Threads, Elsewhere(t), Emits(t)
      PROVE  \/ \E r \in pushed' : r.category = c /\ r.generation = observed'[c]
             \/ \E u \in Threads : Holds(u)' /\ call'[u].category = c /\ gen'[u] = observed'[c]
  <2>1. Record(t).category = call[t].category /\ Record(t).generation = gen[t]
    BY DEF Record
  <2> QED
    BY <1>1, <1>3, <2>1 DEF Emits, Elsewhere, ClaimAccounted
<1>4. ASSUME NEW t \in Threads, Elsewhere(t), GivesBack(t)
      PROVE  \/ \E r \in pushed' : r.category = c /\ r.generation = observed'[c]
             \/ \E u \in Threads : Holds(u)' /\ call'[u].category = c /\ gen'[u] = observed'[c]
  <2>1. (gen[t] - 1) % 2 # 0
    BY <1>0
  <2>2. observed'[c] = observed[c] /\ (c = call[t].category => observed[c] # gen[t])
    BY <1>0, <1>4, <2>1 DEF GivesBack
  <2> QED
    BY <1>1, <1>4, <2>2 DEF GivesBack, Elsewhere, ClaimAccounted
<1>5. CASE (\A t \in Threads : Keeps(t)) /\ observed' = observed /\ pushed' = pushed
  BY <1>1, <1>5 DEF Keeps, ClaimAccounted
<1> QED
  BY <1>2, <1>3, <1>4, <1>5, SiteSteps

LEMMA HolderInvStep ==
    ASSUME IInv, [Next]_vars, NEW u \in Threads
    PROVE  HolderInv(u)'
<1>0. /\ \A r \in pushed : r.category \in Categories /\ r.generation \in Int
      /\ \A c \in Categories : observed[c] \in Nat
      /\ DOMAIN observed = Categories
      /\ \A t \in Threads : gen[t] \in Int
      /\ \A t \in Threads : Holds(t) => call[t].category \in Categories
  BY SiteFacts
<1>1. ObservedOnce /\ \A t \in Threads : HolderInv(t)
  BY DEF IInv, ClaimInv
<1>2. ASSUME NEW t \in Threads, Elsewhere(t), Takes(t), Holds(t)'
      PROVE  HolderInv(u)'
  <2>1. CASE u = t
    <3>1. /\ gen[t] # 0 /\ gen[t] <= gen[t] /\ observed'[call[t].category] = gen[t]
          /\ gen'[t] = gen[t] /\ call'[t] = call[t] /\ pushed' = pushed
      BY <1>0, <1>2 DEF Takes
    <3>2. ASSUME NEW w \in Threads \ {t}, Holds(w)', call'[w].category = call[t].category
          PROVE  gen'[w] # gen[t]
      BY <1>0, <1>1, <1>2, <3>2 DEF HolderInv, Takes, Elsewhere
    <3>3. \A r \in pushed : r.category = call[t].category => r.generation # gen[t]
      BY <1>0, <1>1, <1>2 DEF ObservedOnce, Takes
    <3> QED
      BY <2>1, <3>1, <3>2, <3>3, SMT DEF HolderInv
  <2>2. CASE u # t
    BY <1>0, <1>1, <1>2, <2>2 DEF HolderInv, Takes, Elsewhere
  <2> QED
    BY <2>1, <2>2
<1>3. ASSUME NEW t \in Threads, Elsewhere(t), Emits(t)
      PROVE  HolderInv(u)'
  <2>1. Record(t).category = call[t].category /\ Record(t).generation = gen[t]
    BY DEF Record
  <2>2. CASE u = t
    BY <1>3, <2>2 DEF HolderInv, Emits
  <2>3. CASE u # t
    BY <1>1, <1>3, <2>1, <2>3 DEF HolderInv, Emits, Elsewhere
  <2> QED
    BY <2>2, <2>3
<1>4. ASSUME NEW t \in Threads, Elsewhere(t), GivesBack(t)
      PROVE  HolderInv(u)'
  <2>1. CASE u = t
    BY <1>4, <2>1 DEF HolderInv, GivesBack
  <2>2. CASE u # t
    BY <1>0, <1>1, <1>4, <2>2 DEF HolderInv, GivesBack, Elsewhere
  <2> QED
    BY <2>1, <2>2
<1>5. CASE (\A t \in Threads : Keeps(t)) /\ observed' = observed /\ pushed' = pushed
  BY <1>1, <1>5 DEF Keeps, HolderInv
<1> QED
  BY <1>2, <1>3, <1>4, <1>5, SiteSteps

LEMMA ClaimInvStep ==
    ASSUME IInv, [Next]_vars
    PROVE  ClaimInv'
<1> SUFFICES ASSUME NEW u \in Threads PROVE pc'[u] = "claim" => held'[u] < gen'[u]
  BY HolderInvStep DEF ClaimInv
<1>0. ThreadTypes /\ ReadInv(u) /\ (pc[u] = "claim" => held[u] < gen[u])
  BY DEF IInv, TypeOK, ClaimInv
<1>1. CASE UNCHANGED threadVars
  BY <1>0, <1>1 DEF threadVars
<1>2. ASSUME NEW t \in Threads, Call(t) \/ Probe(t), t # u
      PROVE  pc'[u] = "claim" => held'[u] < gen'[u]
  BY <1>0, <1>2, OtherProbes
<1>3. ASSUME Call(u) \/ Probe(u), pc'[u] = "claim"
      PROVE  held'[u] < gen'[u]
  <2>1. ClaimLoad(u)
    <3>1. ~ Finish(u) /\ ~ Reject(u)
      BY <1>0, <1>3, Finished, Rejected
    <3>2. ~ (Call(u) \/ LoadGeneration(u) \/ CheckSnapshot(u) \/ Claim(u) \/ LoadTransport(u)
             \/ CanAdmitEvent(u) \/ CheckAdmit(u) \/ Push(u) \/ Release(u) \/ RecheckEpoch(u)
             \/ Send(u))
      BY <1>0, <1>3, <3>1 DEF Call, LoadGeneration, CheckSnapshot, Claim, LoadTransport,
         CanAdmitEvent, CheckAdmit, Push, Release, RecheckEpoch, Send, GoTo, ThreadTypes
    <3>3. \A f \in Fields : ~ LoadField(u, f)
      BY <1>3 DEF LoadField
    <3> QED
      BY <1>3, <3>2, <3>3 DEF Probe
  <2>2. /\ ~ (observed[call[u].category] >= gen[u])
        /\ held'[u] = observed[call[u].category] /\ gen'[u] = gen[u]
    BY <1>0, <1>3, <2>1, Finished DEF ClaimLoad, ThreadTypes
  <2>3. observed[call[u].category] \in Int /\ gen[u] \in Int
    BY <1>0, <2>1, SiteFacts DEF ClaimLoad, ReadInv
  <2> QED
    BY <2>2, <2>3
<1>4. UNCHANGED threadVars \/ \E t \in Threads : Call(t) \/ Probe(t)
  BY BrowserFrame, ControlFrame DEF Next, vars, threadVars
<1> QED
  BY <1>1, <1>2, <1>3, <1>4

----------------------------------------------------------------------------
(* The theorems *)

\* The inductive invariant: what the control sequence, the pipes, the sink, every probe and
\* every site's watermark have in common in each state of SetEmitters and of the probes.
THEOREM InvCorrect == Spec => []IInv
<1>1. Init => IInv
  BY InitInv
<1>2. IInv /\ [Next]_vars => IInv'
  <2> SUFFICES ASSUME IInv, [Next]_vars PROVE IInv'
    OBVIOUS
  <2>1. TypeOK'
    BY HostTypesStep, ControlTypesStep, ThreadTypesStep, RecordTypesStep DEF TypeOK
  <2>2. HostInv' /\ PhaseInv' /\ PublishedInv' /\ SinkInv'
    BY HostInvStep, PhaseInvStep, PublishedInvStep, SinkInvStep
  <2>3. (\A t \in Threads : ReadInv(t) /\ CallInv(t))' /\ NoMixedPolicy'
    BY ReadInvStep, CallInvStep, NoMixedPolicyStep
  <2>4. EmittedInv' /\ OwnConfiguration' /\ CapturedInOwnConfiguration'
    BY EmittedInvStep, OwnConfigurationStep, CapturedInOwnConfigurationStep
  <2>5. ClaimInv' /\ ObservedOnce' /\ ClaimAccounted'
    BY ClaimInvStep, ObservedOnceStep, ClaimAccountedStep
  <2> QED
    BY <2>1, <2>2, <2>3, <2>4, <2>5 DEF IInv
<1> QED
  BY <1>1, <1>2, PTL DEF Spec

\* Every state is well typed, every site's watermark is a claim in flight, an accepted record
\* or given back, and no site is observed twice in one configuration.
THEOREM ConsistentCorrect == Spec => []Consistent
<1>1. IInv => Consistent
  BY DEF IInv, Consistent
<1> QED
  BY <1>1, InvCorrect, PTL

\* The seqlock around the relaxed policy fields (SetEmitters, Snapshot, CanAdmitEvent): what
\* a probe accepts is one configuration's policy, whatever order the fields are stored in.
THEOREM NoMixedPolicyCorrect == Spec => []NoMixedPolicy
<1>1. IInv => NoMixedPolicy
  BY DEF IInv
<1> QED
  BY <1>1, InvCorrect, PTL

\* EmitEvent pushes into the mapping it loaded before it validated the generation: the
\* record lies in the mapping of the configuration that admitted it and asked for it.
THEOREM OwnConfigurationCorrect == Spec => []OwnConfiguration
<1>1. IInv => OwnConfiguration
  BY DEF IInv
<1> QED
  BY <1>1, InvCorrect, PTL

\* CaptureWasmDispatch compares epochs: a capture the host takes was admitted under the
\* configuration the host holds, the counter's end included.
THEOREM CapturedInOwnConfigurationCorrect == Spec => []CapturedInOwnConfiguration
<1>1. IInv => CapturedInOwnConfiguration
  BY DEF IInv
<1> QED
  BY <1>1, InvCorrect, PTL

\* config_generation_ only advances and SetEmitters publishes no generation twice, at the end
\* of the counter's width included.
THEOREM GenerationNeverReusedCorrect == Spec => GenerationNeverReused
<1> DEFINE Step == /\ generation <= generation'
                   /\ \A g \in 0 .. GenMax : published'[g] # published[g] => generation < g
<1>1. IInv /\ [Next]_vars => [Step]_vars
  BY GenerationStep
<1> QED
  BY <1>1, InvCorrect, PTL DEF Spec, GenerationNeverReused
=============================================================================
