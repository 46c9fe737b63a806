------------------------------ MODULE EventPoll ------------------------------
(***************************************************************************)
(* The research UI's evidence poll: the 2 s read of the event window, Stop *)
(* and Clear, and the reads of the selected request's signal profile and   *)
(* origin trace that hang on them.  The backend records, forgets, stops    *)
(* and clears meanwhile; answers are late, refused, unusable or never      *)
(* come.  A JavaScript task between two awaits is one action, and an       *)
(* AbortSignal deadline is a failure that may come at any time.  An event  *)
(* stands for its identity, its request and its rank in that request; what *)
(* a read answers is reduced to whose it is.                               *)
(***************************************************************************)
EXTENDS Naturals, FiniteSets

CONSTANTS Events, Requests,
          NoRequest,
          RequestOf,    \* the request an event belongs to
          Early,        \* the events recorded before the page opens
          Rank,         \* request_started before request_initiated before the others
          MaxVersion,   \* bound: states of the backend's evidence
          MaxActions,   \* bound: capture actions the user starts
          MaxFailures,  \* bound: reads that fail
          MaxChoices    \* bound: selections and trace reads by the user

ASSUME PollAssumption ==
    /\ NoRequest \notin Requests
    /\ RequestOf \in [Events -> Requests]
    /\ Rank \in [Events -> 0..2]
    /\ Early \subseteq Events
    /\ {MaxVersion, MaxActions, MaxFailures, MaxChoices} \subseteq Nat /\ MaxVersion >= 1

VARIABLES
    backend,    \* the capture's version, recorded and retained events, and phase
    page,       \* the page's state object
    poll,       \* refresh: what it awaits
    action,     \* performCaptureAction: the post it awaits
    posts,      \* capture actions the backend has not answered
    chain,      \* refreshPollDependents: the read it awaits
    reads,      \* refreshRequestSignalProfile and refreshOriginTrace calls in flight
    counts,     \* bounds: actions, failures and choices so far
    acked       \* the evidence the last acknowledged capture action left

vars == <<backend, page, poll, action, posts, chain, reads, counts, acked>>

Kinds == {"profile", "trace"}
NoKey == <<>>
NoTag == 0
NoAction == 0
Idle == [at |-> "idle"]
EmptyView == [data |-> NoKey, key |-> NoKey, tag |-> FALSE]
Reset == [kind \in Kinds |-> EmptyView]

Init ==
    /\ backend = [version |-> 1, recorded |-> Early, window |-> Early, phase |-> "running"]
    /\ page = [window |-> {}, tag |-> NoTag, connection |-> "connecting", controls |-> FALSE,
               stopped |-> FALSE, selected |-> NoRequest, views |-> Reset]
    /\ poll = Idle
    /\ action = NoAction
    /\ posts = {}
    /\ chain = "idle"
    /\ reads = {}
    /\ counts = [actions |-> 0, failures |-> 0, choices |-> 0]
    /\ acked = 1

-----------------------------------------------------------------------------
\* The backend.  Running: the broker runs, so evidence is recorded and may not
\* be cleared.  An exit is terminal.
BrokerRunning == backend.phase \in {"running", "stopping"}

Becomes(b) ==
    /\ backend.version < MaxVersion
    /\ backend' = [b EXCEPT !.version = @ + 1]

Record(e) ==
    /\ BrokerRunning /\ e \notin backend.recorded
    /\ Becomes([backend EXCEPT !.recorded = @ \union {e}, !.window = @ \union {e}])
    /\ UNCHANGED <<page, poll, action, posts, chain, reads, counts, acked>>

Forget(e) ==
    /\ BrokerRunning /\ e \in backend.window
    /\ Becomes([backend EXCEPT !.window = @ \ {e}])
    /\ UNCHANGED <<page, poll, action, posts, chain, reads, counts, acked>>

BrokerExits(phase) ==
    /\ BrokerRunning /\ phase \in {"stopped", "ended"}
    /\ phase = "stopped" => backend.phase = "stopping"
    /\ Becomes([backend EXCEPT !.phase = phase])
    /\ UNCHANGED <<page, poll, action, posts, chain, reads, counts, acked>>

\* One capture action at a time holds the capture lock.
LockFree == \A p \in posts : p.at # "waiting"

Answered(p, reply) ==
    posts' = (posts \ {p}) \union
        (IF p.id = action THEN {[p EXCEPT !.at = reply, !.left = backend'.version,
                                    !.stopped = backend'.phase = "stopped"]} ELSE {})
Acknowledges(p) == Answered(p, "done")
Refuses(p) == Answered(p, "refused")

\* Stop signals a running broker once and waits for its exit.
RequestStop(p) ==
    /\ p.kind = "stop" /\ p.at = "sent" /\ LockFree
    /\ \/ /\ BrokerRunning
          /\ IF backend.phase = "stopping" THEN UNCHANGED backend
             ELSE Becomes([backend EXCEPT !.phase = "stopping"])
          /\ posts' = (posts \ {p}) \union {[p EXCEPT !.at = "waiting"]}
       \/ backend.phase = "stopped" /\ UNCHANGED backend /\ Acknowledges(p)
       \/ backend.phase = "ended" /\ UNCHANGED backend /\ Refuses(p)
    /\ UNCHANGED <<page, poll, action, chain, reads, counts, acked>>

\* A stop whose broker exits, however it does, has succeeded; past 5 s it is refused.
StopAnswered(p) ==
    /\ p.kind = "stop" /\ p.at = "waiting"
    /\ UNCHANGED backend /\ IF BrokerRunning THEN Refuses(p) ELSE Acknowledges(p)
    /\ UNCHANGED <<page, poll, action, chain, reads, counts, acked>>

ClearStores(p) ==
    /\ p.kind = "clear" /\ p.at = "sent" /\ LockFree
    /\ IF BrokerRunning THEN UNCHANGED backend /\ Refuses(p)
       ELSE Becomes([backend EXCEPT !.window = {}]) /\ Acknowledges(p)
    /\ UNCHANGED <<page, poll, action, chain, reads, counts, acked>>

-----------------------------------------------------------------------------
\* The rows the window's events make, and the event a row is read by.
requestsFromEvents(window) == {RequestOf[e] : e \in window}

requestRootEvent(window, r) ==
    CHOOSE e \in window : RequestOf[e] = r /\ \A f \in window :
        RequestOf[f] = r => Rank[e] >= Rank[f]

\* The exact request event the selection stands for.
Selection(p) ==
    IF p.selected \in requestsFromEvents(p.window)
    THEN <<p.selected, requestRootEvent(p.window, p.selected)>> ELSE NoKey

\* A new generation.  A read of the old one changes no view when it ends, so
\* only one that the chain awaits is kept.
Superseded(kinds) ==
    {[r EXCEPT !.current = @ /\ r.kind \notin kinds] : r \in {q \in reads : q.kind \notin kinds \/ q.chained}}

Read(p, kind, chained) ==
    {[kind |-> kind, current |-> TRUE, key |-> Selection(p), chained |-> chained,
      tagged |-> p.views[kind].key = Selection(p) /\ p.views[kind].tag]}

\* The profile view at the start of a read: only the selection's own is kept.
Owned(p) == IF p.views["profile"].key = Selection(p) THEN p.views["profile"] ELSE EmptyView

refreshRequestSignalProfile(p, ended) ==
    LET start(view) == [p EXCEPT !.views["profile"] = view] IN
    IF Selection(p) = NoKey
    THEN page' = start(EmptyView) /\ reads' = Superseded(ended)
    ELSE /\ page' = start(Owned(p))
         /\ reads' = Superseded(ended) \union Read(p, "profile", TRUE)

Choose == counts.choices < MaxChoices /\ counts' = [counts EXCEPT !.choices = @ + 1]

selectRequest(r) ==
    LET p == [page EXCEPT !.selected = r, !.views = Reset] IN
    /\ Choose
    /\ r \in requestsFromEvents(page.window)
    /\ page' = p
    /\ reads' = Superseded(Kinds) \union Read(p, "profile", FALSE)
    /\ UNCHANGED <<backend, poll, action, posts, chain, acked>>

\* The trace of the selected request is read when the user asks for it.
refreshOriginTrace ==
    /\ Choose
    /\ page.selected # NoRequest
    /\ reads' = Superseded({"trace"}) \union Read(page, "trace", FALSE)
    /\ UNCHANGED <<backend, page, poll, action, posts, chain, acked>>

\* Mutant: only the generation is compared, not the selected request event.
Bug_OwnsSelection_AnyRoot(r) == TRUE

\* A current read still owns the selection it was made for.
ownsSelection(r) == Selection(page) = r.key

\* What a current read leaves in its view: not modified, none retained, an
\* answer for exactly its selection, or a failure.  A failed profile read drops
\* its tag; a failed trace read keeps trace and tag.
Unmodified(r) == page.views[r.kind]
NotFound(r) == [data |-> NoKey, key |-> r.key, tag |-> TRUE]
Ready(r) == [data |-> r.key, key |-> r.key, tag |-> TRUE]
Failed(r) == [page.views[r.kind] EXCEPT !.tag = @ /\ r.kind = "trace"]

\* A read that lost its selection empties the view, and its generation ends.
ReadEnds(r, view) ==
    /\ reads' = reads \ {r}
    /\ chain' = IF r.chained THEN "rest" ELSE chain
    /\ page' = IF ~r.current THEN page
               ELSE IF ownsSelection(r) THEN [page EXCEPT !.views[r.kind] = view]
               ELSE [page EXCEPT !.views[r.kind] = EmptyView]
    /\ UNCHANGED <<backend, poll, action, posts, acked>>

ReadAnswered(r) ==
    /\ \/ ReadEnds(r, Ready(r))
       \/ r.tagged /\ ReadEnds(r, Unmodified(r))
       \/ r.kind = "profile" /\ ReadEnds(r, NotFound(r))
    /\ UNCHANGED counts

ReadFails(r) ==
    /\ counts.failures < MaxFailures
    /\ counts' = [counts EXCEPT !.failures = @ + 1]
    /\ ReadEnds(r, Failed(r))

-----------------------------------------------------------------------------
\* Mutant: the reads follow only a poll that changed the window.
Bug_RefreshPollDependents_ChangedOnly(p, ended) ==
    IF chain # "idle" \/ p = page THEN page' = p /\ chain' = chain /\ reads' = Superseded(ended)
    ELSE /\ chain' = IF Selection(p) = NoKey THEN "rest" ELSE "profile"
         /\ refreshRequestSignalProfile(p, ended \union {"profile"})

\* Signal profile, artifact and VM reads follow a valid poll as one chain; a
\* later poll neither waits for a running chain nor restarts it.
refreshPollDependents(p, ended) ==
    IF chain # "idle" THEN page' = p /\ chain' = chain /\ reads' = Superseded(ended)
    ELSE /\ chain' = IF Selection(p) = NoKey THEN "rest" ELSE "profile"
         /\ refreshRequestSignalProfile(p, ended \union {"profile"})

\* The artifact and VM reads of the chain end.
ChainEnds ==
    /\ chain = "rest"
    /\ chain' = "idle"
    /\ UNCHANGED <<backend, page, poll, action, posts, reads, counts, acked>>

-----------------------------------------------------------------------------
\* Mutant: a poll is stale only while an action is awaited.
Bug_Stale_ActionOnly == action # NoAction

\* A capture action is awaited, or started or ended since the poll began.
Stale == action # NoAction \/ poll.overlapped

\* A poll read begins.
Asking == [at |-> "asking", overlapped |-> action # NoAction, match |-> page.tag]

refresh ==
    /\ poll = Idle
    /\ poll' = Asking
    /\ UNCHANGED <<backend, page, action, posts, chain, reads, counts, acked>>

\* The backend reads the tag and the capture's phase, then the window.
TagRead ==
    /\ poll.at = "asking"
    /\ poll' = IF poll.match = backend.version
               THEN [at |-> "unchanged", overlapped |-> poll.overlapped]
               ELSE [at |-> "reading", overlapped |-> poll.overlapped,
                     tag |-> backend.version, phase |-> backend.phase]
    /\ UNCHANGED <<backend, page, action, posts, chain, reads, counts, acked>>

\* Mutant: the tag is computed after the window.
Bug_WindowAnswer_LateTag ==
    [at |-> "window", overlapped |-> poll.overlapped, tag |-> backend.version,
     phase |-> poll.phase, window |-> backend.window]

WindowAnswer ==
    [at |-> "window", overlapped |-> poll.overlapped, tag |-> poll.tag,
     phase |-> poll.phase, window |-> backend.window]

WindowRead ==
    /\ poll.at = "reading"
    /\ poll' = WindowAnswer
    /\ UNCHANGED <<backend, page, action, posts, chain, reads, counts, acked>>

\* A stale poll changes nothing and is read again: by itself, or by the action
\* that still runs when that ends.
PollDiscarded ==
    /\ poll # Idle /\ Stale
    /\ poll' = IF action = NoAction THEN Asking ELSE Idle
    /\ UNCHANGED <<backend, page, action, posts, chain, reads, counts, acked>>

PollUnchanged ==
    /\ poll.at = "unchanged" /\ ~Stale
    /\ poll' = Idle
    /\ refreshPollDependents(page, {})
    /\ UNCHANGED <<backend, action, posts, counts, acked>>

\* Mutant: the selection of a request that left the window keeps its views.
Bug_WithoutDeparted_ViewsKept(p) ==
    IF p.selected \in {NoRequest} \union requestsFromEvents(p.window) THEN p ELSE [p EXCEPT !.selected = NoRequest]

\* A selection whose request left the window is reset.
WithoutDeparted(p) ==
    IF p.selected \in {NoRequest} \union requestsFromEvents(p.window) THEN p
    ELSE [p EXCEPT !.selected = NoRequest, !.views = Reset]

Admitted(answer) ==
    [page EXCEPT !.window = answer.window, !.tag = answer.tag, !.controls = TRUE,
        !.stopped = answer.phase = "stopped",
        !.connection = IF answer.phase \in {"running", "stopping"} THEN "connected" ELSE "broker-offline"]

\* resetRequestSelection ends the generations of both reads.
PollAdmitted ==
    LET p == WithoutDeparted(Admitted(poll)) IN
    /\ poll.at = "window" /\ ~Stale
    /\ poll' = Idle
    /\ refreshPollDependents(p, IF p.selected # page.selected THEN Kinds ELSE {})
    /\ UNCHANGED <<backend, action, posts, counts, acked>>

\* Mutant: a failed poll keeps its tag.
Bug_Disconnected_TagKept == [page EXCEPT !.connection = "failed", !.controls = FALSE]

Disconnected == [page EXCEPT !.tag = NoTag, !.connection = "failed", !.controls = FALSE]

\* Unreachable, malformed, or no answer within 10 s.
PollFails ==
    /\ poll # Idle /\ ~Stale
    /\ counts.failures < MaxFailures
    /\ counts' = [counts EXCEPT !.failures = @ + 1]
    /\ poll' = Idle
    /\ page' = Disconnected
    /\ UNCHANGED <<backend, action, posts, chain, reads, acked>>

-----------------------------------------------------------------------------
CanAct(kind) ==
    /\ action = NoAction /\ page.controls
    /\ kind = "stop" => ~page.stopped /\ page.connection = "connected"
    /\ kind = "clear" => page.window # {} /\ (page.connection = "connected" => page.stopped)

Overlapped == IF poll = Idle THEN poll ELSE [poll EXCEPT !.overlapped = TRUE]

performCaptureAction(kind) ==
    LET id == counts.actions + 1 IN
    /\ CanAct(kind) /\ id <= MaxActions
    /\ action' = id
    /\ posts' = posts \union {[id |-> id, kind |-> kind, at |-> "sent", left |-> 0, stopped |-> FALSE]}
    /\ poll' = Overlapped
    /\ counts' = [counts EXCEPT !.actions = id]
    /\ UNCHANGED <<backend, page, chain, reads, acked>>

\* The action ends and polls at once, unless a poll is awaited.
ActionEnds == action' = NoAction /\ poll' = IF poll = Idle
    THEN [at |-> "asking", overlapped |-> FALSE, match |-> page'.tag] ELSE Overlapped

\* A success drops the tag; after Clear the profile goes, not its read.
ActionAcknowledged(p) ==
    /\ p.id = action /\ p.at = "done"
    /\ page' = [page EXCEPT !.tag = NoTag, !.stopped = p.stopped,
            !.views["profile"] = IF p.kind = "clear"
                THEN [@ EXCEPT !.data = NoKey, !.key = NoKey, !.tag = FALSE] ELSE @]
    /\ acked' = p.left
    /\ posts' = posts \ {p}
    /\ ActionEnds
    /\ UNCHANGED <<backend, chain, reads, counts>>

ActionRefused(p) ==
    /\ p.id = action /\ p.at = "refused"
    /\ posts' = posts \ {p}
    /\ UNCHANGED page
    /\ ActionEnds
    /\ UNCHANGED <<backend, chain, reads, counts, acked>>

\* No answer within 15 s: the outcome is unknown, and the post may still be handled.
ActionTimesOut ==
    /\ action # NoAction
    /\ posts' = {p \in posts : p.at \in {"sent", "waiting"}}
    /\ UNCHANGED page
    /\ ActionEnds
    /\ UNCHANGED <<backend, chain, reads, counts, acked>>
-----------------------------------------------------------------------------
Evidence ==
    \/ \E e \in Events : Record(e) \/ Forget(e)
    \/ \E phase \in {"stopped", "ended"} : BrokerExits(phase)

Handling == \E p \in posts : RequestStop(p) \/ StopAnswered(p) \/ ClearStores(p)

User ==
    \/ \E r \in Requests : selectRequest(r)
    \/ refreshOriginTrace
    \/ \E kind \in {"stop", "clear"} : performCaptureAction(kind)

Acting ==
    \/ \E p \in posts : ActionAcknowledged(p) \/ ActionRefused(p)
    \/ ActionTimesOut

Polling ==
    \/ refresh
    \/ TagRead
    \/ WindowRead
    \/ PollDiscarded
    \/ PollUnchanged
    \/ PollAdmitted

Following ==
    \/ ChainEnds
    \/ \E r \in reads : ReadAnswered(r)

Failing ==
    \/ PollFails
    \/ \E r \in reads : ReadFails(r)

Next == Evidence \/ Handling \/ User \/ Acting \/ Polling \/ Following \/ Failing

\* The timer polls every 2 s, a poll is answered or given up after 10 s and an
\* action after 15 s.  Nobody promises evidence, choices or handling, and the
\* profile and trace reads have no deadline: they may never end.
Fairness == WF_vars(Polling) /\ WF_vars(Acting)

Spec == Init /\ [][Next]_vars /\ Fairness

-----------------------------------------------------------------------------
Keys == {NoKey} \union {<<RequestOf[e], e>> : e \in Events}
Views == [data : Keys, key : Keys, tag : BOOLEAN]
Phases == {"running", "stopping", "stopped", "ended"}
Backends == [version : 1..MaxVersion, recorded : SUBSET Events, window : SUBSET Events, phase : Phases]
Pages == [window : SUBSET Events, tag : 0..MaxVersion, controls : BOOLEAN, stopped : BOOLEAN,
          connection : {"connecting", "connected", "broker-offline", "failed"},
          selected : Requests \union {NoRequest}, views : [Kinds -> Views]]

\* The types; a running action's post is awaited by one action at most, a view
\* holds nothing but the answer for its own key, and one read of a kind is current.
TypeOK ==
    /\ backend \in Backends /\ page \in Pages
    /\ chain \in {"idle", "profile", "rest"}
    /\ acked \in 1..MaxVersion
    /\ \A kind \in Kinds : page.views[kind].data \in {NoKey, page.views[kind].key}
    /\ \A kind \in Kinds : Cardinality({r \in reads : r.kind = kind /\ r.current}) <= 1
    /\ chain = "profile" <=> \E r \in reads : r.chained

\* "A poll that overlapped the action cannot write back the pre-stop state": what
\* a poll shows was read after the last capture action that was acknowledged.
AdmittedAfterActions == [][page'.tag \notin {NoTag, page.tag} => page'.tag >= acked]_vars

\* "304 always follows a valid answer", and that answer is the evidence: while the
\* tag still matches, the page shows the backend's window and connection.
NotModifiedIsCurrent ==
    page.tag = backend.version =>
        /\ page.window = backend.window
        /\ page.connection = IF BrokerRunning THEN "connected" ELSE "broker-offline"
        /\ page.controls

\* A profile or trace appears only for the request event the selection stands for
\* when it appears, however the window moved while it was read.
AnswerOwned ==
    [][\A kind \in Kinds :
        LET shown == page'.views[kind].data IN
        shown \notin {NoKey, page.views[kind].data} => shown = Selection(page')]_vars

\* The profile, which is drawn without comparing keys, is never another request's.
ProfileOfSelected ==
    page.views["profile"].data # NoKey => page.views["profile"].data[1] = page.selected

\* At most one current read of a kind is out, the chained one is counted, and the
\* profile shown is the selected request's.
Consistent == TypeOK /\ ProfileOfSelected

\* When evidence, actions and failures are over the page shows the evidence,
\* even if a read that follows a poll is never answered.
CatchesUp == <>[](page.window = backend.window /\ page.connection \in {"connected", "broker-offline"})

\* No read in flight keeps refreshPollDependents from the reads for good.
ChainReturns == []<>(chain = "idle")

\* And the profile of a selection that lasts is read although its chain was
\* skipped, provided that the reads of the running chain end: a profile read
\* that is never answered stops all later ones.
ProfileCatchesUp ==
    ChainReturns => <>[](Selection(page) # NoKey => page.views["profile"].key = Selection(page))
=============================================================================
