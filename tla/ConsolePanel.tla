---------------------------- MODULE ConsolePanel ----------------------------
(***************************************************************************)
(* The native Console panel of the research UI and the one session its     *)
(* owner, the backend, holds: connecting to a disposable browser or to a   *)
(* live capture document, commands, message polls, document listings, the  *)
(* session watch and Disconnect.  The panel sends one request at a time in *)
(* the order of a queue; what a request was queued for may be gone when    *)
(* its turn comes or its answer arrives.  Other windows end and open       *)
(* sessions, documents close, and requests or answers get lost; what has   *)
(* reached the owner it completes even when its client has gone.           *)
(***************************************************************************)
EXTENDS Naturals, Sequences

CONSTANTS Docs,          \* documents the Console can name; one that closes is gone
          NoDoc,
          Closing,       \* bound: the documents that may close
          MaxSessions,   \* bound: sessions the owner opens
          MaxCommands,   \* bound: commands submitted
          MaxFailures,   \* bound: requests that fail and documents that close
          MaxQueue       \* bound: requests the panel has queued

ASSUME ConsoleAssumption ==
    /\ NoDoc \notin Docs /\ Closing \subseteq Docs
    /\ {MaxSessions, MaxCommands, MaxFailures, MaxQueue} \subseteq Nat

VARIABLES
    owner,      \* the backend: its open session and the documents there are
    opened,     \* sessions the owner has opened, for the next identity
    panel,      \* the panel's session, selection and connection state
    queue,      \* requests in the order they were queued
    head,       \* the request at the head: not begun, sent, or answered
    late,       \* commands the panel has given up and the owner may still run
    listing,    \* refreshLiveDocuments: what its unqueued read answers
    rows,       \* each command's row in the transcript, and whether its result has one
    ran,        \* how often each command was run
    failures    \* bound: requests that failed and documents that closed

vars == <<owner, opened, panel, queue, head, late, listing, rows, ran, failures>>

Commands == 1..MaxCommands
None == 0
Idle == [at |-> "idle"]
Dropped == [at |-> "dropped"]
NoRow == [status |-> "none", session |-> None, target |-> NoDoc, result |-> FALSE]
Closed == [session |-> None, live |-> FALSE, target |-> NoDoc, docs |-> Docs]

Fresh == [session |-> None, live |-> FALSE, known |-> {}, available |-> FALSE, listed |-> {},
          target |-> NoDoc, usable |-> FALSE, consent |-> FALSE, disconnected |-> FALSE,
          submitting |-> FALSE]

-----------------------------------------------------------------------------
\* The owner.  A live session keeps its one document; once that has closed it
\* names none.
Selected == IF owner.target \in owner.docs THEN owner.target ELSE NoDoc

\* A read of it: a disposable session's does not list the capture's documents.
State ==
    LET capture == owner.session = None \/ owner.live IN
    [session |-> owner.session, capture |-> capture,
     docs |-> IF capture THEN owner.docs ELSE {}, selected |-> Selected]

Opens(live, target) ==
    /\ opened' = opened + 1
    /\ owner' = [owner EXCEPT !.session = opened + 1, !.live = live, !.target = target]

DocumentCloses(d) ==
    /\ d \in owner.docs \intersect Closing
    /\ failures < MaxFailures /\ failures' = failures + 1
    /\ owner' = [owner EXCEPT !.docs = @ \ {d}]
    /\ UNCHANGED <<opened, panel, queue, head, late, listing, rows, ran>>

\* Another window or agent disconnects the session, or its browser ends.
SessionEnds ==
    /\ owner.session # None
    /\ owner' = [Closed EXCEPT !.docs = owner.docs]
    /\ UNCHANGED <<opened, panel, queue, head, late, listing, rows, ran, failures>>

\* Another window's connection, or one that this panel has given up.
OtherConnects ==
    /\ owner.session = None /\ opened < MaxSessions
    /\ \E live \in BOOLEAN, target \in owner.docs \union {NoDoc} :
          live = (target # NoDoc) /\ Opens(live, target)
    /\ UNCHANGED <<panel, queue, head, late, listing, rows, ran, failures>>

\* Whether a runtime command of this session runs in the document it names; in
\* any other it answers "stale_target".
RunsIn(t) == t.target \in owner.docs /\ (owner.live => t.target = owner.target)

\* An action of a session is for the session it names; a new session needs that
\* there is none, and its document; Stop is confirmed when there is none already.
Accepts(t) ==
    CASE t.act \in {"start", "connect_live"} ->
            owner.session = None /\ (t.act = "connect_live" => t.target \in owner.docs)
      [] t.act = "stop" -> owner.session \in {None, t.session}
      [] OTHER -> owner.session = t.session

Connects(t) ==
    /\ t.act \in {"start", "connect_live"}
    /\ IF Accepts(t) THEN Opens(t.act = "connect_live", t.target) ELSE UNCHANGED <<owner, opened>>
    /\ UNCHANGED ran

Disconnects(t) ==
    /\ t.act = "stop"
    /\ owner' = IF Accepts(t) THEN [Closed EXCEPT !.docs = owner.docs] ELSE owner
    /\ UNCHANGED <<opened, ran>>

Runs(t) ==
    /\ t.act \in {"targets", "evaluate", "poll"}
    /\ ran' = IF t.act = "evaluate" /\ Accepts(t) /\ RunsIn(t) THEN [ran EXCEPT ![t.cmd] = @ + 1] ELSE ran
    /\ UNCHANGED <<owner, opened>>

Handles(t) == Connects(t) \/ Disconnects(t) \/ Runs(t)

Nothing == [session |-> None, capture |-> FALSE, docs |-> {}, selected |-> NoDoc]
Blank == [at |-> "answered", status |-> "refused", value |-> Nothing]
Listing == [Blank EXCEPT !.status = "ok",
            !.value = [session |-> owner'.session, capture |-> FALSE, docs |-> owner'.docs, selected |-> Selected']]

Reply(t) ==
    IF ~Accepts(t) THEN Blank
    ELSE IF t.act \in {"start", "connect_live", "targets"} THEN Listing
    ELSE [Blank EXCEPT !.status = IF t.act = "stop" \/ RunsIn(t) THEN "ok" ELSE "stale_target"]

\* One action holds the session at a time: another is refused meanwhile.
OwnerHandles ==
    /\ head.at = "sent"
    /\ LET t == Head(queue) IN
       \/ Handles(t) /\ head' = Reply(t)
       \/ late # {} /\ head' = Blank /\ UNCHANGED <<owner, opened, ran>>
    /\ UNCHANGED <<panel, queue, late, listing, rows, failures>>

\* A request is lost on its way, refused by an owner that is busy, or handled
\* after its client has gone; or its answer is lost.  Late, a listing or a
\* poll changes nothing; a connection or Stop is what another window may do.
RequestFails ==
    /\ head.at = "sent" \/ (head.at = "answered" /\ head.status # "refused")
    /\ failures < MaxFailures
    /\ failures' = failures + 1
    /\ head' = Blank
    /\ \/ UNCHANGED late
       \/ /\ head.at = "sent" /\ Head(queue).act = "evaluate"
          /\ late' = late \union {[nr |-> failures', request |-> Head(queue)]}
    /\ UNCHANGED <<owner, opened, panel, queue, listing, rows, ran>>

\* An action runs to completion on a task of its own; nobody waits for its answer.
LateHandled(l) ==
    /\ l \in late
    /\ Handles(l.request)
    /\ late' = late \ {l}
    /\ UNCHANGED <<panel, queue, head, listing, rows, failures>>

-----------------------------------------------------------------------------
\* Counted from the click for Stop and from its turn for other requests that
\* are not quiet.
Quiet(t) == t.act \in {"poll", "watch", "document_start"}
Pending == \/ \E i \in 1..Len(queue) : queue[i].act = "stop"
           \/ /\ head # Idle
              /\ ~Quiet(Head(queue))
\* Mutant: the poll between a command's outcome and its result row is not counted.
Bug_Busy_PendingOnly == Pending

\* A request or a command is under way: the controls are disabled.
Busy == Pending \/ panel.submitting
SelectedDocument == panel.target # NoDoc /\ panel.usable

\* A new generation: what was queued or read for the old one is not its own.
Aged(tasks) == [i \in 1..Len(tasks) |-> [tasks[i] EXCEPT !.current = FALSE]]
AgedListing == IF listing = Idle THEN Idle ELSE Dropped

\* A document listing: the selection stays; a live one that is missing stays
\* selected but unusable, and its authorization goes.
targets(p, docs, selected, invalid) ==
    LET kept == [p EXCEPT !.listed = docs] IN
    IF selected \in docs /\ ~invalid THEN [kept EXCEPT !.target = selected, !.usable = TRUE]
    ELSE IF selected # NoDoc /\ p.live THEN [kept EXCEPT !.listed = docs \ {selected}, !.target = selected, !.usable = FALSE, !.consent = FALSE]
    ELSE [kept EXCEPT !.target = NoDoc, !.usable = FALSE]

clearTargets(p) == [p EXCEPT !.listed = {}, !.target = NoDoc, !.usable = FALSE]
invalidateTargets(p) ==
    IF p.live /\ p.target # NoDoc THEN targets(p, {}, p.target, FALSE) ELSE clearTargets(p)

\* What a read of the owner's state tells: the capture's documents, unless a
\* disposable browser is connected.
captureState(p, value) ==
    LET docs == value.docs
        q == [p EXCEPT !.available = value.capture, !.known = docs,
                       !.live = @ \/ (value.capture /\ p.session # None)]
        connected == value.capture /\ q.session # None IN
    IF ~q.live THEN q
    ELSE targets(q, docs, IF connected /\ value.selected # NoDoc THEN value.selected ELSE q.target,
                 connected /\ value.selected = NoDoc)

\* The panel opens on an owner with no session, or adopts the one it has.
initialize(sessions) == captureState([Fresh EXCEPT !.session = sessions], State)

Init ==
    /\ \E live \in BOOLEAN, target \in Docs \union {NoDoc}, open \in {None, 1} :
          /\ owner = [session |-> open, live |-> live, target |-> target, docs |-> Docs]
          /\ opened = open
          /\ live => open = 1
          /\ live = (target # NoDoc)
    /\ panel = initialize(owner.session)
    /\ queue = <<>>
    /\ head = Idle
    /\ late = {}
    /\ listing = Idle
    /\ rows = [c \in Commands |-> NoRow]
    /\ ran = [c \in Commands |-> 0]
    /\ failures = 0

-----------------------------------------------------------------------------
\* Poll, evaluate and connect_live name the document; a read of the document-start
\* view and a new session name no session.
Task(act, cmd) ==
    [act |-> act, current |-> TRUE, cmd |-> cmd, ends |-> FALSE,
     session |-> IF act \in {"start", "connect_live", "document_start"} THEN None ELSE panel.session,
     target |-> IF act \in {"poll", "evaluate", "connect_live"} THEN panel.target ELSE NoDoc]

Queued(act) == \E i \in 1..Len(queue) : queue[i].act = act
Room == Len(queue) < MaxQueue

CanStart ==
    /\ ~Busy /\ listing = Idle /\ panel.session = None
    /\ panel.live => panel.available /\ SelectedDocument /\ panel.consent

Start ==
    /\ Room /\ CanStart /\ opened < MaxSessions
    /\ queue' = Append(queue, Task(IF panel.live THEN "connect_live" ELSE "start", None))
    /\ UNCHANGED <<owner, opened, panel, head, late, listing, rows, ran, failures>>

Stop ==
    /\ Room /\ ~Busy /\ panel.session # None
    /\ queue' = Append(queue, Task("stop", None))
    /\ UNCHANGED <<owner, opened, panel, head, late, listing, rows, ran, failures>>

Refresh ==
    /\ Room /\ ~Busy /\ panel.session # None
    /\ queue' = Append(queue, Task("targets", None))
    /\ UNCHANGED <<owner, opened, panel, head, late, listing, rows, ran, failures>>

SelectTarget(d) ==
    /\ ~Busy
    /\ (panel.session # None) # panel.live
    /\ d \in (panel.listed \union {NoDoc}) \ {panel.target}
    /\ panel' = [panel EXCEPT !.target = d, !.usable = d # NoDoc, !.consent = FALSE]
    /\ queue' = Aged(queue)
    /\ listing' = AgedListing
    /\ UNCHANGED <<owner, opened, head, late, rows, ran, failures>>

ChangeMode ==
    /\ ~Busy /\ panel.session = None
    /\ panel' = LET p == [clearTargets(panel) EXCEPT !.live = ~@, !.consent = FALSE] IN
                IF p.live THEN targets(p, p.known, NoDoc, FALSE) ELSE p
    /\ queue' = Aged(queue)
    /\ listing' = AgedListing
    /\ UNCHANGED <<owner, opened, head, late, rows, ran, failures>>

Consent ==
    /\ ~Busy /\ panel.session = None /\ panel.live /\ SelectedDocument
    /\ panel' = [panel EXCEPT !.consent = ~@]
    /\ UNCHANGED <<owner, opened, queue, head, late, listing, rows, ran, failures>>

\* The submitted command gets its row at once, and its turn in the queue.
Submit(c) ==
    /\ Room /\ ~Busy /\ panel.session # None /\ ~panel.disconnected /\ SelectedDocument
    /\ rows[c] = NoRow /\ \A b \in 1..(c - 1) : rows[b] # NoRow
    /\ panel' = [panel EXCEPT !.submitting = TRUE]
    /\ rows' = [rows EXCEPT ![c] = [status |-> "running", session |-> panel.session,
                                    target |-> panel.target, result |-> FALSE]]
    /\ queue' = Append(queue, Task("evaluate", c))
    /\ UNCHANGED <<owner, opened, head, late, listing, ran, failures>>

-----------------------------------------------------------------------------
\* The 500 ms timer: page messages, the session, the live documents and the
\* document-start view.
CanPoll(p) == p.session # None /\ ~p.disconnected /\ p.target # NoDoc /\ p.usable /\ ~Queued("poll")

Poll ==
    /\ Room /\ CanPoll(panel) /\ ~Pending
    /\ queue' = Append(queue, Task("poll", None))
    /\ UNCHANGED <<owner, opened, panel, head, late, listing, rows, ran, failures>>

WatchSession ==
    /\ Room /\ panel.session # None /\ ~panel.disconnected /\ ~Busy /\ ~Queued("watch")
    /\ queue' = Append(queue, Task("watch", None))
    /\ UNCHANGED <<owner, opened, panel, head, late, listing, rows, ran, failures>>

\* Only without a session: with one, polls and watches already give a request
\* something to wait behind.
DocumentStart ==
    /\ Room /\ panel.session = None /\ ~Busy /\ ~Queued("document_start")
    /\ queue' = Append(queue, Task("document_start", None))
    /\ UNCHANGED <<owner, opened, panel, head, late, listing, rows, ran, failures>>

\* A read that fails is dropped too.
RefreshLiveDocuments ==
    /\ panel.session = None /\ ~Busy /\ listing = Idle
    /\ listing' \in {[at |-> "answered", value |-> State], Dropped}
    /\ UNCHANGED <<owner, opened, panel, queue, head, late, rows, ran, failures>>

\* The listing is dropped when a session, a newer selection or a request came first.
LiveDocumentsListed ==
    /\ listing # Idle
    /\ listing' = Idle
    /\ panel' = IF listing = Dropped \/ panel.session # None \/ Pending THEN panel
                ELSE captureState(panel, listing.value)
    /\ UNCHANGED <<owner, opened, queue, head, late, rows, ran, failures>>

-----------------------------------------------------------------------------
\* Mutant: a request is sent for whatever the panel shows now.
Bug_NotSent_AnyContext(t) == t.act = "stop" /\ t.session # panel.session

\* A request whose session or selection is gone when its turn comes.
NotSent(t) ==
    \/ t.act = "stop" /\ t.session # panel.session
    \/ t.act \notin {"stop", "watch", "document_start"} /\ ~t.current
    \/ t.act \in {"evaluate", "poll"} /\ <<t.session, t.target>> # <<panel.session, panel.target>>

\* A request is sent; a read of the owner's state tells what it was then.
Begin ==
    /\ queue # <<>> /\ head = Idle /\ ~NotSent(Head(queue))
    /\ head' = IF Head(queue).act \in {"watch", "document_start"}
               THEN [Blank EXCEPT !.status = "ok", !.value = IF Head(queue).act = "watch" THEN State ELSE @]
               ELSE [at |-> "sent"]
    /\ UNCHANGED <<owner, opened, panel, queue, late, listing, rows, ran, failures>>

\* A command's row ends; its result gets a row once one more poll has had its
\* turn, however that ends, or at once when none can start.
RowEnds(t, p, tasks, status) ==
    LET polls == t.act = "evaluate" /\ status # "unavailable" /\ CanPoll(p) IN
    /\ rows' = IF t.act = "evaluate"
               THEN [rows EXCEPT ![t.cmd].status = status, ![t.cmd].result = status # "unavailable" /\ ~polls]
               ELSE IF t.ends THEN [rows EXCEPT ![t.cmd].result = TRUE] ELSE rows
    /\ IF polls
       THEN /\ queue' = Append(tasks, [Task("poll", t.cmd) EXCEPT !.session = p.session, !.target = p.target, !.ends = TRUE])
            /\ panel' = p
       ELSE /\ queue' = tasks
            /\ panel' = IF t.act = "evaluate" \/ t.ends THEN [p EXCEPT !.submitting = FALSE] ELSE p

Skip ==
    /\ queue # <<>> /\ head = Idle /\ NotSent(Head(queue))
    /\ RowEnds(Head(queue), panel, Tail(queue), "unavailable")
    /\ UNCHANGED <<owner, opened, head, late, listing, ran, failures>>

\* Mutant: a failed request is sent again.
Bug_FailedTasks_Retried == queue

FailedTasks == Tail(queue)

\* A refusal or a failure: the selection is not trusted any more, and nothing
\* is retried.  One of an earlier generation changes nothing.
Fails ==
    LET t == Head(queue) IN
    /\ head.at = "answered" /\ head.status = "refused"
    /\ head' = Idle
    /\ RowEnds(t, IF t.act \in {"watch", "document_start"} \/ ~(t.act = "stop" \/ t.current) THEN panel
                  ELSE [invalidateTargets(panel) EXCEPT !.disconnected = TRUE],
               FailedTasks, "unavailable")
    /\ UNCHANGED <<owner, opened, late, listing, ran, failures>>

\* An answer is shown unless the selection changed since it was asked for.
Shown(t) == t.current

Answer(act) == head.at = "answered" /\ head.status # "refused" /\ Head(queue).act = act

Connected ==
    LET live == Head(queue).act = "connect_live"
        p == [panel EXCEPT !.session = head.value.session, !.live = live, !.disconnected = FALSE] IN
    /\ Answer("start") \/ Answer("connect_live")
    /\ IF Shown(Head(queue))
       THEN /\ panel' = targets(p, head.value.docs, IF live THEN Head(queue).target ELSE p.target, FALSE)
            /\ queue' = Aged(Tail(queue)) /\ listing' = AgedListing
       ELSE queue' = Tail(queue) /\ UNCHANGED <<panel, listing>>
    /\ head' = Idle
    /\ UNCHANGED <<owner, opened, late, rows, ran, failures>>

Stopped ==
    LET p == [panel EXCEPT !.session = None, !.consent = FALSE, !.disconnected = FALSE] IN
    /\ Answer("stop")
    /\ panel' = IF p.live THEN p ELSE clearTargets(p)
    /\ queue' = Aged(Tail(queue)) /\ listing' = AgedListing
    /\ head' = Idle
    /\ UNCHANGED <<owner, opened, late, rows, ran, failures>>

Listed ==
    LET p == [panel EXCEPT !.disconnected = FALSE] IN
    /\ Answer("targets")
    /\ IF Shown(Head(queue))
       THEN /\ panel' = targets(p, head.value.docs, p.target, p.live /\ head.value.selected = NoDoc)
            /\ queue' = Aged(Tail(queue)) /\ listing' = AgedListing
       ELSE queue' = Tail(queue) /\ UNCHANGED <<panel, listing>>
    /\ head' = Idle
    /\ UNCHANGED <<owner, opened, late, rows, ran, failures>>

\* A command's result or the page's messages; a stale document is not usable.
Delivered ==
    LET t == Head(queue)
        p == [panel EXCEPT !.disconnected = FALSE] IN
    /\ Answer("evaluate") \/ Answer("poll")
    /\ IF ~Shown(t) THEN RowEnds(t, panel, Tail(queue), "unavailable")
       ELSE IF head.status = "ok"
       THEN RowEnds(t, p, Tail(queue), "complete")
       ELSE RowEnds(t, invalidateTargets(p), Tail(queue), "stale_target")
    /\ head' = Idle
    /\ UNCHANGED <<owner, opened, late, listing, ran, failures>>

\* Mutant: a session that ended is told apart from one replaced by another.
Bug_Gone_Replaced(t) == head.value.session # None /\ head.value.session # t.session /\ t.current /\ ~Busy

\* The watched session is no longer the owner's, and nothing came in between.
Gone(t) == head.value.session # t.session /\ t.session = panel.session /\ t.current /\ ~Busy

Watched ==
    LET t == Head(queue)
        p == [panel EXCEPT !.session = None, !.consent = FALSE] IN
    /\ Answer("watch")
    /\ IF Gone(t)
       THEN /\ panel' = captureState(IF p.live THEN p ELSE clearTargets(p), head.value)
            /\ queue' = Aged(Tail(queue)) /\ listing' = AgedListing
       ELSE queue' = Tail(queue) /\ UNCHANGED <<panel, listing>>
    /\ head' = Idle
    /\ UNCHANGED <<owner, opened, late, rows, ran, failures>>

DocumentStartRead ==
    /\ Answer("document_start")
    /\ queue' = Tail(queue) /\ head' = Idle
    /\ UNCHANGED <<owner, opened, panel, late, listing, rows, ran, failures>>

-----------------------------------------------------------------------------
Owner == (\E d \in Docs : DocumentCloses(d)) \/ SessionEnds \/ OtherConnects
User == \/ Start \/ Stop \/ Refresh \/ ChangeMode \/ Consent
        \/ (\E d \in Docs \union {NoDoc} : SelectTarget(d))
        \/ \E c \in Commands : Submit(c)
Timer == Poll \/ WatchSession \/ DocumentStart \/ RefreshLiveDocuments
Answered == \/ Fails \/ Connected \/ Stopped \/ Listed \/ Delivered \/ Watched
            \/ DocumentStartRead
Exchange == Begin \/ Skip \/ OwnerHandles \/ Answered
Next == \/ Owner \/ User \/ Timer \/ Exchange \/ LiveDocumentsListed
        \/ RequestFails \/ \E l \in late : LateHandled(l)

\* The queue's promises settle, and the timer keeps watching the session.
Spec == Init /\ [][Next]_vars /\ WF_vars(Exchange) /\ WF_vars(WatchSession)

-----------------------------------------------------------------------------
Documents == Docs \union {NoDoc}
Requests == [act : {"start", "connect_live", "stop", "targets", "evaluate", "poll", "watch", "document_start"},
             session : Nat, target : Documents, current : BOOLEAN, cmd : Commands \union {None},
             ends : BOOLEAN]

Panels == [session : Nat, live : BOOLEAN, known : SUBSET Docs, available : BOOLEAN,
           listed : SUBSET Docs, target : Documents, usable : BOOLEAN, consent : BOOLEAN,
           disconnected : BOOLEAN, submitting : BOOLEAN]
Reads == [session : Nat, capture : BOOLEAN, docs : SUBSET Docs, selected : Documents]
Rows == [status : {"none", "running", "complete", "stale_target", "unavailable"},
         session : Nat, target : Documents, result : BOOLEAN]
Answers == [at : {"answered"}, status : {"ok", "stale_target", "refused"}, value : Reads]

OwnerTypes ==
    /\ owner \in [session : Nat, live : BOOLEAN, target : Documents, docs : SUBSET Docs]
    /\ opened \in Nat /\ owner.session <= opened

PanelTypes ==
    /\ panel \in Panels
    /\ panel.usable => panel.target # NoDoc

QueueTypes ==
    /\ queue \in Seq(Requests) /\ Len(queue) <= MaxQueue
    /\ head \in {Idle, [at |-> "sent"]} \cup Answers
    /\ head # Idle => queue # <<>>

RecordTypes ==
    /\ listing \in {Idle, Dropped} \cup [at : {"answered"}, value : Reads]
    /\ rows \in [Commands -> Rows]
    /\ ran \in [Commands -> Nat] /\ failures \in 0 .. MaxFailures
    /\ late \subseteq [nr : 1 .. failures, request : Requests]

\* One command at most is submitted: its request, or the poll that ends it, is queued.
SubmittedQueued ==
    panel.submitting <=> \E i \in 1..Len(queue) : queue[i].act = "evaluate" \/ queue[i].ends

\* The queue never outgrows its bound, one command at most is submitted, and a
\* request is on its way only for the head of the queue.
TypeOK == OwnerTypes /\ PanelTypes /\ QueueTypes /\ RecordTypes /\ SubmittedQueued

\* Commands are never retried (native_console.js:152): each runs at most once, a
\* row says "Complete" only when it ran, and a document that is gone ran none.
RunOnce ==
    \A c \in Commands :
        /\ ran[c] <= 1
        /\ rows[c].status = "complete" => ran[c] = 1
        /\ rows[c].status \in {"none", "stale_target"} => ran[c] = 0

\* A command whose outcome was learnt has a result row, or the poll that comes
\* before it is queued; no other command has either.
ResultFollows ==
    \A c \in Commands :
        rows[c].status \in {"complete", "stale_target"} <=>
            rows[c].result \/ \E i \in 1..Len(queue) : queue[i].ends /\ queue[i].cmd = c

\* The panel's selection, queue and rows belong together, and a command is sent once at most.
Consistent == TypeOK /\ RunOnce /\ ResultFollows

\* The row says, or is about to say, "Outcome unavailable".
Unconfirmed(c) ==
    \/ rows[c].status = "unavailable"
    \/ head = Blank /\ Head(queue).act = "evaluate" /\ Head(queue).cmd = c

\* Nothing is sent for a selection or session that changed while it waited
\* (native_console.js:142-145).  A command runs only in the session and document
\* its row names, and those are the ones shown unless the panel gave it up and
\* its row says so.  A connection made while the panel waits for it is to the
\* capture document the panel shows.
ActsWhereShown ==
    [][/\ \A c \in Commands : ran'[c] # ran[c] =>
            /\ owner.session = rows[c].session /\ RunsIn(rows[c])
            /\ Unconfirmed(c) \/ <<rows[c].session, rows[c].target>> = <<panel.session, panel.target>>
       /\ OwnerHandles /\ owner'.live /\ owner'.session # owner.session =>
            owner'.target = panel.target]_vars

\* What enters the transcript belongs to what is shown.  An answer is accepted
\* only while the session and the document it was asked of are the ones shown
\* (native_console.js:149): page messages appear then, and a row gets its status.
\* The result row comes one poll later (852, 867): its session is then still the
\* one shown, and no other document is; the poll, failing or finding the document
\* gone, may have left none selected.
ShownOwned ==
    [][/\ Delivered /\ Shown(Head(queue)) =>
            <<Head(queue).session, Head(queue).target>> = <<panel.session, panel.target>>
       /\ \A c \in Commands : rows'[c].result /\ ~rows[c].result =>
            /\ panel'.session = rows[c].session
            /\ panel'.target \in {rows[c].target, NoDoc}]_vars

\* A session the owner no longer has is not shown as connected for ever
\* (native_console.js:664-668): the watch or a request finds out, each time that
\* no change of the selection overtakes it.
Orphaned == panel.session # None /\ panel.session # owner.session
Overtaken == \E i \in 1..Len(queue) : ~queue[i].current
LearnsEnd == Orphaned ~> (~Orphaned \/ panel.disconnected \/ Overtaken)
=============================================================================
