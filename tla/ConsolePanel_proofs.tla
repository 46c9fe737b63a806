------------------------- MODULE ConsolePanel_proofs -------------------------
(***************************************************************************)
(* Theorems about the native Console panel and the session it shares with  *)
(* other windows, for any documents, sessions, commands, failures and      *)
(* queue length: a command runs once at most and only where its row says,  *)
(* and only answers and results of what is shown reach the transcript.     *)
(***************************************************************************)
EXTENDS ConsolePanel, SequenceTheorems, TLAPS

----------------------------------------------------------------------------
(* The inductive invariant *)

\* The request of a submitted command, or the poll whose answer ends it.
Submits(t) == t.act = "evaluate" \/ t.ends

\* Nothing but page-message polls is queued behind a command, and the poll that
\* ends it is alone.
QueueInv ==
    /\ \A i, j \in 1 .. Len(queue) : Submits(queue[i]) /\ Submits(queue[j]) => i = j
    /\ \A i \in 1 .. Len(queue) : /\ queue[i].ends => queue[i].act = "poll"
                                  /\ queue[i].act = "evaluate" => queue[i].cmd \in Commands
                                  /\ queue[i].act \in {"evaluate", "poll"} => queue[i].session # None
    /\ \A i \in 1 .. Len(queue) :
          /\ queue[i].ends => Len(queue) = 1
          /\ queue[i].act = "evaluate" =>
                \A j \in 1 .. Len(queue) : j > i => queue[j].act = "poll"

\* A document chosen for a live connection stays the selection until a newer generation.
ConnectInv ==
    \A i \in 1 .. Len(queue) :
       queue[i].act = "connect_live" /\ queue[i].current =>
          panel.live /\ queue[i].target = panel.target /\ panel.target # NoDoc

\* What has been sent, and is still current, is about what the panel shows; only quiet
\* requests and Stop can be overtaken by a change of the selection.
BegunInv ==
    head # Idle =>
       LET t == Head(queue) IN
       /\ t.act \in {"evaluate", "poll"} /\ t.current =>
             <<t.session, t.target>> = <<panel.session, panel.target>>
       /\ ~ Quiet(t) /\ t.act # "stop" => t.current

\* How far a command has come: its row, its request and how often it ran.
RowInv ==
    /\ \A i \in 1 .. Len(queue) :
          queue[i].act = "evaluate" =>
             /\ rows[queue[i].cmd].status = "running"
             /\ i # 1 \/ head.at # "answered" => ran[queue[i].cmd] = 0
             /\ i = 1 /\ head.at = "answered" =>
                   /\ ran[queue[i].cmd] <= 1
                   /\ head.status = "ok" => ran[queue[i].cmd] = 1
                   /\ head.status = "stale_target" => ran[queue[i].cmd] = 0
    /\ RunOnce

\* A row names what its request is for; while the result is awaited, the panel
\* shows that session and no other document.
LabelInv ==
    \A i \in 1 .. Len(queue) :
       LET row == rows[queue[i].cmd] IN
       /\ queue[i].act = "evaluate" => <<row.session, row.target>> = <<queue[i].session, queue[i].target>>
       /\ queue[i].ends => /\ queue[i].cmd \in Commands /\ row.session # None
                          /\ row.session = panel.session /\ panel.target \in {row.target, NoDoc}

\* A command that was given up has not run yet, runs once at most and where its
\* row says, and nothing will confirm it.
LateInv ==
    /\ \A l \in late :
          LET t == l.request IN
          t.act = "evaluate" =>
             /\ t.cmd \in Commands /\ ran[t.cmd] = 0 /\ Unconfirmed(t.cmd)
             /\ <<rows[t.cmd].session, rows[t.cmd].target>> = <<t.session, t.target>>
    /\ \A l, m \in late :
          l.request.act = "evaluate" /\ m.request.act = "evaluate" /\ l.request.cmd = m.request.cmd => l = m

IInv == TypeOK /\ QueueInv /\ ConnectInv /\ BegunInv /\ RowInv /\ ResultFollows /\ LabelInv /\ LateInv

----------------------------------------------------------------------------
(* What the panel does with a listing *)

Sound(p) == p \in Panels /\ (p.usable => p.target # NoDoc)

\* Two views of one session, with the same command under way.
Same(p, q) == q.session = p.session /\ q.submitting = p.submitting

\* A live selection that q keeps.
Keeps(p, q) == p.live /\ p.target # NoDoc => q.live /\ q.target = p.target

\* The selection stays or goes.
Within(p, q) == q.target \in {p.target, NoDoc}

LEMMA NoDocs == NoDoc \in Documents /\ NoDoc \notin Docs /\ Docs \subseteq Documents
BY ConsoleAssumption DEF Documents

LEMMA TargetsSound ==
    ASSUME NEW p, Sound(p), NEW docs \in SUBSET Docs, NEW selected \in Documents, NEW invalid
    PROVE  /\ Sound(targets(p, docs, selected, invalid))
           /\ Same(p, targets(p, docs, selected, invalid))
           /\ targets(p, docs, selected, invalid).live = p.live
           /\ selected = p.target => /\ Keeps(p, targets(p, docs, selected, invalid))
                                     /\ Within(p, targets(p, docs, selected, invalid))
<1> DEFINE kept == [p EXCEPT !.listed = docs]
           q1 == [kept EXCEPT !.target = selected, !.usable = TRUE]
           q2 == [kept EXCEPT !.listed = docs \ {selected}, !.target = selected,
                              !.usable = FALSE, !.consent = FALSE]
           q3 == [kept EXCEPT !.target = NoDoc, !.usable = FALSE]
           q == targets(p, docs, selected, invalid)
<1>1. \/ selected \in docs /\ ~ invalid /\ q = q1
      \/ selected # NoDoc /\ p.live /\ q = q2
      \/ ~ (selected # NoDoc /\ p.live) /\ q = q3
  BY DEF targets
<1>2. p \in Panels
  BY DEF Sound
<1>3. q1 \in Panels /\ q2 \in Panels /\ q3 \in Panels
  BY <1>2, NoDocs DEF Panels
<1>4. /\ Same(p, q1) /\ Same(p, q2) /\ Same(p, q3)
      /\ q1.live = p.live /\ q2.live = p.live /\ q3.live = p.live
      /\ q1.target = selected /\ q2.target = selected /\ q3.target = NoDoc
      /\ ~ q2.usable /\ ~ q3.usable
  BY <1>2 DEF Panels, Same
<1> HIDE DEF q, q1, q2, q3
<1> QED
  BY <1>1, <1>3, <1>4, NoDocs DEF Sound, Keeps, Within, q

LEMMA InvalidateSound ==
    ASSUME NEW p, Sound(p)
    PROVE  /\ Sound(invalidateTargets(p)) /\ Sound(clearTargets(p))
           /\ Same(p, invalidateTargets(p)) /\ Same(p, clearTargets(p))
           /\ invalidateTargets(p).live = p.live /\ clearTargets(p).live = p.live
           /\ Keeps(p, invalidateTargets(p)) /\ Within(p, invalidateTargets(p))
<1>1. p \in Panels /\ p.target \in Documents
  BY DEF Sound, Panels
<1>2. /\ clearTargets(p) \in Panels /\ ~ clearTargets(p).usable
      /\ Same(p, clearTargets(p)) /\ clearTargets(p).live = p.live
      /\ clearTargets(p).target = NoDoc
  BY <1>1, NoDocs DEF Panels, clearTargets, Same
<1>3. /\ Sound(targets(p, {}, p.target, FALSE)) /\ Same(p, targets(p, {}, p.target, FALSE))
      /\ targets(p, {}, p.target, FALSE).live = p.live
      /\ Keeps(p, targets(p, {}, p.target, FALSE)) /\ Within(p, targets(p, {}, p.target, FALSE))
  BY <1>1, TargetsSound
<1> QED
  BY <1>2, <1>3 DEF invalidateTargets, Sound, Keeps, Within

LEMMA CaptureSound ==
    ASSUME NEW p, Sound(p), NEW value \in Reads
    PROVE  /\ Sound(captureState(p, value)) /\ Same(p, captureState(p, value))
           /\ p.session = None => Keeps(p, captureState(p, value))
<1> DEFINE docs == value.docs
           q == [p EXCEPT !.available = value.capture, !.known = docs,
                          !.live = p.live \/ (value.capture /\ p.session # None)]
           connected == value.capture /\ q.session # None
           selected == IF connected /\ value.selected # NoDoc THEN value.selected ELSE q.target
<1>1. /\ p \in Panels /\ value.docs \in SUBSET Docs /\ value.selected \in Documents
      /\ value.capture \in BOOLEAN
  BY DEF Sound, Reads
<1>2. q \in Panels
  BY <1>1 DEF Panels
<1>3. /\ Same(p, q) /\ q.target = p.target /\ q.usable = p.usable
      /\ p.session = None => q.live = p.live
      /\ q.session = p.session
  BY <1>1 DEF Panels, Same
<1> HIDE DEF q
<1>4. Sound(q) /\ q.target \in Documents
  BY <1>2, <1>3 DEF Sound, Panels
<1>5. selected \in Documents /\ (p.session = None => selected = q.target)
  BY <1>1, <1>3, <1>4
<1>6. captureState(p, value) =
         IF ~ q.live THEN q ELSE targets(q, docs, selected, connected /\ value.selected = NoDoc)
  BY DEF captureState, q
<1> HIDE DEF docs, selected, connected
<1>7. docs \in SUBSET Docs
  BY <1>1 DEF docs
<1>8. /\ Sound(targets(q, docs, selected, connected /\ value.selected = NoDoc))
      /\ Same(q, targets(q, docs, selected, connected /\ value.selected = NoDoc))
      /\ selected = q.target => Keeps(q, targets(q, docs, selected, connected /\ value.selected = NoDoc))
  BY <1>4, <1>5, <1>7, TargetsSound
<1> QED
  BY <1>3, <1>4, <1>5, <1>6, <1>8 DEF Same, Keeps

----------------------------------------------------------------------------
(* The owner *)

LEMMA ReadsAre == OwnerTypes => State \in Reads /\ Selected \in Documents
BY NoDocs DEF OwnerTypes, State, Selected, Reads

LEMMA OwnerTypesStep ==
    ASSUME IInv, [Next]_vars
    PROVE  OwnerTypes'
<1> DEFINE Owners == [session : Nat, live : BOOLEAN, target : Documents, docs : SUBSET Docs]
<1>1. owner \in Owners /\ opened \in Nat /\ owner.session <= opened
  BY DEF IInv, TypeOK, OwnerTypes
<1>2. [Closed EXCEPT !.docs = owner.docs] \in Owners /\ [Closed EXCEPT !.docs = owner.docs].session = 0
  BY <1>1, NoDocs DEF Closed, None
<1>3. ASSUME NEW live \in BOOLEAN, NEW target \in Documents, Opens(live, target)
      PROVE  owner' \in Owners /\ opened' \in Nat /\ owner'.session <= opened'
  <2>1. opened' = opened + 1 /\ opened + 1 \in Nat
    BY <1>1, <1>3 DEF Opens
  <2>2. \A n \in Nat : [owner EXCEPT !.session = n, !.live = live, !.target = target] \in Owners
    BY <1>1
  <2>3. owner' \in Owners
    BY <1>3, <2>1, <2>2 DEF Opens
  <2>4. owner'.session = opened + 1
    BY <1>1, <1>3 DEF Opens
  <2> QED
    BY <2>1, <2>3, <2>4
<1>4. CASE UNCHANGED <<owner, opened>>
  BY <1>1, <1>4 DEF OwnerTypes
<1>5. ASSUME NEW d \in Docs, DocumentCloses(d)
      PROVE  OwnerTypes'
  BY <1>1, <1>5 DEF DocumentCloses, OwnerTypes
<1>6. CASE SessionEnds
  <2>1. owner' = [Closed EXCEPT !.docs = owner.docs] /\ opened' = opened
    BY <1>6 DEF SessionEnds
  <2> QED
    BY <1>1, <1>2, <2>1 DEF OwnerTypes
<1>7. CASE OtherConnects
  <2>1. PICK live \in BOOLEAN, target \in owner.docs \union {NoDoc} : Opens(live, target)
    BY <1>7 DEF OtherConnects
  <2>2. target \in Documents
    BY <1>1, <2>1, NoDocs
  <2> QED
    BY <1>3, <2>1, <2>2 DEF OwnerTypes
<1>8. ASSUME NEW t \in Requests, Handles(t) \/ UNCHANGED <<owner, opened>>
      PROVE  OwnerTypes'
  <2>1. t.target \in Documents
    BY DEF Requests
  <2>2. CASE Connects(t)
    <3>1. \/ UNCHANGED <<owner, opened>>
          \/ Opens(t.act = "connect_live", t.target)
      BY <2>2 DEF Connects
    <3> QED
      BY <1>3, <1>4, <2>1, <3>1 DEF OwnerTypes
  <2>3. CASE Disconnects(t)
    <3>1. (owner' = owner \/ owner' = [Closed EXCEPT !.docs = owner.docs]) /\ opened' = opened
      BY <2>3 DEF Disconnects
    <3> QED
      BY <1>1, <1>2, <3>1 DEF OwnerTypes
  <2>4. CASE Runs(t)
    BY <1>4, <2>4 DEF Runs
  <2> QED
    BY <1>4, <1>8, <2>2, <2>3, <2>4 DEF Handles
<1>9. CASE OwnerHandles
  <2>1. Head(queue) \in Requests
    BY <1>9 DEF OwnerHandles, IInv, TypeOK, QueueTypes, Idle
  <2> QED
    BY <1>8, <1>9, <2>1 DEF OwnerHandles
<1>10. ASSUME NEW l \in late, LateHandled(l)
       PROVE  OwnerTypes'
  <2>1. l.request \in Requests
    BY DEF IInv, TypeOK, RecordTypes
  <2> QED
    BY <1>8, <1>10, <2>1 DEF LateHandled
<1>11. CASE ~ Owner /\ ~ OwnerHandles /\ ~ \E l \in late : LateHandled(l)
  <2>1. UNCHANGED <<owner, opened>>
    BY <1>11 DEF Next, User, Timer, Exchange, Answered, Begin, Skip, Fails, Connected, Stopped, Listed,
       Delivered, Watched, DocumentStartRead, LiveDocumentsListed, RequestFails, Start, Stop, Refresh,
       ChangeMode, Consent, SelectTarget, Submit, Poll, WatchSession, DocumentStart,
       RefreshLiveDocuments, LateHandled, vars
  <2> QED
    BY <1>4, <2>1
<1> QED
  BY <1>5, <1>6, <1>7, <1>9, <1>10, <1>11 DEF Owner

----------------------------------------------------------------------------
(* The kinds of steps *)

Types == OwnerTypes /\ PanelTypes /\ QueueTypes /\ RecordTypes

Running == [status |-> "running", session |-> panel.session, target |-> panel.target, result |-> FALSE]

\* A request is queued; behind a command only the page-message poll.
Adds(t) ==
    /\ t \in Requests /\ t.current /\ ~ t.ends
    /\ queue' = Append(queue, t) /\ Len(queue) < MaxQueue
    /\ IF t.act = "evaluate"
       THEN /\ t.cmd \in Commands /\ rows[t.cmd] = NoRow /\ ~ panel.submitting
            /\ rows' = [rows EXCEPT ![t.cmd] = Running]
            /\ panel' = [panel EXCEPT !.submitting = TRUE]
       ELSE rows' = rows /\ panel' = panel
    /\ t.act \in {"evaluate", "poll"} =>
          t.session = panel.session /\ t.target = panel.target /\ t.session # None
    /\ t.act = "connect_live" => panel.live /\ t.target = panel.target /\ panel.target # NoDoc
    /\ panel.submitting => t.act = "poll"
    /\ t.act = "poll" => ~ Queued("poll")
    /\ UNCHANGED <<head, late, listing, ran, failures>>

\* The researcher chooses, and every queued request is of an older generation.
Ages ==
    /\ queue' = Aged(queue) /\ ~ Busy
    /\ Sound(panel') /\ Same(panel, panel')
    /\ listing' = AgedListing
    /\ UNCHANGED <<head, late, rows, ran, failures>>

\* The row of command c ends, or its result gets a row.
Marked(c, status, result) ==
    /\ rows' \in [Commands -> Rows]
    /\ rows'[c] = [rows[c] EXCEPT !.status = status, !.result = result]
    /\ \A b \in Commands \ {c} : rows'[b] = rows[b]

\* The command at the head ends, and its result waits for one more poll.
CommandPolls(status) ==
    LET t == Head(queue) IN
    /\ t.act = "evaluate" /\ status # "unavailable" /\ ~ Queued("poll")
    /\ Marked(t.cmd, status, FALSE) /\ panel'.submitting = panel.submitting
    /\ \E end \in Requests : /\ end.act = "poll" /\ end.ends /\ end.session # None /\ end.cmd = t.cmd
                             /\ queue' = Append(Tail(queue), end)

\* It ends at once.
CommandEnds(status) ==
    /\ Head(queue).act = "evaluate" /\ Marked(Head(queue).cmd, status, status # "unavailable")
    /\ queue' = Tail(queue) /\ panel'.submitting = FALSE

\* Another request ends, perhaps the poll before a command's result.
OtherEnds ==
    LET t == Head(queue) IN
    /\ t.act # "evaluate"
    /\ IF t.ends THEN Marked(t.cmd, rows[t.cmd].status, TRUE) ELSE rows' = rows
    /\ queue' = Tail(queue) /\ panel'.submitting = IF t.ends THEN FALSE ELSE panel.submitting

\* The request at the head ends; a command's row with it.
Concludes(status) ==
    /\ queue # <<>> /\ head' = Idle
    /\ CommandPolls(status) \/ CommandEnds(status) \/ OtherEnds
    /\ Sound(panel') /\ panel'.session = panel.session
    /\ Keeps(panel, panel') /\ Within(panel, panel')
    /\ \/ status = "unavailable"
       \/ /\ head.at = "answered" /\ Head(queue).current
          /\ \/ status = "complete" /\ head.status = "ok"
             \/ status = "stale_target" /\ head.status = "stale_target"
    /\ UNCHANGED <<late, listing, ran, failures>>

\* The request at the head ends, perhaps with a new generation.
Settles ==
    /\ queue # <<>> /\ head' = Idle
    /\ Head(queue).act \notin {"evaluate", "poll"}
    /\ \/ queue' = Tail(queue) /\ panel' = panel /\ listing' = listing
       \/ /\ queue' = Aged(Tail(queue)) /\ listing' = AgedListing
          /\ Sound(panel') /\ panel'.submitting = panel.submitting
    /\ UNCHANGED <<late, rows, ran, failures>>

\* The queue stays as it is.
Stays ==
    /\ UNCHANGED <<queue, rows>>
    /\ Sound(panel') /\ Same(panel, panel') /\ Keeps(panel, panel')
    /\ panel.session # None \/ (head # Idle /\ ~ Quiet(Head(queue))) => panel'.target = panel.target

LEMMA TypesAre == IInv => Types /\ Sound(panel)
BY DEF IInv, TypeOK, Types, PanelTypes, Sound

Acts == {"start", "connect_live", "stop", "targets", "evaluate", "poll", "watch", "document_start"}

LEMMA TaskIs ==
    ASSUME panel \in Panels, NEW act \in Acts, NEW cmd \in Commands \cup {None}
    PROVE  /\ Task(act, cmd) \in Requests
           /\ Task(act, cmd).act = act /\ Task(act, cmd).cmd = cmd
           /\ Task(act, cmd).current /\ ~ Task(act, cmd).ends
           /\ act \in {"evaluate", "poll"} => Task(act, cmd).session = panel.session
           /\ act \in {"evaluate", "poll", "connect_live"} => Task(act, cmd).target = panel.target
<1> DEFINE s == IF act \in {"start", "connect_live", "document_start"} THEN None ELSE panel.session
           d == IF act \in {"poll", "evaluate", "connect_live"} THEN panel.target ELSE NoDoc
<1>1. s \in Nat /\ d \in Documents
  BY NoDocs DEF Panels, None
<1>2. Task(act, cmd) = [act |-> act, current |-> TRUE, cmd |-> cmd, ends |-> FALSE, session |-> s, target |-> d]
  BY DEF Task
<1>3. act \in {"evaluate", "poll"} => s = panel.session
  OBVIOUS
<1>4. act \in {"evaluate", "poll", "connect_live"} => d = panel.target
  OBVIOUS
<1> HIDE DEF s, d
<1>5. Task(act, cmd) \in Requests
  BY <1>1, <1>2 DEF Requests, Acts
<1> QED
  BY <1>2, <1>3, <1>4, <1>5

LEMMA AddsAre ==
    ASSUME IInv, Start \/ Stop \/ Refresh \/ (\E c \in Commands : Submit(c)) \/ Poll
                    \/ WatchSession \/ DocumentStart
    PROVE  \E t : Adds(t)
<1>0. panel \in Panels /\ None \in Commands \cup {None}
  BY DEF IInv, TypeOK, PanelTypes
<1>1. ASSUME NEW act \in Acts \ {"evaluate"}, queue' = Append(queue, Task(act, None)), Room,
             UNCHANGED <<panel, head, late, listing, rows, ran, failures>>,
             act = "poll" => panel.session # None /\ ~ Queued("poll"),
             panel.submitting => act = "poll",
             act = "connect_live" => panel.live /\ panel.target # NoDoc
      PROVE  \E t : Adds(t)
  <2> DEFINE t == Task(act, None)
  <2>1. /\ t \in Requests /\ t.act = act /\ t.current /\ ~ t.ends
        /\ act = "poll" => t.session = panel.session /\ t.target = panel.target
        /\ act = "connect_live" => t.target = panel.target
    BY <1>0, TaskIs
  <2>2. queue' = Append(queue, t) /\ Len(queue) < MaxQueue
    BY <1>1 DEF Room
  <2> HIDE DEF t
  <2>3. Adds(t)
    BY <1>1, <2>1, <2>2 DEF Adds
  <2> QED
    BY <2>3
<1>2. CASE Start
  <2>1. /\ queue' = Append(queue, Task(IF panel.live THEN "connect_live" ELSE "start", None)) /\ Room
        /\ UNCHANGED <<panel, head, late, listing, rows, ran, failures>>
        /\ (panel.live => panel.target # NoDoc) /\ ~ panel.submitting
    BY <1>2 DEF Start, CanStart, SelectedDocument, Busy
  <2>2. CASE panel.live
    <3>1. queue' = Append(queue, Task("connect_live", None)) /\ "connect_live" \in Acts \ {"evaluate"}
      BY <2>1, <2>2 DEF Acts
    <3> QED
      BY <1>1, <2>1, <2>2, <3>1
  <2>3. CASE ~ panel.live
    <3>1. queue' = Append(queue, Task("start", None)) /\ "start" \in Acts \ {"evaluate"}
      BY <2>1, <2>3 DEF Acts
    <3> QED
      BY <1>1, <2>1, <3>1
  <2> QED
    BY <2>2, <2>3
<1>3. CASE Stop
  <2>1. "stop" \in Acts \ {"evaluate"}
    BY DEF Acts
  <2> QED
    BY <1>1, <1>3, <2>1 DEF Stop, Busy
<1>4. CASE Refresh
  <2>1. "targets" \in Acts \ {"evaluate"}
    BY DEF Acts
  <2> QED
    BY <1>1, <1>4, <2>1 DEF Refresh, Busy
<1>5. CASE Poll
  <2>1. "poll" \in Acts \ {"evaluate"}
    BY DEF Acts
  <2> QED
    BY <1>1, <1>5, <2>1 DEF Poll, CanPoll
<1>6. CASE WatchSession
  <2>1. "watch" \in Acts \ {"evaluate"}
    BY DEF Acts
  <2> QED
    BY <1>1, <1>6, <2>1 DEF WatchSession, Busy
<1>7. CASE DocumentStart
  <2>1. "document_start" \in Acts \ {"evaluate"}
    BY DEF Acts
  <2> QED
    BY <1>1, <1>7, <2>1 DEF DocumentStart, Busy
<1>8. ASSUME NEW c \in Commands, Submit(c)
      PROVE  \E t : Adds(t)
  <2> DEFINE t == Task("evaluate", c)
  <2>1. /\ t \in Requests /\ t.act = "evaluate" /\ t.current /\ ~ t.ends /\ t.cmd = c
        /\ t.session = panel.session /\ t.target = panel.target
    <3>1. "evaluate" \in Acts
      BY DEF Acts
    <3> QED
      BY <1>0, <3>1, TaskIs
  <2>2. /\ queue' = Append(queue, t) /\ Len(queue) < MaxQueue /\ rows[c] = NoRow
        /\ ~ panel.submitting /\ panel.session # None
        /\ rows' = [rows EXCEPT ![c] = Running]
        /\ panel' = [panel EXCEPT !.submitting = TRUE]
        /\ UNCHANGED <<head, late, listing, ran, failures>>
    BY <1>8 DEF Submit, Room, Busy, Running
  <2> HIDE DEF t
  <2>3. Adds(t)
    BY <2>1, <2>2 DEF Adds
  <2> QED
    BY <2>3
<1> QED
  BY <1>2, <1>3, <1>4, <1>5, <1>6, <1>7, <1>8

LEMMA AgesAre ==
    ASSUME IInv, ChangeMode \/ \E d \in Docs \union {NoDoc} : SelectTarget(d)
    PROVE  Ages
<1>0. Sound(panel) /\ panel \in Panels
  BY TypesAre DEF Sound
<1>1. ASSUME NEW d \in Docs \union {NoDoc}, SelectTarget(d)
      PROVE  Ages
  <2>1. panel' = [panel EXCEPT !.target = d, !.usable = d # NoDoc, !.consent = FALSE]
    BY <1>1 DEF SelectTarget
  <2>2. panel' \in Panels
    BY <1>0, <2>1, NoDocs DEF Panels, Documents
  <2>3. Same(panel, panel') /\ (panel'.usable => panel'.target # NoDoc)
    BY <1>0, <2>1 DEF Panels, Same
  <2> QED
    BY <1>1, <2>2, <2>3 DEF SelectTarget, Ages, Sound, Busy
<1>2. CASE ChangeMode
  <2> DEFINE c == clearTargets(panel)
             p == [c EXCEPT !.live = ~ c.live, !.consent = FALSE]
  <2>1. Sound(c) /\ Same(panel, c)
    BY <1>0, InvalidateSound
  <2> HIDE DEF c
  <2>2. p \in Panels
    BY <2>1 DEF Sound, Panels
  <2>3. Same(c, p) /\ p.usable = c.usable /\ p.target = c.target
    BY <2>1 DEF Same, Sound, Panels
  <2>4. Sound(p) /\ Same(panel, p)
    BY <2>1, <2>2, <2>3 DEF Sound, Same
  <2>5. panel' = IF p.live THEN targets(p, p.known, NoDoc, FALSE) ELSE p
    BY <1>2 DEF ChangeMode, c
  <2>6. p.known \in SUBSET Docs
    BY <2>2 DEF Panels
  <2> HIDE DEF p
  <2>7. Sound(targets(p, p.known, NoDoc, FALSE)) /\ Same(p, targets(p, p.known, NoDoc, FALSE))
    BY <2>4, <2>6, NoDocs, TargetsSound
  <2>8. Sound(panel') /\ Same(panel, panel')
    BY <2>4, <2>5, <2>7 DEF Same
  <2> QED
    BY <1>2, <2>8 DEF ChangeMode, Ages, Busy
<1> QED
  BY <1>1, <1>2

Statuses == {"none", "running", "complete", "stale_target", "unavailable"}

LEMMA RowUpdate ==
    ASSUME rows \in [Commands -> Rows], NEW c \in Commands, NEW status \in Statuses, NEW result \in BOOLEAN
    PROVE  /\ rows' = [rows EXCEPT ![c].status = status, ![c].result = result] => Marked(c, status, result)
           /\ rows' = [rows EXCEPT ![c].result = result] => Marked(c, rows[c].status, result)
           /\ LET row == [rows[c] EXCEPT !.status = status, !.result = result] IN
              /\ row.status = status /\ row.result = result
              /\ row.session = rows[c].session /\ row.target = rows[c].target
<1> DEFINE row == [rows[c] EXCEPT !.status = status, !.result = result]
           last == [rows[c] EXCEPT !.result = result]
<1>1. rows[c] \in Rows
  OBVIOUS
<1>2. /\ row \in Rows /\ row.status = status /\ row.result = result
      /\ row.session = rows[c].session /\ row.target = rows[c].target
  BY <1>1 DEF Rows, Statuses
<1>3. /\ last \in Rows /\ last = [rows[c] EXCEPT !.status = rows[c].status, !.result = result]
  BY <1>1 DEF Rows
<1>4. [rows EXCEPT ![c].status = status, ![c].result = result] = [rows EXCEPT ![c] = row]
  OBVIOUS
<1>5. [rows EXCEPT ![c].result = result] = [rows EXCEPT ![c] = last]
  OBVIOUS
<1>6. \A r \in Rows : /\ [rows EXCEPT ![c] = r] \in [Commands -> Rows] /\ [rows EXCEPT ![c] = r][c] = r
                      /\ \A d \in Commands \ {c} : [rows EXCEPT ![c] = r][d] = rows[d]
  OBVIOUS
<1>7. ASSUME rows' = [rows EXCEPT ![c].status = status, ![c].result = result]
      PROVE  Marked(c, status, result)
  <2> HIDE DEF row
  <2>1. rows' = [rows EXCEPT ![c] = row]
    BY <1>4, <1>7
  <2>2. rows' \in [Commands -> Rows] /\ rows'[c] = row /\ \A d \in Commands \ {c} : rows'[d] = rows[d]
    BY <1>2, <1>6, <2>1
  <2> QED
    BY <2>2 DEF Marked, row
<1>8. ASSUME rows' = [rows EXCEPT ![c].result = result]
      PROVE  Marked(c, rows[c].status, result)
  <2> HIDE DEF last
  <2>1. rows' = [rows EXCEPT ![c] = last]
    BY <1>5, <1>8
  <2>2. rows' \in [Commands -> Rows] /\ rows'[c] = last /\ \A d \in Commands \ {c} : rows'[d] = rows[d]
    BY <1>3, <1>6, <2>1
  <2> QED
    BY <1>3, <2>2 DEF Marked
<1> QED
  BY <1>2, <1>7, <1>8

\* The command of the request at the head.
LEMMA HeadFacts ==
    ASSUME IInv, queue # <<>>
    PROVE  LET t == Head(queue) IN
           /\ t \in Requests /\ t = queue[1] /\ 1 \in 1 .. Len(queue)
           /\ t.act = "evaluate" \/ t.ends => t.cmd \in Commands
           /\ rows \in [Commands -> Rows]
<1>1. Head(queue) = queue[1] /\ 1 \in 1 .. Len(queue) /\ Head(queue) \in Requests
  BY DEF IInv, TypeOK, QueueTypes
<1>2. rows \in [Commands -> Rows]
  BY DEF IInv, TypeOK, RecordTypes
<1>3. Head(queue).act = "evaluate" => Head(queue).cmd \in Commands
  BY <1>1 DEF IInv, QueueInv
<1>4. Head(queue).ends => Head(queue).cmd \in Commands
  BY <1>1 DEF IInv, LabelInv
<1> QED
  BY <1>1, <1>2, <1>3, <1>4

LEMMA RowEndsAre ==
    ASSUME IInv, queue # <<>>, NEW p, Sound(p), Same(panel, p), Keeps(panel, p), Within(panel, p),
           NEW status \in {"unavailable", "complete", "stale_target"},
           RowEnds(Head(queue), p, Tail(queue), status), head' = Idle,
           \/ status = "unavailable"
           \/ /\ head.at = "answered" /\ Head(queue).current
              /\ \/ status = "complete" /\ head.status = "ok"
                 \/ status = "stale_target" /\ head.status = "stale_target",
           UNCHANGED <<late, listing, ran, failures>>
    PROVE  Concludes(status)
<1> DEFINE t == Head(queue)
<1>0. /\ panel \in Panels /\ p \in Panels /\ None \in Commands \cup {None}
      /\ status \in Statuses
      /\ t.act = "evaluate" \/ t.ends => t.cmd \in Commands
      /\ rows \in [Commands -> Rows]
  BY TypesAre, HeadFacts DEF Sound, Statuses
<1>1. CASE t.act = "evaluate" /\ status # "unavailable" /\ CanPoll(p)
  <2> DEFINE task == Task("poll", t.cmd)
             end == [task EXCEPT !.session = p.session, !.target = p.target, !.ends = TRUE]
  <2>1. task \in Requests /\ task.act = "poll" /\ task.cmd = t.cmd
    <3>1. "poll" \in Acts
      BY DEF Acts
    <3> QED
      BY <1>0, <1>1, <3>1, TaskIs
  <2>2. p.session \in Nat /\ p.target \in Documents /\ p.session # None
    BY <1>0, <1>1 DEF Panels, CanPoll
  <2>3. /\ queue' = Append(Tail(queue), end) /\ panel' = p
        /\ rows' = [rows EXCEPT ![t.cmd].status = status, ![t.cmd].result = FALSE]
    BY <1>1 DEF RowEnds
  <2> HIDE DEF task
  <2>4. end \in Requests
    BY <2>1, <2>2 DEF Requests
  <2>5. end.act = "poll" /\ end.ends /\ end.session # None /\ end.cmd = t.cmd
    BY <2>1, <2>2 DEF Requests
  <2>6. Marked(t.cmd, status, FALSE)
    BY <1>0, <1>1, <2>3, RowUpdate
  <2> HIDE DEF end
  <2>7. CommandPolls(status)
    BY <1>1, <2>3, <2>4, <2>5, <2>6 DEF CommandPolls, CanPoll, Same
  <2> QED
    BY <2>3, <2>7 DEF Concludes, Same
<1>2. CASE ~ (t.act = "evaluate" /\ status # "unavailable" /\ CanPoll(p))
  <2>1. /\ queue' = Tail(queue)
        /\ panel' = IF t.act = "evaluate" \/ t.ends THEN [p EXCEPT !.submitting = FALSE] ELSE p
    BY <1>2 DEF RowEnds
  <2> DEFINE q == [p EXCEPT !.submitting = FALSE]
  <2>2. q \in Panels
    BY <1>0 DEF Panels
  <2>3. /\ q.session = p.session /\ q.live = p.live /\ q.target = p.target /\ q.usable = p.usable
        /\ q.submitting = FALSE
    BY <1>0 DEF Panels
  <2> HIDE DEF q
  <2>4. Sound(q) /\ Keeps(panel, q) /\ Within(panel, q)
    BY <2>2, <2>3 DEF Sound, Keeps, Within
  <2>5. panel' = IF t.act = "evaluate" \/ t.ends THEN q ELSE p
    BY <2>1 DEF q
  <2>6. /\ Sound(panel') /\ panel'.session = panel.session
        /\ Keeps(panel, panel') /\ Within(panel, panel')
        /\ panel'.submitting = IF t.act = "evaluate" \/ t.ends THEN FALSE ELSE panel.submitting
    BY <2>3, <2>4, <2>5 DEF Same
  <2>7. CASE t.act = "evaluate"
    <3>1. rows' = [rows EXCEPT ![t.cmd].status = status, ![t.cmd].result = (status # "unavailable")]
      BY <1>2, <2>7 DEF RowEnds
    <3>2. t.cmd \in Commands
      BY <1>0, <2>7
    <3>3. ASSUME status = "unavailable" PROVE Marked(t.cmd, status, FALSE)
      <4>1. rows' = [rows EXCEPT ![t.cmd].status = status, ![t.cmd].result = FALSE]
        BY <3>1, <3>3
      <4> QED
        BY <1>0, <3>2, <4>1, RowUpdate
    <3>4. ASSUME status # "unavailable" PROVE Marked(t.cmd, status, TRUE)
      <4>1. rows' = [rows EXCEPT ![t.cmd].status = status, ![t.cmd].result = TRUE]
        BY <3>1, <3>4
      <4> QED
        BY <1>0, <3>2, <4>1, RowUpdate
    <3>5. CommandEnds(status)
      BY <2>1, <2>6, <2>7, <3>3, <3>4 DEF CommandEnds, Marked
    <3> QED
      BY <2>6, <3>5 DEF Concludes
  <2>8. CASE t.act # "evaluate"
    <3>1. rows' = IF t.ends THEN [rows EXCEPT ![t.cmd].result = TRUE] ELSE rows
      BY <2>8 DEF RowEnds
    <3>2. t.ends => Marked(t.cmd, rows[t.cmd].status, TRUE)
      BY <1>0, <3>1, RowUpdate
    <3>3. OtherEnds
      BY <2>1, <2>6, <2>8, <3>1, <3>2 DEF OtherEnds
    <3> QED
      BY <2>6, <3>3 DEF Concludes
  <2> QED
    BY <2>7, <2>8
<1> QED
  BY <1>1, <1>2

\* A request that was answered: the views of the panel that an answer starts from.
LEMMA ReconnectedSound ==
    ASSUME Sound(panel)
    PROVE  LET p == [panel EXCEPT !.disconnected = FALSE]
               q == [invalidateTargets(panel) EXCEPT !.disconnected = TRUE] IN
           /\ Sound(p) /\ Same(panel, p) /\ Keeps(panel, p) /\ Within(panel, p)
           /\ Sound(invalidateTargets(p)) /\ Same(panel, invalidateTargets(p))
           /\ Keeps(panel, invalidateTargets(p)) /\ Within(panel, invalidateTargets(p))
           /\ Sound(q) /\ Same(panel, q) /\ Keeps(panel, q) /\ Within(panel, q)
<1> DEFINE p == [panel EXCEPT !.disconnected = FALSE]
           i == invalidateTargets(panel)
           q == [i EXCEPT !.disconnected = TRUE]
<1>1. p \in Panels
  BY DEF Sound, Panels
<1>2. Same(panel, p) /\ p.usable = panel.usable /\ p.target = panel.target /\ p.live = panel.live
  BY DEF Sound, Panels, Same
<1> HIDE DEF p
<1>3. Sound(p) /\ Keeps(panel, p) /\ Within(panel, p)
  BY <1>1, <1>2 DEF Sound, Keeps, Within
<1>4. /\ Sound(invalidateTargets(p)) /\ Same(p, invalidateTargets(p)) /\ Keeps(p, invalidateTargets(p))
      /\ Within(p, invalidateTargets(p))
  BY <1>3, InvalidateSound
<1>5. /\ Same(panel, invalidateTargets(p)) /\ Keeps(panel, invalidateTargets(p))
      /\ Within(panel, invalidateTargets(p))
  BY <1>2, <1>4 DEF Same, Keeps, Within
<1>6. Sound(i) /\ Same(panel, i) /\ Keeps(panel, i) /\ Within(panel, i)
  BY InvalidateSound
<1> HIDE DEF i
<1>7. q \in Panels
  BY <1>6 DEF Sound, Panels
<1>8. Same(i, q) /\ q.usable = i.usable /\ q.target = i.target /\ q.live = i.live
  BY <1>6 DEF Sound, Panels, Same
<1> HIDE DEF q
<1>9. Sound(q) /\ Same(panel, q) /\ Keeps(panel, q) /\ Within(panel, q)
  BY <1>6, <1>7, <1>8 DEF Sound, Same, Keeps, Within
<1> QED
  BY <1>3, <1>2, <1>4, <1>5, <1>9 DEF p, i, q

LEMMA ConcludesAre ==
    ASSUME IInv, Skip \/ Fails \/ Delivered
    PROVE  \E status \in {"unavailable", "complete", "stale_target"} : Concludes(status)
<1>0. Sound(panel) /\ head \in {Idle, [at |-> "sent"]} \cup Answers /\ (head # Idle => queue # <<>>)
  BY TypesAre DEF IInv, TypeOK, QueueTypes
<1>1. Same(panel, panel) /\ Keeps(panel, panel) /\ Within(panel, panel)
  BY DEF Same, Keeps, Within
<1>2. CASE Skip
  <2>1. /\ queue # <<>> /\ RowEnds(Head(queue), panel, Tail(queue), "unavailable") /\ head' = Idle
        /\ UNCHANGED <<late, listing, ran, failures>>
    BY <1>2 DEF Skip
  <2>2. Concludes("unavailable")
    BY <1>0, <1>1, <2>1, RowEndsAre
  <2> QED
    BY <2>2
<1>3. CASE Fails
  <2> DEFINE q == [invalidateTargets(panel) EXCEPT !.disconnected = TRUE]
             t == Head(queue)
             p == IF t.act \in {"watch", "document_start"} \/ ~(t.act = "stop" \/ t.current)
                  THEN panel ELSE q
  <2>1. Sound(q) /\ Same(panel, q) /\ Keeps(panel, q) /\ Within(panel, q)
    BY <1>0, ReconnectedSound
  <2>2. /\ queue # <<>> /\ RowEnds(Head(queue), p, Tail(queue), "unavailable") /\ head' = Idle
        /\ UNCHANGED <<late, listing, ran, failures>>
    BY <1>0, <1>3 DEF Fails, FailedTasks, Idle
  <2> HIDE DEF q
  <2>3. Sound(p) /\ Same(panel, p) /\ Keeps(panel, p) /\ Within(panel, p)
    BY <1>0, <1>1, <2>1
  <2> HIDE DEF p
  <2>4. Concludes("unavailable")
    BY <2>2, <2>3, RowEndsAre
  <2> QED
    BY <2>4
<1>4. CASE Delivered
  <2> DEFINE p == [panel EXCEPT !.disconnected = FALSE]
             t == Head(queue)
  <2>1. /\ Sound(p) /\ Same(panel, p) /\ Keeps(panel, p) /\ Within(panel, p)
        /\ Sound(invalidateTargets(p)) /\ Same(panel, invalidateTargets(p))
        /\ Keeps(panel, invalidateTargets(p)) /\ Within(panel, invalidateTargets(p))
    BY <1>0, ReconnectedSound
  <2>2. /\ head.at = "answered" /\ head.status # "refused" /\ head # Idle
        /\ head' = Idle /\ UNCHANGED <<late, listing, ran, failures>>
        /\ \/ RowEnds(t, panel, Tail(queue), "unavailable")
           \/ t.current /\ head.status = "ok" /\ RowEnds(t, p, Tail(queue), "complete")
           \/ t.current /\ head.status # "ok" /\ RowEnds(t, invalidateTargets(p), Tail(queue), "stale_target")
    BY <1>4 DEF Delivered, Answer, Idle, Shown
  <2>3. head.status \in {"ok", "stale_target", "refused"}
    BY <1>0, <2>2 DEF Answers, Idle
  <2> HIDE DEF p
  <2>4. CASE RowEnds(t, panel, Tail(queue), "unavailable")
    <3>1. Concludes("unavailable")
      BY <1>0, <1>1, <2>2, <2>4, RowEndsAre
    <3> QED
      BY <3>1
  <2>5. CASE t.current /\ head.status = "ok" /\ RowEnds(t, p, Tail(queue), "complete")
    <3>1. Concludes("complete")
      BY <1>0, <2>1, <2>2, <2>5, RowEndsAre
    <3> QED
      BY <3>1
  <2>6. CASE t.current /\ head.status # "ok" /\ RowEnds(t, invalidateTargets(p), Tail(queue), "stale_target")
    <3>1. head.status = "stale_target"
      BY <2>2, <2>3, <2>6
    <3>2. Concludes("stale_target")
      BY <1>0, <2>1, <2>2, <2>6, <3>1, RowEndsAre
    <3> QED
      BY <3>2
  <2> QED
    BY <2>2, <2>4, <2>5, <2>6
<1> QED
  BY <1>2, <1>3, <1>4

LEMMA SettlesAre ==
    ASSUME IInv, Connected \/ Stopped \/ Listed \/ Watched \/ DocumentStartRead
    PROVE  Settles
<1>0. /\ Sound(panel) /\ head \in {Idle, [at |-> "sent"]} \cup Answers /\ (head # Idle => queue # <<>>)
      /\ queue \in Seq(Requests)
  BY TypesAre DEF IInv, TypeOK, QueueTypes
<1>1. ASSUME NEW act, Answer(act)
      PROVE  /\ head # Idle /\ queue # <<>> /\ Head(queue) \in Requests /\ head.value \in Reads
             /\ Head(queue).act = act
  BY <1>0, <1>1 DEF Answer, Idle, Answers
<1>2. CASE Connected
  <2> DEFINE t == Head(queue)
             live == t.act = "connect_live"
             p == [panel EXCEPT !.session = head.value.session, !.live = live, !.disconnected = FALSE]
             selected == IF live THEN t.target ELSE p.target
  <2>1. /\ queue # <<>> /\ t \in Requests /\ head.value \in Reads
        /\ t.act \in {"start", "connect_live"}
    BY <1>1, <1>2 DEF Connected
  <2>2. p \in Panels
    BY <1>0, <2>1 DEF Sound, Panels, Reads
  <2>3. p.submitting = panel.submitting /\ p.usable = panel.usable /\ p.target = panel.target
    BY <1>0 DEF Sound, Panels
  <2>4. head.value.docs \in SUBSET Docs /\ t.target \in Documents /\ p.target \in Documents
    BY <2>1, <2>2 DEF Reads, Requests, Panels
  <2>5. \/ queue' = Tail(queue) /\ panel' = panel /\ listing' = listing
        \/ /\ queue' = Aged(Tail(queue)) /\ listing' = AgedListing
           /\ panel' = targets(p, head.value.docs, selected, FALSE)
    BY <1>2 DEF Connected
  <2>6. head' = Idle /\ UNCHANGED <<late, rows, ran, failures>>
    BY <1>2 DEF Connected
  <2> HIDE DEF p
  <2>7. Sound(p) /\ selected \in Documents
    BY <1>0, <2>2, <2>3, <2>4 DEF Sound
  <2> HIDE DEF selected
  <2>8. /\ Sound(targets(p, head.value.docs, selected, FALSE))
        /\ Same(p, targets(p, head.value.docs, selected, FALSE))
    BY <2>4, <2>7, TargetsSound
  <2> QED
    BY <2>1, <2>3, <2>5, <2>6, <2>8 DEF Settles, Same
<1>3. CASE Stopped
  <2> DEFINE p == [panel EXCEPT !.session = None, !.consent = FALSE, !.disconnected = FALSE]
  <2>1. p \in Panels
    BY <1>0 DEF Sound, Panels, None
  <2>2. p.submitting = panel.submitting /\ p.usable = panel.usable /\ p.target = panel.target
    BY <1>0 DEF Sound, Panels
  <2>3. /\ queue # <<>> /\ Head(queue).act = "stop"
        /\ head' = Idle /\ UNCHANGED <<late, rows, ran, failures>>
        /\ queue' = Aged(Tail(queue)) /\ listing' = AgedListing
        /\ panel' = IF p.live THEN p ELSE clearTargets(p)
    BY <1>1, <1>3 DEF Stopped
  <2> HIDE DEF p
  <2>4. Sound(p)
    BY <1>0, <2>1, <2>2 DEF Sound
  <2>5. Sound(clearTargets(p)) /\ Same(p, clearTargets(p))
    BY <2>4, InvalidateSound
  <2> QED
    BY <2>2, <2>3, <2>4, <2>5 DEF Settles, Same
<1>4. CASE Listed
  <2> DEFINE p == [panel EXCEPT !.disconnected = FALSE]
             invalid == p.live /\ head.value.selected = NoDoc
  <2>1. Sound(p) /\ Same(panel, p)
    BY <1>0, ReconnectedSound
  <2>2. /\ queue # <<>> /\ Head(queue).act = "targets" /\ head.value \in Reads
        /\ head' = Idle /\ UNCHANGED <<late, rows, ran, failures>>
        /\ \/ queue' = Tail(queue) /\ panel' = panel /\ listing' = listing
           \/ /\ queue' = Aged(Tail(queue)) /\ listing' = AgedListing
              /\ panel' = targets(p, head.value.docs, p.target, invalid)
    BY <1>1, <1>4 DEF Listed
  <2> HIDE DEF p, invalid
  <2>3. head.value.docs \in SUBSET Docs /\ p.target \in Documents
    BY <2>1, <2>2 DEF Reads, Sound, Panels
  <2>4. /\ Sound(targets(p, head.value.docs, p.target, invalid))
        /\ Same(p, targets(p, head.value.docs, p.target, invalid))
    BY <2>1, <2>3, TargetsSound
  <2> QED
    BY <2>1, <2>2, <2>4 DEF Settles, Same
<1>5. CASE Watched
  <2> DEFINE p == [panel EXCEPT !.session = None, !.consent = FALSE]
             q == IF p.live THEN p ELSE clearTargets(p)
  <2>1. p \in Panels
    BY <1>0 DEF Sound, Panels, None
  <2>2. p.submitting = panel.submitting /\ p.usable = panel.usable /\ p.target = panel.target
    BY <1>0 DEF Sound, Panels
  <2>3. /\ queue # <<>> /\ Head(queue).act = "watch" /\ head.value \in Reads
        /\ head' = Idle /\ UNCHANGED <<late, rows, ran, failures>>
        /\ \/ queue' = Tail(queue) /\ panel' = panel /\ listing' = listing
           \/ /\ queue' = Aged(Tail(queue)) /\ listing' = AgedListing
              /\ panel' = captureState(q, head.value)
    BY <1>1, <1>5 DEF Watched
  <2> HIDE DEF p
  <2>4. Sound(p)
    BY <1>0, <2>1, <2>2 DEF Sound
  <2>5. Sound(q) /\ q.submitting = panel.submitting
    BY <2>2, <2>4, InvalidateSound DEF Same
  <2> HIDE DEF q
  <2>6. Sound(captureState(q, head.value)) /\ Same(q, captureState(q, head.value))
    BY <2>3, <2>5, CaptureSound
  <2> QED
    BY <2>3, <2>5, <2>6 DEF Settles, Same
<1>6. CASE DocumentStartRead
  BY <1>1, <1>6 DEF DocumentStartRead, Settles
<1> QED
  BY <1>2, <1>3, <1>4, <1>5, <1>6

LEMMA StaysAre ==
    ASSUME IInv, Owner \/ RefreshLiveDocuments \/ Consent \/ LiveDocumentsListed \/ RequestFails
                    \/ OwnerHandles \/ Begin \/ (\E l \in late : LateHandled(l)) \/ UNCHANGED vars
    PROVE  Stays
<1>0. Sound(panel) /\ panel \in Panels
  BY TypesAre DEF Sound
<1>1. ASSUME UNCHANGED <<queue, rows, panel>> PROVE Stays
  BY <1>0, <1>1 DEF Stays, Same, Keeps
<1>2. CASE \/ Owner \/ RefreshLiveDocuments \/ RequestFails \/ OwnerHandles \/ Begin
           \/ (\E l \in late : LateHandled(l)) \/ UNCHANGED vars
  BY <1>1, <1>2 DEF Owner, DocumentCloses, SessionEnds, OtherConnects, RefreshLiveDocuments,
     RequestFails, OwnerHandles, LateHandled, Begin, vars
<1>3. CASE Consent
  <2>1. panel' = [panel EXCEPT !.consent = ~ panel.consent] /\ UNCHANGED <<queue, rows>>
    BY <1>3 DEF Consent
  <2>2. panel' \in Panels
    BY <1>0, <2>1 DEF Panels
  <2>3. /\ Same(panel, panel') /\ panel'.usable = panel.usable /\ panel'.target = panel.target
        /\ panel'.live = panel.live
    BY <1>0, <2>1 DEF Panels, Same
  <2> QED
    BY <1>0, <2>1, <2>2, <2>3 DEF Stays, Sound, Keeps
<1>4. CASE LiveDocumentsListed
  <2>1. UNCHANGED <<queue, rows>>
    BY <1>4 DEF LiveDocumentsListed
  <2>2. CASE panel' = panel
    BY <1>1, <2>1, <2>2
  <2>3. CASE panel' # panel
    <3>1. /\ panel.session = None /\ ~ Pending /\ listing \notin {Idle, Dropped}
          /\ panel' = captureState(panel, listing.value)
      BY <1>4, <2>3 DEF LiveDocumentsListed
    <3>2. listing.value \in Reads
      BY <3>1 DEF IInv, TypeOK, RecordTypes
    <3>3. Sound(panel') /\ Same(panel, panel') /\ Keeps(panel, panel')
      BY <1>0, <3>1, <3>2, CaptureSound
    <3> QED
      BY <2>1, <3>1, <3>3 DEF Stays, Pending
  <2> QED
    BY <2>2, <2>3
<1> QED
  BY <1>2, <1>3, <1>4

LEMMA Steps ==
    ASSUME IInv, [Next]_vars
    PROVE  \/ Stays \/ Ages \/ Settles \/ (\E t : Adds(t))
           \/ \E status \in {"unavailable", "complete", "stale_target"} : Concludes(status)
BY StaysAre, AgesAre, SettlesAre, AddsAre, ConcludesAre DEF Next, User, Timer, Exchange, Answered

----------------------------------------------------------------------------
(* The queue *)

\* The request u is t, perhaps overtaken by a newer generation.
Kept(t, u) ==
    /\ u \in Requests
    /\ u.act = t.act /\ u.session = t.session /\ u.target = t.target /\ u.cmd = t.cmd
    /\ u.ends = t.ends /\ (u.current => t.current)

\* The queue goes on behind its first n requests.
Moves(n) ==
    /\ queue' \in Seq(Requests) /\ Len(queue') = Len(queue) - n
    /\ \A i \in 1 .. Len(queue') : i + n \in 1 .. Len(queue) /\ Kept(queue[i + n], queue'[i])

\* It goes on behind its first n requests, with one more at its end.
Grows(n, t) ==
    /\ t \in Requests
    /\ queue' \in Seq(Requests) /\ Len(queue') = Len(queue) - n + 1
    /\ queue'[Len(queue')] = t
    /\ \A i \in 1 .. Len(queue') :
          i # Len(queue') => i + n \in 1 .. Len(queue) /\ Kept(queue[i + n], queue'[i])

\* The poll that ends the command at the head.
PollOf(end) == /\ end.act = "poll" /\ end.ends /\ end.session # None
               /\ end.cmd = Head(queue).cmd /\ Head(queue).act = "evaluate"

Overaged == \A i \in 1 .. Len(queue') : ~ queue'[i].current

LEMMA KeptSelf == \A t \in Requests : Kept(t, t)
BY DEF Kept

LEMMA AgedIs ==
    ASSUME NEW tasks \in Seq(Requests)
    PROVE  /\ Aged(tasks) \in Seq(Requests) /\ Len(Aged(tasks)) = Len(tasks)
           /\ \A i \in 1 .. Len(tasks) : Kept(tasks[i], Aged(tasks)[i]) /\ ~ Aged(tasks)[i].current
<1>1. ASSUME NEW i \in 1 .. Len(tasks)
      PROVE  /\ Aged(tasks)[i] \in Requests
             /\ Kept(tasks[i], Aged(tasks)[i]) /\ ~ Aged(tasks)[i].current
  <2>1. Aged(tasks)[i] = [tasks[i] EXCEPT !.current = FALSE]
    BY DEF Aged
  <2>2. tasks[i] \in Requests
    BY ElementOfSeq
  <2> QED
    BY <2>1, <2>2 DEF Requests, Kept
<1>2. Aged(tasks) \in [1 .. Len(tasks) -> Requests]
  BY <1>1 DEF Aged
<1>3. Len(tasks) \in Nat
  OBVIOUS
<1>4. Aged(tasks) \in Seq(Requests) /\ Len(Aged(tasks)) = Len(tasks)
  BY <1>2, <1>3, IsASeq, LenProperties
<1> QED
  BY <1>1, <1>4

LEMMA TailIs ==
    ASSUME NEW tasks \in Seq(Requests), tasks # <<>>
    PROVE  /\ Tail(tasks) \in Seq(Requests) /\ Len(Tail(tasks)) = Len(tasks) - 1
           /\ Len(tasks) \in Nat \ {0} /\ Head(tasks) = tasks[1] /\ Head(tasks) \in Requests
           /\ \A i \in 1 .. Len(Tail(tasks)) : /\ i + 1 \in 1 .. Len(tasks)
                                              /\ Tail(tasks)[i] = tasks[i + 1]
OBVIOUS

\* What each kind of step does to the queue.
LEMMA QueueMoves ==
    ASSUME IInv
    PROVE  /\ Stays => Moves(0) /\ queue' = queue
           /\ Ages => Moves(0) /\ Overaged
           /\ \A t : Adds(t) => Grows(0, t)
           /\ Settles => Moves(1) /\ ((queue' = Tail(queue) /\ panel' = panel) \/ Overaged)
           /\ \A status : Concludes(status) =>
                 \/ (CommandEnds(status) \/ OtherEnds) /\ Moves(1)
                 \/ CommandPolls(status) /\ \E end \in Requests : Grows(1, end) /\ PollOf(end)
<1>0. queue \in Seq(Requests) /\ Len(queue) \in Nat
  BY DEF IInv, TypeOK, QueueTypes
<1>1. ASSUME Stays PROVE Moves(0) /\ queue' = queue
  <2>1. queue' = queue
    BY <1>1 DEF Stays
  <2>2. \A i \in 1 .. Len(queue) : i + 0 = i /\ Kept(queue[i], queue[i])
    BY <1>0, KeptSelf, ElementOfSeq
  <2> QED
    BY <1>0, <2>1, <2>2 DEF Moves
<1>2. ASSUME Ages PROVE Moves(0) /\ Overaged
  <2>1. queue' = Aged(queue)
    BY <1>2 DEF Ages
  <2>2. /\ queue' \in Seq(Requests) /\ Len(queue') = Len(queue)
        /\ \A i \in 1 .. Len(queue) : Kept(queue[i], queue'[i]) /\ ~ queue'[i].current
    BY <1>0, <2>1, AgedIs
  <2>3. \A i \in 1 .. Len(queue) : i + 0 = i
    BY <1>0
  <2> QED
    BY <1>0, <2>2, <2>3 DEF Moves, Overaged
<1>3. ASSUME NEW t, Adds(t) PROVE Grows(0, t)
  <2>1. queue' = Append(queue, t) /\ t \in Requests
    BY <1>3 DEF Adds
  <2>2. /\ queue' \in Seq(Requests) /\ Len(queue') = Len(queue) + 1
        /\ queue'[Len(queue')] = t
        /\ \A i \in 1 .. Len(queue) : queue'[i] = queue[i]
    BY <1>0, <2>1, AppendProperties
  <2>3. ASSUME NEW i \in 1 .. Len(queue'), i # Len(queue')
        PROVE  i + 0 \in 1 .. Len(queue) /\ Kept(queue[i + 0], queue'[i])
    <3>1. i \in 1 .. Len(queue) /\ i + 0 = i
      BY <1>0, <2>2, <2>3
    <3>2. queue[i] \in Requests
      BY <1>0, <3>1, ElementOfSeq
    <3> QED
      BY <2>2, <3>1, <3>2, KeptSelf
  <2> QED
    BY <1>0, <2>1, <2>2, <2>3 DEF Grows
<1>4. ASSUME queue # <<>>, queue' = Tail(queue) PROVE Moves(1)
  <2>1. \A i \in 1 .. Len(queue') : i + 1 \in 1 .. Len(queue) /\ Kept(queue[i + 1], queue'[i])
    BY <1>0, <1>4, TailIs, KeptSelf, ElementOfSeq
  <2> QED
    BY <1>0, <1>4, <2>1, TailIs DEF Moves
<1>5. ASSUME Settles
      PROVE  Moves(1) /\ ((queue' = Tail(queue) /\ panel' = panel) \/ Overaged)
  <2>1. CASE queue' = Tail(queue) /\ panel' = panel
    BY <1>4, <1>5, <2>1 DEF Settles
  <2>2. CASE queue' = Aged(Tail(queue))
    <3>1. queue # <<>>
      BY <1>5 DEF Settles
    <3>2. /\ Tail(queue) \in Seq(Requests) /\ Len(Tail(queue)) = Len(queue) - 1
          /\ \A i \in 1 .. Len(Tail(queue)) : /\ i + 1 \in 1 .. Len(queue)
                                             /\ Tail(queue)[i] = queue[i + 1]
      BY <1>0, <3>1, TailIs
    <3>3. /\ queue' \in Seq(Requests) /\ Len(queue') = Len(Tail(queue))
          /\ \A i \in 1 .. Len(Tail(queue)) : Kept(Tail(queue)[i], queue'[i]) /\ ~ queue'[i].current
      BY <2>2, <3>2, AgedIs
    <3> QED
      BY <3>2, <3>3 DEF Moves, Overaged
  <2> QED
    BY <1>5, <2>1, <2>2 DEF Settles
<1>6. ASSUME NEW status, Concludes(status)
      PROVE  \/ (CommandEnds(status) \/ OtherEnds) /\ Moves(1)
             \/ CommandPolls(status) /\ \E end \in Requests : Grows(1, end) /\ PollOf(end)
  <2>1. queue # <<>>
    BY <1>6 DEF Concludes
  <2>2. CASE CommandEnds(status) \/ OtherEnds
    BY <1>4, <2>1, <2>2 DEF CommandEnds, OtherEnds
  <2>3. ASSUME NEW end \in Requests, queue' = Append(Tail(queue), end)
        PROVE  Grows(1, end)
    <3>1. /\ Tail(queue) \in Seq(Requests) /\ Len(Tail(queue)) = Len(queue) - 1
          /\ \A i \in 1 .. Len(Tail(queue)) : /\ i + 1 \in 1 .. Len(queue)
                                             /\ Tail(queue)[i] = queue[i + 1]
      BY <1>0, <2>1, TailIs
    <3>2. /\ queue' \in Seq(Requests) /\ Len(queue') = Len(Tail(queue)) + 1
          /\ queue'[Len(queue')] = end
          /\ \A i \in 1 .. Len(Tail(queue)) : queue'[i] = Tail(queue)[i]
      BY <2>3, <3>1, AppendProperties
    <3>3. ASSUME NEW i \in 1 .. Len(queue'), i # Len(queue')
          PROVE  i + 1 \in 1 .. Len(queue) /\ Kept(queue[i + 1], queue'[i])
      <4>1. i \in 1 .. Len(Tail(queue))
        BY <3>1, <3>2, <3>3
      <4>2. queue'[i] = queue[i + 1] /\ i + 1 \in 1 .. Len(queue)
        BY <3>1, <3>2, <4>1
      <4> QED
        BY <1>0, <4>2, KeptSelf, ElementOfSeq
    <3>4. Len(queue') = Len(queue) - 1 + 1
      BY <3>1, <3>2
    <3> QED
      BY <3>2, <3>3, <3>4 DEF Grows
  <2>4. CASE CommandPolls(status)
    <3>1. PICK end \in Requests : PollOf(end) /\ queue' = Append(Tail(queue), end)
      BY <2>4 DEF CommandPolls, PollOf
    <3> QED
      BY <2>3, <2>4, <3>1
  <2> QED
    BY <1>6, <2>2, <2>4 DEF Concludes
<1> QED
  BY <1>1, <1>2, <1>3, <1>5, <1>6

----------------------------------------------------------------------------
(* The types *)

LEMMA HeadStep ==
    ASSUME IInv, [Next]_vars
    PROVE  /\ head' \in {Idle, [at |-> "sent"]} \cup Answers
           /\ head' # Idle => queue # <<>> /\ queue' # <<>> /\ Kept(Head(queue), Head(queue'))
<1>0. /\ head \in {Idle, [at |-> "sent"]} \cup Answers /\ (head # Idle => queue # <<>>)
      /\ queue \in Seq(Requests)
  BY DEF IInv, TypeOK, QueueTypes
<1>1. Nothing \in Reads /\ State \in Reads
  BY NoDocs, ReadsAre DEF IInv, TypeOK, Nothing, Reads, None
<1>2. Blank = [at |-> "answered", status |-> "refused", value |-> Nothing]
  BY DEF Blank
<1>3. \A status \in {"ok", "stale_target", "refused"} : [Blank EXCEPT !.status = status] \in Answers
  BY <1>1, <1>2 DEF Answers
<1>4. Blank \in Answers
  BY <1>1, <1>2 DEF Answers
<1>5. Listing \in Answers
  <2> DEFINE value == [session |-> owner'.session, capture |-> FALSE, docs |-> owner'.docs,
                       selected |-> Selected']
  <2>1. OwnerTypes'
    BY OwnerTypesStep
  <2>2. value \in Reads
    BY <2>1, NoDocs DEF OwnerTypes, Selected, Reads
  <2>3. Listing = [Blank EXCEPT !.status = "ok", !.value = value]
    BY DEF Listing
  <2> HIDE DEF value
  <2> QED
    BY <1>1, <1>2, <2>2, <2>3 DEF Answers
<1>6. ASSUME queue # <<>>, queue' = queue
       PROVE  queue' # <<>> /\ Kept(Head(queue), Head(queue'))
  BY <1>0, <1>6, TailIs, KeptSelf
<1>7. CASE Begin
  <2>1. /\ queue # <<>> /\ queue' = queue
        /\ \/ head' = [at |-> "sent"]
           \/ head' = [Blank EXCEPT !.status = "ok",
                           !.value = IF Head(queue).act = "watch" THEN State ELSE Blank.value]
    BY <1>7 DEF Begin
  <2>2. \A value \in Reads : [Blank EXCEPT !.status = "ok", !.value = value] \in Answers
    BY <1>1, <1>2 DEF Answers
  <2>3. (IF Head(queue).act = "watch" THEN State ELSE Blank.value) \in Reads
    BY <1>1, <1>2
  <2> QED
    BY <1>6, <2>1, <2>2, <2>3
<1>8. CASE OwnerHandles
  <2>1. queue' = queue /\ head # Idle
    BY <1>8 DEF OwnerHandles, Idle
  <2>2. head' \in {Listing, Blank, [Blank EXCEPT !.status = "ok"], [Blank EXCEPT !.status = "stale_target"]}
    BY <1>8 DEF OwnerHandles, Reply
  <2> QED
    BY <1>0, <1>3, <1>4, <1>5, <1>6, <2>1, <2>2
<1>9. CASE RequestFails
  <2>1. queue' = queue /\ head # Idle /\ head' = Blank
    BY <1>9 DEF RequestFails, Idle
  <2> QED
    BY <1>0, <1>4, <1>6, <2>1
<1>10. ASSUME ~ (Begin \/ OwnerHandles \/ RequestFails), head' # Idle
      PROVE  head' = head
  BY <1>10 DEF Next, User, Timer, Exchange, Answered, Skip, Fails, Connected, Stopped, Listed,
     Delivered, Watched, DocumentStartRead, LiveDocumentsListed, Start, Stop, Refresh,
     ChangeMode, Consent, SelectTarget, Submit, Poll, WatchSession, DocumentStart,
     RefreshLiveDocuments, LateHandled, vars, Owner, DocumentCloses, SessionEnds, OtherConnects
<1>11. ASSUME ~ (Begin \/ OwnerHandles \/ RequestFails), head' # Idle
       PROVE  queue # <<>> /\ queue' # <<>> /\ Kept(Head(queue), Head(queue'))
  <2>1. queue # <<>> /\ Head(queue) = queue[1] /\ 1 \in 1 .. Len(queue) /\ Len(queue) \in Nat
    BY <1>0, <1>10, <1>11
  <2>2. \/ Stays \/ Ages \/ \E t : Adds(t)
    BY <1>11, Steps DEF Settles, Concludes
  <2>3. ASSUME Moves(0) PROVE queue' # <<>> /\ Kept(Head(queue), Head(queue'))
    <3>1. queue' \in Seq(Requests) /\ 1 \in 1 .. Len(queue') /\ Kept(queue[1 + 0], queue'[1])
      BY <2>1, <2>3 DEF Moves
    <3> QED
      BY <2>1, <3>1
  <2>4. ASSUME NEW t, Grows(0, t) PROVE queue' # <<>> /\ Kept(Head(queue), Head(queue'))
    <3>1. /\ queue' \in Seq(Requests) /\ 1 \in 1 .. Len(queue') /\ 1 # Len(queue')
          /\ Kept(queue[1 + 0], queue'[1])
      BY <2>1, <2>4 DEF Grows
    <3> QED
      BY <2>1, <3>1
  <2>5. (Stays \/ Ages => Moves(0)) /\ \A t : Adds(t) => Grows(0, t)
    BY QueueMoves
  <2> QED
    BY <2>1, <2>2, <2>3, <2>4, <2>5
<1> QED
  BY <1>0, <1>7, <1>8, <1>9, <1>10, <1>11

LEMMA QueueTypesStep ==
    ASSUME IInv, [Next]_vars
    PROVE  QueueTypes'
<1>0. Len(queue) \in Nat /\ Len(queue) <= MaxQueue /\ MaxQueue \in Nat /\ queue \in Seq(Requests)
  BY ConsoleAssumption DEF IInv, TypeOK, QueueTypes
<1>1. ASSUME Moves(0) PROVE queue' \in Seq(Requests) /\ Len(queue') <= MaxQueue
  BY <1>0, <1>1 DEF Moves
<1>2. ASSUME Moves(1) PROVE queue' \in Seq(Requests) /\ Len(queue') <= MaxQueue
  BY <1>0, <1>2 DEF Moves
<1>3. ASSUME NEW t, Adds(t) PROVE queue' \in Seq(Requests) /\ Len(queue') <= MaxQueue
  <2>1. Grows(0, t) /\ Len(queue) < MaxQueue
    BY <1>3, QueueMoves DEF Adds
  <2> QED
    BY <1>0, <2>1 DEF Grows
<1>4. ASSUME NEW status, Concludes(status)
      PROVE  queue' \in Seq(Requests) /\ Len(queue') <= MaxQueue
  <2>1. Moves(1) \/ \E end \in Requests : Grows(1, end)
    BY <1>4, QueueMoves
  <2>2. ASSUME NEW end, Grows(1, end) PROVE queue' \in Seq(Requests) /\ Len(queue') <= MaxQueue
    BY <1>0, <2>2 DEF Grows
  <2> QED
    BY <1>2, <2>1, <2>2
<1>5. (Stays \/ Ages => Moves(0)) /\ (Settles => Moves(1))
  BY QueueMoves
<1>6. queue' \in Seq(Requests) /\ Len(queue') <= MaxQueue
  BY <1>1, <1>2, <1>3, <1>4, <1>5, Steps
<1>7. head' \in {Idle, [at |-> "sent"]} \cup Answers /\ (head' # Idle => queue' # <<>>)
  BY HeadStep
<1> QED
  BY <1>6, <1>7 DEF QueueTypes, Idle

LEMMA PanelTypesStep ==
    ASSUME IInv, [Next]_vars
    PROVE  PanelTypes'
<1>1. Sound(panel)
  BY TypesAre
<1>2. ASSUME NEW t, Adds(t) PROVE Sound(panel')
  <2>1. panel' = panel \/ panel' = [panel EXCEPT !.submitting = TRUE]
    BY <1>2 DEF Adds
  <2> QED
    BY <1>1, <2>1 DEF Sound, Panels
<1>3. Sound(panel')
  BY <1>1, <1>2, Steps DEF Stays, Ages, Settles, Concludes
<1> QED
  BY <1>3 DEF PanelTypes, Sound

\* The command at the head runs.
HeadRuns ==
    LET t == Head(queue) IN
    /\ t.act = "evaluate" /\ Accepts(t) /\ RunsIn(t)
    /\ head = [at |-> "sent"] /\ head'.at = "answered" /\ head'.status = "ok"
    /\ t.cmd \in Commands /\ ran' = [ran EXCEPT ![t.cmd] = ran[t.cmd] + 1]
    /\ UNCHANGED <<owner, panel, queue, late, rows>>

\* A command that was given up does.
LateRuns(l) ==
    LET t == l.request IN
    /\ t.act = "evaluate" /\ Accepts(t) /\ RunsIn(t)
    /\ t.cmd \in Commands /\ ran' = [ran EXCEPT ![t.cmd] = ran[t.cmd] + 1]
    /\ late' = late \ {l}
    /\ UNCHANGED <<owner, panel, queue, head, rows>>

LEMMA RanStep ==
    ASSUME IInv, [Next]_vars
    PROVE  ran' = ran \/ HeadRuns \/ \E l \in late : LateRuns(l)
<1>0. head \in {Idle, [at |-> "sent"]} \cup Answers /\ (head # Idle => queue # <<>>)
      /\ queue \in Seq(Requests)
  BY DEF IInv, TypeOK, QueueTypes
<1>1. ASSUME NEW t, Handles(t), ran' # ran
      PROVE  /\ t.act = "evaluate" /\ Accepts(t) /\ RunsIn(t)
             /\ ran' = [ran EXCEPT ![t.cmd] = ran[t.cmd] + 1] /\ UNCHANGED <<owner, opened>>
  BY <1>1 DEF Handles, Connects, Disconnects, Runs
<1>2. CASE OwnerHandles /\ ran' # ran
  <2> DEFINE t == Head(queue)
  <2>1. /\ head = [at |-> "sent"] /\ head # Idle
        /\ Handles(t) /\ head' = Reply(t) /\ UNCHANGED <<panel, queue, late, rows>>
    BY <1>0, <1>2 DEF OwnerHandles, Answers, Idle
  <2>2. queue # <<>> /\ t = queue[1] /\ 1 \in 1 .. Len(queue)
    BY <1>0, <2>1
  <2>3. t.act = "evaluate" => t.cmd \in Commands
    BY <2>2 DEF IInv, QueueInv
  <2> HIDE DEF t
  <2>4. /\ t.act = "evaluate" /\ Accepts(t) /\ RunsIn(t) /\ owner' = owner
        /\ ran' = [ran EXCEPT ![t.cmd] = ran[t.cmd] + 1]
    BY <1>1, <1>2, <2>1
  <2>5. head' = [Blank EXCEPT !.status = "ok"]
    BY <2>1, <2>4 DEF Reply
  <2>6. head'.at = "answered" /\ head'.status = "ok"
    BY <2>5 DEF Blank
  <2> QED
    BY <2>1, <2>3, <2>4, <2>6 DEF HeadRuns, t
<1>3. ASSUME NEW l \in late, LateHandled(l), ran' # ran
      PROVE  LateRuns(l)
  <2>1. Handles(l.request) /\ late' = late \ {l} /\ UNCHANGED <<panel, queue, head, rows>>
    BY <1>3 DEF LateHandled
  <2>2. l.request.act = "evaluate" => l.request.cmd \in Commands
    BY DEF IInv, LateInv
  <2> QED
    BY <1>1, <1>3, <2>1, <2>2 DEF LateRuns
<1>4. CASE ~ OwnerHandles /\ ~ \E l \in late : LateHandled(l)
  BY <1>4 DEF Next, User, Timer, Exchange, Answered, Skip, Fails, Connected, Stopped, Listed,
     Delivered, Watched, DocumentStartRead, LiveDocumentsListed, Start, Stop, Refresh,
     ChangeMode, Consent, SelectTarget, Submit, Poll, WatchSession, DocumentStart,
     RefreshLiveDocuments, LateHandled, vars, Owner, DocumentCloses, SessionEnds, OtherConnects, Begin, RequestFails
<1> QED
  BY <1>2, <1>3, <1>4

LEMMA RecordTypesStep ==
    ASSUME IInv, [Next]_vars
    PROVE  RecordTypes'
<1>0. /\ listing \in {Idle, Dropped} \cup [at : {"answered"}, value : Reads]
      /\ rows \in [Commands -> Rows]
      /\ ran \in [Commands -> Nat] /\ failures \in 0 .. MaxFailures
      /\ late \subseteq [nr : 1 .. failures, request : Requests]
  BY DEF IInv, TypeOK, RecordTypes
<1>1. listing' \in {Idle, Dropped} \cup [at : {"answered"}, value : Reads]
  <2>1. State \in Reads
    BY ReadsAre DEF IInv, TypeOK
  <2>2. \/ listing' = listing \/ listing' = Idle \/ listing' = Dropped
        \/ listing' = [at |-> "answered", value |-> State]
    BY DEF Next, User, Timer, Exchange, Answered, Skip, Fails, Connected, Stopped, Listed,
     Delivered, Watched, DocumentStartRead, LiveDocumentsListed, Start, Stop, Refresh,
     ChangeMode, Consent, SelectTarget, Submit, Poll, WatchSession, DocumentStart, AgedListing,
     RefreshLiveDocuments, LateHandled, vars, Owner, DocumentCloses, SessionEnds, OtherConnects, Begin, RequestFails,
     OwnerHandles
  <2> QED
    BY <1>0, <2>1, <2>2
<1>2. ran' \in [Commands -> Nat]
  <2>1. ASSUME NEW c \in Commands PROVE [ran EXCEPT ![c] = ran[c] + 1] \in [Commands -> Nat]
    BY <1>0
  <2> QED
    BY <1>0, <2>1, RanStep DEF HeadRuns, LateRuns
<1>3. failures' \in 0 .. MaxFailures
  <2>1. \/ failures' = failures
        \/ failures < MaxFailures /\ failures' = failures + 1
    BY DEF Next, User, Timer, Exchange, Answered, Skip, Fails, Connected, Stopped, Listed,
     Delivered, Watched, DocumentStartRead, LiveDocumentsListed, Start, Stop, Refresh,
     ChangeMode, Consent, SelectTarget, Submit, Poll, WatchSession, DocumentStart,
     RefreshLiveDocuments, LateHandled, vars, Owner, DocumentCloses, SessionEnds, OtherConnects, Begin, RequestFails,
     OwnerHandles
  <2>2. MaxFailures \in Nat
    BY ConsoleAssumption
  <2> QED
    BY <1>0, <2>1, <2>2
<1>4. rows' \in [Commands -> Rows]
  <2>1. ASSUME NEW t, Adds(t) PROVE rows' \in [Commands -> Rows]
    <3>1. rows' = rows \/ rows' = [rows EXCEPT ![t.cmd] = Running]
      BY <2>1 DEF Adds
    <3>2. Running \in Rows
      BY TypesAre DEF Running, Rows, Sound, Panels
    <3>3. [rows EXCEPT ![t.cmd] = Running] \in [Commands -> Rows]
      BY <1>0, <3>2
    <3> QED
      BY <1>0, <3>1, <3>3
  <2>2. ASSUME NEW status, Concludes(status) PROVE rows' \in [Commands -> Rows]
    BY <1>0, <2>2 DEF Concludes, CommandPolls, CommandEnds, OtherEnds, Marked
  <2> QED
    BY <1>0, <2>1, <2>2, Steps DEF Stays, Ages, Settles
<1>5. late' \subseteq [nr : 1 .. failures', request : Requests]
  <2>1. failures \in Nat /\ MaxFailures \in Nat
    BY <1>0, ConsoleAssumption
  <2>2. CASE RequestFails
    <3>1. queue # <<>> /\ queue \in Seq(Requests)
      BY <2>2 DEF RequestFails, IInv, TypeOK, QueueTypes, Idle
    <3>2. Head(queue) \in Requests
      BY <3>1
    <3>3. /\ failures' = failures + 1
          /\ late' \subseteq late \union {[nr |-> failures', request |-> Head(queue)]}
      BY <2>2 DEF RequestFails
    <3>4. 1 .. failures \subseteq 1 .. failures' /\ failures' \in 1 .. failures'
      BY <2>1, <3>3
    <3> QED
      BY <1>0, <3>2, <3>3, <3>4
  <2>3. CASE ~ RequestFails
    <3>1. late' \subseteq late /\ failures' \in {failures, failures + 1}
      BY <2>3 DEF Next, User, Timer, Exchange, Answered, Skip, Fails, Connected, Stopped, Listed,
         Delivered, Watched, DocumentStartRead, LiveDocumentsListed, Start, Stop, Refresh,
         ChangeMode, Consent, SelectTarget, Submit, Poll, WatchSession, DocumentStart,
         RefreshLiveDocuments, LateHandled, vars, Owner, DocumentCloses, SessionEnds, OtherConnects, Begin,
         OwnerHandles
    <3>2. 1 .. failures \subseteq 1 .. failures'
      BY <2>1, <3>1
    <3> QED
      BY <1>0, <3>1, <3>2
  <2> QED
    BY <2>2, <2>3
<1> QED
  BY <1>1, <1>2, <1>3, <1>4, <1>5 DEF RecordTypes, Idle, Dropped

----------------------------------------------------------------------------
(* One command at a time *)

Regular(t) ==
    /\ t.ends => t.act = "poll"
    /\ t.act = "evaluate" => t.cmd \in Commands
    /\ t.act \in {"evaluate", "poll"} => t.session # None

Alone(tasks) == \A i, j \in 1 .. Len(tasks) : Submits(tasks[i]) /\ Submits(tasks[j]) => i = j

Submitted(tasks) == \E i \in 1 .. Len(tasks) : Submits(tasks[i])

AllRegular(tasks) == \A i \in 1 .. Len(tasks) : Regular(tasks[i])

\* What may be queued behind a command, and with the poll that ends it.
Behind(tasks) ==
    \A i \in 1 .. Len(tasks) :
       /\ tasks[i].ends => Len(tasks) = 1
       /\ tasks[i].act = "evaluate" => \A j \in 1 .. Len(tasks) : j > i => tasks[j].act = "poll"

LEMMA QueueInvIs == /\ QueueInv <=> Alone(queue) /\ AllRegular(queue) /\ Behind(queue)
                    /\ SubmittedQueued <=> (panel.submitting <=> Submitted(queue))
BY DEF QueueInv, Alone, Submitted, AllRegular, Regular, Behind, SubmittedQueued, Submits

LEMMA KeptIs ==
    ASSUME NEW t, NEW u, Kept(t, u)
    PROVE  (Submits(u) <=> Submits(t)) /\ (Regular(t) => Regular(u))
BY DEF Kept, Submits, Regular

LEMMA MovesAlone ==
    ASSUME IInv, NEW n \in {0, 1}, Moves(n)
    PROVE  /\ Alone(queue') /\ AllRegular(queue')
           /\ n = 0 => (Submitted(queue') <=> Submitted(queue))
           /\ n = 1 /\ queue # <<>> =>
                 /\ Submits(Head(queue)) => ~ Submitted(queue')
                 /\ ~ Submits(Head(queue)) => (Submitted(queue') <=> Submitted(queue))
<1>0. /\ Len(queue) \in Nat /\ queue \in Seq(Requests)
      /\ Alone(queue) /\ AllRegular(queue)
  BY QueueInvIs DEF IInv, TypeOK, QueueTypes
<1>1. /\ Len(queue') = Len(queue) - n
      /\ \A i \in 1 .. Len(queue') : i + n \in 1 .. Len(queue) /\ Kept(queue[i + n], queue'[i])
  BY DEF Moves
<1>2. \A i \in 1 .. Len(queue') : Submits(queue'[i]) <=> Submits(queue[i + n])
  BY <1>1, KeptIs
<1>3. AllRegular(queue')
  BY <1>0, <1>1, KeptIs DEF AllRegular
<1>4. Alone(queue')
  <2>1. ASSUME NEW i \in 1 .. Len(queue'), NEW j \in 1 .. Len(queue'),
               Submits(queue'[i]), Submits(queue'[j])
        PROVE  i = j
    <3>1. i + n = j + n
      BY <1>0, <1>1, <1>2, <2>1 DEF Alone
    <3> QED
      BY <3>1
  <2> QED
    BY <2>1 DEF Alone
<1>5. ASSUME n = 0 PROVE Submitted(queue') <=> Submitted(queue)
  <2>1. \A i \in 1 .. Len(queue') : i + n = i /\ i \in 1 .. Len(queue)
    BY <1>0, <1>1, <1>5
  <2>2. \A i \in 1 .. Len(queue) : i \in 1 .. Len(queue')
    BY <1>0, <1>1, <1>5
  <2> QED
    BY <1>2, <2>1, <2>2 DEF Submitted
<1>6. ASSUME n = 1, queue # <<>>
      PROVE  /\ Submits(Head(queue)) => ~ Submitted(queue')
             /\ ~ Submits(Head(queue)) => (Submitted(queue') <=> Submitted(queue))
  <2>1. Head(queue) = queue[1] /\ 1 \in 1 .. Len(queue)
    BY <1>0, <1>6
  <2>2. \A i \in 1 .. Len(queue') : i + 1 # 1 /\ i + 1 \in 1 .. Len(queue)
    BY <1>0, <1>1, <1>6
  <2>3. \A i \in 1 .. Len(queue) : i # 1 => i - 1 \in 1 .. Len(queue') /\ (i - 1) + 1 = i
    BY <1>0, <1>1, <1>6
  <2>4. Submits(Head(queue)) => ~ Submitted(queue')
    BY <1>0, <1>2, <1>6, <2>1, <2>2 DEF Submitted, Alone
  <2>5. ~ Submits(Head(queue)) => (Submitted(queue') <=> Submitted(queue))
    BY <1>2, <1>6, <2>1, <2>2, <2>3 DEF Submitted
  <2> QED
    BY <2>4, <2>5
<1> QED
  BY <1>3, <1>4, <1>5, <1>6

LEMMA GrowsAlone ==
    ASSUME IInv, NEW n \in {0, 1}, NEW t, Grows(n, t), Regular(t),
           n = 1 => queue # <<>> /\ Submits(Head(queue)),
           n = 0 => (Submits(t) => ~ Submitted(queue))
    PROVE  /\ Alone(queue') /\ AllRegular(queue')
           /\ Submits(t) => Submitted(queue')
           /\ n = 0 /\ ~ Submits(t) => (Submitted(queue') <=> Submitted(queue))
<1>0. /\ Len(queue) \in Nat /\ queue \in Seq(Requests)
      /\ Alone(queue) /\ AllRegular(queue)
  BY QueueInvIs DEF IInv, TypeOK, QueueTypes
<1>1. /\ Len(queue') = Len(queue) - n + 1 /\ queue'[Len(queue')] = t
      /\ \A i \in 1 .. Len(queue') :
            i # Len(queue') => i + n \in 1 .. Len(queue) /\ Kept(queue[i + n], queue'[i])
  BY DEF Grows
<1>2. \A i \in 1 .. Len(queue') : i # Len(queue') => (Submits(queue'[i]) <=> Submits(queue[i + n]))
  BY <1>1, KeptIs
<1>3. AllRegular(queue')
  <2>1. ASSUME NEW i \in 1 .. Len(queue'), i # Len(queue') PROVE Regular(queue'[i])
    BY <1>0, <1>1, <2>1, KeptIs DEF AllRegular
  <2> QED
    BY <1>1, <2>1 DEF AllRegular
<1>4. ASSUME n = 1, NEW i \in 1 .. Len(queue'), i # Len(queue') PROVE ~ Submits(queue'[i])
  <2>1. Head(queue) = queue[1] /\ 1 \in 1 .. Len(queue)
    BY <1>0, <1>4
  <2>2. i + 1 \in 1 .. Len(queue) /\ i + 1 # 1
    BY <1>0, <1>1, <1>4
  <2>3. ~ Submits(queue[i + 1])
    BY <1>0, <1>4, <2>1, <2>2 DEF Alone
  <2> QED
    BY <1>2, <1>4, <2>3
<1>5. ASSUME n = 0, Submits(t), NEW i \in 1 .. Len(queue'), i # Len(queue') PROVE ~ Submits(queue'[i])
  BY <1>1, <1>2, <1>5 DEF Submitted
<1>6. Alone(queue')
  <2>1. CASE n = 1
    BY <1>4, <2>1 DEF Alone
  <2>2. CASE n = 0 /\ Submits(t)
    BY <1>5, <2>2 DEF Alone
  <2>3. CASE n = 0 /\ ~ Submits(t)
    BY <1>0, <1>1, <1>2, <2>3 DEF Alone
  <2> QED
    BY <2>1, <2>2, <2>3
<1>7. Len(queue') \in 1 .. Len(queue')
  BY <1>0, <1>1, TailIs
<1>8. Submits(t) => Submitted(queue')
  BY <1>1, <1>7 DEF Submitted
<1>9. ASSUME n = 0, ~ Submits(t) PROVE Submitted(queue') <=> Submitted(queue)
  <2>1. \A i \in 1 .. Len(queue) : i \in 1 .. Len(queue') /\ i # Len(queue') /\ i + n = i
    BY <1>0, <1>1, <1>9
  <2>2. \A i \in 1 .. Len(queue') : i # Len(queue') => i \in 1 .. Len(queue) /\ i + n = i
    BY <1>0, <1>1, <1>9
  <2> QED
    BY <1>1, <1>2, <1>9, <2>1, <2>2 DEF Submitted
<1> QED
  BY <1>3, <1>6, <1>8, <1>9

LEMMA MovesBehind ==
    ASSUME IInv, NEW n \in {0, 1}, Moves(n)
    PROVE  Behind(queue')
<1>0. Len(queue) \in Nat /\ queue \in Seq(Requests) /\ Behind(queue)
  BY QueueInvIs DEF IInv, TypeOK, QueueTypes
<1>1. /\ Len(queue') = Len(queue) - n
      /\ \A i \in 1 .. Len(queue') : i + n \in 1 .. Len(queue) /\ Kept(queue[i + n], queue'[i])
  BY DEF Moves
<1>2. \A i \in 1 .. Len(queue') : /\ queue'[i].ends = queue[i + n].ends
                                  /\ queue'[i].act = queue[i + n].act
  BY <1>1 DEF Kept
<1>3. ASSUME NEW i \in 1 .. Len(queue'), queue'[i].ends PROVE Len(queue') = 1
  <2>1. Len(queue) = 1
    BY <1>0, <1>1, <1>2, <1>3 DEF Behind
  <2> QED
    BY <1>1, <1>3, <2>1
<1>4. ASSUME NEW i \in 1 .. Len(queue'), queue'[i].act = "evaluate", NEW j \in 1 .. Len(queue'), j > i
      PROVE  queue'[j].act = "poll"
  <2>1. i + n \in 1 .. Len(queue) /\ j + n \in 1 .. Len(queue) /\ queue[i + n].act = "evaluate"
    BY <1>1, <1>2, <1>4
  <2>2. j + n > i + n
    BY <1>4
  <2>3. queue[j + n].act = "poll"
    BY <1>0, <2>1, <2>2 DEF Behind
  <2> QED
    BY <1>2, <2>3
<1> QED
  BY <1>3, <1>4 DEF Behind

\* Only a poll is queued while a command is under way, and none when one is queued.
LEMMA AddsBehind ==
    ASSUME IInv, NEW t, Adds(t)
    PROVE  Behind(queue')
<1>0. /\ Len(queue) \in Nat /\ queue \in Seq(Requests) /\ Behind(queue) /\ AllRegular(queue)
      /\ panel.submitting <=> Submitted(queue)
  BY QueueInvIs DEF IInv, TypeOK, QueueTypes
<1>1. /\ Len(queue') = Len(queue) + 1 /\ queue'[Len(queue')] = t
      /\ \A i \in 1 .. Len(queue) : queue'[i] = queue[i]
  <2>1. queue' = Append(queue, t) /\ t \in Requests
    BY DEF Adds
  <2> QED
    BY <1>0, <2>1, AppendProperties
<1>2. \A i \in 1 .. Len(queue') : i \in 1 .. Len(queue) \/ (i = Len(queue') /\ queue'[i] = t)
  BY <1>0, <1>1
<1>3. /\ ~ t.ends /\ (t.act = "poll" => ~ Queued("poll")) /\ (panel.submitting => t.act = "poll")
  BY DEF Adds
<1>4. ASSUME NEW i \in 1 .. Len(queue'), queue'[i].ends PROVE Len(queue') = 1
  <2>1. i \in 1 .. Len(queue) /\ queue[i].ends
    BY <1>1, <1>2, <1>3, <1>4
  <2>2. queue[i].act = "poll" /\ Submitted(queue)
    BY <1>0, <2>1 DEF AllRegular, Regular, Submitted, Submits
  <2>3. Queued("poll")
    BY <2>1, <2>2 DEF Queued
  <2> QED
    BY <1>0, <1>3, <2>2, <2>3
<1>5. ASSUME NEW i \in 1 .. Len(queue'), queue'[i].act = "evaluate", NEW j \in 1 .. Len(queue'), j > i
      PROVE  queue'[j].act = "poll"
  <2>1. i \in 1 .. Len(queue) /\ queue[i].act = "evaluate"
    BY <1>0, <1>1, <1>2, <1>5
  <2>2. CASE j \in 1 .. Len(queue)
    BY <1>0, <1>1, <1>5, <2>1, <2>2 DEF Behind
  <2>3. CASE queue'[j] = t
    <3>1. panel.submitting
      BY <1>0, <2>1 DEF Submitted, Submits
    <3> QED
      BY <1>3, <2>3, <3>1
  <2> QED
    BY <1>2, <2>2, <2>3
<1> QED
  BY <1>4, <1>5 DEF Behind

\* The poll before a result is queued when nothing else is.
LEMMA PollsAlone ==
    ASSUME IInv, queue # <<>>, Head(queue).act = "evaluate", ~ Queued("poll"), NEW end, Grows(1, end),
           PollOf(end)
    PROVE  Len(queue') = 1 /\ queue'[1] = end /\ Behind(queue')
<1>0. Len(queue) \in Nat /\ queue \in Seq(Requests) /\ Behind(queue)
  BY QueueInvIs DEF IInv, TypeOK, QueueTypes
<1>1. Head(queue) = queue[1] /\ 1 \in 1 .. Len(queue)
  BY <1>0
<1>2. ASSUME 2 \in 1 .. Len(queue) PROVE FALSE
  <2>1. queue[2].act = "poll"
    BY <1>1, <1>2, <1>0 DEF Behind
  <2> QED
    BY <1>2, <2>1 DEF Queued
<1>3. Len(queue) = 1
  <2>1. Len(queue) \in Nat /\ Len(queue) >= 1 /\ ~ Len(queue) >= 2
    BY <1>0, <1>1, <1>2
  <2>2. \A n \in Nat : n >= 1 /\ ~ n >= 2 => n = 1
    OBVIOUS
  <2> QED
    BY <2>1, <2>2
<1>4. Len(queue') = 1 /\ queue'[1] = end
  BY <1>3 DEF Grows
<1>5. end.act # "evaluate"
  BY DEF PollOf
<1> QED
  BY <1>4, <1>5 DEF Behind

LEMMA AloneStep ==
    ASSUME IInv, [Next]_vars
    PROVE  QueueInv' /\ SubmittedQueued'
<1> DEFINE Goal == /\ Alone(queue') /\ AllRegular(queue') /\ Behind(queue')
                   /\ panel'.submitting <=> Submitted(queue')
<1>0. /\ panel.submitting <=> Submitted(queue)
      /\ Alone(queue) /\ AllRegular(queue)
      /\ Len(queue) \in Nat /\ queue \in Seq(Requests)
      /\ panel \in Panels
  BY QueueInvIs, TypesAre DEF IInv, TypeOK, QueueTypes, Sound
<1>1. ASSUME Stays \/ Ages PROVE Goal
  <2>1. Moves(0) /\ panel'.submitting = panel.submitting
    BY <1>1, QueueMoves DEF Stays, Ages, Same
  <2>2. Alone(queue') /\ AllRegular(queue') /\ (Submitted(queue') <=> Submitted(queue))
    BY <2>1, MovesAlone
  <2>3. Behind(queue')
    BY <2>1, MovesBehind
  <2> QED
    BY <1>0, <2>1, <2>2, <2>3
<1>2. ASSUME NEW t, Adds(t) PROVE Goal
  <2>1. Grows(0, t) /\ Behind(queue')
    BY <1>2, QueueMoves, AddsBehind
  <2>2. Regular(t) /\ ~ t.ends
    BY <1>2 DEF Adds, Regular
  <2>3. CASE t.act = "evaluate"
    <3>1. ~ panel.submitting /\ panel'.submitting /\ Submits(t)
      BY <1>0, <1>2, <2>3 DEF Adds, Panels, Submits
    <3> QED
      BY <1>0, <2>1, <2>2, <3>1, GrowsAlone
  <2>4. CASE t.act # "evaluate"
    <3>1. panel' = panel /\ ~ Submits(t)
      BY <1>2, <2>2, <2>4 DEF Adds, Submits
    <3> QED
      BY <1>0, <2>1, <2>2, <3>1, GrowsAlone
  <2> QED
    BY <2>3, <2>4
<1>3. ASSUME Settles PROVE Goal
  <2>1. Moves(1) /\ queue # <<>> /\ panel'.submitting = panel.submitting
    BY <1>3, QueueMoves DEF Settles
  <2>2. Head(queue) = queue[1] /\ 1 \in 1 .. Len(queue)
    BY <1>0, <2>1
  <2>3. ~ Submits(Head(queue))
    BY <1>0, <1>3, <2>2 DEF Settles, Submits, AllRegular, Regular
  <2>4. Alone(queue') /\ AllRegular(queue') /\ (Submitted(queue') <=> Submitted(queue))
    BY <2>1, <2>3, MovesAlone
  <2>5. Behind(queue')
    BY <2>1, MovesBehind
  <2> QED
    BY <1>0, <2>1, <2>4, <2>5
<1>4. ASSUME NEW status, Concludes(status) PROVE Goal
  <2>1. queue # <<>>
    BY <1>4 DEF Concludes
  <2>2. Head(queue) = queue[1] /\ 1 \in 1 .. Len(queue)
    BY <1>0, <2>1
  <2>3. CASE (CommandEnds(status) \/ OtherEnds) /\ Moves(1)
    <3>1. panel'.submitting = IF Submits(Head(queue)) THEN FALSE ELSE panel.submitting
      BY <2>3 DEF CommandEnds, OtherEnds, Submits
    <3>2. /\ Alone(queue') /\ AllRegular(queue')
          /\ Submits(Head(queue)) => ~ Submitted(queue')
          /\ ~ Submits(Head(queue)) => (Submitted(queue') <=> Submitted(queue))
      BY <2>1, <2>3, MovesAlone
    <3>3. Behind(queue')
      BY <2>3, MovesBehind
    <3> QED
      BY <1>0, <3>1, <3>2, <3>3
  <2>4. CASE CommandPolls(status) /\ \E end \in Requests : Grows(1, end) /\ PollOf(end)
    <3>1. PICK end \in Requests : Grows(1, end) /\ PollOf(end)
      BY <2>4
    <3>2. Regular(end) /\ Submits(end) /\ Submits(Head(queue))
      BY <3>1 DEF Regular, Submits, PollOf
    <3>3. panel'.submitting = panel.submitting /\ Submitted(queue)
      BY <2>2, <2>4, <3>2 DEF CommandPolls, Submitted
    <3>4. Behind(queue')
      BY <2>1, <2>4, <3>1, PollsAlone DEF CommandPolls
    <3> QED
      BY <1>0, <2>1, <3>1, <3>2, <3>3, <3>4, GrowsAlone
  <2> QED
    BY <1>4, <2>3, <2>4, QueueMoves
<1>5. \/ Stays \/ Ages \/ Settles \/ (\E t : Adds(t))
      \/ \E status \in {"unavailable", "complete", "stale_target"} : Concludes(status)
  BY Steps
<1> HIDE DEF Goal
<1>6. Goal
  BY <1>1, <1>2, <1>3, <1>4, <1>5
<1> QED
  BY <1>6 DEF Goal, QueueInv, Alone, Submitted, AllRegular, Regular, Behind, SubmittedQueued, Submits

----------------------------------------------------------------------------
(* What is sent is about what is shown *)

Connectable(t, p) ==
    t.act = "connect_live" /\ t.current => p.live /\ t.target = p.target /\ p.target # NoDoc

LEMMA ConnectStep ==
    ASSUME IInv, [Next]_vars
    PROVE  ConnectInv'
<1>0. /\ \A i \in 1 .. Len(queue) : Connectable(queue[i], panel)
      /\ queue \in Seq(Requests) /\ panel \in Panels
  BY TypesAre DEF IInv, TypeOK, QueueTypes, ConnectInv, Connectable, Sound
<1>1. \A t, u : Kept(t, u) /\ Connectable(t, panel) /\ Keeps(panel, panel') => Connectable(u, panel')
  BY DEF Kept, Connectable, Keeps
<1> DEFINE Goal == \A i \in 1 .. Len(queue') : Connectable(queue'[i], panel')
<1>2. ASSUME NEW n, Moves(n), Keeps(panel, panel') PROVE Goal
  BY <1>0, <1>1, <1>2 DEF Moves
<1>3. ASSUME NEW n, NEW t, Grows(n, t), Keeps(panel, panel'), Connectable(t, panel') PROVE Goal
  BY <1>0, <1>1, <1>3 DEF Grows
<1>4. ASSUME Overaged PROVE Goal
  BY <1>4 DEF Overaged, Connectable
<1>5. ASSUME Stays PROVE Goal
  BY <1>2, <1>5, QueueMoves DEF Stays
<1>6. ASSUME NEW t, Adds(t) PROVE Goal
  <2>1. panel'.live = panel.live /\ panel'.target = panel.target
    BY <1>0, <1>6 DEF Adds, Panels
  <2>2. Keeps(panel, panel') /\ Connectable(t, panel')
    BY <1>6, <2>1 DEF Adds, Keeps, Connectable
  <2>3. Grows(0, t)
    BY <1>6, QueueMoves
  <2> QED
    BY <1>3, <2>2, <2>3
<1>7. ASSUME Settles PROVE Goal
  <2>1. CASE Overaged
    BY <1>4, <2>1
  <2>2. CASE panel' = panel
    <3>1. Keeps(panel, panel') /\ Moves(1)
      BY <1>7, <2>2, QueueMoves DEF Keeps
    <3> QED
      BY <1>2, <3>1
  <2> QED
    BY <1>7, <2>1, <2>2, QueueMoves
<1>8. ASSUME NEW status, Concludes(status) PROVE Goal
  <2>1. Keeps(panel, panel')
    BY <1>8 DEF Concludes
  <2>2. ASSUME NEW end, Grows(1, end), end.act = "poll" PROVE Goal
    BY <1>3, <2>1, <2>2 DEF Connectable
  <2> QED
    BY <1>2, <1>8, <2>1, <2>2, QueueMoves DEF PollOf
<1>9. \/ Stays \/ Ages \/ Settles \/ (\E t : Adds(t))
      \/ \E status \in {"unavailable", "complete", "stale_target"} : Concludes(status)
  BY Steps
<1>10. Ages => Overaged
  BY QueueMoves
<1> HIDE DEF Goal
<1>11. Goal
  BY <1>4, <1>5, <1>6, <1>7, <1>8, <1>9, <1>10
<1> QED
  BY <1>11 DEF Goal, ConnectInv, Connectable

\* Only Begin takes a request to the head.
LEMMA HeadStays ==
    ASSUME IInv, [Next]_vars, ~ Begin, head' # Idle
    PROVE  head # Idle
<1>1. ~ (OwnerHandles \/ RequestFails) => head' = head
  BY DEF Next, User, Timer, Exchange, Answered, Skip, Fails, Connected, Stopped, Listed,
     Delivered, Watched, DocumentStartRead, LiveDocumentsListed, Start, Stop, Refresh,
     ChangeMode, Consent, SelectTarget, Submit, Poll, WatchSession, DocumentStart,
     RefreshLiveDocuments, LateHandled, vars, Owner, DocumentCloses, SessionEnds, OtherConnects
<1>2. OwnerHandles \/ RequestFails => head # Idle
  BY DEF OwnerHandles, RequestFails, Idle
<1> QED
  BY <1>1, <1>2

\* A request that is under way is about what panel p shows.
Begun(t, p) ==
    /\ t.act \in {"evaluate", "poll"} /\ t.current => t.session = p.session /\ t.target = p.target
    /\ ~ Quiet(t) /\ t.act # "stop" => t.current

LEMMA BegunStep ==
    ASSUME IInv, [Next]_vars
    PROVE  BegunInv'
<1>0. /\ queue \in Seq(Requests) /\ panel \in Panels
      /\ head # Idle => queue # <<>> /\ Begun(Head(queue), panel)
      /\ AllRegular(queue)
  BY TypesAre, QueueInvIs DEF IInv, TypeOK, QueueTypes, BegunInv, Begun, Sound
<1> SUFFICES ASSUME head' # Idle
             PROVE  Begun(Head(queue'), panel')
  BY DEF BegunInv, Begun, Quiet
<1>1. queue # <<>> /\ queue' # <<>> /\ Kept(Head(queue), Head(queue'))
  BY HeadStep
<1>2. Head(queue) = queue[1] /\ 1 \in 1 .. Len(queue)
  BY <1>0, <1>1
<1>3. CASE Begin
  <2>1. ~ NotSent(Head(queue)) /\ queue' = queue /\ panel' = panel
    BY <1>3 DEF Begin
  <2> QED
    BY <2>1 DEF NotSent, Begun, Quiet
<1>4. CASE ~ Begin
  <2>1. head # Idle /\ Begun(Head(queue), panel)
    BY <1>0, <1>4, HeadStays
  <2>2. CASE Stays
    <3>1. queue' = queue /\ panel'.session = panel.session
      BY <2>2 DEF Stays, Same
    <3>2. Head(queue).act \in {"evaluate", "poll"} => Head(queue).session # None
      BY <1>0, <1>2 DEF AllRegular, Regular
    <3>3. panel.session # None => panel'.target = panel.target
      BY <2>2 DEF Stays
    <3> QED
      BY <2>1, <3>1, <3>2, <3>3 DEF Begun
  <2>3. CASE Ages
    <3>1. Quiet(Head(queue)) /\ Overaged
      BY <2>1, <2>3, QueueMoves DEF Ages, Busy, Pending
    <3>2. queue' \in Seq(Requests)
      BY <2>3, QueueMoves DEF Moves
    <3>3. ~ Head(queue').current
      BY <1>1, <3>1, <3>2 DEF Overaged
    <3> QED
      BY <1>1, <3>1, <3>3 DEF Begun, Kept, Quiet
  <2>4. ASSUME NEW t, Adds(t) PROVE Begun(Head(queue'), panel')
    <3>1. queue' = Append(queue, t) /\ t \in Requests
      BY <2>4 DEF Adds
    <3>2. Head(queue') = Head(queue)
      BY <1>0, <1>1, <3>1
    <3>3. panel'.session = panel.session /\ panel'.target = panel.target
      BY <1>0, <2>4 DEF Adds, Panels
    <3> QED
      BY <2>1, <3>2, <3>3 DEF Begun
  <2>5. \/ Stays \/ Ages \/ \E t : Adds(t)
    BY Steps DEF Settles, Concludes
  <2> QED
    BY <2>2, <2>3, <2>4, <2>5
<1> QED
  BY <1>3, <1>4

----------------------------------------------------------------------------
(* A command and its row *)

\* How far the command of a waiting request is, and of one under way.
Waits(c) == rows[c].status = "running" /\ ran[c] = 0

UnderWay(c) ==
    /\ rows[c].status = "running"
    /\ head.at # "answered" => ran[c] = 0
    /\ head.at = "answered" => /\ ran[c] <= 1
                               /\ head.status = "ok" => ran[c] = 1
                               /\ head.status = "stale_target" => ran[c] = 0

Rowed == \A i \in 1 .. Len(queue) :
            queue[i].act = "evaluate" => IF i = 1 THEN UnderWay(queue[i].cmd) ELSE Waits(queue[i].cmd)

LEMMA RowInvIs == RowInv <=> Rowed /\ RunOnce
BY DEF RowInv, Rowed, UnderWay, Waits

\* What the request of a command learns in a step.
LEMMA HeadLearns ==
    ASSUME IInv, [Next]_vars, head' # Idle, queue # <<>>, Head(queue).act = "evaluate", ran' = ran
    PROVE  \/ head' = head
           \/ head' = [at |-> "sent"] /\ head = Idle
           \/ head = [at |-> "sent"] /\ head'.at = "answered" /\ head'.status = "stale_target"
           \/ head # Idle /\ head'.at = "answered" /\ head'.status = "refused"
<1>0. /\ head \in {Idle, [at |-> "sent"]} \cup Answers
      /\ Head(queue).cmd \in Commands /\ ran[Head(queue).cmd] \in Nat
  <2>1. Head(queue) = queue[1] /\ 1 \in 1 .. Len(queue)
    BY DEF IInv, TypeOK, QueueTypes
  <2>2. Head(queue).cmd \in Commands
    BY <2>1 DEF IInv, QueueInv
  <2> QED
    BY <2>2 DEF IInv, TypeOK, QueueTypes, RecordTypes
<1>1. CASE Begin
  BY <1>1 DEF Begin
<1>2. CASE OwnerHandles
  <2> DEFINE t == Head(queue)
  <2>1. head = [at |-> "sent"] /\ head # Idle
    BY <1>0, <1>2 DEF OwnerHandles, Answers, Idle
  <2>2. CASE head' = Blank
    BY <2>1, <2>2 DEF Blank
  <2>3. CASE head' # Blank
    <3>1. Runs(t) /\ head' = Reply(t)
      BY <1>2, <2>3 DEF OwnerHandles, Handles, Connects, Disconnects
    <3>2. Accepts(t) /\ head' = [Blank EXCEPT !.status = IF RunsIn(t) THEN "ok" ELSE "stale_target"]
      BY <2>3, <3>1 DEF Reply
    <3>3. ASSUME RunsIn(t) PROVE FALSE
      <4>1. ran' = [ran EXCEPT ![t.cmd] = ran[t.cmd] + 1]
        BY <3>1, <3>2, <3>3 DEF Runs
      <4>2. ran \in [Commands -> Nat]
        BY DEF IInv, TypeOK, RecordTypes
      <4>3. ran'[t.cmd] = ran[t.cmd] + 1
        BY <1>0, <4>1, <4>2
      <4> QED
        BY <1>0, <4>3
    <3>4. head'.at = "answered" /\ head'.status = "stale_target"
      BY <3>2, <3>3 DEF Blank
    <3> QED
      BY <2>1, <3>4
  <2> QED
    BY <2>2, <2>3
<1>3. CASE RequestFails
  <2>1. head # Idle /\ head' = Blank
    BY <1>3 DEF RequestFails, Idle
  <2> QED
    BY <2>1 DEF Blank
<1>4. ~ (Begin \/ OwnerHandles \/ RequestFails) => head' = head
  BY DEF Next, User, Timer, Exchange, Answered, Skip, Fails, Connected, Stopped, Listed,
     Delivered, Watched, DocumentStartRead, LiveDocumentsListed, Start, Stop, Refresh,
     ChangeMode, Consent, SelectTarget, Submit, Poll, WatchSession, DocumentStart,
     RefreshLiveDocuments, LateHandled, vars, Owner, DocumentCloses, SessionEnds, OtherConnects
<1> QED
  BY <1>1, <1>2, <1>3, <1>4

LEMMA RowFacts ==
    IInv => /\ queue \in Seq(Requests) /\ Len(queue) \in Nat /\ ran \in [Commands -> Nat]
            /\ rows \in [Commands -> Rows]
            /\ head \in {Idle, [at |-> "sent"]} \cup Answers /\ (head # Idle => queue # <<>>)
            /\ Rowed /\ RunOnce /\ Alone(queue) /\ AllRegular(queue)
            /\ panel.submitting <=> Submitted(queue)
            /\ \A i \in 1 .. Len(queue) : queue[i].act = "evaluate" => queue[i].cmd \in Commands
BY RowInvIs, QueueInvIs DEF IInv, TypeOK, QueueTypes, RecordTypes, AllRegular, Regular

\* A step that runs the command at the head.
LEMMA RunRows ==
    ASSUME IInv, HeadRuns
    PROVE  RowInv'
<1> DEFINE t == Head(queue)
           c == t.cmd
<1>1. /\ t.act = "evaluate" /\ head = [at |-> "sent"] /\ head'.at = "answered" /\ head'.status = "ok"
      /\ c \in Commands /\ ran' = [ran EXCEPT ![c] = ran[c] + 1]
      /\ queue' = queue /\ rows' = rows
  BY DEF HeadRuns
<1>2. /\ queue # <<>> /\ queue \in Seq(Requests) /\ ran \in [Commands -> Nat]
      /\ Rowed /\ RunOnce /\ Alone(queue) /\ AllRegular(queue)
  BY <1>1, RowInvIs, QueueInvIs DEF IInv, TypeOK, QueueTypes, RecordTypes, Idle
<1>3. t = queue[1] /\ 1 \in 1 .. Len(queue)
  BY <1>2
<1>4. rows[c].status = "running" /\ ran[c] = 0
  BY <1>1, <1>2, <1>3 DEF Rowed, UnderWay
<1>5. ran'[c] = 1 /\ \A b \in Commands : b # c => ran'[b] = ran[b]
  BY <1>1, <1>2, <1>4
<1>6. rows'[c].status = "running" /\ ran'[c] <= 1 /\ ran'[c] = 1
  BY <1>1, <1>4, <1>5
<1>7. \A i \in 1 .. Len(queue) : queue[i].act = "evaluate" => i = 1
  BY <1>1, <1>2, <1>3 DEF Alone, Submits
<1>8. Rowed'
  <2>1. queue'[1].cmd = c
    BY <1>1, <1>3
  <2> HIDE DEF c
  <2>2. UnderWay(queue[1].cmd)'
    BY <1>1, <1>6, <2>1 DEF UnderWay
  <2> QED
    BY <1>1, <1>7, <2>2 DEF Rowed
<1>9. RunOnce'
  <2>1. ASSUME NEW b \in Commands
        PROVE  /\ ran'[b] <= 1
               /\ rows'[b].status = "complete" => ran'[b] = 1
               /\ rows'[b].status \in {"none", "stale_target"} => ran'[b] = 0
    BY <1>1, <1>2, <1>4, <1>5 DEF RunOnce
  <2> QED
    BY <2>1 DEF RunOnce
<1> QED
  BY <1>8, <1>9, RowInvIs DEF RowInv, Rowed, UnderWay, Waits

\* A step that runs a command that was given up: its row says so, or is about to.
LEMMA LateRunRows ==
    ASSUME IInv, NEW l \in late, LateRuns(l)
    PROVE  RowInv'
<1> DEFINE c == l.request.cmd
<1>1. /\ l.request.act = "evaluate" /\ c \in Commands
      /\ ran' = [ran EXCEPT ![c] = ran[c] + 1]
      /\ queue' = queue /\ rows' = rows /\ head' = head
  BY DEF LateRuns
<1>2. /\ ran[c] = 0
      /\ \/ rows[c].status = "unavailable"
         \/ head = Blank /\ Head(queue).act = "evaluate" /\ Head(queue).cmd = c
  BY <1>1 DEF IInv, LateInv, Unconfirmed
<1> HIDE DEF c
<1>3. /\ queue \in Seq(Requests) /\ ran \in [Commands -> Nat] /\ Rowed /\ RunOnce /\ Alone(queue)
      /\ head # Idle => queue # <<>>
  BY RowFacts
<1>4. ran'[c] = 1 /\ \A b \in Commands : b # c => ran'[b] = ran[b]
  BY <1>1, <1>2, <1>3
<1>5. CASE rows[c].status = "unavailable"
  <2>1. \A i \in 1 .. Len(queue) : queue[i].act = "evaluate" => queue[i].cmd \in Commands \ {c}
    BY <1>3, <1>5, RowFacts DEF Rowed, UnderWay, Waits
  <2>2. Rowed'
    BY <1>1, <1>3, <1>4, <2>1 DEF Rowed, UnderWay, Waits
  <2>3. ASSUME NEW b \in Commands
        PROVE  /\ ran'[b] <= 1
               /\ rows'[b].status = "complete" => ran'[b] = 1
               /\ rows'[b].status \in {"none", "stale_target"} => ran'[b] = 0
    BY <1>1, <1>3, <1>4, <1>5 DEF RunOnce
  <2>4. RunOnce'
    BY <2>3 DEF RunOnce
  <2> QED
    BY <2>2, <2>4, RowInvIs DEF RowInv, Rowed, UnderWay, Waits
<1>6. CASE head = Blank /\ Head(queue).act = "evaluate" /\ Head(queue).cmd = c
  <2>1. head.at = "answered" /\ head.status = "refused" /\ head # Idle
    BY <1>6 DEF Blank, Idle
  <2>2. Head(queue) = queue[1] /\ 1 \in 1 .. Len(queue)
    BY <1>3, <2>1
  <2>3. rows[c].status = "running"
    BY <1>3, <1>6, <2>2 DEF Rowed, UnderWay
  <2>4. \A i \in 1 .. Len(queue) : queue[i].act = "evaluate" => i = 1
    BY <1>3, <1>6, <2>2 DEF Alone, Submits
  <2>5. rows'[c].status = "running" /\ ran'[c] <= 1
    BY <1>1, <1>4, <2>3
  <2>6. Rowed'
    BY <1>1, <1>6, <2>1, <2>2, <2>4, <2>5 DEF Rowed, UnderWay, Waits
  <2>7. ASSUME NEW b \in Commands
        PROVE  /\ ran'[b] <= 1
               /\ rows'[b].status = "complete" => ran'[b] = 1
               /\ rows'[b].status \in {"none", "stale_target"} => ran'[b] = 0
    BY <1>1, <1>3, <1>4, <2>3 DEF RunOnce
  <2>8. RunOnce'
    BY <2>7 DEF RunOnce
  <2> QED
    BY <2>6, <2>8, RowInvIs DEF RowInv, Rowed, UnderWay, Waits
<1> QED
  BY <1>2, <1>5, <1>6

\* The request of a command keeps its place.
LEMMA SameRows ==
    ASSUME IInv, [Next]_vars, ran' = ran, rows' = rows, Moves(0),
           head' # Idle \/ head' = head
    PROVE  Rowed'
<1>0. /\ Len(queue) \in Nat /\ Rowed /\ queue \in Seq(Requests)
      /\ Len(queue') = Len(queue)
      /\ \A i \in 1 .. Len(queue') : i + 0 \in 1 .. Len(queue) /\ Kept(queue[i + 0], queue'[i])
  BY RowFacts DEF Moves
<1> SUFFICES ASSUME NEW i \in 1 .. Len(queue'), queue'[i].act = "evaluate",
                    NEW c, c = queue'[i].cmd
             PROVE  IF i = 1 THEN UnderWay(c)' ELSE Waits(c)'
  BY DEF Rowed, UnderWay, Waits
<1>1. i \in 1 .. Len(queue) /\ queue[i].act = "evaluate" /\ queue[i].cmd = c
  <2>1. i + 0 = i
    OBVIOUS
  <2> QED
    BY <1>0, <2>1 DEF Kept
<1>2. IF i = 1 THEN UnderWay(c) ELSE Waits(c)
  BY <1>0, <1>1 DEF Rowed
<1>3. CASE i # 1
  BY <1>1, <1>2, <1>3 DEF Waits
<1>4. CASE i = 1
  <2>1. queue # <<>> /\ Head(queue) = queue[1]
    BY <1>0, <1>1, <1>4
  <2>2. UnderWay(c) /\ queue[1].act = "evaluate" /\ queue[1].cmd = c
    BY <1>1, <1>2, <1>4
  <2>3. \/ head' = head
        \/ head' = [at |-> "sent"] /\ head = Idle
        \/ head = [at |-> "sent"] /\ head'.at = "answered" /\ head'.status = "stale_target"
        \/ head # Idle /\ head'.at = "answered" /\ head'.status = "refused"
    BY <2>1, <2>2, HeadLearns
  <2>4. ran[c] <= 1 /\ (ran[c] = 0 \/ head.at = "answered")
    BY <2>2 DEF UnderWay
  <2>5. CASE head' = head
    BY <1>4, <2>2, <2>5 DEF UnderWay
  <2>6. CASE head' = [at |-> "sent"] /\ head = Idle
    BY <1>4, <2>2, <2>6 DEF UnderWay, Idle
  <2>7. CASE head = [at |-> "sent"] /\ head'.at = "answered" /\ head'.status = "stale_target"
    BY <1>4, <2>2, <2>7 DEF UnderWay
  <2>8. CASE head # Idle /\ head'.at = "answered" /\ head'.status = "refused"
    BY <1>4, <2>2, <2>4, <2>8 DEF UnderWay
  <2> QED
    BY <2>3, <2>5, <2>6, <2>7, <2>8
<1> QED
  BY <1>3, <1>4

\* The request at the head has ended.
LEMMA NextRows ==
    ASSUME IInv, ran' = ran, head' = Idle, queue # <<>>,
           Head(queue).act = "evaluate" \/ \A b \in Commands : rows'[b].status = rows[b].status,
           \A i \in 1 .. Len(queue') : queue'[i].act = "evaluate" =>
               i + 1 \in 1 .. Len(queue) /\ Kept(queue[i + 1], queue'[i])
    PROVE  Rowed'
<1>0. Len(queue) \in Nat /\ Rowed /\ queue \in Seq(Requests) /\ Alone(queue)
  BY RowFacts
<1>1. Head(queue) = queue[1] /\ 1 \in 1 .. Len(queue)
  BY <1>0
<1> SUFFICES ASSUME NEW i \in 1 .. Len(queue'), queue'[i].act = "evaluate",
                    NEW c, c = queue'[i].cmd
             PROVE  IF i = 1 THEN UnderWay(c)' ELSE Waits(c)'
  BY DEF Rowed, UnderWay, Waits
<1>2. /\ i + 1 \in 1 .. Len(queue) /\ i + 1 # 1
      /\ queue[i + 1].act = "evaluate" /\ queue'[i].cmd = queue[i + 1].cmd
  BY DEF Kept
<1>3. Waits(queue[i + 1].cmd)
  BY <1>0, <1>2 DEF Rowed
<1>4. c \in Commands /\ rows'[c].status = rows[c].status
  BY <1>0, <1>1, <1>2, RowFacts DEF Alone, Submits
<1>5. rows'[c].status = "running" /\ ran'[c] = 0
  BY <1>2, <1>3, <1>4 DEF Waits
<1> QED
  BY <1>5 DEF UnderWay, Waits, Idle

\* A request is queued behind what there is.
LEMMA AddedRows ==
    ASSUME IInv, NEW t, Adds(t)
    PROVE  Rowed' /\ RunOnce'
<1>0. /\ Len(queue) \in Nat /\ Rowed /\ RunOnce /\ queue \in Seq(Requests)
      /\ ran \in [Commands -> Nat] /\ rows \in [Commands -> Rows]
      /\ head # Idle => queue # <<>>
      /\ head \in {Idle, [at |-> "sent"]} \cup Answers
      /\ panel.submitting <=> Submitted(queue)
  BY RowFacts
<1>1. ran' = ran /\ head' = head
  BY DEF Adds
<1>2. queue' = Append(queue, t) /\ t \in Requests
  BY DEF Adds
<1>3. /\ Len(queue') = Len(queue) + 1 /\ queue'[Len(queue')] = t
      /\ \A i \in 1 .. Len(queue) : queue'[i] = queue[i]
  BY <1>0, <1>2, AppendProperties
<1>4. CASE t.act # "evaluate"
  <2>1. rows' = rows
    BY <1>4 DEF Adds
  <2>2. ASSUME NEW i \in 1 .. Len(queue'), queue'[i].act = "evaluate"
        PROVE  i \in 1 .. Len(queue) /\ queue'[i] = queue[i]
    BY <1>0, <1>3, <1>4, <2>2
  <2>3. Rowed'
    BY <1>0, <1>1, <2>1, <2>2 DEF Rowed, UnderWay, Waits
  <2> QED
    BY <1>0, <1>1, <2>1, <2>3 DEF RunOnce
<1>5. CASE t.act = "evaluate"
  <2>1. /\ t.cmd \in Commands /\ rows[t.cmd].status = "none" /\ ~ panel.submitting
        /\ rows' = [rows EXCEPT ![t.cmd] = Running]
    BY <1>5 DEF Adds, NoRow
  <2>2. ran[t.cmd] = 0
    BY <1>0, <2>1 DEF RunOnce
  <2>3. rows'[t.cmd].status = "running" /\ \A b \in Commands : b # t.cmd => rows'[b] = rows[b]
    BY <1>0, <2>1 DEF Running
  <2>4. ASSUME NEW i \in 1 .. Len(queue'), queue'[i].act = "evaluate"
        PROVE  i = Len(queue')
    BY <1>0, <1>3, <2>1, <2>4 DEF Submitted, Submits
  <2>5. 1 = Len(queue') => head' = Idle
    <3>1. 1 = Len(queue') => queue = <<>>
      BY <1>0, <1>3
    <3> QED
      BY <1>0, <1>1, <3>1
  <2>6. Rowed'
    <3> SUFFICES ASSUME NEW i \in 1 .. Len(queue'), queue'[i].act = "evaluate",
                        NEW c, c = queue'[i].cmd
                 PROVE  IF i = 1 THEN UnderWay(c)' ELSE Waits(c)'
      BY DEF Rowed, UnderWay, Waits
    <3>1. i = Len(queue') /\ queue'[i] = t
      BY <1>3, <2>4
    <3>2. rows'[c].status = "running" /\ ran'[c] = 0
      BY <1>1, <2>2, <2>3, <3>1
    <3>3. i = 1 => head' = Idle
      BY <2>5, <3>1
    <3> QED
      BY <3>2, <3>3 DEF UnderWay, Waits, Idle
  <2>7. RunOnce'
    <3>1. ASSUME NEW b \in Commands
          PROVE  /\ ran'[b] <= 1
                 /\ rows'[b].status = "complete" => ran'[b] = 1
                 /\ rows'[b].status \in {"none", "stale_target"} => ran'[b] = 0
      BY <1>0, <1>1, <2>2, <2>3 DEF RunOnce
    <3> QED
      BY <3>1 DEF RunOnce
  <2> QED
    BY <2>6, <2>7
<1> QED
  BY <1>4, <1>5

\* The row of a command ends with its request.
LEMMA EndedRows ==
    ASSUME IInv, NEW status \in {"unavailable", "complete", "stale_target"}, Concludes(status)
    PROVE  Rowed' /\ RunOnce'
<1>0. /\ queue # <<>> /\ head' = Idle /\ ran' = ran
      /\ \/ status = "unavailable"
         \/ head.at = "answered" /\ status = "complete" /\ head.status = "ok"
         \/ head.at = "answered" /\ status = "stale_target" /\ head.status = "stale_target"
  BY DEF Concludes
<1>1. /\ Rowed /\ RunOnce /\ queue \in Seq(Requests) /\ Len(queue) \in Nat /\ Alone(queue)
      /\ ran \in [Commands -> Nat] /\ rows \in [Commands -> Rows]
      /\ \A i \in 1 .. Len(queue) : queue[i].act = "evaluate" => queue[i].cmd \in Commands
  BY RowFacts
<1>2. /\ Head(queue) = queue[1] /\ 1 \in 1 .. Len(queue)
      /\ Submits(Head(queue)) => Head(queue).cmd \in Commands
  BY <1>0, HeadFacts DEF Submits
<1>3. ASSUME NEW c \in Commands, NEW st \in Statuses, NEW result \in BOOLEAN, Marked(c, st, result)
      PROVE  rows'[c].status = st /\ \A b \in Commands : b # c => rows'[b] = rows[b]
  <2>1. [rows[c] EXCEPT !.status = st, !.result = result].status = st
    BY <1>1, RowUpdate
  <2> QED
    BY <1>3, <2>1 DEF Marked
<1>4. Head(queue).act = "evaluate" =>
         /\ rows'[Head(queue).cmd].status = status
         /\ \A b \in Commands : b # Head(queue).cmd => rows'[b] = rows[b]
  <2>1. ASSUME Head(queue).act = "evaluate" PROVE \E result \in BOOLEAN : Marked(Head(queue).cmd, status, result)
    BY <2>1 DEF Concludes, CommandPolls, CommandEnds, OtherEnds
  <2>2. status \in Statuses
    BY DEF Statuses
  <2> QED
    BY <1>2, <1>3, <2>1, <2>2 DEF Submits
<1>5. Head(queue).act # "evaluate" => \A b \in Commands : rows'[b].status = rows[b].status
  <2>1. ASSUME Head(queue).act # "evaluate", Head(queue).ends
        PROVE  \A b \in Commands : rows'[b].status = rows[b].status
    <3>1. Marked(Head(queue).cmd, rows[Head(queue).cmd].status, TRUE) /\ Head(queue).cmd \in Commands
      BY <1>2, <2>1 DEF Concludes, CommandPolls, CommandEnds, OtherEnds, Submits
    <3>2. rows[Head(queue).cmd].status \in Statuses
      BY <1>1, <3>1 DEF Rows, Statuses
    <3> QED
      BY <1>3, <3>1, <3>2
  <2>2. ASSUME Head(queue).act # "evaluate", ~ Head(queue).ends PROVE rows' = rows
    BY <2>2 DEF Concludes, CommandPolls, CommandEnds, OtherEnds
  <2> QED
    BY <2>1, <2>2
<1>6. Rowed'
  <2>1. ASSUME NEW i \in 1 .. Len(queue'), queue'[i].act = "evaluate"
        PROVE  i + 1 \in 1 .. Len(queue) /\ Kept(queue[i + 1], queue'[i])
    <3>1. CASE Moves(1)
      BY <3>1 DEF Moves
    <3>2. ASSUME NEW end, Grows(1, end), PollOf(end)
          PROVE  i + 1 \in 1 .. Len(queue) /\ Kept(queue[i + 1], queue'[i])
      BY <2>1, <3>2 DEF Grows, PollOf
    <3> QED
      BY <3>1, <3>2, QueueMoves
  <2>2. \/ Head(queue).act = "evaluate"
        \/ \A b \in Commands : rows'[b].status = rows[b].status
    BY <1>5
  <2> QED
    BY <1>0, <2>1, <2>2, NextRows
<1>7. RunOnce'
  <2>1. CASE Head(queue).act # "evaluate"
    BY <1>0, <1>1, <1>5, <2>1 DEF RunOnce
  <2>2. CASE Head(queue).act = "evaluate"
    <3> DEFINE c == Head(queue).cmd
    <3>1. UnderWay(c) /\ c \in Commands
      BY <1>1, <1>2, <2>2 DEF Rowed
    <3>2. rows'[c].status = status /\ \A b \in Commands : b # c => rows'[b] = rows[b]
      BY <1>4, <2>2
    <3> HIDE DEF c
    <3>3. ran[c] <= 1
      BY <1>1, <3>1 DEF RunOnce
    <3>4. /\ status = "complete" => ran[c] = 1
          /\ status \in {"none", "stale_target"} => ran[c] = 0
      BY <1>0, <3>1 DEF UnderWay
    <3>5. ASSUME NEW b \in Commands
          PROVE  /\ ran'[b] <= 1
                 /\ rows'[b].status = "complete" => ran'[b] = 1
                 /\ rows'[b].status \in {"none", "stale_target"} => ran'[b] = 0
      BY <1>0, <1>1, <3>2, <3>3, <3>4 DEF RunOnce
    <3> QED
      BY <3>5 DEF RunOnce
  <2> QED
    BY <2>1, <2>2
<1> QED
  BY <1>6, <1>7

\* The head is given up only with its request.
LEMMA HeadEnds ==
    ASSUME IInv, [Next]_vars, head' = Idle, head' # head
    PROVE  Settles \/ \E status \in {"unavailable", "complete", "stale_target"} : Concludes(status)
<1>1. CASE Fails \/ Delivered
  BY <1>1, ConcludesAre
<1>2. CASE Connected \/ Stopped \/ Listed \/ Watched \/ DocumentStartRead
  BY <1>2, SettlesAre
<1>3. CASE Begin \/ OwnerHandles \/ RequestFails
  <2>1. head' # Idle
    BY <1>3 DEF Begin, OwnerHandles, Reply, RequestFails, Blank, Listing, Idle
  <2> QED
    BY <2>1
<1>4. ~ (Answered \/ Begin \/ OwnerHandles \/ RequestFails) => head' = head
  BY DEF Next, User, Timer, Exchange, Skip, LiveDocumentsListed, Start, Stop, Refresh,
     ChangeMode, Consent, SelectTarget, Submit, Poll, WatchSession, DocumentStart,
     RefreshLiveDocuments, LateHandled, vars, Owner, DocumentCloses, SessionEnds, OtherConnects
<1> QED
  BY <1>1, <1>2, <1>3, <1>4 DEF Answered

LEMMA RowStep ==
    ASSUME IInv, [Next]_vars
    PROVE  RowInv'
<1> DEFINE Goal == Rowed' /\ RunOnce'
<1>1. CASE ran' # ran
  BY <1>1, RunRows, LateRunRows, RanStep
<1>2. CASE ran' = ran
  <2>1. rows' = rows => RunOnce'
    BY <1>2, RowFacts DEF RunOnce
  <2>2. ASSUME Settles PROVE Goal
    <3>1. /\ queue # <<>> /\ head' = Idle /\ rows' = rows /\ Moves(1)
      BY <2>2, QueueMoves DEF Settles
    <3>2. \A i \in 1 .. Len(queue') : i + 1 \in 1 .. Len(queue) /\ Kept(queue[i + 1], queue'[i])
      BY <3>1 DEF Moves
    <3> QED
      BY <1>2, <2>1, <3>1, <3>2, NextRows
  <2>3. ASSUME NEW status \in {"unavailable", "complete", "stale_target"}, Concludes(status) PROVE Goal
    BY <2>3, EndedRows
  <2>4. ASSUME NEW t, Adds(t) PROVE Goal
    BY <2>4, AddedRows
  <2>5. ASSUME Stays \/ Ages PROVE Goal
    <3>1. rows' = rows /\ Moves(0)
      BY <2>5, QueueMoves DEF Stays, Ages
    <3>2. CASE head' # Idle \/ head' = head
      BY <1>2, <2>1, <3>1, <3>2, SameRows
    <3>3. CASE head' = Idle /\ head' # head
      BY <2>2, <2>3, <3>3, HeadEnds
    <3> QED
      BY <3>2, <3>3
  <2>6. \/ Stays \/ Ages \/ Settles \/ (\E t : Adds(t))
        \/ \E status \in {"unavailable", "complete", "stale_target"} : Concludes(status)
    BY Steps
  <2> HIDE DEF Goal
  <2>7. Goal
    BY <2>2, <2>3, <2>4, <2>5, <2>6
  <2> QED
    BY <2>7 DEF Goal, RowInv, Rowed, UnderWay, Waits
<1> QED
  BY <1>1, <1>2

----------------------------------------------------------------------------
(* A command's result *)

\* The poll that comes before the result of command c is queued.
EndOf(tasks, c) == \E i \in 1 .. Len(tasks) : tasks[i].ends /\ tasks[i].cmd = c

Learnt(row) == row.status \in {"complete", "stale_target"}

LEMMA EndsKept ==
    ASSUME IInv, NEW n \in {0, 1}, Moves(n), n = 1 => queue # <<>> /\ ~ Head(queue).ends
    PROVE  \A c : EndOf(queue', c) <=> EndOf(queue, c)
<1>0. Len(queue) \in Nat /\ queue \in Seq(Requests)
  BY RowFacts
<1>1. /\ Len(queue') = Len(queue) - n
      /\ \A i \in 1 .. Len(queue') : i + n \in 1 .. Len(queue) /\ Kept(queue[i + n], queue'[i])
  BY DEF Moves
<1>2. ASSUME NEW c, EndOf(queue', c) PROVE EndOf(queue, c)
  BY <1>1, <1>2 DEF EndOf, Kept
<1>3. ASSUME NEW c, EndOf(queue, c) PROVE EndOf(queue', c)
  <2>1. PICK i \in 1 .. Len(queue) : queue[i].ends /\ queue[i].cmd = c
    BY <1>3 DEF EndOf
  <2>2. i # 1 \/ n = 0
    BY <1>0, <2>1, HeadFacts
  <2>3. i - n \in 1 .. Len(queue') /\ (i - n) + n = i
    BY <1>0, <1>1, <2>1, <2>2
  <2>4. Kept(queue[i], queue'[i - n])
    BY <1>1, <2>3
  <2> QED
    BY <2>1, <2>3, <2>4 DEF EndOf, Kept
<1> QED
  BY <1>2, <1>3

\* A request that is alone in its kind leaves none behind.
LEMMA LastOfItsKind ==
    ASSUME IInv, queue # <<>>, Submits(Head(queue))
    PROVE  /\ \A i \in 1 .. Len(queue) : Submits(queue[i]) => i = 1
           /\ Moves(1) => \A i \in 1 .. Len(queue') : ~ Submits(queue'[i])
<1>1. Head(queue) = queue[1] /\ 1 \in 1 .. Len(queue) /\ Alone(queue)
  BY HeadFacts, RowFacts
<1>2. Moves(1) => ~ Submitted(queue')
  BY MovesAlone
<1> QED
  BY <1>1, <1>2 DEF Alone, Submitted

LEMMA MarkedIs ==
    ASSUME IInv, NEW c \in Commands, NEW status \in Statuses, NEW result \in BOOLEAN, Marked(c, status, result)
    PROVE  /\ rows'[c].status = status /\ rows'[c].result = result
           /\ rows'[c].session = rows[c].session /\ rows'[c].target = rows[c].target
           /\ \A b \in Commands : b # c => rows'[b] = rows[b]
<1>1. rows \in [Commands -> Rows]
  BY RowFacts
<1>2. LET row == [rows[c] EXCEPT !.status = status, !.result = result] IN
      /\ row.status = status /\ row.result = result
      /\ row.session = rows[c].session /\ row.target = rows[c].target
  BY <1>1, RowUpdate
<1> QED
  BY <1>2 DEF Marked

LEMMA ResultStep ==
    ASSUME IInv, [Next]_vars
    PROVE  ResultFollows'
<1> DEFINE Goal == \A c \in Commands : Learnt(rows'[c]) <=> rows'[c].result \/ EndOf(queue', c)
<1>0. \A c \in Commands : Learnt(rows[c]) <=> rows[c].result \/ EndOf(queue, c)
  BY DEF IInv, ResultFollows, Learnt, EndOf
<1>1. ASSUME Stays \/ Ages PROVE Goal
  <2>1. Moves(0) /\ rows' = rows
    BY <1>1, QueueMoves DEF Stays, Ages
  <2>2. \A c : EndOf(queue', c) <=> EndOf(queue, c)
    BY <2>1, EndsKept
  <2> QED
    BY <1>0, <2>1, <2>2
<1>2. ASSUME NEW t, Adds(t) PROVE Goal
  <2>1. queue' = Append(queue, t) /\ t \in Requests /\ ~ t.ends
    BY <1>2 DEF Adds
  <2>2. /\ Len(queue) \in Nat /\ Len(queue') = Len(queue) + 1 /\ queue'[Len(queue')] = t
        /\ \A i \in 1 .. Len(queue) : queue'[i] = queue[i]
    BY <2>1, RowFacts, AppendProperties
  <2>3. \A i \in 1 .. Len(queue') : i \in 1 .. Len(queue) \/ queue'[i] = t
    BY <2>2
  <2>4. \A i \in 1 .. Len(queue) : i \in 1 .. Len(queue')
    BY <2>2
  <2>5. \A c : EndOf(queue', c) <=> EndOf(queue, c)
    BY <2>1, <2>2, <2>3, <2>4 DEF EndOf
  <2>6. CASE rows' = rows
    BY <1>0, <2>5, <2>6
  <2>7. CASE rows' # rows
    <3>1. t.cmd \in Commands /\ rows[t.cmd] = NoRow /\ rows' = [rows EXCEPT ![t.cmd] = Running]
      BY <1>2, <2>7 DEF Adds
    <3>2. rows'[t.cmd] = Running /\ \A c \in Commands : c # t.cmd => rows'[c] = rows[c]
      BY <3>1, RowFacts
    <3>3. ~ Learnt(Running) /\ ~ Running.result /\ ~ Learnt(NoRow)
      BY DEF Learnt, Running, NoRow
    <3>4. ~ EndOf(queue, t.cmd)
      BY <1>0, <3>1, <3>3
    <3> QED
      BY <1>0, <2>5, <3>2, <3>3, <3>4
  <2> QED
    BY <2>6, <2>7
<1>3. ASSUME Settles PROVE Goal
  <2>1. Moves(1) /\ rows' = rows /\ queue # <<>> /\ Head(queue).act # "poll"
    BY <1>3, QueueMoves DEF Settles
  <2>2. ~ Head(queue).ends
    BY <2>1, HeadFacts, RowFacts DEF AllRegular, Regular
  <2>3. \A c : EndOf(queue', c) <=> EndOf(queue, c)
    BY <2>1, <2>2, EndsKept
  <2> QED
    BY <1>0, <2>1, <2>3
<1>4. ASSUME NEW status \in {"unavailable", "complete", "stale_target"}, Concludes(status) PROVE Goal
  <2> DEFINE t == Head(queue)
  <2>0. queue # <<>> /\ status \in Statuses
    BY <1>4 DEF Concludes, Statuses
  <2>1. /\ t = queue[1] /\ 1 \in 1 .. Len(queue)
        /\ t.act = "evaluate" \/ t.ends => t.cmd \in Commands
        /\ rows \in [Commands -> Rows] /\ (t.ends => t.act = "poll")
    BY <2>0, HeadFacts, RowFacts DEF AllRegular, Regular
  <2>2. ASSUME t.act = "evaluate" PROVE \A c : ~ EndOf(queue, c)
    <3>1. Submits(t) /\ ~ t.ends
      BY <2>1, <2>2 DEF Submits
    <3> QED
      BY <2>0, <2>1, <3>1, LastOfItsKind DEF EndOf, Submits
  <2>3. CASE CommandPolls(status) /\ \E end \in Requests : Grows(1, end) /\ PollOf(end)
    <3>1. PICK end \in Requests : Grows(1, end) /\ PollOf(end)
      BY <2>3
    <3>2. Len(queue') = 1 /\ queue'[1] = end /\ end.ends /\ end.cmd = t.cmd
      BY <2>0, <2>3, <3>1, PollsAlone DEF CommandPolls, PollOf
    <3>3. \A c : EndOf(queue', c) <=> c = t.cmd
      BY <3>2 DEF EndOf
    <3>4. t.act = "evaluate" /\ Marked(t.cmd, status, FALSE) /\ status # "unavailable"
      BY <2>3 DEF CommandPolls
    <3>5. /\ rows'[t.cmd].status = status /\ ~ rows'[t.cmd].result
          /\ \A c \in Commands : c # t.cmd => rows'[c] = rows[c]
      BY <2>0, <2>1, <3>4, MarkedIs
    <3>6. Learnt(rows'[t.cmd])
      BY <3>4, <3>5 DEF Learnt
    <3> QED
      BY <1>0, <2>2, <3>3, <3>4, <3>5, <3>6
  <2>4. CASE CommandEnds(status) /\ Moves(1)
    <3>1. t.act = "evaluate" /\ Marked(t.cmd, status, status # "unavailable")
      BY <2>4 DEF CommandEnds
    <3>2. \A c : ~ EndOf(queue', c)
      BY <2>0, <2>4, <3>1, LastOfItsKind DEF EndOf, Submits
    <3>3. PICK result \in BOOLEAN : result = (status # "unavailable")
      OBVIOUS
    <3>4. Marked(t.cmd, status, result)
      BY <3>1, <3>3 DEF Marked
    <3>5. /\ rows'[t.cmd].status = status /\ rows'[t.cmd].result = result
          /\ \A c \in Commands : c # t.cmd => rows'[c] = rows[c]
      BY <2>0, <2>1, <3>1, <3>4, MarkedIs
    <3>6. Learnt(rows'[t.cmd]) <=> rows'[t.cmd].result
      BY <3>3, <3>5 DEF Learnt
    <3> QED
      BY <1>0, <2>2, <3>1, <3>2, <3>5, <3>6
  <2>5. CASE OtherEnds /\ Moves(1) /\ t.ends
    <3>1. Marked(t.cmd, rows[t.cmd].status, TRUE) /\ t.cmd \in Commands
      BY <2>1, <2>5 DEF OtherEnds
    <3>2. rows[t.cmd].status \in Statuses
      BY <2>1, <3>1 DEF Rows, Statuses
    <3>3. /\ rows'[t.cmd].status = rows[t.cmd].status /\ rows'[t.cmd].result
          /\ \A c \in Commands : c # t.cmd => rows'[c] = rows[c]
      BY <3>1, <3>2, MarkedIs
    <3>4. /\ \A c : ~ EndOf(queue', c)
          /\ \A c : EndOf(queue, c) <=> c = t.cmd
      BY <2>0, <2>1, <2>5, LastOfItsKind DEF EndOf, Submits
    <3>5. Learnt(rows[t.cmd])
      BY <1>0, <3>1, <3>4
    <3>6. Learnt(rows'[t.cmd])
      BY <3>3, <3>5 DEF Learnt
    <3> QED
      BY <1>0, <3>3, <3>4, <3>6
  <2>6. CASE OtherEnds /\ Moves(1) /\ ~ t.ends
    <3>1. rows' = rows
      BY <2>6 DEF OtherEnds
    <3>2. \A c : EndOf(queue', c) <=> EndOf(queue, c)
      BY <2>0, <2>6, EndsKept
    <3> QED
      BY <1>0, <3>1, <3>2
  <2> QED
    BY <1>4, <2>3, <2>4, <2>5, <2>6, QueueMoves
<1>5. \/ Stays \/ Ages \/ Settles \/ (\E t : Adds(t))
      \/ \E status \in {"unavailable", "complete", "stale_target"} : Concludes(status)
  BY Steps
<1> HIDE DEF Goal
<1>6. Goal
  BY <1>1, <1>2, <1>3, <1>4, <1>5
<1> QED
  BY <1>6 DEF Goal, ResultFollows, Learnt, EndOf

----------------------------------------------------------------------------
(* What a row names *)

\* The request t, its command's row and panel p belong together.
Labelled(t, row, p) ==
    /\ t.act = "evaluate" => row.session = t.session /\ row.target = t.target
    /\ t.ends => /\ t.cmd \in Commands /\ row.session # None
                 /\ row.session = p.session /\ p.target \in {row.target, NoDoc}

LEMMA LabelStep ==
    ASSUME IInv, [Next]_vars
    PROVE  LabelInv'
<1> DEFINE Goal == \A i \in 1 .. Len(queue') : Labelled(queue'[i], rows'[queue'[i].cmd], panel')
<1>0. /\ \A i \in 1 .. Len(queue) : Labelled(queue[i], rows[queue[i].cmd], panel)
      /\ Len(queue) \in Nat /\ queue \in Seq(Requests) /\ panel \in Panels /\ Behind(queue)
      /\ panel.submitting <=> Submitted(queue)
  BY RowFacts, QueueInvIs, TypesAre DEF IInv, LabelInv, Labelled, Sound
<1>1. \A t, u, row, p : Kept(t, u) /\ Labelled(t, row, panel) /\ ~ t.ends => Labelled(u, row, p)
  BY DEF Kept, Labelled
<1>2. ASSUME NEW n \in {0, 1}, Moves(n), rows' = rows, \A i \in 1 .. Len(queue) : i # n => ~ queue[i].ends PROVE Goal
  <2>1. ASSUME NEW i \in 1 .. Len(queue') PROVE Labelled(queue'[i], rows'[queue'[i].cmd], panel')
    <3>1. i + n \in 1 .. Len(queue) /\ Kept(queue[i + n], queue'[i]) /\ i + n # n
      BY <1>2 DEF Moves
    <3>2. ~ queue[i + n].ends /\ queue'[i].cmd = queue[i + n].cmd
      BY <1>2, <3>1 DEF Kept
    <3> QED
      BY <1>0, <1>1, <1>2, <3>1, <3>2
  <2> QED
    BY <2>1
<1>3. ASSUME Stays PROVE Goal
  <2>1. queue' = queue /\ rows' = rows /\ panel'.session = panel.session
        /\ (panel.session # None => panel'.target = panel.target)
    BY <1>3 DEF Stays, Same
  <2> QED
    BY <1>0, <2>1 DEF Labelled
<1>4. ASSUME Ages PROVE Goal
  <2>1. Moves(0) /\ rows' = rows /\ ~ panel.submitting
    BY <1>4, QueueMoves DEF Ages, Busy
  <2>2. \A i \in 1 .. Len(queue) : ~ queue[i].ends
    BY <1>0, <2>1 DEF Submitted, Submits
  <2> QED
    BY <1>2, <2>1, <2>2
<1>5. ASSUME NEW t, Adds(t) PROVE Goal
  <2>1. queue' = Append(queue, t) /\ t \in Requests /\ ~ t.ends
    BY <1>5 DEF Adds
  <2>2. /\ Len(queue') = Len(queue) + 1 /\ queue'[Len(queue')] = t
        /\ \A i \in 1 .. Len(queue) : queue'[i] = queue[i]
    BY <1>0, <2>1, AppendProperties
  <2>3. \A i \in 1 .. Len(queue') : i \in 1 .. Len(queue) \/ queue'[i] = t
    BY <1>0, <2>2
  <2>4. panel'.session = panel.session /\ panel'.target = panel.target
    BY <1>0, <1>5 DEF Adds, Panels
  <2>5. CASE t.act # "evaluate"
    <3>1. rows' = rows /\ Labelled(t, rows'[t.cmd], panel')
      BY <1>5, <2>1, <2>5 DEF Adds, Labelled
    <3> QED
      BY <1>0, <2>2, <2>3, <2>4, <3>1 DEF Labelled
  <2>6. CASE t.act = "evaluate"
    <3>1. /\ t.cmd \in Commands /\ ~ panel.submitting /\ rows' = [rows EXCEPT ![t.cmd] = Running]
          /\ t.session = panel.session /\ t.target = panel.target
      BY <1>5, <2>6 DEF Adds
    <3>2. rows'[t.cmd] = Running
      BY <3>1, RowFacts
    <3>3. Labelled(t, rows'[t.cmd], panel')
      BY <2>1, <3>1, <3>2 DEF Labelled, Running
    <3>4. \A i \in 1 .. Len(queue) : ~ Submits(queue[i])
      BY <1>0, <3>1 DEF Submitted
    <3> QED
      BY <2>2, <2>3, <3>3, <3>4 DEF Labelled, Submits
  <2> QED
    BY <2>5, <2>6
<1>6. ASSUME NEW i \in 1 .. Len(queue), queue[i].ends PROVE i = 1
  BY <1>0, <1>6 DEF Behind
<1>7. ASSUME queue # <<>>, ~ Head(queue).ends PROVE \A i \in 1 .. Len(queue) : ~ queue[i].ends
  BY <1>6, <1>7, HeadFacts
<1>8. ASSUME Settles PROVE Goal
  <2>1. Moves(1) /\ rows' = rows /\ queue # <<>> /\ Head(queue).act # "poll"
    BY <1>8, QueueMoves DEF Settles
  <2>2. ~ Head(queue).ends
    BY <2>1, HeadFacts, RowFacts DEF AllRegular, Regular
  <2> QED
    BY <1>2, <1>7, <2>1, <2>2
<1>9. ASSUME NEW status \in {"unavailable", "complete", "stale_target"}, Concludes(status) PROVE Goal
  <2> DEFINE t == Head(queue)
  <2>0. queue # <<>> /\ status \in Statuses
    BY <1>9 DEF Concludes, Statuses
  <2>1. t = queue[1] /\ 1 \in 1 .. Len(queue) /\ (t.act = "evaluate" => t.cmd \in Commands /\ t.session # None)
    BY <2>0, HeadFacts, RowFacts DEF AllRegular, Regular
  <2>2. CASE CommandPolls(status) /\ \E end \in Requests : Grows(1, end) /\ PollOf(end)
    <3>1. PICK end \in Requests : Grows(1, end) /\ PollOf(end)
      BY <2>2
    <3>2. Len(queue') = 1 /\ queue'[1] = end /\ end.ends /\ end.cmd = t.cmd /\ end.act = "poll"
      BY <2>0, <2>2, <3>1, PollsAlone DEF CommandPolls, PollOf
    <3>3. t.act = "evaluate" /\ Marked(t.cmd, status, FALSE) /\ status # "unavailable"
      BY <2>2 DEF CommandPolls
    <3>4. rows'[t.cmd].session = rows[t.cmd].session /\ rows'[t.cmd].target = rows[t.cmd].target
      BY <2>0, <2>1, <3>3, MarkedIs
    <3>5. rows[t.cmd].session = t.session /\ rows[t.cmd].target = t.target /\ t.session # None
      BY <1>0, <2>1, <3>3 DEF Labelled
    <3>6. head # Idle /\ t.current
      BY <1>9, <3>3 DEF Concludes, Idle
    <3>7. t.session = panel.session /\ t.target = panel.target
      BY <3>3, <3>6 DEF IInv, BegunInv
    <3>8. panel'.session = panel.session /\ panel'.target \in {panel.target, NoDoc}
      BY <1>9 DEF Concludes, Within
    <3>9. Labelled(end, rows'[t.cmd], panel')
      BY <2>1, <3>2, <3>3, <3>4, <3>5, <3>7, <3>8 DEF Labelled
    <3> QED
      BY <3>2, <3>9
  <2>3. CASE Moves(1) /\ Submits(t)
    <3>1. \A i \in 1 .. Len(queue') : ~ Submits(queue'[i])
      BY <2>0, <2>3, LastOfItsKind
    <3> QED
      BY <3>1 DEF Labelled, Submits
  <2>4. CASE Moves(1) /\ ~ Submits(t) /\ OtherEnds
    <3>1. rows' = rows /\ ~ t.ends
      BY <2>4 DEF OtherEnds, Submits
    <3> QED
      BY <1>2, <1>7, <2>0, <2>4, <3>1
  <2>5. CommandEnds(status) => Submits(t)
    BY DEF CommandEnds, Submits
  <2> QED
    BY <1>9, <2>2, <2>3, <2>4, <2>5, QueueMoves
<1>10. \/ Stays \/ Ages \/ Settles \/ (\E t : Adds(t))
       \/ \E status \in {"unavailable", "complete", "stale_target"} : Concludes(status)
  BY Steps
<1> HIDE DEF Goal
<1>11. Goal
  BY <1>3, <1>4, <1>5, <1>8, <1>9, <1>10
<1> QED
  BY <1>11 DEF Goal, LabelInv, Labelled

----------------------------------------------------------------------------
(* The commands that were given up *)

\* A command at the head that has been sent is not given up.
LEMMA SentIsKept ==
    ASSUME IInv, head = [at |-> "sent"], Head(queue).act = "evaluate"
    PROVE  /\ Head(queue).cmd \in Commands /\ ran[Head(queue).cmd] = 0 /\ ~ Unconfirmed(Head(queue).cmd)
           /\ rows[Head(queue).cmd].session = Head(queue).session
           /\ rows[Head(queue).cmd].target = Head(queue).target
<1>1. head # Idle /\ head # Blank /\ head.at # "answered"
  BY DEF Idle, Blank
<1>2. /\ Head(queue) = queue[1] /\ 1 \in 1 .. Len(queue) /\ Head(queue).cmd \in Commands
  BY <1>1, HeadFacts, RowFacts
<1>3. UnderWay(Head(queue).cmd)
  BY <1>2, RowFacts DEF Rowed
<1>4. rows[Head(queue).cmd].session = Head(queue).session /\ rows[Head(queue).cmd].target = Head(queue).target
  BY <1>2 DEF IInv, LabelInv
<1> QED
  BY <1>1, <1>2, <1>3, <1>4 DEF UnderWay, Unconfirmed

LEMMA GivenUpStays ==
    ASSUME IInv, [Next]_vars, NEW c \in Commands, Unconfirmed(c)
    PROVE  /\ Unconfirmed(c)'
           /\ rows'[c].session = rows[c].session /\ rows'[c].target = rows[c].target
<1> DEFINE t == Head(queue)
           Given == head = Blank /\ t.act = "evaluate" /\ t.cmd = c
           Goal == /\ \/ rows'[c].status = "unavailable"
                      \/ head' = Blank /\ Head(queue').act = "evaluate" /\ Head(queue').cmd = c
                   /\ rows'[c].session = rows[c].session /\ rows'[c].target = rows[c].target
<1>0. rows[c].status = "unavailable" \/ Given
  BY DEF Unconfirmed
<1>1. /\ rows \in [Commands -> Rows] /\ queue \in Seq(Requests) /\ (head # Idle => queue # <<>>)
  BY RowFacts
<1>2. Given => /\ head # Idle /\ queue # <<>> /\ t = queue[1] /\ 1 \in 1 .. Len(queue)
               /\ head.at = "answered" /\ head.status = "refused" /\ ~ Quiet(t)
  BY <1>1, HeadFacts DEF Blank, Idle, Quiet
<1>3. t.act = "evaluate" /\ queue # <<>> => /\ t.cmd \in Commands /\ rows[t.cmd].status = "running"
  BY HeadFacts, RowFacts DEF Rowed, UnderWay
<1>4. ASSUME rows' = rows, rows[c].status = "unavailable" PROVE Goal
  BY <1>4
<1>5. ASSUME rows' = rows, Given, head' = head, Kept(t, Head(queue')) PROVE Goal
  BY <1>5 DEF Kept
<1>6. Given /\ ~ Answered => head' = head
  BY <1>2 DEF Next, User, Timer, Exchange, Skip, Begin, OwnerHandles, RequestFails,
     LiveDocumentsListed, Start, Stop, Refresh, Idle,
     ChangeMode, Consent, SelectTarget, Submit, Poll, WatchSession, DocumentStart,
     RefreshLiveDocuments, LateHandled, vars, Owner, DocumentCloses, SessionEnds, OtherConnects
<1>7. Answered => head' = Idle
  BY DEF Answered, Fails, Connected, Stopped, Listed, Delivered, Watched, DocumentStartRead
<1>8. head' # Idle => Kept(t, Head(queue'))
  BY HeadStep
<1>9. Answered => Settles \/ \E status \in {"unavailable", "complete", "stale_target"} : Concludes(status)
  BY ConcludesAre, SettlesAre DEF Answered
<1>10. ASSUME NEW u, Adds(u) PROVE Goal
  <2>1. head' = head
    BY <1>10 DEF Adds
  <2>2. CASE rows' = rows
    BY <1>0, <1>2, <1>4, <1>5, <1>8, <2>1, <2>2
  <2>3. CASE rows' # rows
    <3>1. u.act = "evaluate" /\ u.cmd \in Commands /\ rows[u.cmd] = NoRow /\ rows' = [rows EXCEPT ![u.cmd] = Running]
      BY <1>10, <2>3 DEF Adds
    <3>2. rows[c].status # "none"
      BY <1>0, <1>2, <1>3
    <3>3. c # u.cmd
      BY <3>1, <3>2 DEF NoRow
    <3>4. rows'[c] = rows[c]
      BY <1>1, <3>1, <3>3
    <3> QED
      BY <1>0, <1>2, <1>8, <2>1, <3>4 DEF Kept
  <2> QED
    BY <2>2, <2>3
<1>11. ASSUME NEW status \in {"unavailable", "complete", "stale_target"}, Concludes(status) PROVE Goal
  <2>0. queue # <<>> /\ status \in Statuses
    BY <1>11 DEF Concludes, Statuses
  <2>1. CASE t.act = "evaluate"
    <3>1. PICK result \in BOOLEAN : Marked(t.cmd, status, result)
      BY <1>11, <2>1 DEF Concludes, CommandPolls, CommandEnds, OtherEnds
    <3>2. /\ rows'[t.cmd].status = status
          /\ rows'[t.cmd].session = rows[t.cmd].session /\ rows'[t.cmd].target = rows[t.cmd].target
          /\ \A b \in Commands : b # t.cmd => rows'[b] = rows[b]
      BY <1>3, <2>0, <2>1, <3>1, MarkedIs
    <3>3. CASE Given
      <4>1. status = "unavailable"
        BY <1>2, <1>11, <3>3 DEF Concludes
      <4> QED
        BY <3>2, <3>3, <4>1
    <3>4. CASE ~ Given
      <4>1. rows[c].status = "unavailable"
        BY <1>0, <3>4
      <4>2. c # t.cmd
        BY <1>3, <2>0, <2>1, <4>1
      <4> QED
        BY <3>2, <4>1, <4>2
    <3> QED
      BY <3>3, <3>4
  <2>2. CASE t.act # "evaluate"
    <3>1. rows[c].status = "unavailable"
      BY <1>0, <2>2
    <3>2. CASE rows' = rows
      BY <1>4, <3>1, <3>2
    <3>3. CASE rows' # rows
      <4>1. t.ends /\ Marked(t.cmd, rows[t.cmd].status, TRUE) /\ t.cmd \in Commands
        BY <1>11, <2>0, <2>2, <3>3, HeadFacts DEF Concludes, CommandPolls, CommandEnds, OtherEnds
      <4>2. rows[t.cmd].status \in Statuses
        BY <1>1, <4>1 DEF Rows, Statuses
      <4>3. /\ rows'[t.cmd].status = rows[t.cmd].status
            /\ rows'[t.cmd].session = rows[t.cmd].session /\ rows'[t.cmd].target = rows[t.cmd].target
            /\ \A b \in Commands : b # t.cmd => rows'[b] = rows[b]
        BY <4>1, <4>2, MarkedIs
      <4> QED
        BY <3>1, <4>3
    <3> QED
      BY <3>2, <3>3
  <2> QED
    BY <2>1, <2>2
<1>12. ASSUME Settles PROVE Goal
  <2>1. rows' = rows /\ t.act # "evaluate"
    BY <1>12 DEF Settles
  <2> QED
    BY <1>0, <1>4, <2>1
<1>13. ASSUME Stays \/ Ages, ~ Answered PROVE Goal
  <2>1. rows' = rows
    BY <1>13 DEF Stays, Ages
  <2> QED
    BY <1>0, <1>2, <1>4, <1>5, <1>6, <1>8, <1>13, <2>1
<1>14. \/ Stays \/ Ages \/ Settles \/ (\E u : Adds(u))
       \/ \E status \in {"unavailable", "complete", "stale_target"} : Concludes(status)
  BY Steps
<1> HIDE DEF Goal
<1>15. Goal
  BY <1>9, <1>10, <1>11, <1>12, <1>13, <1>14
<1> QED
  BY <1>15 DEF Goal, Unconfirmed

LEMMA LateStep ==
    ASSUME IInv, [Next]_vars
    PROVE  LateInv'
<1> DEFINE Given(l) == /\ l.request.cmd \in Commands /\ Unconfirmed(l.request.cmd)
                       /\ rows[l.request.cmd].session = l.request.session
                       /\ rows[l.request.cmd].target = l.request.target
           Commanded(l) == l.request.act = "evaluate"
<1>0. /\ \A l \in late : Commanded(l) => Given(l) /\ ran[l.request.cmd] = 0
      /\ \A l, m \in late : Commanded(l) /\ Commanded(m) /\ l.request.cmd = m.request.cmd => l = m
      /\ ran \in [Commands -> Nat]
  BY RowFacts DEF IInv, LateInv
<1>1. ASSUME NEW l \in late, Commanded(l)
      PROVE  /\ l.request.cmd \in Commands /\ Unconfirmed(l.request.cmd)'
             /\ rows'[l.request.cmd].session = l.request.session
             /\ rows'[l.request.cmd].target = l.request.target
  BY <1>0, <1>1, GivenUpStays
<1>2. ASSUME NEW l \in late, l \in late', Commanded(l) PROVE ran'[l.request.cmd] = 0
  <2> DEFINE c == l.request.cmd
  <2>1. c \in Commands /\ ran[c] = 0 /\ Unconfirmed(c)
    BY <1>0, <1>2
  <2>2. CASE ran' = ran
    BY <2>1, <2>2
  <2>3. CASE HeadRuns
    <3>1. ~ Unconfirmed(Head(queue).cmd) /\ ran' = [ran EXCEPT ![Head(queue).cmd] = ran[Head(queue).cmd] + 1]
      BY <2>3, SentIsKept DEF HeadRuns
    <3>2. Head(queue).cmd # c
      BY <2>1, <3>1
    <3> QED
      BY <1>0, <2>1, <3>1, <3>2
  <2>4. ASSUME NEW m \in late, LateRuns(m) PROVE ran'[c] = 0
    <3>1. /\ Commanded(m) /\ late' = late \ {m}
          /\ ran' = [ran EXCEPT ![m.request.cmd] = ran[m.request.cmd] + 1]
      BY <2>4 DEF LateRuns
    <3>2. m # l
      BY <1>2, <3>1
    <3>3. m.request.cmd # c
      BY <1>0, <1>2, <3>1, <3>2
    <3> QED
      BY <1>0, <2>1, <3>1, <3>3
  <2> QED
    BY <2>2, <2>3, <2>4, RanStep
<1>3. CASE late' \subseteq late
  <2>1. ASSUME NEW l \in late', Commanded(l)
        PROVE  /\ l.request.cmd \in Commands /\ ran'[l.request.cmd] = 0 /\ Unconfirmed(l.request.cmd)'
               /\ rows'[l.request.cmd].session = l.request.session
               /\ rows'[l.request.cmd].target = l.request.target
    BY <1>1, <1>2, <1>3, <2>1
  <2>2. \A l, m \in late' : Commanded(l) /\ Commanded(m) /\ l.request.cmd = m.request.cmd => l = m
    BY <1>0, <1>3
  <2> QED
    BY <2>1, <2>2 DEF LateInv, Unconfirmed
<1>4. CASE ~ late' \subseteq late
  <2> DEFINE new == [nr |-> failures', request |-> Head(queue)]
             t == Head(queue)
  <2>1. RequestFails
    BY <1>4 DEF Next, User, Timer, Exchange, Answered, Skip, Fails, Connected, Stopped, Listed,
         Delivered, Watched, DocumentStartRead, LiveDocumentsListed, Start, Stop, Refresh,
         ChangeMode, Consent, SelectTarget, Submit, Poll, WatchSession, DocumentStart,
         RefreshLiveDocuments, LateHandled, vars, Owner, DocumentCloses, SessionEnds, OtherConnects, Begin,
         OwnerHandles
  <2>2. /\ head.at = "sent" /\ late' = late \union {new} /\ head' = Blank
        /\ UNCHANGED <<queue, rows, ran>>
    BY <1>4, <2>1 DEF RequestFails
  <2>3. head = [at |-> "sent"]
    BY <2>2, RowFacts DEF Idle, Answers
  <2>4. t.act = "evaluate" =>
           /\ t.cmd \in Commands /\ ran[t.cmd] = 0 /\ ~ Unconfirmed(t.cmd)
           /\ rows[t.cmd].session = t.session /\ rows[t.cmd].target = t.target
    BY <2>3, SentIsKept
  <2>5. new.request = t
    OBVIOUS
  <2> HIDE DEF new
  <2>6. ASSUME NEW l \in late', Commanded(l)
        PROVE  /\ l.request.cmd \in Commands /\ ran'[l.request.cmd] = 0 /\ Unconfirmed(l.request.cmd)'
               /\ rows'[l.request.cmd].session = l.request.session
               /\ rows'[l.request.cmd].target = l.request.target
    <3>1. CASE l \in late
      BY <1>1, <1>2, <2>6, <3>1
    <3>2. CASE l = new
      <4>1. l.request = t /\ t.act = "evaluate"
        BY <2>5, <2>6, <3>2
      <4>2. Unconfirmed(t.cmd)'
        BY <2>2, <4>1 DEF Unconfirmed
      <4> QED
        BY <2>2, <2>4, <4>1, <4>2
    <3> QED
      BY <2>2, <3>1, <3>2
  <2>7. ASSUME NEW l \in late, Commanded(l), t.act = "evaluate" PROVE l.request.cmd # t.cmd
    BY <1>0, <2>4, <2>7
  <2>8. \A l, m \in late' : Commanded(l) /\ Commanded(m) /\ l.request.cmd = m.request.cmd => l = m
    BY <1>0, <2>2, <2>5, <2>7
  <2> QED
    BY <2>6, <2>8 DEF LateInv, Unconfirmed
<1> QED
  BY <1>3, <1>4

----------------------------------------------------------------------------
(* The theorems *)

LEMMA InitInv == Init => IInv
<1> SUFFICES ASSUME Init PROVE IInv
  OBVIOUS
<1>1. /\ queue = <<>> /\ head = Idle /\ listing = Idle /\ failures = 0 /\ late = {}
      /\ rows = [c \in Commands |-> NoRow] /\ ran = [c \in Commands |-> 0]
      /\ panel = initialize(owner.session)
  BY DEF Init
<1>2. OwnerTypes
  <2>1. PICK live \in BOOLEAN, target \in Docs \union {NoDoc}, open \in {None, 1} :
           owner = [session |-> open, live |-> live, target |-> target, docs |-> Docs] /\ opened = open
    BY DEF Init
  <2>2. open \in Nat /\ target \in Documents
    BY DEF None, Documents
  <2> QED
    BY <2>1, <2>2 DEF OwnerTypes
<1>3. Sound(panel) /\ ~ panel.submitting
  <2> DEFINE p == [Fresh EXCEPT !.session = owner.session]
  <2>1. owner.session \in Nat
    BY <1>2 DEF OwnerTypes
  <2>2. p \in Panels /\ ~ p.usable /\ ~ p.submitting
    BY <2>1, NoDocs DEF Fresh, Panels, None
  <2>3. State \in Reads
    BY <1>2, ReadsAre
  <2>4. panel = captureState(p, State)
    BY <1>1 DEF initialize
  <2> HIDE DEF p
  <2>5. Sound(captureState(p, State)) /\ Same(p, captureState(p, State))
    BY <2>2, <2>3, CaptureSound DEF Sound
  <2> QED
    BY <2>2, <2>4, <2>5 DEF Same
<1>4. PanelTypes
  BY <1>3 DEF PanelTypes, Sound
<1>5. queue \in Seq(Requests) /\ Len(queue) = 0 /\ 1 .. Len(queue) = {}
  BY <1>1
<1>6. QueueTypes
  BY <1>1, <1>5, ConsoleAssumption DEF QueueTypes
<1>7. RecordTypes
  <2>1. NoRow \in Rows
    BY NoDocs DEF NoRow, Rows, None
  <2> QED
    BY <1>1, <2>1, ConsoleAssumption DEF RecordTypes
<1>8. SubmittedQueued /\ QueueInv /\ ConnectInv /\ LabelInv
  BY <1>3, <1>5 DEF SubmittedQueued, QueueInv, ConnectInv, LabelInv
<1>9. BegunInv
  BY <1>1 DEF BegunInv
<1>10. RowInv /\ ResultFollows
  BY <1>1, <1>5 DEF RowInv, RunOnce, ResultFollows, NoRow
<1>11. LateInv
  BY <1>1 DEF LateInv
<1> QED
  BY <1>2, <1>4, <1>6, <1>7, <1>8, <1>9, <1>10, <1>11 DEF IInv, TypeOK

LEMMA NextInv == IInv /\ [Next]_vars => IInv'
<1> SUFFICES ASSUME IInv, [Next]_vars PROVE IInv'
  OBVIOUS
<1>1. OwnerTypes' /\ PanelTypes' /\ QueueTypes' /\ RecordTypes'
  BY OwnerTypesStep, PanelTypesStep, QueueTypesStep, RecordTypesStep
<1>2. QueueInv' /\ SubmittedQueued'
  BY AloneStep
<1>3. ConnectInv' /\ BegunInv' /\ RowInv'
  BY ConnectStep, BegunStep, RowStep
<1>4. ResultFollows' /\ LabelInv' /\ LateInv'
  BY ResultStep, LabelStep, LateStep
<1> QED
  BY <1>1, <1>2, <1>3, <1>4 DEF IInv, TypeOK

\* The inductive invariant holds in every state of every behaviour.
THEOREM InvCorrect == Spec => []IInv
BY InitInv, NextInv, PTL DEF Spec

\* The queue never outgrows its bound, one command at most is submitted, each runs once at
\* most, its row tells the truth about it, and one whose outcome was learnt has its result
\* row or the poll that comes before it (native_console.js:152, 852-867).
THEOREM ConsistentCorrect == Spec => []Consistent
<1>1. IInv => Consistent
  BY DEF IInv, RowInv, Consistent
<1> QED
  BY <1>1, InvCorrect, PTL

\* An answer is accepted, page messages shown and a row given its status, only while the
\* session and the document it was asked of are the ones shown (native_console.js:149); the
\* result row, one poll later, appears in the session of its command, with the command's
\* document selected or none (native_console.js:852, 867).
THEOREM ShownOwnedCorrect == Spec => ShownOwned
<1> DEFINE Accepted == Delivered /\ Shown(Head(queue)) =>
                          <<Head(queue).session, Head(queue).target>> = <<panel.session, panel.target>>
           Resulting == \A c \in Commands : rows'[c].result /\ ~ rows[c].result =>
                           /\ panel'.session = rows[c].session
                           /\ panel'.target \in {rows[c].target, NoDoc}
<1>0. IInv => Accepted
  BY DEF IInv, BegunInv, Delivered, Answer, Shown, Idle
<1>1. ASSUME IInv, [Next]_vars PROVE Resulting
  <2> SUFFICES ASSUME NEW c \in Commands, rows'[c].result, ~ rows[c].result
               PROVE  panel'.session = rows[c].session /\ panel'.target \in {rows[c].target, NoDoc}
    OBVIOUS
  <2> DEFINE t == Head(queue)
  <2>1. ASSUME NEW u, Adds(u) PROVE rows'[c] = rows[c] \/ rows'[c] = Running
    <3>1. rows \in [Commands -> Rows]
      BY <1>1, RowFacts
    <3> QED
      BY <2>1, <3>1 DEF Adds
  <2>2. ~ Running.result
    BY DEF Running
  <2>3. PICK status \in {"unavailable", "complete", "stale_target"} : Concludes(status)
    BY <1>1, <2>1, <2>2, Steps DEF Stays, Ages, Settles
  <2>4. /\ queue # <<>> /\ panel'.session = panel.session /\ panel'.target \in {panel.target, NoDoc}
        /\ status \in Statuses
    BY <2>3 DEF Concludes, Within, Statuses
  <2>5. /\ t = queue[1] /\ 1 \in 1 .. Len(queue) /\ (t.act = "evaluate" \/ t.ends => t.cmd \in Commands)
        /\ rows \in [Commands -> Rows]
    BY <1>1, <2>4, HeadFacts
  <2>6. CASE CommandPolls(status)
    <3>1. Marked(t.cmd, status, FALSE) /\ t.cmd \in Commands
      BY <2>5, <2>6 DEF CommandPolls
    <3>2. ~ rows'[t.cmd].result /\ \A b \in Commands : b # t.cmd => rows'[b] = rows[b]
      BY <1>1, <2>4, <3>1, MarkedIs
    <3> QED
      BY <3>2
  <2>7. CASE CommandEnds(status)
    <3>1. t.act = "evaluate" /\ Marked(t.cmd, status, status # "unavailable") /\ t.cmd \in Commands
      BY <2>5, <2>7 DEF CommandEnds
    <3>2. c = t.cmd
      BY <3>1 DEF Marked
    <3>3. status # "unavailable"
      <4>1. ASSUME status = "unavailable" PROVE FALSE
        <5>1. Marked(t.cmd, status, FALSE)
          BY <3>1, <4>1 DEF Marked
        <5>2. ~ rows'[t.cmd].result
          BY <1>1, <2>4, <3>1, <5>1, MarkedIs
        <5> QED
          BY <3>2, <5>2
      <4> QED
        BY <4>1
    <3>4. head # Idle /\ t.current
      BY <2>3, <3>3 DEF Concludes, Idle
    <3>5. t.session = panel.session /\ t.target = panel.target
      BY <1>1, <3>1, <3>4 DEF IInv, BegunInv
    <3>6. rows[c].session = t.session /\ rows[c].target = t.target
      BY <1>1, <2>5, <3>1, <3>2 DEF IInv, LabelInv
    <3> QED
      BY <2>4, <3>5, <3>6
  <2>8. CASE OtherEnds
    <3>1. t.ends /\ c = t.cmd
      BY <2>8 DEF OtherEnds, Marked
    <3>2. panel.session = rows[c].session /\ panel.target \in {rows[c].target, NoDoc}
      BY <1>1, <2>5, <3>1 DEF IInv, LabelInv
    <3> QED
      BY <2>4, <3>2
  <2> QED
    BY <2>3, <2>6, <2>7, <2>8 DEF Concludes
<1> QED
  BY <1>0, <1>1, InvCorrect, PTL DEF Spec, ShownOwned

\* A command runs only in the session and the document its row names, and these are the
\* ones shown unless its row says that its outcome is unavailable; a connection made while
\* the panel waits for it is to the capture document it shows (native_console.js:142-145,
\* native_console.rs:448).
THEOREM ActsWhereShownCorrect == Spec => ActsWhereShown
<1> DEFINE Step == /\ \A c \in Commands : ran'[c] # ran[c] =>
                         /\ owner.session = rows[c].session /\ RunsIn(rows[c])
                         /\ Unconfirmed(c) \/ <<rows[c].session, rows[c].target>> = <<panel.session, panel.target>>
                   /\ OwnerHandles /\ owner'.live /\ owner'.session # owner.session =>
                         owner'.target = panel.target
<1>1. ASSUME IInv, [Next]_vars PROVE Step
  <2>1. ASSUME NEW c \in Commands, ran'[c] # ran[c]
        PROVE  /\ owner.session = rows[c].session /\ RunsIn(rows[c])
               /\ Unconfirmed(c) \/ <<rows[c].session, rows[c].target>> = <<panel.session, panel.target>>
    <3>0. ran \in [Commands -> Nat]
      BY <1>1, RowFacts
    <3>1. CASE HeadRuns
      <4> DEFINE t == Head(queue)
      <4>1. /\ t.act = "evaluate" /\ Accepts(t) /\ RunsIn(t) /\ head = [at |-> "sent"]
            /\ t.cmd \in Commands /\ ran' = [ran EXCEPT ![t.cmd] = ran[t.cmd] + 1]
        BY <3>1 DEF HeadRuns
      <4>2. c = t.cmd
        BY <2>1, <3>0, <4>1
      <4>3. rows[c].session = t.session /\ rows[c].target = t.target
        BY <1>1, <4>1, <4>2, SentIsKept
      <4>4. head # Idle /\ ~ Quiet(t)
        BY <4>1 DEF Idle, Quiet
      <4>5. <<t.session, t.target>> = <<panel.session, panel.target>>
        BY <1>1, <4>1, <4>4 DEF IInv, BegunInv
      <4> QED
        BY <4>1, <4>3, <4>5 DEF Accepts, RunsIn
    <3>2. ASSUME NEW l \in late, LateRuns(l)
          PROVE  owner.session = rows[c].session /\ RunsIn(rows[c]) /\ Unconfirmed(c)
      <4> DEFINE t == l.request
      <4>1. /\ t.act = "evaluate" /\ Accepts(t) /\ RunsIn(t)
            /\ t.cmd \in Commands /\ ran' = [ran EXCEPT ![t.cmd] = ran[t.cmd] + 1]
        BY <3>2 DEF LateRuns
      <4>2. c = t.cmd
        BY <2>1, <3>0, <4>1
      <4>3. rows[c].session = t.session /\ rows[c].target = t.target /\ Unconfirmed(c)
        BY <1>1, <4>1, <4>2 DEF IInv, LateInv
      <4> QED
        BY <4>1, <4>3 DEF Accepts, RunsIn
    <3> QED
      BY <1>1, <2>1, <3>1, <3>2, RanStep
  <2>2. ASSUME OwnerHandles, owner'.live, owner'.session # owner.session
        PROVE  owner'.target = panel.target
    <3> DEFINE t == Head(queue)
    <3>1. owner \in [session : Nat, live : BOOLEAN, target : Documents, docs : SUBSET Docs]
      BY <1>1 DEF IInv, TypeOK, OwnerTypes
    <3>2. [Closed EXCEPT !.docs = owner.docs].live = FALSE
      BY DEF Closed
    <3>3. ASSUME NEW live, NEW target, Opens(live, target)
          PROVE  owner'.live = live /\ owner'.target = target
      BY <3>1, <3>3 DEF Opens
    <3>4. Connects(t)
      BY <2>2, <3>2 DEF OwnerHandles, Handles, Disconnects, Runs
    <3>5. t.act = "connect_live" /\ owner'.target = t.target
      BY <2>2, <3>3, <3>4 DEF Connects
    <3>6. head # Idle /\ ~ Quiet(t)
      BY <2>2, <3>5 DEF OwnerHandles, Idle, Quiet
    <3>7. t.current /\ t = queue[1] /\ 1 \in 1 .. Len(queue)
      BY <1>1, <3>5, <3>6 DEF IInv, BegunInv, TypeOK, QueueTypes
    <3> QED
      BY <1>1, <3>5, <3>7 DEF IInv, ConnectInv
  <2> QED
    BY <2>1, <2>2
<1> QED
  BY <1>1, InvCorrect, PTL DEF Spec, ActsWhereShown
=============================================================================
