-------------------------- MODULE EventPoll_proofs --------------------------
(***************************************************************************)
(* Theorems about the evidence poll, for any events, requests, evidence    *)
(* versions, actions, failures and choices: what the page shows under a    *)
(* tag that still matches is the backend's evidence, no poll brings back   *)
(* what an acknowledged capture action had changed, and no request shows   *)
(* the profile or the trace that was read for another.                     *)
(***************************************************************************)
EXTENDS EventPoll, FiniteSetTheorems, TLAPS

----------------------------------------------------------------------------
(* The inductive invariant *)

Answers == [at : {"reading"}, overlapped : BOOLEAN, tag : Nat, phase : Phases]
           \union [at : {"window"}, overlapped : BOOLEAN, tag : Nat, phase : Phases, window : SUBSET Events]
Polls == {Idle} \union [at : {"asking"}, overlapped : BOOLEAN, match : Nat]
         \union [at : {"unchanged"}, overlapped : BOOLEAN] \union Answers
Posts == [id : Nat, kind : {"stop", "clear"}, at : {"sent", "waiting", "done", "refused"},
          left : Nat, stopped : BOOLEAN]
Reads == [kind : Kinds, current : BOOLEAN, key : Keys, chained : BOOLEAN, tagged : BOOLEAN]

\* A tag is computed before the window it names is read, and names no later evidence:
\* while it is the backend's own, the answer is what the backend holds.  A poll that no
\* action overlapped was tagged after the last action that was acknowledged.
Dated(answer) ==
    /\ answer.tag \in 1 .. backend.version
    /\ answer.tag = backend.version =>
          /\ answer.phase = backend.phase
          /\ answer.at = "window" => answer.window = backend.window
    /\ ~ answer.overlapped => answer.tag >= acked

PollInv == poll \in Polls /\ (poll \in Answers => Dated(poll))

PostInv ==
    /\ posts \subseteq Posts
    /\ \A p \in posts : p.at = "done" => p.left \in 1 .. backend.version
    /\ acked \in 1 .. backend.version
    /\ counts \in [actions : Nat, failures : Nat, choices : Nat]

\* Each view holds an answer for its own key, the profile's is of the selected request.
ViewInv ==
    /\ \A kind \in Kinds : page.views[kind].data \in {NoKey, page.views[kind].key}
    /\ ProfileOfSelected
PageInv ==
    /\ page \in Pages /\ page.tag <= backend.version
    /\ NotModifiedIsCurrent
    /\ ViewInv

\* One current read of a kind is out at most, and one that the chain awaits.
Tidy(R) ==
    /\ R \subseteq Reads
    /\ \A r, q \in R : r.current /\ q.current /\ r.kind = q.kind => r = q
    /\ \A r, q \in R : r.chained /\ q.chained => r = q
Chained(R) == \E r \in R : r.chained
ReadInv == Tidy(reads) /\ chain \in {"idle", "profile", "rest"} /\ (chain = "profile" <=> Chained(reads))

IInv == backend \in Backends /\ PollInv /\ PostInv /\ PageInv /\ ReadInv

----------------------------------------------------------------------------
(* Selections and views *)

\* The requests' events have one that comes first, so a row is read by one of its events.
LEMMA RootEvent ==
    ASSUME NEW window \in SUBSET Events, NEW r \in requestsFromEvents(window)
    PROVE  requestRootEvent(window, r) \in window /\ RequestOf[requestRootEvent(window, r)] = r
<1> DEFINE Of == {e \in window : RequestOf[e] = r}
           First(e) == RequestOf[e] = r /\ \A f \in window : RequestOf[f] = r => Rank[e] >= Rank[f]
<1>1. \A e \in Of : e \in window /\ RequestOf[e] = r /\ Rank[e] \in 0 .. 2  BY PollAssumption
<1>2. Of # {}  BY DEF requestsFromEvents
<1>3. \E e \in Of : \A f \in Of : Rank[e] >= Rank[f]
  <2>1. CASE \E e \in Of : Rank[e] = 2  BY <2>1, <1>1
  <2>2. CASE \A e \in Of : Rank[e] # 2
    <3>1. CASE \E e \in Of : Rank[e] = 1  BY <3>1, <2>2, <1>1
    <3>2. CASE \A e \in Of : Rank[e] # 1  BY <3>2, <2>2, <1>1, <1>2
    <3> QED  BY <3>1, <3>2
  <2> QED  BY <2>1, <2>2
<1>4. \E e \in window : First(e)  BY <1>1, <1>3
<1>5. requestRootEvent(window, r) = CHOOSE e \in window : First(e)  BY DEF requestRootEvent
<1>6. requestRootEvent(window, r) \in window /\ First(requestRootEvent(window, r))
  <2> HIDE DEF First
  <2> QED  BY <1>4, <1>5
<1> QED  BY <1>6

LEMMA SelectionIs ==
    ASSUME NEW p \in Pages
    PROVE  Selection(p) \in Keys /\ (Selection(p) # NoKey => Selection(p)[1] = p.selected)
<1>1. CASE p.selected \in requestsFromEvents(p.window)
  <2> DEFINE e == requestRootEvent(p.window, p.selected)
  <2>1. e \in Events /\ RequestOf[e] = p.selected  BY <1>1, RootEvent DEF Pages
  <2> QED  BY <1>1, <2>1 DEF Selection, Keys
<1>2. CASE p.selected \notin requestsFromEvents(p.window)
  BY <1>2 DEF Selection, Keys
<1> QED  BY <1>1, <1>2

\* A view a read can leave for the request selected.
Fits(view, kind, selected) ==
    /\ view \in Views /\ view.data \in {NoKey, view.key}
    /\ kind = "profile" /\ view.data # NoKey => view.data[1] = selected
Sound(p) == p \in Pages /\ \A kind \in Kinds : Fits(p.views[kind], kind, p.selected)

\* What a page says of the evidence, whatever its views show.
SameEvidence(p, q) == <<q.window, q.tag, q.connection, q.controls>> = <<p.window, p.tag, p.connection, p.controls>>

LEMMA EmptyFits ==
    ASSUME NEW kind \in Kinds, NEW selected PROVE Fits(EmptyView, kind, selected)
BY DEF Fits, EmptyView, Views, Keys

Updated(p, q, kind, view) ==
    /\ Sound(q) /\ SameEvidence(p, q) /\ <<q.selected, q.stopped>> = <<p.selected, p.stopped>>
    /\ q.views[kind] = view
    /\ \A other \in Kinds \ {kind} : q.views[other] = p.views[other]

LEMMA SetView ==
    ASSUME NEW p, Sound(p), NEW kind \in Kinds, NEW view, Fits(view, kind, p.selected),
           NEW q, q = [p EXCEPT !.views[kind] = view]
    PROVE  Updated(p, q, kind, view)
<1>1. p.views \in [Kinds -> Views]  BY DEF Sound, Pages
<1>2. q.views = [p.views EXCEPT ![kind] = view]  BY DEF Sound, Pages
<1>3. /\ q.views \in [Kinds -> Views] /\ q.views[kind] = view
      /\ \A other \in Kinds \ {kind} : q.views[other] = p.views[other]
  BY <1>1, <1>2 DEF Fits
<1>4. SameEvidence(p, q) /\ <<q.selected, q.stopped>> = <<p.selected, p.stopped>>
  BY DEF Sound, Pages, SameEvidence
<1>5. q \in Pages  BY <1>3 DEF Sound, Pages
<1>6. \A other \in Kinds : Fits(q.views[other], other, q.selected)  BY <1>3, <1>4 DEF Sound
<1> QED  BY <1>3, <1>4, <1>5, <1>6 DEF Sound, Updated

LEMMA ResetViews ==
    ASSUME NEW p \in Pages, NEW r \in Requests \union {NoRequest}
    PROVE  LET q == [p EXCEPT !.selected = r, !.views = Reset] IN
           Sound(q) /\ SameEvidence(p, q) /\ q.selected = r /\ q.views = Reset
<1>1. Reset \in [Kinds -> Views] /\ \A kind \in Kinds : Reset[kind] = EmptyView
  BY EmptyFits DEF Reset, Fits
<1> QED  BY <1>1, EmptyFits DEF Sound, Pages, SameEvidence

----------------------------------------------------------------------------
(* Reads *)

LEMMA SupersededReads ==
    ASSUME Tidy(reads), NEW kinds \in SUBSET Kinds
    PROVE  /\ Tidy(Superseded(kinds)) /\ (Chained(Superseded(kinds)) <=> Chained(reads))
           /\ \A r \in Superseded(kinds) : r.current => r.kind \notin kinds
<1> DEFINE Ended(r) == [r EXCEPT !.current = @ /\ r.kind \notin kinds]
<1>1. ASSUME NEW r \in Reads
      PROVE  /\ Ended(r) \in Reads /\ Ended(r).kind = r.kind /\ Ended(r).chained = r.chained
             /\ Ended(r).current <=> (r.current /\ r.kind \notin kinds)
  BY DEF Reads
<1>2. \A s \in Superseded(kinds) : \E r \in reads : s = Ended(r)  BY DEF Superseded
<1>3. \A r \in reads : r.chained => Ended(r) \in Superseded(kinds)  BY DEF Superseded
<1>4. reads \subseteq Reads  BY DEF Tidy
<1> HIDE DEF Ended
<1>5. Superseded(kinds) \subseteq Reads  BY <1>1, <1>2, <1>4
<1>6. ASSUME NEW r \in Superseded(kinds), NEW q \in Superseded(kinds), r.current, q.current, r.kind = q.kind
      PROVE  r = q
  <2>1. PICK r0 \in reads : r = Ended(r0)  BY <1>2
  <2>2. PICK q0 \in reads : q = Ended(q0)  BY <1>2
  <2>3. r0.current /\ q0.current /\ r0.kind = q0.kind  BY <1>1, <1>4, <1>6, <2>1, <2>2
  <2> QED  BY <2>1, <2>2, <2>3 DEF Tidy
<1>7. ASSUME NEW r \in Superseded(kinds), NEW q \in Superseded(kinds), r.chained, q.chained
      PROVE  r = q
  <2>1. PICK r0 \in reads : r = Ended(r0)  BY <1>2
  <2>2. PICK q0 \in reads : q = Ended(q0)  BY <1>2
  <2>3. r0.chained /\ q0.chained  BY <1>1, <1>4, <1>7, <2>1, <2>2
  <2> QED  BY <2>1, <2>2, <2>3 DEF Tidy
<1>8. Chained(Superseded(kinds)) <=> Chained(reads)  BY <1>1, <1>2, <1>3, <1>4 DEF Chained
<1>9. \A r \in Superseded(kinds) : r.current => r.kind \notin kinds  BY <1>1, <1>2, <1>4
<1> QED  BY <1>5, <1>6, <1>7, <1>8, <1>9 DEF Tidy

LEMMA NewRead ==
    ASSUME NEW p \in Pages, NEW kind \in Kinds, NEW chained \in BOOLEAN
    PROVE  \A r \in Read(p, kind, chained) : r \in Reads /\ r.kind = kind /\ r.chained = chained
<1>1. Selection(p) \in Keys  BY SelectionIs
<1> DEFINE tagged == p.views[kind].key = Selection(p) /\ p.views[kind].tag
           r == [kind |-> kind, current |-> TRUE, key |-> Selection(p), chained |-> chained, tagged |-> tagged]
<1>2. tagged \in BOOLEAN  OBVIOUS
<1>3. Read(p, kind, chained) = {r}  BY DEF Read
<1> HIDE DEF tagged
<1>4. r \in Reads /\ r.kind = kind /\ r.chained = chained  BY <1>1, <1>2 DEF Reads
<1> HIDE DEF r
<1> QED  BY <1>3, <1>4

\* A read begins when the current one of its kind has been superseded.
LEMMA BeginRead ==
    ASSUME Tidy(reads), NEW p \in Pages, NEW kinds \in SUBSET Kinds, NEW kind \in kinds,
           NEW chained \in BOOLEAN, chained => ~ Chained(reads)
    PROVE  LET R == Superseded(kinds) \union Read(p, kind, chained) IN
           Tidy(R) /\ (Chained(R) <=> chained \/ Chained(reads))
<1> DEFINE new == Read(p, kind, chained)
<1>1. /\ Tidy(Superseded(kinds)) /\ (Chained(Superseded(kinds)) <=> Chained(reads))
      /\ \A r \in Superseded(kinds) : r.current => r.kind \notin kinds
  BY SupersededReads
<1>2. \A r \in new : r \in Reads /\ r.kind = kind /\ r.chained = chained  BY NewRead
<1>3. \A r, q \in new : r = q  BY DEF Read
<1>4. new # {}  BY DEF Read
<1> DEFINE R == Superseded(kinds) \union new
<1> HIDE DEF new
<1>5. R \subseteq Reads  BY <1>1, <1>2 DEF Tidy
<1>6. \A r, q \in R : r.current /\ q.current /\ r.kind = q.kind => r = q  BY <1>1, <1>2, <1>3 DEF Tidy
<1>7. \A r, q \in R : r.chained /\ q.chained => r = q  BY <1>1, <1>2, <1>3 DEF Tidy, Chained
<1>8. Chained(R) <=> chained \/ Chained(reads)  BY <1>1, <1>2, <1>4 DEF Chained
<1> QED  BY <1>5, <1>6, <1>7, <1>8 DEF Tidy, new

LEMMA EndRead ==
    ASSUME Tidy(reads), NEW r \in reads
    PROVE  Tidy(reads \ {r}) /\ (Chained(reads \ {r}) <=> Chained(reads) /\ ~ r.chained)
BY DEF Tidy, Chained

----------------------------------------------------------------------------
(* What the steps leave of the invariant *)

\* Nothing that was not shown of the selected request appears.
NothingAppears(p, q) == \A kind \in Kinds : q.views[kind].data \in {NoKey, p.views[kind].data}

\* A valid poll begins the reads that hang on it, or leaves those of an earlier one alone.
LEMMA PollDependents ==
    ASSUME NEW p, Sound(p), NEW ended \in SUBSET Kinds, ReadInv, refreshPollDependents(p, ended)
    PROVE  /\ Sound(page') /\ SameEvidence(p, page') /\ NothingAppears(p, page')
           /\ page'.selected = p.selected /\ ReadInv'
<1> DEFINE kinds == ended \union {"profile"}
<1>1. kinds \in SUBSET Kinds /\ "profile" \in kinds  BY DEF Kinds
<1>2. p \in Pages  BY DEF Sound
<1>3. Tidy(reads)  BY DEF ReadInv
<1>4. CASE chain # "idle"
  <2>1. page' = p /\ chain' = chain /\ reads' = Superseded(ended)  BY <1>4 DEF refreshPollDependents
  <2>2. Tidy(reads') /\ (Chained(reads') <=> Chained(reads))  BY <1>3, <2>1, SupersededReads
  <2>3. ReadInv'  BY <2>1, <2>2 DEF ReadInv, Tidy, Chained
  <2> QED  BY <2>1, <2>3 DEF SameEvidence, NothingAppears
<1>5. CASE chain = "idle"
  <2>1. /\ chain' = IF Selection(p) = NoKey THEN "rest" ELSE "profile"
        /\ refreshRequestSignalProfile(p, kinds)
    BY <1>5 DEF refreshPollDependents
  <2>2. ~ Chained(reads)  BY <1>5 DEF ReadInv
  <2> DEFINE view == IF Selection(p) = NoKey THEN EmptyView ELSE Owned(p)
  <2>3. Fits(view, "profile", p.selected) /\ view.data \in {NoKey, p.views["profile"].data}
    <3>1. EmptyView.data = NoKey  BY DEF EmptyView
    <3> QED  BY <1>1, <3>1, EmptyFits DEF Owned, Sound
  <2>4. page' = [p EXCEPT !.views["profile"] = view]  BY <2>1 DEF refreshRequestSignalProfile
  <2> HIDE DEF view
  <2>5. /\ Sound(page') /\ SameEvidence(p, page') /\ page'.selected = p.selected
        /\ page'.views["profile"] = view
        /\ \A other \in Kinds \ {"profile"} : page'.views[other] = p.views[other]
    <3>1. Updated(p, page', "profile", view)  BY <1>1, <2>3, <2>4, SetView
    <3> QED  BY <3>1 DEF Updated
  <2>6. NothingAppears(p, page')  BY <2>3, <2>5 DEF NothingAppears
  <2>7. CASE Selection(p) = NoKey
    <3>1. reads' = Superseded(kinds) /\ chain' = "rest"  BY <2>1, <2>7 DEF refreshRequestSignalProfile
    <3>2. Tidy(reads') /\ ~ Chained(reads')  BY <1>1, <1>3, <2>2, <3>1, SupersededReads
    <3>3. ReadInv'  BY <3>1, <3>2 DEF ReadInv, Tidy, Chained
    <3> QED  BY <2>5, <2>6, <3>3
  <2>8. CASE Selection(p) # NoKey
    <3>1. reads' = Superseded(kinds) \union Read(p, "profile", TRUE) /\ chain' = "profile"
      BY <2>1, <2>8 DEF refreshRequestSignalProfile
    <3>2. Tidy(reads') /\ Chained(reads')  BY <1>1, <1>2, <1>3, <2>2, <3>1, BeginRead
    <3>3. ReadInv'  BY <3>1, <3>2 DEF ReadInv, Tidy, Chained
    <3> QED  BY <2>5, <2>6, <3>3
  <2> QED  BY <2>7, <2>8
<1> QED  BY <1>4, <1>5

\* The page's invariant says of the views that they are sound.
LEMMA PageIs == PageInv <=> /\ Sound(page) /\ page.tag <= backend.version
                            /\ NotModifiedIsCurrent
BY DEF PageInv, ViewInv, Sound, Fits, ProfileOfSelected, Kinds, Pages

\* The backend's evidence stays, or becomes another that no tag names yet.
Moves == backend' = backend \/ (backend' \in Backends /\ backend'.version = backend.version + 1)

LEMMA BecomesMoves ==
    ASSUME backend \in Backends, NEW b \in Backends, b.version = backend.version, Becomes(b)
    PROVE  Moves
<1>1. MaxVersion \in Nat  BY PollAssumption
<1>2. b.version \in 1 .. MaxVersion /\ b.version < MaxVersion  BY DEF Becomes, Backends
<1>3. b.version + 1 \in 1 .. MaxVersion  BY <1>1, <1>2
<1>4. backend' = [b EXCEPT !.version = b.version + 1]  BY DEF Becomes
<1>5. backend' \in Backends /\ backend'.version = b.version + 1  BY <1>3, <1>4 DEF Backends
<1> QED  BY <1>5 DEF Moves

LEMMA BackendMoves ==
    ASSUME IInv, Moves, UNCHANGED <<page, poll, acked>>
    PROVE  (backend \in Backends)' /\ PageInv' /\ PollInv'
<1>1. CASE backend' = backend
  BY <1>1 DEF IInv, PageInv, ViewInv, ProfileOfSelected, NotModifiedIsCurrent, BrokerRunning, PollInv, Dated
<1>2. CASE backend' \in Backends /\ backend'.version = backend.version + 1
  <2>1. backend.version \in Nat /\ page.tag \in Nat /\ page.tag <= backend.version
    BY DEF IInv, Backends, PageInv, Pages
  <2>2. page.tag # backend'.version /\ page.tag <= backend'.version  BY <1>2, <2>1
  <2>3. PageInv'  BY <2>2 DEF IInv, PageInv, ViewInv, ProfileOfSelected, NotModifiedIsCurrent
  <2>4. ASSUME poll \in Answers
        PROVE  poll.tag \in 1 .. backend'.version /\ poll.tag # backend'.version
    <3>1. poll.tag \in 1 .. backend.version  BY <2>4 DEF IInv, PollInv, Dated
    <3> QED  BY <1>2, <2>1, <3>1
  <2>5. PollInv'  BY <2>4 DEF IInv, PollInv, Dated
  <2> QED  BY <1>2, <2>3, <2>5
<1> QED  BY <1>1, <1>2 DEF Moves

LEMMA PollKept ==
    ASSUME PollInv, UNCHANGED <<poll, backend, acked>> PROVE PollInv'
BY DEF PollInv, Dated

LEMMA PageKept ==
    ASSUME PageInv, Sound(page'), SameEvidence(page, page'), UNCHANGED backend PROVE PageInv'
<1>1. Sound(page)' /\ (page.tag <= backend.version)' /\ NotModifiedIsCurrent'
  BY DEF PageInv, SameEvidence, NotModifiedIsCurrent, BrokerRunning
<1>2. (PageInv <=> Sound(page) /\ page.tag <= backend.version /\ NotModifiedIsCurrent)'
  BY PageIs, PTL
<1> QED  BY <1>1, <1>2

LEMMA ReadKept == ASSUME ReadInv, UNCHANGED <<reads, chain>> PROVE ReadInv'
BY DEF ReadInv, Tidy, Chained

LEMMA PostKept ==
    ASSUME PostInv, UNCHANGED <<posts, acked, backend>>, counts' \in [actions : Nat, failures : Nat, choices : Nat]
    PROVE  PostInv'
BY DEF PostInv

\* A poll that an action overlaps, or a new one, is bound to nothing.
LEMMA PollOverlapped ==
    ASSUME IInv, UNCHANGED backend,
           \/ poll' = Overlapped
           \/ \E tag \in Nat, o \in BOOLEAN : poll' = [at |-> "asking", overlapped |-> o, match |-> tag]
           \/ poll' = Idle
    PROVE  PollInv'
<1>1. poll \in Polls /\ (poll \in Answers => Dated(poll))  BY DEF IInv, PollInv
<1>2. CASE poll' = Overlapped /\ poll \in Answers
  <2>1. poll' = [poll EXCEPT !.overlapped = TRUE]  BY <1>2 DEF Overlapped, Answers, Idle
  <2>2. /\ poll' \in Answers /\ poll'.tag = poll.tag /\ poll'.phase = poll.phase /\ poll'.at = poll.at
        /\ poll'.overlapped = TRUE
        /\ poll.at = "window" => poll'.window = poll.window
    BY <1>2, <2>1 DEF Answers
  <2>3. Dated(poll)'  BY <1>1, <1>2, <2>2 DEF Dated
  <2> QED  BY <2>2, <2>3 DEF PollInv, Polls
<1>3. CASE poll' = Overlapped /\ poll \notin Answers
  <2>1. poll' \in Polls \ Answers  BY <1>1, <1>3 DEF Overlapped, Polls, Answers, Idle
  <2> QED  BY <2>1 DEF PollInv
<1>4. CASE \E tag \in Nat, o \in BOOLEAN : poll' = [at |-> "asking", overlapped |-> o, match |-> tag]
  <2>1. poll' \in Polls \ Answers  BY <1>4 DEF Polls, Answers
  <2> QED  BY <2>1 DEF PollInv
<1>5. CASE poll' = Idle
  <2>1. poll' \in Polls \ Answers  BY <1>5 DEF Polls, Answers, Idle
  <2> QED  BY <2>1 DEF PollInv
<1> QED  BY <1>2, <1>3, <1>4, <1>5

----------------------------------------------------------------------------
(* The steps *)

LEMMA EvidenceStep == ASSUME IInv, Evidence PROVE IInv'
<1>0. backend \in Backends  BY DEF IInv
<1>1. backend.recorded \in SUBSET Events /\ backend.window \in SUBSET Events
      /\ backend.version \in 1 .. MaxVersion /\ backend.phase \in Phases
  BY DEF IInv, Backends
<1>2. Moves
  <2>1. ASSUME NEW e \in Events, Record(e) PROVE Moves
    <3> DEFINE b == [backend EXCEPT !.recorded = @ \union {e}, !.window = @ \union {e}]
    <3>1. b \in Backends /\ b.version = backend.version  BY <1>0, <1>1, <2>1 DEF Backends
    <3> QED  BY <1>0, <2>1, <3>1, BecomesMoves DEF Record
  <2>2. ASSUME NEW e \in Events, Forget(e) PROVE Moves
    <3> DEFINE b == [backend EXCEPT !.window = @ \ {e}]
    <3>1. b \in Backends /\ b.version = backend.version  BY <1>0, <1>1, <2>2 DEF Backends
    <3> QED  BY <1>0, <2>2, <3>1, BecomesMoves DEF Forget
  <2>3. ASSUME NEW phase \in {"stopped", "ended"}, BrokerExits(phase) PROVE Moves
    <3> DEFINE b == [backend EXCEPT !.phase = phase]
    <3>1. b \in Backends /\ b.version = backend.version  BY <1>0, <1>1, <2>3 DEF Backends, Phases
    <3> QED  BY <1>0, <2>3, <3>1, BecomesMoves DEF BrokerExits
  <2> QED  BY <2>1, <2>2, <2>3 DEF Evidence
<1>3. UNCHANGED <<page, poll, action, posts, chain, reads, counts, acked>>
  BY DEF Evidence, Record, Forget, BrokerExits
<1>4. (backend \in Backends)' /\ PageInv' /\ PollInv'  BY <1>2, <1>3, BackendMoves
<1>5. PostInv'
  <2>1. backend'.version \in Nat /\ backend'.version >= backend.version  BY <1>1, <1>2 DEF Moves
  <2>2. \A n \in 1 .. backend.version : n \in 1 .. backend'.version  BY <1>1, <2>1
  <2> QED  BY <1>3, <2>2 DEF IInv, PostInv
<1>6. ReadInv'  BY <1>3, ReadKept DEF IInv
<1> QED  BY <1>4, <1>5, <1>6 DEF IInv

\* What handling a post leaves of it.
LEMMA PostReply ==
    ASSUME IInv, NEW p \in posts, Moves, UNCHANGED <<acked, counts>>,
           \/ \E reply \in {"done", "refused"} : Answered(p, reply)
           \/ posts' = (posts \ {p}) \union {[p EXCEPT !.at = "waiting"]}
           \/ UNCHANGED posts
    PROVE  PostInv'
<1>1. /\ posts \subseteq Posts /\ p \in Posts
      /\ \A q \in posts : q.at = "done" => q.left \in 1 .. backend.version
      /\ acked \in 1 .. backend.version
      /\ counts \in [actions : Nat, failures : Nat, choices : Nat]
  BY DEF IInv, PostInv
<1>2. backend.version \in Nat /\ backend'.version \in Nat /\ backend'.version >= backend.version
      /\ backend'.version >= 1 /\ backend'.phase \in Phases
  BY DEF IInv, Backends, Moves
<1>3. \A n \in 1 .. backend.version : n \in 1 .. backend'.version  BY <1>2
<1>4. backend'.version \in 1 .. backend'.version  BY <1>2
<1>5. \A q \in posts' : q \in posts \/ (q \in Posts /\ (q.at = "done" => q.left = backend'.version))
  <2>1. ASSUME NEW reply \in {"done", "refused"}, NEW b \in BOOLEAN
        PROVE  LET q == [p EXCEPT !.at = reply, !.left = backend'.version, !.stopped = b] IN
               q \in Posts /\ q.left = backend'.version
    BY <1>1, <1>2 DEF Posts
  <2>2. ASSUME NEW reply \in {"done", "refused"}, Answered(p, reply)
        PROVE  \A q \in posts' : q \in posts \/ (q \in Posts /\ q.left = backend'.version)
    <3>1. posts' \subseteq posts \union
                 {[p EXCEPT !.at = reply, !.left = backend'.version, !.stopped = (backend'.phase = "stopped")]}
      BY <2>2 DEF Answered
    <3>2. (backend'.phase = "stopped") \in BOOLEAN  OBVIOUS
    <3> QED  BY <2>1, <3>1, <3>2
  <2>3. ASSUME posts' = (posts \ {p}) \union {[p EXCEPT !.at = "waiting"]}
        PROVE  \A q \in posts' : q \in posts \/ (q \in Posts /\ q.at = "waiting")
    BY <1>1, <2>3 DEF Posts
  <2>4. CASE \E reply \in {"done", "refused"} : Answered(p, reply)  BY <2>2, <2>4
  <2>5. CASE posts' = (posts \ {p}) \union {[p EXCEPT !.at = "waiting"]}  BY <2>3, <2>5
  <2> QED  BY <2>4, <2>5
<1> QED  BY <1>1, <1>3, <1>4, <1>5 DEF PostInv

LEMMA HandlingStep == ASSUME IInv, Handling PROVE IInv'
<1>1. PICK p \in posts : RequestStop(p) \/ StopAnswered(p) \/ ClearStores(p)  BY DEF Handling
<1>2. UNCHANGED <<page, poll, action, chain, reads, counts, acked>>
  BY <1>1 DEF RequestStop, StopAnswered, ClearStores
<1>3. backend \in Backends  BY DEF IInv
<1>4. Moves
  <2>1. CASE RequestStop(p)
    <3> DEFINE b == [backend EXCEPT !.phase = "stopping"]
    <3>1. b \in Backends /\ b.version = backend.version  BY <1>3 DEF Backends, Phases
    <3>2. backend' = backend \/ Becomes(b)  BY <2>1 DEF RequestStop
    <3> QED  BY <1>3, <3>1, <3>2, BecomesMoves DEF Moves
  <2>2. CASE StopAnswered(p)  BY <2>2 DEF StopAnswered, Moves
  <2>3. CASE ClearStores(p)
    <3> DEFINE b == [backend EXCEPT !.window = {}]
    <3>1. b \in Backends /\ b.version = backend.version  BY <1>3 DEF Backends
    <3>2. backend' = backend \/ Becomes(b)  BY <2>3 DEF ClearStores
    <3> QED  BY <1>3, <3>1, <3>2, BecomesMoves DEF Moves
  <2> QED  BY <1>1, <2>1, <2>2, <2>3
<1>5. \/ \E reply \in {"done", "refused"} : Answered(p, reply)
      \/ posts' = (posts \ {p}) \union {[p EXCEPT !.at = "waiting"]}
  BY <1>1 DEF RequestStop, StopAnswered, ClearStores, Acknowledges, Refuses
<1>6. (backend \in Backends)' /\ PageInv' /\ PollInv'  BY <1>2, <1>4, BackendMoves
<1>7. PostInv'  BY <1>2, <1>4, <1>5, PostReply
<1>8. ReadInv'  BY <1>2, ReadKept DEF IInv
<1> QED  BY <1>6, <1>7, <1>8 DEF IInv

LEMMA UserStep == ASSUME IInv, User PROVE IInv'
<1>1. /\ backend \in Backends /\ Sound(page) /\ page \in Pages /\ Tidy(reads) /\ posts \subseteq Posts
      /\ counts \in [actions : Nat, failures : Nat, choices : Nat]
      /\ PollInv /\ PageInv /\ PostInv /\ ReadInv
  BY PageIs DEF IInv, ReadInv, PostInv, PageInv
<1>2. ASSUME NEW r \in Requests, selectRequest(r) PROVE IInv'
  <2> DEFINE p == [page EXCEPT !.selected = r, !.views = Reset]
  <2>1. Sound(p) /\ SameEvidence(page, p) /\ p \in Pages  BY <1>1, ResetViews DEF Sound
  <2>2. /\ page' = p /\ reads' = Superseded(Kinds) \union Read(p, "profile", FALSE)
        /\ counts' = [counts EXCEPT !.choices = @ + 1]
        /\ UNCHANGED <<backend, poll, action, posts, chain, acked>>
    BY <1>2 DEF selectRequest, Choose
  <2> HIDE DEF p
  <2>3. Tidy(reads') /\ (Chained(reads') <=> Chained(reads))
    BY <1>1, <2>1, <2>2, BeginRead DEF Kinds
  <2>4. ReadInv'  BY <1>1, <2>2, <2>3 DEF ReadInv, Tidy, Chained
  <2>5. PageInv'  BY <1>1, <2>1, <2>2, PageKept
  <2>6. PostInv'  BY <1>1, <2>2, PostKept
  <2>7. PollInv'  BY <1>1, <2>2, PollKept
  <2> QED  BY <1>1, <2>2, <2>4, <2>5, <2>6, <2>7 DEF IInv
<1>3. ASSUME refreshOriginTrace PROVE IInv'
  <2>1. /\ reads' = Superseded({"trace"}) \union Read(page, "trace", FALSE)
        /\ counts' = [counts EXCEPT !.choices = @ + 1]
        /\ UNCHANGED <<backend, page, poll, action, posts, chain, acked>>
    BY <1>3 DEF refreshOriginTrace, Choose
  <2>2. Tidy(reads') /\ (Chained(reads') <=> Chained(reads))
    BY <1>1, <2>1, BeginRead DEF Kinds
  <2>3. ReadInv'  BY <1>1, <2>1, <2>2 DEF ReadInv, Tidy, Chained
  <2>4. PageInv'  BY <1>1, <2>1, PageKept DEF SameEvidence
  <2>5. PostInv'  BY <1>1, <2>1, PostKept
  <2>6. PollInv'  BY <1>1, <2>1, PollKept
  <2> QED  BY <1>1, <2>1, <2>3, <2>4, <2>5, <2>6 DEF IInv
<1>4. ASSUME NEW kind \in {"stop", "clear"}, performCaptureAction(kind) PROVE IInv'
  <2> DEFINE post == [id |-> counts.actions + 1, kind |-> kind, at |-> "sent", left |-> 0, stopped |-> FALSE]
  <2>1. /\ posts' = posts \union {post} /\ poll' = Overlapped
        /\ counts' = [counts EXCEPT !.actions = counts.actions + 1]
        /\ UNCHANGED <<backend, page, chain, reads, acked>>
    BY <1>4 DEF performCaptureAction
  <2>2. post \in Posts /\ post.at # "done"  BY <1>1 DEF Posts
  <2>3. counts' \in [actions : Nat, failures : Nat, choices : Nat]  BY <1>1, <2>1
  <2>4. PostInv'  BY <1>1, <2>1, <2>2, <2>3 DEF PostInv
  <2>5. PollInv'  BY <2>1, PollOverlapped
  <2>6. PageInv'  BY <1>1, <2>1, PageKept DEF SameEvidence
  <2>7. ReadInv'  BY <1>1, <2>1, ReadKept
  <2> QED  BY <1>1, <2>1, <2>4, <2>5, <2>6, <2>7 DEF IInv
<1> QED  BY <1>2, <1>3, <1>4 DEF User

\* However an action ends, the next poll begins after it.
LEMMA ActionEnd ==
    ASSUME IInv, ActionEnds, page'.tag \in Nat, UNCHANGED backend PROVE PollInv'
<1>1. \/ poll' = Overlapped
      \/ \E tag \in Nat, o \in BOOLEAN : poll' = [at |-> "asking", overlapped |-> o, match |-> tag]
  BY DEF ActionEnds
<1> QED  BY <1>1, PollOverlapped

LEMMA ActingStep == ASSUME IInv, Acting PROVE IInv'
<1>1. /\ backend \in Backends /\ Sound(page) /\ page \in Pages /\ page.tag \in Nat
      /\ PollInv /\ PageInv /\ PostInv /\ ReadInv
  BY PageIs DEF IInv, PageInv, Pages
<1>2. ASSUME NEW p \in posts, ActionAcknowledged(p) PROVE IInv'
  <2> DEFINE old == page.views["profile"]
             cleared == [old EXCEPT !.data = NoKey, !.key = NoKey, !.tag = FALSE]
             view == IF p.kind = "clear" THEN cleared ELSE old
             q == [page EXCEPT !.views["profile"] = view]
  <2>1. p \in Posts /\ p.left \in 1 .. backend.version
    BY <1>1, <1>2 DEF ActionAcknowledged, PostInv
  <2>2. /\ posts' = posts \ {p} /\ acked' = p.left /\ ActionEnds
        /\ UNCHANGED <<backend, chain, reads, counts>>
    BY <1>2 DEF ActionAcknowledged
  <2>3. Fits(view, "profile", page.selected)
    <3>1. old \in Views /\ Fits(old, "profile", page.selected)  BY <1>1 DEF Sound, Pages, Kinds
    <3>2. NoKey \in Keys  BY DEF Keys
    <3>3. cleared \in Views /\ cleared.data = NoKey  BY <3>1, <3>2 DEF Views
    <3> QED  BY <3>1, <3>3 DEF Fits
  <2>4. Sound(q)
    <3>1. Updated(page, q, "profile", view)  BY <1>1, <2>3, SetView DEF Kinds
    <3> QED  BY <3>1 DEF Updated
  <2>5. page' = [q EXCEPT !.tag = NoTag, !.stopped = p.stopped]
    <3>1. page' = [page EXCEPT !.tag = NoTag, !.stopped = p.stopped, !.views["profile"] = view]
      BY <1>2 DEF ActionAcknowledged
    <3> QED  BY <1>1, <3>1 DEF Pages
  <2> HIDE DEF q, view
  <2>6. Sound(page') /\ page'.tag = 0
    <3>1. NoTag \in 0 .. MaxVersion /\ p.stopped \in BOOLEAN  BY <2>1, PollAssumption DEF NoTag, Posts
    <3>2. q \in Pages /\ \A kind \in Kinds : Fits(q.views[kind], kind, q.selected)  BY <2>4 DEF Sound
    <3>3. page' \in Pages /\ page'.tag = 0 /\ page'.views = q.views /\ page'.selected = q.selected
      BY <2>5, <3>1, <3>2 DEF Pages, NoTag
    <3> QED  BY <3>2, <3>3 DEF Sound
  <2>7. PageInv'
    <3>1. backend.version \in Nat /\ backend.version >= 1  BY <1>1 DEF Backends
    <3>2. Sound(page)' /\ (page.tag <= backend.version)' /\ NotModifiedIsCurrent'
      BY <2>2, <2>6, <3>1 DEF NotModifiedIsCurrent
    <3>3. (PageInv <=> Sound(page) /\ page.tag <= backend.version /\ NotModifiedIsCurrent)'
      BY PageIs, PTL
    <3> QED  BY <3>2, <3>3
  <2>8. PostInv'  BY <1>1, <2>1, <2>2 DEF PostInv
  <2>9. PollInv'  BY <2>2, <2>6, ActionEnd
  <2>10. ReadInv'  BY <1>1, <2>2, ReadKept
  <2> QED  BY <1>1, <2>2, <2>7, <2>8, <2>9, <2>10 DEF IInv
<1>3. ASSUME ActionTimesOut \/ \E p \in posts : ActionRefused(p) PROVE IInv'
  <2>1. ActionEnds /\ posts' \subseteq posts /\ UNCHANGED <<backend, page, chain, reads, counts, acked>>
    BY <1>3 DEF ActionTimesOut, ActionRefused
  <2>2. PollInv'  BY <1>1, <2>1, ActionEnd
  <2>3. PostInv'  BY <1>1, <2>1 DEF PostInv
  <2>4. PageInv'  BY <1>1, <2>1, PageKept DEF SameEvidence
  <2>5. ReadInv'  BY <1>1, <2>1, ReadKept
  <2> QED  BY <1>1, <2>1, <2>2, <2>3, <2>4, <2>5 DEF IInv
<1> QED  BY <1>2, <1>3 DEF Acting

\* The selection of a request that left the window goes with its views.
LEMMA Departed ==
    ASSUME NEW p, Sound(p)
    PROVE  /\ Sound(WithoutDeparted(p)) /\ SameEvidence(p, WithoutDeparted(p))
           /\ NothingAppears(p, WithoutDeparted(p))
<1>1. CASE p.selected \in {NoRequest} \union requestsFromEvents(p.window)
  BY <1>1 DEF WithoutDeparted, SameEvidence, NothingAppears
<1>2. CASE p.selected \notin {NoRequest} \union requestsFromEvents(p.window)
  <2> DEFINE q == [p EXCEPT !.selected = NoRequest, !.views = Reset]
  <2>1. Sound(q) /\ SameEvidence(p, q) /\ q.views = Reset  BY ResetViews DEF Sound
  <2>2. \A kind \in Kinds : Reset[kind].data = NoKey  BY DEF Reset, EmptyView
  <2> QED  BY <1>2, <2>1, <2>2 DEF WithoutDeparted, NothingAppears
<1> QED  BY <1>1, <1>2

\* A window that is admitted is dated, and the page says of it what the backend says.
LEMMA AdmittedIs ==
    ASSUME IInv, poll.at = "window", ~ Stale
    PROVE  LET p == Admitted(poll) IN
           /\ Sound(p) /\ p.views = page.views /\ p.selected = page.selected
           /\ p.tag \in 1 .. backend.version /\ p.tag >= acked
           /\ p.tag = backend.version =>
                 /\ p.window = backend.window /\ p.controls
                 /\ p.connection = IF BrokerRunning THEN "connected" ELSE "broker-offline"
<1> DEFINE p == Admitted(poll)
<1>1. poll \in [at : {"window"}, overlapped : BOOLEAN, tag : Nat, phase : Phases, window : SUBSET Events]
  BY DEF IInv, PollInv, Polls, Answers, Idle
<1>2. Dated(poll)  BY <1>1 DEF IInv, PollInv, Answers
<1>3. ~ poll.overlapped  BY DEF Stale
<1>4. page \in Pages /\ Sound(page)  BY PageIs DEF IInv, PageInv
<1>5. poll.tag \in 0 .. MaxVersion
  <2>1. poll.tag \in 1 .. backend.version /\ backend.version \in 1 .. MaxVersion
    BY <1>2 DEF Dated, IInv, Backends
  <2> QED  BY <2>1, PollAssumption
<1>6. (poll.phase = "stopped") \in BOOLEAN  OBVIOUS
<1>7. /\ p.window = poll.window /\ p.tag = poll.tag /\ p.controls = TRUE /\ p.views = page.views
      /\ p.selected = page.selected
      /\ p.connection = IF poll.phase \in {"running", "stopping"} THEN "connected" ELSE "broker-offline"
  BY <1>4 DEF Admitted, Pages
<1>8. p \in Pages
  <2> DEFINE stopped == poll.phase = "stopped"
             connection == IF poll.phase \in {"running", "stopping"} THEN "connected" ELSE "broker-offline"
  <2>1. stopped \in BOOLEAN  OBVIOUS
  <2>2. connection \in {"connected", "broker-offline"}  OBVIOUS
  <2>3. p = [page EXCEPT !.window = poll.window, !.tag = poll.tag, !.controls = TRUE,
                !.stopped = stopped, !.connection = connection]
    BY DEF Admitted
  <2> HIDE DEF stopped, connection, p
  <2> QED  BY <1>1, <1>4, <1>5, <2>1, <2>2, <2>3 DEF Pages
<1> HIDE DEF p
<1>9. Sound(p)  BY <1>4, <1>7, <1>8 DEF Sound
<1> QED  BY <1>1, <1>2, <1>3, <1>7, <1>9 DEF Dated, BrokerRunning, p

LEMMA PollingStep == ASSUME IInv, Polling PROVE IInv'
<1>1. /\ backend \in Backends /\ Sound(page) /\ page \in Pages /\ page.tag \in Nat
      /\ PollInv /\ PageInv /\ PostInv /\ ReadInv /\ backend.version \in Nat \ {0} /\ acked \in 1 .. backend.version
  BY PageIs DEF IInv, PageInv, Pages, Backends, PostInv
\* Steps of the poll alone.
<1>2. ASSUME PollInv', UNCHANGED <<backend, page, posts, chain, reads, counts, acked>> PROVE IInv'
  <2>1. PostInv'  BY <1>1, <1>2, PostKept DEF PostInv
  <2>2. PageInv'  BY <1>1, <1>2, PageKept DEF SameEvidence
  <2>3. ReadInv'  BY <1>1, <1>2, ReadKept
  <2> QED  BY <1>1, <1>2, <2>1, <2>2, <2>3 DEF IInv
<1>3. Asking \in [at : {"asking"}, overlapped : BOOLEAN, match : Nat]
  <2>1. (action # NoAction) \in BOOLEAN  OBVIOUS
  <2> QED  BY <1>1, <2>1 DEF Asking
<1>4. ASSUME refresh PROVE IInv'
  <2>1. poll' = Asking /\ UNCHANGED <<backend, page, posts, chain, reads, counts, acked>>
    BY <1>4 DEF refresh
  <2>2. PollInv'  BY <1>3, <2>1, PollOverlapped
  <2> QED  BY <1>2, <2>1, <2>2
<1>5. ASSUME TagRead PROVE IInv'
  <2>1. poll.at = "asking" /\ UNCHANGED <<backend, page, posts, chain, reads, counts, acked>>
    BY <1>5 DEF TagRead
  <2>2. poll.overlapped \in BOOLEAN  BY <1>1, <2>1 DEF PollInv, Polls, Answers, Idle
  <2>3. CASE poll' = [at |-> "unchanged", overlapped |-> poll.overlapped]
    <3>1. poll' \in Polls \ Answers  BY <2>2, <2>3 DEF Polls, Answers
    <3>2. PollInv'  BY <3>1 DEF PollInv
    <3> QED  BY <1>2, <2>1, <3>2
  <2>4. CASE poll' = [at |-> "reading", overlapped |-> poll.overlapped,
                      tag |-> backend.version, phase |-> backend.phase]
    <3>1. poll' \in Answers  BY <1>1, <2>2, <2>4 DEF Answers, Backends
    <3>2. Dated(poll)'  BY <1>1, <2>1, <2>4 DEF Dated
    <3>3. PollInv'  BY <3>1, <3>2 DEF PollInv, Polls
    <3> QED  BY <1>2, <2>1, <3>3
  <2> QED  BY <1>5, <2>3, <2>4 DEF TagRead
<1>6. ASSUME WindowRead PROVE IInv'
  <2>1. /\ poll.at = "reading" /\ UNCHANGED <<backend, page, posts, chain, reads, counts, acked>>
        /\ poll' = [at |-> "window", overlapped |-> poll.overlapped, tag |-> poll.tag,
                    phase |-> poll.phase, window |-> backend.window]
    BY <1>6 DEF WindowRead, WindowAnswer
  <2>2. poll \in [at : {"reading"}, overlapped : BOOLEAN, tag : Nat, phase : Phases]
    BY <1>1, <2>1 DEF PollInv, Polls, Answers, Idle
  <2>3. Dated(poll)  BY <1>1, <2>2 DEF PollInv, Answers
  <2>4. poll' \in Answers  BY <1>1, <2>1, <2>2 DEF Answers, Backends
  <2>5. Dated(poll)'  BY <2>1, <2>3 DEF Dated
  <2>6. PollInv'  BY <2>4, <2>5 DEF PollInv, Polls
  <2> QED  BY <1>2, <2>1, <2>6
<1>7. ASSUME PollDiscarded PROVE IInv'
  <2>1. poll' \in {Asking, Idle} /\ UNCHANGED <<backend, page, posts, chain, reads, counts, acked>>
    BY <1>7 DEF PollDiscarded
  <2>2. \/ \E tag \in Nat, o \in BOOLEAN : poll' = [at |-> "asking", overlapped |-> o, match |-> tag]
        \/ poll' = Idle
    BY <1>3, <2>1
  <2>3. PollInv'  BY <2>1, <2>2, PollOverlapped
  <2> QED  BY <1>2, <2>1, <2>3
<1>8. ASSUME PollUnchanged PROVE IInv'
  <2>1. /\ poll' = Idle /\ refreshPollDependents(page, {})
        /\ UNCHANGED <<backend, action, posts, counts, acked>>
    BY <1>8 DEF PollUnchanged
  <2>2. Sound(page') /\ SameEvidence(page, page') /\ ReadInv'  BY <1>1, <2>1, PollDependents
  <2>3. PageInv'  BY <1>1, <2>1, <2>2, PageKept
  <2>4. PollInv'  BY <2>1, PollOverlapped
  <2>5. PostInv'  BY <1>1, <2>1, PostKept DEF PostInv
  <2> QED  BY <1>1, <2>1, <2>2, <2>3, <2>4, <2>5 DEF IInv
<1>9. ASSUME PollAdmitted PROVE IInv'
  <2> DEFINE p == Admitted(poll)
             q == WithoutDeparted(p)
             ended == IF q.selected # page.selected THEN Kinds ELSE {}
  <2>1. /\ poll.at = "window" /\ ~ Stale /\ poll' = Idle /\ refreshPollDependents(q, ended)
        /\ UNCHANGED <<backend, action, posts, counts, acked>>
    BY <1>9 DEF PollAdmitted
  <2>2. /\ Sound(p) /\ p.tag \in 1 .. backend.version
        /\ p.tag = backend.version =>
              /\ p.window = backend.window /\ p.controls
              /\ p.connection = IF BrokerRunning THEN "connected" ELSE "broker-offline"
    BY <2>1, AdmittedIs
  <2>3. Sound(q) /\ SameEvidence(p, q)  BY <2>2, Departed
  <2>4. ended \in SUBSET Kinds  OBVIOUS
  <2> HIDE DEF p, q, ended
  <2>5. Sound(page') /\ SameEvidence(q, page') /\ ReadInv'  BY <1>1, <2>1, <2>3, <2>4, PollDependents
  <2>6. /\ page'.tag = p.tag /\ page'.window = p.window /\ page'.controls = p.controls
        /\ page'.connection = p.connection
    BY <2>3, <2>5 DEF SameEvidence
  <2>7. PageInv'
    <3>1. Sound(page)' /\ (page.tag <= backend.version)' /\ NotModifiedIsCurrent'
      BY <1>1, <2>1, <2>2, <2>5, <2>6 DEF NotModifiedIsCurrent, BrokerRunning
    <3>2. (PageInv <=> Sound(page) /\ page.tag <= backend.version /\ NotModifiedIsCurrent)'
      BY PageIs, PTL
    <3> QED  BY <3>1, <3>2
  <2>8. PollInv'  BY <2>1, PollOverlapped
  <2>9. PostInv'  BY <1>1, <2>1, PostKept DEF PostInv
  <2> QED  BY <1>1, <2>1, <2>5, <2>7, <2>8, <2>9 DEF IInv
<1> QED  BY <1>4, <1>5, <1>6, <1>7, <1>8, <1>9 DEF Polling

\* What a read that still owns its selection leaves in its view is of the selected request.
LEMMA ReadLeaves ==
    ASSUME IInv, NEW r \in reads, NEW view, ReadEnds(r, view),
           view \in {Ready(r), Unmodified(r), Failed(r)} \/ (r.kind = "profile" /\ view = NotFound(r))
    PROVE  /\ Sound(page') /\ SameEvidence(page, page') /\ ReadInv'
           /\ <<page'.selected, page'.window>> = <<page.selected, page.window>>
           /\ \A kind \in Kinds :
                 page'.views[kind].data \in {NoKey, page.views[kind].data, Selection(page)}
<1>1. /\ Sound(page) /\ page \in Pages /\ ReadInv /\ Tidy(reads)
      /\ r \in Reads /\ r.kind \in Kinds /\ r.key \in Keys
  BY PageIs DEF IInv, PageInv, ReadInv, Tidy, Reads
<1>2. ReadInv'
  <2>1. reads' = reads \ {r} /\ chain' = IF r.chained THEN "rest" ELSE chain  BY DEF ReadEnds
  <2>2. Tidy(reads') /\ (Chained(reads') <=> Chained(reads) /\ ~ r.chained)  BY <1>1, <2>1, EndRead
  <2>3. r.chained => chain = "profile"  BY <1>1 DEF ReadInv, Chained
  <2> QED  BY <1>1, <2>1, <2>2, <2>3 DEF ReadInv, Tidy, Chained
<1>3. CASE ~ r.current
  <2>1. page' = page  BY <1>3 DEF ReadEnds
  <2> QED  BY <1>1, <1>2, <2>1 DEF SameEvidence
<1>4. CASE r.current
  <2> DEFINE old == page.views[r.kind]
  <2>1. Fits(old, r.kind, page.selected) /\ old \in Views  BY <1>1 DEF Sound, Fits
  <2>2. PICK new : /\ page' = [page EXCEPT !.views[r.kind] = new] /\ Fits(new, r.kind, page.selected)
                   /\ new.data \in {NoKey, old.data, Selection(page)}
    <3>1. CASE ~ ownsSelection(r)
      <4>1. page' = [page EXCEPT !.views[r.kind] = EmptyView]  BY <1>4, <3>1 DEF ReadEnds
      <4>2. Fits(EmptyView, r.kind, page.selected)  BY <1>1, EmptyFits
      <4>3. EmptyView.data = NoKey  BY DEF EmptyView
      <4> QED  BY <4>1, <4>2, <4>3
    <3>2. CASE ownsSelection(r)
      <4>1. page' = [page EXCEPT !.views[r.kind] = view]  BY <1>4, <3>2 DEF ReadEnds
      <4>2. r.key = Selection(page) /\ (r.key # NoKey => r.key[1] = page.selected)
        BY <1>1, <3>2, SelectionIs DEF ownsSelection
      <4>3. CASE view = Ready(r)
        <5>1. view \in Views /\ view.data = r.key /\ view.key = r.key  BY <1>1, <4>3 DEF Ready, Views
        <5> QED  BY <4>1, <4>2, <5>1 DEF Fits
      <4>4. CASE view = NotFound(r)
        <5>1. view \in Views /\ view.data = NoKey  BY <1>1, <4>4 DEF NotFound, Views, Keys
        <5> QED  BY <4>1, <5>1 DEF Fits
      <4>5. CASE view = Unmodified(r)
        BY <2>1, <4>1, <4>5 DEF Unmodified
      <4>6. CASE view = Failed(r)
        <5> DEFINE tag == old.tag /\ r.kind = "trace"
        <5>1. tag \in BOOLEAN  OBVIOUS
        <5>2. view = [old EXCEPT !.tag = tag]  BY <4>6 DEF Failed
        <5> HIDE DEF tag
        <5>3. view \in Views /\ view.data = old.data /\ view.key = old.key  BY <2>1, <5>1, <5>2 DEF Views
        <5> QED  BY <2>1, <4>1, <5>3 DEF Fits
      <4> QED  BY <4>3, <4>4, <4>5, <4>6
    <3> QED  BY <3>1, <3>2
  <2>3. /\ Sound(page') /\ SameEvidence(page, page') /\ page'.selected = page.selected
        /\ page'.views[r.kind] = new
        /\ \A other \in Kinds \ {r.kind} : page'.views[other] = page.views[other]
    <3>1. Sound(page) /\ r.kind \in Kinds /\ Fits(new, r.kind, page.selected)  BY <1>1, <2>2
    <3>2. Updated(page, page', r.kind, new)  BY <2>2, <3>1, SetView
    <3> QED  BY <3>2 DEF Updated
  <2>4. page'.window = page.window  BY <2>3 DEF SameEvidence
  <2> QED  BY <1>2, <2>2, <2>3, <2>4
<1> QED  BY <1>3, <1>4

\* The outcomes of a read that is answered or fails.
Outcome(r, view) == view \in {Ready(r), Unmodified(r), Failed(r)} \/ (r.kind = "profile" /\ view = NotFound(r))

LEMMA ReadOutcome ==
    ASSUME NEW r \in reads, ReadAnswered(r) \/ ReadFails(r)
    PROVE  (\E view : ReadEnds(r, view) /\ Outcome(r, view))
           /\ (UNCHANGED counts \/ counts' = [counts EXCEPT !.failures = @ + 1])
BY DEF ReadAnswered, ReadFails, Outcome

LEMMA ReadStep == ASSUME IInv, NEW r \in reads, ReadAnswered(r) \/ ReadFails(r) PROVE IInv'
<1>1. PICK view : ReadEnds(r, view) /\ Outcome(r, view)  BY ReadOutcome
<1>2. Sound(page') /\ SameEvidence(page, page') /\ ReadInv'  BY <1>1, ReadLeaves DEF Outcome
<1>3. UNCHANGED <<backend, poll, action, posts, acked>>  BY <1>1 DEF ReadEnds
<1>4. PageInv'  BY <1>2, <1>3, PageKept DEF IInv
<1>5. PollInv'  BY <1>3, PollKept DEF IInv
<1>6. PostInv'
  <2>1. UNCHANGED counts \/ counts' = [counts EXCEPT !.failures = @ + 1]  BY ReadOutcome
  <2>2. counts' \in [actions : Nat, failures : Nat, choices : Nat]  BY <2>1 DEF IInv, PostInv
  <2> QED  BY <1>3, <2>2, PostKept DEF IInv
<1> QED  BY <1>2, <1>3, <1>4, <1>5, <1>6 DEF IInv

LEMMA FollowingStep == ASSUME IInv, Following PROVE IInv'
<1>1. ASSUME ChainEnds PROVE IInv'
  <2>1. /\ chain = "rest" /\ chain' = "idle"
        /\ UNCHANGED <<backend, page, poll, action, posts, reads, counts, acked>>
    BY <1>1 DEF ChainEnds
  <2>2. ReadInv'  BY <2>1 DEF IInv, ReadInv, Tidy, Chained
  <2>3. Sound(page)  BY PageIs DEF IInv
  <2>4. PageInv'  BY <2>1, <2>3, PageKept DEF IInv, SameEvidence
  <2>5. PollInv'  BY <2>1, PollKept DEF IInv
  <2>6. PostInv'  BY <2>1, PostKept DEF IInv, PostInv
  <2> QED  BY <2>1, <2>2, <2>4, <2>5, <2>6 DEF IInv
<1> QED  BY <1>1, ReadStep DEF Following

LEMMA FailingStep == ASSUME IInv, Failing PROVE IInv'
<1>1. ASSUME PollFails PROVE IInv'
  <2>1. /\ poll' = Idle /\ page' = [page EXCEPT !.tag = NoTag, !.connection = "failed", !.controls = FALSE]
        /\ counts' = [counts EXCEPT !.failures = @ + 1]
        /\ UNCHANGED <<backend, action, posts, chain, reads, acked>>
    BY <1>1 DEF PollFails, Disconnected
  <2>2. Sound(page) /\ page \in Pages  BY PageIs DEF IInv, PageInv
  <2>3. page' \in Pages /\ page'.tag = 0 /\ page'.views = page.views /\ page'.selected = page.selected
    <3>1. 0 \in 0 .. MaxVersion  BY PollAssumption
    <3> QED  BY <2>1, <2>2, <3>1 DEF Pages, NoTag
  <2>4. Sound(page')  BY <2>2, <2>3 DEF Sound
  <2>5. PageInv'
    <3>1. backend.version \in Nat /\ backend.version >= 1  BY DEF IInv, Backends
    <3>2. Sound(page)' /\ (page.tag <= backend.version)' /\ NotModifiedIsCurrent'
      BY <2>1, <2>3, <2>4, <3>1 DEF NotModifiedIsCurrent
    <3>3. (PageInv <=> Sound(page) /\ page.tag <= backend.version /\ NotModifiedIsCurrent)'
      BY PageIs, PTL
    <3> QED  BY <3>2, <3>3
  <2>6. PollInv'  BY <2>1, PollOverlapped
  <2>7. PostInv'
    <3>1. counts' \in [actions : Nat, failures : Nat, choices : Nat]  BY <2>1 DEF IInv, PostInv
    <3> QED  BY <2>1, <3>1, PostKept DEF IInv
  <2>8. ReadInv'  BY <2>1, ReadKept DEF IInv
  <2> QED  BY <2>1, <2>5, <2>6, <2>7, <2>8 DEF IInv
<1> QED  BY <1>1, ReadStep DEF Failing

----------------------------------------------------------------------------
(* The theorems *)

LEMMA InitInv == ASSUME Init PROVE IInv
<1>1. backend \in Backends  BY PollAssumption DEF Init, Backends, Phases
<1>2. Sound(page)
  <2>1. 0 \in 0 .. MaxVersion  BY PollAssumption
  <2>2. \A kind \in Kinds : Reset[kind] = EmptyView  BY DEF Reset
  <2>3. \A kind \in Kinds : Fits(EmptyView, kind, NoRequest)  BY EmptyFits
  <2>4. Reset \in [Kinds -> Views]  BY <2>3 DEF Reset, Fits
  <2>5. /\ page.views = Reset /\ page.selected = NoRequest
        /\ page \in Pages
    BY <2>1, <2>4 DEF Init, Pages, NoTag
  <2> QED  BY <2>2, <2>3, <2>5 DEF Sound
<1>3. PageInv  BY <1>2, PageIs DEF Init, NotModifiedIsCurrent, NoTag
<1>4. PollInv
  <2>1. poll \in Polls \ Answers  BY DEF Init, Idle, Polls, Answers
  <2> QED  BY <2>1 DEF PollInv
<1>5. PostInv  BY DEF Init, PostInv
<1>6. ReadInv  BY DEF Init, ReadInv, Tidy, Chained
<1> QED  BY <1>1, <1>3, <1>4, <1>5, <1>6 DEF IInv

LEMMA NextInv == ASSUME IInv, [Next]_vars PROVE IInv'
<1>1. CASE UNCHANGED vars
  <2>1. Sound(page)  BY PageIs DEF IInv
  <2>2. PageInv'  BY <1>1, <2>1, PageKept DEF IInv, SameEvidence, vars
  <2>3. PollInv'  BY <1>1, PollKept DEF IInv, vars
  <2>4. PostInv'  BY <1>1, PostKept DEF IInv, PostInv, vars
  <2>5. ReadInv'  BY <1>1, ReadKept DEF IInv, vars
  <2> QED  BY <1>1, <2>2, <2>3, <2>4, <2>5 DEF IInv, vars
<1> QED
  BY <1>1, EvidenceStep, HandlingStep, UserStep, ActingStep, PollingStep, FollowingStep, FailingStep DEF Next

\* A step that changes the page's tag drops it or admits a poll, and what appears in a view
\* is of the selection.
Advances == page'.tag \in {NoTag, page.tag} \/ page'.tag >= acked
Owns == \A kind \in Kinds : page'.views[kind].data \in {NoKey, page.views[kind].data, Selection(page')}

LEMMA PageStep == ASSUME IInv, [Next]_vars PROVE Advances /\ Owns
<1>1. Sound(page) /\ page \in Pages /\ ReadInv  BY PageIs DEF IInv, PageInv
<1>2. ASSUME page' = page PROVE Advances /\ Owns  BY <1>2 DEF Advances, Owns
<1>3. ASSUME Sound(page'), SameEvidence(page, page'), NothingAppears(page, page') PROVE Advances /\ Owns
  BY <1>3 DEF Advances, Owns, SameEvidence, NothingAppears
<1>4. ASSUME NEW r \in Requests, selectRequest(r) PROVE Advances /\ Owns
  <2> DEFINE p == [page EXCEPT !.selected = r, !.views = Reset]
  <2>1. page' = p  BY <1>4 DEF selectRequest
  <2>2. Sound(p) /\ SameEvidence(page, p) /\ p.views = Reset  BY <1>1, ResetViews
  <2>3. \A kind \in Kinds : Reset[kind].data = NoKey  BY DEF Reset, EmptyView
  <2> QED  BY <1>3, <2>1, <2>2, <2>3 DEF NothingAppears
<1>5. ASSUME NEW p \in posts, ActionAcknowledged(p) PROVE Advances /\ Owns
  <2> DEFINE old == page.views["profile"]
             view == IF p.kind = "clear" THEN [old EXCEPT !.data = NoKey, !.key = NoKey, !.tag = FALSE] ELSE old
  <2>1. page' = [page EXCEPT !.tag = NoTag, !.stopped = p.stopped, !.views["profile"] = view]
    BY <1>5 DEF ActionAcknowledged
  <2>2. old \in Views /\ page.views \in [Kinds -> Views]  BY <1>1 DEF Pages, Kinds
  <2>3. view.data \in {NoKey, old.data}  BY <2>2 DEF Views
  <2> HIDE DEF view
  <2>4. page'.tag = NoTag /\ page'.views = [page.views EXCEPT !["profile"] = view]
    BY <1>1, <2>1 DEF Pages
  <2> QED  BY <2>2, <2>3, <2>4 DEF Advances, Owns
<1>6. ASSUME PollUnchanged PROVE Advances /\ Owns
  <2>1. Sound(page') /\ SameEvidence(page, page') /\ NothingAppears(page, page')
    BY <1>1, <1>6, PollDependents DEF PollUnchanged
  <2> QED  BY <1>3, <2>1
<1>7. ASSUME PollAdmitted PROVE Advances /\ Owns
  <2> DEFINE p == Admitted(poll)
             q == WithoutDeparted(p)
             ended == IF q.selected # page.selected THEN Kinds ELSE {}
  <2>1. poll.at = "window" /\ ~ Stale /\ refreshPollDependents(q, ended)
    BY <1>7 DEF PollAdmitted
  <2>2. Sound(p) /\ p.tag >= acked /\ p.views = page.views  BY <2>1, AdmittedIs
  <2>3. Sound(q) /\ SameEvidence(p, q) /\ NothingAppears(p, q)  BY <2>2, Departed
  <2>4. ended \in SUBSET Kinds  OBVIOUS
  <2> HIDE DEF p, q, ended
  <2>5. SameEvidence(q, page') /\ NothingAppears(q, page')  BY <1>1, <2>1, <2>3, <2>4, PollDependents
  <2>6. Advances  BY <2>2, <2>3, <2>5 DEF Advances, SameEvidence
  <2>7. Owns  BY <2>2, <2>3, <2>5 DEF Owns, NothingAppears
  <2> QED  BY <2>6, <2>7
<1>8. ASSUME PollFails PROVE Advances /\ Owns
  <2>1. page' = [page EXCEPT !.tag = NoTag, !.connection = "failed", !.controls = FALSE]
    BY <1>8 DEF PollFails, Disconnected
  <2>2. page'.tag = NoTag /\ page'.views = page.views  BY <1>1, <2>1 DEF Pages
  <2> QED  BY <2>2 DEF Advances, Owns
<1>9. ASSUME NEW r \in reads, ReadAnswered(r) \/ ReadFails(r) PROVE Advances /\ Owns
  <2>1. PICK view : ReadEnds(r, view) /\ Outcome(r, view)  BY <1>9, ReadOutcome
  <2>2. /\ SameEvidence(page, page') /\ <<page'.selected, page'.window>> = <<page.selected, page.window>>
        /\ \A kind \in Kinds : page'.views[kind].data \in {NoKey, page.views[kind].data, Selection(page)}
    BY <2>1, ReadLeaves DEF Outcome
  <2>3. Selection(page') = Selection(page)  BY <2>2 DEF Selection
  <2>4. Owns  BY <2>2, <2>3 DEF Owns
  <2> QED  BY <2>2, <2>4 DEF Advances, SameEvidence
<1>10. CASE UNCHANGED vars  BY <1>2, <1>10 DEF vars
<1>11. CASE Evidence  BY <1>2, <1>11 DEF Evidence, Record, Forget, BrokerExits
<1>12. CASE Handling  BY <1>2, <1>12 DEF Handling, RequestStop, StopAnswered, ClearStores
<1>13. CASE User  BY <1>2, <1>4, <1>13 DEF User, refreshOriginTrace, performCaptureAction
<1>14. CASE Acting  BY <1>2, <1>5, <1>14 DEF Acting, ActionRefused, ActionTimesOut
<1>15. CASE Polling
  BY <1>2, <1>6, <1>7, <1>15 DEF Polling, refresh, TagRead, WindowRead, PollDiscarded
<1>16. CASE Following  BY <1>2, <1>9, <1>16 DEF Following, ChainEnds
<1>17. CASE Failing  BY <1>8, <1>9, <1>17 DEF Failing
<1> QED  BY <1>10, <1>11, <1>12, <1>13, <1>14, <1>15, <1>16, <1>17 DEF Next

\* The inductive invariant holds.
THEOREM InvCorrect == Spec => []IInv
BY InitInv, NextInv, PTL DEF Spec

\* At most one current read of a kind is out and the chained one is counted (app.js:7912), a
\* view holds only the answer for its own key, and the profile shown is the selected request's.
THEOREM ConsistentCorrect == Spec => []Consistent
<1>1. ASSUME IInv PROVE Consistent
  <2>1. backend \in Backends /\ page \in Pages /\ chain \in {"idle", "profile", "rest"} /\ ProfileOfSelected
        /\ (chain = "profile" <=> \E r \in reads : r.chained)
        /\ \A kind \in Kinds : page.views[kind].data \in {NoKey, page.views[kind].key}
    BY <1>1 DEF IInv, PageInv, ViewInv, ReadInv, Chained
  <2>2. acked \in 1 .. MaxVersion
    <3>1. acked \in 1 .. backend.version /\ backend.version \in 1 .. MaxVersion
      BY <1>1 DEF IInv, PostInv, Backends
    <3> QED  BY <3>1, PollAssumption
  <2>3. ASSUME NEW kind \in Kinds PROVE Cardinality({r \in reads : r.kind = kind /\ r.current}) <= 1
    <3> DEFINE S == {r \in reads : r.kind = kind /\ r.current}
    <3>1. \A r, q \in S : r = q  BY <1>1 DEF IInv, ReadInv, Tidy
    <3>2. S = {} \/ \E r : S = {r}  BY <3>1
    <3> HIDE DEF S
    <3>3. Cardinality(S) \in {0, 1}  BY <3>2, FS_EmptySet, FS_Singleton
    <3> QED  BY <3>3 DEF S
  <2> QED  BY <2>1, <2>2, <2>3 DEF Consistent, TypeOK
<1> QED  BY <1>1, InvCorrect, PTL

\* While the page's tag is still the backend's, the page shows what the backend holds, so an
\* answer of "not modified" leaves nothing out (app.js:7833).
THEOREM NotModifiedIsCurrentCorrect == Spec => []NotModifiedIsCurrent
<1>1. IInv => NotModifiedIsCurrent  BY DEF IInv, PageInv
<1> QED  BY <1>1, InvCorrect, PTL

\* No poll brings back what the page showed before a capture action that was acknowledged
\* (app.js:8080).
THEOREM AdmittedAfterActionsCorrect == Spec => AdmittedAfterActions
<1>1. ASSUME IInv, [Next]_vars PROVE page'.tag \notin {NoTag, page.tag} => page'.tag >= acked
  BY <1>1, PageStep DEF Advances
<1> QED  BY <1>1, InvCorrect, PTL DEF Spec, AdmittedAfterActions

\* A profile or a trace appears only for the request event the selection stands for when it
\* appears (app.js:3069).
THEOREM AnswerOwnedCorrect == Spec => AnswerOwned
<1> DEFINE Step == \A kind \in Kinds :
                      LET shown == page'.views[kind].data IN
                      shown \notin {NoKey, page.views[kind].data} => shown = Selection(page')
<1>1. ASSUME IInv, [Next]_vars PROVE Step  BY <1>1, PageStep DEF Owns
<1> QED  BY <1>1, InvCorrect, PTL DEF Spec, AnswerOwned
=============================================================================
