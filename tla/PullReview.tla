----------------------------- MODULE PullReview -----------------------------
(***************************************************************************)
(* The advisory review of one pull request: its row in the reviews table,  *)
(* the workers that run reviewPullRequest for its deliveries, the handlers *)
(* that record outcomes and feedback on the same row, and what is          *)
(* published on GitHub.                                                    *)
(*                                                                         *)
(* A review reads the row once, calls the model, and then overwrites the   *)
(* findings column whole.  Two guards protect the overwrite: the head the  *)
(* row was moved to when the review began (a compare-and-set on head_sha)  *)
(* and the lease on the delivery.  Between the read and the write the      *)
(* author pushes, people dismiss findings and reply to them, other workers *)
(* run other deliveries of the same pull request, and the repository may   *)
(* be removed.                                                             *)
(*                                                                         *)
(* The queue is reduced to what a review sees of it (module WebhookQueue   *)
(* has all of it): a delivery is leased to a worker until the lease lapses.*)
(* Which findings the model reports, which of them a diff rewrote and how  *)
(* old a finding is are left open.                                         *)
(***************************************************************************)
EXTENDS Integers, Sequences, FiniteSets

CONSTANTS
  Fingerprints,    \* canonical finding fingerprints
  Deliveries,      \* deliveries that ask for a review of this pull request
  Workers,         \* worker loops
  Comments,        \* ids of review comments people write
  NoDelivery, NoWorker,
  MaxInlineComments,  \* review.maxInlineComments
  FindingLimit,       \* reviewFindingRetention.limit
  FeedbackRing,       \* MAX_FEEDBACK_COMMENT_IDS
  Aging,              \* bound: whether retention windows may run out
  MaxHead,            \* bound: heads are 0 .. MaxHead
  Budgets             \* bounds of a behaviour: deliveries sent, worker loops running,
                      \* claims of a delivery (the queue's attempt budget), faults (failures, aborts, crashes and
                      \* lapsed leases), repository state events, and replies counted

ASSUME ReviewAssumption ==
  /\ MaxInlineComments \in Nat /\ FindingLimit \in Nat \ {0} /\ FeedbackRing \in Nat \ {0}
  /\ Aging \in BOOLEAN
  /\ MaxHead \in Nat
  /\ Budgets \subseteq [deliveries : Nat, running : Nat, claims : Nat, faults : Nat, events : Nat, replies : Nat]
  /\ NoDelivery \notin Deliveries /\ NoWorker \notin Workers

VARIABLES
  head,       \* head of the pull request on GitHub
  repo,       \* lifecycle of the repository and of a removal in progress
  job,        \* delivery -> what the queue knows of it
  worker,     \* worker -> progress of its reviewPullRequest call
  row,        \* the reviews row
  comments,   \* fingerprint -> own inline advisories on GitHub, oldest first
  summary,    \* the summary comment on GitHub
  bounds,     \* what is left of the budget
  hist        \* history variables of the properties

vars == <<head, repo, job, worker, row, comments, summary, bounds, hist>>

NoHead   == -1
Heads    == 0 .. MaxHead
States   == {"absent", "open", "resolved", "superseded"}
Outcomes == {"none", "fixed", "dismissed", "ignored"}
Phases   == {"idle", "claimed", "checked", "read", "placed", "reviewing", "reviewed",
             "saving", "saved", "posting", "closing", "announcing", "finishing", "failing"}
Kinds    == {"review", "unavailable", "unrouted", "stale"}

Finding  == [state : States, outcome : Outcomes, ring : Seq(Comments)]
Findings == [Fingerprints -> Finding]
Absent   == [state |-> "absent", outcome |-> "none", ring |-> <<>>]
Nothing  == [f \in Fingerprints |-> Absent]

Job == [status : {"none", "pending", "leased", "done"}, head : Heads \cup {NoHead},
        owner : Workers \cup {NoWorker}, live : BOOLEAN, claims : Nat]

Worker ==
  [phase : Phases, delivery : Deliveries \cup {NoDelivery}, claim : Nat,
   head : Heads \cup {NoHead},
   existing : Findings, reviewed : Heads \cup {NoHead},   \* the row as first read
   reported : SUBSET Fingerprints, inline : SUBSET Fingerprints,
   kind : Kinds, draft : Findings, drop : SUBSET Fingerprints,
   listed : [Fingerprints -> Nat]]

Idle ==
  [phase |-> "idle", delivery |-> NoDelivery, claim |-> 0, head |-> NoHead,
   existing |-> Nothing, reviewed |-> NoHead, reported |-> {}, inline |-> {},
   kind |-> "review", draft |-> Nothing, drop |-> {},
   listed |-> [f \in Fingerprints |-> 0]]

(* A worker that has left its locals behind. *)
At(w, phase) ==
  [Idle EXCEPT !.phase = phase, !.delivery = worker[w].delivery, !.claim = worker[w].claim]

Present(fs)  == {f \in Fingerprints : fs[f].state # "absent"}
Open(fs)     == {f \in Fingerprints : fs[f].state = "open"}
Terminal(fs) == Present(fs) \ Open(fs)

OpenComments(f) == {i \in DOMAIN comments[f] : comments[f][i] = "open"}

TypeOK ==
  /\ head \in Heads
  /\ repo \in [state : {"active", "suspended", "removed"},
               removal : {"none", "requested", "discarding"}]
  /\ job \in [Deliveries -> Job]
  /\ worker \in [Workers -> Worker]
  /\ \A w \in Workers : worker[w].phase # "idle" => worker[w].delivery \in Deliveries
  /\ row \in [head : Heads \cup {NoHead}, reviewed : Heads \cup {NoHead},
              findings : Findings]
  /\ comments \in [Fingerprints -> Seq({"open", "closed"})]
  /\ summary \in [kind : Kinds \cup {"none", "running"}, head : Heads \cup {NoHead}]
  /\ bounds \in [deliveries : Nat, running : Nat, claims : Nat, faults : Nat, events : Nat, replies : Nat]
  /\ hist \in [recorded : SUBSET Fingerprints, reviews : SUBSET Heads,
               gone : SUBSET Fingerprints,
               dismissed : SUBSET Fingerprints,
               saved : [Deliveries -> Nat], wiped : {"no", "quiet", "racing"}]

(* A new pull request, or one whose head 0 has been reviewed before: open   *)
(* findings have an open advisory, superseded ones a closed one.            *)
Init ==
  \E fs \in [Fingerprints -> {"absent", "open", "superseded"}], fresh \in BOOLEAN :
    /\ fresh => \A f \in Fingerprints : fs[f] = "absent"
    /\ head = 0
    /\ repo = [state |-> "active", removal |-> "none"]
    /\ job = [d \in Deliveries |->
         [status |-> "none", head |-> NoHead, owner |-> NoWorker, live |-> FALSE, claims |-> 0]]
    /\ worker = [w \in Workers |-> Idle]
    /\ row = [head |-> IF fresh THEN NoHead ELSE 0, reviewed |-> IF fresh THEN NoHead ELSE 0,
              findings |-> [f \in Fingerprints |-> [Absent EXCEPT !.state = fs[f]]]]
    /\ comments = [f \in Fingerprints |->
         CASE fs[f] = "absent" -> <<>>
           [] fs[f] = "open" -> <<"open">>
           [] fs[f] = "superseded" -> <<"closed">>]
    /\ summary = IF fresh THEN [kind |-> "none", head |-> NoHead] ELSE [kind |-> "review", head |-> 0]
    /\ bounds \in Budgets
    /\ hist = [recorded |-> {f \in Fingerprints : fs[f] # "absent"},
               reviews |-> IF fresh THEN {} ELSE {0},
               gone |-> {}, dismissed |-> {},
               saved |-> [d \in Deliveries |-> 0], wiped |-> "no"]

-----------------------------------------------------------------------------
(* Findings, as pure functions of the record that was read.                 *)

(* A finding that is reported (again) is open; a fix that did not hold is   *)
(* withdrawn.                                                               *)
observeFindingState(r) ==
  [r EXCEPT !.state = "open",
            !.outcome = IF r.state # "open" /\ @ = "fixed" THEN "none" ELSE @]

Closed(fs, state) ==
  [f \in Fingerprints |-> IF f \in Open(fs) THEN [fs[f] EXCEPT !.state = state] ELSE fs[f]]

(* Mutant: only what this review reports is retained. *)
mergeReportedOnly(fs, reviewed, h, reported) ==
  [f \in Fingerprints |-> IF f \in reported THEN observeFindingState(fs[f]) ELSE Absent]

mergeFindingStates(fs, reviewed, h, reported) ==
  LET previous == Closed(fs, IF reviewed = h THEN "resolved" ELSE "superseded")
  IN  [f \in Fingerprints |->
         IF f \in reported THEN observeFindingState(fs[f]) ELSE previous[f]]

preserveFindingStates(fs, reviewed, h) ==
  IF reviewed # h THEN Closed(fs, "superseded") ELSE fs

(* The sets of findings one pass may drop from fs, computed from `before':  *)
(* any finding seen before past the absolute ceiling, any that was terminal *)
(* before past the retention window, then as many other terminal findings   *)
(* as the cap asks for, unless the open ones alone exceed it.               *)
Evictions(fs, before) ==
  LET Old == IF Aging THEN Present(before) ELSE {}
      Unseen == {f \in Old \cap Terminal(fs) : fs[f].state = before[f].state}
      Excess(aged, gone) ==
        LET active == Cardinality(Open(fs) \ aged)
            total  == Cardinality(Present(fs) \ gone)
        IN  IF active <= FindingLimit /\ total > FindingLimit THEN total - FindingLimit ELSE 0
  IN  UNION {UNION {{aged \cup lapsed \cup extra :
                       extra \in {x \in SUBSET (Terminal(fs) \ (aged \cup lapsed)) :
                                    Cardinality(x) = Excess(aged, aged \cup lapsed)}}
                    : lapsed \in SUBSET (Unseen \ aged)}
             : aged \in SUBSET Old}

Without(fs, drop) == [f \in Fingerprints |-> IF f \in drop THEN Absent ELSE fs[f]]

(* Findings an incremental review proves rewritten, marked `fixed'. *)
Fixable(fs, before) ==
  {f \in Terminal(fs) : fs[f].outcome = "none" /\ f \in Open(before)}

markFixedOutcomes(fs, rewritten) ==
  [f \in Fingerprints |-> IF f \in rewritten THEN [fs[f] EXCEPT !.outcome = "fixed"] ELSE fs[f]]

(* Mutant: nothing is carried. *)
carryNothing(fs, latest) == fs

carryRecordedOutcomes(fs, latest) ==
  LET Carried(f) ==
        /\ f \in Present(fs)
        /\ fs[f].outcome # "dismissed"
        /\ \/ latest[f].outcome = "dismissed"
           \/ latest[f].outcome = "ignored" /\ fs[f].outcome = "none"
  IN  [f \in Fingerprints |->
         IF Carried(f) THEN [fs[f] EXCEPT !.outcome = latest[f].outcome] ELSE fs[f]]

-----------------------------------------------------------------------------
(* The pull request on GitHub, and the queue as a review sees it.           *)

NewJob(h) ==
  [status |-> "pending", head |-> h, owner |-> NoWorker, live |-> FALSE, claims |-> 0]

Sends(d, h) ==
  /\ job[d].status = "none" /\ bounds.deliveries > 0
  /\ job' = [job EXCEPT ![d] = NewJob(h)]
  /\ bounds' = [bounds EXCEPT !.deliveries = @ - 1]

(* synchronize: a push, forced or not, and its delivery. *)
Push(d, h) ==
  /\ h # head
  /\ head' = h
  /\ Sends(d, h)
  /\ UNCHANGED <<repo, worker, row, comments, summary, hist>>

(* opened, reopened, ready_for_review name the head; the review command     *)
(* reads it when it is handled.                                             *)
Request(d, h) ==
  /\ h \in {head, NoHead}
  /\ Sends(d, h)
  /\ UNCHANGED <<head, repo, worker, row, comments, summary, hist>>

claimWebhook(w, d) ==
  /\ worker[w].phase = "idle" /\ job[d].claims < bounds.claims
  /\ Cardinality({v \in Workers : worker[v].phase # "idle"}) < bounds.running
  /\ job[d].status = "pending" \/ (job[d].status = "leased" /\ ~job[d].live)
  /\ job' = [job EXCEPT ![d] = [@ EXCEPT !.status = "leased", !.owner = w, !.live = TRUE,
                                         !.claims = job[d].claims + 1]]
  /\ worker' = [worker EXCEPT ![w] =
       [Idle EXCEPT !.phase = "claimed", !.delivery = d, !.claim = job[d].claims + 1]]
  /\ UNCHANGED <<head, repo, row, comments, summary, bounds, hist>>

Fault == /\ bounds.faults > 0
         /\ bounds' = [bounds EXCEPT !.faults = @ - 1]

leaseExpires(d) ==
  /\ job[d].status = "leased" /\ job[d].live
  /\ Fault
  /\ job' = [job EXCEPT ![d].live = FALSE]
  /\ UNCHANGED <<head, repo, worker, row, comments, summary, hist>>

(* The queue's own fence on the outcome of the handler is the owner. *)
Settle(w, status) ==
  LET d == worker[w].delivery IN
  /\ job' = IF job[d].owner = w
              THEN [job EXCEPT ![d] = [@ EXCEPT !.status = status, !.owner = NoWorker, !.live = FALSE]]
              ELSE job
  /\ worker' = [worker EXCEPT ![w] = Idle]
  /\ UNCHANGED <<head, repo, row, comments, summary, hist>>

completes(w) == worker[w].phase = "finishing" /\ Settle(w, "done") /\ UNCHANGED bounds

(* A backend failure that was published is rethrown; any call to GitHub or  *)
(* the store may throw; a shutdown aborts at the next checkpoint.  All of   *)
(* them requeue the delivery.                                               *)
fails(w) ==
  /\ worker[w].phase # "idle"
  /\ \/ worker[w].phase = "failing" /\ UNCHANGED bounds
     \/ worker[w].phase # "failing" /\ Fault
  /\ Settle(w, "pending")

(* The process dies; the lease has to lapse. *)
crash(w) ==
  /\ worker[w].phase # "idle"
  /\ Fault
  /\ worker' = [worker EXCEPT ![w] = Idle]
  /\ UNCHANGED <<head, repo, job, row, comments, summary, hist>>

-----------------------------------------------------------------------------
(* reviewPullRequest, cut where another actor can come in between.          *)

(* Mutant: the state of the repository is not looked at. *)
mayReviewAnything == TRUE

mayReview == repo.state = "active"

(* Inactive repository, head moved on, paused, draft or not automatic:      *)
(* nothing to do.                                                           *)
checkStart(w) ==
  LET h == IF job[worker[w].delivery].head = NoHead THEN head ELSE job[worker[w].delivery].head
  IN
  /\ worker[w].phase = "claimed"
  /\ \/ worker' = [worker EXCEPT ![w] = At(w, "finishing")]
     \/ /\ mayReview /\ h = head
        /\ worker' = [worker EXCEPT ![w] = [@ EXCEPT !.phase = "checked", !.head = h]]
  /\ UNCHANGED <<head, repo, job, row, comments, summary, bounds, hist>>

getReview(w) ==
  /\ worker[w].phase = "checked"
  /\ worker' = [worker EXCEPT ![w] =
       [@ EXCEPT !.phase = "read", !.existing = row.findings, !.reviewed = row.reviewed]]
  /\ UNCHANGED <<head, repo, job, row, comments, summary, bounds, hist>>

(* Moves the row to the head under review; neither guard applies here. *)
saveReviewHead(w) ==
  /\ worker[w].phase = "read"
  /\ row' = [row EXCEPT !.head = worker[w].head]
  /\ worker' = [worker EXCEPT ![w].phase = "placed"]
  /\ UNCHANGED <<head, repo, job, comments, summary, bounds, hist>>

renderPlaceholder(w) ==
  /\ worker[w].phase = "placed"
  /\ summary' = [kind |-> "running", head |-> worker[w].head]
  /\ worker' = [worker EXCEPT ![w].phase = "reviewing"]
  /\ UNCHANGED <<head, repo, job, row, comments, bounds, hist>>

(* The inline selection: the first few of what was reported. *)
selectReviewFindings(reported) ==
  {inline \in SUBSET reported :
     \/ inline = reported /\ Cardinality(inline) <= MaxInlineComments
     \/ Cardinality(inline) = MaxInlineComments}

(* The model call: any set of findings with P0-P2 severity.                 *)
callModel(w) ==
  /\ worker[w].phase = "reviewing"
  /\ \E reported \in SUBSET Fingerprints : \E inline \in selectReviewFindings(reported) :
       worker' = [worker EXCEPT ![w] =
         [@ EXCEPT !.phase = "reviewed", !.reported = reported, !.inline = inline]]
  /\ UNCHANGED <<head, repo, job, row, comments, summary, bounds, hist>>

(* What every write computes before it: the findings, less the evicted      *)
(* ones, with the outcomes that a second read of the row shows.  `drop' is  *)
(* what the write takes off the record.                                     *)
Drafts(w, kind, fs, withdrawn) ==
  \E drop \in Evictions(fs, worker[w].existing) :
    worker' = [worker EXCEPT ![w] =
      [@ EXCEPT !.phase = "saving", !.kind = kind, !.drop = drop \cup withdrawn,
                !.reported = {}, !.inline = {},
                !.draft = carryRecordedOutcomes(Without(fs, drop), row.findings)]]

(* A backend failure, published and then rethrown, or no route to a backend. *)
publishUnavailable(w) ==
  /\ worker[w].phase = "reviewing"
  /\ \E kind \in {"unavailable", "unrouted"} :
       Drafts(w, kind, preserveFindingStates(worker[w].existing, worker[w].reviewed, worker[w].head), {})
  /\ UNCHANGED <<head, repo, job, row, comments, summary, bounds, hist>>

(* getCurrentPull finds another head, or no pull request any more. *)
Moved(w) ==
  head # worker[w].head \/ repo.state # "active" \/ repo.removal # "none"

(* What a review that was saved had added: writing the first read again     *)
(* takes it back.                                                           *)
Withdrawn(me) ==
  IF me.phase = "saved" THEN Present(me.draft) \ Present(me.existing) ELSE {}

(* The head moved: every open finding of the first read is superseded.      *)
(* Reached before the review is saved and once more before it is posted.    *)
publishStale(w) ==
  /\ worker[w].phase \in {"reviewed", "saved"}
  /\ Moved(w)
  /\ Drafts(w, "stale", Closed(worker[w].existing, "superseded"), Withdrawn(worker[w]))
  /\ UNCHANGED <<head, repo, job, row, comments, summary, bounds, hist>>

(* Only a diff from an earlier reviewed head can show that a finding was    *)
(* fixed.                                                                   *)
Incremental(w) == worker[w].reviewed \notin {NoHead, worker[w].head}

mergeReview(w) ==
  LET me == worker[w]
      fs == mergeFindingStates(me.existing, me.reviewed, me.head, me.reported)
  IN
  /\ me.phase = "reviewed" /\ head = me.head
  /\ \E drop \in Evictions(fs, me.existing) :
     \E rewritten \in SUBSET Fixable(Without(fs, drop), me.existing) :
       /\ ~Incremental(w) => rewritten = {}
       /\ worker' = [worker EXCEPT ![w] =
            [@ EXCEPT !.phase = "saving", !.kind = "review", !.reported = {}, !.drop = drop,
                      !.draft = carryRecordedOutcomes(
                          markFixedOutcomes(Without(fs, drop), rewritten), row.findings)]]
  /\ UNCHANGED <<head, repo, job, row, comments, summary, bounds, hist>>

(* Mutant: only the compare-and-set on the head. *)
MaySaveByHead(w) == row.head = worker[w].head

MaySave(w) ==
  LET j == job[worker[w].delivery] IN
  /\ j.status = "leased" /\ j.owner = w /\ j.live
  /\ row.head = worker[w].head

Saved(w) ==
  [head |-> worker[w].head,
   reviewed |-> IF worker[w].kind = "review" THEN worker[w].head ELSE worker[w].reviewed,
   findings |-> carryRecordedOutcomes(worker[w].draft, row.findings)]

(* A published backend failure is rethrown. *)
Ending(w) == IF worker[w].kind = "unavailable" THEN "failing" ELSE "finishing"

(* Mutant: what saveReview returns is not looked at. *)
RefusedGoesOn(w) ==
  IF worker[w].kind = "review" THEN [worker[w] EXCEPT !.phase = "saved"] ELSE At(w, Ending(w))

Refused(w) == At(w, Ending(w))

saveReview(w) ==
  LET me == worker[w]
      lost == me.drop \cap Present(row.findings)
  IN
  /\ me.phase = "saving"
  /\ \/ /\ MaySave(w)
        /\ row' = Saved(w)
        /\ worker' = [worker EXCEPT ![w] =
             IF me.kind = "review" THEN [me EXCEPT !.phase = "saved", !.drop = {}]
             ELSE [At(w, "announcing") EXCEPT !.kind = me.kind, !.head = me.head]]
        /\ hist' = [hist EXCEPT !.recorded = @ \cup Present(Saved(w).findings),
                                !.reviews = IF me.kind = "review" THEN @ \cup {me.head} ELSE @,
                                !.gone = (@ \cup lost) \ Present(Saved(w).findings),
                                !.dismissed = @ \ lost,
                                !.saved[me.delivery] = me.claim]
     \/ /\ ~MaySave(w)
        /\ worker' = [worker EXCEPT ![w] = Refused(w)]
        /\ UNCHANGED <<row, hist>>
  /\ UNCHANGED <<head, repo, job, comments, summary, bounds>>

(* List the own advisories, look at the head again, and if it still is the  *)
(* one reviewed post the findings that have no open advisory.               *)
listReviewComments(w) ==
  /\ worker[w].phase = "saved" /\ head = worker[w].head
  /\ worker' = [worker EXCEPT ![w] =
       [@ EXCEPT !.phase = "posting", !.existing = Nothing, !.reviewed = NoHead,
                 !.inline = {f \in worker[w].inline : OpenComments(f) = {}},
                 !.listed = [f \in Fingerprints |-> Len(comments[f])]]]
  /\ UNCHANGED <<head, repo, job, row, comments, summary, bounds, hist>>

postReview(w) ==
  /\ worker[w].phase = "posting"
  /\ comments' = [f \in Fingerprints |->
       IF f \in worker[w].inline THEN Append(comments[f], "open") ELSE comments[f]]
  /\ worker' = [worker EXCEPT ![w] = [@ EXCEPT !.phase = "closing", !.inline = {}]]
  /\ UNCHANGED <<head, repo, job, row, summary, bounds, hist>>

(* Rewrites the listed advisories of terminal findings; a rewrite that      *)
(* fails is skipped.                                                        *)
closeTerminalInlineComments(w) ==
  /\ worker[w].phase = "closing"
  /\ \E done \in SUBSET Terminal(worker[w].draft) :
       comments' = [f \in Fingerprints |->
         [i \in DOMAIN comments[f] |->
            IF f \in done /\ i <= worker[w].listed[f] THEN "closed" ELSE comments[f][i]]]
  /\ worker' = [worker EXCEPT ![w] =
       [At(w, "announcing") EXCEPT !.kind = worker[w].kind, !.head = worker[w].head]]
  /\ UNCHANGED <<head, repo, job, row, summary, bounds, hist>>

updateComment(w) ==
  /\ worker[w].phase = "announcing"
  /\ summary' = [kind |-> worker[w].kind, head |-> worker[w].head]
  /\ worker' = [worker EXCEPT ![w] = At(w, Ending(w))]
  /\ UNCHANGED <<head, repo, job, row, comments, bounds, hist>>

-----------------------------------------------------------------------------
(* Other handlers on the same row; each of their writes takes the row lock. *)

(* @guardianbot dismiss: the id must name exactly one open advisory, and    *)
(* its finding must be retained.                                            *)
dismissCommand(f) ==
  /\ Cardinality(OpenComments(f)) = 1
  /\ f \in Present(row.findings) /\ row.findings[f].outcome # "dismissed"
  /\ row' = [row EXCEPT !.findings[f].outcome = "dismissed"]
  /\ hist' = [hist EXCEPT !.dismissed = @ \cup {f}]
  /\ UNCHANGED <<head, repo, job, worker, comments, summary, bounds>>

(* The pull request was merged: open findings without an outcome were       *)
(* ignored.                                                                 *)
recordMergedOutcomes ==
  LET ignored == {f \in Open(row.findings) : row.findings[f].outcome = "none"} IN
  /\ repo.state = "active" /\ ignored # {}
  /\ row' = [row EXCEPT !.findings = [f \in Fingerprints |->
       IF f \in ignored THEN [@[f] EXCEPT !.outcome = "ignored"] ELSE @[f]]]
  /\ UNCHANGED <<head, repo, job, worker, comments, summary, bounds, hist>>

InRing(ring, c) == \E i \in DOMAIN ring : ring[i] = c

Pushed(ring, c) ==
  LET longer == Append(ring, c)
  IN  IF Len(longer) <= FeedbackRing THEN longer ELSE Tail(longer)

(* A reply to an advisory, counted unless the finding's ring still has it.  *)
(* The delivery may be handled again at any later time.                     *)
captureReviewCommentFeedback(c, f) ==
  LET ring == row.findings[f].ring IN
  /\ repo.state = "active" /\ bounds.replies > 0
  /\ comments[f] # <<>> /\ f \in Present(row.findings) /\ ~InRing(ring, c)
  /\ row' = [row EXCEPT !.findings[f].ring = Pushed(ring, c)]
  /\ bounds' = [bounds EXCEPT !.replies = @ - 1]
  /\ UNCHANGED <<head, repo, job, worker, comments, summary, hist>>

-----------------------------------------------------------------------------
(* Repository lifecycle: the state change and the discard of the findings   *)
(* are two statements; a failure in between runs both again.                *)

Event == /\ bounds.events > 0
         /\ bounds' = [bounds EXCEPT !.events = @ - 1]

(* repository archived or deleted, removed from the installation, or the    *)
(* App uninstalled.                                                         *)
removeRepository ==
  /\ repo.removal = "none"
  /\ Event
  /\ repo' = [repo EXCEPT !.removal = "requested"]
  /\ UNCHANGED <<head, job, worker, row, comments, summary, hist>>

setRepositoryState ==
  /\ repo.removal = "requested"
  /\ repo' = [state |-> "removed", removal |-> "discarding"]
  /\ UNCHANGED <<head, job, worker, row, comments, summary, bounds, hist>>

InFlight == {w \in Workers : worker[w].phase \notin {"idle", "claimed", "finishing", "failing"}}

discardFindings ==
  LET all == Present(row.findings) IN
  /\ repo.removal = "discarding"
  /\ repo' = [repo EXCEPT !.removal = "none"]
  /\ row' = [row EXCEPT !.findings = Nothing]
  /\ hist' = [hist EXCEPT !.gone = @ \cup all, !.dismissed = {},
                          !.wiped = IF repo.state # "removed" THEN "no"
                                    ELSE IF InFlight = {} THEN "quiet" ELSE "racing"]
  /\ UNCHANGED <<head, job, worker, comments, summary, bounds>>

removalFails ==
  /\ repo.removal = "discarding"
  /\ Fault
  /\ repo' = [repo EXCEPT !.removal = "requested"]
  /\ UNCHANGED <<head, job, worker, row, comments, summary, hist>>

(* unarchived, unsuspended, added again; or suspended. *)
otherState(state) ==
  /\ repo.state # state
  /\ Event
  /\ repo' = [repo EXCEPT !.state = state]
  /\ hist' = [hist EXCEPT !.wiped = "no"]
  /\ UNCHANGED <<head, job, worker, row, comments, summary>>

Step(w) ==
  \/ \E d \in Deliveries : claimWebhook(w, d)
  \/ checkStart(w) \/ getReview(w) \/ saveReviewHead(w) \/ renderPlaceholder(w)
  \/ callModel(w) \/ publishUnavailable(w) \/ publishStale(w) \/ mergeReview(w)
  \/ saveReview(w) \/ listReviewComments(w) \/ postReview(w)
  \/ closeTerminalInlineComments(w) \/ updateComment(w)
  \/ completes(w) \/ fails(w) \/ crash(w)

Next ==
  \/ \E w \in Workers : Step(w)
  \/ \E d \in Deliveries :
       \/ leaseExpires(d)
       \/ \E h \in Heads : Push(d, h)
       \/ \E h \in Heads \cup {NoHead} : Request(d, h)
  \/ \E f \in Fingerprints :
       dismissCommand(f) \/ \E c \in Comments : captureReviewCommentFeedback(c, f)
  \/ recordMergedOutcomes
  \/ removeRepository \/ setRepositoryState \/ discardFindings \/ removalFails
  \/ \E state \in {"active", "suspended"} : otherState(state)

Spec == Init /\ [][Next]_vars
-----------------------------------------------------------------------------
(***************************************************************************)
(* What the reviews promise.                                               *)
(***************************************************************************)

(* A dismissal is a human decision: as long as the finding is retained it   *)
(* stays dismissed, whatever review overwrites the column and whatever it   *)
(* read before (saveReview's carry).                                        *)
DismissalSticks ==
  [][\A f \in Fingerprints :
       row.findings[f].outcome = "dismissed" /\ f \in Present(row'.findings) =>
         row'.findings[f].outcome = "dismissed"]_vars

(* The outcome itself is never lost: only an eviction, the removal of the   *)
(* repository or a review that withdraws what it had added takes a          *)
(* dismissed finding off the record.                                        *)
OutcomeIsNeverLost ==
  \A f \in hist.dismissed : row.findings[f].outcome = "dismissed"

(* An advisory that is open on GitHub has its finding on the record, so     *)
(* that a later review can close it, unless the finding was evicted, its    *)
(* repository removed, or the review that recorded it again withdrew it.    *)
AdvisoryIsRetained ==
  \A f \in Fingerprints :
    OpenComments(f) # {} => f \in Present(row.findings) \cup hist.gone

(* A dismissal recorded since the first read is carried over a stale write, *)
(* also of a finding that the review has added since.                       *)
LaterDismissalIsCarried ==
  [][\A w \in Workers, f \in Fingerprints :
       (/\ worker[w].phase = "saving" /\ worker[w].kind = "stale"
        /\ row' # row /\ worker'[w] # worker[w]
        /\ row.findings[f].outcome = "dismissed" /\ f \notin Present(worker[w].existing))
         => row'.findings[f].outcome = "dismissed"]_vars

(* Of the claims of one delivery a later one is never overwritten by an     *)
(* earlier one (the lease in saveReview's fence).                           *)
LaterClaimWins ==
  [][\A d \in Deliveries : hist'.saved[d] >= hist.saved[d]]_vars

(* What is published was recorded first: every advisory's finding has been  *)
(* on the record, and a review summary belongs to a head whose review was   *)
(* saved (a handler whose write was refused publishes nothing).             *)
RecordedBeforePublished ==
  /\ \A f \in Fingerprints : comments[f] # <<>> => f \in hist.recorded
  /\ summary.kind = "review" => summary.head \in hist.reviews

(* Once the findings of a removed repository were discarded with no review  *)
(* in flight, the record stays empty.                                       *)
QuietRemovalIsFinal == hist.wiped = "quiet" => Present(row.findings) = {}

(* Once the findings of a removed repository were discarded the record      *)
(* stays empty.                                                             *)
RemovalIsFinal == hist.wiped # "no" => Present(row.findings) = {}
=============================================================================
