--------------------------- MODULE PullReviewProofs ---------------------------
(***************************************************************************)
(* Proofs about the review of a pull request: for any deliveries, workers, *)
(* heads and budgets a dismissal sticks, a later claim wins, what is       *)
(* published was recorded, and a quiet removal is final; and while one     *)
(* review runs at a time, what was recorded is kept.                       *)
(***************************************************************************)
EXTENDS PullReview, SequenceTheorems, FiniteSetTheorems, TLAPS

-----------------------------------------------------------------------------
(* The inductive invariant. *)

(* No review is in flight in these phases. *)
Calm == {"idle", "claimed", "finishing", "failing"}

(* The findings a worker has read, or is about to post, were recorded; a    *)
(* review that was saved is known.                                          *)
Recorded(me) ==
  /\ Present(me.existing) \subseteq hist.recorded
  /\ me.phase = "reviewed" => me.inline \subseteq me.reported
  /\ me.phase = "saving" => me.inline \subseteq hist.recorded \cup Present(me.draft)
  /\ me.phase \in {"saved", "posting"} => me.inline \subseteq hist.recorded
  /\ me.phase \in {"saved", "posting", "closing", "announcing"} /\ me.kind = "review" =>
       me.head \in hist.reviews
  /\ me.phase \notin Calm => me.head \in Heads

RecordedAll ==
  /\ Present(row.findings) \subseteq hist.recorded
  /\ \A w \in Workers : Recorded(worker[w])

(* The owner of a delivery has its last claim; a saved review was claimed.  *)
Claims ==
  /\ \A w \in Workers, d \in Deliveries :
       worker[w].phase # "idle" /\ worker[w].delivery = d /\ job[d].owner = w =>
         worker[w].claim = job[d].claims
  /\ \A d \in Deliveries :
       /\ hist.saved[d] <= job[d].claims
       /\ job[d].status = "none" => job[d].claims = 0

(* After a quiet removal no review is in flight, and none can begin. *)
Quiet ==
  hist.wiped = "quiet" =>
    /\ repo.state = "removed" /\ Present(row.findings) = {}
    /\ \A w \in Workers : worker[w].phase \in Calm

IInv == TypeOK /\ RecordedAll /\ RecordedBeforePublished /\ Claims /\ Quiet

-----------------------------------------------------------------------------
(* Findings and workers. *)

BoundsOf == [deliveries : Nat, running : Nat, claims : Nat, faults : Nat, events : Nat, replies : Nat]

LEMMA BoundsFact == TypeOK => bounds \in BoundsOf
BY DEF TypeOK, BoundsOf

LEMMA AbsentFacts ==
  /\ Absent \in Finding /\ Nothing \in Findings /\ Present(Nothing) = {}
  /\ \A f \in Fingerprints : Nothing[f] = Absent
BY DEF Absent, Nothing, Finding, Findings, States, Outcomes, Present

LEMMA IdleFacts ==
  /\ Idle \in Worker /\ Idle.phase = "idle" /\ Idle.existing = Nothing /\ Idle.inline = {}
  /\ \A w \in Workers, p \in Phases :
       TypeOK /\ worker[w].phase # "idle" =>
         /\ At(w, p) \in Worker /\ At(w, p).phase = p
         /\ At(w, p).delivery = worker[w].delivery /\ At(w, p).claim = worker[w].claim
         /\ At(w, p).existing = Nothing /\ At(w, p).inline = {}
<1>1. Idle \in Worker
  BY AbsentFacts DEF Idle, Worker, Phases, Kinds, NoHead
<1>2. Idle.phase = "idle" /\ Idle.existing = Nothing /\ Idle.inline = {}
  BY DEF Idle
<1>3. ASSUME NEW w \in Workers, NEW p \in Phases, TypeOK
      PROVE  /\ At(w, p) \in Worker /\ At(w, p).phase = p
             /\ At(w, p).delivery = worker[w].delivery /\ At(w, p).claim = worker[w].claim
             /\ At(w, p).existing = Nothing /\ At(w, p).inline = {}
  <2>1. worker[w].delivery \in Deliveries \cup {NoDelivery} /\ worker[w].claim \in Nat
    <3>1. worker[w] \in Worker
      BY <1>3 DEF TypeOK
    <3> QED BY <3>1 DEF Worker
  <2> QED BY <1>1, <1>2, <2>1 DEF At, Worker, Idle
<1> QED BY <1>1, <1>2, <1>3

LEMMA EvictionsType ==
  ASSUME NEW fs, NEW before
  PROVE  /\ Evictions(fs, before) \subseteq SUBSET Fingerprints
         /\ \A drop \in Evictions(fs, before) : drop \subseteq Present(before) \cup Terminal(fs)
<1> DEFINE Old == IF Aging THEN Present(before) ELSE {}
           Unseen == {f \in Old \cap Terminal(fs) : fs[f].state = before[f].state}
           Excess(aged, gone) ==
             LET active == Cardinality(Open(fs) \ aged)
                 total  == Cardinality(Present(fs) \ gone)
             IN  IF active <= FindingLimit /\ total > FindingLimit THEN total - FindingLimit ELSE 0
           Extra(aged, lapsed) ==
             {x \in SUBSET (Terminal(fs) \ (aged \cup lapsed)) :
                Cardinality(x) = Excess(aged, aged \cup lapsed)}
           Lapsing(aged) ==
             UNION {{aged \cup lapsed \cup extra : extra \in Extra(aged, lapsed)}
                    : lapsed \in SUBSET (Unseen \ aged)}
<1>1. Evictions(fs, before) = UNION {Lapsing(aged) : aged \in SUBSET Old}
  BY DEF Evictions
<1>2. /\ Old \subseteq Present(before) /\ Unseen \subseteq Present(before)
      /\ Present(before) \subseteq Fingerprints /\ Terminal(fs) \subseteq Fingerprints
  BY DEF Present, Terminal
<1> HIDE DEF Old, Unseen, Excess
<1>3. ASSUME NEW aged \in SUBSET Old, NEW x \in Lapsing(aged)
      PROVE  x \in SUBSET Fingerprints /\ x \subseteq Present(before) \cup Terminal(fs)
  <2>1. PICK lapsed \in SUBSET (Unseen \ aged) :
          x \in {aged \cup lapsed \cup extra : extra \in Extra(aged, lapsed)}
    BY <1>3
  <2>2. PICK extra \in SUBSET Terminal(fs) : x = aged \cup lapsed \cup extra
    BY <2>1
  <2> QED BY <1>2, <1>3, <2>2
<1> HIDE DEF Lapsing
<1> QED BY <1>1, <1>3

(* What each pure function on findings makes of one finding. *)
LEMMA WithoutFacts ==
  ASSUME NEW fs \in Findings, NEW drop
  PROVE  /\ Without(fs, drop) \in Findings
         /\ Present(Without(fs, drop)) = Present(fs) \ drop
BY AbsentFacts DEF Without, Findings, Present, Absent

LEMMA ClosedFacts ==
  ASSUME NEW fs \in Findings, NEW state \in {"resolved", "superseded"}
  PROVE  /\ Closed(fs, state) \in Findings
         /\ Present(Closed(fs, state)) = Present(fs)
<1>1. \A f \in Fingerprints :
        /\ [fs[f] EXCEPT !.state = state] \in Finding
        /\ [fs[f] EXCEPT !.state = state].state = state
  BY DEF Findings, Finding, States
<1> QED BY <1>1 DEF Closed, Findings, Present, Open

LEMMA MergeFacts ==
  ASSUME NEW fs \in Findings, NEW reviewed, NEW h, NEW reported \in SUBSET Fingerprints
  PROVE  /\ mergeFindingStates(fs, reviewed, h, reported) \in Findings
         /\ Present(mergeFindingStates(fs, reviewed, h, reported)) = Present(fs) \cup reported
         /\ reported \subseteq Open(mergeFindingStates(fs, reviewed, h, reported))
<1> DEFINE previous == Closed(fs, IF reviewed = h THEN "resolved" ELSE "superseded")
<1>1. previous \in Findings /\ Present(previous) = Present(fs)
  BY ClosedFacts
<1>2. \A f \in Fingerprints :
        observeFindingState(fs[f]) \in Finding /\ observeFindingState(fs[f]).state = "open"
  BY DEF Findings, Finding, States, Outcomes, observeFindingState
<1>3. mergeFindingStates(fs, reviewed, h, reported) =
        [f \in Fingerprints |-> IF f \in reported THEN observeFindingState(fs[f]) ELSE previous[f]]
  BY DEF mergeFindingStates
<1> HIDE DEF previous
<1> QED BY <1>1, <1>2, <1>3 DEF Findings, Present, Open

LEMMA MarkFacts ==
  ASSUME NEW fs \in Findings, NEW rewritten
  PROVE  /\ markFixedOutcomes(fs, rewritten) \in Findings
         /\ Present(markFixedOutcomes(fs, rewritten)) = Present(fs)
<1>1. \A f \in Fingerprints :
        /\ [fs[f] EXCEPT !.outcome = "fixed"] \in Finding
        /\ [fs[f] EXCEPT !.outcome = "fixed"].state = fs[f].state
  BY DEF Findings, Finding, Outcomes
<1> QED BY <1>1 DEF markFixedOutcomes, Findings, Present

(* The carry never brings a finding back, and never loses a dismissal. *)
LEMMA CarryFacts ==
  ASSUME NEW fs \in Findings, NEW latest \in Findings
  PROVE  LET c == carryRecordedOutcomes(fs, latest) IN
         /\ c \in Findings /\ Present(c) = Present(fs)
         /\ \A f \in Present(fs) : latest[f].outcome = "dismissed" => c[f].outcome = "dismissed"
<1>1. \A f \in Fingerprints :
        LET r == [fs[f] EXCEPT !.outcome = latest[f].outcome] IN
        r \in Finding /\ r.state = fs[f].state /\ r.outcome = latest[f].outcome
  BY DEF Findings, Finding
<1>2. \A f \in Fingerprints :
        LET c == carryRecordedOutcomes(fs, latest) IN
        /\ c[f] \in Finding /\ c[f].state = fs[f].state
        /\ f \in Present(fs) /\ latest[f].outcome = "dismissed" => c[f].outcome = "dismissed"
  BY <1>1 DEF carryRecordedOutcomes, Findings
<1>3. /\ carryRecordedOutcomes(fs, latest) = [f \in Fingerprints |-> carryRecordedOutcomes(fs, latest)[f]]
      /\ DOMAIN carryRecordedOutcomes(fs, latest) = Fingerprints
  BY DEF carryRecordedOutcomes
<1> QED BY <1>2, <1>3 DEF Findings, Present

-----------------------------------------------------------------------------
(* Steps of a worker. *)

(* What a worker may turn into: the same delivery and claim, or idle. *)
Fits(w, new) ==
  /\ new \in Worker /\ Recorded(new)
  /\ new.phase # "idle" => /\ worker[w].phase # "idle"
                           /\ new.delivery = worker[w].delivery /\ new.claim = worker[w].claim
  /\ hist.wiped = "quiet" => new.phase \in Calm

LEMMA Moves ==
  ASSUME IInv, NEW w \in Workers, NEW new, Fits(w, new),
         worker' = [worker EXCEPT ![w] = new],
         UNCHANGED <<repo, job, hist>>, row'.findings = row.findings,
         head' \in Heads,
         row' \in [head : Heads \cup {NoHead}, reviewed : Heads \cup {NoHead}, findings : Findings],
         comments' \in [Fingerprints -> Seq({"open", "closed"})],
         summary' \in [kind : Kinds \cup {"none", "running"}, head : Heads \cup {NoHead}],
         bounds' \in BoundsOf,
         RecordedBeforePublished'
  PROVE  IInv'
<1>1. /\ worker \in [Workers -> Worker] /\ worker'[w] = new
      /\ \A v \in Workers : v # w => worker'[v] = worker[v]
  BY DEF IInv, TypeOK
<1>2. TypeOK'
  <2>1. worker' \in [Workers -> Worker]
    BY <1>1 DEF Fits
  <2>2. \A v \in Workers : worker'[v].phase # "idle" => worker'[v].delivery \in Deliveries
    BY <1>1 DEF Fits, IInv, TypeOK
  <2> QED BY <2>1, <2>2 DEF IInv, TypeOK, BoundsOf
<1>3. RecordedAll'
  <2>1. \A v \in Workers : Recorded(worker'[v])
    BY <1>1 DEF Fits, IInv, RecordedAll
  <2> QED BY <2>1 DEF IInv, RecordedAll, Recorded, Present
<1>4. Claims'
  BY <1>1 DEF Fits, IInv, Claims
<1>5. Quiet'
  BY <1>1 DEF Fits, IInv, Quiet, Present
<1> QED BY <1>2, <1>3, <1>4, <1>5 DEF IInv

LEMMA SilentMove ==
  ASSUME IInv, NEW w \in Workers, NEW new, Fits(w, new),
         worker' = [worker EXCEPT ![w] = new],
         UNCHANGED <<head, repo, job, row, comments, summary, bounds, hist>>
  PROVE  IInv'
<1>1. RecordedBeforePublished'
  BY DEF IInv, RecordedBeforePublished
<1> QED BY <1>1, Moves, BoundsFact DEF IInv, TypeOK

(* A worker at the end of its handler, or about to announce. *)
LEMMA AtFits ==
  ASSUME IInv, NEW w \in Workers, worker[w].phase # "idle", NEW p \in {"finishing", "failing"}
  PROVE  Fits(w, At(w, p))
BY IdleFacts, AbsentFacts DEF IInv, Fits, Recorded, Phases, Calm

LEMMA IdleFits ==
  ASSUME IInv, NEW w \in Workers
  PROVE  Fits(w, Idle)
BY IdleFacts, AbsentFacts DEF IInv, Fits, Recorded, Calm

LEMMA CheckStep ==
  ASSUME IInv, NEW w \in Workers, checkStart(w)
  PROVE  IInv'
<1>1. UNCHANGED <<head, repo, job, row, comments, summary, bounds, hist>> /\ worker[w].phase = "claimed"
  BY DEF checkStart
<1>2. \E new : Fits(w, new) /\ worker' = [worker EXCEPT ![w] = new]
  <2>1. CASE worker' = [worker EXCEPT ![w] = At(w, "finishing")]
    BY <1>1, <2>1, AtFits
  <2>2. CASE worker' # [worker EXCEPT ![w] = At(w, "finishing")]
    <3>1. PICK h \in Heads : /\ mayReview
            /\ worker' = [worker EXCEPT ![w] = [worker[w] EXCEPT !.phase = "checked", !.head = h]]
      BY <2>2 DEF checkStart, IInv, TypeOK
    <3>2. worker[w] \in Worker
      BY DEF IInv, TypeOK
    <3> DEFINE new == [worker[w] EXCEPT !.phase = "checked", !.head = h]
    <3>3. /\ new \in Worker /\ new.phase = "checked" /\ new.head = h /\ new.delivery = worker[w].delivery
          /\ new.claim = worker[w].claim /\ new.existing = worker[w].existing
      BY <3>2 DEF Worker, Phases
    <3>4. hist.wiped # "quiet"
      BY <3>1 DEF mayReview, IInv, Quiet
    <3> HIDE DEF new
    <3>5. Fits(w, new)
      BY <1>1, <3>3, <3>4 DEF Fits, Recorded, IInv, RecordedAll
    <3> QED BY <3>1, <3>5 DEF new
  <2> QED BY <2>1, <2>2
<1>3. PICK new : Fits(w, new) /\ worker' = [worker EXCEPT ![w] = new]
  BY <1>2
<1> QED BY <1>1, <1>3, SilentMove

LEMMA ReadStep ==
  ASSUME IInv, NEW w \in Workers, getReview(w)
  PROVE  IInv'
<1> DEFINE new == [worker[w] EXCEPT !.phase = "read", !.existing = row.findings, !.reviewed = row.reviewed]
<1>1. /\ worker[w] \in Worker /\ row.findings \in Findings /\ row.reviewed \in Heads \cup {NoHead}
      /\ worker[w].phase = "checked"
  BY DEF IInv, TypeOK, getReview
<1>2. /\ new \in Worker /\ new.phase = "read" /\ new.delivery = worker[w].delivery
      /\ new.claim = worker[w].claim /\ new.head = worker[w].head /\ new.existing = row.findings
  BY <1>1 DEF Worker, Phases
<1> HIDE DEF new
<1>3. Fits(w, new)
  BY <1>1, <1>2 DEF Fits, Recorded, IInv, RecordedAll, Quiet, Calm
<1> QED BY <1>3, SilentMove DEF getReview, new

LEMMA PlaceStep ==
  ASSUME IInv, NEW w \in Workers, saveReviewHead(w)
  PROVE  IInv'
<1> DEFINE new == [worker[w] EXCEPT !.phase = "placed"]
<1>1. worker[w] \in Worker /\ worker[w].phase = "read" /\ worker[w].head \in Heads \cup {NoHead}
  BY DEF IInv, TypeOK, saveReviewHead, Worker
<1>2. /\ new \in Worker /\ new.phase = "placed" /\ new.delivery = worker[w].delivery
      /\ new.claim = worker[w].claim /\ new.head = worker[w].head /\ new.existing = worker[w].existing
  BY <1>1 DEF Worker, Phases
<1> HIDE DEF new
<1>3. Fits(w, new)
  BY <1>1, <1>2 DEF Fits, Recorded, IInv, RecordedAll, Quiet, Calm
<1>4. worker' = [worker EXCEPT ![w] = new]
  BY DEF saveReviewHead, new
<1>5. /\ row' \in [head : Heads \cup {NoHead}, reviewed : Heads \cup {NoHead}, findings : Findings]
      /\ row'.findings = row.findings
  BY <1>1 DEF saveReviewHead, IInv, TypeOK
<1>6. UNCHANGED <<head, repo, job, comments, summary, bounds, hist>>
  BY DEF saveReviewHead
<1>7. RecordedBeforePublished'
  BY <1>6 DEF IInv, RecordedBeforePublished
<1> QED BY <1>3, <1>4, <1>5, <1>6, <1>7, Moves, BoundsFact DEF IInv, TypeOK

LEMMA PlaceholderStep ==
  ASSUME IInv, NEW w \in Workers, renderPlaceholder(w)
  PROVE  IInv'
<1> DEFINE new == [worker[w] EXCEPT !.phase = "reviewing"]
<1>1. worker[w] \in Worker /\ worker[w].phase = "placed" /\ worker[w].head \in Heads \cup {NoHead}
  BY DEF IInv, TypeOK, renderPlaceholder, Worker
<1>2. /\ new \in Worker /\ new.phase = "reviewing" /\ new.delivery = worker[w].delivery
      /\ new.claim = worker[w].claim /\ new.head = worker[w].head /\ new.existing = worker[w].existing
  BY <1>1 DEF Worker, Phases
<1> HIDE DEF new
<1>3. Fits(w, new)
  BY <1>1, <1>2 DEF Fits, Recorded, IInv, RecordedAll, Quiet, Calm
<1>4. worker' = [worker EXCEPT ![w] = new]
  BY DEF renderPlaceholder, new
<1>5. /\ summary' \in [kind : Kinds \cup {"none", "running"}, head : Heads \cup {NoHead}]
      /\ summary'.kind = "running"
  BY <1>1 DEF renderPlaceholder
<1>6. UNCHANGED <<head, repo, job, row, comments, bounds, hist>>
  BY DEF renderPlaceholder
<1>7. RecordedBeforePublished'
  BY <1>5, <1>6 DEF IInv, RecordedBeforePublished
<1> QED BY <1>3, <1>4, <1>5, <1>6, <1>7, Moves, BoundsFact DEF IInv, TypeOK

LEMMA ModelStep ==
  ASSUME IInv, NEW w \in Workers, callModel(w)
  PROVE  IInv'
<1>1. PICK reported \in SUBSET Fingerprints : \E inline \in SUBSET reported :
        worker' = [worker EXCEPT ![w] =
          [worker[w] EXCEPT !.phase = "reviewed", !.reported = reported, !.inline = inline]]
  BY DEF callModel, selectReviewFindings
<1>2. PICK inline \in SUBSET reported :
        worker' = [worker EXCEPT ![w] =
          [worker[w] EXCEPT !.phase = "reviewed", !.reported = reported, !.inline = inline]]
  BY <1>1
<1> DEFINE new == [worker[w] EXCEPT !.phase = "reviewed", !.reported = reported, !.inline = inline]
<1>3. worker[w] \in Worker /\ worker[w].phase = "reviewing"
  BY DEF IInv, TypeOK, callModel
<1>4. /\ new \in Worker /\ new.phase = "reviewed" /\ new.delivery = worker[w].delivery
      /\ new.claim = worker[w].claim /\ new.head = worker[w].head /\ new.existing = worker[w].existing
      /\ new.inline = inline /\ new.reported = reported
  BY <1>3 DEF Worker, Phases
<1> HIDE DEF new
<1>5. Fits(w, new)
  BY <1>3, <1>4 DEF Fits, Recorded, IInv, RecordedAll, Quiet, Calm
<1> QED BY <1>2, <1>5, SilentMove DEF callModel, new

(* What a write would save: findings of the first read, and reported ones. *)
LEMMA DraftFits ==
  ASSUME IInv, NEW w \in Workers, worker[w].phase \notin Calm,
         NEW drop \in SUBSET Fingerprints, NEW fs \in Findings,
         NEW kind \in Kinds, NEW inline \in SUBSET Fingerprints,
         inline \subseteq hist.recorded \cup Present(fs)
  PROVE  LET new == [worker[w] EXCEPT !.phase = "saving", !.kind = kind, !.drop = drop,
                       !.reported = {}, !.inline = inline,
                       !.draft = carryRecordedOutcomes(fs, row.findings)]
         IN  Fits(w, new)
<1> DEFINE draft == carryRecordedOutcomes(fs, row.findings)
           new == [worker[w] EXCEPT !.phase = "saving", !.kind = kind, !.drop = drop,
                       !.reported = {}, !.inline = inline, !.draft = draft]
<1>1. worker[w] \in Worker
  BY DEF IInv, TypeOK
<1>2. draft \in Findings /\ Present(draft) = Present(fs)
  BY CarryFacts DEF IInv, TypeOK
<1> HIDE DEF draft
<1>3. /\ new \in Worker /\ new.phase = "saving" /\ new.delivery = worker[w].delivery
      /\ new.claim = worker[w].claim /\ new.head = worker[w].head /\ new.existing = worker[w].existing
      /\ new.inline = inline /\ new.draft = draft
  BY <1>1, <1>2 DEF Worker, Phases
<1> HIDE DEF new
<1>4. Fits(w, new)
  BY <1>2, <1>3 DEF Fits, Recorded, IInv, RecordedAll, Quiet, Calm
<1> QED BY <1>4 DEF new, draft

LEMMA PublishStep ==
  ASSUME IInv, NEW w \in Workers, publishUnavailable(w) \/ publishStale(w)
  PROVE  IInv'
<1>1. worker[w].existing \in Findings
  BY DEF IInv, TypeOK, Worker
<1>2. \E fs \in Findings, kind \in Kinds, withdrawn \in SUBSET Fingerprints :
        Drafts(w, kind, fs, withdrawn)
  <2>1. CASE publishUnavailable(w)
    <3>1. preserveFindingStates(worker[w].existing, worker[w].reviewed, worker[w].head) \in Findings
      BY <1>1, ClosedFacts DEF preserveFindingStates
    <3> QED BY <2>1, <3>1 DEF publishUnavailable, Kinds
  <2>2. CASE publishStale(w)
    <3>1. Closed(worker[w].existing, "superseded") \in Findings
      BY <1>1, ClosedFacts
    <3>2. Withdrawn(worker[w]) \in SUBSET Fingerprints
      BY DEF Withdrawn, Present
    <3> QED BY <2>2, <3>1, <3>2 DEF publishStale, Kinds
  <2> QED BY <2>1, <2>2
<1>3. PICK fs \in Findings, kind \in Kinds, withdrawn \in SUBSET Fingerprints :
        Drafts(w, kind, fs, withdrawn)
  BY <1>2
<1>4. PICK drop \in Evictions(fs, worker[w].existing) :
        worker' = [worker EXCEPT ![w] =
          [worker[w] EXCEPT !.phase = "saving", !.kind = kind, !.drop = drop \cup withdrawn,
             !.reported = {}, !.inline = {},
             !.draft = carryRecordedOutcomes(Without(fs, drop), row.findings)]]
  BY <1>3 DEF Drafts
<1>5. Without(fs, drop) \in Findings /\ drop \cup withdrawn \in SUBSET Fingerprints
  BY WithoutFacts, EvictionsType
<1>6. worker[w].phase \notin Calm
  BY DEF publishUnavailable, publishStale, Calm
<1> DEFINE new == [worker[w] EXCEPT !.phase = "saving", !.kind = kind, !.drop = drop \cup withdrawn,
             !.reported = {}, !.inline = {},
             !.draft = carryRecordedOutcomes(Without(fs, drop), row.findings)]
<1>7. Fits(w, new)
  BY <1>5, <1>6, DraftFits
<1>8. UNCHANGED <<head, repo, job, row, comments, summary, bounds, hist>>
  BY DEF publishUnavailable, publishStale
<1> HIDE DEF new
<1> QED BY <1>4, <1>7, <1>8, SilentMove DEF new

LEMMA MergeStep ==
  ASSUME IInv, NEW w \in Workers, mergeReview(w)
  PROVE  IInv'
<1> DEFINE me == worker[w]
           fs == mergeFindingStates(me.existing, me.reviewed, me.head, me.reported)
<1>1. PICK drop \in Evictions(fs, me.existing) :
        \E rewritten \in SUBSET Fixable(Without(fs, drop), me.existing) :
          worker' = [worker EXCEPT ![w] =
            [worker[w] EXCEPT !.phase = "saving", !.kind = "review", !.reported = {}, !.drop = drop,
                      !.draft = carryRecordedOutcomes(
                          markFixedOutcomes(Without(fs, drop), rewritten), row.findings)]]
  BY DEF mergeReview
<1>2. PICK rewritten :
          worker' = [worker EXCEPT ![w] =
            [worker[w] EXCEPT !.phase = "saving", !.kind = "review", !.reported = {}, !.drop = drop,
                      !.draft = carryRecordedOutcomes(
                          markFixedOutcomes(Without(fs, drop), rewritten), row.findings)]]
  BY <1>1
<1> DEFINE fixed == markFixedOutcomes(Without(fs, drop), rewritten)
           carried == carryRecordedOutcomes(fixed, row.findings)
<1>3. /\ me \in Worker /\ me.existing \in Findings /\ me.reported \in SUBSET Fingerprints
      /\ me.inline \in SUBSET Fingerprints /\ me.phase = "reviewed"
  BY DEF IInv, TypeOK, Worker, mergeReview
<1>4. /\ fs \in Findings /\ Present(fs) = Present(me.existing) \cup me.reported
      /\ me.reported \subseteq Open(fs)
  BY <1>3, MergeFacts
<1>5. drop \in SUBSET Fingerprints /\ drop \subseteq Present(me.existing) \cup Terminal(fs)
  BY EvictionsType
<1> HIDE DEF fs
<1>6. fixed \in Findings /\ Present(fixed) = Present(fs) \ drop
  BY <1>4, WithoutFacts, MarkFacts
<1>7. me.inline \subseteq hist.recorded \cup Present(fixed)
  <2>1. me.inline \subseteq me.reported /\ Present(me.existing) \subseteq hist.recorded
    BY <1>3 DEF IInv, RecordedAll, Recorded
  <2> QED BY <2>1, <1>4, <1>5, <1>6 DEF Terminal
<1> HIDE DEF fixed
<1> DEFINE new == [worker[w] EXCEPT !.phase = "saving", !.kind = "review", !.drop = drop,
                     !.reported = {}, !.inline = me.inline, !.draft = carryRecordedOutcomes(fixed, row.findings)]
<1>8. Fits(w, new)
  BY <1>3, <1>5, <1>6, <1>7, DraftFits DEF Calm, Kinds
<1>9. worker' = [worker EXCEPT ![w] = new]
  <2>1. new = [worker[w] EXCEPT !.phase = "saving", !.kind = "review", !.reported = {}, !.drop = drop,
                      !.draft = carried]
    <3> HIDE DEF carried
    <3>1. me \in Worker
      BY <1>3
    <3> QED BY <3>1 DEF Worker, carried
  <2> QED BY <1>2, <2>1 DEF fixed
<1>10. UNCHANGED <<head, repo, job, row, comments, summary, bounds, hist>>
  BY DEF mergeReview
<1> HIDE DEF new
<1> QED BY <1>8, <1>9, <1>10, SilentMove

LEMMA SaveStep ==
  ASSUME IInv, NEW w \in Workers, saveReview(w)
  PROVE  IInv'
<1> DEFINE me == worker[w]
           d == me.delivery
           lost == me.drop \cap Present(row.findings)
<1>1. /\ me \in Worker /\ me.phase = "saving" /\ d \in Deliveries
      /\ me.draft \in Findings /\ row.findings \in Findings /\ me.kind \in Kinds
      /\ me.head \in Heads \cup {NoHead} /\ me.reviewed \in Heads \cup {NoHead} /\ me.claim \in Nat
  BY DEF saveReview, IInv, TypeOK, Worker
<1>2. UNCHANGED <<head, repo, job, comments, summary, bounds>>
  BY DEF saveReview
<1>3. CASE ~MaySave(w) /\ worker' = [worker EXCEPT ![w] = Refused(w)] /\ UNCHANGED <<row, hist>>
  <2>1. Fits(w, Refused(w))
    BY <1>1, AtFits DEF Refused, Ending
  <2> QED BY <1>2, <1>3, <2>1, SilentMove
<1>4. CASE MaySave(w) /\ row' = Saved(w)
  <2> DEFINE saved == Saved(w)
             new == IF me.kind = "review" THEN [me EXCEPT !.phase = "saved", !.drop = {}]
                    ELSE [At(w, "announcing") EXCEPT !.kind = me.kind, !.head = me.head]
  <2>1. /\ worker' = [worker EXCEPT ![w] = new]
        /\ hist' = [hist EXCEPT !.recorded = @ \cup Present(saved.findings),
                                !.reviews = IF me.kind = "review" THEN @ \cup {me.head} ELSE @,
                                !.gone = (@ \cup lost) \ Present(saved.findings),
                                !.dismissed = @ \ lost,
                                !.saved[d] = me.claim]
    BY <1>4 DEF saveReview
  <2>2. /\ saved.findings \in Findings /\ Present(saved.findings) = Present(me.draft)
        /\ saved \in [head : Heads \cup {NoHead}, reviewed : Heads \cup {NoHead}, findings : Findings]
    BY <1>1, CarryFacts DEF Saved
  <2>3. job[d].status = "leased" /\ job[d].owner = w
    BY <1>4 DEF MaySave
  <2>4. me.head \in Heads
    BY <1>1 DEF IInv, RecordedAll, Recorded, Calm
  <2> HIDE DEF saved
  <2>5. /\ hist'.recorded = hist.recorded \cup Present(me.draft)
        /\ hist'.reviews = IF me.kind = "review" THEN hist.reviews \cup {me.head} ELSE hist.reviews
        /\ hist'.wiped = hist.wiped
        /\ hist'.saved = [hist.saved EXCEPT ![d] = me.claim]
        /\ hist' \in [recorded : SUBSET Fingerprints, reviews : SUBSET Heads,
               gone : SUBSET Fingerprints, dismissed : SUBSET Fingerprints,
               saved : [Deliveries -> Nat], wiped : {"no", "quiet", "racing"}]
    <3>1. Present(me.draft) \subseteq Fingerprints /\ lost \subseteq Fingerprints
      BY DEF Present
    <3> HIDE DEF lost
    <3>2. /\ hist \in [recorded : SUBSET Fingerprints, reviews : SUBSET Heads,
               gone : SUBSET Fingerprints, dismissed : SUBSET Fingerprints,
               saved : [Deliveries -> Nat], wiped : {"no", "quiet", "racing"}]
          /\ me.claim \in Nat
      BY <1>1 DEF IInv, TypeOK, Worker
    <3>3. /\ hist'.recorded = hist.recorded \cup Present(me.draft)
          /\ hist'.reviews = IF me.kind = "review" THEN hist.reviews \cup {me.head} ELSE hist.reviews
          /\ hist'.wiped = hist.wiped
          /\ hist'.saved = [hist.saved EXCEPT ![d] = me.claim]
      BY <2>1, <2>2, <3>2
    <3>4. hist'.saved \in [Deliveries -> Nat]
      BY <3>2, <3>3
    <3>5. hist' \in [recorded : SUBSET Fingerprints, reviews : SUBSET Heads,
               gone : SUBSET Fingerprints, dismissed : SUBSET Fingerprints,
               saved : [Deliveries -> Nat], wiped : {"no", "quiet", "racing"}]
      BY <2>1, <2>2, <2>4, <3>1, <3>2, <3>4
    <3> QED BY <3>3, <3>5
  <2>6. /\ new \in Worker /\ new.phase \in {"saved", "announcing"} /\ new.delivery = d
        /\ new.claim = me.claim /\ new.head = me.head /\ new.kind = me.kind
        /\ new.phase = "announcing" => me.kind # "review"
        /\ new.inline = me.inline \/ new.inline = {}
        /\ new.existing = me.existing \/ new.existing = Nothing
    <3>1. CASE me.kind = "review"
      BY <1>1, <3>1 DEF Worker, Phases
    <3>2. CASE me.kind # "review"
      <4>1. /\ At(w, "announcing") \in Worker /\ At(w, "announcing").phase = "announcing"
            /\ At(w, "announcing").delivery = me.delivery /\ At(w, "announcing").claim = me.claim
            /\ At(w, "announcing").existing = Nothing /\ At(w, "announcing").inline = {}
        BY <1>1, IdleFacts DEF Phases, IInv
      <4> QED BY <1>1, <3>2, <4>1 DEF Worker
    <3> QED BY <3>1, <3>2
  <2> HIDE DEF new
  <2>7. /\ worker'[w] = new /\ worker' \in [Workers -> Worker]
        /\ \A v \in Workers : v # w => worker'[v] = worker[v]
    BY <2>1, <2>6 DEF IInv, TypeOK
  <2>8. row' = saved
    BY <1>4 DEF saved
  <2>9. TypeOK'
    <3>1. \A v \in Workers : worker'[v].phase # "idle" => worker'[v].delivery \in Deliveries
      BY <1>1, <2>6, <2>7 DEF IInv, TypeOK
    <3> QED BY <1>2, <2>2, <2>5, <2>7, <2>8, <3>1 DEF IInv, TypeOK
  <2>10. RecordedAll'
    <3>1. Recorded(worker[w])'
      BY <1>1, <2>4, <2>5, <2>6, <2>7, AbsentFacts DEF IInv, RecordedAll, Recorded, Present
    <3>2. ASSUME NEW v \in Workers, v # w PROVE Recorded(worker[v])'
      <4>1. Recorded(worker[v]) /\ worker'[v] = worker[v]
        BY <2>7, <3>2 DEF IInv, RecordedAll
      <4>2. hist.recorded \subseteq hist'.recorded /\ hist.reviews \subseteq hist'.reviews
        BY <2>5
      <4> QED BY <4>1, <4>2 DEF Recorded, Present
    <3>3. Present(row.findings)' \subseteq hist'.recorded
      BY <2>2, <2>5, <2>8 DEF Present
    <3> QED BY <3>1, <3>2, <3>3 DEF RecordedAll
  <2>11. RecordedBeforePublished'
    BY <1>2, <2>5 DEF IInv, RecordedBeforePublished
  <2>12. me.claim = job[d].claims
    BY <1>1, <2>3 DEF IInv, Claims
  <2>13. Claims'
    <3>1. \A e \in Deliveries : hist'.saved[e] <= job[e].claims
      BY <1>1, <2>5, <2>12 DEF IInv, Claims, TypeOK
    <3> QED BY <1>1, <1>2, <2>6, <2>7, <3>1 DEF IInv, Claims
  <2>14. Quiet'
    BY <1>1, <2>5 DEF IInv, Quiet, Calm
  <2> QED BY <2>9, <2>10, <2>11, <2>13, <2>14 DEF IInv
<1> QED BY <1>3, <1>4 DEF saveReview

LEMMA ListStep ==
  ASSUME IInv, NEW w \in Workers, listReviewComments(w)
  PROVE  IInv'
<1> DEFINE listed == [f \in Fingerprints |-> Len(comments[f])]
           inline == {f \in worker[w].inline : OpenComments(f) = {}}
           new == [worker[w] EXCEPT !.phase = "posting", !.existing = Nothing, !.reviewed = NoHead,
                     !.inline = inline, !.listed = listed]
<1>1. worker[w] \in Worker /\ worker[w].phase = "saved"
  BY DEF IInv, TypeOK, listReviewComments
<1>2. listed \in [Fingerprints -> Nat] /\ inline \subseteq worker[w].inline
  BY DEF IInv, TypeOK
<1> HIDE DEF listed, inline
<1>3. worker' = [worker EXCEPT ![w] = new]
  BY DEF listReviewComments, listed, inline
<1>4. new \in Worker
  BY <1>1, <1>2, AbsentFacts DEF Worker, Phases
<1>5. /\ new.phase = "posting" /\ new.delivery = worker[w].delivery
      /\ new.claim = worker[w].claim /\ new.head = worker[w].head /\ new.existing = Nothing
      /\ new.inline = inline /\ new.kind = worker[w].kind
  BY <1>1 DEF Worker
<1> HIDE DEF new
<1>6. Fits(w, new)
  BY <1>1, <1>2, <1>4, <1>5, AbsentFacts DEF Fits, Recorded, IInv, RecordedAll, Quiet, Calm
<1> QED BY <1>3, <1>6, SilentMove DEF listReviewComments

LEMMA PostStep ==
  ASSUME IInv, NEW w \in Workers, postReview(w)
  PROVE  IInv'
<1> DEFINE new == [worker[w] EXCEPT !.phase = "closing", !.inline = {}]
<1>1. worker[w] \in Worker /\ worker[w].phase = "posting" /\ worker' = [worker EXCEPT ![w] = new]
  BY DEF IInv, TypeOK, postReview
<1>2. /\ new \in Worker /\ new.phase = "closing" /\ new.delivery = worker[w].delivery
      /\ new.claim = worker[w].claim /\ new.head = worker[w].head /\ new.existing = worker[w].existing
      /\ new.inline = {} /\ new.kind = worker[w].kind
  BY <1>1 DEF Worker, Phases
<1> HIDE DEF new
<1>3. Fits(w, new)
  BY <1>1, <1>2 DEF Fits, Recorded, IInv, RecordedAll, Quiet, Calm
<1>4. UNCHANGED <<head, repo, job, row, summary, bounds, hist>>
  BY DEF postReview
<1>5. ASSUME NEW f \in Fingerprints
      PROVE  /\ comments'[f] \in Seq({"open", "closed"})
             /\ comments'[f] # <<>> => f \in hist.recorded
  <2>1. /\ comments[f] \in Seq({"open", "closed"}) /\ (comments[f] # <<>> => f \in hist.recorded)
        /\ comments'[f] = IF f \in worker[w].inline THEN Append(comments[f], "open") ELSE comments[f]
    BY DEF IInv, TypeOK, RecordedBeforePublished, postReview
  <2>2. worker[w].inline \subseteq hist.recorded
    BY <1>1 DEF IInv, RecordedAll, Recorded
  <2>3. Append(comments[f], "open") \in Seq({"open", "closed"})
    BY <2>1, AppendProperties
  <2> QED BY <2>1, <2>2, <2>3
<1>6. comments' \in [Fingerprints -> Seq({"open", "closed"})]
  <2>1. comments' = [f \in Fingerprints |-> comments'[f]]
    BY DEF postReview
  <2> QED BY <1>5, <2>1
<1>7. RecordedBeforePublished'
  BY <1>4, <1>5 DEF IInv, RecordedBeforePublished
<1> QED BY <1>1, <1>3, <1>4, <1>6, <1>7, Moves, BoundsFact DEF IInv, TypeOK

(* A worker that has left its locals behind, but for kind and head. *)
LEMMA AnnounceFits ==
  ASSUME IInv, NEW w \in Workers, worker[w].phase = "closing"
  PROVE  Fits(w, [At(w, "announcing") EXCEPT !.kind = worker[w].kind, !.head = worker[w].head])
<1> DEFINE at == At(w, "announcing")
           new == [at EXCEPT !.kind = worker[w].kind, !.head = worker[w].head]
<1>1. worker[w].kind \in Kinds /\ worker[w].head \in Heads \cup {NoHead}
  BY DEF IInv, TypeOK, Worker
<1>2. /\ at \in Worker /\ at.phase = "announcing" /\ at.existing = Nothing /\ at.inline = {}
      /\ at.delivery = worker[w].delivery /\ at.claim = worker[w].claim
  BY IdleFacts DEF Phases, IInv
<1> HIDE DEF at
<1>3. /\ new \in Worker /\ new.phase = "announcing" /\ new.existing = Nothing /\ new.inline = {}
      /\ new.delivery = worker[w].delivery /\ new.claim = worker[w].claim
      /\ new.kind = worker[w].kind /\ new.head = worker[w].head
  BY <1>1, <1>2 DEF Worker
<1> HIDE DEF new
<1>4. Fits(w, new)
  BY <1>3, AbsentFacts DEF Fits, Recorded, IInv, RecordedAll, Quiet, Calm
<1> QED BY <1>4 DEF new, at

LEMMA CloseStep ==
  ASSUME IInv, NEW w \in Workers, closeTerminalInlineComments(w)
  PROVE  IInv'
<1> DEFINE new == [At(w, "announcing") EXCEPT !.kind = worker[w].kind, !.head = worker[w].head]
<1>1. worker[w].phase = "closing" /\ worker' = [worker EXCEPT ![w] = new]
  BY DEF closeTerminalInlineComments
<1>2. Fits(w, new)
  BY <1>1, AnnounceFits
<1> HIDE DEF new
<1>3. UNCHANGED <<head, repo, job, row, summary, bounds, hist>>
  BY DEF closeTerminalInlineComments
<1>4. PICK done : comments' = [f \in Fingerprints |->
         [i \in DOMAIN comments[f] |->
            IF f \in done /\ i <= worker[w].listed[f] THEN "closed" ELSE comments[f][i]]]
  BY DEF closeTerminalInlineComments
<1>5. ASSUME NEW f \in Fingerprints
      PROVE  /\ comments'[f] \in Seq({"open", "closed"})
             /\ comments'[f] # <<>> => comments[f] # <<>>
  <2>1. /\ comments[f] \in Seq({"open", "closed"})
        /\ comments'[f] = [i \in DOMAIN comments[f] |->
             IF f \in done /\ i <= worker[w].listed[f] THEN "closed" ELSE comments[f][i]]
    BY <1>4 DEF IInv, TypeOK
  <2>2. DOMAIN comments[f] = 1 .. Len(comments[f]) /\ Len(comments[f]) \in Nat
    BY <2>1
  <2>3. \A i \in DOMAIN comments[f] : comments'[f][i] \in {"open", "closed"}
    BY <2>1, ElementOfSeq
  <2>4. comments'[f] = [i \in 1 .. Len(comments[f]) |-> comments'[f][i]]
    BY <2>1, <2>2
  <2>5. comments'[f] \in Seq({"open", "closed"})
    <3>1. comments'[f] \in [1 .. Len(comments[f]) -> {"open", "closed"}]
      BY <2>2, <2>3, <2>4
    <3> QED BY <2>2, <3>1, SeqDef
  <2>6. comments[f] = <<>> => comments'[f] = <<>>
    BY <2>1, <2>2
  <2> QED BY <2>5, <2>6
<1>6. comments' \in [Fingerprints -> Seq({"open", "closed"})]
  <2>1. comments' = [f \in Fingerprints |-> comments'[f]]
    BY <1>4
  <2> QED BY <1>5, <2>1
<1>7. RecordedBeforePublished'
  BY <1>3, <1>5 DEF IInv, RecordedBeforePublished
<1> QED BY <1>1, <1>2, <1>3, <1>6, <1>7, Moves, BoundsFact DEF IInv, TypeOK

LEMMA AnnounceStep ==
  ASSUME IInv, NEW w \in Workers, updateComment(w)
  PROVE  IInv'
<1>1. /\ worker[w].phase = "announcing" /\ worker[w].kind \in Kinds
      /\ worker[w].head \in Heads \cup {NoHead}
  BY DEF updateComment, IInv, TypeOK, Worker
<1>2. Fits(w, At(w, Ending(w)))
  BY <1>1, AtFits DEF Ending
<1>3. summary' = [kind |-> worker[w].kind, head |-> worker[w].head]
  BY DEF updateComment
<1>4. summary' \in [kind : Kinds \cup {"none", "running"}, head : Heads \cup {NoHead}]
  BY <1>1, <1>3
<1>5. /\ UNCHANGED <<head, repo, job, row, comments, bounds, hist>>
      /\ worker' = [worker EXCEPT ![w] = At(w, Ending(w))]
  BY DEF updateComment
<1>6. RecordedBeforePublished'
  BY <1>1, <1>3, <1>5 DEF IInv, RecordedBeforePublished, RecordedAll, Recorded
<1> QED BY <1>2, <1>4, <1>5, <1>6, Moves, BoundsFact DEF IInv, TypeOK

-----------------------------------------------------------------------------
(* The queue. *)

LEMMA BoundsType ==
  ASSUME bounds \in BoundsOf, Fault \/ Event \/ \E d \in Deliveries, h \in Heads \cup {NoHead} : Sends(d, h)
  PROVE  bounds' \in BoundsOf
BY DEF Fault, Event, Sends, BoundsOf

LEMMA CrashStep ==
  ASSUME IInv, NEW w \in Workers, crash(w)
  PROVE  IInv'
<1>1. Fits(w, Idle)
  BY IdleFits
<1>2. UNCHANGED <<head, repo, job, row, comments, summary, hist>> /\ worker' = [worker EXCEPT ![w] = Idle]
  BY DEF crash
<1>3. RecordedBeforePublished'
  BY <1>2 DEF IInv, RecordedBeforePublished
<1>4. bounds' \in BoundsOf
  BY BoundsFact, BoundsType DEF crash, IInv
<1> QED BY <1>1, <1>2, <1>3, <1>4, Moves, BoundsFact DEF IInv, TypeOK

(* Steps that change the queue and workers that are not in a review. *)
LEMMA QueueMoves ==
  ASSUME IInv, UNCHANGED <<repo, row, comments, summary, hist>>, head' \in Heads,
         job' \in [Deliveries -> Job], worker' \in [Workers -> Worker],
         bounds' \in BoundsOf,
         \A w \in Workers :
           \/ worker'[w] = worker[w]
           \/ worker'[w] = Idle
           \/ /\ worker'[w].phase = "claimed" /\ worker'[w].delivery \in Deliveries
              /\ worker'[w].existing = Nothing,
         Claims'
  PROVE  IInv'
<1>1. ASSUME NEW w \in Workers
      PROVE  /\ worker'[w].phase # "idle" => worker'[w].delivery \in Deliveries
             /\ Recorded(worker'[w])
             /\ hist.wiped = "quiet" => worker'[w].phase \in Calm
  <2>1. CASE worker'[w] = worker[w]
    BY <2>1 DEF IInv, TypeOK, RecordedAll, Quiet
  <2>2. CASE /\ worker'[w].phase \in {"idle", "claimed"} /\ worker'[w].existing = Nothing
             /\ worker'[w].phase = "claimed" => worker'[w].delivery \in Deliveries
    BY <2>2, AbsentFacts DEF Recorded, Calm
  <2> QED BY <2>1, <2>2, IdleFacts
<1>2. TypeOK'
  BY <1>1 DEF IInv, TypeOK, BoundsOf
<1>3. RecordedAll'
  BY <1>1 DEF IInv, RecordedAll, Recorded, Present
<1>4. RecordedBeforePublished'
  BY DEF IInv, RecordedBeforePublished
<1>5. Quiet'
  BY <1>1 DEF IInv, Quiet, Present
<1> QED BY <1>2, <1>3, <1>4, <1>5 DEF IInv

LEMMA ClaimStep ==
  ASSUME IInv, NEW w \in Workers, NEW d \in Deliveries, claimWebhook(w, d)
  PROVE  IInv'
<1> DEFINE next == job[d].claims + 1
           new == [Idle EXCEPT !.phase = "claimed", !.delivery = d, !.claim = next]
           j == [job[d] EXCEPT !.status = "leased", !.owner = w, !.live = TRUE, !.claims = next]
<1>1. /\ job' = [job EXCEPT ![d] = j] /\ worker' = [worker EXCEPT ![w] = new]
      /\ UNCHANGED <<head, repo, row, comments, summary, bounds, hist>>
  BY DEF claimWebhook
<1>2. job[d] \in Job /\ job[d].claims \in Nat /\ next \in Nat
  BY DEF IInv, TypeOK, Job
<1> HIDE DEF next
<1>3. /\ new \in Worker /\ new.phase = "claimed" /\ new.delivery = d /\ new.claim = next
      /\ new.existing = Nothing
  <2>1. Idle \in Worker /\ Idle.existing = Nothing
    BY IdleFacts
  <2> QED BY <1>2, <2>1 DEF Worker, Phases
<1>4. j \in Job /\ j.owner = w /\ j.claims = next /\ j.status = "leased"
  BY <1>2 DEF Job
<1> HIDE DEF new, j
<1>5. /\ worker'[w] = new /\ worker' \in [Workers -> Worker]
      /\ \A v \in Workers : v # w => worker'[v] = worker[v]
      /\ job'[d] = j /\ job' \in [Deliveries -> Job]
      /\ \A e \in Deliveries : e # d => job'[e] = job[e]
  BY <1>1, <1>3, <1>4 DEF IInv, TypeOK
<1>6. Claims'
  <2>1. \A v \in Workers, e \in Deliveries :
          worker'[v].phase # "idle" /\ worker'[v].delivery = e /\ job'[e].owner = v =>
            worker'[v].claim = job'[e].claims
    BY <1>3, <1>4, <1>5 DEF IInv, Claims
  <2>2. \A e \in Deliveries : /\ hist'.saved[e] <= job'[e].claims
                              /\ job'[e].status = "none" => job'[e].claims = 0
    <3>1. hist.saved[d] \in Nat
      BY DEF IInv, TypeOK
    <3> QED BY <1>1, <1>2, <1>4, <1>5, <3>1 DEF IInv, Claims, next
  <2> QED BY <2>1, <2>2 DEF Claims
<1> QED BY <1>1, <1>3, <1>5, <1>6, BoundsFact, QueueMoves, BoundsFact DEF IInv, TypeOK

LEMMA SettleStep ==
  ASSUME IInv, NEW w \in Workers, completes(w) \/ fails(w)
  PROVE  IInv'
<1>1. PICK status \in {"done", "pending"} : Settle(w, status)
  BY DEF completes, fails
<1>2. worker[w].phase # "idle"
  BY DEF completes, fails
<1> DEFINE d == worker[w].delivery
           j == [job[d] EXCEPT !.status = status, !.owner = NoWorker, !.live = FALSE]
<1>3. d \in Deliveries /\ job[d] \in Job
  BY <1>2 DEF IInv, TypeOK
<1>4. j \in Job /\ j.owner = NoWorker /\ j.claims = job[d].claims /\ j.status = status
  BY <1>3 DEF Job
<1> HIDE DEF j
<1>5. /\ job' \in [Deliveries -> Job]
      /\ \A e \in Deliveries :
           \/ job'[e] = job[e]
           \/ job'[e].owner = NoWorker /\ job'[e].claims = job[e].claims /\ job'[e].status # "none"
  <2>1. job' = job \/ job' = [job EXCEPT ![d] = j]
    BY <1>1 DEF Settle, j
  <2> QED BY <1>3, <1>4, <2>1 DEF IInv, TypeOK
<1>6. /\ worker' = [worker EXCEPT ![w] = Idle]
      /\ UNCHANGED <<head, repo, row, comments, summary, hist>>
  BY <1>1 DEF Settle
<1>7. /\ worker'[w] = Idle /\ worker' \in [Workers -> Worker]
      /\ \A v \in Workers : v # w => worker'[v] = worker[v]
  BY <1>6, IdleFacts DEF IInv, TypeOK
<1>8. Claims'
  <2>1. \A v \in Workers, e \in Deliveries :
          worker'[v].phase # "idle" /\ worker'[v].delivery = e /\ job'[e].owner = v =>
            worker'[v].claim = job'[e].claims
    BY <1>5, <1>7, IdleFacts, ReviewAssumption DEF IInv, Claims
  <2>2. \A e \in Deliveries : /\ hist'.saved[e] <= job'[e].claims
                              /\ job'[e].status = "none" => job'[e].claims = 0
    BY <1>5, <1>6 DEF IInv, Claims
  <2> QED BY <2>1, <2>2 DEF Claims
<1>9. bounds' \in BoundsOf
  BY BoundsFact, BoundsType DEF completes, fails, IInv
<1> QED BY <1>5, <1>6, <1>7, <1>8, <1>9, QueueMoves, BoundsFact DEF IInv, TypeOK

LEMMA ExpiryStep ==
  ASSUME IInv, NEW d \in Deliveries, leaseExpires(d)
  PROVE  IInv'
<1> DEFINE j == [job[d] EXCEPT !.live = FALSE]
<1>0. /\ j \in Job /\ j.owner = job[d].owner /\ j.claims = job[d].claims /\ j.status = job[d].status
      /\ job' = [job EXCEPT ![d] = j]
  <2>1. job[d] \in Job
    BY DEF IInv, TypeOK
  <2> QED BY <2>1 DEF leaseExpires, Job
<1> HIDE DEF j
<1>1. job' \in [Deliveries -> Job] /\ \A e \in Deliveries :
        job'[e].owner = job[e].owner /\ job'[e].claims = job[e].claims /\ job'[e].status = job[e].status
  BY <1>0 DEF IInv, TypeOK
<1>2. UNCHANGED <<head, repo, worker, row, comments, summary, hist>>
  BY DEF leaseExpires
<1>3. Claims'
  BY <1>1, <1>2 DEF IInv, Claims
<1>4. bounds' \in BoundsOf
  BY BoundsFact, BoundsType DEF leaseExpires, IInv
<1> QED BY <1>1, <1>2, <1>3, <1>4, QueueMoves, BoundsFact DEF IInv, TypeOK

LEMMA SendStep ==
  ASSUME IInv, NEW d \in Deliveries, NEW h \in Heads \cup {NoHead},
         (Push(d, h) /\ h \in Heads) \/ Request(d, h)
  PROVE  IInv'
<1>1. /\ Sends(d, h) /\ head' \in Heads /\ UNCHANGED <<repo, worker, row, comments, summary, hist>>
  BY DEF Push, Request, IInv, TypeOK
<1>2. job[d].status = "none" /\ job' = [job EXCEPT ![d] = NewJob(h)]
  BY <1>1 DEF Sends
<1>3. NewJob(h) \in Job /\ NewJob(h).claims = 0 /\ NewJob(h).owner = NoWorker
  BY DEF NewJob, Job
<1>4. /\ job' \in [Deliveries -> Job] /\ job'[d] = NewJob(h)
      /\ \A e \in Deliveries : e # d => job'[e] = job[e]
  BY <1>2, <1>3 DEF IInv, TypeOK
<1>5. Claims'
  BY <1>1, <1>2, <1>3, <1>4, ReviewAssumption DEF IInv, Claims
<1>6. bounds' \in BoundsOf
  BY <1>1, BoundsFact, BoundsType DEF IInv
<1> QED BY <1>1, <1>4, <1>5, <1>6, QueueMoves, BoundsFact DEF IInv, TypeOK

-----------------------------------------------------------------------------
(* The other handlers, and the lifecycle of the repository. *)

HistOf == [recorded : SUBSET Fingerprints, reviews : SUBSET Heads,
           gone : SUBSET Fingerprints, dismissed : SUBSET Fingerprints,
           saved : [Deliveries -> Nat], wiped : {"no", "quiet", "racing"}]

LEMMA OtherMoves ==
  ASSUME IInv, UNCHANGED <<head, job, worker, comments, summary>>,
         repo' \in [state : {"active", "suspended", "removed"},
                    removal : {"none", "requested", "discarding"}],
         row' \in [head : Heads \cup {NoHead}, reviewed : Heads \cup {NoHead}, findings : Findings],
         bounds' \in BoundsOf, hist' \in HistOf,
         Present(row'.findings) \subseteq Present(row.findings),
         hist'.recorded = hist.recorded, hist'.reviews = hist.reviews, hist'.saved = hist.saved,
         Quiet'
  PROVE  IInv'
<1>1. TypeOK'
  BY DEF IInv, TypeOK, BoundsOf, HistOf
<1>2. RecordedAll'
  BY DEF IInv, RecordedAll, Recorded, Present
<1>3. RecordedBeforePublished' /\ Claims'
  BY DEF IInv, RecordedBeforePublished, Claims
<1> QED BY <1>1, <1>2, <1>3 DEF IInv

(* A handler that writes one field of some findings. *)
KeepsFindings ==
  /\ row' \in [head : Heads \cup {NoHead}, reviewed : Heads \cup {NoHead}, findings : Findings]
  /\ \A f \in Fingerprints :
       /\ row'.findings[f].state = row.findings[f].state
       /\ row.findings[f].outcome = "dismissed" => row'.findings[f].outcome = "dismissed"

LEMMA RowStep ==
  ASSUME IInv,
         \/ \E f \in Fingerprints : dismissCommand(f)
         \/ \E f \in Fingerprints, c \in Comments : captureReviewCommentFeedback(c, f)
         \/ recordMergedOutcomes
  PROVE  IInv' /\ KeepsFindings
<1>1. /\ row \in [head : Heads \cup {NoHead}, reviewed : Heads \cup {NoHead}, findings : Findings]
      /\ \A f \in Fingerprints : row.findings[f] \in Finding
      /\ hist \in HistOf /\ bounds \in BoundsOf
  BY DEF IInv, TypeOK, Findings, HistOf, BoundsOf
<1>2. UNCHANGED <<head, repo, job, worker, comments, summary>> /\ bounds' \in BoundsOf
  BY <1>1 DEF dismissCommand, captureReviewCommentFeedback, recordMergedOutcomes, BoundsOf
<1>3. KeepsFindings
  <2>1. ASSUME NEW f \in Fingerprints, dismissCommand(f)
        PROVE  KeepsFindings
    <3> DEFINE r == [row.findings[f] EXCEPT !.outcome = "dismissed"]
    <3>1. r \in Finding /\ r.state = row.findings[f].state /\ r.outcome = "dismissed"
      BY <1>1 DEF Finding, Outcomes
    <3>2. row' = [row EXCEPT !.findings = [row.findings EXCEPT ![f] = r]]
      BY <2>1 DEF dismissCommand
    <3> HIDE DEF r
    <3> QED BY <1>1, <3>1, <3>2 DEF Findings, KeepsFindings
  <2>2. ASSUME NEW f \in Fingerprints, NEW c \in Comments, captureReviewCommentFeedback(c, f)
        PROVE  KeepsFindings
    <3> DEFINE ring == Pushed(row.findings[f].ring, c)
               r == [row.findings[f] EXCEPT !.ring = ring]
    <3>1. ring \in Seq(Comments)
      <4>1. row.findings[f].ring \in Seq(Comments)
        BY <1>1 DEF Finding
      <4>2. /\ Append(row.findings[f].ring, c) \in Seq(Comments)
            /\ Append(row.findings[f].ring, c) # <<>>
        BY <4>1, AppendProperties
      <4> QED BY <4>2, HeadTailProperties DEF Pushed
    <3> HIDE DEF ring
    <3>2. r \in Finding /\ r.state = row.findings[f].state /\ r.outcome = row.findings[f].outcome
      BY <1>1, <3>1 DEF Finding
    <3>3. row' = [row EXCEPT !.findings = [row.findings EXCEPT ![f] = r]]
      BY <2>2 DEF captureReviewCommentFeedback, ring
    <3> HIDE DEF r
    <3> QED BY <1>1, <3>2, <3>3 DEF Findings, KeepsFindings
  <2>3. CASE recordMergedOutcomes
    <3>1. PICK ignored : /\ \A f \in ignored : row.findings[f].outcome = "none"
            /\ row' = [row EXCEPT !.findings = [f \in Fingerprints |->
                 IF f \in ignored THEN [row.findings[f] EXCEPT !.outcome = "ignored"] ELSE row.findings[f]]]
      BY <2>3 DEF recordMergedOutcomes
    <3>2. \A f \in Fingerprints : LET r == [row.findings[f] EXCEPT !.outcome = "ignored"] IN
            r \in Finding /\ r.state = row.findings[f].state
      BY <1>1 DEF Finding, Outcomes
    <3> QED BY <1>1, <3>1, <3>2 DEF Findings, KeepsFindings
  <2> QED BY <2>1, <2>2, <2>3
<1>4. Present(row'.findings) = Present(row.findings)
  BY <1>3 DEF Present, KeepsFindings
<1>5. /\ hist' \in HistOf /\ hist'.recorded = hist.recorded /\ hist'.reviews = hist.reviews
      /\ hist'.saved = hist.saved /\ hist'.wiped = hist.wiped
  BY <1>1 DEF dismissCommand, captureReviewCommentFeedback, recordMergedOutcomes, HistOf
<1>6. Quiet'
  BY <1>2, <1>4, <1>5 DEF IInv, Quiet, Present
<1>7. IInv'
  BY <1>2, <1>3, <1>4, <1>5, <1>6, OtherMoves DEF IInv, TypeOK, KeepsFindings
<1> QED BY <1>3, <1>7

LEMMA LifecycleStep ==
  ASSUME IInv,
         \/ removeRepository \/ setRepositoryState \/ discardFindings \/ removalFails
         \/ \E state \in {"active", "suspended"} : otherState(state)
  PROVE  IInv'
<1>1. /\ row \in [head : Heads \cup {NoHead}, reviewed : Heads \cup {NoHead}, findings : Findings]
      /\ hist \in HistOf /\ bounds \in BoundsOf
      /\ repo \in [state : {"active", "suspended", "removed"}, removal : {"none", "requested", "discarding"}]
  BY DEF IInv, TypeOK, HistOf, BoundsOf
<1>2. UNCHANGED <<head, job, worker, comments, summary>>
  BY DEF removeRepository, setRepositoryState, discardFindings, removalFails, otherState
<1>3. bounds' \in BoundsOf
  BY <1>1, BoundsType DEF removeRepository, setRepositoryState, discardFindings, removalFails, otherState
<1>4. repo' \in [state : {"active", "suspended", "removed"}, removal : {"none", "requested", "discarding"}]
  BY <1>1 DEF removeRepository, setRepositoryState, discardFindings, removalFails, otherState
<1>5. CASE discardFindings
  <2> DEFINE wiped == IF repo.state # "removed" THEN "no"
                      ELSE IF InFlight = {} THEN "quiet" ELSE "racing"
             all == Present(row.findings)
  <2>1. /\ row' = [row EXCEPT !.findings = Nothing]
        /\ hist' = [hist EXCEPT !.gone = hist.gone \cup all, !.dismissed = {}, !.wiped = wiped]
        /\ repo'.state = repo.state
    BY <1>1, <1>5 DEF discardFindings
  <2>2. /\ wiped \in {"no", "quiet", "racing"}
        /\ wiped = "quiet" => repo.state = "removed" /\ InFlight = {}
    OBVIOUS
  <2>3. all \subseteq Fingerprints
    BY DEF Present
  <2> HIDE DEF wiped, all
  <2>4. /\ hist' \in HistOf /\ hist'.recorded = hist.recorded /\ hist'.reviews = hist.reviews
        /\ hist'.saved = hist.saved /\ hist'.wiped = wiped
    BY <1>1, <2>1, <2>2, <2>3 DEF HistOf
  <2>5. /\ row' \in [head : Heads \cup {NoHead}, reviewed : Heads \cup {NoHead}, findings : Findings]
        /\ Present(row'.findings) = {}
    BY <1>1, <2>1, AbsentFacts
  <2>6. Quiet'
    BY <1>2, <2>1, <2>2, <2>4, <2>5 DEF Quiet, InFlight, Calm, Present
  <2> QED BY <1>2, <1>3, <1>4, <2>4, <2>5, <2>6, OtherMoves
<1>6. CASE removeRepository \/ setRepositoryState \/ removalFails
  <2>1. UNCHANGED <<row, hist>>
    BY <1>6 DEF removeRepository, setRepositoryState, removalFails
  <2>2. repo.state = "removed" => repo'.state = "removed"
    BY <1>1, <1>6 DEF removeRepository, setRepositoryState, removalFails
  <2>3. Quiet'
    BY <1>2, <2>1, <2>2 DEF IInv, Quiet, Present
  <2> QED BY <1>1, <1>2, <1>3, <1>4, <2>1, <2>3, OtherMoves
<1>7. ASSUME NEW state \in {"active", "suspended"}, otherState(state) PROVE IInv'
  <2>1. UNCHANGED row /\ hist' = [hist EXCEPT !.wiped = "no"]
    BY <1>7 DEF otherState
  <2>2. /\ hist' \in HistOf /\ hist'.recorded = hist.recorded /\ hist'.reviews = hist.reviews
        /\ hist'.saved = hist.saved /\ hist'.wiped = "no"
    BY <1>1, <2>1 DEF HistOf
  <2>3. Quiet'
    BY <2>2 DEF Quiet
  <2> QED BY <1>1, <1>2, <1>3, <1>4, <2>1, <2>2, <2>3, OtherMoves
<1> QED BY <1>5, <1>6, <1>7

-----------------------------------------------------------------------------
(* The theorems. *)

LEMMA Initially == Init => IInv
<1> SUFFICES ASSUME Init PROVE IInv
  OBVIOUS
<1>1. PICK fs \in [Fingerprints -> {"absent", "open", "superseded"}], fresh \in BOOLEAN :
    /\ fresh => \A f \in Fingerprints : fs[f] = "absent"
    /\ head = 0
    /\ repo = [state |-> "active", removal |-> "none"]
    /\ job = [d \in Deliveries |->
         [status |-> "none", head |-> NoHead, owner |-> NoWorker, live |-> FALSE, claims |-> 0]]
    /\ worker = [w \in Workers |-> Idle]
    /\ row = [head |-> IF fresh THEN NoHead ELSE 0, reviewed |-> IF fresh THEN NoHead ELSE 0,
              findings |-> [f \in Fingerprints |-> [Absent EXCEPT !.state = fs[f]]]]
    /\ comments = [f \in Fingerprints |->
         CASE fs[f] = "absent" -> <<>>
           [] fs[f] = "open" -> <<"open">>
           [] fs[f] = "superseded" -> <<"closed">>]
    /\ summary = IF fresh THEN [kind |-> "none", head |-> NoHead] ELSE [kind |-> "review", head |-> 0]
    /\ bounds \in Budgets
    /\ hist = [recorded |-> {f \in Fingerprints : fs[f] # "absent"},
               reviews |-> IF fresh THEN {} ELSE {0},
               gone |-> {}, dismissed |-> {},
               saved |-> [d \in Deliveries |-> 0], wiped |-> "no"]
  BY DEF Init
<1>2. 0 \in Heads /\ bounds \in BoundsOf
  BY <1>1, ReviewAssumption DEF Heads, BoundsOf
<1>3. \A f \in Fingerprints : LET r == [Absent EXCEPT !.state = fs[f]] IN
        r \in Finding /\ r.state = fs[f]
  BY AbsentFacts DEF Finding, States, Absent
<1>4. /\ row \in [head : Heads \cup {NoHead}, reviewed : Heads \cup {NoHead}, findings : Findings]
      /\ Present(row.findings) = {f \in Fingerprints : fs[f] # "absent"}
  BY <1>1, <1>2, <1>3 DEF Findings, Present
<1>5. comments \in [Fingerprints -> Seq({"open", "closed"})]
  <2>1. \A f \in Fingerprints : comments[f] \in {<<>>, <<"open">>, <<"closed">>}
    BY <1>1
  <2>2. {<<>>, <<"open">>, <<"closed">>} \subseteq Seq({"open", "closed"})
    OBVIOUS
  <2> QED BY <1>1, <2>1, <2>2
<1>6. job \in [Deliveries -> Job] /\ \A d \in Deliveries : job[d].claims = 0 /\ job[d].owner = NoWorker
  BY <1>1 DEF Job
<1>7. worker \in [Workers -> Worker] /\ \A w \in Workers : worker[w] = Idle
  BY <1>1, IdleFacts
<1>8. hist \in HistOf
  BY <1>1, <1>2 DEF HistOf
<1>9. /\ summary \in [kind : Kinds \cup {"none", "running"}, head : Heads \cup {NoHead}]
      /\ repo \in [state : {"active", "suspended", "removed"}, removal : {"none", "requested", "discarding"}]
      /\ head \in Heads
  BY <1>1, <1>2 DEF Kinds
<1>10. TypeOK
  BY <1>2, <1>4, <1>5, <1>6, <1>7, <1>8, <1>9, IdleFacts DEF TypeOK, BoundsOf, HistOf
<1>11. RecordedAll
  BY <1>1, <1>4, <1>7, IdleFacts, AbsentFacts DEF RecordedAll, Recorded, Calm
<1>12. RecordedBeforePublished
  BY <1>1 DEF RecordedBeforePublished
<1>13. Claims /\ Quiet
  BY <1>1, <1>6, <1>7, IdleFacts DEF Claims, Quiet
<1> QED BY <1>10, <1>11, <1>12, <1>13 DEF IInv

LEMMA WorkerStep ==
  ASSUME IInv, NEW w \in Workers, Step(w)
  PROVE  IInv'
<1>1. ASSUME NEW d \in Deliveries, claimWebhook(w, d) PROVE IInv'
  BY <1>1, ClaimStep
<1>2. CASE checkStart(w) \/ getReview(w) \/ saveReviewHead(w) \/ renderPlaceholder(w) \/ callModel(w)
  BY <1>2, CheckStep, ReadStep, PlaceStep, PlaceholderStep, ModelStep
<1>3. CASE publishUnavailable(w) \/ publishStale(w) \/ mergeReview(w) \/ saveReview(w)
  BY <1>3, PublishStep, MergeStep, SaveStep
<1>4. CASE listReviewComments(w) \/ postReview(w) \/ closeTerminalInlineComments(w) \/ updateComment(w)
  BY <1>4, ListStep, PostStep, CloseStep, AnnounceStep
<1>5. CASE completes(w) \/ fails(w) \/ crash(w)
  BY <1>5, SettleStep, CrashStep
<1> QED BY <1>1, <1>2, <1>3, <1>4, <1>5 DEF Step

LEMMA Preserved == IInv /\ [Next]_vars => IInv'
<1> SUFFICES ASSUME IInv, [Next]_vars PROVE IInv'
  OBVIOUS
<1>1. ASSUME NEW w \in Workers, Step(w) PROVE IInv'
  BY <1>1, WorkerStep
<1>2. ASSUME NEW d \in Deliveries, leaseExpires(d) PROVE IInv'
  BY <1>2, ExpiryStep
<1>3. ASSUME NEW d \in Deliveries, NEW h \in Heads, Push(d, h) PROVE IInv'
  BY <1>3, SendStep
<1>4. ASSUME NEW d \in Deliveries, NEW h \in Heads \cup {NoHead}, Request(d, h) PROVE IInv'
  BY <1>4, SendStep
<1>5. ASSUME NEW f \in Fingerprints, dismissCommand(f) \/ \E c \in Comments : captureReviewCommentFeedback(c, f)
      PROVE  IInv'
  BY <1>5, RowStep
<1>6. CASE recordMergedOutcomes
  BY <1>6, RowStep
<1>7. CASE \/ removeRepository \/ setRepositoryState \/ discardFindings \/ removalFails
           \/ \E state \in {"active", "suspended"} : otherState(state)
  BY <1>7, LifecycleStep
<1>8. CASE UNCHANGED vars
  <2>1. Quiet' /\ hist \in HistOf
    BY <1>8 DEF IInv, Quiet, vars, Present, TypeOK, HistOf
  <2> QED BY <1>8, <2>1, OtherMoves, BoundsFact DEF IInv, TypeOK, vars, Present
<1> QED BY <1>1, <1>2, <1>3, <1>4, <1>5, <1>6, <1>7, <1>8 DEF Next

LEMMA Invariance == Spec => []IInv
BY Initially, Preserved, PTL DEF Spec

(* The variables keep their types. *)
THEOREM TypeCorrect == Spec => []TypeOK
<1>1. IInv => TypeOK
  BY DEF IInv
<1> QED BY <1>1, Invariance, PTL

(* Whatever is published was recorded first: an advisory's finding was on   *)
(* the record, and a review summary names a head whose review was saved     *)
(* (publishReviewResult after saveReview).                                  *)
THEOREM RecordedBeforePublishedTheorem == Spec => []RecordedBeforePublished
<1>1. IInv => RecordedBeforePublished
  BY DEF IInv
<1> QED BY <1>1, Invariance, PTL

(* The findings of a removed repository stay discarded if no review was in  *)
(* flight (discardReviewFindings, mayReview).                               *)
THEOREM QuietRemovalIsFinalTheorem == Spec => []QuietRemovalIsFinal
<1>1. IInv => QuietRemovalIsFinal
  BY DEF IInv, Quiet, QuietRemovalIsFinal
<1> QED BY <1>1, Invariance, PTL

(* The findings column is written by a save, by the handlers of people's    *)
(* commands, and by the discard.                                            *)
LEMMA RowChanges ==
  ASSUME TypeOK, [Next]_vars
  PROVE  \/ row'.findings = row.findings
         \/ \E w \in Workers : saveReview(w)
         \/ \E f \in Fingerprints : dismissCommand(f)
         \/ \E f \in Fingerprints, c \in Comments : captureReviewCommentFeedback(c, f)
         \/ recordMergedOutcomes
         \/ discardFindings
<1>1. CASE UNCHANGED vars
  BY <1>1 DEF vars
<1>2. ASSUME NEW w \in Workers, Step(w), ~ saveReview(w) PROVE row'.findings = row.findings
  <2>1. CASE saveReviewHead(w)
    BY <2>1 DEF saveReviewHead, TypeOK
  <2> QED
    BY <1>2, <2>1 DEF Step, claimWebhook, checkStart, getReview, renderPlaceholder,
              callModel, publishUnavailable, publishStale, mergeReview, listReviewComments,
              postReview, closeTerminalInlineComments, updateComment, completes, fails, Settle, crash
<1>3. ASSUME NEW d \in Deliveries,
             \/ leaseExpires(d)
             \/ \E h \in Heads : Push(d, h)
             \/ \E h \in Heads \cup {NoHead} : Request(d, h)
      PROVE  row'.findings = row.findings
  BY <1>3 DEF leaseExpires, Push, Request
<1>4. CASE \/ removeRepository \/ setRepositoryState \/ removalFails
           \/ \E state \in {"active", "suspended"} : otherState(state)
  BY <1>4 DEF removeRepository, setRepositoryState, removalFails, otherState
<1> QED BY <1>1, <1>2, <1>3, <1>4 DEF Next

(* A dismissal stays as long as the finding is retained, whatever a review  *)
(* read before it overwrites the column (saveReview, carryRecordedOutcomes).*)
THEOREM DismissalSticksTheorem == Spec => DismissalSticks
<1> DEFINE Sticks ==
      \A f \in Fingerprints :
        row.findings[f].outcome = "dismissed" /\ f \in Present(row'.findings) =>
          row'.findings[f].outcome = "dismissed"
<1>1. ASSUME IInv, [Next]_vars PROVE Sticks
  <2> SUFFICES ASSUME NEW f \in Fingerprints,
                      row.findings[f].outcome = "dismissed", f \in Present(row'.findings)
               PROVE  row'.findings[f].outcome = "dismissed"
    OBVIOUS
  <2>1. ASSUME NEW w \in Workers, saveReview(w) PROVE row'.findings[f].outcome = "dismissed"
    <3>1. CASE UNCHANGED row
      BY <3>1
    <3>2. CASE row' = Saved(w)
      <4>1. worker[w].draft \in Findings /\ row.findings \in Findings
        BY <1>1, <2>1 DEF IInv, TypeOK, Worker
      <4>2. row'.findings = carryRecordedOutcomes(worker[w].draft, row.findings)
        BY <3>2 DEF Saved
      <4> QED BY <4>1, <4>2, CarryFacts
    <3> QED BY <2>1, <3>1, <3>2 DEF saveReview
  <2>2. CASE \/ \E g \in Fingerprints : dismissCommand(g)
             \/ \E g \in Fingerprints, c \in Comments : captureReviewCommentFeedback(c, g)
             \/ recordMergedOutcomes
    BY <1>1, <2>2, RowStep DEF KeepsFindings
  <2>3. CASE discardFindings
    <3>1. row'.findings = Nothing
      BY <1>1, <2>3 DEF discardFindings, IInv, TypeOK
    <3> QED BY <3>1, AbsentFacts
  <2> QED BY <1>1, <2>1, <2>2, <2>3, RowChanges DEF IInv
<1>2. IInv /\ [Next]_vars => [Sticks]_vars
  BY <1>1
<1>3. Spec => [][Sticks]_vars
  BY <1>2, Invariance, PTL DEF Spec
<1> QED BY <1>3 DEF DismissalSticks

(* Of the claims of one delivery a later one is never overwritten by an     *)
(* earlier one (the lease in saveReview's fence).                           *)
THEOREM LaterClaimWinsTheorem == Spec => LaterClaimWins
<1> DEFINE Wins == \A d \in Deliveries : hist'.saved[d] >= hist.saved[d]
<1>1. ASSUME IInv, [Next]_vars PROVE Wins
  <2>1. hist.saved \in [Deliveries -> Nat]
    BY <1>1 DEF IInv, TypeOK
  <2>2. ASSUME NEW w \in Workers, saveReview(w) PROVE Wins
    <3>1. CASE UNCHANGED hist
      BY <2>1, <3>1
    <3>2. CASE MaySave(w) /\ hist'.saved = [hist.saved EXCEPT ![worker[w].delivery] = worker[w].claim]
      <4>1. /\ worker[w].phase = "saving" /\ worker[w].delivery \in Deliveries
            /\ worker[w].claim \in Nat
        BY <1>1, <2>2 DEF saveReview, IInv, TypeOK, Worker
      <4>2. job[worker[w].delivery].owner = w
        BY <3>2 DEF MaySave
      <4>3. worker[w].claim = job[worker[w].delivery].claims
        BY <1>1, <4>1, <4>2 DEF IInv, Claims
      <4>4. hist.saved[worker[w].delivery] <= worker[w].claim
        BY <1>1, <4>1, <4>3 DEF IInv, Claims
      <4> QED BY <2>1, <3>2, <4>1, <4>4
    <3>3. UNCHANGED hist \/ (MaySave(w) /\ hist'.saved = [hist.saved EXCEPT ![worker[w].delivery] = worker[w].claim])
      BY <1>1, <2>2 DEF saveReview, IInv, TypeOK
    <3> QED BY <3>1, <3>2, <3>3
  <2>3. ASSUME \A w \in Workers : ~ saveReview(w) PROVE hist'.saved = hist.saved
    <3>1. CASE UNCHANGED vars
      BY <3>1 DEF vars
    <3>2. ASSUME NEW w \in Workers, Step(w) PROVE hist'.saved = hist.saved
      BY <2>3, <3>2 DEF Step, claimWebhook, checkStart, getReview, saveReviewHead, renderPlaceholder,
              callModel, publishUnavailable, publishStale, mergeReview, listReviewComments,
              postReview, closeTerminalInlineComments, updateComment, completes, fails, Settle, crash
    <3>3. ASSUME NEW d \in Deliveries,
             \/ leaseExpires(d)
             \/ \E h \in Heads : Push(d, h)
             \/ \E h \in Heads \cup {NoHead} : Request(d, h)
          PROVE  hist'.saved = hist.saved
      BY <3>3 DEF leaseExpires, Push, Request
    <3>4. hist \in HistOf
      BY <1>1 DEF IInv, TypeOK, HistOf
    <3>5. CASE \/ removeRepository \/ setRepositoryState \/ discardFindings \/ removalFails
               \/ \E state \in {"active", "suspended"} : otherState(state)
      BY <3>4, <3>5 DEF removeRepository, setRepositoryState, discardFindings, removalFails, otherState, HistOf
    <3>6. CASE \/ \E f \in Fingerprints : dismissCommand(f)
               \/ \E f \in Fingerprints, c \in Comments : captureReviewCommentFeedback(c, f)
               \/ recordMergedOutcomes
      BY <3>4, <3>6 DEF dismissCommand, captureReviewCommentFeedback, recordMergedOutcomes, HistOf
    <3> QED BY <1>1, <3>1, <3>2, <3>3, <3>5, <3>6 DEF Next
  <2> QED BY <2>1, <2>2, <2>3
<1>2. IInv /\ [Next]_vars => [Wins]_vars
  BY <1>1
<1>3. Spec => [][Wins]_vars
  BY <1>2, Invariance, PTL DEF Spec
<1> QED BY <1>3 DEF LaterClaimWins


-----------------------------------------------------------------------------
(* One review at a time: only an eviction, a removal or a review that       *)
(* withdraws what it had added takes a finding off the record.              *)

(* Either there is one delivery, which overlapping claims may replay, or    *)
(* worker loops run one at a time.                                          *)
OneReview == \/ \A d, e \in Deliveries : d = e
             \/ \A b \in Budgets : b.running <= 1

Lone ==
  \/ \A d, e \in Deliveries : d = e
  \/ /\ bounds.running <= 1
     /\ \A v, w \in Workers : worker[v].phase # "idle" /\ worker[w].phase # "idle" => v = w

(* The worker whose write the fence on the lease lets through. *)
Holds(w) == worker[w].phase # "idle" /\ job[worker[w].delivery].owner = w

(* The record has nothing that the worker does not know of. *)
Knows(me) ==
  /\ me.phase \in {"read", "placed", "reviewing", "reviewed"} =>
       Present(row.findings) \subseteq Present(me.existing)
  /\ me.phase = "saved" => Present(row.findings) \subseteq Present(me.draft)
  /\ me.phase = "saving" => Present(row.findings) \subseteq Present(me.draft) \cup me.drop

Kept ==
  /\ hist.recorded \subseteq Present(row.findings) \cup hist.gone
  /\ \A f \in hist.dismissed : f \in Present(row.findings) /\ row.findings[f].outcome = "dismissed"

OneInv == Lone /\ (\A w \in Workers : Holds(w) => Knows(worker[w])) /\ Kept

LEMMA OneHolder ==
  ASSUME IInv, Lone, NEW v \in Workers, NEW w \in Workers, Holds(v), Holds(w)
  PROVE  v = w
BY DEF IInv, TypeOK, Lone, Holds

(* A step of a worker that leaves the record alone. *)
LEMMA WorkerMoves ==
  ASSUME IInv, OneInv, NEW w \in Workers, NEW new,
         worker' = [worker EXCEPT ![w] = new],
         row'.findings = row.findings, hist' = hist, bounds'.running = bounds.running,
         new.phase # "idle" => /\ worker[w].phase # "idle" /\ new.delivery = worker[w].delivery
                               /\ Knows(worker[w]) => Knows(new),
         \A d \in Deliveries : job'[d].owner \in {job[d].owner, NoWorker}
  PROVE  OneInv'
<1>1. /\ worker'[w] = new
      /\ \A v \in Workers : v # w => worker'[v] = worker[v]
  BY DEF IInv, TypeOK
<1>2. Lone'
  BY <1>1 DEF OneInv, Lone
<1>3. ASSUME NEW v \in Workers, Holds(v)' PROVE Knows(worker[v])'
  <2>1. /\ worker[v].phase # "idle" /\ worker'[v].delivery = worker[v].delivery
        /\ worker[v].delivery \in Deliveries
    BY <1>1, <1>3 DEF Holds, IInv, TypeOK
  <2>2. job'[worker[v].delivery].owner = v /\ v # NoWorker
    BY <1>3, <2>1, ReviewAssumption DEF Holds
  <2>3. Holds(v)
    BY <2>1, <2>2 DEF Holds
  <2>4. Knows(worker[v])
    BY <2>3 DEF OneInv
  <2>5. Knows(worker'[v])
    BY <1>1, <1>3, <2>4 DEF Holds
  <2> QED BY <2>5 DEF Knows, Present
<1>4. Kept'
  BY DEF OneInv, Kept, Present
<1> QED BY <1>2, <1>3, <1>4 DEF OneInv

(* A step that leaves the workers alone, passes no delivery on, and takes   *)
(* nothing off the record but what is gone.                                 *)
LEMMA RecordMoves ==
  ASSUME IInv, OneInv, UNCHANGED worker, bounds'.running = bounds.running,
         \A d \in Deliveries : job'[d].owner \in {job[d].owner, NoWorker},
         Present(row'.findings) \subseteq Present(row.findings), Kept'
  PROVE  OneInv'
<1>1. Lone'
  BY DEF OneInv, Lone
<1>2. ASSUME NEW v \in Workers, Holds(v)' PROVE Knows(worker[v])'
  <2>1. /\ worker[v].phase # "idle" /\ worker[v].delivery \in Deliveries
        /\ job'[worker[v].delivery].owner = v /\ v # NoWorker
    BY <1>2, ReviewAssumption DEF Holds, IInv, TypeOK
  <2>2. Holds(v)
    BY <2>1 DEF Holds
  <2>3. Knows(worker[v])
    BY <2>2 DEF OneInv
  <2> QED BY <2>3 DEF Knows, Present
<1> QED BY <1>1, <1>2 DEF OneInv

(* What a write will save, and what it takes off the record. *)
LEMMA DraftKnows ==
  ASSUME IInv, NEW w \in Workers, NEW fs \in Findings, NEW drop,
         Present(row.findings) \subseteq Present(fs) \cup drop,
         NEW new, new.phase = "saving", new.drop = drop,
         new.draft = carryRecordedOutcomes(fs, row.findings)
  PROVE  Knows(new)
<1>1. Present(new.draft) = Present(fs)
  BY CarryFacts DEF IInv, TypeOK
<1> QED BY <1>1 DEF Knows

LEMMA PublishKnows ==
  ASSUME IInv, OneInv, NEW w \in Workers, publishUnavailable(w) \/ publishStale(w)
  PROVE  OneInv'
<1> DEFINE me == worker[w]
           withdrawn == IF publishStale(w) THEN Withdrawn(me) ELSE {}
<1>1. /\ me \in Worker /\ me.existing \in Findings /\ me.phase \in {"reviewing", "reviewed", "saved"}
      /\ me.phase = "saved" => publishStale(w)
  BY DEF IInv, TypeOK, Worker, publishUnavailable, publishStale
<1>2. \E fs \in Findings, kind \in Kinds :
        Present(fs) = Present(me.existing) /\ Drafts(w, kind, fs, withdrawn)
  <2>1. CASE publishUnavailable(w)
    <3> DEFINE fs == preserveFindingStates(me.existing, me.reviewed, me.head)
    <3>1. fs \in Findings /\ Present(fs) = Present(me.existing)
      BY <1>1, ClosedFacts DEF preserveFindingStates
    <3>2. ~ publishStale(w)
      BY <2>1 DEF publishUnavailable, publishStale
    <3>3. \E kind \in Kinds : Drafts(w, kind, fs, {})
      BY <2>1 DEF publishUnavailable, Kinds
    <3> HIDE DEF fs
    <3> QED BY <3>1, <3>2, <3>3
  <2>2. CASE publishStale(w)
    <3>1. /\ Closed(me.existing, "superseded") \in Findings
          /\ Present(Closed(me.existing, "superseded")) = Present(me.existing)
      BY <1>1, ClosedFacts
    <3> QED BY <2>2, <3>1 DEF publishStale, Kinds
  <2> QED BY <2>1, <2>2
<1>3. PICK fs \in Findings, kind \in Kinds :
        Present(fs) = Present(me.existing) /\ Drafts(w, kind, fs, withdrawn)
  BY <1>2
<1>4. PICK drop \in Evictions(fs, me.existing) :
        worker' = [worker EXCEPT ![w] =
          [worker[w] EXCEPT !.phase = "saving", !.kind = kind, !.drop = drop \cup withdrawn,
             !.reported = {}, !.inline = {},
             !.draft = carryRecordedOutcomes(Without(fs, drop), row.findings)]]
  BY <1>3 DEF Drafts
<1> DEFINE new == [worker[w] EXCEPT !.phase = "saving", !.kind = kind, !.drop = drop \cup withdrawn,
             !.reported = {}, !.inline = {},
             !.draft = carryRecordedOutcomes(Without(fs, drop), row.findings)]
<1>5. Without(fs, drop) \in Findings /\ Present(Without(fs, drop)) = Present(me.existing) \ drop
  BY <1>3, WithoutFacts
<1>6. /\ new.phase = "saving" /\ new.drop = drop \cup withdrawn /\ new.delivery = me.delivery
      /\ new.draft = carryRecordedOutcomes(Without(fs, drop), row.findings)
  BY <1>1 DEF Worker
<1>7. Knows(me) => Present(row.findings) \subseteq Present(me.existing) \cup withdrawn
  BY <1>1 DEF Knows, Withdrawn
<1>8. UNCHANGED <<head, repo, job, row, comments, summary, bounds, hist>>
  BY DEF publishUnavailable, publishStale
<1>9. worker' = [worker EXCEPT ![w] = new] /\ worker[w].phase # "idle"
  BY <1>1, <1>4
<1> HIDE DEF new, withdrawn
<1>10. Knows(me) => Knows(new)
  BY <1>5, <1>6, <1>7, DraftKnows
<1> QED BY <1>6, <1>8, <1>9, <1>10, WorkerMoves

LEMMA MergeKnows ==
  ASSUME IInv, OneInv, NEW w \in Workers, mergeReview(w)
  PROVE  OneInv'
<1> DEFINE me == worker[w]
           fs == mergeFindingStates(me.existing, me.reviewed, me.head, me.reported)
<1>1. PICK drop \in Evictions(fs, me.existing) :
        \E rewritten \in SUBSET Fixable(Without(fs, drop), me.existing) :
          worker' = [worker EXCEPT ![w] =
            [worker[w] EXCEPT !.phase = "saving", !.kind = "review", !.reported = {}, !.drop = drop,
                      !.draft = carryRecordedOutcomes(
                          markFixedOutcomes(Without(fs, drop), rewritten), row.findings)]]
  BY DEF mergeReview
<1>2. PICK rewritten :
          worker' = [worker EXCEPT ![w] =
            [worker[w] EXCEPT !.phase = "saving", !.kind = "review", !.reported = {}, !.drop = drop,
                      !.draft = carryRecordedOutcomes(
                          markFixedOutcomes(Without(fs, drop), rewritten), row.findings)]]
  BY <1>1
<1> DEFINE fixed == markFixedOutcomes(Without(fs, drop), rewritten)
           new == [worker[w] EXCEPT !.phase = "saving", !.kind = "review", !.reported = {}, !.drop = drop,
                      !.draft = carryRecordedOutcomes(fixed, row.findings)]
<1>3. /\ me \in Worker /\ me.existing \in Findings /\ me.reported \in SUBSET Fingerprints
      /\ me.phase = "reviewed"
  BY DEF IInv, TypeOK, Worker, mergeReview
<1>4. fs \in Findings /\ Present(fs) = Present(me.existing) \cup me.reported
  BY <1>3, MergeFacts
<1>5. worker' = [worker EXCEPT ![w] = new]
  BY <1>2
<1> HIDE DEF fs
<1>6. fixed \in Findings /\ Present(fixed) = Present(fs) \ drop
  BY <1>4, WithoutFacts, MarkFacts
<1> HIDE DEF fixed
<1>7. /\ new.phase = "saving" /\ new.drop = drop /\ new.delivery = me.delivery
      /\ new.draft = carryRecordedOutcomes(fixed, row.findings)
  BY <1>3 DEF Worker
<1>8. UNCHANGED <<head, repo, job, row, comments, summary, bounds, hist>>
  BY DEF mergeReview
<1> HIDE DEF new
<1>9. Knows(me) => Knows(new)
  <2>1. Knows(me) => Present(row.findings) \subseteq Present(fixed) \cup drop
    BY <1>3, <1>4, <1>6 DEF Knows
  <2> QED BY <1>6, <1>7, <2>1, DraftKnows
<1> QED BY <1>3, <1>5, <1>7, <1>8, <1>9, WorkerMoves

(* The steps of a review that leave what it knows alone, or end it. *)
LEMMA ReviewKnows ==
  ASSUME IInv, OneInv, NEW w \in Workers,
         \/ checkStart(w) \/ getReview(w) \/ saveReviewHead(w) \/ renderPlaceholder(w) \/ callModel(w)
         \/ listReviewComments(w) \/ postReview(w) \/ closeTerminalInlineComments(w) \/ updateComment(w)
  PROVE  OneInv'
<1> DEFINE Becomes(new) == /\ worker' = [worker EXCEPT ![w] = new]
                           /\ new.delivery = worker[w].delivery
                           /\ Knows(worker[w]) => Knows(new)
<1>1. worker[w] \in Worker /\ row \in [head : Heads \cup {NoHead}, reviewed : Heads \cup {NoHead}, findings : Findings]
  BY DEF IInv, TypeOK
<1>2. UNCHANGED <<job, bounds, hist>> /\ row'.findings = row.findings /\ worker[w].phase # "idle"
  BY <1>1 DEF checkStart, getReview, saveReviewHead, renderPlaceholder, callModel,
              listReviewComments, postReview, closeTerminalInlineComments, updateComment
<1> SUFFICES \E me : Becomes(me)
  BY <1>2, WorkerMoves
<1>3. ASSUME NEW p \in {"finishing", "failing", "announcing"}, NEW kind, NEW h
      PROVE  /\ At(w, p).delivery = worker[w].delivery /\ Knows(At(w, p))
             /\ LET new == [At(w, p) EXCEPT !.kind = kind, !.head = h] IN
                new.delivery = worker[w].delivery /\ Knows(new)
  BY DEF At, Idle, Knows
<1>4. CASE checkStart(w)
  <2>1. \/ worker' = [worker EXCEPT ![w] = At(w, "finishing")]
        \/ \E h : worker' = [worker EXCEPT ![w] = [worker[w] EXCEPT !.phase = "checked", !.head = h]]
    BY <1>4 DEF checkStart
  <2>2. \A h : LET new == [worker[w] EXCEPT !.phase = "checked", !.head = h] IN
          new.delivery = worker[w].delivery /\ Knows(new)
    BY <1>1 DEF Worker, Knows
  <2> QED BY <1>3, <2>1, <2>2
<1>5. CASE getReview(w)
  <2> DEFINE new == [worker[w] EXCEPT !.phase = "read", !.existing = row.findings, !.reviewed = row.reviewed]
  <2>1. new.delivery = worker[w].delivery /\ Knows(new)
    BY <1>1 DEF Worker, Knows
  <2>2. worker' = [worker EXCEPT ![w] = new]
    BY <1>5 DEF getReview
  <2> HIDE DEF new
  <2> QED BY <2>1, <2>2
<1>6. CASE saveReviewHead(w)
  <2> DEFINE new == [worker[w] EXCEPT !.phase = "placed"]
  <2>1. new.delivery = worker[w].delivery /\ (Knows(worker[w]) => Knows(new))
    BY <1>1, <1>6 DEF Worker, Knows, saveReviewHead
  <2>2. worker' = [worker EXCEPT ![w] = new]
    BY <1>6 DEF saveReviewHead
  <2> HIDE DEF new
  <2> QED BY <2>1, <2>2
<1>7. CASE renderPlaceholder(w)
  <2> DEFINE new == [worker[w] EXCEPT !.phase = "reviewing"]
  <2>1. new.delivery = worker[w].delivery /\ (Knows(worker[w]) => Knows(new))
    BY <1>1, <1>7 DEF Worker, Knows, renderPlaceholder
  <2>2. worker' = [worker EXCEPT ![w] = new]
    BY <1>7 DEF renderPlaceholder
  <2> HIDE DEF new
  <2> QED BY <2>1, <2>2
<1>8. CASE callModel(w)
  <2>1. PICK reported, inline :
          worker' = [worker EXCEPT ![w] =
            [worker[w] EXCEPT !.phase = "reviewed", !.reported = reported, !.inline = inline]]
    BY <1>8 DEF callModel
  <2> DEFINE new == [worker[w] EXCEPT !.phase = "reviewed", !.reported = reported, !.inline = inline]
  <2>2. new.delivery = worker[w].delivery /\ (Knows(worker[w]) => Knows(new))
    BY <1>1, <1>8 DEF Worker, Knows, callModel
  <2> HIDE DEF new
  <2> QED BY <2>1, <2>2 DEF new
<1>9. CASE listReviewComments(w)
  <2>1. PICK inline, listed :
          worker' = [worker EXCEPT ![w] =
            [worker[w] EXCEPT !.phase = "posting", !.existing = Nothing, !.reviewed = NoHead,
                              !.inline = inline, !.listed = listed]]
    BY <1>9 DEF listReviewComments
  <2> DEFINE new == [worker[w] EXCEPT !.phase = "posting", !.existing = Nothing, !.reviewed = NoHead,
                              !.inline = inline, !.listed = listed]
  <2>2. new.delivery = worker[w].delivery /\ Knows(new)
    BY <1>1 DEF Worker, Knows
  <2> HIDE DEF new
  <2> QED BY <2>1, <2>2 DEF new
<1>10. CASE postReview(w)
  <2> DEFINE new == [worker[w] EXCEPT !.phase = "closing", !.inline = {}]
  <2>1. new.delivery = worker[w].delivery /\ Knows(new)
    BY <1>1 DEF Worker, Knows
  <2>2. worker' = [worker EXCEPT ![w] = new]
    BY <1>10 DEF postReview
  <2> HIDE DEF new
  <2> QED BY <2>1, <2>2
<1>11. CASE closeTerminalInlineComments(w)
  <2>1. worker' = [worker EXCEPT ![w] =
          [At(w, "announcing") EXCEPT !.kind = worker[w].kind, !.head = worker[w].head]]
    BY <1>11 DEF closeTerminalInlineComments
  <2> QED BY <1>3, <2>1
<1>12. CASE updateComment(w)
  <2>1. worker' = [worker EXCEPT ![w] = At(w, Ending(w))] /\ Ending(w) \in {"finishing", "failing"}
    BY <1>12 DEF updateComment, Ending
  <2> QED BY <1>3, <2>1
<1> QED BY <1>4, <1>5, <1>6, <1>7, <1>8, <1>9, <1>10, <1>11, <1>12

(* A claim takes the delivery from whoever had it. *)
LEMMA ClaimKnows ==
  ASSUME IInv, OneInv, NEW w \in Workers, NEW d \in Deliveries, claimWebhook(w, d)
  PROVE  OneInv'
<1> DEFINE busy == {v \in Workers : worker[v].phase # "idle"}
<1>1. /\ worker[w].phase = "idle" /\ Cardinality(busy) < bounds.running
      /\ UNCHANGED <<row, bounds, hist>>
      /\ worker'[w].phase = "claimed" /\ worker'[w].delivery = d
      /\ \A v \in Workers : v # w => worker'[v] = worker[v]
      /\ job'[d].owner = w
      /\ \A e \in Deliveries : e # d => job'[e] = job[e]
  <2>1. worker \in [Workers -> Worker] /\ job \in [Deliveries -> Job]
    BY DEF IInv, TypeOK
  <2>2. LET new == [Idle EXCEPT !.phase = "claimed", !.delivery = d, !.claim = job[d].claims + 1] IN
        new.phase = "claimed" /\ new.delivery = d
    BY DEF Idle
  <2>3. LET j == [job[d] EXCEPT !.status = "leased", !.owner = w, !.live = TRUE,
                                !.claims = job[d].claims + 1] IN j.owner = w
    BY <2>1 DEF Job
  <2> QED BY <2>1, <2>2, <2>3 DEF claimWebhook
<1>2. Lone'
  <2>1. CASE \A x, y \in Deliveries : x = y
    BY <2>1 DEF Lone
  <2>2. CASE bounds.running <= 1 /\ \A v, x \in Workers : worker[v].phase # "idle" /\ worker[x].phase # "idle" => v = x
    <3>1. busy = {}
      <4> SUFFICES ASSUME NEW v \in busy PROVE FALSE
        OBVIOUS
      <4>1. busy = {v}
        BY <2>2
      <4>2. Cardinality(busy) = 1
        BY <4>1, FS_Singleton
      <4>3. bounds.running \in Nat
        BY DEF IInv, TypeOK
      <4> QED BY <1>1, <2>2, <4>2, <4>3
    <3> QED BY <1>1, <2>2, <3>1 DEF Lone
  <2> QED BY <2>1, <2>2 DEF OneInv, Lone
<1>3. ASSUME NEW v \in Workers, Holds(v)' PROVE Knows(worker[v])'
  <2>1. CASE v = w
    BY <1>1, <2>1 DEF Knows
  <2>2. CASE v # w
    <3>1. worker'[v] = worker[v] /\ worker[v].phase # "idle" /\ worker[v].delivery \in Deliveries
      BY <1>1, <1>3, <2>2 DEF Holds, IInv, TypeOK
    <3>2. worker[v].delivery # d
      BY <1>1, <1>3, <2>2, <3>1 DEF Holds
    <3>3. Holds(v)
      BY <1>1, <1>3, <3>1, <3>2 DEF Holds
    <3> QED BY <1>1, <3>1, <3>3 DEF OneInv, Knows, Present
  <2> QED BY <2>1, <2>2
<1>4. Kept'
  BY <1>1 DEF OneInv, Kept, Present
<1> QED BY <1>2, <1>3, <1>4 DEF OneInv

(* The end of a handler, whatever ends it. *)
LEMMA EndKnows ==
  ASSUME IInv, OneInv, NEW w \in Workers, completes(w) \/ fails(w) \/ crash(w)
  PROVE  OneInv'
<1>1. /\ worker' = [worker EXCEPT ![w] = Idle] /\ UNCHANGED <<row, hist>>
      /\ bounds'.running = bounds.running
  BY BoundsFact DEF completes, fails, crash, Settle, Fault, BoundsOf, IInv
<1>2. \A d \in Deliveries : job'[d].owner \in {job[d].owner, NoWorker}
  <2>1. job \in [Deliveries -> Job]
    BY DEF IInv, TypeOK
  <2>2. ASSUME NEW d \in Deliveries, NEW status
        PROVE  [job[d] EXCEPT !.status = status, !.owner = NoWorker, !.live = FALSE].owner = NoWorker
    BY <2>1 DEF Job
  <2>3. CASE job' = job
    BY <2>3
  <2>4. ASSUME NEW e, NEW status,
               job' = [job EXCEPT ![e] = [job[e] EXCEPT !.status = status, !.owner = NoWorker, !.live = FALSE]]
        PROVE  \A d \in Deliveries : job'[d].owner \in {job[d].owner, NoWorker}
    BY <2>1, <2>2, <2>4
  <2> QED BY <2>3, <2>4 DEF completes, fails, crash, Settle
<1>3. Idle.phase = "idle"
  BY DEF Idle
<1> QED BY <1>1, <1>2, <1>3, WorkerMoves

(* A save replaces the record by the draft; what it takes off is gone. *)
LEMMA SaveKnows ==
  ASSUME IInv, OneInv, NEW w \in Workers, saveReview(w)
  PROVE  OneInv'
<1> DEFINE me == worker[w]
           lost == me.drop \cap Present(row.findings)
           kept == Present(me.draft)
<1>1. /\ me \in Worker /\ me.phase = "saving" /\ me.delivery \in Deliveries
      /\ me.draft \in Findings /\ row.findings \in Findings
      /\ hist \in HistOf
  BY DEF saveReview, IInv, TypeOK, Worker, HistOf
<1>2. UNCHANGED <<job, bounds>>
  BY DEF saveReview
<1>3. CASE ~MaySave(w) /\ worker' = [worker EXCEPT ![w] = Refused(w)] /\ UNCHANGED <<row, hist>>
  <2>1. Refused(w).delivery = me.delivery /\ Knows(Refused(w))
    BY DEF Refused, Ending, At, Idle, Knows
  <2> QED BY <1>1, <1>2, <1>3, <2>1, WorkerMoves
<1>4. CASE MaySave(w) /\ row' = Saved(w)
  <2> DEFINE new == IF me.kind = "review" THEN [me EXCEPT !.phase = "saved", !.drop = {}]
                    ELSE [At(w, "announcing") EXCEPT !.kind = me.kind, !.head = me.head]
  <2>1. /\ worker' = [worker EXCEPT ![w] = new]
        /\ hist'.recorded = hist.recorded \cup Present(Saved(w).findings)
        /\ hist'.gone = (hist.gone \cup lost) \ Present(Saved(w).findings)
        /\ hist'.dismissed = hist.dismissed \ lost
    BY <1>1, <1>4 DEF saveReview, HistOf
  <2>2. /\ Saved(w).findings = carryRecordedOutcomes(me.draft, row.findings)
        /\ Present(row'.findings) = kept /\ Present(Saved(w).findings) = kept
        /\ \A f \in kept : row.findings[f].outcome = "dismissed" => row'.findings[f].outcome = "dismissed"
    BY <1>1, <1>4, CarryFacts DEF Saved
  <2>3. Holds(w)
    BY <1>1, <1>4 DEF Holds, MaySave
  <2>4. Present(row.findings) \subseteq kept \cup me.drop
    BY <1>1, <2>3 DEF OneInv, Knows
  <2>5. /\ new.phase \in {"saved", "announcing"} /\ new.delivery = me.delivery
        /\ new.phase = "saved" => new.draft = me.draft
    BY <1>1 DEF Worker, At, Idle
  <2> HIDE DEF new
  <2>6. worker'[w] = new /\ \A v \in Workers : v # w => worker'[v] = worker[v]
    BY <2>1 DEF IInv, TypeOK
  <2>7. Lone'
    BY <1>1, <1>2, <2>6 DEF OneInv, Lone
  <2>8. ASSUME NEW v \in Workers, Holds(v)' PROVE Knows(worker[v])'
    <3>1. Holds(v)
      BY <1>1, <1>2, <2>3, <2>5, <2>6, <2>8 DEF Holds
    <3>2. v = w
      BY <2>3, <3>1, OneHolder DEF OneInv
    <3>3. Present(row.findings)' = kept
      BY <2>2 DEF Present
    <3> HIDE DEF kept
    <3>4. new.phase = "saved" => Present(new.draft) = kept
      BY <2>5 DEF kept
    <3>5. /\ worker'[v].phase \in {"saved", "announcing"}
          /\ worker'[v].phase = "saved" => Present(row.findings)' \subseteq Present(worker[v].draft)'
      BY <2>5, <2>6, <3>2, <3>3, <3>4 DEF Present
    <3> QED BY <3>5 DEF Knows
  <2>9. Kept'
    <3>1. hist.recorded \subseteq Present(row.findings) \cup hist.gone
      BY DEF OneInv, Kept
    <3>2. hist'.recorded \subseteq kept \cup hist'.gone
      BY <2>1, <2>2, <2>4, <3>1
    <3>3. ASSUME NEW f \in hist'.dismissed PROVE f \in kept /\ row'.findings[f].outcome = "dismissed"
      <4>1. f \in Present(row.findings) /\ row.findings[f].outcome = "dismissed" /\ f \notin lost
        BY <2>1, <3>3 DEF OneInv, Kept
      <4> QED BY <2>2, <2>4, <4>1
    <3>4. Present(row.findings)' = kept
      BY <2>2 DEF Present
    <3> QED BY <3>2, <3>3, <3>4 DEF Kept
  <2> QED BY <2>7, <2>8, <2>9 DEF OneInv
<1> QED BY <1>3, <1>4 DEF saveReview

LEMMA PeopleKnow ==
  ASSUME IInv, OneInv,
         \/ \E f \in Fingerprints : dismissCommand(f)
         \/ \E f \in Fingerprints, c \in Comments : captureReviewCommentFeedback(c, f)
         \/ recordMergedOutcomes
  PROVE  OneInv'
<1>1. KeepsFindings /\ Present(row'.findings) = Present(row.findings)
  <2>1. KeepsFindings
    BY RowStep
  <2> QED BY <2>1 DEF KeepsFindings, Present
<1>2. UNCHANGED <<job, worker>> /\ bounds'.running = bounds.running
  BY BoundsFact DEF dismissCommand, captureReviewCommentFeedback, recordMergedOutcomes, IInv, BoundsOf
<1>3. hist \in HistOf /\ row.findings \in Findings
  BY DEF IInv, TypeOK, HistOf
<1>4. hist'.recorded = hist.recorded /\ hist'.gone = hist.gone
  BY <1>3 DEF dismissCommand, captureReviewCommentFeedback, recordMergedOutcomes, HistOf
<1>5. ASSUME NEW f \in hist'.dismissed
      PROVE  f \in Present(row.findings) /\ row'.findings[f].outcome = "dismissed"
  <2>1. CASE f \in hist.dismissed
    <3>1. f \in Present(row.findings) /\ row.findings[f].outcome = "dismissed"
      BY <2>1 DEF OneInv, Kept
    <3> QED BY <1>1, <3>1 DEF KeepsFindings, Present
  <2>2. CASE f \notin hist.dismissed
    <3>1. dismissCommand(f)
      BY <1>3, <1>5, <2>2 DEF dismissCommand, captureReviewCommentFeedback, recordMergedOutcomes, HistOf
    <3>2. f \in Fingerprints /\ f \in Present(row.findings)
      BY <3>1 DEF dismissCommand, Present
    <3>3. row' = [row EXCEPT !.findings = [row.findings EXCEPT ![f] = [row.findings[f] EXCEPT !.outcome = "dismissed"]]]
      BY <3>1 DEF dismissCommand
    <3>4. /\ row \in [head : Heads \cup {NoHead}, reviewed : Heads \cup {NoHead}, findings : Findings]
          /\ row.findings[f] \in Finding
      BY <3>2 DEF IInv, TypeOK, Findings
    <3>5. [row.findings[f] EXCEPT !.outcome = "dismissed"].outcome = "dismissed"
      BY <3>4 DEF Finding
    <3> QED BY <3>2, <3>3, <3>4, <3>5 DEF Findings
  <2> QED BY <2>1, <2>2
<1>6. Present(row.findings)' = Present(row.findings)
  BY <1>1 DEF Present
<1>7. Kept'
  BY <1>4, <1>5, <1>6 DEF OneInv, Kept
<1> QED BY <1>1, <1>2, <1>7, RecordMoves

LEMMA LifecycleKnows ==
  ASSUME IInv, OneInv,
         \/ removeRepository \/ setRepositoryState \/ discardFindings \/ removalFails
         \/ \E state \in {"active", "suspended"} : otherState(state)
  PROVE  OneInv'
<1>1. UNCHANGED <<job, worker>> /\ bounds'.running = bounds.running
  BY BoundsFact DEF removeRepository, setRepositoryState, discardFindings, removalFails, otherState,
                    Event, Fault, IInv, BoundsOf
<1>2. hist \in HistOf /\ row \in [head : Heads \cup {NoHead}, reviewed : Heads \cup {NoHead}, findings : Findings]
  BY DEF IInv, TypeOK, HistOf
<1>3. CASE discardFindings
  <2>1. /\ Present(row.findings)' = {} /\ Present(row'.findings) = {}
        /\ hist'.recorded = hist.recorded /\ hist'.gone = hist.gone \cup Present(row.findings)
        /\ hist'.dismissed = {}
    BY <1>2, <1>3, AbsentFacts DEF discardFindings, HistOf, Present
  <2>2. Kept'
    BY <2>1 DEF OneInv, Kept
  <2> QED BY <1>1, <2>1, <2>2, RecordMoves
<1>4. CASE \/ removeRepository \/ setRepositoryState \/ removalFails
           \/ \E state \in {"active", "suspended"} : otherState(state)
  <2>1. /\ UNCHANGED row /\ hist'.recorded = hist.recorded /\ hist'.gone = hist.gone
        /\ hist'.dismissed = hist.dismissed
    BY <1>2, <1>4 DEF removeRepository, setRepositoryState, removalFails, otherState, HistOf
  <2>2. Kept'
    BY <2>1 DEF OneInv, Kept, Present
  <2> QED BY <1>1, <2>1, <2>2, RecordMoves
<1> QED BY <1>3, <1>4

LEMMA QueueKnows ==
  ASSUME IInv, OneInv, NEW d \in Deliveries,
         \/ leaseExpires(d)
         \/ \E h \in Heads : Push(d, h)
         \/ \E h \in Heads \cup {NoHead} : Request(d, h)
  PROVE  OneInv'
<1>1. UNCHANGED <<worker, row, hist>> /\ bounds'.running = bounds.running
  BY BoundsFact DEF leaseExpires, Push, Request, Sends, Fault, IInv, BoundsOf
<1>2. job \in [Deliveries -> Job]
  BY DEF IInv, TypeOK
<1>3. \A e \in Deliveries : job'[e].owner \in {job[e].owner, NoWorker}
  <2>1. CASE leaseExpires(d)
    BY <1>2, <2>1 DEF leaseExpires, Job
  <2>2. ASSUME NEW h, job' = [job EXCEPT ![d] = NewJob(h)]
        PROVE  \A e \in Deliveries : job'[e].owner \in {job[e].owner, NoWorker}
    BY <1>2, <2>2 DEF NewJob
  <2> QED BY <2>1, <2>2 DEF Push, Request, Sends
<1>4. Kept'
  BY <1>1 DEF OneInv, Kept, Present
<1> QED BY <1>1, <1>3, <1>4, RecordMoves

LEMMA OneInitially ==
  ASSUME OneReview, Init
  PROVE  OneInv
<1>1. PICK fs \in [Fingerprints -> {"absent", "open", "superseded"}], fresh \in BOOLEAN :
    /\ worker = [w \in Workers |-> Idle]
    /\ row = [head |-> IF fresh THEN NoHead ELSE 0, reviewed |-> IF fresh THEN NoHead ELSE 0,
              findings |-> [f \in Fingerprints |-> [Absent EXCEPT !.state = fs[f]]]]
    /\ bounds \in Budgets
    /\ hist = [recorded |-> {f \in Fingerprints : fs[f] # "absent"},
               reviews |-> IF fresh THEN {} ELSE {0},
               gone |-> {}, dismissed |-> {},
               saved |-> [d \in Deliveries |-> 0], wiped |-> "no"]
  BY DEF Init
<1>2. \A w \in Workers : worker[w].phase = "idle"
  BY <1>1 DEF Idle
<1>3. hist.recorded = Present(row.findings) /\ hist.dismissed = {}
  BY <1>1 DEF Present, Absent
<1> QED BY <1>1, <1>2, <1>3 DEF OneInv, Lone, Holds, Kept, OneReview

LEMMA OneStep ==
  ASSUME IInv, OneInv, [Next]_vars
  PROVE  OneInv'
<1>1. ASSUME NEW w \in Workers, Step(w) PROVE OneInv'
  BY <1>1, ClaimKnows, ReviewKnows, PublishKnows, MergeKnows, SaveKnows, EndKnows DEF Step
<1>2. CASE UNCHANGED vars
  <2>1. Kept'
    BY <1>2 DEF OneInv, Kept, vars, Present
  <2> QED BY <1>2, <2>1, RecordMoves DEF vars
<1> QED BY <1>1, <1>2, QueueKnows, PeopleKnow, LifecycleKnows DEF Next

LEMMA OneInvariance ==
  ASSUME OneReview
  PROVE  Spec => [](IInv /\ OneInv)
BY OneInitially, OneStep, Initially, Preserved, PTL DEF Spec

(* An open advisory has its finding on the record, or the finding is gone   *)
(* on purpose, however often a delivery is replayed and wherever its claims *)
(* are cut off (saveReview, publishStale, evictTerminalReviewFindings).     *)
THEOREM AdvisoryIsRetainedTheorem ==
  ASSUME OneReview
  PROVE  Spec => []AdvisoryIsRetained
<1>1. IInv /\ OneInv => AdvisoryIsRetained
  <2> SUFFICES ASSUME IInv, OneInv, NEW f \in Fingerprints, OpenComments(f) # {}
               PROVE  f \in Present(row.findings) \cup hist.gone
    BY DEF AdvisoryIsRetained
  <2>1. comments[f] # <<>>
    BY DEF OpenComments
  <2>2. f \in hist.recorded
    BY <2>1 DEF IInv, RecordedBeforePublished
  <2> QED BY <2>2 DEF OneInv, Kept
<1> QED BY <1>1, OneInvariance, PTL

(* No overwrite of the findings column, from whatever was read before,      *)
(* loses a dismissal that was not evicted, discarded or withdrawn with its  *)
(* finding (carryRecordedOutcomes, before the write and under the row lock).*)
THEOREM OutcomeIsNeverLostTheorem ==
  ASSUME OneReview
  PROVE  Spec => []OutcomeIsNeverLost
<1>1. OneInv => OutcomeIsNeverLost
  BY DEF OneInv, Kept, OutcomeIsNeverLost
<1> QED BY <1>1, OneInvariance, PTL
=============================================================================
