-------------------------- MODULE ReleaseChainProofs --------------------------
(***************************************************************************)
(* Proofs about the release chain: for any runs, images, scans, workers    *)
(* and bounds the record follows what was confirmed last, a frozen digest  *)
(* is not promoted again, and a pass of the gate is clean.                 *)
(***************************************************************************)
EXTENDS ReleaseChain, FiniteSetTheorems, WellFoundedInduction, TLAPS

-----------------------------------------------------------------------------
(* The types. *)

Phases == {"idle", "validate", "next", "process", "freeze", "import", "post", "promote", "gate", "decide",
           "claim", "get", "put", "poll", "probe", "record"}
Late == Promoting \cup {"promote", "gate", "decide", "claim", "record"}
Working == {"process", "freeze", "import", "post"}
Fields == {"pc", "run", "todo", "scans", "test", "failed", "ev", "read", "seen"}

(* What expectedArtifactTypes leaves to do. *)
Remaining(r) ==
  IF r \in Pushes
  THEN {<<"security", "image-validation", "image-promotion">>,
        <<"image-validation", "image-promotion">>, <<"image-promotion">>, <<>>}
  ELSE {<<"image-rescan", "dast">>, <<"dast">>, <<>>}

Handler(h) ==
  /\ DOMAIN h = Fields
  /\ h.pc \in Phases /\ h.seen \in Nat
  /\ h.run \in IF h.pc = "idle" THEN {None} ELSE Runs
  /\ h.pc \notin {"idle", "validate"} => h.todo \in Remaining(h.run)
  /\ h.pc \notin {"idle", "validate", "next"} => h.todo # <<>>
  /\ h.pc \in Late => h.run \in Pushes /\ h.todo = <<"image-promotion">>

Handlers == DOMAIN worker = Workers /\ \A w \in Workers : Handler(worker[w])

Given ==
  /\ image \in [Pushes -> Digests]
  /\ report \in [Runs -> Report]

RunStatus == {"none", "pending", "rejected", "failed", "accepted"}
Row == [status : {None, "success", "failure"}, at : Nat]
Bounds == [tries : [Runs -> Nat], faults : Nat, triage : Nat, checks : Nat, clock : Nat]
History == [confirmed : [run : Pushes \cup {None}, at : Nat, written : BOOLEAN],
            moved : SUBSET (Workers \cup {"check"}),
            frozen : SUBSET Schedules, torn : SUBSET Schedules]

Stored ==
  /\ target \in [Schedules -> Digests \cup {None}]
  /\ run \in [Runs -> RunStatus]
  /\ artifact \in [Runs -> [Types -> RunStatus]]
  /\ DOMAIN evidence = Runs
  /\ deployment \in [Pushes -> Row]
  /\ rescanAt \in [Schedules -> Nat]
  /\ bound \in Bounds
  /\ hist \in History

Typed == Given /\ Stored /\ Handlers

-----------------------------------------------------------------------------
(* What was confirmed last. *)

Last == hist.confirmed.run

(* Nobody has seen, and no row tells of, a later deployment than the last   *)
(* one confirmed; its own row, once written, is of that time.               *)
Confirmed ==
  /\ hist.confirmed.at <= bound.clock
  /\ hist.confirmed.written => Last \in Pushes
  /\ \A w \in Workers : worker[w].seen <= hist.confirmed.at
  /\ \A r \in Pushes : deployment[r].at <= hist.confirmed.at
  /\ hist.confirmed.written /\ deployment[Last].status = "success" =>
       deployment[Last].at = hist.confirmed.at

-----------------------------------------------------------------------------
(* Rescans. *)

Rescan(r) == artifact[r]["image-rescan"]
Verified(r) == Rescan(r) \in VERIFIED_RESCAN_STATUSES

(* A handler is at work on the rescan artifact of run r, or past it. *)
Holds(w, r) == R(w) = r /\ worker[w].pc \in Working /\ Current(w) = "image-rescan"
Past(w, r) == R(w) = r /\ worker[w].pc \notin {"idle", "validate"}
                       /\ worker[w].todo \in {<<"dast">>, <<>>}

(* No two rescans were recorded at the same time. *)
Times ==
  \A r \in Schedules :
    /\ rescanAt[r] <= bound.clock
    /\ \A q \in Schedules : r # q /\ rescanAt[r] = rescanAt[q] => rescanAt[r] = 0

(* Evidence comes before its status.  A status none says that nobody was    *)
(* there yet, pending that somebody is, or that the run was left            *)
(* unfinished.                                                              *)
Begun(r) ==
  /\ "image-rescan" \in evidence[r] => rescanAt[r] > 0
  /\ Verified(r) => "image-rescan" \in evidence[r]
  /\ \A w \in Workers :
       /\ Holds(w, r) => Rescan(r) # "none" /\ (~At(w, "process") => "image-rescan" \in evidence[r])
       /\ Past(w, r) => /\ Rescan(r) # "none"
                        /\ \/ Rescan(r) # "pending" \/ r \in hist.torn
                           \/ \E v \in Workers : Holds(v, r)

(* A rescan that came to an end is verified, but for handlers still there. *)
Ends(r) ==
  r \in hist.frozen =>
    /\ run[r] \in VERIFIED_RESCAN_STATUSES \/ \E w \in Workers : R(w) = r
    /\ Verified(r) \/ \E w \in Workers : Holds(w, r) \/ Past(w, r)

FreezeInv == Times /\ \A r \in Schedules : Begun(r) /\ Ends(r)

-----------------------------------------------------------------------------
(* DefectDojo and its readers. *)

States == {"none", "active", "closed", "accepted", "lapsed"}

Test(t) ==
  /\ DOMAIN t = {"id", "source", "scan", "commit", "digest", "state"}
  /\ t.source \in Sources /\ t.state \in [Severities -> States]
  /\ t.source = "sast" =>
       /\ t.scan \in SastScans /\ t.commit \in Runs /\ t.digest = None
       /\ \A s \in report[t.commit].sast[t.scan].found : t.state[s] \notin {"none", "closed"}

Read(c, ev, read) ==
  /\ ev.commitScan \in {None, report[c].sast}
  /\ read = tests

Reads ==
  /\ \A w \in Workers : At(w, "decide") /\ w \notin hist.moved =>
       Read(R(w), worker[w].ev, worker[w].read)
  /\ check.pc \in {"idle", "decide"}
  /\ check.pc = "decide" => check.of \in Pushes
  /\ check.pc = "decide" /\ "check" \notin hist.moved => Read(check.of, check.ev, check.read)

(* The Tests are numbered. *)
Numbered(T) ==
  /\ IsFiniteSet(T)
  /\ {t.id : t \in T} = 1..Cardinality(T)
  /\ \A t, u \in T : t.id = u.id => t = u

Kept(T) == Numbered(T) /\ \A t \in T : Test(t)

IInv == Typed /\ Confirmed /\ FreezeInv /\ Kept(tests) /\ Reads

-----------------------------------------------------------------------------
(* What is left to do. *)

LEMMA RemainingFacts ==
  ASSUME NEW r, NEW q \in Remaining(r), q # <<>>
  PROVE  /\ Tail(q) \in Remaining(r) /\ Head(q) \in Types
         /\ \E i \in DOMAIN expectedArtifactTypes(r) : expectedArtifactTypes(r)[i] = Head(q)
         /\ Head(q) = "image-promotion" => r \in Pushes /\ q = <<"image-promotion">>
<1>1. CASE r \in Pushes
  <2>1. CASE q = <<"security", "image-validation", "image-promotion">>
    <3>1. Tail(q) = <<"image-validation", "image-promotion">> /\ Head(q) = "security"
      BY <2>1
    <3>2. expectedArtifactTypes(r)[1] = "security" /\ 1 \in DOMAIN expectedArtifactTypes(r)
      BY <1>1 DEF expectedArtifactTypes
    <3> QED BY <1>1, <3>1, <3>2 DEF Remaining, Types
  <2>2. CASE q = <<"image-validation", "image-promotion">>
    <3>1. Tail(q) = <<"image-promotion">> /\ Head(q) = "image-validation"
      BY <2>2
    <3>2. expectedArtifactTypes(r)[2] = "image-validation" /\ 2 \in DOMAIN expectedArtifactTypes(r)
      BY <1>1 DEF expectedArtifactTypes
    <3> QED BY <1>1, <3>1, <3>2 DEF Remaining, Types
  <2>3. CASE q = <<"image-promotion">>
    <3>1. Tail(q) = <<>> /\ Head(q) = "image-promotion"
      BY <2>3
    <3>2. expectedArtifactTypes(r)[3] = "image-promotion" /\ 3 \in DOMAIN expectedArtifactTypes(r)
      BY <1>1 DEF expectedArtifactTypes
    <3> QED BY <1>1, <2>3, <3>1, <3>2 DEF Remaining, Types
  <2> QED BY <1>1, <2>1, <2>2, <2>3 DEF Remaining
<1>2. CASE r \notin Pushes
  <2>1. CASE q = <<"image-rescan", "dast">>
    <3>1. Tail(q) = <<"dast">> /\ Head(q) = "image-rescan"
      BY <2>1
    <3>2. expectedArtifactTypes(r)[1] = "image-rescan" /\ 1 \in DOMAIN expectedArtifactTypes(r)
      BY <1>2 DEF expectedArtifactTypes
    <3> QED BY <1>2, <3>1, <3>2 DEF Remaining, Types
  <2>2. CASE q = <<"dast">>
    <3>1. Tail(q) = <<>> /\ Head(q) = "dast"
      BY <2>2
    <3>2. expectedArtifactTypes(r)[2] = "dast" /\ 2 \in DOMAIN expectedArtifactTypes(r)
      BY <1>2 DEF expectedArtifactTypes
    <3> QED BY <1>2, <3>1, <3>2 DEF Remaining, Types
  <2> QED BY <1>2, <2>1, <2>2 DEF Remaining
<1> QED BY <1>1, <1>2

(* On a schedule run the rescan comes first. *)
LEMMA RescanFirst ==
  ASSUME NEW r, NEW q \in Remaining(r), r \notin Pushes
  PROVE  /\ q # <<>> /\ Head(q) = "image-rescan" <=> q \notin {<<"dast">>, <<>>}
         /\ q # <<>> => Tail(q) \in {<<"dast">>, <<>>}
         /\ expectedArtifactTypes(r) \notin {<<"dast">>, <<>>}
<1>1. CASE q = <<"image-rescan", "dast">>
  <2>1. Tail(q) = <<"dast">> /\ Head(q) = "image-rescan" /\ q # <<"dast">> /\ q # <<>>
    BY <1>1
  <2> QED BY <1>1, <2>1 DEF expectedArtifactTypes
<1>2. CASE q = <<"dast">>
  <2>1. Tail(q) = <<>> /\ Head(q) = "dast" /\ <<"image-rescan", "dast">> # <<"dast">>
    BY <1>2
  <2> QED BY <1>2, <2>1 DEF expectedArtifactTypes
<1>3. CASE q = <<>>
  BY <1>3 DEF expectedArtifactTypes
<1> QED BY <1>1, <1>2, <1>3 DEF Remaining

LEMMA ExpectedFacts ==
  ASSUME NEW r \in Runs
  PROVE  expectedArtifactTypes(r) \in Remaining(r) /\ expectedArtifactTypes(r) # <<>>
BY DEF expectedArtifactTypes, Remaining

LEMMA IdleFacts ==
  Handler(Idle) /\ Idle.pc = "idle" /\ Idle.seen = 0 /\ Idle.run = None
BY DEF Idle, Handler, Fields, Phases, Late, Promoting

-----------------------------------------------------------------------------
(* The turns of a handler: it goes on with its artifact, to the next one,   *)
(* or comes to an end.                                                      *)

Turn(w) ==
  /\ DOMAIN worker' = Workers
  /\ \A v \in Workers \ {w} : worker'[v] = worker[v]

Goes(w, pcs) ==
  /\ Turn(w) /\ DOMAIN worker'[w] = Fields
  /\ worker'[w].pc \in pcs /\ worker'[w].run = R(w) /\ worker'[w].todo = worker[w].todo

Nexts(w) ==
  /\ Turn(w) /\ DOMAIN worker'[w] = Fields
  /\ worker'[w].pc = "next" /\ worker'[w].run = R(w) /\ worker'[w].todo = Tail(worker[w].todo)

Leaves(w) == Turn(w) /\ worker'[w] = Idle

Seen(w) == worker'[w].seen \in {worker[w].seen, 0}

LEMMA LeavesHandlers ==
  ASSUME Handlers, NEW w \in Workers, Leaves(w)
  PROVE  Handlers' /\ Seen(w)
BY IdleFacts DEF Handlers, Handler, Leaves, Turn, Seen

LEMMA NextsHandlers ==
  ASSUME Handlers, NEW w \in Workers, Nexts(w), worker[w].pc \notin {"idle", "validate"},
         worker[w].todo # <<>>, worker'[w].seen \in Nat
  PROVE  Handlers'
<1>1. Handler(worker'[w])
  <2>1. worker[w].todo \in Remaining(R(w)) /\ R(w) \in Runs
    BY DEF Handlers, Handler, R
  <2>2. Tail(worker[w].todo) \in Remaining(R(w))
    BY <2>1, RemainingFacts
  <2> QED BY <2>1, <2>2 DEF Nexts, Handler, Phases, Late, Promoting
<1> QED BY <1>1 DEF Handlers, Nexts, Turn

LEMMA GoesHandlers ==
  ASSUME Handlers, NEW w \in Workers, NEW pcs, Goes(w, pcs),
         worker[w].pc \notin {"idle", "validate"}, worker[w].todo # <<>>,
         worker'[w].seen \in Nat,
         pcs \subseteq Working \/ (pcs \subseteq Late \cup {"import"} /\ R(w) \in Pushes
                                                /\ worker[w].todo = <<"image-promotion">>)
  PROVE  Handlers'
<1>1. worker[w].todo \in Remaining(R(w)) /\ R(w) \in Runs
  BY DEF Handlers, Handler, R
<1>2. Handler(worker'[w])
  BY <1>1 DEF Goes, Handler, Phases, Late, Promoting, Working
<1> QED BY <1>2 DEF Handlers, Goes, Turn

-----------------------------------------------------------------------------
(* The turn each operation is. *)

LEMMA BeginTurn ==
  ASSUME Handlers, NEW w \in Workers, NEW r \in Runs, begin(w, r)
  PROVE  Turn(w) /\ DOMAIN worker'[w] = Fields /\ worker'[w].pc = "validate" /\ worker'[w].run = r
         /\ worker'[w].seen = 0
BY DEF Handlers, Handler, Fields, begin, Turn, Idle, At, R

LEMMA ValidateTurn ==
  ASSUME Handlers, NEW w \in Workers, validate(w)
  PROVE  Turn(w) /\ DOMAIN worker'[w] = Fields /\ worker'[w].pc = "next" /\ worker'[w].run = R(w)
         /\ worker'[w].todo = expectedArtifactTypes(R(w)) /\ worker'[w].seen = worker[w].seen
BY DEF Handlers, Handler, Fields, validate, Turn, R

LEMMA RejectRunTurn ==
  ASSUME Handlers, NEW w \in Workers, rejectRun(w)
  PROVE  Leaves(w)
BY DEF Handlers, Handler, Fields, rejectRun, Leaves, Turn

LEMMA MissingArtifactsTurn ==
  ASSUME Handlers, NEW w \in Workers, missingArtifacts(w)
  PROVE  Leaves(w)
BY DEF Handlers, Handler, Fields, missingArtifacts, Leaves, Turn

LEMMA HandlerThrowsTurn ==
  ASSUME Handlers, NEW w \in Workers, handlerThrows(w)
  PROVE  Leaves(w)
BY DEF Handlers, Handler, Fields, handlerThrows, Leaves, Turn

LEMMA FinishRunTurn ==
  ASSUME Handlers, NEW w \in Workers, finishRun(w)
  PROVE  Leaves(w)
BY DEF Handlers, Handler, Fields, finishRun, Leaves, Turn

LEMMA PromoterDiesTurn ==
  ASSUME Handlers, NEW w \in Workers, promoterDies(w)
  PROVE  Leaves(w)
BY DEF Handlers, Handler, Fields, promoterDies, Leaves, Turn

LEMMA RejectMetadataTurn ==
  ASSUME Handlers, NEW w \in Workers, rejectMetadata(w)
  PROVE  Nexts(w) /\ worker'[w].seen = worker[w].seen
BY DEF Handlers, Handler, Fields, rejectMetadata, Nexts, Turn, R, At

LEMMA RejectArtifactTurn ==
  ASSUME Handlers, NEW w \in Workers, rejectArtifact(w)
  PROVE  Nexts(w) /\ worker'[w].seen = worker[w].seen
BY DEF Handlers, Handler, Fields, rejectArtifact, Nexts, Turn, R

LEMMA ImportFailsTurn ==
  ASSUME Handlers, NEW w \in Workers, importFails(w)
  PROVE  Nexts(w) /\ worker'[w].seen = worker[w].seen
BY DEF Handlers, Handler, Fields, importFails, Nexts, Turn, R

LEMMA AcceptArtifactTurn ==
  ASSUME Handlers, NEW w \in Workers, acceptArtifact(w)
  PROVE  Nexts(w) /\ worker'[w].seen = worker[w].seen
BY DEF Handlers, Handler, Fields, acceptArtifact, Nexts, Turn, R

LEMMA RecordingFailsTurn ==
  ASSUME Handlers, NEW w \in Workers, recordingFails(w)
  PROVE  Nexts(w) /\ worker'[w].seen = worker[w].seen
BY DEF Handlers, Handler, Fields, recordingFails, Nexts, Turn, R

LEMMA PromotionFailsTurn ==
  ASSUME Handlers, NEW w \in Workers, PromotionFails(w)
  PROVE  Nexts(w) /\ worker'[w].seen = 0
BY DEF Handlers, Handler, Fields, PromotionFails, Nexts, Turn, R

LEMMA StartArtifactTurn ==
  ASSUME Handlers, NEW w \in Workers, startArtifact(w)
  PROVE  Goes(w, {"process"}) /\ worker'[w].seen = worker[w].seen
BY DEF Handlers, Handler, Fields, startArtifact, Goes, Turn, R, Goto, Scans

LEMMA ProcessSecurityArtifactTurn ==
  ASSUME Handlers, NEW w \in Workers, processSecurityArtifact(w)
  PROVE  Goes(w, {"import"}) /\ worker'[w].seen = worker[w].seen
BY DEF Handlers, Handler, Fields, processSecurityArtifact, Goes, Turn, R, Goto, Scans

LEMMA ProcessImageRescanArtifactTurn ==
  ASSUME Handlers, NEW w \in Workers, processImageRescanArtifact(w)
  PROVE  Goes(w, {"freeze"}) /\ worker'[w].seen = worker[w].seen
BY DEF Handlers, Handler, Fields, processImageRescanArtifact, Goes, Turn, R, Goto, Scans

LEMMA RecordFreezeTurn ==
  ASSUME Handlers, NEW w \in Workers, recordFreeze(w)
  PROVE  Goes(w, {"import"}) /\ worker'[w].seen = worker[w].seen
BY DEF Handlers, Handler, Fields, recordFreeze, Goes, Turn, R, Goto, Scans

LEMMA ProcessDastArtifactTurn ==
  ASSUME Handlers, NEW w \in Workers, processDastArtifact(w)
  PROVE  Goes(w, {"import"}) /\ worker'[w].seen = worker[w].seen
BY DEF Handlers, Handler, Fields, processDastArtifact, Goes, Turn, R, Goto, Scans

LEMMA EnsureImportContextTurn ==
  ASSUME Handlers, NEW w \in Workers, ensureImportContext(w)
  PROVE  Goes(w, {"post"}) /\ worker'[w].seen = worker[w].seen
BY DEF Handlers, Handler, Fields, ensureImportContext, Goes, Turn, R, At

LEMMA MaybeImportToDefectDojoTurn ==
  ASSUME Handlers, NEW w \in Workers, maybeImportToDefectDojo(w)
  PROVE  Goes(w, {"import"}) /\ worker'[w].seen = worker[w].seen
BY DEF Handlers, Handler, Fields, maybeImportToDefectDojo, Goes, Turn, R, At

LEMMA EnforceReleaseGateTurn ==
  ASSUME Handlers, NEW w \in Workers, enforceReleaseGate(w)
  PROVE  Goes(w, {"decide"}) /\ worker'[w].seen = worker[w].seen
BY DEF Handlers, Handler, Fields, enforceReleaseGate, Goes, Turn, R, Goto, Scans

LEMMA GetAppTurn ==
  ASSUME Handlers, NEW w \in Workers, getApp(w)
  PROVE  Goes(w, {"probe", "poll", "put"}) /\ worker'[w].seen = worker[w].seen
BY DEF Handlers, Handler, Fields, getApp, Goes, Turn, R, Goto, Scans

LEMMA PutAppTurn ==
  ASSUME Handlers, NEW w \in Workers, putApp(w)
  PROVE  Goes(w, {"poll"}) /\ worker'[w].seen = worker[w].seen
BY DEF Handlers, Handler, Fields, putApp, Goes, Turn, R, Goto, Scans

LEMMA PollTurn ==
  ASSUME Handlers, NEW w \in Workers, poll(w)
  PROVE  Goes(w, {"probe"}) /\ worker'[w].seen = worker[w].seen
BY DEF Handlers, Handler, Fields, poll, Goes, Turn, R, Goto, Scans

LEMMA ProbeTurn ==
  ASSUME Handlers, NEW w \in Workers, probe(w)
  PROVE  Goes(w, {"record"}) /\ worker'[w].seen = bound.clock + 1
BY DEF Handlers, Handler, Fields, probe, Goes, Turn, R, Goto, Scans

LEMMA RecordDeploymentTurn ==
  ASSUME Handlers, NEW w \in Workers, recordDeployment(w)
  PROVE  Goes(w, {"import"}) /\ worker'[w].seen = 0
BY DEF Handlers, Handler, Fields, recordDeployment, Goes, Turn, R, Goto, Scans

-----------------------------------------------------------------------------
(* Handlers stay well formed. *)

(* What the phase of a handler says of its run and of what it has to do. *)
LEMMA Busy ==
  ASSUME Handlers, NEW w \in Workers, worker[w].pc # "idle"
  PROVE  /\ R(w) \in Runs /\ worker[w].seen \in Nat
         /\ worker[w].pc # "validate" => worker[w].todo \in Remaining(R(w))
         /\ worker[w].pc \notin {"validate", "next"} => worker[w].todo # <<>> /\ Current(w) \in Types
         /\ worker[w].pc \in Late => /\ R(w) \in Pushes /\ worker[w].todo = <<"image-promotion">>
                                     /\ Current(w) = "image-promotion"
<1>1. /\ R(w) \in Runs /\ worker[w].seen \in Nat
      /\ worker[w].pc # "validate" => worker[w].todo \in Remaining(R(w))
      /\ worker[w].pc \notin {"validate", "next"} => worker[w].todo # <<>>
      /\ worker[w].pc \in Late => R(w) \in Pushes /\ worker[w].todo = <<"image-promotion">>
  BY DEF Handlers, Handler, R
<1>2. Head(<<"image-promotion">>) = "image-promotion"
  OBVIOUS
<1> QED BY <1>1, <1>2, RemainingFacts DEF Current, Late, Promoting

LEMMA PromotionFailsHandlers ==
  ASSUME Handlers, NEW w \in Workers, worker[w].pc \in Late, PromotionFails(w)
  PROVE  Handlers'
BY PromotionFailsTurn, NextsHandlers, Busy DEF Late, Promoting

LEMMA ProcessImageArtifactTurn ==
  ASSUME Handlers, NEW w \in Workers, processImageArtifact(w)
  PROVE  /\ worker'[w].seen = worker[w].seen
         /\ \/ Current(w) = "image-validation" /\ Goes(w, {"import"})
            \/ Current(w) = "image-promotion" /\ Goes(w, {"promote"})
BY DEF Handlers, Handler, Fields, processImageArtifact, Goes, Turn, R, Goto, Scans

LEMMA HandlersStep ==
  ASSUME Typed, NEW w \in Workers, Step(w)
  PROVE  Handlers'
<1> USE DEF Typed
<1>a. bound.clock + 1 \in Nat
  BY DEF Stored, Bounds
<1>1. CASE \E r \in Runs : begin(w, r)
  BY <1>1, BeginTurn DEF Handlers, Turn, Handler, Phases, Late, Promoting
<1>2. CASE validate(w)
  <2>1. R(w) \in Runs /\ worker[w].seen \in Nat
    BY <1>2, Busy DEF validate, At
  <2> QED BY <1>2, <2>1, ValidateTurn, ExpectedFacts DEF Handlers, Turn, Handler, Phases, Late, Promoting
<1>3. CASE rejectRun(w) \/ missingArtifacts(w) \/ handlerThrows(w) \/ finishRun(w) \/ promoterDies(w)
  BY <1>3, RejectRunTurn, MissingArtifactsTurn, HandlerThrowsTurn, FinishRunTurn, PromoterDiesTurn,
     LeavesHandlers
<1>4. CASE rejectMetadata(w)
  <2>1. worker[w].pc = "next" /\ worker[w].todo # <<>>
    BY <1>4 DEF rejectMetadata, At
  <2> QED BY <1>4, <2>1, RejectMetadataTurn, NextsHandlers, Busy
<1>5. CASE rejectArtifact(w) \/ recordingFails(w) \/ importFails(w) \/ acceptArtifact(w)
  <2>1. worker[w].pc \in Working
    BY <1>5 DEF rejectArtifact, recordingFails, importFails, acceptArtifact, At, Working
  <2> QED BY <1>5, <2>1, RejectArtifactTurn, RecordingFailsTurn, ImportFailsTurn, AcceptArtifactTurn,
            NextsHandlers, Busy DEF Working
<1>6. CASE startArtifact(w)
  <2>1. worker[w].pc = "next" /\ worker[w].todo # <<>>
    BY <1>6 DEF startArtifact, At
  <2> QED BY <1>6, <2>1, StartArtifactTurn, GoesHandlers, Busy DEF Working
<1>7. CASE \/ processSecurityArtifact(w) \/ processImageRescanArtifact(w) \/ processDastArtifact(w)
           \/ recordFreeze(w) \/ ensureImportContext(w) \/ maybeImportToDefectDojo(w)
  <2>1. worker[w].pc \in Working
    BY <1>7 DEF processSecurityArtifact, processImageRescanArtifact, processDastArtifact,
             recordFreeze, ensureImportContext, maybeImportToDefectDojo, At, Working
  <2> QED BY <1>7, <2>1, ProcessSecurityArtifactTurn, ProcessImageRescanArtifactTurn,
            ProcessDastArtifactTurn, RecordFreezeTurn, EnsureImportContextTurn,
            MaybeImportToDefectDojoTurn, GoesHandlers, Busy DEF Working
<1>8. CASE processImageArtifact(w)
  <2>1. worker[w].pc = "process"
    BY <1>8 DEF processImageArtifact, At
  <2>2. R(w) \in Runs /\ worker[w].seen \in Nat /\ worker[w].todo \in Remaining(R(w)) /\ worker[w].todo # <<>>
    BY <2>1, Busy
  <2>3. Current(w) = "image-promotion" => R(w) \in Pushes /\ worker[w].todo = <<"image-promotion">>
    BY <2>2, RemainingFacts DEF Current
  <2>4. CASE Goes(w, {"import"})
    BY <1>8, <2>1, <2>2, <2>4, ProcessImageArtifactTurn, GoesHandlers DEF Working
  <2>5. CASE Current(w) = "image-promotion" /\ Goes(w, {"promote"})
    BY <1>8, <2>1, <2>2, <2>3, <2>5, ProcessImageArtifactTurn, GoesHandlers DEF Late
  <2> QED BY <1>8, <2>4, <2>5, ProcessImageArtifactTurn
<1>9. CASE \/ enforcePromotionFreeze(w) \/ enforceReleaseGate(w) \/ decide(w)
           \/ claimDeploymentPromotion(w) \/ getApp(w) \/ putApp(w) \/ poll(w) \/ promoteFails(w)
           \/ promotionCallFails(w) \/ probe(w) \/ recordDeployment(w)
  <2>1. worker[w].pc \in Late
    BY <1>9 DEF enforcePromotionFreeze, enforceReleaseGate, decide, claimDeploymentPromotion,
       getApp, putApp, poll, promoteFails, promotionCallFails, probe, recordDeployment, At, Late, Promoting
  <2>2. /\ worker[w].pc \notin {"idle", "validate", "next"} /\ worker[w].seen \in Nat
        /\ R(w) \in Pushes /\ worker[w].todo = <<"image-promotion">> /\ worker[w].todo # <<>>
    BY <2>1, Busy DEF Late, Promoting
  <2>3. CASE PromotionFails(w)
    BY <2>1, <2>3, PromotionFailsHandlers
  <2>4. ASSUME NEW pcs, Goes(w, pcs), pcs \subseteq Late \cup {"import"}, worker'[w].seen \in Nat
        PROVE  Handlers'
    BY <2>2, <2>4, GoesHandlers
  <2>5. CASE enforcePromotionFreeze(w) /\ ~PromotionFails(w)
    <3>1. Goes(w, {"gate", "claim"}) /\ worker'[w].seen = worker[w].seen
      BY <2>2, <2>5 DEF enforcePromotionFreeze, Handlers, Handler, Fields, Goes, Turn, R, Goto
    <3> QED BY <2>2, <2>4, <3>1 DEF Late, Promoting
  <2>6. CASE decide(w) /\ ~PromotionFails(w)
    <3>1. Goes(w, {"claim"}) /\ worker'[w].seen = worker[w].seen
      BY <2>2, <2>6 DEF decide, Handlers, Handler, Fields, Goes, Turn, R
    <3> QED BY <2>2, <2>4, <3>1 DEF Late, Promoting
  <2>7. CASE claimDeploymentPromotion(w) /\ ~PromotionFails(w)
    <3>1. Goes(w, {"get"}) /\ worker'[w].seen = worker[w].seen
      BY <2>2, <2>7 DEF claimDeploymentPromotion, Handlers, Handler, Fields, Goes, Turn, R, Goto
    <3> QED BY <2>2, <2>4, <3>1 DEF Late, Promoting
  <2>8. CASE enforceReleaseGate(w) \/ getApp(w) \/ putApp(w) \/ poll(w) \/ probe(w) \/ recordDeployment(w)
    BY <1>a, <2>2, <2>4, <2>8, EnforceReleaseGateTurn, GetAppTurn, PutAppTurn, PollTurn, ProbeTurn,
       RecordDeploymentTurn DEF Late, Promoting
  <2>9. CASE promoteFails(w) \/ promotionCallFails(w)
    BY <2>3, <2>9 DEF promoteFails, promotionCallFails
  <2> QED BY <1>9, <2>3, <2>5, <2>6, <2>7, <2>8, <2>9
<1> QED BY <1>1, <1>2, <1>3, <1>4, <1>5, <1>6, <1>7, <1>8, <1>9 DEF Step

-----------------------------------------------------------------------------
(* The tables stay well formed. *)

LEMMA HasSmallest ==
  ASSUME NEW S \in SUBSET Nat, S # {}
  PROVE  \E i \in S : \A j \in S : i <= j
<1> DEFINE Less == OpToRel(<, Nat)
<1>1. IsWellFoundedOn(Less, Nat)
  BY NatLessThanWellFounded
<1>2. \A x, y \in Nat : x < y => <<x, y>> \in Less
  BY DEF OpToRel
<1> HIDE DEF Less
<1>3. \E x \in S : \A y \in S : <<y, x>> \notin Less
  BY <1>1, WFMin
<1>4. \A x, y \in Nat : ~(x < y) => y <= x
  OBVIOUS
<1> QED BY <1>2, <1>3, <1>4

(* Deployments are not newer than the last confirmed, so one is newest. *)
LEMMA NewestDeployed ==
  ASSUME Typed, Confirmed
  PROVE  getLatestDeployedImageEvidence \in Digests \cup {None}
<1>1. CASE Deployments = {}
  BY <1>1 DEF getLatestDeployedImageEvidence
<1>2. CASE Deployments # {}
  <2> DEFINE last == hist.confirmed.at
             Gap == {last - deployment[r].at : r \in Deployments}
  <2>1. last \in Nat /\ \A r \in Deployments : r \in Pushes /\ deployment[r].at \in Nat /\ deployment[r].at <= last
    <3>1. \A r \in Deployments : r \in Pushes
      BY DEF Deployments
    <3>2. \A r \in Pushes : deployment[r].at \in Nat
      BY DEF Typed, Stored, Row
    <3> QED BY <3>1, <3>2 DEF Typed, Stored, History, Confirmed
  <2> HIDE DEF last
  <2>2. Gap \in SUBSET Nat /\ Gap # {}
    <3>1. \A r \in Deployments : last - deployment[r].at \in Nat
      BY <2>1
    <3> QED BY <1>2, <3>1
  <2>3. PICK g \in Gap : \A h \in Gap : g <= h
    BY <2>2, HasSmallest
  <2>4. PICK r \in Deployments : g = last - deployment[r].at
    OBVIOUS
  <2>5. ASSUME NEW q \in Deployments PROVE deployment[q].at <= deployment[r].at
    <3>1. g <= last - deployment[q].at
      BY <2>3
    <3> QED BY <2>1, <2>4, <3>1
  <2> DEFINE newest == CHOOSE x \in Deployments : \A q \in Deployments : deployment[q].at <= deployment[x].at
  <2>6. newest \in Deployments
    BY <2>5
  <2>7. image[newest] \in Digests
    BY <2>1, <2>6 DEF Typed, Given
  <2> QED BY <1>2, <2>7 DEF getLatestDeployedImageEvidence
<1> QED BY <1>1, <1>2

-----------------------------------------------------------------------------
(* What handlers do to the tables. *)

LEMMA FaultBounds ==
  ASSUME bound \in Bounds, Fault
  PROVE  bound' \in Bounds /\ bound'.clock = bound.clock
BY DEF Bounds, Fault

LEMMA PromotionFailsTables ==
  ASSUME Typed, NEW w \in Workers, worker[w].pc \in Late, PromotionFails(w)
  PROVE  /\ deployment' \in [Pushes -> Row] /\ artifact' \in [Runs -> [Types -> RunStatus]]
         /\ deployment'[R(w)].status = "failure" /\ deployment'[R(w)].at = 0
         /\ \A r \in Pushes \ {R(w)} : deployment'[r] = deployment[r]
         /\ \A r \in Runs : artifact'[r]["image-rescan"] = artifact[r]["image-rescan"]
<1>1. R(w) \in Pushes /\ R(w) \in Runs /\ Current(w) = "image-promotion"
  BY Busy DEF Typed, Late, Promoting, Runs
<1> QED BY <1>1 DEF PromotionFails, SetArtifact, Typed, Stored, Row, RunStatus, Types

LEMMA TablesStep ==
  ASSUME Typed, NEW w \in Workers, Step(w)
  PROVE  Given' /\ Stored'
<1> USE DEF given, store, Typed, Given, Stored, RunStatus, Row, Bounds, History
<1>b. /\ bound.tries \in [Runs -> Nat] /\ bound.faults \in Nat /\ bound.clock \in Nat
      /\ bound.clock + 1 \in Nat
  OBVIOUS
<1>1. ASSUME NEW r \in Runs, begin(w, r) PROVE Given' /\ Stored'
  <2>a. bound.tries[r] - 1 \in Nat
    BY <1>1, <1>b DEF begin
  <2>b. [bound.tries EXCEPT ![r] = bound.tries[r] - 1] \in [Runs -> Nat]
    BY <1>b, <2>a
  <2>1. bound' \in Bounds
    BY <1>1, <2>b DEF begin
  <2>2. hist' \in History
    BY <1>1 DEF begin
  <2> QED BY <1>1, <2>1, <2>2 DEF begin
<1>2. CASE validate(w)
  <2>1. R(w) \in Runs
    BY <1>2, Busy DEF validate, At
  <2> QED BY <1>2, <2>1 DEF validate
<1>3. CASE rejectRun(w)
  <2>1. R(w) \in Runs
    BY <1>3, Busy DEF rejectRun, At, Promoting
  <2>2. bound' \in Bounds
    BY <1>3, <2>1, FaultBounds DEF rejectRun
  <2>3. hist' \in History
    BY <1>3, <2>1 DEF rejectRun, At
  <2> QED BY <1>3, <2>1, <2>2, <2>3 DEF rejectRun
<1>4. CASE missingArtifacts(w)
  <2>1. R(w) \in Runs
    BY <1>4, Busy DEF missingArtifacts, At, Promoting
  <2>2. bound' \in Bounds
    BY <1>4, <2>1, FaultBounds DEF missingArtifacts
  <2> QED BY <1>4, <2>1, <2>2 DEF missingArtifacts
<1>5. CASE rejectMetadata(w)
  <2>1. R(w) \in Runs /\ Current(w) \in Types
    BY <1>5, Busy, RemainingFacts DEF rejectMetadata, At, Current
  <2> QED BY <1>5, <2>1 DEF rejectMetadata, SetArtifact
<1>6. CASE startArtifact(w)
  <2>1. R(w) \in Runs /\ Current(w) \in Types
    BY <1>6, Busy, RemainingFacts DEF startArtifact, At, Current
  <2> QED BY <1>6, <2>1 DEF startArtifact, SetArtifact
<1>7. CASE handlerThrows(w)
  <2>1. R(w) \in Runs
    BY <1>7, Busy DEF handlerThrows, At, Promoting
  <2>2. bound' \in Bounds
    BY <1>7, <2>1, FaultBounds DEF handlerThrows
  <2>3. hist' \in History
    BY <1>7, <2>1 DEF handlerThrows, At
  <2> QED BY <1>7, <2>1, <2>2, <2>3 DEF handlerThrows
<1>8. CASE rejectArtifact(w)
  <2>1. R(w) \in Runs /\ Current(w) \in Types
    BY <1>8, Busy DEF rejectArtifact, At
  <2> QED BY <1>8, <2>1 DEF rejectArtifact, SetArtifact, Record
<1>9. CASE processSecurityArtifact(w)
  <2>1. R(w) \in Runs
    BY <1>9, Busy DEF processSecurityArtifact, At
  <2> QED BY <1>9, <2>1 DEF processSecurityArtifact, Record
<1>10. CASE processImageArtifact(w)
  <2>1. R(w) \in Runs
    BY <1>10, Busy DEF processImageArtifact, At
  <2> QED BY <1>10, <2>1 DEF processImageArtifact, Record
<1>11. CASE processImageRescanArtifact(w)
  <2>1. R(w) \in Runs
    BY <1>11, Busy DEF processImageRescanArtifact, At, Promoting
  <2>2. bound' \in Bounds
    BY <1>11, <1>b DEF processImageRescanArtifact
  <2> QED BY <1>11, <2>1, <2>2 DEF processImageRescanArtifact, Record
<1>12. CASE processDastArtifact(w)
  <2>1. R(w) \in Runs
    BY <1>12, Busy DEF processDastArtifact, At
  <2> QED BY <1>12, <2>1 DEF processDastArtifact, Record
<1>13. CASE maybeImportToDefectDojo(w)
  <2>1. R(w) \in Runs
    BY <1>13, Busy DEF maybeImportToDefectDojo, At, Promoting
  <2>2. bound' \in Bounds
    <3>1. PICK n \in 1..2 : /\ n = 2 => bound.faults > 0
                           /\ bound' = [bound EXCEPT !.faults = @ - (n - 1)]
      BY <1>13 DEF maybeImportToDefectDojo
    <3>2. bound.faults - (n - 1) \in Nat
      BY <1>b, <3>1
    <3> QED BY <3>1, <3>2
  <2>3. hist' \in History
    BY <1>13, <2>1 DEF maybeImportToDefectDojo, Deciding
  <2> QED BY <1>13, <2>1, <2>2, <2>3 DEF maybeImportToDefectDojo
<1>14. CASE importFails(w)
  <2>1. R(w) \in Runs /\ Current(w) \in Types
    BY <1>14, Busy DEF importFails, At, Promoting
  <2>2. bound' \in Bounds
    BY <1>14, <2>1, FaultBounds DEF importFails
  <2>3. hist' \in History
    BY <1>14, <2>1 DEF importFails, Deciding
  <2> QED BY <1>14, <2>1, <2>2, <2>3 DEF importFails, SetArtifact
<1>15. CASE acceptArtifact(w)
  <2>1. R(w) \in Runs /\ Current(w) \in Types
    BY <1>15, Busy DEF acceptArtifact, At
  <2> QED BY <1>15, <2>1 DEF acceptArtifact, SetArtifact
<1>16. CASE finishRun(w)
  <2>1. R(w) \in Runs
    BY <1>16, Busy DEF finishRun, At
  <2> QED BY <1>16, <2>1 DEF finishRun
<1>17. CASE enforcePromotionFreeze(w)
  <2>1. worker[w].pc \in Late
    BY <1>17 DEF enforcePromotionFreeze, At, Late, Promoting
  <2>2. PromotionFails(w) \/ UNCHANGED <<deployment, artifact>>
    BY <1>17 DEF enforcePromotionFreeze
  <2> QED BY <1>17, <2>1, <2>2, PromotionFailsTables DEF enforcePromotionFreeze
<1>18. CASE enforceReleaseGate(w)
  BY <1>18 DEF enforceReleaseGate
<1>19. CASE decide(w)
  <2>1. worker[w].pc \in Late
    BY <1>19 DEF decide, At, Late, Promoting
  <2>2. PromotionFails(w) \/ UNCHANGED <<deployment, artifact>>
    BY <1>19 DEF decide
  <2>3. hist' \in History
    BY <1>19 DEF decide, Forget
  <2> QED BY <1>19, <2>1, <2>2, <2>3, PromotionFailsTables DEF decide
<1>20. CASE claimDeploymentPromotion(w)
  <2>1. worker[w].pc \in Late
    BY <1>20 DEF claimDeploymentPromotion, At, Late, Promoting
  <2>2. PromotionFails(w) \/ UNCHANGED <<deployment, artifact>>
    BY <1>20 DEF claimDeploymentPromotion
  <2> QED BY <1>20, <2>1, <2>2, PromotionFailsTables DEF claimDeploymentPromotion
<1>21. CASE getApp(w)
  BY <1>21 DEF getApp
<1>22. CASE putApp(w)
  BY <1>22 DEF putApp
<1>23. CASE poll(w)
  BY <1>23 DEF poll
<1>24. CASE promoteFails(w)
  <2>1. worker[w].pc \in Late
    BY <1>24 DEF promoteFails, At, Late, Promoting
  <2>2. PromotionFails(w) \/ UNCHANGED <<deployment, artifact>>
    BY <1>24 DEF promoteFails
  <2>3. bound' \in Bounds
    BY <1>24, FaultBounds DEF promoteFails
  <2> QED BY <1>24, <2>1, <2>2, <2>3, PromotionFailsTables DEF promoteFails
<1>25. CASE promoterDies(w)
  BY <1>25 DEF promoterDies, Fault
<1>26. CASE probe(w)
  <2>1. R(w) \in Pushes /\ worker[w].seen \in Nat
    BY <1>26, Busy DEF probe, At, Promoting, Late, Types, Runs
  <2>2. bound' \in Bounds
    BY <1>26, <1>b DEF probe
  <2>3. hist' \in History
    <3>1. /\ hist' = [hist EXCEPT !.confirmed = [run |-> R(w), at |-> bound.clock + 1, written |-> FALSE]]
          /\ [run |-> R(w), at |-> bound.clock + 1, written |-> FALSE] \in
               [run : Pushes \cup {None}, at : Nat, written : BOOLEAN]
      BY <1>26, <1>b, <2>1 DEF probe
    <3> QED BY <3>1
  <2> QED BY <1>26, <2>1, <2>2, <2>3 DEF probe
<1>27. CASE recordDeployment(w)
  <2>1. R(w) \in Pushes /\ R(w) \in Runs /\ Current(w) \in Types /\ worker[w].seen \in Nat
    BY <1>27, Busy DEF recordDeployment, At, Late, Types, Runs, Promoting
  <2> QED BY <1>27, <2>1 DEF recordDeployment
<1>28. CASE recordingFails(w)
  <2>1. R(w) \in Runs /\ Current(w) \in Types
    BY <1>28, Busy DEF recordingFails, At
  <2>2. bound' \in Bounds
    BY <1>28, <2>1, FaultBounds DEF recordingFails
  <2> QED BY <1>28, <2>1, <2>2 DEF recordingFails, SetArtifact, Record
<1>29. CASE recordFreeze(w)
  <2>1. R(w) \in Runs
    BY <1>29, Busy DEF recordFreeze, At
  <2> QED BY <1>29, <2>1 DEF recordFreeze, Record
<1>30. CASE ensureImportContext(w)
  BY <1>30 DEF ensureImportContext
<1>31. CASE promotionCallFails(w)
  <2>1. worker[w].pc \in Late /\ PromotionFails(w)
    BY <1>31 DEF promotionCallFails, At, Late, Promoting
  <2>2. bound' \in Bounds
    BY <1>31, FaultBounds DEF promotionCallFails
  <2>3. hist' \in History
    BY <1>31 DEF promotionCallFails, Forget
  <2> QED BY <1>31, <2>1, <2>2, <2>3, PromotionFailsTables DEF promotionCallFails
<1> QED BY <1>1, <1>2, <1>3, <1>4, <1>5, <1>6, <1>7, <1>8, <1>9, <1>10, <1>11, <1>12, <1>13, <1>14, <1>15, <1>16,
     <1>17, <1>18, <1>19, <1>20, <1>21, <1>22, <1>23, <1>24, <1>25, <1>26, <1>27, <1>28, <1>29, <1>30, <1>31 DEF Step

-----------------------------------------------------------------------------
(* The others: the rescan job, the gate, people, the provider and the clock *)
(* of the lease.                                                            *)

Outside ==
  \/ \E r \in Schedules : resolve(r)
  \/ \E r \in Pushes : checkReads(r)
  \/ checkDecides \/ triage \/ deployed \/ leaseExpires

LEMMA OutsideStep ==
  ASSUME Typed, Confirmed, Outside
  PROVE  /\ Typed'
         /\ UNCHANGED <<worker, image, report, run, artifact, evidence, deployment, rescanAt>>
         /\ bound'.clock = bound.clock
         /\ hist'.confirmed = hist.confirmed /\ hist'.frozen = hist.frozen /\ hist'.torn = hist.torn
<1> DEFINE Untouched == UNCHANGED <<worker, image, report, run, artifact, evidence, deployment, rescanAt>>
           Same == hist'.confirmed = hist.confirmed /\ hist'.frozen = hist.frozen /\ hist'.torn = hist.torn
<1>1. Untouched
  BY DEF Outside, resolve, checkReads, checkDecides, triage, deployed, leaseExpires, given, store
<1>2. bound' \in Bounds /\ bound'.clock = bound.clock
  <2>1. bound \in Bounds
    BY DEF Typed, Stored
  <2>2. CASE UNCHANGED bound
    BY <2>1, <2>2
  <2>3. CASE Fault
    BY <2>1, <2>3, FaultBounds
  <2>4. CASE bound.checks > 0 /\ bound' = [bound EXCEPT !.checks = @ - 1]
    BY <2>1, <2>4 DEF Bounds
  <2>5. CASE bound.triage > 0 /\ bound' = [bound EXCEPT !.triage = @ - 1]
    BY <2>1, <2>5 DEF Bounds
  <2> QED BY <2>2, <2>3, <2>4, <2>5 DEF Outside, resolve, checkReads, checkDecides, triage, deployed, leaseExpires
<1>3. hist' \in History /\ Same
  <2>1. hist \in History
    BY DEF Typed, Stored
  <2>2. CASE UNCHANGED hist
    BY <2>1, <2>2
  <2>3. CASE hist' = [hist EXCEPT !.moved = Deciding]
    BY <2>1, <2>3 DEF History, Deciding
  <2>4. CASE hist' = [hist EXCEPT !.moved = @ \ {"check"}]
    BY <2>1, <2>4 DEF History
  <2> QED BY <2>2, <2>3, <2>4 DEF Outside, resolve, checkReads, checkDecides, triage, deployed, leaseExpires, Forget
<1>4. (target \in [Schedules -> Digests \cup {None}])'
  <2>1. UNCHANGED target \/ \E r \in Schedules : resolve(r)
    BY DEF Outside, checkReads, checkDecides, triage, deployed, leaseExpires
  <2> QED BY <2>1, NewestDeployed DEF resolve, Typed, Stored
<1> QED BY <1>1, <1>2, <1>3, <1>4 DEF Typed, Given, Stored, Handlers

LEMMA TypedStep ==
  ASSUME Typed, Confirmed, [Next]_vars
  PROVE  Typed'
<1>1. ASSUME NEW w \in Workers, Step(w) PROVE Typed'
  BY <1>1, TablesStep, HandlersStep DEF Typed
<1>2. CASE Outside
  BY <1>2, OutsideStep
<1>3. CASE UNCHANGED vars
  BY <1>3 DEF vars, given, Typed, Given, Stored, Handlers
<1> QED BY <1>1, <1>2, <1>3 DEF Next, Outside

LEMMA InitFacts ==
  ASSUME Init
  PROVE  Typed /\ Confirmed
<1>1. PICK s \in Scenarios :
        /\ image = s.image /\ report = s.report
        /\ bound = [tries |-> s.tries, faults |-> s.faults, triage |-> s.triage,
                    checks |-> s.checks, clock |-> 0]
  BY DEF Init
<1>2. s \in [image : [Pushes -> Digests], report : [Runs -> Report], tries : [Runs -> Nat],
             faults : Nat, triage : Nat, checks : Nat]
  BY ChainAssumption
<1>3. Given /\ bound \in Bounds /\ bound.clock = 0
  BY <1>1, <1>2 DEF Given, Bounds
<1>4. hist \in History /\ hist.confirmed.at = 0 /\ ~hist.confirmed.written
  BY DEF Init, History
<1>5. Handlers /\ \A w \in Workers : worker[w].seen = 0
  BY IdleFacts DEF Init, Handlers
<1>6. Stored
  BY <1>3, <1>4 DEF Init, Stored, Row, RunStatus
<1>7. Confirmed
  BY <1>3, <1>4, <1>5 DEF Init, Confirmed
<1> QED BY <1>3, <1>5, <1>6, <1>7 DEF Typed

-----------------------------------------------------------------------------
(* The record follows what was confirmed last. *)

(* A step that confirms nothing, and at most forgets what a handler saw and *)
(* what a row tells.                                                        *)
LEMMA NothingConfirmed ==
  ASSUME Typed, Typed', Confirmed, bound.clock <= bound'.clock, hist'.confirmed = hist.confirmed,
         \A w \in Workers : worker'[w].seen \in {worker[w].seen, 0},
         \A r \in Pushes : \/ deployment'[r] = deployment[r]
                            \/ (deployment'[r].at = 0 /\ deployment'[r].status = "failure")
  PROVE  Confirmed'
<1>1. hist.confirmed.at \in Nat /\ bound.clock \in Nat /\ bound'.clock \in Nat
  BY DEF Typed, Stored, History, Bounds
<1>2. hist.confirmed.at <= bound'.clock
  BY <1>1 DEF Confirmed
<1>3. \A r \in Pushes : deployment'[r].at <= hist.confirmed.at
  BY <1>1 DEF Confirmed
<1>4. \A w \in Workers : worker'[w].seen <= hist.confirmed.at
  BY <1>1 DEF Confirmed
<1> QED BY <1>2, <1>3, <1>4 DEF Confirmed, Last

LEMMA SeenStep ==
  ASSUME Handlers, NEW w \in Workers, Step(w), ~probe(w)
  PROVE  Turn(w) /\ \A v \in Workers : worker'[v].seen \in {worker[v].seen, 0}
<1> SUFFICES Turn(w) /\ Seen(w)
  BY DEF Turn, Seen
<1>1. CASE (\E r \in Runs : begin(w, r)) \/ validate(w)
  BY <1>1, BeginTurn, ValidateTurn DEF Seen
<1>2. CASE rejectRun(w) \/ missingArtifacts(w) \/ handlerThrows(w) \/ finishRun(w) \/ promoterDies(w)
  BY <1>2, RejectRunTurn, MissingArtifactsTurn, HandlerThrowsTurn, FinishRunTurn, PromoterDiesTurn,
     LeavesHandlers DEF Leaves
<1>3. CASE rejectMetadata(w) \/ rejectArtifact(w) \/ recordingFails(w) \/ importFails(w) \/ acceptArtifact(w)
  BY <1>3, RejectMetadataTurn, RejectArtifactTurn, RecordingFailsTurn, ImportFailsTurn, AcceptArtifactTurn
     DEF Nexts, Seen
<1>4. CASE \/ startArtifact(w) \/ processSecurityArtifact(w) \/ processImageArtifact(w)
           \/ processImageRescanArtifact(w) \/ recordFreeze(w) \/ processDastArtifact(w)
           \/ ensureImportContext(w) \/ maybeImportToDefectDojo(w)
  BY <1>4, StartArtifactTurn, ProcessSecurityArtifactTurn, ProcessImageArtifactTurn,
     ProcessImageRescanArtifactTurn, RecordFreezeTurn, ProcessDastArtifactTurn, EnsureImportContextTurn,
     MaybeImportToDefectDojoTurn DEF Goes, Seen
<1>5. CASE PromotionFails(w)
  BY <1>5, PromotionFailsTurn DEF Nexts, Seen
<1>6. CASE enforceReleaseGate(w) \/ getApp(w) \/ putApp(w) \/ poll(w) \/ recordDeployment(w)
  BY <1>6, EnforceReleaseGateTurn, GetAppTurn, PutAppTurn, PollTurn, RecordDeploymentTurn DEF Goes, Seen
<1>7. CASE /\ enforcePromotionFreeze(w) \/ decide(w) \/ claimDeploymentPromotion(w)
           /\ ~PromotionFails(w)
  BY <1>7 DEF enforcePromotionFreeze, decide, claimDeploymentPromotion, Goto, Handlers, Handler, Fields,
     Turn, Seen
<1>8. CASE promoteFails(w) \/ promotionCallFails(w)
  BY <1>5, <1>8 DEF promoteFails, promotionCallFails
<1> QED BY <1>1, <1>2, <1>3, <1>4, <1>5, <1>6, <1>7, <1>8 DEF Step

LEMMA DeploymentStep ==
  ASSUME Handlers, NEW w \in Workers, Step(w), ~recordDeployment(w)
  PROVE  UNCHANGED deployment \/ (worker[w].pc \in Late /\ PromotionFails(w))
<1>1. CASE \/ enforcePromotionFreeze(w) \/ decide(w) \/ claimDeploymentPromotion(w) \/ promoteFails(w)
           \/ promotionCallFails(w)
  BY <1>1 DEF enforcePromotionFreeze, decide, claimDeploymentPromotion, promoteFails, promotionCallFails, At, Late
<1>2. CASE ~( \/ enforcePromotionFreeze(w) \/ decide(w) \/ claimDeploymentPromotion(w)
              \/ promoteFails(w) \/ promotionCallFails(w))
  BY <1>2 DEF Step, begin, validate, rejectRun, missingArtifacts, rejectMetadata,
       startArtifact, handlerThrows, rejectArtifact, processSecurityArtifact, processImageArtifact,
       processImageRescanArtifact, recordFreeze, recordingFails,
       processDastArtifact, ensureImportContext, maybeImportToDefectDojo, importFails,
       acceptArtifact, finishRun, enforceReleaseGate, getApp, putApp, poll, promoterDies, probe, store
<1> QED BY <1>1, <1>2

LEMMA ConfirmedStep ==
  ASSUME Typed, Typed', Confirmed, NEW w \in Workers, Step(w)
  PROVE  Confirmed'
<1>h. Handlers
  BY DEF Typed
<1>b. bound \in Bounds /\ hist \in History /\ bound.clock \in Nat
  BY DEF Typed, Stored, Bounds
<1>1. CASE probe(w)
  <2>1. /\ bound'.clock = bound.clock + 1 /\ bound'.clock \in Nat
        /\ hist'.confirmed = [run |-> R(w), at |-> bound.clock + 1, written |-> FALSE]
        /\ UNCHANGED deployment
    BY <1>1, <1>b DEF probe, store, Bounds, History
  <2>2. \A v \in Workers : worker'[v].seen <= bound.clock + 1
    <3>1. worker'[w].seen = bound.clock + 1 /\ \A v \in Workers \ {w} : worker'[v].seen = worker[v].seen
      BY <1>1, <1>h, ProbeTurn DEF Goes, Turn
    <3>2. \A v \in Workers : worker[v].seen \in Nat /\ worker[v].seen <= bound.clock
      <4>1. \A v \in Workers : worker[v].seen \in Nat
        BY <1>h DEF Handlers, Handler
      <4> QED BY <1>b, <4>1 DEF Confirmed, History
    <3> QED BY <1>b, <3>1, <3>2
  <2>3. \A r \in Pushes : deployment[r].at <= bound.clock + 1
    <3>1. \A r \in Pushes : deployment[r].at \in Nat
      BY DEF Typed, Stored, Row
    <3> QED BY <1>b, <3>1 DEF Confirmed, History
  <2> QED BY <1>b, <2>1, <2>2, <2>3 DEF Confirmed
<1>2. CASE recordDeployment(w)
  <2>1. worker[w].pc \in Late
    BY <1>2 DEF recordDeployment, At, Late
  <2>2. R(w) \in Pushes
    BY <1>h, <2>1, Busy DEF Late, Promoting
  <2>3. /\ bound' = bound /\ hist'.confirmed.run = hist.confirmed.run /\ hist'.confirmed.at = hist.confirmed.at
        /\ R(w) = hist.confirmed.run =>
             (hist'.confirmed.written <=> worker[w].seen = hist.confirmed.at)
        /\ R(w) # hist.confirmed.run => hist'.confirmed.written = hist.confirmed.written
    BY <1>2, <1>b DEF recordDeployment, History
  <2>4. /\ deployment'[R(w)] = [status |-> "success", at |-> worker[w].seen]
        /\ \A r \in Pushes \ {R(w)} : deployment'[r] = deployment[r]
    BY <1>2, <2>2 DEF recordDeployment, Typed, Stored
  <2>5. \A v \in Workers : worker'[v].seen <= hist.confirmed.at
    <3>1. worker'[w].seen = 0 /\ \A v \in Workers \ {w} : worker'[v].seen = worker[v].seen
      BY <1>2, <1>h, RecordDeploymentTurn DEF Goes, Turn
    <3> QED BY <1>b, <3>1 DEF Confirmed, History
  <2>6. \A r \in Pushes : deployment'[r].at <= hist.confirmed.at
    BY <2>4 DEF Confirmed
  <2>7. hist'.confirmed.written => hist.confirmed.run \in Pushes
    BY <2>2, <2>3 DEF Confirmed, Last
  <2>8. hist'.confirmed.written /\ deployment'[hist.confirmed.run].status = "success" =>
          deployment'[hist.confirmed.run].at = hist.confirmed.at
    <3>1. CASE R(w) = hist.confirmed.run
      BY <2>3, <2>4, <3>1
    <3>2. CASE R(w) # hist.confirmed.run
      <4>1. hist'.confirmed.written => deployment'[hist.confirmed.run] = deployment[hist.confirmed.run]
        BY <2>4, <2>7, <3>2
      <4> QED BY <2>3, <3>2, <4>1 DEF Confirmed, Last
    <3> QED BY <3>1, <3>2
  <2> QED BY <2>3, <2>5, <2>6, <2>7, <2>8 DEF Confirmed, Last
<1>3. CASE ~probe(w) /\ ~recordDeployment(w)
  <2>1. hist'.confirmed = hist.confirmed
    <3>1. hist \in History
      BY <1>b
    <3> QED BY <1>3, <3>1 DEF Step, begin, validate, rejectRun, missingArtifacts, rejectMetadata,
       startArtifact, handlerThrows, rejectArtifact, processSecurityArtifact, processImageArtifact,
       processImageRescanArtifact, recordFreeze, recordingFails,
       processDastArtifact, ensureImportContext, maybeImportToDefectDojo, importFails,
       acceptArtifact, finishRun, enforcePromotionFreeze, enforceReleaseGate, decide, Forget,
       claimDeploymentPromotion, getApp, putApp, poll, promoteFails, promotionCallFails, promoterDies, History
  <2>2. bound.clock <= bound'.clock
    <3>1. bound'.clock = bound.clock \/ bound'.clock = bound.clock + 1
      BY <1>3, <1>b, FaultBounds DEF Step, begin, validate, rejectRun, missingArtifacts, rejectMetadata,
       startArtifact, handlerThrows, rejectArtifact, processSecurityArtifact, processImageArtifact,
       processImageRescanArtifact, recordFreeze, recordingFails,
       processDastArtifact, ensureImportContext, maybeImportToDefectDojo, importFails,
       acceptArtifact, finishRun, enforcePromotionFreeze, enforceReleaseGate, decide,
       claimDeploymentPromotion, getApp, putApp, poll, promoteFails, promotionCallFails, promoterDies, Bounds
    <3> QED BY <1>b, <3>1
  <2>3. \A v \in Workers : worker'[v].seen \in {worker[v].seen, 0}
    BY <1>3, <1>h, SeenStep
  <2>4. \A r \in Pushes : \/ deployment'[r] = deployment[r]
                          \/ (deployment'[r].at = 0 /\ deployment'[r].status = "failure")
    <3>1. CASE UNCHANGED deployment
      BY <3>1
    <3>2. CASE worker[w].pc \in Late /\ PromotionFails(w)
      <4> TAKE r \in Pushes
      <4>1. deployment'[R(w)].status = "failure" /\ deployment'[R(w)].at = 0
        BY <3>2, PromotionFailsTables
      <4>2. r # R(w) => deployment'[r] = deployment[r]
        BY <3>2, PromotionFailsTables
      <4> QED BY <4>1, <4>2
    <3> QED BY <1>3, <1>h, <3>1, <3>2, DeploymentStep
  <2> QED BY <2>1, <2>2, <2>3, <2>4, NothingConfirmed
<1> QED BY <1>1, <1>2, <1>3

LEMMA ConfirmedNext ==
  ASSUME Typed, Confirmed, [Next]_vars
  PROVE  Confirmed'
<1>0. Typed'
  BY TypedStep
<1>1. ASSUME NEW w \in Workers, Step(w) PROVE Confirmed'
  BY <1>0, <1>1, ConfirmedStep
<1>2. CASE Outside
  <2>1. /\ UNCHANGED <<worker, deployment>> /\ bound'.clock = bound.clock
        /\ hist'.confirmed = hist.confirmed
    BY <1>2, OutsideStep
  <2> QED BY <2>1 DEF Confirmed, Last
<1>3. CASE UNCHANGED vars
  BY <1>3 DEF vars, Confirmed, Last
<1> QED BY <1>1, <1>2, <1>3 DEF Next, Outside

(* store.ts:3309: the newest accepted deployment on record is the one that  *)
(* was confirmed last, once the handler that confirmed it has written it.   *)
THEOREM RecordFollowsConfirmationTheorem == Spec => []RecordFollowsConfirmation
<1>1. Typed /\ Confirmed => RecordFollowsConfirmation
  BY DEF Typed, Confirmed, Last, RecordFollowsConfirmation
<1>2. (Typed /\ Confirmed) /\ [Next]_vars => (Typed /\ Confirmed)'
  BY TypedStep, ConfirmedNext
<1> QED BY <1>1, <1>2, InitFacts, PTL DEF Spec

-----------------------------------------------------------------------------
(* Rescans.  A turn of one handler leaves the others where they are. *)

LEMMA Bystanders ==
  ASSUME NEW w \in Workers, Turn(w), NEW r, NEW v \in Workers \ {w}
  PROVE  /\ Holds(v, r)' <=> Holds(v, r)
         /\ Past(v, r)' <=> Past(v, r)
         /\ At(v, "process")' <=> At(v, "process")
         /\ R(v)' = R(v)
BY DEF Turn, Holds, Past, At, R, Current

(* Where a handler of a rescan stands. *)
LEMMA Standing ==
  ASSUME Handlers, NEW w \in Workers, NEW r \in Schedules, R(w) = r
  PROVE  /\ worker[w].pc # "idle"
         /\ worker[w].pc = "validate" => ~Holds(w, r) /\ ~Past(w, r)
         /\ worker[w].pc = "next" => ~Holds(w, r)
         /\ worker[w].pc = "next" /\ worker[w].todo = expectedArtifactTypes(r) => ~Past(w, r)
         /\ worker[w].pc = "next" /\ worker[w].todo = <<>> => Past(w, r)
         /\ worker[w].pc \in Working => (Past(w, r) <=> ~Holds(w, r))
         /\ worker[w].pc \in Working => (Holds(w, r) <=> Current(w) = "image-rescan")
         /\ worker[w].pc \notin Late
<1>1. r \in Runs /\ r \notin Pushes /\ r # None
  BY ChainAssumption DEF Runs
<1>2. worker[w].pc # "idle" /\ Handler(worker[w])
  BY <1>1 DEF Handlers, Handler, R
<1>3. worker[w].pc \notin Late
  BY <1>1, <1>2 DEF Handler, R
<1>4. worker[w].pc # "validate" => worker[w].todo \in Remaining(r)
  BY <1>2 DEF Handler, R
<1>5. worker[w].pc \in Working => worker[w].todo # <<>>
  BY <1>2 DEF Handler, Working
<1> QED BY <1>1, <1>2, <1>3, <1>4, <1>5, RescanFirst DEF Holds, Past, Current, Working

LEMMA NextsPast ==
  ASSUME Handlers, NEW w \in Workers, NEW r \in Schedules, R(w) = r, Nexts(w),
         worker[w].pc # "validate", worker[w].todo # <<>>
  PROVE  Past(w, r)' /\ ~Holds(w, r)'
<1> USE DEF Working
<1>1. r \notin Pushes /\ worker[w].todo \in Remaining(r)
  BY Standing, Busy, ChainAssumption
<1>2. Tail(worker[w].todo) \in {<<"dast">>, <<>>}
  BY <1>1, RescanFirst
<1> QED BY <1>2 DEF Nexts, Past, Holds, R

LEMMA LeavesNothing ==
  ASSUME NEW w \in Workers, NEW r \in Schedules, Leaves(w)
  PROVE  ~Past(w, r)' /\ ~Holds(w, r)' /\ R(w)' # r
BY IdleFacts, ChainAssumption DEF Leaves, Past, Holds, R, Runs, Working

LEMMA GoesOn ==
  ASSUME NEW w \in Workers, NEW r \in Schedules, R(w) = r, Goes(w, Working),
         worker[w].pc # "validate", worker[w].pc # "idle"
  PROVE  /\ R(w)' = r
         /\ Past(w, r)' <=> Past(w, r)
         /\ Holds(w, r)' <=> Current(w) = "image-rescan"
BY DEF Goes, Past, Holds, R, Current, Working

(* What happens elsewhere is nothing to a run. *)
LEMMA Elsewhere ==
  ASSUME NEW r \in Schedules, Begun(r), Ends(r),
         run'[r] = run[r], "image-rescan" \in evidence'[r] <=> "image-rescan" \in evidence[r],
         rescanAt'[r] = rescanAt[r],
         artifact'[r]["image-rescan"] = artifact[r]["image-rescan"],
         r \in hist'.frozen => r \in hist.frozen, r \in hist.torn => r \in hist'.torn,
         \A v \in Workers : /\ Holds(v, r)' <=> Holds(v, r)
                            /\ Past(v, r)' <=> Past(v, r)
                            /\ R(v) = r => R(v)' = r
                            /\ Holds(v, r) => (At(v, "process") => At(v, "process")')
  PROVE  Begun(r)' /\ Ends(r)'
BY DEF Begun, Ends, Verified, Rescan, VERIFIED_RESCAN_STATUSES

(* A handler writes of its own run only. *)
LEMMA OwnRows ==
  ASSUME Typed, NEW w \in Workers, Step(w), NEW r \in Schedules, r # R(w), ~begin(w, r)
  PROVE  /\ run'[r] = run[r] /\ evidence'[r] = evidence[r] /\ rescanAt'[r] = rescanAt[r]
         /\ artifact'[r]["image-rescan"] = artifact[r]["image-rescan"]
         /\ r \in hist'.frozen <=> r \in hist.frozen
         /\ r \in hist.torn <=> r \in hist'.torn
<1>1. /\ run \in [Runs -> RunStatus] /\ DOMAIN evidence = Runs /\ rescanAt \in [Schedules -> Nat]
      /\ artifact \in [Runs -> [Types -> RunStatus]] /\ hist \in History /\ r \in Runs
  BY DEF Typed, Stored, Runs
<1>2. run'[r] = run[r]
  BY <1>1 DEF Step, begin, validate, rejectRun, missingArtifacts, rejectMetadata,
       startArtifact, handlerThrows, rejectArtifact, processSecurityArtifact, processImageArtifact,
       processImageRescanArtifact, recordFreeze, recordingFails,
       processDastArtifact, ensureImportContext, maybeImportToDefectDojo, importFails,
       acceptArtifact, finishRun, enforcePromotionFreeze, enforceReleaseGate, decide, store,
       claimDeploymentPromotion, getApp, putApp, poll, promoteFails, promotionCallFails, promoterDies, probe, recordDeployment
<1>3. evidence'[r] = evidence[r]
  BY <1>1 DEF Step, begin, validate, rejectRun, missingArtifacts, rejectMetadata,
       startArtifact, handlerThrows, rejectArtifact, processSecurityArtifact, processImageArtifact,
       processImageRescanArtifact, recordFreeze, recordingFails,
       processDastArtifact, ensureImportContext, maybeImportToDefectDojo, importFails, Record,
       acceptArtifact, finishRun, enforcePromotionFreeze, enforceReleaseGate, decide, store,
       claimDeploymentPromotion, getApp, putApp, poll, promoteFails, promotionCallFails, promoterDies, probe, recordDeployment
<1>4. rescanAt'[r] = rescanAt[r]
  BY <1>1 DEF Step, begin, validate, rejectRun, missingArtifacts, rejectMetadata,
       startArtifact, handlerThrows, rejectArtifact, processSecurityArtifact, processImageArtifact,
       processImageRescanArtifact, recordFreeze, recordingFails,
       processDastArtifact, ensureImportContext, maybeImportToDefectDojo, importFails,
       acceptArtifact, finishRun, enforcePromotionFreeze, enforceReleaseGate, decide, store,
       claimDeploymentPromotion, getApp, putApp, poll, promoteFails, promotionCallFails, promoterDies, probe, recordDeployment
<1>5. artifact'[r] = artifact[r]
  BY <1>1 DEF Step, begin, validate, rejectRun, missingArtifacts, rejectMetadata, SetArtifact,
       startArtifact, handlerThrows, rejectArtifact, processSecurityArtifact, processImageArtifact,
       processImageRescanArtifact, recordFreeze, recordingFails,
       processDastArtifact, ensureImportContext, maybeImportToDefectDojo, importFails,
       acceptArtifact, finishRun, enforcePromotionFreeze, enforceReleaseGate, decide, store, PromotionFails,
       claimDeploymentPromotion, getApp, putApp, poll, promoteFails, promotionCallFails, promoterDies, probe, recordDeployment
<1>6. (r \in hist'.frozen <=> r \in hist.frozen) /\ (r \in hist.torn <=> r \in hist'.torn)
  <2>1. ASSUME NEW q \in Runs, begin(w, q)
        PROVE  (r \in hist'.frozen <=> r \in hist.frozen) /\ (r \in hist.torn <=> r \in hist'.torn)
    <3>1. q # r
      BY <2>1
    <3> QED BY <1>1, <2>1, <3>1 DEF begin, History
  <2>2. CASE rejectRun(w) \/ handlerThrows(w) \/ finishRun(w) \/ probe(w) \/ recordDeployment(w)
    <3>1. CASE rejectRun(w)
      BY <1>1, <3>1 DEF rejectRun, History
    <3>2. CASE handlerThrows(w)
      BY <1>1, <3>2 DEF handlerThrows, History
    <3>3. CASE finishRun(w)
      <4>1. hist'.frozen \in {hist.frozen \cup {R(w)}, hist.frozen \ {R(w)}} /\ hist'.torn = hist.torn
        BY <1>1, <3>3 DEF finishRun, History
      <4> QED BY <4>1
    <3>4. CASE probe(w) \/ recordDeployment(w)
      BY <1>1, <3>4 DEF probe, recordDeployment, History
    <3> QED BY <2>2, <3>1, <3>2, <3>3, <3>4
  <2>3. CASE ~(\E q \in Runs : begin(w, q)) /\ ~( \/ rejectRun(w) \/ handlerThrows(w) \/ finishRun(w)
                                                \/ probe(w) \/ recordDeployment(w))
    BY <1>1, <2>3 DEF Step, validate, missingArtifacts, rejectMetadata, Forget,
       startArtifact, rejectArtifact, processSecurityArtifact, processImageArtifact,
       processImageRescanArtifact, recordFreeze, recordingFails,
       processDastArtifact, ensureImportContext, maybeImportToDefectDojo, importFails,
       acceptArtifact, enforcePromotionFreeze, enforceReleaseGate, decide, History,
       claimDeploymentPromotion, getApp, putApp, poll, promoteFails, promotionCallFails, promoterDies
  <2> QED BY <2>1, <2>2, <2>3
<1> QED BY <1>2, <1>3, <1>4, <1>5, <1>6

(* What a handler at work on a rescan does to its run. *)
LEMMA Acting ==
  ASSUME Typed, NEW w \in Workers, Step(w), NEW r \in Schedules, R(w) = r, Begun(r), Ends(r)
  PROVE  Begun(r)' /\ Ends(r)'
<1>h. Handlers /\ r \in Runs
  BY DEF Typed, Runs
<1>t. /\ run \in [Runs -> RunStatus] /\ DOMAIN evidence = Runs /\ rescanAt \in [Schedules -> Nat]
      /\ artifact \in [Runs -> [Types -> RunStatus]] /\ hist \in History /\ bound.clock \in Nat
  BY DEF Typed, Stored, Bounds
<1>s. /\ worker[w].pc # "idle"
      /\ worker[w].pc = "validate" => ~Holds(w, r) /\ ~Past(w, r)
      /\ worker[w].pc = "next" => ~Holds(w, r)
      /\ worker[w].pc = "next" /\ worker[w].todo = expectedArtifactTypes(r) => ~Past(w, r)
      /\ worker[w].pc = "next" /\ worker[w].todo = <<>> => Past(w, r)
      /\ worker[w].pc \in Working => (Past(w, r) <=> ~Holds(w, r))
      /\ worker[w].pc \in Working => (Holds(w, r) <=> Current(w) = "image-rescan")
      /\ worker[w].pc \notin Late
  BY <1>h, Standing
<1>v. ASSUME Turn(w), NEW v \in Workers \ {w}
      PROVE  /\ Holds(v, r)' <=> Holds(v, r)
             /\ Past(v, r)' <=> Past(v, r)
             /\ At(v, "process")' <=> At(v, "process")
             /\ R(v)' = R(v)
  BY <1>v, Bystanders
<1>e. \A v \in Workers : Past(v, r) => R(v) = r
  BY DEF Past
<1> USE DEF VERIFIED_RESCAN_STATUSES, Working
<1>1. CASE validate(w)
  <2>1. Turn(w) /\ R(w)' = r /\ At(w, "next")'
    BY <1>1, <1>h, ValidateTurn DEF At, R
  <2>2. ~Holds(w, r)' /\ ~Past(w, r)' /\ ~Holds(w, r) /\ ~Past(w, r)
    <3>1. r \notin Pushes
      BY ChainAssumption
    <3>2. worker'[w].todo = expectedArtifactTypes(r) /\ worker'[w].pc = "next"
      BY <1>1, <1>h, ValidateTurn
    <3>3. ~Holds(w, r)' /\ ~Past(w, r)'
      BY <3>1, <3>2, ExpectedFacts, <1>h, RescanFirst DEF Holds, Past
    <3> QED BY <1>1, <1>s, <3>3 DEF validate, At
  <2>3. UNCHANGED <<evidence, rescanAt, artifact, hist>>
    BY <1>1 DEF validate
  <2> QED BY <1>v, <2>1, <2>2, <2>3 DEF Begun, Ends, Verified, Rescan
<1>2. CASE rejectRun(w) \/ handlerThrows(w)
  <2>1. Leaves(w) /\ Turn(w)
    BY <1>2, <1>h, RejectRunTurn, HandlerThrowsTurn DEF Leaves
  <2>2. ~Holds(w, r)' /\ ~Past(w, r)' /\ R(w)' # r
    BY <2>1, LeavesNothing
  <2>3. r \notin hist'.frozen
    BY <1>2, <1>t DEF rejectRun, handlerThrows, History
  <2>4. UNCHANGED <<evidence, rescanAt, artifact>>
    BY <1>2 DEF rejectRun, handlerThrows, store
  <2>5. hist.torn \subseteq hist'.torn /\ (r \in hist'.torn \/ ~Holds(w, r))
    <3>1. CASE rejectRun(w)
      BY <3>1, <1>s, <1>t DEF rejectRun, History, At
    <3>2. CASE handlerThrows(w)
      <4>1. hist'.torn = hist.torn \cup ({r} \cap Schedules)
        BY <3>2, <1>t DEF handlerThrows, History
      <4> QED BY <4>1
    <3> QED BY <1>2, <3>1, <3>2
  <2> QED BY <1>v, <2>1, <2>2, <2>3, <2>4, <2>5 DEF Begun, Ends, Verified, Rescan
<1>3. CASE missingArtifacts(w)
  <2>1. Leaves(w) /\ Turn(w)
    BY <1>3, <1>h, MissingArtifactsTurn DEF Leaves
  <2>2. ~Holds(w, r)' /\ ~Past(w, r)' /\ R(w)' # r
    BY <2>1, LeavesNothing
  <2>3. UNCHANGED <<evidence, rescanAt, artifact, hist>> /\ run'[r] = "failed"
    BY <1>3, <1>h, <1>t DEF missingArtifacts
  <2>4. ~Holds(w, r) /\ ~Past(w, r)
    BY <1>3, <1>s DEF missingArtifacts, At
  <2> QED BY <1>v, <2>1, <2>2, <2>3, <2>4 DEF Begun, Ends, Verified, Rescan
<1>4. CASE rejectMetadata(w) \/ rejectArtifact(w) \/ recordingFails(w)
  <2>1. Nexts(w) /\ Turn(w) /\ R(w)' = r /\ worker[w].todo # <<>> /\ worker[w].pc # "validate"
    <3>1. Nexts(w) /\ worker[w].pc \in Working \cup {"next"} /\ (worker[w].pc = "next" => worker[w].todo # <<>>)
      BY <1>4, <1>h, RejectMetadataTurn, RejectArtifactTurn, RecordingFailsTurn
         DEF rejectMetadata, rejectArtifact, recordingFails, At
    <3> QED BY <1>h, <3>1, Busy DEF Nexts, R
  <2>2. Past(w, r)' /\ ~Holds(w, r)'
    BY <1>h, <2>1, NextsPast
  <2>3. /\ UNCHANGED <<run, rescanAt, hist>>
        /\ "image-rescan" \in evidence'[r] <=> "image-rescan" \in evidence[r]
    <3>1. UNCHANGED <<run, rescanAt, hist>>
      BY <1>4 DEF rejectMetadata, rejectArtifact, recordingFails
    <3>2. UNCHANGED evidence \/ \E keys : "image-rescan" \notin keys /\ Record(w, keys)
      <4>1. CASE rejectMetadata(w)
        BY <4>1 DEF rejectMetadata
      <4>2. CASE rejectArtifact(w)
        <5>1. "image-rescan" \notin RecordedBeforeRefusal(R(w), Current(w))
          BY DEF RecordedBeforeRefusal
        <5> QED BY <4>2, <5>1 DEF rejectArtifact
      <4>3. CASE recordingFails(w)
        <5>1. \A keys \in PartOf(w) : "image-rescan" \notin keys
          BY DEF PartOf
        <5> QED BY <4>3, <5>1 DEF recordingFails
      <4> QED BY <1>4, <4>1, <4>2, <4>3
    <3>3. ASSUME NEW keys, Record(w, keys) PROVE evidence'[r] = evidence[r] \cup keys
      BY <1>h, <1>t, <3>3 DEF Record
    <3> QED BY <3>1, <3>2, <3>3
  <2>4. Current(w) \in Types /\ artifact'[r] = [artifact[r] EXCEPT ![Current(w)] = "rejected"]
    <3>1. worker[w].todo \in Remaining(r)
      BY <1>h, <1>s, <2>1, Busy
    <3>2. Current(w) \in Types
      BY <2>1, <3>1, RemainingFacts DEF Current
    <3> QED BY <1>4, <1>h, <1>t, <3>2 DEF rejectMetadata, rejectArtifact, recordingFails, SetArtifact
  <2>5. CASE Current(w) = "image-rescan"
    <3>1. Rescan(r)' = "rejected"
      BY <1>h, <1>t, <2>4, <2>5 DEF Rescan, Types
    <3> QED BY <1>v, <2>1, <2>2, <2>3, <3>1 DEF Begun, Ends, Verified
  <2>6. CASE Current(w) # "image-rescan"
    <3>1. Rescan(r)' = Rescan(r)
      BY <1>h, <1>t, <2>4, <2>6 DEF Rescan, Types
    <3>2. Past(w, r) /\ ~Holds(w, r)
      <4>1. worker[w].pc \in Working \cup {"next"} /\ r \notin Pushes
        BY <1>4, ChainAssumption DEF rejectMetadata, rejectArtifact, recordingFails, At
      <4>2. worker[w].todo \in Remaining(r)
        BY <1>h, <1>s, <2>1, Busy
      <4> QED BY <1>s, <2>1, <2>6, <4>1, <4>2, RescanFirst DEF Past, Holds, Current
    <3> QED BY <1>v, <2>1, <2>2, <2>3, <3>1, <3>2 DEF Begun, Ends, Verified
  <2> QED BY <2>5, <2>6
<1>5. CASE startArtifact(w)
  <2>1. Goes(w, Working) /\ At(w, "process")' /\ worker[w].pc = "next" /\ worker[w].todo # <<>>
    BY <1>5, <1>h, StartArtifactTurn DEF startArtifact, Goes, At
  <2>2. R(w)' = r /\ (Past(w, r)' <=> Past(w, r)) /\ (Holds(w, r)' <=> Current(w) = "image-rescan")
    BY <2>1, GoesOn
  <2>3. UNCHANGED <<run, evidence, rescanAt, hist>>
    BY <1>5 DEF startArtifact
  <2>4. Current(w) \in Types /\ artifact'[r] = [artifact[r] EXCEPT ![Current(w)] = "pending"]
    <3>1. worker[w].todo \in Remaining(r)
      BY <1>h, <2>1, Busy
    <3>2. Current(w) \in Types
      BY <2>1, <3>1, RemainingFacts DEF Current
    <3> QED BY <1>5, <1>h, <1>t, <3>2 DEF startArtifact, SetArtifact
  <2>5. CASE Current(w) = "image-rescan"
    <3>1. Rescan(r)' = "pending"
      BY <1>h, <1>t, <2>4, <2>5 DEF Rescan, Types
    <3> QED BY <1>v, <2>1, <2>2, <2>3, <2>5, <3>1 DEF Begun, Ends, Verified, Goes, At
  <2>6. CASE Current(w) # "image-rescan"
    <3>1. artifact'[r]["image-rescan"] = artifact[r]["image-rescan"]
      BY <1>h, <1>t, <2>4, <2>6 DEF Types
    <3>2. ~Holds(w, r)
      BY <1>s, <2>1
    <3> QED BY <1>v, <2>1, <2>2, <2>3, <2>6, <3>1, <3>2, Elsewhere DEF Goes
  <2> QED BY <2>5, <2>6
<1>6. CASE \/ processSecurityArtifact(w) \/ processImageArtifact(w) \/ processDastArtifact(w)
           \/ recordFreeze(w) \/ ensureImportContext(w) \/ maybeImportToDefectDojo(w)
  <2>1. /\ worker[w].pc \in Working
        /\ worker[w].pc = "process" => Current(w) # "image-rescan"
    BY <1>6 DEF processSecurityArtifact, processImageArtifact, processDastArtifact, recordFreeze,
             ensureImportContext, maybeImportToDefectDojo, At
  <2>2. Goes(w, Working)
    <3>1. Goes(w, {"import"}) \/ Goes(w, {"post"}) \/ Current(w) = "image-promotion"
      BY <1>6, <1>h, ProcessSecurityArtifactTurn, ProcessImageArtifactTurn, ProcessDastArtifactTurn,
         RecordFreezeTurn, EnsureImportContextTurn, MaybeImportToDefectDojoTurn
    <3>2. worker[w].todo \in Remaining(r) /\ worker[w].todo # <<>>
      BY <1>h, <2>1, Busy
    <3>3. Current(w) # "image-promotion"
      BY <3>2, RemainingFacts, ChainAssumption DEF Current
    <3> QED BY <3>1, <3>3 DEF Goes
  <2>3. R(w)' = r /\ (Past(w, r)' <=> Past(w, r)) /\ (Holds(w, r)' <=> Holds(w, r))
    BY <1>s, <2>1, <2>2, GoesOn
  <2>4. Holds(w, r) => ~At(w, "process")
    BY <1>s, <2>1 DEF At
  <2>5. /\ UNCHANGED <<run, rescanAt, artifact>> /\ hist'.frozen = hist.frozen /\ hist'.torn = hist.torn
        /\ "image-rescan" \in evidence'[r] <=> "image-rescan" \in evidence[r]
    <3>1. UNCHANGED <<run, rescanAt, artifact>>
      BY <1>6 DEF processSecurityArtifact, processImageArtifact, processDastArtifact, recordFreeze,
               ensureImportContext, maybeImportToDefectDojo, store
    <3>2. hist'.frozen = hist.frozen /\ hist'.torn = hist.torn
      BY <1>6, <1>t DEF processSecurityArtifact, processImageArtifact, processDastArtifact, recordFreeze,
               ensureImportContext, maybeImportToDefectDojo, History
    <3>3. "image-rescan" \in evidence'[r] <=> "image-rescan" \in evidence[r]
      <4>1. \/ UNCHANGED evidence
            \/ \E keys \in SUBSET {"scans", "gate", "image-trivy", "sbom", "signature", "zap", "freeze"} : Record(w, keys)
        BY <1>6 DEF processSecurityArtifact, processImageArtifact, processDastArtifact, recordFreeze,
               ensureImportContext, maybeImportToDefectDojo, store
      <4>2. ASSUME NEW keys, Record(w, keys) PROVE evidence'[r] = evidence[r] \cup keys
        BY <1>h, <1>t, <4>2 DEF Record
      <4> QED BY <4>1, <4>2
    <3> QED BY <3>1, <3>2, <3>3
  <2> QED BY <1>v, <2>2, <2>3, <2>4, <2>5, Elsewhere DEF Goes
<1>7. CASE processImageRescanArtifact(w)
  <2>1. Holds(w, r)
    BY <1>7, <1>s DEF processImageRescanArtifact, At
  <2>2. Goes(w, Working) /\ Current(w) = "image-rescan" /\ worker[w].pc = "process"
    BY <1>7, <1>h, ProcessImageRescanArtifactTurn DEF processImageRescanArtifact, Goes, At
  <2>3. R(w)' = r /\ (Past(w, r)' <=> Past(w, r)) /\ Holds(w, r)'
    BY <2>2, GoesOn
  <2>4. UNCHANGED <<run, artifact, hist>> /\ "image-rescan" \in evidence'[r] /\ rescanAt'[r] = bound.clock + 1
    BY <1>7, <1>h, <1>t DEF processImageRescanArtifact, Record
  <2>5. rescanAt'[r] > 0
    BY <1>t, <2>4
  <2> QED BY <1>v, <2>1, <2>2, <2>3, <2>4, <2>5 DEF Begun, Ends, Verified, Rescan, Goes
<1>8. CASE importFails(w) \/ acceptArtifact(w)
  <2>1. Nexts(w) /\ Turn(w) /\ R(w)' = r /\ worker[w].todo # <<>> /\ worker[w].pc \in {"import", "post"}
    <3>1. Nexts(w) /\ worker[w].pc \in {"import", "post"}
      BY <1>8, <1>h, ImportFailsTurn, AcceptArtifactTurn DEF importFails, acceptArtifact, At
    <3> QED BY <1>h, <3>1, Busy DEF Nexts, R
  <2>2. Past(w, r)' /\ ~Holds(w, r)'
    BY <1>h, <2>1, NextsPast
  <2>3. UNCHANGED <<run, evidence, rescanAt>> /\ hist'.frozen = hist.frozen /\ hist'.torn = hist.torn
    BY <1>8, <1>t DEF importFails, acceptArtifact, History
  <2>4. /\ Current(w) \in Types
        /\ \E status \in {"failed", "accepted"} :
             artifact'[r] = [artifact[r] EXCEPT ![Current(w)] = status]
    BY <1>8, <1>h, <1>t, <2>1, Busy DEF importFails, acceptArtifact, SetArtifact
  <2>5. CASE Current(w) = "image-rescan"
    <3>1. Rescan(r)' \in {"failed", "accepted"}
      BY <1>h, <1>t, <2>4, <2>5 DEF Rescan, Types
    <3>2. Holds(w, r) /\ ~At(w, "process")
      BY <1>s, <2>1, <2>5 DEF At
    <3> QED BY <1>v, <2>1, <2>2, <2>3, <3>1, <3>2 DEF Begun, Ends, Verified
  <2>6. CASE Current(w) # "image-rescan"
    <3>1. artifact'[r]["image-rescan"] = artifact[r]["image-rescan"]
      BY <1>h, <1>t, <2>4, <2>6 DEF Types
    <3>2. Past(w, r) /\ ~Holds(w, r)
      BY <1>s, <2>1, <2>6
    <3> QED BY <1>v, <2>1, <2>2, <2>3, <3>1, <3>2, Elsewhere
  <2> QED BY <2>5, <2>6
<1>9. CASE finishRun(w)
  <2>1. Leaves(w) /\ Turn(w)
    BY <1>9, <1>h, FinishRunTurn DEF Leaves
  <2>2. ~Holds(w, r)' /\ ~Past(w, r)' /\ R(w)' # r
    BY <2>1, LeavesNothing
  <2>3. ~Holds(w, r) /\ Past(w, r)
    BY <1>9, <1>s DEF finishRun, At
  <2>4. UNCHANGED <<evidence, rescanAt, artifact>> /\ run'[r] \in {"failed", "accepted"}
    BY <1>9, <1>h, <1>t DEF finishRun
  <2>5. hist'.torn = hist.torn /\ (r \in hist'.frozen => r \notin hist.torn /\ Rescan(r) # "rejected")
    BY <1>9, <1>t DEF finishRun, History, Rescan
  <2>6. Rescan(r) \in RunStatus
    BY <1>h, <1>t DEF Rescan, Types
  <2>7. Begun(r)'
    BY <1>v, <2>1, <2>2, <2>3, <2>4, <2>5 DEF Begun, Verified, Rescan
  <2>8. r \in hist'.frozen => Verified(r) \/ \E v \in Workers \ {w} : Holds(v, r)
    BY <2>3, <2>5, <2>6 DEF Begun, Verified, RunStatus
  <2>9. Ends(r)'
    BY <1>v, <2>1, <2>4, <2>8 DEF Ends, Verified, Rescan
  <2> QED BY <2>7, <2>9
<1> QED BY <1>1, <1>2, <1>3, <1>4, <1>5, <1>6, <1>7, <1>8, <1>9, <1>s DEF Step, begin, At, Late, Promoting,
        promoterDies, enforcePromotionFreeze, enforceReleaseGate, decide, claimDeploymentPromotion,
        getApp, putApp, poll, promoteFails, promotionCallFails, probe, recordDeployment

LEMMA TimesStep ==
  ASSUME Typed, Typed', Times, NEW w \in Workers, Step(w)
  PROVE  Times'
<1>1. bound.clock \in Nat /\ bound'.clock \in Nat /\ rescanAt \in [Schedules -> Nat]
  BY DEF Typed, Stored, Bounds
<1>2. CASE processImageRescanArtifact(w)
  <2>1. bound'.clock = bound.clock + 1 /\ rescanAt' = [rescanAt EXCEPT ![R(w)] = bound.clock + 1]
    BY <1>2 DEF processImageRescanArtifact, Typed, Stored, Bounds
  <2>2. ASSUME NEW r \in Schedules
        PROVE  rescanAt'[r] = (IF r = R(w) THEN bound.clock + 1 ELSE rescanAt[r])
    BY <1>1, <2>1
  <2>3. \A r \in Schedules : rescanAt[r] \in Nat /\ rescanAt[r] <= bound.clock
    BY <1>1 DEF Times
  <2> QED BY <1>1, <2>1, <2>2, <2>3 DEF Times
<1>3. CASE ~processImageRescanArtifact(w)
  <2>1. UNCHANGED rescanAt
    BY <1>3 DEF Step, begin, validate, rejectRun, missingArtifacts, rejectMetadata,
       startArtifact, handlerThrows, rejectArtifact, processSecurityArtifact, processImageArtifact,
       recordFreeze, recordingFails,
       processDastArtifact, ensureImportContext, maybeImportToDefectDojo, importFails,
       acceptArtifact, finishRun, enforcePromotionFreeze, enforceReleaseGate, decide, store,
       claimDeploymentPromotion, getApp, putApp, poll, promoteFails, promotionCallFails, promoterDies, probe, recordDeployment
  <2>2. bound'.clock = bound.clock \/ bound'.clock = bound.clock + 1
    <3>1. bound \in Bounds
      BY DEF Typed, Stored
    <3> QED BY <1>3, <3>1, FaultBounds DEF Step, begin, validate, rejectRun, missingArtifacts, rejectMetadata,
       startArtifact, handlerThrows, rejectArtifact, processSecurityArtifact, processImageArtifact,
       recordFreeze, recordingFails,
       processDastArtifact, ensureImportContext, maybeImportToDefectDojo, importFails,
       acceptArtifact, finishRun, enforcePromotionFreeze, enforceReleaseGate, decide,
       claimDeploymentPromotion, getApp, putApp, poll, promoteFails, promotionCallFails, promoterDies, probe,
       recordDeployment, Bounds
  <2>3. \A r \in Schedules : rescanAt[r] \in Nat /\ rescanAt[r] <= bound'.clock
    BY <1>1, <2>2 DEF Times
  <2> QED BY <2>1, <2>3 DEF Times
<1> QED BY <1>2, <1>3

(* A handler that begins a rescan is nowhere yet, and forgets that it ended. *)
LEMMA Beginning ==
  ASSUME Typed, NEW w \in Workers, NEW r \in Schedules, begin(w, r), Begun(r), Ends(r)
  PROVE  Begun(r)' /\ Ends(r)'
<1>1. Turn(w) /\ worker'[w].pc = "validate" /\ R(w)' = r
  BY BeginTurn DEF Typed, Runs, R
<1>2. ~Holds(w, r)' /\ ~Past(w, r)' /\ ~Holds(w, r) /\ ~Past(w, r) /\ R(w) # r
  <2>1. ~Holds(w, r)' /\ ~Past(w, r)'
    BY <1>1 DEF Holds, Past, Working
  <2>2. worker[w].pc = "idle"
    BY DEF begin, At
  <2>3. R(w) = None
    BY <2>2 DEF Typed, Handlers, Handler, R
  <2> QED BY <2>1, <2>3, ChainAssumption DEF Holds, Past, Runs
<1>3. ASSUME NEW v \in Workers \ {w}
      PROVE  /\ Holds(v, r)' <=> Holds(v, r)
             /\ Past(v, r)' <=> Past(v, r)
             /\ At(v, "process")' <=> At(v, "process")
  BY <1>1, Bystanders
<1>4. UNCHANGED <<run, evidence, rescanAt, artifact>> /\ r \notin hist'.frozen
  BY DEF begin, store, Typed, Stored, History
<1>5. (\E v \in Workers : R(v) = r) => hist'.torn = hist.torn
  BY DEF begin, Typed, Stored, History
<1>6. \A v \in Workers : Past(v, r) => R(v) = r
  BY DEF Past
<1> QED BY <1>2, <1>3, <1>4, <1>5, <1>6 DEF Begun, Ends, Verified, Rescan

LEMMA TurnElsewhere ==
  ASSUME Handlers, NEW w \in Workers, Step(w), NEW r \in Schedules, R(w) # r, ~begin(w, r)
  PROVE  Turn(w) /\ worker'[w].run # r
<1>1. ASSUME NEW q \in Runs, begin(w, q) PROVE Turn(w) /\ worker'[w].run # r
  <2>1. q # r
    BY <1>1
  <2> QED BY <1>1, <2>1, BeginTurn
<1>2. CASE validate(w)
  BY <1>2, ValidateTurn
<1>3. CASE Leaves(w)
  BY <1>3, IdleFacts, ChainAssumption DEF Leaves, Runs
<1>4. CASE Nexts(w) \/ PromotionFails(w)
  BY <1>4, PromotionFailsTurn DEF Nexts
<1>5. CASE \E pcs : Goes(w, pcs)
  BY <1>5 DEF Goes
<1>6. CASE /\ enforcePromotionFreeze(w) \/ decide(w) \/ claimDeploymentPromotion(w)
           /\ ~PromotionFails(w)
  BY <1>6 DEF enforcePromotionFreeze, decide, claimDeploymentPromotion, Goto, Handlers, Handler, Fields,
     Turn, R
<1>7. CASE promoteFails(w) \/ promotionCallFails(w)
  BY <1>4, <1>7 DEF promoteFails, promotionCallFails
<1> QED
  <2>1. CASE rejectRun(w) \/ missingArtifacts(w) \/ handlerThrows(w) \/ finishRun(w) \/ promoterDies(w)
    BY <1>3, <2>1, RejectRunTurn, MissingArtifactsTurn, HandlerThrowsTurn, FinishRunTurn, PromoterDiesTurn
  <2>2. CASE \/ rejectMetadata(w) \/ rejectArtifact(w) \/ recordingFails(w) \/ importFails(w)
             \/ acceptArtifact(w)
    BY <1>4, <2>2, RejectMetadataTurn, RejectArtifactTurn, RecordingFailsTurn, ImportFailsTurn,
       AcceptArtifactTurn
  <2>3. CASE \/ startArtifact(w) \/ processSecurityArtifact(w) \/ processImageArtifact(w)
             \/ processImageRescanArtifact(w) \/ recordFreeze(w) \/ processDastArtifact(w)
             \/ ensureImportContext(w) \/ maybeImportToDefectDojo(w)
    BY <1>5, <2>3, StartArtifactTurn, ProcessSecurityArtifactTurn, ProcessImageArtifactTurn,
       ProcessImageRescanArtifactTurn, RecordFreezeTurn, ProcessDastArtifactTurn, EnsureImportContextTurn,
       MaybeImportToDefectDojoTurn
  <2>4. CASE enforceReleaseGate(w) \/ getApp(w) \/ putApp(w) \/ poll(w) \/ probe(w) \/ recordDeployment(w)
    BY <1>5, <2>4, EnforceReleaseGateTurn, GetAppTurn, PutAppTurn, PollTurn, ProbeTurn, RecordDeploymentTurn
  <2> QED BY <1>1, <1>2, <1>4, <1>6, <1>7, <2>1, <2>2, <2>3, <2>4 DEF Step

LEMMA FreezeStep ==
  ASSUME Typed, Confirmed, FreezeInv, [Next]_vars
  PROVE  FreezeInv'
<1>0. Typed'
  BY TypedStep
<1>1. ASSUME NEW w \in Workers, Step(w) PROVE FreezeInv'
  <2>1. Times'
    BY <1>0, <1>1, TimesStep DEF FreezeInv
  <2>2. ASSUME NEW r \in Schedules PROVE Begun(r)' /\ Ends(r)'
    <3>1. CASE R(w) = r
      BY <1>1, <3>1, Acting DEF FreezeInv
    <3>2. CASE begin(w, r)
      BY <3>2, Beginning DEF FreezeInv
    <3>3. CASE R(w) # r /\ ~begin(w, r)
      <4>1. Turn(w) /\ worker'[w].run # r
        BY <1>1, <3>3, TurnElsewhere DEF Typed
      <4>2. ~Holds(w, r)' /\ ~Past(w, r)' /\ ~Holds(w, r) /\ ~Past(w, r)
        BY <3>3, <4>1 DEF Holds, Past, R
      <4>3. ASSUME NEW v \in Workers
            PROVE  /\ Holds(v, r)' <=> Holds(v, r)
                   /\ Past(v, r)' <=> Past(v, r)
                   /\ R(v) = r => R(v)' = r
                   /\ Holds(v, r) => (At(v, "process") => At(v, "process")')
        BY <3>3, <4>1, <4>2, Bystanders
      <4> QED BY <1>1, <3>3, <4>3, OwnRows, Elsewhere DEF FreezeInv
    <3> QED BY <3>1, <3>2, <3>3
  <2> QED BY <2>1, <2>2 DEF FreezeInv
<1>2. CASE Outside
  <2>1. /\ UNCHANGED <<worker, run, artifact, evidence, rescanAt>> /\ bound'.clock = bound.clock
        /\ hist'.frozen = hist.frozen /\ hist'.torn = hist.torn
    BY <1>2, OutsideStep
  <2> QED BY <2>1 DEF FreezeInv, Times, Begun, Ends, Holds, Past, Verified, Rescan, At, R, Current
<1>3. CASE UNCHANGED vars
  BY <1>3 DEF vars, FreezeInv, Times, Begun, Ends, Holds, Past, Verified, Rescan, At, R, Current
<1> QED BY <1>1, <1>2, <1>3 DEF Next, Outside

-----------------------------------------------------------------------------
(* A frozen digest is not promoted. *)

(* A rescan that came to an end, with no handler left, is one that counts. *)
LEMMA EndedCounts ==
  ASSUME Typed, FreezeInv, NEW d, NEW r \in Ended(d), \A w \in Workers : R(w) # r
  PROVE  r \in Rescans(d) /\ rescanAt[r] > 0
<1>1. r \in hist.frozen /\ r \in Schedules /\ target[r] = d
  BY DEF Ended, Typed, Stored, History
<1>2. \A w \in Workers : ~Holds(w, r) /\ ~Past(w, r)
  BY DEF Holds, Past
<1>3. run[r] \in VERIFIED_RESCAN_STATUSES /\ Verified(r)
  BY <1>1, <1>2 DEF FreezeInv, Ends
<1>4. "image-rescan" \in evidence[r] /\ rescanAt[r] > 0
  BY <1>1, <1>3 DEF FreezeInv, Begun
<1> QED BY <1>1, <1>3, <1>4 DEF Rescans, Verified, Rescan

LEMMA FrozenForIsFrozen ==
  ASSUME Typed, FreezeInv, NEW d \in Digests, FrozenFor(d)
  PROVE  FrozenNow(d)
<1>1. PICK r \in Ended(d) : report[r].critical # 0 /\ \A q \in Ended(d) : rescanAt[q] <= rescanAt[r]
  BY DEF FrozenFor
<1>2. \A q \in Schedules : target[q] = d =>
        (q \in Ended(d) \/ run[q] = "none") /\ \A w \in Workers : R(w) # q
  BY DEF FrozenFor
<1>3. \A q \in Ended(d) : q \in Schedules /\ target[q] = d /\ q \in Rescans(d) /\ rescanAt[q] > 0
  <2> TAKE q \in Ended(d)
  <2>1. q \in Schedules /\ target[q] = d
    BY DEF Ended, Typed, Stored, History
  <2> QED BY <1>2, <2>1, EndedCounts
<1>4. \A q \in Rescans(d) : q \in Ended(d)
  BY <1>2 DEF Rescans, VERIFIED_RESCAN_STATUSES
<1> DEFINE last == CHOOSE x \in Rescans(d) : \A q \in Rescans(d) : rescanAt[q] <= rescanAt[x]
<1>5. last \in Rescans(d) /\ \A q \in Rescans(d) : rescanAt[q] <= rescanAt[last]
  <2>1. \E x \in Rescans(d) : \A q \in Rescans(d) : rescanAt[q] <= rescanAt[x]
    BY <1>1, <1>3, <1>4
  <2> QED BY <2>1
<1> HIDE DEF last
<1>6. last = r
  <2>1. last \in Schedules /\ r \in Schedules /\ rescanAt[last] > 0 /\ rescanAt[r] > 0
        /\ rescanAt[last] \in Nat /\ rescanAt[r] \in Nat
    BY <1>1, <1>3, <1>4, <1>5 DEF Typed, Stored
  <2>2. rescanAt[last] = rescanAt[r]
    BY <1>1, <1>3, <1>4, <1>5, <2>1
  <2> QED BY <2>1, <2>2 DEF FreezeInv, Times
<1>7. imageRescanEvidence(r).frozen /\ imageRescanEvidence(r) # None
  <2>1. target[r] = d
    BY <1>1, <1>3
  <2>2. imageRescanEvidence(r) \in [digest : Digests, frozen : BOOLEAN, accepted : BOOLEAN, fresh : BOOLEAN]
    BY <2>1 DEF imageRescanEvidence, Accepted
  <2>3. imageRescanEvidence(r).frozen
    BY <1>1 DEF imageRescanEvidence
  <2> QED BY <2>2, <2>3, ChainAssumption
<1>8. getLatestImageRescanEvidence(d) = imageRescanEvidence(r)
  BY <1>5, <1>6 DEF getLatestImageRescanEvidence, last
<1> QED BY <1>7, <1>8 DEF FrozenNow

LEMMA FrozenStep ==
  ASSUME Typed, FreezeInv, Next, NEW w \in Workers, At(w, "promote"), FrozenFor(image[R(w)])
  PROVE  worker'[w].pc \in {"promote", "next", "idle"}
<1>h. Handlers
  BY DEF Typed
<1>1. FrozenNow(image[R(w)])
  <2>1. R(w) \in Pushes
    BY <1>h, Busy DEF At, Late
  <2> QED BY <2>1, FrozenForIsFrozen DEF Typed, Given
<1>2. ASSUME NEW v \in Workers, Step(v) PROVE worker'[w].pc \in {"promote", "next", "idle"}
  <2>1. CASE v # w
    <3>1. Turn(v)
      BY <1>h, <1>2, SeenStep, ProbeTurn DEF Goes
    <3> QED BY <2>1, <3>1 DEF Turn, At
  <2>2. CASE v = w
    <3>1. enforcePromotionFreeze(w) \/ handlerThrows(w) \/ promotionCallFails(w)
      BY <1>2, <2>2 DEF Step, At, Promoting, begin, validate, rejectRun, missingArtifacts, rejectMetadata,
       startArtifact, rejectArtifact, processSecurityArtifact, processImageArtifact,
       processImageRescanArtifact, recordFreeze, recordingFails,
       processDastArtifact, ensureImportContext, maybeImportToDefectDojo, importFails,
       acceptArtifact, finishRun, enforceReleaseGate, decide, claimDeploymentPromotion, getApp, putApp,
       poll, promoteFails, promotionCallFails, promoterDies, probe, recordDeployment
    <3>2. CASE enforcePromotionFreeze(w)
      <4>1. PromotionFails(w)
        BY <1>1, <3>2 DEF enforcePromotionFreeze
      <4> QED BY <1>h, <4>1, PromotionFailsTurn DEF Nexts
    <3>3. CASE handlerThrows(w)
      BY <1>h, <3>3, HandlerThrowsTurn, IdleFacts DEF Leaves
    <3>4. CASE promotionCallFails(w)
      BY <1>h, <3>4, PromotionFailsTurn DEF promotionCallFails, Nexts
    <3> QED BY <3>1, <3>2, <3>3, <3>4
  <2> QED BY <2>1, <2>2
<1>3. CASE Outside
  <2>1. UNCHANGED worker
    BY <1>3 DEF Outside, resolve, checkReads, checkDecides, triage, deployed, leaseExpires
  <2> QED BY <2>1 DEF At
<1> QED BY <1>2, <1>3 DEF Next, Outside

LEMMA FreezeInit ==
  ASSUME Init
  PROVE  FreezeInv
<1>1. /\ \A r \in Schedules : rescanAt[r] = 0 /\ evidence[r] = {} /\ artifact[r]["image-rescan"] = "none"
      /\ bound.clock = 0 /\ hist.frozen = {}
  <2>1. \A r \in Schedules : r \in Runs
    BY DEF Runs
  <2> QED BY <2>1 DEF Init, Types
<1>2. \A w \in Workers : worker[w].pc = "idle"
  BY IdleFacts DEF Init
<1>3. \A w \in Workers : \A r \in Schedules : ~Holds(w, r) /\ ~Past(w, r)
  BY <1>2 DEF Holds, Past, Working
<1> QED BY <1>1, <1>3 DEF FreezeInv, Times, Begun, Ends, Verified, Rescan, VERIFIED_RESCAN_STATUSES

(* docs/image-security.md: a promotion is refused while the newest rescan   *)
(* of its digest that came to an end found a critical finding, whatever     *)
(* else went wrong with that run.                                           *)
THEOREM FrozenIsNotPromotedTheorem == Spec => FrozenIsNotPromoted
<1> DEFINE J == Typed /\ Confirmed /\ FreezeInv
<1>1. Init => J
  BY InitFacts, FreezeInit
<1>2. J /\ [Next]_vars => J'
  BY TypedStep, ConfirmedNext, FreezeStep
<1>3. J /\ [Next]_vars =>
        [\A w \in Workers : At(w, "promote") /\ FrozenFor(image[R(w)])
            => worker'[w].pc \in {"promote", "next", "idle"}]_vars
  BY FrozenStep
<1> QED BY <1>1, <1>2, <1>3, PTL DEF Spec, FrozenIsNotPromoted

-----------------------------------------------------------------------------
(* What an import makes of the Tests. *)

LEMMA IdOf ==
  ASSUME NEW T, Numbered(T), NEW t \in T
  PROVE  t.id \in 1..Cardinality(T) /\ Cardinality(T) \in Nat
BY FS_CardinalityType DEF Numbered

(* Another record under the number of a Test, or one under the next number. *)
LEMMA Renewed ==
  ASSUME NEW T, Numbered(T), NEW t \in T, NEW n, n.id = t.id
  PROVE  Numbered((T \ {t}) \cup {n})
<1> DEFINE U == T \ {t}
           V == U \cup {n}
<1>1. IsFiniteSet(T) /\ Cardinality(T) \in Nat /\ \A a, b \in T : a.id = b.id => a = b
  BY FS_CardinalityType DEF Numbered
<1>2. IsFiniteSet(U) /\ Cardinality(U) = Cardinality(T) - 1 /\ Cardinality(U) \in Nat
  BY <1>1, FS_RemoveElement, FS_CardinalityType
<1>3. n \notin U
  BY <1>1
<1>4. IsFiniteSet(V) /\ Cardinality(V) = Cardinality(U) + 1
  BY <1>2, <1>3, FS_AddElement
<1>5. Cardinality(V) = Cardinality(T)
  BY <1>1, <1>2, <1>4
<1>6. {a.id : a \in V} = {a.id : a \in T}
  OBVIOUS
<1>7. \A a, b \in V : a.id = b.id => a = b
  BY <1>1
<1> QED BY <1>4, <1>5, <1>6, <1>7 DEF Numbered

LEMMA Added ==
  ASSUME NEW T, Numbered(T), NEW n, n.id = Cardinality(T) + 1
  PROVE  Numbered(T \cup {n}) /\ Cardinality(T \cup {n}) = Cardinality(T) + 1
<1> DEFINE V == T \cup {n}
<1>1. IsFiniteSet(T) /\ Cardinality(T) \in Nat
  BY FS_CardinalityType DEF Numbered
<1>2. {a.id : a \in T} = 1..Cardinality(T)
  BY DEF Numbered
<1>3. \A a \in T : a.id \in 1..Cardinality(T)
  BY <1>2
<1>4. \A a \in T : a.id # n.id
  BY <1>1, <1>3
<1>5. n \notin T
  BY <1>4
<1>6. IsFiniteSet(V) /\ Cardinality(V) = Cardinality(T) + 1
  BY <1>1, <1>5, FS_AddElement
<1>7. {a.id : a \in V} = {a.id : a \in T} \cup {n.id}
  OBVIOUS
<1>8. {a.id : a \in V} = 1..(Cardinality(T) + 1)
  <2>1. 1..(Cardinality(T) + 1) = (1..Cardinality(T)) \cup {Cardinality(T) + 1}
    BY <1>1
  <2> QED BY <1>2, <1>7, <2>1
<1>9. \A a, b \in V : a.id = b.id => a = b
  BY <1>4 DEF Numbered
<1> QED BY <1>6, <1>8, <1>9 DEF Numbered

LEMMA ReimportedFacts ==
  ASSUME NEW state \in [Severities -> States], NEW found
  PROVE  /\ Reimported(state, found) \in [Severities -> States]
         /\ \A s \in Severities \cap found : Reimported(state, found)[s] \notin {"none", "closed"}
BY DEF Reimported, States

LEMMA ImportKeeps ==
  ASSUME Kept(tests), NEW source \in Sources, NEW scan, NEW commit, NEW digest, NEW found,
         found \subseteq Severities, NEW n \in 1..2,
         source = "sast" => /\ scan \in SastScans /\ commit \in Runs /\ digest = None
                            /\ found = report[commit].sast[scan].found,
         NEW old
  PROVE  Kept(importScan(old, source, scan, commit, digest, found, n))
<1> DEFINE tag(id, state) == [id |-> id, source |-> source, scan |-> scan, commit |-> commit,
                              digest |-> digest, state |-> Reimported(state, found)]
           none == [s \in Severities |-> "none"]
           N == Cardinality(tests)
           fresh == { tag(N + i, none) : i \in 1..n }
<1>1. ASSUME NEW id, NEW state \in [Severities -> States]
      PROVE  Test(tag(id, state)) /\ tag(id, state).id = id
  <2> DEFINE t == tag(id, state)
  <2>1. /\ DOMAIN t = {"id", "source", "scan", "commit", "digest", "state"}
        /\ t.id = id /\ t.source = source /\ t.scan = scan /\ t.commit = commit /\ t.digest = digest
        /\ t.state = Reimported(state, found)
    OBVIOUS
  <2> HIDE DEF t
  <2>2. t.state \in [Severities -> States] /\ \A s \in found : t.state[s] \notin {"none", "closed"}
    BY <2>1, ReimportedFacts
  <2>3. Test(t)
    BY <2>1, <2>2 DEF Test
  <2> QED BY <2>1, <2>3 DEF t
<1>2. importScan(old, source, scan, commit, digest, found, n) =
        IF old = None THEN tests \cup fresh
        ELSE { IF t.id = old THEN tag(old, t.state) ELSE t : t \in tests }
  BY DEF importScan
<1>3. none \in [Severities -> States] /\ N \in Nat
  BY FS_CardinalityType DEF States, Kept, Numbered
<1> HIDE DEF tag, none, N
<1>4. Kept(tests \cup fresh)
  <2>1. Test(tag(N + 1, none)) /\ tag(N + 1, none).id = N + 1
    BY <1>1, <1>3
  <2>2. Numbered(tests \cup {tag(N + 1, none)}) /\ Cardinality(tests \cup {tag(N + 1, none)}) = N + 1
    BY <2>1, Added DEF Kept, N
  <2>3. CASE n = 1
    <3>1. 1..n = {1}
      BY <2>3
    <3>2. fresh = {tag(N + 1, none)}
      BY <3>1
    <3> QED BY <2>1, <2>2, <3>2 DEF Kept
  <2>4. CASE n = 2
    <3>1. 1..n = {1, 2}
      BY <2>4
    <3>2. tests \cup fresh = (tests \cup {tag(N + 1, none)}) \cup {tag(N + 2, none)}
      BY <3>1
    <3>3. Test(tag(N + 2, none)) /\ tag(N + 2, none).id = (N + 1) + 1
      BY <1>1, <1>3
    <3>4. Numbered((tests \cup {tag(N + 1, none)}) \cup {tag(N + 2, none)})
      BY <2>2, <3>3, Added
    <3>5. \A t \in tests \cup fresh : Test(t)
      BY <2>1, <3>2, <3>3 DEF Kept
    <3> QED BY <3>2, <3>4, <3>5 DEF Kept
  <2> QED BY <2>3, <2>4
<1> DEFINE V == { IF t.id = old THEN tag(old, t.state) ELSE t : t \in tests }
<1>5. Kept(V)
  <2>1. CASE \A t \in tests : t.id # old
    <3>1. V = tests
      BY <2>1
    <3> QED BY <3>1
  <2>2. ASSUME NEW t \in tests, t.id = old PROVE Kept(V)
    <3>1. \A u \in tests : u.id = old <=> u = t
      BY <2>2 DEF Kept, Numbered
    <3>2. V = (tests \ {t}) \cup { tag(old, t.state) }
      BY <3>1
    <3>3. Test(tag(old, t.state)) /\ tag(old, t.state).id = t.id
      BY <1>1, <2>2 DEF Kept, Test
    <3>4. Numbered((tests \ {t}) \cup { tag(old, t.state) })
      BY <3>3, Renewed DEF Kept
    <3> HIDE DEF V
    <3> QED BY <3>2, <3>3, <3>4 DEF Kept
  <2> QED BY <2>1, <2>2
<1> QED BY <1>2, <1>4, <1>5

LEMMA ImportOfKeeps ==
  ASSUME Typed, Kept(tests), NEW r \in Runs, NEW old, NEW scan, NEW n \in 1..2
  PROVE  Kept(ImportOf(old, r, scan, n))
<1>1. /\ \A s \in SastScans : report[r].sast[s].found \subseteq Severities
      /\ report[r].zap.found \subseteq Severities
  <2>1. report[r] \in Report
    BY DEF Typed, Given
  <2>2. report[r].sast \in [SastScans -> Summary] /\ report[r].zap \in Summary
    BY <2>1 DEF Report
  <2> QED BY <2>2 DEF Summary
<1>2. CASE scan \in SastScans
  <2>0. scan # "trivy-image" /\ scan # "zap"
    BY <1>2, ChainAssumption
  <2>1. Kept(importScan(old, "sast", scan, r, None, report[r].sast[scan].found, n))
    BY <1>1, <1>2, ImportKeeps DEF Sources
  <2> QED BY <1>2, <2>0, <2>1 DEF ImportOf
<1>3. CASE scan \notin SastScans /\ scan = "trivy-image"
  <2>1. Kept(importScan(old, "image", "trivy", r, None, IF report[r].critical = 0 THEN {} ELSE {"critical"}, n))
    BY ImportKeeps DEF Sources, Severities
  <2> QED BY <1>3, <2>1 DEF ImportOf
<1>4. CASE scan \notin SastScans /\ scan = "zap"
  <2>1. Kept(importScan(old, "dast", "zap", r, target[r], report[r].zap.found, n))
    BY <1>1, ImportKeeps DEF Sources
  <2> QED BY <1>4, <2>1 DEF ImportOf
<1>5. CASE scan \notin SastScans \cup {"trivy-image", "zap"}
  BY <1>5 DEF ImportOf
<1> QED BY <1>2, <1>3, <1>4, <1>5

-----------------------------------------------------------------------------
(* The Tests and their readers. *)

LEMMA TriageKeeps ==
  ASSUME Kept(tests), NEW t \in tests, NEW s \in Severities, t.state[s] \in {"active", "accepted"}
  PROVE  Kept((tests \ {t}) \cup
              { [t EXCEPT !.state[s] = IF @ = "active" THEN "accepted" ELSE "lapsed"] })
<1> DEFINE n == [t EXCEPT !.state[s] = IF @ = "active" THEN "accepted" ELSE "lapsed"]
<1>1. Test(t)
  BY DEF Kept
<1>2. /\ DOMAIN n = DOMAIN t /\ n.id = t.id /\ n.source = t.source /\ n.scan = t.scan
      /\ n.commit = t.commit /\ n.digest = t.digest
      /\ n.state = [t.state EXCEPT ![s] = IF t.state[s] = "active" THEN "accepted" ELSE "lapsed"]
  BY <1>1 DEF Test
<1> HIDE DEF n
<1>3. n.state \in [Severities -> States] /\ \A x \in Severities : n.state[x] \in {"none", "closed"} => n.state[x] = t.state[x]
  BY <1>1, <1>2 DEF Test, States
<1>4. Test(n)
  <2>1. n.source = "sast" => \A x \in report[n.commit].sast[n.scan].found : n.state[x] \notin {"none", "closed"}
    <3>1. CASE t.source = "sast"
      <4>1. \A x \in report[t.commit].sast[t.scan].found : x \in Severities => n.state[x] \notin {"none", "closed"}
        BY <1>1, <1>3, <3>1 DEF Test
      <4>2. \A x : x \notin Severities => n.state[x] = t.state[x]
        BY <1>1, <1>2 DEF Test
      <4> QED BY <1>1, <1>2, <3>1, <4>1, <4>2 DEF Test
    <3> QED BY <1>2, <3>1
  <2> QED BY <1>1, <1>2, <1>3, <2>1 DEF Test
<1>5. Numbered((tests \ {t}) \cup {n})
  BY <1>2, Renewed DEF Kept
<1> QED BY <1>4, <1>5 DEF Kept, n

LEMMA GivenStep ==
  ASSUME [Next]_vars
  PROVE  report' = report
<1>1. ASSUME NEW w \in Workers, Step(w) PROVE UNCHANGED given
  BY <1>1 DEF Step, begin, validate, rejectRun, missingArtifacts, rejectMetadata,
       startArtifact, handlerThrows, rejectArtifact, processSecurityArtifact, processImageArtifact,
       processImageRescanArtifact, recordFreeze, recordingFails,
       processDastArtifact, ensureImportContext, maybeImportToDefectDojo, importFails,
       acceptArtifact, finishRun, enforcePromotionFreeze, enforceReleaseGate, decide,
       claimDeploymentPromotion, getApp, putApp, poll, promoteFails, promotionCallFails, promoterDies, probe, recordDeployment
<1>2. Outside => UNCHANGED given
  BY DEF Outside, resolve, checkReads, checkDecides, triage, deployed, leaseExpires
<1> QED BY <1>1, <1>2 DEF Next, Outside, vars, given

(* Imports and people change the Tests, and every reader is told. *)
LEMMA TestsStep ==
  ASSUME [Next]_vars
  PROVE  \/ UNCHANGED tests
         \/ \E w \in Workers : maybeImportToDefectDojo(w) \/ importFails(w)
         \/ triage
<1>1. ASSUME NEW w \in Workers, Step(w), ~maybeImportToDefectDojo(w), ~importFails(w)
      PROVE  UNCHANGED tests
  BY <1>1 DEF Step, begin, validate, rejectRun, missingArtifacts, rejectMetadata,
       startArtifact, handlerThrows, rejectArtifact, processSecurityArtifact, processImageArtifact,
       processImageRescanArtifact, recordFreeze, recordingFails,
       processDastArtifact, ensureImportContext,
       acceptArtifact, finishRun, enforcePromotionFreeze, enforceReleaseGate, decide,
       claimDeploymentPromotion, getApp, putApp, poll, promoteFails, promotionCallFails, promoterDies, probe, recordDeployment
<1>2. Outside => UNCHANGED tests \/ triage
  BY DEF Outside, resolve, checkReads, checkDecides, deployed, leaseExpires
<1> QED BY <1>1, <1>2 DEF Next, Outside, vars

LEMMA KeptStep ==
  ASSUME Typed, Kept(tests), [Next]_vars
  PROVE  Kept(tests)'
<1>r. report' = report
  BY GivenStep
<1>k. ASSUME Kept(tests') PROVE Kept(tests)'
  BY <1>r, <1>k DEF Kept, Numbered, Test
<1>1. ASSUME NEW w \in Workers, maybeImportToDefectDojo(w) PROVE Kept(tests')
  <2>1. R(w) \in Runs
    BY <1>1, Busy DEF maybeImportToDefectDojo, At, Typed
  <2>2. PICK n \in 1..2 : tests' = ImportOf(worker[w].test, R(w), Head(worker[w].scans), n)
    BY <1>1 DEF maybeImportToDefectDojo, Post
  <2> QED BY <2>1, <2>2, ImportOfKeeps
<1>2. ASSUME NEW w \in Workers, importFails(w) PROVE Kept(tests')
  <2>1. R(w) \in Runs
    BY <1>2, Busy DEF importFails, At, Typed
  <2>2. tests' = tests \/ tests' = ImportOf(worker[w].test, R(w), Head(worker[w].scans), 1)
    BY <1>2 DEF importFails, Post
  <2> QED BY <2>1, <2>2, ImportOfKeeps
<1>3. ASSUME triage PROVE Kept(tests')
  BY <1>3, TriageKeeps DEF triage
<1>4. ASSUME UNCHANGED tests PROVE Kept(tests')
  BY <1>4
<1> QED BY <1>k, <1>1, <1>2, <1>3, <1>4, TestsStep

(* Only the gate of a promotion makes a handler a reader. *)
LEMMA NotReading ==
  ASSUME Handlers, NEW w \in Workers, Step(w), ~enforceReleaseGate(w)
  PROVE  Turn(w) /\ ~At(w, "decide")'
<1>1. CASE \E r \in Runs : begin(w, r)
  BY <1>1, BeginTurn DEF At
<1>2. CASE validate(w)
  BY <1>2, ValidateTurn DEF At
<1>3. CASE Leaves(w)
  BY <1>3, IdleFacts DEF Leaves, At
<1>4. CASE Nexts(w) \/ PromotionFails(w)
  BY <1>4, PromotionFailsTurn DEF Nexts, At
<1>5. CASE \E pcs : Goes(w, pcs) /\ "decide" \notin pcs
  BY <1>5 DEF Goes, At
<1>6. CASE /\ enforcePromotionFreeze(w) \/ decide(w) \/ claimDeploymentPromotion(w)
           /\ ~PromotionFails(w)
  BY <1>6 DEF enforcePromotionFreeze, decide, claimDeploymentPromotion, Goto, Handlers, Handler, Fields,
     Turn, At
<1>7. CASE promoteFails(w) \/ promotionCallFails(w)
  BY <1>4, <1>7 DEF promoteFails, promotionCallFails
<1> QED
  <2>1. CASE rejectRun(w) \/ missingArtifacts(w) \/ handlerThrows(w) \/ finishRun(w) \/ promoterDies(w)
    BY <1>3, <2>1, RejectRunTurn, MissingArtifactsTurn, HandlerThrowsTurn, FinishRunTurn, PromoterDiesTurn
  <2>2. CASE \/ rejectMetadata(w) \/ rejectArtifact(w) \/ recordingFails(w) \/ importFails(w)
             \/ acceptArtifact(w)
    BY <1>4, <2>2, RejectMetadataTurn, RejectArtifactTurn, RecordingFailsTurn, ImportFailsTurn,
       AcceptArtifactTurn
  <2>3. CASE \/ startArtifact(w) \/ processSecurityArtifact(w) \/ processImageArtifact(w)
             \/ processImageRescanArtifact(w) \/ recordFreeze(w) \/ processDastArtifact(w)
             \/ ensureImportContext(w) \/ maybeImportToDefectDojo(w)
    <3>1. \A x \in Working \cup {"promote"} : x # "decide"
      BY DEF Working
    <3> QED BY <1>5, <2>3, <3>1, StartArtifactTurn, ProcessSecurityArtifactTurn, ProcessImageArtifactTurn,
       ProcessImageRescanArtifactTurn, RecordFreezeTurn, ProcessDastArtifactTurn, EnsureImportContextTurn,
       MaybeImportToDefectDojoTurn
  <2>4. CASE getApp(w) \/ putApp(w) \/ poll(w) \/ probe(w) \/ recordDeployment(w)
    BY <1>5, <2>4, GetAppTurn, PutAppTurn, PollTurn, ProbeTurn, RecordDeploymentTurn
  <2> QED BY <1>1, <1>2, <1>4, <1>6, <1>7, <2>1, <2>2, <2>3, <2>4 DEF Step

(* A change of the Tests moves every reader; otherwise a handler forgets at *)
(* most that it was moved itself.                                           *)
LEMMA MovedStep ==
  ASSUME Typed, NEW w \in Workers, Step(w)
  PROVE  /\ check' = check
         /\ \/ tests' = tests /\ (hist'.moved = hist.moved \/ hist'.moved = hist.moved \ {w})
            \/ hist'.moved = Deciding /\ (maybeImportToDefectDojo(w) \/ importFails(w))
<1>t. hist \in History
  BY DEF Typed, Stored
<1>1. check' = check
  BY DEF Step, begin, validate, rejectRun, missingArtifacts, rejectMetadata,
       startArtifact, handlerThrows, rejectArtifact, processSecurityArtifact, processImageArtifact,
       processImageRescanArtifact, recordFreeze, recordingFails,
       processDastArtifact, ensureImportContext, maybeImportToDefectDojo, importFails,
       acceptArtifact, finishRun, enforcePromotionFreeze, enforceReleaseGate, decide,
       claimDeploymentPromotion, getApp, putApp, poll, promoteFails, promotionCallFails, promoterDies, probe, recordDeployment
<1>2. CASE maybeImportToDefectDojo(w) \/ importFails(w)
  <2>1. hist'.moved = Deciding
    BY <1>t, <1>2 DEF maybeImportToDefectDojo, importFails, History
  <2> QED BY <1>1, <1>2, <2>1
<1>3. CASE ~maybeImportToDefectDojo(w) /\ ~importFails(w)
  <2>1. tests' = tests
    BY <1>3 DEF Step, begin, validate, rejectRun, missingArtifacts, rejectMetadata,
       startArtifact, handlerThrows, rejectArtifact, processSecurityArtifact, processImageArtifact,
       processImageRescanArtifact, recordFreeze, recordingFails,
       processDastArtifact, ensureImportContext,
       acceptArtifact, finishRun, enforcePromotionFreeze, enforceReleaseGate, decide,
       claimDeploymentPromotion, getApp, putApp, poll, promoteFails, promotionCallFails, promoterDies, probe, recordDeployment
  <2>2. hist'.moved = hist.moved \/ hist'.moved = hist.moved \ {w}
    BY <1>t, <1>3 DEF Step, begin, validate, rejectRun, missingArtifacts, rejectMetadata,
       startArtifact, handlerThrows, rejectArtifact, processSecurityArtifact, processImageArtifact,
       processImageRescanArtifact, recordFreeze, recordingFails,
       processDastArtifact, ensureImportContext, History, Forget,
       acceptArtifact, finishRun, enforcePromotionFreeze, enforceReleaseGate, decide,
       claimDeploymentPromotion, getApp, putApp, poll, promoteFails, promotionCallFails, promoterDies, probe, recordDeployment
  <2> QED BY <1>1, <2>1, <2>2
<1> QED BY <1>2, <1>3

LEMMA StoredScan ==
  ASSUME NEW c, NEW own
  PROVE  readStoredEvidence(c, own).commitScan \in {None, report[c].sast}
BY DEF readStoredEvidence, getReleaseCommitScanEvidence

LEMMA ReadsStep ==
  ASSUME Typed, Reads, [Next]_vars
  PROVE  Reads'
<1>h. Handlers /\ hist \in History /\ report' = report
  BY GivenStep DEF Typed, Stored
<1>1. ASSUME NEW w \in Workers, Step(w) PROVE Reads'
  <2>1. Turn(w) /\ check' = check
    BY <1>h, <1>1, SeenStep, ProbeTurn, MovedStep DEF Goes
  <2>2. ASSUME NEW v \in Workers, At(v, "decide")', v \notin hist'.moved
        PROVE  Read(R(v), worker[v].ev, worker[v].read)'
    <3>1. CASE v # w
      <4>1. worker'[v] = worker[v] /\ At(v, "decide")
        BY <2>1, <2>2, <3>1 DEF Turn, At
      <4>2. tests' = tests /\ v \notin hist.moved
        <5>1. v \in Deciding
          BY <4>1 DEF Deciding
        <5> QED BY <1>1, <2>2, <3>1, <5>1, MovedStep
      <4> QED BY <1>h, <4>1, <4>2 DEF Reads, Read, R
    <3>2. CASE v = w
      <4>1. enforceReleaseGate(w)
        BY <1>h, <1>1, <2>2, <3>2, NotReading
      <4>2. worker'[w].read = tests /\ worker'[w].ev = readStoredEvidence(R(w), releaseEvidence(R(w)))
            /\ worker'[w].run = R(w) /\ tests' = tests
        BY <1>h, <4>1 DEF enforceReleaseGate, Handlers, Handler, Fields, R
      <4> QED BY <1>h, <3>2, <4>2, StoredScan DEF Read, R
    <3> QED BY <3>1, <3>2
  <2>3. check.pc = "decide" /\ "check" \notin hist'.moved => Read(check.of, check.ev, check.read)'
    <3>1. SUFFICES ASSUME check.pc = "decide", "check" \notin hist'.moved
                   PROVE  tests' = tests /\ "check" \notin hist.moved
      BY <1>h, <2>1 DEF Reads, Read
    <3>2. "check" \in Deciding /\ w # "check"
      BY <3>1, ChainAssumption DEF Deciding
    <3> QED BY <1>1, <3>1, <3>2, MovedStep
  <2> QED BY <2>1, <2>2, <2>3 DEF Reads
<1>2. CASE Outside
  <2>1. worker' = worker
    BY <1>2, OutsideStep DEF Outside, resolve, checkReads, checkDecides, triage, deployed, leaseExpires
  <2>2. ASSUME NEW r \in Pushes, checkReads(r) PROVE Reads'
    <3>1. /\ tests' = tests /\ hist' = hist /\ check'.pc = "decide" /\ check'.of = r
          /\ check'.read = tests /\ check'.ev = readStoredEvidence(r, getReleaseImageEvidence(r))
      BY <2>2 DEF checkReads
    <3> QED BY <1>h, <2>1, <3>1, StoredScan DEF Reads, Read, At, R
  <2>3. CASE checkDecides
    <3>1. tests' = tests /\ hist'.moved = hist.moved \ {"check"} /\ check'.pc = "idle"
      BY <1>h, <2>3 DEF checkDecides, NoRead, Forget, History
    <3>2. \A v \in Workers : v \notin hist'.moved => v \notin hist.moved
      BY <3>1, ChainAssumption
    <3> QED BY <1>h, <2>1, <3>1, <3>2 DEF Reads, Read, At, R
  <2>4. CASE triage
    <3>1. hist'.moved = Deciding /\ check' = check
      BY <1>h, <2>4 DEF triage, History
    <3>2. /\ \A v \in Workers : At(v, "decide")' => v \in hist'.moved
          /\ check'.pc = "decide" => "check" \in hist'.moved
      BY <2>1, <3>1 DEF Deciding, At
    <3> QED BY <3>1, <3>2 DEF Reads
  <2>5. CASE UNCHANGED <<tests, hist, check>>
    BY <1>h, <2>1, <2>5 DEF Reads, Read, At, R
  <2> QED BY <1>2, <2>2, <2>3, <2>4, <2>5 DEF Outside, resolve, deployed, leaseExpires
<1>3. CASE UNCHANGED vars
  BY <1>3 DEF vars, given, Reads, Read, At, R
<1> QED BY <1>1, <1>2, <1>3 DEF Next, Outside

-----------------------------------------------------------------------------
(* A pass of the gate is clean. *)

LEMMA PassIsClean ==
  ASSUME Typed, Kept(tests), NEW c \in Pushes, NEW ev, Read(c, ev, tests), Decision(c, ev, tests) = {}
  PROVE  Cleared(c)
<1> DEFINE cand == Candidate(c)
<1>1. ScopeBlockers(cand, ev, tests) = {} /\ FindingBlockers(cand, tests, Findings) = {}
  BY DEF Decision, evaluateReleaseGate
<1>2. cand.commit = c /\ cand.digest = image[c]
  BY DEF Candidate
<1> HIDE DEF cand
<1>3. ASSUME NEW t \in tests, t.source = "sast"
      PROVE  /\ t.scan \in SastScans /\ t \in Mine("sast", t.scan)
             /\ findingScope(t, cand) = IF t.commit = c THEN "in-scope" ELSE "other-commit"
  <2>1. t.scan \in SastScans /\ t.digest = None
    BY <1>3 DEF Kept, Test
  <2> QED BY <1>2, <1>3, <2>1 DEF Mine, findingScope
<1>4. \A k \in Stale(tests, cand) : commitScanProof(k[1], k[2], ev)
  BY <1>1 DEF ScopeBlockers
<1>5. PICK t \in tests : t.source = "sast"
  <2>1. \/ \E t \in tests : t.source = "sast" /\ findingScope(t, cand) = "in-scope"
        \/ \E k \in Stale(tests, cand) : k[1] = "sast"
    BY <1>1 DEF ScopeBlockers
  <2>2. ASSUME NEW k \in Stale(tests, cand), k[1] = "sast" PROVE \E t \in tests : t.source = "sast"
    <3>1. PICK t \in tests : k = <<t.source, t.scan>>
      BY DEF Stale
    <3> QED BY <2>2, <3>1
  <2> QED BY <2>1, <2>2
<1>6. \E s \in SastScans : Mine("sast", s) # {}
  BY <1>3, <1>5
<1>7. ASSUME NEW s \in SastScans, NEW sev \in Blocking, report[c].sast[s].ok,
             sev \in report[c].sast[s].found, Mine("sast", s) # {},
             \A u \in Mine("sast", s) : u.state[sev] # "accepted"
      PROVE  FALSE
  <2>0. sev \in Severities
    BY GateAssumption
  <2>1. CASE \E u \in Mine("sast", s) : u.commit = c
    <3>1. PICK u \in Mine("sast", s) : u.commit = c
      BY <2>1
    <3>2. u \in tests /\ u.source = "sast" /\ u.scan = s /\ findingScope(u, cand) = "in-scope"
      BY <1>3, <3>1 DEF Mine
    <3>3. u.state[sev] \in {"active", "lapsed"}
      <4>1. Test(u)
        BY <3>2 DEF Kept
      <4> QED BY <1>7, <2>0, <3>1, <3>2, <4>1 DEF Test, States
    <3> DEFINE f == [test |-> u.id, severity |-> sev, state |-> u.state[sev]]
    <3>4. f \in Findings
      BY <2>0, <3>2 DEF Findings
    <3>5. f.test = u.id /\ f.severity = sev /\ f.state = u.state[sev]
      OBVIOUS
    <3> HIDE DEF f
    <3>6. /\ f.state = "active" => "release-blocking-finding" \in FindingBlockers(cand, tests, Findings)
          /\ f.state = "lapsed" => "risk-acceptance-invalid" \in FindingBlockers(cand, tests, Findings)
      BY <3>2, <3>4, <3>5 DEF FindingBlockers
    <3> QED BY <1>1, <3>3, <3>5, <3>6
  <2>2. CASE \A u \in Mine("sast", s) : u.commit # c
    <3>1. PICK u \in Mine("sast", s) : TRUE
      BY <1>7
    <3>2. u \in tests /\ u.source = "sast" /\ u.scan = s /\ findingScope(u, cand) = "other-commit"
      BY <1>3, <2>2, <3>1 DEF Mine
    <3> DEFINE k == <<"sast", s>>
    <3>3. ~\E t2 \in tests : <<t2.source, t2.scan>> = k /\ findingScope(t2, cand) = "in-scope"
      <4>1. ASSUME NEW t2 \in tests, <<t2.source, t2.scan>> = k PROVE findingScope(t2, cand) # "in-scope"
        <5>1. t2.source = "sast" /\ t2 \in Mine("sast", s)
          BY <4>1 DEF Mine
        <5> QED BY <1>3, <2>2, <5>1
      <4> QED BY <4>1
    <3>4. k \in Stale(tests, cand)
      <4>1. k[1] = "sast" /\ k \in { <<x.source, x.scan>> : x \in tests }
        BY <3>2
      <4> QED BY <3>2, <3>3, <4>1 DEF Stale
    <3>5. commitScanProof("sast", s, ev)
      BY <1>4, <3>4
    <3>6. ev.commitScan = report[c].sast /\ ev.commitScan[s].found \cap Blocking = {}
      BY <3>5 DEF commitScanProof, Read
    <3> QED BY <1>7, <3>6
  <2> QED BY <2>1, <2>2
<1>8. ~Unaccepted(c)
  BY <1>7 DEF Unaccepted
<1> QED BY <1>6, <1>8 DEF Cleared

LEMMA DecideStep ==
  ASSUME Typed, Kept(tests), Reads, [Next]_vars, NEW w \in Workers \ hist.moved,
         At(w, "decide"), worker'[w].pc = "claim"
  PROVE  Cleared(R(w))
<1>h. Handlers
  BY DEF Typed
<1>1. R(w) \in Pushes
  BY <1>h, Busy DEF At, Late
<1>2. PICK v \in Workers : Step(v)
  <2>1. ~Outside
    <3>1. Outside => worker' = worker
      BY DEF Outside, resolve, checkReads, checkDecides, triage, deployed, leaseExpires
    <3> QED BY <3>1 DEF At
  <2>2. ~UNCHANGED vars
    BY DEF vars, At
  <2> QED BY <2>1, <2>2 DEF Next, Outside
<1>3. v = w
  <2>1. Turn(v)
    BY <1>h, <1>2, SeenStep, ProbeTurn DEF Goes
  <2> QED BY <2>1 DEF Turn, At
<1>4. decide(w) \/ handlerThrows(w) \/ promotionCallFails(w)
  BY <1>2, <1>3 DEF Step, At, Promoting, begin, validate, rejectRun, missingArtifacts, rejectMetadata,
       startArtifact, rejectArtifact, processSecurityArtifact, processImageArtifact,
       processImageRescanArtifact, recordFreeze, recordingFails,
       processDastArtifact, ensureImportContext, maybeImportToDefectDojo, importFails,
       acceptArtifact, finishRun, enforcePromotionFreeze, enforceReleaseGate, claimDeploymentPromotion,
       getApp, putApp, poll, promoteFails, promotionCallFails, promoterDies, probe, recordDeployment
<1>5. decide(w) /\ ~PromotionFails(w)
  BY <1>h, <1>4, HandlerThrowsTurn, PromotionFailsTurn, IdleFacts DEF Leaves, Nexts, promotionCallFails
<1>6. Decision(R(w), worker[w].ev, worker[w].read) = {}
  BY <1>5 DEF decide
<1>7. Read(R(w), worker[w].ev, worker[w].read) /\ worker[w].read = tests
  BY DEF Reads, Read
<1> QED BY <1>1, <1>6, <1>7, PassIsClean

LEMMA CheckIsClean ==
  ASSUME Typed, Kept(tests), Reads, CheckPasses, "check" \notin hist.moved
  PROVE  Cleared(check.of)
<1>1. check.of \in Pushes /\ Read(check.of, check.ev, check.read) /\ check.read = tests
  BY DEF Reads, Read, CheckPasses
<1> QED BY <1>1, PassIsClean DEF CheckPasses

LEMMA ReadersInit ==
  ASSUME Init
  PROVE  Kept(tests) /\ Reads
<1>1. tests = {} /\ check.pc = "idle" /\ \A w \in Workers : ~At(w, "decide")
  BY IdleFacts DEF Init, NoRead, At
<1>2. Numbered(tests)
  <2>1. IsFiniteSet({}) /\ Cardinality({}) = 0
    BY FS_EmptySet
  <2> QED BY <1>1, <2>1 DEF Numbered
<1> QED BY <1>1, <1>2 DEF Kept, Reads

(* IInv is inductive. *)
LEMMA Inductive ==
  /\ Init => IInv
  /\ IInv /\ [Next]_vars => IInv'
BY InitFacts, FreezeInit, ReadersInit, TypedStep, ConfirmedNext, FreezeStep, KeptStep, ReadsStep DEF IInv

(* docs/release-gate.md: a pass during which DefectDojo did not change      *)
(* leaves no blocking SAST finding of the candidate, whose scan DefectDojo  *)
(* has a Test of, that nobody accepted, and it has such a Test.             *)
THEOREM GatePassIsCleanTheorem == Spec => GatePassIsClean
<1>1. IInv /\ [Next]_vars =>
        [/\ \A w \in Workers \ hist.moved : At(w, "decide") /\ worker'[w].pc = "claim" => Cleared(R(w))
         /\ CheckPasses /\ "check" \notin hist.moved => Cleared(check.of)]_vars
  BY DecideStep, CheckIsClean DEF IInv
<1> QED BY <1>1, Inductive, PTL DEF Spec, GatePassIsClean

-----------------------------------------------------------------------------
(* Everything stays well formed. *)

Expected(r, t) == \E i \in DOMAIN expectedArtifactTypes(r) : expectedArtifactTypes(r)[i] = t

Others ==
  /\ \A r \in Runs, t \in Types : artifact[r][t] # "none" => Expected(r, t)
  /\ app \in [active : Digests \cup {None}, progress : Digests \cup {None}]
  /\ lease \in Workers \cup {None}

LEMMA CurrentExpected ==
  ASSUME Handlers, NEW w \in Workers, worker[w].pc \notin {"idle", "validate"}, worker[w].todo # <<>>
  PROVE  R(w) \in Runs /\ Current(w) \in Types /\ Expected(R(w), Current(w))
<1>1. R(w) \in Runs /\ worker[w].todo \in Remaining(R(w))
  BY Busy
<1> QED BY <1>1, RemainingFacts DEF Current, Expected

LEMMA OthersStep ==
  ASSUME Typed, Others, [Next]_vars
  PROVE  Others'
<1>h. Handlers
  BY DEF Typed
<1>1. ASSUME NEW w \in Workers, Step(w)
      PROVE  (\A r \in Runs, t \in Types : artifact[r][t] # "none" => Expected(r, t))'
  <2>1. CASE UNCHANGED artifact
    BY <2>1 DEF Others, Expected
  <2>2. ASSUME NEW status, SetArtifact(w, status), worker[w].pc \notin {"idle", "validate"},
               worker[w].todo # <<>>
        PROVE  \A r \in Runs, t \in Types : artifact'[r][t] # "none" => Expected(r, t)
    <3>1. R(w) \in Runs /\ Current(w) \in Types /\ Expected(R(w), Current(w))
      BY <1>h, <2>2, CurrentExpected
    <3>2. ASSUME NEW r \in Runs, NEW t \in Types, r # R(w) \/ t # Current(w)
          PROVE  artifact'[r][t] = artifact[r][t]
      BY <2>2, <3>1, <3>2 DEF SetArtifact, Typed, Stored
    <3> QED BY <3>1, <3>2 DEF Others
  <2>3. CASE rejectMetadata(w) \/ startArtifact(w)
    BY <2>2, <2>3 DEF rejectMetadata, startArtifact, At, Expected
  <2>4. CASE rejectArtifact(w) \/ recordingFails(w) \/ importFails(w) \/ acceptArtifact(w)
    <3>1. worker[w].pc \notin {"idle", "validate"} /\ worker[w].todo # <<>>
      BY <1>h, <2>4, Busy DEF rejectArtifact, recordingFails, importFails, acceptArtifact, At
    <3> QED BY <2>2, <2>4, <3>1 DEF rejectArtifact, recordingFails, importFails, acceptArtifact, Expected
  <2>5. CASE PromotionFails(w) /\ worker[w].pc \in Late
    <3>1. worker[w].pc \notin {"idle", "validate"} /\ worker[w].todo # <<>>
      BY <1>h, <2>5, Busy DEF Late, Promoting
    <3> QED BY <2>2, <2>5, <3>1 DEF PromotionFails, Expected
  <2>6. CASE \/ enforcePromotionFreeze(w) \/ decide(w) \/ claimDeploymentPromotion(w)
             \/ promoteFails(w) \/ promotionCallFails(w)
    <3>1. worker[w].pc \in Late
      BY <2>6 DEF enforcePromotionFreeze, decide, claimDeploymentPromotion, promoteFails,
               promotionCallFails, At, Late
    <3>2. PromotionFails(w) \/ UNCHANGED artifact
      BY <2>6 DEF enforcePromotionFreeze, decide, claimDeploymentPromotion, promoteFails, promotionCallFails
    <3> QED BY <2>1, <2>5, <3>1, <3>2
  <2> QED BY <1>1, <2>1, <2>3, <2>4, <2>6 DEF Step, begin, validate, rejectRun, missingArtifacts,
       handlerThrows, processSecurityArtifact, processImageArtifact, recordFreeze, ensureImportContext,
       processImageRescanArtifact, processDastArtifact, maybeImportToDefectDojo,
       finishRun, enforceReleaseGate, getApp, putApp, poll, promoterDies, probe, recordDeployment, store
<1>2. ASSUME NEW w \in Workers, Step(w)
      PROVE  (app \in [active : Digests \cup {None}, progress : Digests \cup {None}])'
  <2>1. CASE putApp(w)
    <3>1. image[R(w)] \in Digests
      BY <1>h, <2>1, Busy DEF putApp, At, Late, Promoting, Typed, Given
    <3> QED BY <2>1, <3>1 DEF putApp, Others
  <2>2. CASE ~putApp(w)
    <3>1. UNCHANGED app
      BY <1>2, <2>2 DEF Step, begin, validate, rejectRun, missingArtifacts, rejectMetadata,
       startArtifact, handlerThrows, rejectArtifact, processSecurityArtifact, processImageArtifact,
       processImageRescanArtifact, recordFreeze, recordingFails,
       processDastArtifact, ensureImportContext, maybeImportToDefectDojo, importFails,
       acceptArtifact, finishRun, enforcePromotionFreeze, enforceReleaseGate, decide,
       claimDeploymentPromotion, getApp, poll, promoteFails, promotionCallFails, promoterDies, probe, recordDeployment
    <3> QED BY <3>1 DEF Others
  <2> QED BY <2>1, <2>2
<1>3. ASSUME NEW w \in Workers, Step(w) PROVE (lease \in Workers \cup {None})'
  BY <1>3 DEF Others, Step, begin, validate, rejectRun, missingArtifacts, rejectMetadata,
       startArtifact, handlerThrows, rejectArtifact, processSecurityArtifact, processImageArtifact,
       processImageRescanArtifact, recordFreeze, recordingFails,
       processDastArtifact, ensureImportContext, maybeImportToDefectDojo, importFails,
       acceptArtifact, finishRun, enforcePromotionFreeze, enforceReleaseGate, decide,
       claimDeploymentPromotion, getApp, putApp, poll, promoteFails, promotionCallFails, promoterDies, probe, recordDeployment
<1>4. CASE Outside
  <2>1. UNCHANGED artifact
    BY <1>4 DEF Outside, resolve, checkReads, checkDecides, triage, deployed, leaseExpires, store
  <2>2. (app \in [active : Digests \cup {None}, progress : Digests \cup {None}])'
    BY <1>4 DEF Others, Outside, resolve, checkReads, checkDecides, triage, deployed, leaseExpires
  <2>3. (lease \in Workers \cup {None})'
    BY <1>4 DEF Others, Outside, resolve, checkReads, checkDecides, triage, deployed, leaseExpires
  <2> QED BY <2>1, <2>2, <2>3 DEF Others, Expected
<1>5. CASE UNCHANGED vars
  BY <1>5 DEF vars, Others, Expected
<1> QED BY <1>1, <1>2, <1>3, <1>4, <1>5 DEF Next, Outside, Others

(* Runs, artifacts, leases, handlers and the numbers of the Tests stay well *)
(* formed, whatever fails and in whatever order.                            *)
THEOREM TypeCorrect == Spec => []TypeOK
<1>1. Init => Others
  BY DEF Init, Others
<1>2. IInv /\ Others => TypeOK
  <2> SUFFICES ASSUME IInv, Others PROVE TypeOK
    OBVIOUS
  <2>1. Typed /\ Numbered(tests)
    BY DEF IInv, Kept
  <2>2. ASSUME NEW w \in Workers
        PROVE  /\ ~At(w, "idle") => R(w) \in Runs
               /\ worker[w].pc \in Promoting \cup {"promote", "gate", "decide", "claim", "record"}
                    => R(w) \in Pushes /\ Current(w) = "image-promotion"
    BY <2>1, Busy DEF Typed, At, Late, Promoting
  <2>3. /\ run \in [Runs -> {"none", "pending", "rejected", "failed", "accepted"}]
        /\ \A r \in Schedules : target[r] \in Digests \cup {None}
        /\ \A r \in Pushes : deployment[r].status \in {None, "success", "failure"}
    BY <2>1 DEF Typed, Stored, RunStatus, Row
  <2>4. { t.id : t \in tests } = 1..Cardinality(tests)
    BY <2>1 DEF Numbered
  <2> QED BY <2>2, <2>3, <2>4 DEF TypeOK, Others, Expected
<1>3. IInv /\ Others /\ [Next]_vars => (IInv /\ Others)'
  BY Inductive, OthersStep DEF IInv
<1> QED BY <1>1, <1>2, <1>3, Inductive, PTL DEF Spec

=============================================================================
