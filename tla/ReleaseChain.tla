---------------------------- MODULE ReleaseChain ----------------------------
(***************************************************************************)
(* From scanner evidence to deployment: the workflow-run handler of        *)
(* scanner-evidence.ts, DefectDojo imports, the promotion of an image      *)
(* (digitalocean-deployment.ts), the rescan that freezes a digest, and the *)
(* release gate that reads all of it, for one repository and environment.  *)
(* A push run stands for the commit it builds; two builds may give the     *)
(* same image digest.  A schedule run rescans what is deployed.            *)
(***************************************************************************)
EXTENDS ReleaseGate, Sequences

CONSTANTS
    Pushes, Schedules,   \* workflow runs
    Digests,             \* of the images pushes build
    Workers,             \* webhook workers that run the handler
    RequireReleaseGate,  \* profile.requireReleaseGate
    Scenarios,           \* images built, contents of the artifacts, and bounds
    MaxTests             \* Tests DefectDojo ever holds

Runs == Pushes \cup Schedules

VARIABLES
    image,     \* the digest each push builds
    report,    \* what the artifacts of each run say
    target,    \* the digest a schedule run was told to rescan
    run, artifact, evidence,         \* the three scanner tables
    deployment, rescanAt,            \* their rows with a time
    tests,     \* DefectDojo
    app,       \* the application at DigitalOcean
    lease,     \* deployment_promotions
    worker,    \* handlers in progress
    check,     \* one POST /release/gate
    bound,     \* what is left of each bound, and the clock
    hist       \* history: what properties need to remember

given == <<image, report>>
vars == <<given, target, run, artifact, evidence, deployment, rescanAt, tests, app,
          lease, worker, check, bound, hist>>
store == <<run, artifact, evidence, deployment, rescanAt>>

Types == {"security", "image-validation", "image-promotion", "image-rescan", "dast"}
expectedArtifactTypes(r) ==
    IF r \in Pushes THEN <<"security", "image-validation", "image-promotion">>
                    ELSE <<"image-rescan", "dast">>

Summary == [ok : BOOLEAN, found : SUBSET Severities]
Checks == {"metadata", "archive", "provenance"}
Report == [sast : [SastScans -> Summary], critical : 0..1, zap : Summary,
           bad : SUBSET (Types \X Checks)]   \* the checks each artifact fails

ASSUME ChainAssumption ==
    /\ Pushes \cap Schedules = {} /\ SastScans \cap {"trivy-image", "zap"} = {}
    /\ None \notin Runs \cup Digests \cup Workers /\ "check" \notin Workers
    /\ None \notin [digest : Digests, frozen : BOOLEAN, accepted : BOOLEAN, fresh : BOOLEAN]
    /\ Scenarios \subseteq [image : [Pushes -> Digests], report : [Runs -> Report],
                           tries : [Runs -> Nat],   \* deliveries of each run
                           faults : Nat,            \* failing calls and crashes
                           triage : Nat,            \* decisions people take in DefectDojo
                           checks : Nat]            \* requests to POST /release/gate

Idle == [pc |-> "idle", run |-> None, todo |-> <<>>, scans |-> <<>>, test |-> None,
         failed |-> FALSE, ev |-> None, read |-> {}, seen |-> 0]
NoRead == [ev |-> None, read |-> {}, of |-> None, pc |-> "idle"]

Init ==
    /\ \E s \in Scenarios :
         /\ image = s.image /\ report = s.report
         /\ bound = [tries |-> s.tries, faults |-> s.faults, triage |-> s.triage,
                     checks |-> s.checks, clock |-> 0]
    /\ target = [r \in Schedules |-> None]
    /\ run = [r \in Runs |-> "none"]
    /\ artifact = [r \in Runs |-> [t \in Types |-> "none"]]
    /\ evidence = [r \in Runs |-> {}]
    /\ deployment = [r \in Pushes |-> [status |-> None, at |-> 0]]
    /\ rescanAt = [r \in Schedules |-> 0]
    /\ tests = {}
    /\ app = [active |-> None, progress |-> None]
    /\ lease = None
    /\ worker = [w \in Workers |-> Idle]
    /\ check = NoRead
    /\ hist = [confirmed |-> [run |-> None, at |-> 0, written |-> FALSE], moved |-> {}, frozen |-> {}, torn |-> {}]

(***************************************************************************)
(* Queries of store.ts                                                     *)
(***************************************************************************)
Accepted(r, t) == run[r] = "accepted" /\ artifact[r][t] = "accepted"

(* getSuccessfulDeploymentEvidence and getLatestDeployedImageEvidence: the *)
(* newest accepted deployment, if it has its signature.                    *)
Deployments == { r \in Pushes : deployment[r].status = "success" /\ Accepted(r, "image-promotion") }
getLatestDeployedImageEvidence ==
    IF Deployments = {} THEN None
    ELSE LET newest == CHOOSE r \in Deployments :
                         \A q \in Deployments : deployment[q].at <= deployment[r].at
         IN  IF "signature" \in evidence[newest] THEN image[newest] ELSE None

(* Mutant: a rescan whose import failed does not count.                    *)
OnlyAccepted == {"accepted"}
VERIFIED_RESCAN_STATUSES == {"accepted", "failed"}
Rescans(d) ==
    { r \in Schedules : /\ target[r] = d /\ "image-rescan" \in evidence[r]
                        /\ run[r] \in VERIFIED_RESCAN_STATUSES
                        /\ artifact[r]["image-rescan"] \in VERIFIED_RESCAN_STATUSES }
imageRescanEvidence(r) ==
    [digest   |-> target[r],
     frozen   |-> ~(report[r].critical = 0 /\ "freeze" \in evidence[r]),
     accepted |-> Accepted(r, "image-rescan"),
     fresh    |-> TRUE]
getLatestImageRescanEvidence(d) ==
    IF Rescans(d) = {} THEN None
    ELSE imageRescanEvidence(CHOOSE r \in Rescans(d) : \A q \in Rescans(d) : rescanAt[q] <= rescanAt[r])

(* The summaries of the security artifact of the candidate commit.         *)
getReleaseCommitScanEvidence(c) ==
    IF Accepted(c, "security") THEN report[c].sast ELSE None

(* The signature, image scan and SBOM of an accepted promotion artifact.   *)
getReleaseImageEvidence(c) ==
    IF Accepted(c, "image-promotion") /\ "signature" \in evidence[c]
    THEN [signature |-> [digest |-> image[c], trusted |-> TRUE],
          imageScan |-> [ok |-> report[c].critical = 0, critical |-> report[c].critical],
          sbom |-> "sbom" \in evidence[c]]
    ELSE [signature |-> None, imageScan |-> None, sbom |-> FALSE]

(* What enforceReleaseGate passes: the evidence in hand, not yet accepted. *)
releaseEvidence(c) ==
    [signature |-> [digest |-> image[c], trusted |-> TRUE],
     imageScan |-> [ok |-> report[c].critical = 0, critical |-> report[c].critical],
     sbom |-> TRUE]

readStoredEvidence(c, own) ==
    LET d == getLatestDeployedImageEvidence
    IN  [signature |-> own.signature, imageScan |-> own.imageScan, sbom |-> own.sbom,
         candidateRescan |-> getLatestImageRescanEvidence(image[c]),
         deployedRescan |-> [digest |-> d,
                             rescan |-> IF d = None THEN None ELSE getLatestImageRescanEvidence(d)],
         commitScan |-> getReleaseCommitScanEvidence(c)]

(***************************************************************************)
(* DefectDojo (external): Tests with the tags of their last import, and    *)
(* the state of each finding in them.                                      *)
(***************************************************************************)
Mine(source, scan) == { t \in tests : t.source = source /\ t.scan = scan }
findLatestTest(source, scan) ==
    IF Mine(source, scan) = {} THEN None
    ELSE CHOOSE t \in Mine(source, scan) : \A u \in Mine(source, scan) : u.id <= t.id

(* Findings of the report become active again, those it no longer has are  *)
(* closed (close_old_findings on the default branch); triage stays.        *)
Reimported(state, found) ==
    [s \in Severities |->
        CASE s \in found /\ state[s] \in {"none", "closed"} -> "active"
          [] s \notin found /\ state[s] = "active"          -> "closed"
          [] OTHER                                          -> state[s]]

(* n new Tests when none was found: a POST whose reply was lost is sent    *)
(* again and creates a second one; a repeated reimport changes nothing.    *)
importScan(old, source, scan, commit, digest, found, n) ==
    LET tag(id, state) == [id |-> id, source |-> source, scan |-> scan, commit |-> commit,
                           digest |-> digest, state |-> Reimported(state, found)]
        fresh == { tag(Cardinality(tests) + i, [s \in Severities |-> "none"]) : i \in 1..n }
    IN  IF old = None THEN tests \cup fresh
        ELSE { IF t.id = old THEN tag(old, t.state) ELSE t : t \in tests }

Findings == UNION { { [test |-> t.id, severity |-> s, state |-> t.state[s]] : s \in Severities } : t \in tests }

(***************************************************************************)
(* The handler of a completed workflow run                                 *)
(***************************************************************************)
At(w, pc) == worker[w].pc = pc
R(w) == worker[w].run
Promoting == {"get", "put", "poll", "probe"}
Goto(w, pc) == worker' = [worker EXCEPT ![w].pc = pc]
(* Who has read the Tests and not yet the findings.                        *)
Deciding == { w \in Workers : At(w, "decide") } \cup (IF check.pc = "decide" THEN {"check"} ELSE {})
Fault == bound.faults > 0 /\ bound' = [bound EXCEPT !.faults = @ - 1]

(* The rescan job asks the control plane which digest to scan              *)
(* (image-rescan.ts) before its run completes.                             *)
resolve(r) ==
    /\ target[r] = None /\ run[r] = "none"
    /\ getLatestDeployedImageEvidence # None
    /\ target' = [target EXCEPT ![r] = getLatestDeployedImageEvidence]
    /\ UNCHANGED <<given, store, tests, app, lease, worker, check, bound, hist>>

(* A delivery of workflow_run completed; an accepted run returns at once.  *)
begin(w, r) ==
    /\ At(w, "idle") /\ run[r] # "accepted" /\ bound.tries[r] > 0
    /\ r \in Schedules => target[r] # None
    /\ bound' = [bound EXCEPT !.tries[r] = @ - 1]
    /\ worker' = [worker EXCEPT ![w] = [Idle EXCEPT !.pc = "validate", !.run = r]]
    /\ hist' = [hist EXCEPT !.frozen = @ \ {r},
                              !.torn = IF \E v \in Workers : R(v) = r THEN @ ELSE @ \ {r}]
    /\ UNCHANGED <<given, target, store, tests, app, lease, check>>

(* The run's metadata is trusted, and upsertScannerWorkflowRun says        *)
(* pending, also when it said failed before.                               *)
validate(w) ==
    /\ At(w, "validate")
    /\ run' = [run EXCEPT ![R(w)] = "pending"]
    /\ worker' = [worker EXCEPT ![w].pc = "next", ![w].todo = expectedArtifactTypes(R(w))]
    /\ UNCHANGED <<given, target, artifact, evidence, deployment, rescanAt, tests, app, lease,
                   check, bound, hist>>

(* Metadata that does not match the delivery: rejected, and no retry.      *)
rejectRun(w) ==
    /\ At(w, "validate") /\ Fault
    /\ run' = [run EXCEPT ![R(w)] = "rejected"]
    /\ worker' = [worker EXCEPT ![w] = Idle]
    /\ hist' = [hist EXCEPT !.frozen = @ \ {R(w)}]
    /\ UNCHANGED <<given, target, artifact, evidence, deployment, rescanAt, tests, app, lease,
                   check>>

(* GitHub lists an artifact too few or too many: failed, and a retry.      *)
missingArtifacts(w) ==
    /\ At(w, "next") /\ worker[w].todo = expectedArtifactTypes(R(w)) /\ Fault
    /\ run' = [run EXCEPT ![R(w)] = "failed"]
    /\ worker' = [worker EXCEPT ![w] = Idle]
    /\ UNCHANGED <<given, target, artifact, evidence, deployment, rescanAt, tests, app, lease,
                   check, hist>>

Current(w) == Head(worker[w].todo)
SetArtifact(w, status) == artifact' = [artifact EXCEPT ![R(w)][Current(w)] = status]

(* Size, name, run and digest as GitHub lists them, checked before a row   *)
(* of the artifact says pending.                                           *)
validateArtifactMetadata(r, t) == <<t, "metadata">> \notin report[r].bad

rejectMetadata(w) ==
    /\ At(w, "next") /\ worker[w].todo # <<>>
    /\ ~validateArtifactMetadata(R(w), Current(w))
    /\ SetArtifact(w, "rejected")
    /\ worker' = [worker EXCEPT ![w].todo = Tail(@), ![w].failed = TRUE]
    /\ UNCHANGED <<given, target, run, evidence, deployment, rescanAt, tests, app, lease, check,
                   bound, hist>>

(* The parent row is written before any evidence.                          *)
startArtifact(w) ==
    /\ At(w, "next") /\ worker[w].todo # <<>>
    /\ validateArtifactMetadata(R(w), Current(w))
    /\ SetArtifact(w, "pending")
    /\ Goto(w, "process")
    /\ UNCHANGED <<given, target, run, evidence, deployment, rescanAt, tests, app, lease, check,
                   bound, hist>>

(* The download fails outside the try: run and artifact stay pending.      *)
(* The same is left behind by a process that dies.                         *)
handlerThrows(w) ==
    /\ worker[w].pc \notin Promoting \cup {"idle"} /\ Fault
    /\ worker' = [worker EXCEPT ![w] = Idle]
    /\ hist' = [hist EXCEPT !.moved = @ \ {w}, !.frozen = @ \ {R(w)},
                            !.torn = @ \cup ({R(w)} \cap Schedules)]
    /\ UNCHANGED <<given, target, store, tests, app, lease, check>>

Record(w, keys) == evidence' = [evidence EXCEPT ![R(w)] = @ \cup keys]
Scans(w, scans) == worker' = [worker EXCEPT ![w].pc = "import", ![w].scans = scans]

(* Limits of the archive and its files; the signed provenance names this   *)
(* repository, run and commit; an image that is promoted has no critical   *)
(* finding; a rescan is of the digest that is deployed now.                *)
parseArtifactArchive(r, t) == <<t, "archive">> \notin report[r].bad
validateArtifactProvenance(r, t) == <<t, "provenance">> \notin report[r].bad
validatePromotionEvidence(r, t) == t = "image-promotion" => report[r].critical = 0
rescansDeployed(r, t) == t = "image-rescan" => getLatestDeployedImageEvidence = target[r]

Refused(w) ==
    LET r == R(w) t == Current(w)
    IN  ~( /\ parseArtifactArchive(r, t) /\ validateArtifactProvenance(r, t)
           /\ validatePromotionEvidence(r, t) /\ rescansDeployed(r, t) )

(* The image scan and the SBOM of a promotion are on record before its     *)
(* critical findings refuse it.                                            *)
RecordedBeforeRefusal(r, t) ==
    IF /\ t = "image-promotion" /\ ~validatePromotionEvidence(r, t)
       /\ parseArtifactArchive(r, t) /\ validateArtifactProvenance(r, t)
    THEN {"image-trivy", "sbom"} ELSE {}

rejectArtifact(w) ==
    /\ At(w, "process") /\ Refused(w)
    /\ Record(w, RecordedBeforeRefusal(R(w), Current(w)))
    /\ SetArtifact(w, "rejected")
    /\ worker' = [worker EXCEPT ![w].pc = "next", ![w].todo = Tail(@), ![w].failed = TRUE]
    /\ UNCHANGED <<given, target, run, deployment, rescanAt, tests, app, lease, check, bound, hist>>

(* The rows of an artifact, as far as they may be on record when a         *)
(* statement fails, which rejects the artifact.  The rows of a rescan are  *)
(* steps of their own.                                                     *)
PartOf(w) ==
    IF At(w, "freeze") THEN {{}, {"freeze"}}
    ELSE CASE Current(w) = "security"         -> {{}, {"scans"}, {"scans", "gate"}}
           [] Current(w) = "image-validation" -> {{}, {"image-trivy"}, {"image-trivy", "sbom"}}
           [] Current(w) = "image-promotion"  -> {{}, {"image-trivy"}, {"image-trivy", "sbom"},
                                                  {"image-trivy", "sbom", "signature"}}
           [] Current(w) = "image-rescan"     -> {{}}
           [] OTHER                           -> {{}, {"zap"}}

recordingFails(w) ==
    /\ At(w, "freeze") \/ (At(w, "process") /\ ~Refused(w))
    /\ Fault
    /\ \E keys \in PartOf(w) : Record(w, keys)
    /\ SetArtifact(w, "rejected")
    /\ worker' = [worker EXCEPT ![w].pc = "next", ![w].todo = Tail(@), ![w].failed = TRUE]
    /\ UNCHANGED <<given, target, run, deployment, rescanAt, tests, app, lease, check, hist>>

processSecurityArtifact(w) ==
    /\ At(w, "process") /\ Current(w) = "security" /\ ~Refused(w)
    /\ Record(w, {"scans", "gate"})
    /\ \E q \in { s \in [1..Cardinality(SastScans) -> SastScans] :
                   \A i, j \in DOMAIN s : i # j => s[i] # s[j] } :
         Scans(w, SelectSeq(q, LAMBDA s : report[R(w)].sast[s].ok))
    /\ UNCHANGED <<given, target, run, artifact, deployment, rescanAt, tests, app, lease, check,
                   bound, hist>>

processImageArtifact(w) ==
    /\ At(w, "process") /\ Current(w) \in {"image-validation", "image-promotion"} /\ ~Refused(w)
    /\ IF Current(w) = "image-validation"
       THEN Record(w, {"image-trivy", "sbom"}) /\ Scans(w, <<"trivy-image">>)
       ELSE Record(w, {"image-trivy", "sbom", "signature"}) /\ Goto(w, "promote")
    /\ UNCHANGED <<given, target, run, artifact, deployment, rescanAt, tests, app, lease, check,
                   bound, hist>>

(* Coverage first, then the freeze, then the import.                       *)
processImageRescanArtifact(w) ==
    /\ At(w, "process") /\ Current(w) = "image-rescan" /\ ~Refused(w)
    /\ Record(w, {"image-rescan"})
    /\ rescanAt' = [rescanAt EXCEPT ![R(w)] = bound.clock + 1]
    /\ bound' = [bound EXCEPT !.clock = @ + 1]
    /\ Goto(w, "freeze")
    /\ UNCHANGED <<given, target, run, artifact, deployment, tests, app, lease, check, hist>>

recordFreeze(w) ==
    /\ At(w, "freeze")
    /\ Record(w, {"freeze"})
    /\ Scans(w, <<"rescan">>)
    /\ UNCHANGED <<given, target, run, artifact, deployment, rescanAt, tests, app, lease, check,
                   bound, hist>>

processDastArtifact(w) ==
    /\ At(w, "process") /\ Current(w) = "dast" /\ ~Refused(w)
    /\ Record(w, {"zap"})
    /\ Scans(w, IF report[R(w)].zap.ok THEN <<"zap">> ELSE <<>>)
    /\ UNCHANGED <<given, target, run, artifact, deployment, rescanAt, tests, app, lease, check,
                   bound, hist>>

(* The Tests a scan goes to; the image-rescan engagement is one no gate    *)
(* reads.                                                                  *)
Stream(scan) ==
    CASE scan \in SastScans     -> <<"sast", scan>>
      [] scan = "trivy-image"   -> <<"image", "trivy">>
      [] scan = "zap"           -> <<"dast", "zap">>
      [] OTHER                  -> <<"image-rescan", scan>>

(* The Test that was found gets the report of run r, with its tags.        *)
ImportOf(old, r, scan, n) ==
    CASE scan \in SastScans     -> importScan(old, "sast", scan, r, None, report[r].sast[scan].found, n)
      [] scan = "trivy-image"   -> importScan(old, "image", "trivy", r, None,
                                     IF report[r].critical = 0 THEN {} ELSE {"critical"}, n)
      [] scan = "zap"           -> importScan(old, "dast", "zap", r, target[r], report[r].zap.found, n)
      [] OTHER                  -> tests

(* The latest Test is looked up in one request, and imported into in       *)
(* another.                                                                *)
ensureImportContext(w) ==
    /\ At(w, "import") /\ worker[w].scans # <<>>
    /\ \E found \in {findLatestTest(Stream(Head(worker[w].scans))[1], Stream(Head(worker[w].scans))[2])} :
         worker' = [worker EXCEPT ![w].pc = "post", ![w].test = IF found = None THEN None ELSE found.id]
    /\ UNCHANGED <<given, target, store, tests, app, lease, check, bound, hist>>

Post(w, n) == /\ tests' = ImportOf(worker[w].test, R(w), Head(worker[w].scans), n)
              /\ Cardinality(tests') <= MaxTests

(* maybeImportToDefectDojo, the call that succeeds; n = 2 is a lost reply. *)
maybeImportToDefectDojo(w) ==
    /\ At(w, "post")
    /\ \E n \in 1..2 :
         /\ n = 2 => bound.faults > 0
         /\ Post(w, n)
         /\ bound' = [bound EXCEPT !.faults = @ - (n - 1)]
    /\ worker' = [worker EXCEPT ![w].pc = "import", ![w].scans = Tail(@), ![w].test = None]
    /\ hist' = [hist EXCEPT !.moved = Deciding]
    /\ UNCHANGED <<given, target, store, app, lease, check>>

(* The search fails, or the import, before or after it took effect: the    *)
(* artifact is failed and the next one is processed.                       *)
importFails(w) ==
    /\ (At(w, "import") /\ worker[w].scans # <<>>) \/ At(w, "post")
    /\ Fault
    /\ tests' = tests \/ (At(w, "post") /\ Post(w, 1))
    /\ hist' = [hist EXCEPT !.moved = Deciding]
    /\ SetArtifact(w, "failed")
    /\ worker' = [worker EXCEPT ![w].pc = "next", ![w].todo = Tail(@), ![w].scans = <<>>,
                               ![w].test = None, ![w].failed = TRUE]
    /\ UNCHANGED <<given, target, run, evidence, deployment, rescanAt, app, lease, check>>

acceptArtifact(w) ==
    /\ At(w, "import") /\ worker[w].scans = <<>>
    /\ SetArtifact(w, "accepted")
    /\ worker' = [worker EXCEPT ![w].pc = "next", ![w].todo = Tail(@)]
    /\ UNCHANGED <<given, target, run, evidence, deployment, rescanAt, tests, app, lease, check,
                   bound, hist>>

(* Every artifact accepted: the run is; otherwise failed, and a retry.     *)
finishRun(w) ==
    /\ At(w, "next") /\ worker[w].todo = <<>>
    /\ run' = [run EXCEPT ![R(w)] = IF worker[w].failed THEN "failed" ELSE "accepted"]
    /\ worker' = [worker EXCEPT ![w] = Idle]
    /\ hist' = [hist EXCEPT !.frozen =
                  IF R(w) \in Schedules \ hist.torn /\ artifact[R(w)]["image-rescan"] # "rejected"
                  THEN @ \cup {R(w)} ELSE @ \ {R(w)}]
    /\ UNCHANGED <<given, target, artifact, evidence, deployment, rescanAt, tests, app, lease,
                   check, bound>>

(***************************************************************************)
(* promote                                                                 *)
(***************************************************************************)
(* A refused or failed promotion overwrites the row of the run's           *)
(* deployment, whatever it said, and fails the artifact.                   *)
PromotionFails(w) ==
    /\ deployment' = [deployment EXCEPT ![R(w)] = [status |-> "failure", at |-> 0]]
    /\ SetArtifact(w, "failed")
    /\ worker' = [worker EXCEPT ![w].pc = "next", ![w].todo = Tail(@), ![w].failed = TRUE,
                               ![w].ev = None, ![w].read = {}, ![w].seen = 0]

FrozenNow(d) == LET e == getLatestImageRescanEvidence(d) IN e # None /\ e.frozen

enforcePromotionFreeze(w) ==
    /\ At(w, "promote")
    /\ IF FrozenNow(image[R(w)])
       THEN PromotionFails(w)
       ELSE Goto(w, IF RequireReleaseGate THEN "gate" ELSE "claim") /\ UNCHANGED <<deployment, artifact>>
    /\ UNCHANGED <<given, target, run, evidence, rescanAt, tests, app, lease, check, bound, hist>>

(* The gate reads the store and the Tests, then the findings.              *)
enforceReleaseGate(w) ==
    /\ At(w, "gate")
    /\ worker' = [worker EXCEPT ![w].pc = "decide", ![w].read = tests,
                               ![w].ev = readStoredEvidence(R(w), releaseEvidence(R(w)))]
    /\ UNCHANGED <<given, target, store, tests, app, lease, check, bound, hist>>

Candidate(r) == [commit |-> r, digest |-> image[r]]
Decision(r, ev, read) ==
    evaluateReleaseGate(Candidate(r), ev, [available |-> TRUE, tests |-> read, findings |-> Findings])
Forget(reader) == hist' = [hist EXCEPT !.moved = @ \ {reader}]

decide(w) ==
    /\ At(w, "decide")
    /\ IF Decision(R(w), worker[w].ev, worker[w].read) = {}
       THEN /\ worker' = [worker EXCEPT ![w].pc = "claim", ![w].ev = None, ![w].read = {}]
            /\ UNCHANGED <<deployment, artifact>>
       ELSE PromotionFails(w)
    /\ Forget(w)
    /\ UNCHANGED <<given, target, run, evidence, rescanAt, tests, app, lease, check, bound>>

claimDeploymentPromotion(w) ==
    /\ At(w, "claim")
    /\ IF lease = None
       THEN lease' = w /\ Goto(w, "get") /\ UNCHANGED <<deployment, artifact>>
       ELSE PromotionFails(w) /\ UNCHANGED lease
    /\ UNCHANGED <<given, target, run, evidence, rescanAt, tests, app, check, bound, hist>>

(* GET: nothing to do, a deployment to wait for, or a PUT to make.         *)
getApp(w) ==
    /\ At(w, "get")
    /\ worker' = [worker EXCEPT
                    ![w].pc = CASE app.active = image[R(w)]   -> "probe"
                                [] app.progress = image[R(w)] -> "poll"
                                [] OTHER                      -> "put"]
    /\ UNCHANGED <<given, target, store, tests, app, lease, check, bound, hist>>

putApp(w) ==
    /\ At(w, "put")
    /\ app' = [app EXCEPT !.progress = image[R(w)]]
    /\ Goto(w, "poll")
    /\ UNCHANGED <<given, target, store, tests, lease, check, bound, hist>>

poll(w) ==
    /\ At(w, "poll") /\ app.active = image[R(w)]
    /\ Goto(w, "probe")
    /\ UNCHANGED <<given, target, store, tests, app, lease, check, bound, hist>>

(* The deadline, a failed phase, an unhealthy probe or a call that fails:  *)
(* the lease is released (finally), and what was PUT may still go live.    *)
promoteFails(w) ==
    /\ worker[w].pc \in Promoting /\ Fault
    /\ lease' = IF lease = w THEN None ELSE lease
    /\ PromotionFails(w)
    /\ UNCHANGED <<given, target, run, evidence, rescanAt, tests, app, check, hist>>

(* A request of a check before the claim fails, or the claim, perhaps      *)
(* after it took effect, or the record of the deployment.                  *)
promotionCallFails(w) ==
    /\ worker[w].pc \in {"promote", "gate", "decide", "claim", "record"} /\ Fault
    /\ lease' \in {lease} \cup (IF At(w, "claim") /\ lease = None THEN {w} ELSE {})
    /\ PromotionFails(w)
    /\ Forget(w)
    /\ UNCHANGED <<given, target, run, evidence, rescanAt, tests, app, check>>

(* The process dies in between: the lease stays until it lapses.           *)
promoterDies(w) ==
    /\ worker[w].pc \in Promoting /\ Fault
    /\ worker' = [worker EXCEPT ![w] = Idle]
    /\ UNCHANGED <<given, target, store, tests, app, lease, check, hist>>

leaseExpires ==
    /\ lease # None /\ worker[lease].pc \notin Promoting
    /\ lease' = None
    /\ UNCHANGED <<given, target, store, tests, app, worker, check, bound, hist>>

(* Healthy: the observation is timed, and then the lease is released.      *)
probe(w) ==
    /\ At(w, "probe")
    /\ bound' = [bound EXCEPT !.clock = @ + 1]
    /\ worker' = [worker EXCEPT ![w].pc = "record", ![w].seen = bound.clock + 1]
    /\ lease' = IF lease = w THEN None ELSE lease
    /\ hist' = [hist EXCEPT !.confirmed = [run |-> R(w), at |-> bound.clock + 1, written |-> FALSE]]
    /\ UNCHANGED <<given, target, store, tests, app, check>>

(* Mutant: the time of the write is recorded, not that of the observation. *)
recordDeploymentNow(w) ==
    /\ At(w, "record")
    /\ bound' = [bound EXCEPT !.clock = @ + 1]
    /\ deployment' = [deployment EXCEPT ![R(w)] = [status |-> "success", at |-> bound.clock + 1]]
    /\ worker' = [worker EXCEPT ![w].pc = "import", ![w].seen = 0]
    /\ hist' = [hist EXCEPT !.confirmed.written =
                  IF R(w) = hist.confirmed.run THEN worker[w].seen = hist.confirmed.at ELSE @]
    /\ UNCHANGED <<given, target, run, artifact, evidence, rescanAt, tests, app, lease, check>>

recordDeployment(w) ==
    /\ At(w, "record")
    /\ deployment' = [deployment EXCEPT ![R(w)] = [status |-> "success", at |-> worker[w].seen]]
    /\ worker' = [worker EXCEPT ![w].pc = "import", ![w].seen = 0]
    /\ hist' = [hist EXCEPT !.confirmed.written =
                  IF R(w) = hist.confirmed.run THEN worker[w].seen = hist.confirmed.at ELSE @]
    /\ UNCHANGED <<given, target, run, artifact, evidence, rescanAt, tests, app, lease, check, bound>>

(* The provider (external) finishes or gives up the deployment.            *)
deployed ==
    /\ app.progress # None
    /\ \/ app' = [active |-> app.progress, progress |-> None] /\ UNCHANGED bound
       \/ app' = [app EXCEPT !.progress = None] /\ Fault
    /\ UNCHANGED <<given, target, store, tests, lease, worker, check, hist>>

(***************************************************************************)
(* POST /release/gate, and people in DefectDojo                            *)
(***************************************************************************)
checkReads(r) ==
    /\ check.pc = "idle" /\ bound.checks > 0
    /\ bound' = [bound EXCEPT !.checks = @ - 1]
    /\ check' = [pc |-> "decide", of |-> r, read |-> tests,
                 ev |-> readStoredEvidence(r, getReleaseImageEvidence(r))]
    /\ UNCHANGED <<given, target, store, tests, app, lease, worker, hist>>

checkDecides ==
    /\ check.pc = "decide"
    /\ check' = NoRead
    /\ Forget("check")
    /\ UNCHANGED <<given, target, store, tests, app, lease, worker, bound>>

(* A risk is accepted, or its acceptance expires.                          *)
triage ==
    /\ bound.triage > 0
    /\ \E t \in tests, s \in Severities :
         /\ t.state[s] \in {"active", "accepted"}
         /\ tests' = (tests \ {t}) \cup
              { [t EXCEPT !.state[s] = IF @ = "active" THEN "accepted" ELSE "lapsed"] }
    /\ bound' = [bound EXCEPT !.triage = @ - 1]
    /\ hist' = [hist EXCEPT !.moved = Deciding]
    /\ UNCHANGED <<given, target, store, app, lease, worker, check>>

Step(w) ==
    \/ \E r \in Runs : begin(w, r)
    \/ validate(w) \/ rejectRun(w) \/ missingArtifacts(w)
    \/ rejectMetadata(w) \/ startArtifact(w) \/ handlerThrows(w) \/ rejectArtifact(w)
    \/ recordingFails(w)
    \/ processSecurityArtifact(w) \/ processImageArtifact(w)
    \/ processImageRescanArtifact(w) \/ recordFreeze(w) \/ processDastArtifact(w)
    \/ ensureImportContext(w) \/ maybeImportToDefectDojo(w) \/ importFails(w) \/ acceptArtifact(w) \/ finishRun(w)
    \/ enforcePromotionFreeze(w) \/ enforceReleaseGate(w) \/ decide(w)
    \/ claimDeploymentPromotion(w) \/ getApp(w) \/ putApp(w) \/ poll(w)
    \/ promoteFails(w) \/ promotionCallFails(w) \/ promoterDies(w) \/ probe(w) \/ recordDeployment(w)

Next ==
    \/ \E w \in Workers : Step(w)
    \/ \E r \in Schedules : resolve(r)
    \/ \E r \in Pushes : checkReads(r)
    \/ checkDecides \/ triage \/ deployed \/ leaseExpires

Spec == Init /\ [][Next]_vars

(***************************************************************************)
(* Properties                                                              *)
(***************************************************************************)
(* Runs, artifacts, Tests, leases and handlers stay well formed: a handler *)
(* at work has a run, one that promotes is at a promotion artifact, and    *)
(* DefectDojo numbers its Tests without a gap.                             *)
TypeOK ==
    /\ run \in [Runs -> {"none", "pending", "rejected", "failed", "accepted"}]
    /\ \A r \in Runs, t \in Types :
         artifact[r][t] # "none" => \E i \in DOMAIN expectedArtifactTypes(r) : expectedArtifactTypes(r)[i] = t
    /\ \A r \in Schedules : target[r] \in Digests \cup {None}
    /\ \A r \in Pushes : deployment[r].status \in {None, "success", "failure"}
    /\ app \in [active : Digests \cup {None}, progress : Digests \cup {None}]
    /\ lease \in Workers \cup {None}
    /\ { t.id : t \in tests } = 1..Cardinality(tests)
    /\ \A w \in Workers :
         /\ ~At(w, "idle") => R(w) \in Runs
         /\ worker[w].pc \in Promoting \cup {"promote", "gate", "decide", "claim", "record"}
              => R(w) \in Pushes /\ Current(w) = "image-promotion"

(* docs/release-gate.md: the gate requires that DefectDojo describes the   *)
(* candidate, and that no unresolved blocking finding of it is known.      *)
(* Whatever the order of imports, retries and commits, after a pass during *)
(* which DefectDojo did not change it has a SAST Test, and no blocking     *)
(* finding of the candidate's own SAST reports is one that nobody accepted *)
(* and whose scan it has a Test of: the fallback of commitScanProof must   *)
(* not let one through.                                                    *)
Unaccepted(c) ==
    \E s \in SastScans, sev \in Blocking :
       /\ report[c].sast[s].ok /\ sev \in report[c].sast[s].found
       /\ Mine("sast", s) # {} /\ \A t \in Mine("sast", s) : t.state[sev] # "accepted"
Cleared(c) == ~Unaccepted(c) /\ \E s \in SastScans : Mine("sast", s) # {}
CheckPasses == check.pc = "decide" /\ Decision(check.of, check.ev, check.read) = {}
GatePassIsClean ==
    [][/\ \A w \in Workers \ hist.moved : At(w, "decide") /\ worker'[w].pc = "claim" => Cleared(R(w))
       /\ CheckPasses /\ "check" \notin hist.moved => Cleared(check.of)]_vars

(* docs/image-security.md: a rescan that found a critical finding freezes  *)
(* its digest, also when its run failed for another reason.  A promotion   *)
(* is refused when the newest rescan of its digest whose handler came to   *)
(* an end found one, and no handler is at work on a rescan of it or left   *)
(* one unfinished.                                                         *)
Ended(d) == { r \in hist.frozen : target[r] = d }
FrozenFor(d) ==
    /\ \E r \in Ended(d) : report[r].critical # 0 /\ \A q \in Ended(d) : rescanAt[q] <= rescanAt[r]
    /\ \A r \in Schedules : target[r] = d =>
         (r \in Ended(d) \/ run[r] = "none") /\ \A w \in Workers : R(w) # r
FrozenIsNotPromoted ==
    [][\A w \in Workers :
         At(w, "promote") /\ FrozenFor(image[R(w)]) => worker'[w].pc \in {"promote", "next", "idle"}]_vars

(* scanner-evidence.ts:2117: a DefectDojo outage retries the artifact      *)
(* "without ever hiding the freeze".  A digest that is frozen stays frozen *)
(* until another rescan of it is recorded.                                 *)
FreezeIsNeverHidden ==
    [][\A d \in Digests : FrozenNow(d) /\ UNCHANGED rescanAt => FrozenNow(d)']_vars

(* store.ts:3309: the newest accepted deployment is the running digest.    *)
(* Once the handler that confirmed a deployment last has written it, no    *)
(* other deployment is newer on record, in whatever order handlers write:  *)
(* a slow write must not make an older digest look like the running one.   *)
RecordFollowsConfirmation ==
    LET last == hist.confirmed.run
    IN  hist.confirmed.written /\ deployment[last].status = "success"
        => \A r \in Pushes : deployment[r].status = "success" => deployment[r].at <= deployment[last].at
==============================================================================
