-------------------------- MODULE MonitoringPolicy --------------------------
(***************************************************************************)
(* What a monitoring sweep concludes about one repository: the checks of   *)
(* packages/monitoring and of the service's evaluateInventoryItem, as a    *)
(* function of the inventory item that was read.                           *)
(*                                                                         *)
(* An item holds                                                           *)
(*   repo      [indexSha, indexAge, scannerState, paused]                  *)
(*   index     the current generation, or None: [commit, config, baseline] *)
(*   runs      default-branch scanner runs: [id, event, sha, verdict,      *)
(*             status, conclusion, age]                                    *)
(*   evidence  the newest evidence of each key: [key, run, status, digest, *)
(*             age]                                                        *)
(*   findings  [open, failedTickets, dropped, droppedSevere, foreign], or  *)
(*             None where the lifecycle is off                             *)
(* An age is the time since the observation; a key stands for the evidence *)
(* key together with its kind, artifact type and environment.  A           *)
(* configuration is a record, or None when absent or not valid.            *)
(***************************************************************************)
EXTENDS Integers, FiniteSets, Absence

CONSTANTS
    IndexWarnAfter, IndexFailAfter,     \* index freshness thresholds
    ScannerMaxAge, EvidenceMaxAge,      \* freshness windows
    SmokeMaxAge,                        \* DAST_SMOKE_MAX_AGE_MS
    NotifyBefore                        \* SUPPRESSION_NOTIFY_BEFORE_MS

Statuses == {"passing", "warning", "failing", "not-applicable"}

Check(key, status) == [key |-> key, status |-> status]

worstMonitoringStatus(statuses) ==
    IF "failing" \in statuses THEN "failing"
    ELSE IF "warning" \in statuses THEN "warning"
    ELSE IF "passing" \in statuses THEN "passing" ELSE "not-applicable"

\* The newest of a set of observations, or None.
Newest(S) == IF S = {} THEN None
             ELSE CHOOSE x \in S : \A y \in S : x.age <= y.age

-----------------------------------------------------------------------------
(* The indexed configuration and baseline.                                 *)

CurrentIndex(item) == /\ item.index # None
                      /\ item.repo.indexSha # None
                      /\ item.index.commit = item.repo.indexSha

ScannerStateOf(mode) == CASE mode = "enforce" -> "enforced"
                          [] mode = "report-only" -> "report-only"
                          [] OTHER -> "not-configured"

\* The configuration a sweep goes by, or None: it must be in the generation
\* the row points at, parse, and agree with the row.
readIndexedConfiguration(item) ==
    IF /\ CurrentIndex(item)
       /\ item.index.config # None
       /\ ScannerStateOf(item.index.config.mode) = item.repo.scannerState
    THEN item.index.config ELSE None

readIndexedBaseline(item) == CurrentIndex(item) /\ item.index.baseline = "valid"

-----------------------------------------------------------------------------
(* Freshness of the index and of the scheduled scanner run.                *)

evaluateFreshness(age, warn, fail) ==
    IF age = None \/ age >= fail THEN "failing"
    ELSE IF age >= warn THEN "warning" ELSE "passing"

\* A fresh index of another commit than the newest run's is a warning.
evaluateIndexFreshness(item) ==
    LET fresh == evaluateFreshness(item.repo.indexAge, IndexWarnAfter, IndexFailAfter)
        newest == Newest(item.runs)
    IN  IF /\ fresh # "failing" /\ newest # None
           /\ item.repo.indexSha # None /\ newest.sha # item.repo.indexSha
        THEN "warning" ELSE fresh

\* Only an accepted run's conclusion is believed.
toObservedConclusion(run) == IF run.verdict = "accepted" THEN run.conclusion ELSE "failure"

latestMatchingRun(item) == Newest({r \in item.runs : r.event = "schedule"})

reconcileExpectedRuns(item) ==
    LET run == latestMatchingRun(item) IN
    IF run = None THEN "failing"
    ELSE IF run.status # "completed"
         THEN IF run.age > ScannerMaxAge THEN "failing" ELSE "warning"
    ELSE IF toObservedConclusion(run) \notin {"success", "neutral", "skipped"} THEN "failing"
    ELSE IF run.age > ScannerMaxAge THEN "warning" ELSE "passing"

-----------------------------------------------------------------------------
(* Evidence of the indexed head.                                           *)

\* A mistake: evidence of any run of the indexed commit counts.
headEvidenceRunsUnvalidated(item) ==
    {r \in item.runs : r.event \in {"schedule", "push"}
                       /\ item.index # None /\ item.index.commit = r.sha}

exactHeadEvidenceRuns(item) ==
    {r \in item.runs : /\ r.event \in {"schedule", "push"}
                       /\ r.verdict = "accepted"
                       /\ item.index # None /\ item.index.commit = r.sha}

relevantEvidence(item) ==
    {e \in item.evidence : \E r \in exactHeadEvidenceRuns(item) : r.id = e.run}

signedImageDigest(item) ==
    LET signed == {e \in relevantEvidence(item) : e.key = "signature" /\ e.digest # None}
    IN  IF signed = {} THEN None ELSE Newest(signed).digest

Requirement(key, maxAge, digest) == [key |-> key, maxAge |-> maxAge, digest |-> digest]

\* Every scanner and every image or DAST step the configuration turns on.
buildEvidenceRequirements(config, digest) ==
    LET Any(keys) == {Requirement(k, EvidenceMaxAge, None) : k \in keys}
        bound == IF config.deployment THEN digest ELSE None
        smoke == IF SmokeMaxAge < EvidenceMaxAge THEN SmokeMaxAge ELSE EvidenceMaxAge
    IN  UNION {
          IF config.semgrep THEN Any({"semgrep", "semgrep-import"}) ELSE {},
          IF config.trivy THEN Any({"trivy", "trivy-import"}) ELSE {},
          IF config.image
          THEN Any({"image-trivy", "sbom"}) \cup {Requirement("signature", EvidenceMaxAge, digest)}
                 \cup (IF config.deployment
                       THEN {Requirement("deployment", EvidenceMaxAge, digest)} ELSE {})
          ELSE {},
          IF config.dast
          THEN {Requirement(k, smoke, bound) : k \in {"zap-smoke", "zap-smoke-import"}}
                 \cup {Requirement(k, EvidenceMaxAge, bound) :
                         k \in {"zap-nightly", "zap-nightly-import"}}
          ELSE {} }

latestMatchingEvidence(q, observed) ==
    Newest({e \in observed : e.key = q.key /\ (q.digest # None => e.digest = q.digest)})

reconcileEvidence(requirements, observed) ==
    {LET e == latestMatchingEvidence(q, observed) IN
     Check(q.key, IF e = None \/ e.status = "failure" THEN "failing"
                  ELSE IF e.age > q.maxAge THEN "warning" ELSE "passing") :
       q \in requirements}

-----------------------------------------------------------------------------
(* Coverage of the nightly rescan of the deployed digest.                  *)

FromAcceptedRun(item, e, event) ==
    \E r \in item.runs : r.id = e.run /\ r.verdict = "accepted" /\ r.event = event

\* A promotion whose run left the bounded window still names the digest.
DeployedDigest(item) ==
    Newest({e \in item.evidence :
              /\ e.key = "deployment" /\ e.status = "success"
              /\ \/ \A r \in item.runs : r.id # e.run
                 \/ FromAcceptedRun(item, e, "push")})

deployedDigestRescanChecks(item) ==
    LET deployment == DeployedDigest(item)
        rescan == Newest({e \in item.evidence :
                     /\ e.key = "image-rescan" /\ e.status = "success"
                     /\ e.digest = deployment.digest
                     /\ FromAcceptedRun(item, e, "schedule")})
        freeze == {e \in item.evidence : e.key = "promotion-freeze"
                                         /\ e.run = rescan.run /\ e.digest = rescan.digest}
    IN  IF deployment = None \/ deployment.digest = None THEN {}
        ELSE IF rescan = None
        THEN {Check("image-rescan-coverage",
                    IF deployment.age <= EvidenceMaxAge THEN "passing" ELSE "failing")}
        ELSE {Check("image-rescan-coverage",
                    IF rescan.age > 2 * EvidenceMaxAge THEN "failing"
                    ELSE IF rescan.age > EvidenceMaxAge THEN "warning" ELSE "passing"),
              Check("image-promotion-freeze",
                    IF freeze = {} \/ \E e \in freeze : e.status = "failure"
                    THEN "failing" ELSE "passing")}

-----------------------------------------------------------------------------
(* Suppressions and the findings lifecycle.                                *)

\* config.suppressions holds the time left of each suppression.
evaluateSuppressions(config) ==
    IF \E left \in config.suppressions : left <= 0 THEN "failing"
    ELSE IF \E left \in config.suppressions : left <= NotifyBefore THEN "warning"
    ELSE "passing"

\* f.open holds the time left until each open finding is due.
isFindingSlaBreached(f) == \E left \in f.open : left <= 0

evaluateFindingsCapacity(f) ==
    IF f.droppedSevere > 0 THEN "failing"
    ELSE IF f.dropped > 0 \/ f.foreign > 0 THEN "warning" ELSE "passing"

evaluateFindingsLifecycle(f) ==
    {Check("findings-sla", IF isFindingSlaBreached(f) THEN "failing" ELSE "passing"),
     Check("findings-ticketing", IF f.failedTickets > 0 THEN "warning" ELSE "passing"),
     Check("findings-capacity", evaluateFindingsCapacity(f))}

-----------------------------------------------------------------------------
(* The whole evaluation.                                                   *)

deterministicApplicable(config) ==
    config.semgrep \/ config.trivy \/ config.image \/ config.dast

StatusesOf(checks) == {c.status : c \in checks}

classifyRepositoryInventoryState(item, config, runStatus, evidenceChecks, indexStatus) ==
    IF config = None THEN "misconfigured"
    ELSE IF ~deterministicApplicable(config) /\ (~config.automatic \/ item.repo.paused)
         THEN "not-applicable"
    ELSE IF latestMatchingRun(item) = None THEN "missing-expected-runs"
    ELSE IF config.mode = "enforce"
         THEN IF \/ ~readIndexedBaseline(item)
                 \/ "failing" \in {runStatus, indexStatus} \cup StatusesOf(evidenceChecks)
              THEN "misconfigured" ELSE "enforced"
    ELSE IF config.mode = "report-only" /\ deterministicApplicable(config) THEN "report-only"
    ELSE "advisory-only"

evaluateRepositoryMonitoring(item, config) ==
    LET index == evaluateIndexFreshness(item)
        run == IF config = None THEN "not-applicable" ELSE reconcileExpectedRuns(item)
        evidence == IF config = None THEN {}
                    ELSE reconcileEvidence(
                           buildEvidenceRequirements(config, signedImageDigest(item)),
                           relevantEvidence(item))
    IN  [checks |-> {Check("index-freshness", index)} \cup evidence
                     \cup (IF config = None THEN {}
                           ELSE {Check("scanner-run", run),
                                 Check("suppression-expiry", evaluateSuppressions(config))}),
         state |-> classifyRepositoryInventoryState(item, config, run, evidence, index)]

supplementaryChecks(item, config) ==
    {Check("config-observability", IF config = None THEN "failing" ELSE "passing")}
    \cup (IF config = None \/ config.mode # "enforce" THEN {}
          ELSE {Check("baseline-readiness",
                      IF readIndexedBaseline(item) THEN "passing" ELSE "failing")})
    \cup (IF config = None \/ ~config.image \/ ~config.deployment THEN {}
          ELSE deployedDigestRescanChecks(item))
    \cup (IF config = None \/ ~config.image THEN {}
          ELSE {Check("image-digest-observability",
                      IF signedImageDigest(item) = None THEN "failing" ELSE "passing")})

evaluateInventoryItem(item) ==
    LET config == readIndexedConfiguration(item)
        base == evaluateRepositoryMonitoring(item, config)
        checks == base.checks \cup supplementaryChecks(item, config)
                    \cup (IF item.findings = None THEN {}
                          ELSE evaluateFindingsLifecycle(item.findings))
    IN  [checks |-> checks, state |-> base.state,
         overall |-> worstMonitoringStatus(StatusesOf(checks))]

\* Alerts are the keys of the checks that warn or fail.
activeAlertsFor(checks) == {c.key : c \in {x \in checks : x.status \in {"warning", "failing"}}}

-----------------------------------------------------------------------------
(* What a sweep adds to the weekly report about one repository.            *)

StatusOf(checks, key) == {c.status : c \in {x \in checks : x.key = key}}

toWeeklyRepositoryMetrics(snapshot) ==
    LET imageKeys == {"image-trivy", "sbom", "signature"}
                       \cup (IF StatusOf(snapshot.checks, "deployment") = {} THEN {} ELSE {"deployment"})
    IN  [state |-> snapshot.state,
         fresh |-> "failing" \notin StatusOf(snapshot.checks, "index-freshness"),
         ran |-> "passing" \in StatusOf(snapshot.checks, "scanner-run"),
         protected |-> "passing" \in StatusOf(snapshot.checks, "deployment"),
         complete |-> \A k \in imageKeys : StatusOf(snapshot.checks, k) = {"passing"}]

\* snapshots is a function from the swept repositories.
buildWeeklyCoverageReport(snapshots) ==
    LET metrics == [r \in DOMAIN snapshots |-> toWeeklyRepositoryMetrics(snapshots[r])]
        Count(P(_)) == Cardinality({r \in DOMAIN metrics : P(metrics[r])})
    IN  [total |-> Cardinality(DOMAIN metrics),
         states |-> [s \in {metrics[r].state : r \in DOMAIN metrics} |->
                       Count(LAMBDA m : m.state = s)],
         fresh |-> Count(LAMBDA m : m.fresh),
         ran |-> Count(LAMBDA m : m.ran),
         protected |-> Count(LAMBDA m : m.protected),
         complete |-> Count(LAMBDA m : m.complete)]
=============================================================================
