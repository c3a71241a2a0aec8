---------------------------- MODULE RolloutPolicy ----------------------------
(***************************************************************************)
(* How guardianctl and the readiness verifier of an enforce-mode gate read *)
(* one repository.  A history is the sequence of commits of the default    *)
(* branch, each with its content of the managed files; runs are the runs   *)
(* of the caller workflow on it, each a sequence of attempts; t is the time of   *)
(* the reading.  A commit is named by its position, a run by its own.      *)
(***************************************************************************)
EXTENDS Integers, Sequences, FiniteSets, FiniteSetsExt, SequencesExt, Absence

\* None: a file that is not there, a time or a run that is not known.
CONSTANTS
    MinimumDays,        \* the observation period before enforcement
    MaxAge,             \* how old the newest run may be (expectedRunMaxAgeHours)
    MaxListed,          \* runs that the page limit lets guardianctl list
    SuppressionExpiry,  \* when the suppression in the configuration expires
    HasImage,           \* whether the repository has an image section
    NewestJobFirst      \* whether GitHub lists a run's jobs from its last attempt on

ASSUME PolicyAssumption == /\ None \notin Nat
                           /\ MinimumDays \in Nat \ {0} /\ MaxAge \in Nat
                           /\ MaxListed \in Nat \ {0} /\ SuppressionExpiry \in Nat
                           /\ HasImage \in BOOLEAN /\ NewestJobFirst \in BOOLEAN

-----------------------------------------------------------------------------
(* The managed files.                                                      *)

\* The caller workflow that the configuration stands for.  Only its image job
\* depends on the scanner mode.
generateCallerWorkflow(pin, mode) == [pin |-> pin, policyMode |-> IF HasImage THEN mode ELSE None]

\* The pin an inventory without a target derives from the repository itself.
deriveConfiguredWorkflowSha(config, workflow) ==
    IF config # None THEN config.pin ELSE IF workflow # None THEN workflow.pin ELSE None

\* Its branches are consistent and no suppression has expired.
inspectRepositoryConfiguration(config, t) ==
    "repository" \notin config.broken /\ SuppressionExpiry > t

inspectImageConfiguration(config) == ~HasImage \/ "image" \notin config.broken

inspectDastConfiguration(config) == "dast" \notin config.broken

\* A legacy list must not be empty; a versioned document may be.
inspectBaselineContent(baseline) == baseline # None /\ baseline.kind \in {"v1", "legacy"}

inspectBaseline(baseline, mode) == mode = "advisory" \/ inspectBaselineContent(baseline)

\* The App's access, from its installations on the repository, suspended or not, or
\* from None when the operator's token may not list them.
inspectAppAccess(installations) ==
    CASE installations = None -> "unobservable"
      [] installations = {}   -> "missing"
      [] OTHER -> IF \A i \in installations : i = "suspended" THEN "suspended" ELSE "installed"

-----------------------------------------------------------------------------
(* The history of the managed files.                                       *)

Touching(h, file) == {i \in 2 .. Len(h) : h[i][file] # h[i - 1][file]}

latestPathCommitTime(h, file) ==
    IF Touching(h, file) = {} THEN None ELSE h[Max(Touching(h, file))].at

ChangeTimes(h) == [file \in {"config", "workflow"} |-> latestPathCommitTime(h, file)]

\* The later of the two times, which two requests read.
callerChangedAt(times) == times["workflow"]
managedConfigurationChangedAt(times) ==
    LET known == {times["config"], times["workflow"]} \ {None}
    IN  IF known = {} THEN None ELSE Max(known)

ModeAt(h, i) == IF h[i].config = None THEN None ELSE h[i].config.mode

\* The configuration's commits are walked newest first: those in enforce mode are
\* passed over when the current mode is enforce, then the report-only ones count
\* until the first other.
reportOnlyConfigurationStart(h, currentMode) ==
    LET all     == Touching(h, "config")
        walked  == IF currentMode = "report-only" THEN all
                   ELSE {i \in all : \E j \in all : j >= i /\ ModeAt(h, j) # "enforce"}
        stretch == {i \in walked : \A j \in walked : j >= i => ModeAt(h, j) = "report-only"}
    IN  IF currentMode = "advisory" \/ stretch = {} THEN None ELSE h[Min(stretch)].at

-----------------------------------------------------------------------------
(* Runs and the gate.                                                      *)

latestAttempt(run) == Last(run.attempts)

isAlwaysSecurityEvent(event) == event \in {"push", "workflow_dispatch"}

\* The newest runs, as many as the page limit allows, each with its last attempt: a
\* rerun restarts the time of its run.
loadWorkflowRuns(runs) ==
    [i \in {j \in DOMAIN runs : j > Len(runs) - MaxListed} |->
        [event |-> runs[i].event, head |-> runs[i].head, attempt |-> Len(runs[i].attempts),
         at |-> latestAttempt(runs[i]).at, conclusion |-> latestAttempt(runs[i]).conclusion]]

Completed(listed) == {i \in DOMAIN listed : listed[i].conclusion # "pending"}

NewestRun(listed, ids) == CHOOSE i \in ids : \A j \in ids : listed[j].at <= listed[i].at
OldestRun(listed, ids) == CHOOSE i \in ids : \A j \in ids : listed[j].at >= listed[i].at

inspectLatestRun(listed, requiredAfter, t) ==
    LET latest == listed[NewestRun(listed, Completed(listed))]
    IN  CASE DOMAIN listed = {}                 -> "missing"
          [] OTHER ->
        CASE Completed(listed) = {}             -> "failed"
          [] OTHER ->
        CASE requiredAfter = None               -> "missing"
          [] OTHER ->
        CASE latest.at < requiredAfter \/ t - latest.at > MaxAge -> "stale"
          [] OTHER -> IF latest.conclusion = "success" THEN "ok" ELSE "failed"

\* The jobs of all attempts of the run are listed, in an order that GitHub does not
\* document: the first gate that was not skipped, else the first gate.
loadGateEvidenceForRun(run) ==
    LET Outside(states) == {a \in DOMAIN run.attempts : run.attempts[a].gate \notin states}
        pool == IF Outside({"none", "skipped"}) # {} THEN Outside({"none", "skipped"})
                ELSE Outside({"none"})
    IN  IF pool = {} THEN "none"
        ELSE run.attempts[IF NewestJobFirst THEN Max(pool) ELSE Min(pool)].gate

\* Runs in the freshness window, and those whose gate decides: a schedule may leave
\* the gate out, a push or a dispatch may not.
InWindow(listed, requiredAfter, t) ==
    {i \in Completed(listed) : listed[i].at >= requiredAfter /\ t - listed[i].at <= MaxAge}

Deciding(listed, runs, ids) ==
    {i \in ids : \/ isAlwaysSecurityEvent(listed[i].event)
                 \/ loadGateEvidenceForRun(runs[i]) \notin {"none", "skipped"}}

\* The runs as they were listed, their jobs as they are now.
inspectGateCheck(listed, runs, requiredAfter, t) ==
    LET window   == InWindow(listed, requiredAfter, t)
        deciding == Deciding(listed, runs, window)
        run      == NewestRun(listed, deciding)
        gate     == loadGateEvidenceForRun(runs[run])
        tooOld   == {i \in Completed(listed) : listed[i].at >= requiredAfter} \ window
    IN  IF requiredAfter = None THEN [state |-> "missing", run |-> None]
        ELSE IF deciding = {}
        THEN [state |-> IF window = {} /\ tooOld # {} THEN "stale" ELSE "missing", run |-> None]
        ELSE [state |-> CASE gate = "success" -> "ok"
                          [] gate = "none"    -> "missing"
                          [] OTHER            -> "failed",
              run |-> run]

\* The first successful push or dispatch since the configuration became report-only
\* whose own gate succeeded.
Passing(listed, runs) == {i \in Completed(listed) : /\ listed[i].conclusion = "success"
                                                    /\ loadGateEvidenceForRun(runs[i]) = "success"}
observationRunOfAnyTime(listed, runs, since) ==
    LET candidates == {i \in Passing(listed, runs) : isAlwaysSecurityEvent(listed[i].event)}
    IN  IF candidates = {} THEN None ELSE OldestRun(listed, candidates)
observationRunOfAnyEvent(listed, runs, since) ==
    LET candidates == {i \in Passing(listed, runs) : listed[i].at >= since}
    IN  IF candidates = {} THEN None ELSE OldestRun(listed, candidates)
observationRun(listed, runs, since) ==
    LET candidates == {i \in Passing(listed, runs) : /\ isAlwaysSecurityEvent(listed[i].event)
                                                     /\ listed[i].at >= since}
    IN  IF candidates = {} THEN None ELSE OldestRun(listed, candidates)

observationRunProof(listed, i) ==
    [run |-> i, attempt |-> listed[i].attempt, head |-> listed[i].head,
     startedAt |-> listed[i].at]

inspectObservationPeriod(listed, runs, mode, since, t) ==
    LET first == observationRun(listed, runs, since)
    IN  IF mode = "advisory" THEN [ok |-> TRUE, proof |-> None]
        ELSE IF since = None \/ first = None THEN [ok |-> FALSE, proof |-> None]
        ELSE [ok    |-> t - listed[first].at >= MinimumDays,
              proof |-> observationRunProof(listed, first)]

-----------------------------------------------------------------------------
(* The doctor's diagnosis: the codes of its failing checks and the facts.   *)

\* A rule of another ruleset or of branch protection counts as ready too.
inspectRulesets(owned, protected) ==
    [ready |-> owned = "ready" \/ protected, ownedId |-> owned # "absent",
     ownedActive |-> owned \in {"ready", "weak"}]

\* The checks of the files, read first.
fileChecks(config, workflow, appAccess, target, t) ==
    UNION {
      IF appAccess \in {"installed", "unobservable"} THEN {} ELSE {"app-access"},
      IF config = None THEN {"configuration"} ELSE {},
      IF config # None /\ config.pin # target THEN {"configuration-pin"} ELSE {},
      IF config # None /\ ~inspectRepositoryConfiguration(config, t)
        THEN {"repository-configuration"} ELSE {},
      IF workflow = None \/ workflow.pin # target THEN {"workflow-pin"} ELSE {},
      IF config # None /\ workflow # None /\ workflow # generateCallerWorkflow(target, config.mode)
        THEN {"generated-caller"} ELSE {},
      IF config # None /\ ~inspectImageConfiguration(config) THEN {"image-configuration"} ELSE {},
      IF config # None /\ ~inspectDastConfiguration(config) THEN {"dast-configuration"} ELSE {}}

\* The diagnosis, from what was read of the files, the runs, the baseline and the rules.
\* files holds the codes of their failing checks.
doctorInternal(config, workflow, appAccess, files, run, gate, baselineReady, period, rules) ==
    LET mode    == IF config = None THEN None ELSE config.mode
        failing == UNION {
            files,
            IF run = "ok" THEN {} ELSE {"expected-run"},
            IF gate.state = "ok" THEN {} ELSE {"security-gate-check"},
            IF baselineReady THEN {} ELSE {"baseline"},
            IF period.ok THEN {} ELSE {"report-only-observation"},
            IF rules.ready \/ (mode # "enforce" /\ ~rules.ownedActive) THEN {}
              ELSE {"required-check-rule"}}
    IN  [mode |-> mode, failing |-> failing, runState |-> run, gateState |-> gate.state,
         gateRun |-> gate.run, proof |-> period.proof, rules |-> rules,
         configuredAny |-> config # None \/ workflow # None, appAccess |-> appAccess]

\* Checks that fail without blocking: before enforcement the baseline, the period and
\* the rule are only reported.
Blocking(d) ==
    d.failing \ UNION {
        IF d.mode = "enforce" THEN {} ELSE {"baseline", "report-only-observation"},
        IF d.mode = "enforce" \/ d.rules.ownedActive THEN {} ELSE {"required-check-rule"},
        IF d.configuredAny THEN {} ELSE {"app-access"}}

\* What guardianctl baseline and guardianctl enforce require of the diagnosis.
baselinePrerequisites(d) ==
    d.mode = "report-only" /\ d.failing \ {"baseline", "required-check-rule"} = {}

enforcePrerequisites(d) ==
    d.mode \in {"report-only", "enforce"} /\ d.failing \ {"required-check-rule"} = {}

RunCodes == {"expected-run", "security-gate-check"}

\* The status an inventory gives the repository.
classifyInventory(d, configuredAny) ==
    CASE ~configuredAny -> IF d.appAccess = "missing" THEN "not-applicable" ELSE "advisory-only"
      [] OTHER ->
    CASE Blocking(d) \ RunCodes # {} -> "misconfigured"
      [] OTHER ->
    CASE {d.runState, d.gateState} \cap {"missing", "stale"} # {} -> "missing-expected-runs"
      [] OTHER ->
    CASE Blocking(d) # {} -> "misconfigured"
      [] OTHER -> CASE d.mode = "enforce" -> IF d.rules.ready THEN "enforced" ELSE "misconfigured"
                    [] d.mode = "report-only" -> "report-only"
                    [] OTHER -> "advisory-only"

-----------------------------------------------------------------------------
(* The readiness verifier of an enforce-mode gate, which reads the baseline *)
(* from its own checkout and everything else from GitHub.                   *)

\* Only a versioned document authorizes enforcement.
parseEnforceBaseline(baseline) == baseline # None /\ baseline.kind = "v1"

KnownAttempt(runs, id) ==
    id.run \in DOMAIN runs /\ id.attempt \in DOMAIN runs[id.run].attempts

\* The run of the claimed attempt is a completed push or dispatch of the default
\* branch at the claimed head.
assertGateRunIdentity(runs, id) ==
    /\ KnownAttempt(runs, id)
    /\ runs[id.run].head = id.head
    /\ runs[id.run].attempts[id.attempt].conclusion # "pending"
    /\ isAlwaysSecurityEvent(runs[id.run].event)

assertDeterministicScannerJob(runs, id) == runs[id.run].attempts[id.attempt].gate = "success"

\* The configuration at the head is report-only.
validateGateConfigFields(h, head) == ModeAt(h, head) = "report-only"

\* The run used the reusable workflow that the configuration at its head pins.
assertReferencedReusableSecurity(h, head) ==
    h[head].workflow # None /\ h[head].workflow.pin = h[head].config.pin

gateProvenance(h, runs, id) ==
    /\ assertGateRunIdentity(runs, id)
    /\ assertDeterministicScannerJob(runs, id)
    /\ validateGateConfigFields(h, id.head)
    /\ assertReferencedReusableSecurity(h, id.head)

\* The age counts from the time of the observed attempt, as GitHub reports it.
ageFromClaim(runs, observation, t) == t - observation.startedAt >= MinimumDays
observationIsOldEnough(runs, observation, t) ==
    LET startedAt == runs[observation.run].attempts[observation.attempt].at
    IN  startedAt = observation.startedAt /\ t - startedAt >= MinimumDays

\* Exactly the GuardianBot ruleset must require the check.
guardianRulesetIsReady(owned) == owned = "ready"

\* What the verifier makes of the baseline and of the attempts it claims, which it reads
\* before the rulesets.
provenanceHolds(h, head, runs, t) ==
    LET baseline == h[head].baseline
    IN  /\ parseEnforceBaseline(baseline)
        /\ gateProvenance(h, runs, baseline.source)
        /\ gateProvenance(h, runs, baseline.observation)
        /\ observationIsOldEnough(runs, baseline.observation, t)

-----------------------------------------------------------------------------
(* Drafting a baseline.                                                    *)

\* The gate file of an attempt: it carries the mode and the identity of its run.
parseGateForBaseline(h, runs, i, a) ==
    /\ runs[i].attempts[a].gate = "success"
    /\ ModeAt(h, runs[i].head) = "report-only"

buildBaselineDocument(runs, i, a, proof) ==
    [kind |-> "v1", source |-> [run |-> i, attempt |-> a, head |-> runs[i].head],
     observation |-> proof]

\* The file of the default branch already says this.
baselineAlreadyMatches(current, document) == current = document
=============================================================================
