------------------------------- MODULE Rollout -------------------------------
(***************************************************************************)
(* The rollout of the security gate to one repository.  An operator runs   *)
(* guardianctl, whose commands read the repository in several requests and *)
(* propose changes as draft pull requests; people merge them in any order, *)
(* edit the managed files by hand and change the rules; the caller         *)
(* workflow runs on pushes, schedules and dispatches, and runs are         *)
(* repeated.  A gate in enforce mode verifies that enforcement was earned  *)
(* before its scanners run.  Every commit and every attempt has a time of  *)
(* its own.                                                                *)
(***************************************************************************)
EXTENDS RolloutPolicy

CONSTANTS
    Settings,       \* what a rollout meets: records [installations, events, edits, maxEdits]
                    \* of what the operator's token sees of the App's installations, the
                    \* events that start runs, the changes people make by hand, each at
                    \* most once, and how many of them
    Outcomes,       \* how runs end: records [event, gate, conclusion]
    Pins,           \* released commits of the reusable workflows
    Breakages,      \* parts of the configuration that an edit leaves inconsistent
    MaxCommits, MaxAttempts, MaxWaits, MaxPulls              \* bounds

ScannerModes == {"advisory", "report-only", "enforce"}
Configs   == [mode : ScannerModes, pin : Pins, broken : Breakages \cup {{}}]
Workflows == [pin : Pins, policyMode : ScannerModes \cup {None, "edited"}]

ASSUME RolloutAssumption ==
    /\ None \notin Pins \cup ScannerModes \cup Configs \cup Workflows
    /\ \A o \in Outcomes : o.event \in {"push", "workflow_dispatch", "schedule"}
    /\ {MaxCommits, MaxAttempts, MaxWaits, MaxPulls} \subseteq Nat

VARIABLES
    setting,    \* one of Settings, which stays
    now,        \* the time
    commits,    \* the default branch
    runs,       \* runs of the caller workflow, in the order of their creation
    owned,      \* the GuardianBot ruleset: absent, disabled, weak or ready
    protected,  \* another rule requires the check strictly
    pulls,      \* open pull requests of guardianctl
    cli,        \* the guardianctl command under way
    counts,     \* how often each bounded thing happened
    lastReady   \* for the properties: when the GuardianBot ruleset was last taken back

rules == <<setting, owned, protected, lastReady>>
rolloutVars == <<setting, now, commits, runs, owned, protected, pulls, cli, counts, lastReady>>

Tip == Last(commits)
Files == {"config", "workflow", "baseline", "report"}
Managed(commit) == [f \in Files |-> commit[f]]
NoCommand == [step |-> "idle"]
NewConfig(mode, pin) == [mode |-> mode, pin |-> pin, broken |-> {}]

RolloutInit == /\ setting \in Settings
               /\ now = 1
               /\ commits = <<[config |-> None, workflow |-> None, baseline |-> None,
                               report |-> None, at |-> 1]>>
               /\ runs = <<>>
               /\ owned = "absent" /\ protected = FALSE
               /\ pulls = {} /\ cli = NoCommand
               /\ counts = [attempts |-> 0, edits |-> {}, waits |-> 0]
               /\ lastReady = 0

Count(what, bound) == /\ counts[what] < bound
                      /\ counts' = [counts EXCEPT ![what] = @ + 1]

ByHand(kind) == /\ kind \in setting.edits \ counts.edits
                /\ Cardinality(counts.edits) < setting.maxEdits
                /\ counts' = [counts EXCEPT !["edits"] = @ \cup {kind}]

CommitOf(files, t) == [config |-> files.config, workflow |-> files.workflow,
                       baseline |-> files.baseline, report |-> files.report, at |-> t]

\* A commit to the default branch with these contents of its files.
Commit(files) == /\ Len(commits) < MaxCommits
                 /\ Managed(files) # Managed(Tip)
                 /\ commits' = Append(commits, CommitOf(files, now + 1))
                 /\ now' = now + 1

-----------------------------------------------------------------------------
(* Pull requests: a branch from the head of the default branch with some    *)
(* files changed, and its merge, which takes each side's changes.           *)

OpenPull(kind, files) ==
    /\ Cardinality(pulls) < MaxPulls
    /\ \A p \in pulls : p.kind # kind
    /\ pulls' = pulls \cup {[kind |-> kind, base |-> Len(commits),
                             files |-> [f \in Files |-> IF f \in DOMAIN files THEN files[f]
                                                        ELSE Tip[f]]]}

Mergeable(base, mine, theirs) == base \in {mine, theirs} \/ mine = theirs
Merged(base, mine, theirs) == IF mine = base THEN theirs ELSE mine

ConfigFields == {"mode", "pin", "broken"}
ByLine(f, base, mine, theirs) == f = "config" /\ None \notin {base, mine, theirs}

\* The configuration is merged line by line, the other files as a whole.
MergeableFile(f, base, mine, theirs) ==
    IF ByLine(f, base, mine, theirs)
    THEN \A x \in ConfigFields : Mergeable(base[x], mine[x], theirs[x])
    ELSE Mergeable(base, mine, theirs)

MergedFile(f, base, mine, theirs) ==
    IF ByLine(f, base, mine, theirs)
    THEN [x \in ConfigFields |-> Merged(base[x], mine[x], theirs[x])]
    ELSE Merged(base, mine, theirs)

MergePull(p) ==
    LET base == commits[p.base]
    IN  /\ p \in pulls
        /\ \A f \in Files : MergeableFile(f, base[f], p.files[f], Tip[f])
        /\ Commit([f \in Files |-> MergedFile(f, base[f], p.files[f], Tip[f])])
        /\ pulls' = pulls \ {p}
        /\ UNCHANGED <<runs, rules, cli, counts>>

-----------------------------------------------------------------------------
(* Commands of one request each: nothing they read is used after a wait.    *)

\* A repository without source starts advisory, any other report-only.
\* The generated files are put without the blob to replace, so a file that is
\* already there, such as the report an offboarding leaves, fails the command.
onboard(mode, pin) ==
    /\ cli = NoCommand
    /\ Tip.config = None /\ Tip.workflow = None /\ Tip.report = None
    /\ OpenPull("onboard", [config |-> NewConfig(mode, pin), report |-> TRUE,
                            workflow |-> generateCallerWorkflow(pin, mode)])
    /\ UNCHANGED <<now, commits, runs, rules, cli, counts>>

\* Moves the configuration's pin and regenerates the caller for the mode it has.
upgrade(pin) ==
    /\ cli = NoCommand
    /\ Tip.config # None /\ Tip.workflow # None
    /\ \E config \in {[Tip.config EXCEPT !.pin = pin]} :
         \E workflow \in {generateCallerWorkflow(pin, config.mode)} :
           /\ config # Tip.config \/ workflow # Tip.workflow
           /\ OpenPull("upgrade", [config |-> config, workflow |-> workflow])
    /\ UNCHANGED <<now, commits, runs, rules, cli, counts>>

\* Removes the configuration and the caller; the baseline and the report stay.
offboard ==
    /\ cli = NoCommand
    /\ Tip.config # None \/ Tip.workflow # None
    /\ OpenPull("offboard", [config |-> None, workflow |-> None])
    /\ ByHand("offboard")
    /\ UNCHANGED <<now, commits, runs, rules, cli>>

-----------------------------------------------------------------------------
(* Commands that rest on the doctor's diagnosis.                            *)

\* The doctor reads the files and the App's access first.  A command that these alone
\* refuse changes nothing and is left out.
doctorReadsFiles(cmd, target, appAccess) ==
    /\ cli = NoCommand
    /\ fileChecks(Tip.config, Tip.workflow, appAccess, target, now) = {}
    /\ Tip.config.mode # "advisory"
    /\ cli' = [step |-> "history", of |-> [cmd |-> cmd, began |-> now, config |-> Tip.config,
                                           workflow |-> Tip.workflow, appAccess |-> appAccess]]
    /\ UNCHANGED <<now, commits, runs, rules, pulls, counts>>

\* Every further reading is a request of its own.  One that refuses the command ends it,
\* for what would be read after it changes nothing.  A command is much shorter than the
\* observation period.
doctorReads(step, refused, next) ==
    /\ cli.step = step
    /\ now - cli.of.began < MinimumDays
    /\ cli' = IF refused THEN NoCommand ELSE next
    /\ UNCHANGED <<now, commits, runs, rules, pulls, counts>>

doctorReadsHistory ==
    LET since == reportOnlyConfigurationStart(commits, cli.of.config.mode)
    IN  doctorReads("history", since = None,
            [step |-> "changes", of |-> cli.of, seen |-> Len(commits), since |-> since,
             times |-> [file \in {"config", "workflow"} |-> None],
             awaited |-> {"config", "workflow"}])

\* The times of the two files are asked for together and answered in either order.
doctorReadsChange(file) ==
    /\ doctorReads("changes", FALSE,
           [cli EXCEPT !.times[file] = latestPathCommitTime(commits, file),
                       !.awaited = @ \ {file}])
    /\ file \in cli.awaited

doctorReadsRuns ==
    LET listed  == loadWorkflowRuns(runs)
        changed == managedConfigurationChangedAt(cli.times)
    IN  /\ doctorReads("changes", inspectLatestRun(listed, changed, now) # "ok",
               [step |-> "gate", of |-> cli.of, seen |-> cli.seen, since |-> cli.since,
                listed |-> listed, changed |-> changed])
        /\ cli.awaited = {}

doctorReadsGate ==
    LET gate == inspectGateCheck(cli.listed, runs, cli.changed, now)
    IN  doctorReads("gate", gate.state # "ok",
            [step |-> "baseline", of |-> cli.of, seen |-> cli.seen, since |-> cli.since,
             listed |-> cli.listed, gate |-> gate])

\* A draft of the baseline needs none.
doctorReadsBaseline ==
    LET ready == inspectBaseline(Tip.baseline, cli.of.config.mode)
    IN  doctorReads("baseline", cli.of.cmd = "enforce" /\ ~ready,
            [step |-> "observation", of |-> cli.of, seen |-> cli.seen, since |-> cli.since,
             listed |-> cli.listed, gate |-> cli.gate, baselineReady |-> ready])

doctorReadsObservation ==
    LET period == inspectObservationPeriod(cli.listed, runs, cli.of.config.mode, cli.since, now)
    IN  doctorReads("observation", ~period.ok,
            [step |-> "rules", of |-> cli.of, seen |-> cli.seen, gate |-> cli.gate,
             baselineReady |-> cli.baselineReady, period |-> period])

\* The rules are read last.
Diagnosis == doctorInternal(cli.of.config, cli.of.workflow, cli.of.appAccess, {}, "ok",
                            cli.gate, cli.baselineReady, cli.period,
                            inspectRulesets(owned, protected))

baselineDiagnosed ==
    /\ cli.step = "rules" /\ cli.of.cmd = "baseline"
    /\ \E d \in {Diagnosis} :
         doctorReads("rules", ~baselinePrerequisites(d),
             [step |-> "draft", gateRun |-> d.gateRun, proof |-> d.proof])

\* The gate file is of some attempt of the run that the diagnosis rests on: its run
\* and its head are compared, its attempt is not.
baseline(a) ==
    /\ cli.step = "draft"
    /\ a \in DOMAIN runs[cli.gateRun].attempts
    /\ parseGateForBaseline(commits, runs, cli.gateRun, a)
    /\ \E document \in {buildBaselineDocument(runs, cli.gateRun, a, cli.proof)} :
         IF baselineAlreadyMatches(Tip.baseline, document)
         THEN UNCHANGED pulls
         ELSE OpenPull("baseline", [baseline |-> document])
    /\ cli' = NoCommand
    /\ UNCHANGED <<now, commits, runs, rules, counts>>

enforceDiagnosed ==
    /\ cli.step = "rules" /\ cli.of.cmd = "enforce"
    /\ \E d \in {Diagnosis} :
         doctorReads("rules", ~enforcePrerequisites(d),
             [step |-> "enforce", rulesetReady |-> d.rules.ready])

\* The configuration is read again, and the rule is written before the pull request.
enforceRuleset ==
    /\ cli.step = "enforce"
    /\ IF Tip.config = None
       THEN cli' = NoCommand /\ UNCHANGED owned
       ELSE /\ owned' = IF cli.rulesetReady THEN owned ELSE "ready"
            /\ cli' = IF Tip.config.mode = "report-only"
                      THEN [step |-> "transition", config |-> Tip.config]
                      ELSE NoCommand
    /\ UNCHANGED <<setting, now, commits, runs, protected, lastReady, pulls, counts>>

\* Putting the file names the blob that was read: a configuration that changed since
\* fails the command, and the rule stays.
enforce ==
    /\ cli.step = "transition"
    /\ IF Tip.config = cli.config
       THEN OpenPull("enforce", [config |-> [cli.config EXCEPT !.mode = "enforce"]])
       ELSE UNCHANGED pulls
    /\ cli' = NoCommand
    /\ UNCHANGED <<now, commits, runs, rules, counts>>

\* A request fails, or the operator stops the command, between any two steps.
commandFails ==
    /\ cli # NoCommand
    /\ cli' = NoCommand
    /\ UNCHANGED <<now, commits, runs, rules, pulls, counts>>

-----------------------------------------------------------------------------
(* Runs of the caller workflow, which GitHub starts.                        *)

Attempt(o, t, checked) == [at |-> t, gate |-> o.gate, conclusion |-> o.conclusion,
                           checked |-> checked]

\* In enforce mode the gate fails unless its verifier, an early step of the job, passed:
\* it first checks the provenance of the baseline, then the rulesets.
GateMay(o, head, checked) ==
    (o.gate = "success" /\ ModeAt(commits, head) = "enforce") => checked = "rulesets"

\* A run starts at the head and ends as o says, or is still pending.
StartRun(o) ==
    /\ Tip.workflow # None
    /\ GateMay(o, Len(commits), "nothing")
    /\ Count("attempts", MaxAttempts)
    /\ runs' = Append(runs, [event |-> o.event, head |-> Len(commits),
                             attempts |-> <<Attempt(o, now + 1, "nothing")>>])
    /\ now' = now + 1
    /\ UNCHANGED <<commits, rules, pulls, cli>>

\* A run is repeated as a whole, with its event and its head.
Rerun(i, o) ==
    /\ i \in DOMAIN runs
    /\ latestAttempt(runs[i]).conclusion # "pending"
    /\ o.event = runs[i].event
    /\ GateMay(o, runs[i].head, "nothing")
    /\ Count("attempts", MaxAttempts)
    /\ runs' = [runs EXCEPT ![i].attempts = Append(@, Attempt(o, now + 1, "nothing"))]
    /\ now' = now + 1
    /\ UNCHANGED <<commits, rules, pulls, cli>>

\* A gate that has ended keeps its result.
Undecided == {"none", "pending"}
FinishRun(i, o) ==
    /\ i \in DOMAIN runs
    /\ latestAttempt(runs[i]).conclusion = "pending" /\ o.conclusion # "pending"
    /\ latestAttempt(runs[i]).gate \in Undecided \cup {o.gate}
    /\ o.event = runs[i].event
    /\ GateMay(o, runs[i].head, latestAttempt(runs[i]).checked)
    /\ runs' = [runs EXCEPT ![i].attempts[Len(runs[i].attempts)] = Attempt(o, @.at, @.checked)]
    /\ UNCHANGED <<now, commits, rules, pulls, cli, counts>>

\* The gate job of a pending attempt in enforce mode gets past a part of its verifier.
Verifies(i, before, after) ==
    /\ i \in DOMAIN runs
    /\ latestAttempt(runs[i]).conclusion = "pending" /\ latestAttempt(runs[i]).gate \in Undecided
    /\ latestAttempt(runs[i]).checked = before
    /\ runs' = [runs EXCEPT ![i].attempts[Len(runs[i].attempts)] = Attempt(@, @.at, after)]
    /\ UNCHANGED <<now, commits, rules, pulls, cli, counts>>

\* What the verifier reads of an attempt that has ended stays, so that one step stands
\* for the requests about the attempts that the baseline claims.
verifyProvenance(i) ==
    /\ Verifies(i, "nothing", "provenance")
    /\ ModeAt(commits, runs[i].head) = "enforce"
    /\ provenanceHolds(commits, runs[i].head, runs, now)

verifyRulesets(i) ==
    /\ Verifies(i, "provenance", "rulesets")
    /\ guardianRulesetIsReady(owned)

-----------------------------------------------------------------------------
(* What people do by hand, and time.                                        *)

Attempts == {x \in (1 .. MaxAttempts) \X (1 .. MaxAttempts) :
                KnownAttempt(runs, [run |-> x[1], attempt |-> x[2]])}

\* Documents a person might write into the baseline: a legacy list, an empty one, or
\* one that claims an attempt as source and observation, perhaps with another head or
\* an earlier start.
HandWrittenBaselines ==
    LET Claim(i, a, head, start) == [run |-> i, attempt |-> a, head |-> head, startedAt |-> start]
        Claims(i, a) == {Claim(i, a, runs[i].head, runs[i].attempts[a].at),
                         Claim(i, a, runs[i].head, 1),
                         Claim(i, a, Len(commits), runs[i].attempts[a].at)}
    IN  {[kind |-> "legacy"], [kind |-> "empty"]} \cup
        {[kind |-> "v1", source |-> claim, observation |-> claim] :
            claim \in UNION {Claims(x[1], x[2]) : x \in Attempts}}

EditConfig(mode, broken) ==
    /\ Tip.config # None
    /\ Commit([Tip EXCEPT !.config.mode = mode, !.config.broken = broken])
    /\ ByHand("config")
    /\ UNCHANGED <<runs, rules, pulls, cli>>

\* The caller is edited by hand, and drifts from what the configuration generates.
EditWorkflow ==
    /\ Tip.workflow # None
    /\ Commit([Tip EXCEPT !.workflow.policyMode = "edited"])
    /\ ByHand("workflow")
    /\ UNCHANGED <<runs, rules, pulls, cli>>

EditBaseline(document) ==
    /\ Commit([Tip EXCEPT !.baseline = document])
    /\ ByHand("baseline")
    /\ UNCHANGED <<runs, rules, pulls, cli>>

EditRules(ruleset, other) ==
    /\ <<ruleset, other>> # <<owned, protected>>
    /\ owned = "absent" => ruleset = "absent"
    /\ owned' = ruleset /\ protected' = other
    /\ lastReady' = IF owned = "ready" /\ ruleset # "ready" THEN now ELSE lastReady
    /\ ByHand("rules")
    /\ UNCHANGED <<setting, now, commits, runs, pulls, cli>>

\* People set the GuardianBot ruleset up by hand, earned or not.
RequireCheck ==
    /\ owned # "ready" /\ owned' = "ready"
    /\ ByHand("require")
    /\ UNCHANGED <<setting, now, commits, runs, protected, lastReady, pulls, cli>>

\* Days pass, though never while a command runs.
Wait == /\ cli = NoCommand
        /\ Count("waits", MaxWaits)
        /\ now' = now + MinimumDays
        /\ UNCHANGED <<commits, runs, rules, pulls, cli>>

-----------------------------------------------------------------------------
RolloutNext ==
    \/ \E p \in pulls : MergePull(p)
    \/ \E mode \in {"advisory", "report-only"}, pin \in Pins : onboard(mode, pin)
    \/ \E pin \in Pins : upgrade(pin)
    \/ offboard
    \/ \E cmd \in {"baseline", "enforce"}, target \in Pins :
          doctorReadsFiles(cmd, target, inspectAppAccess(setting.installations))
    \/ doctorReadsHistory
    \/ \E file \in {"config", "workflow"} : doctorReadsChange(file)
    \/ doctorReadsRuns \/ doctorReadsGate \/ doctorReadsBaseline \/ doctorReadsObservation
    \/ baselineDiagnosed \/ enforceDiagnosed
    \/ \E a \in 1 .. MaxAttempts : baseline(a)
    \/ enforceRuleset \/ enforce \/ commandFails
    \/ \E o \in {x \in Outcomes : x.event \in setting.events} : \/ StartRun(o)
                           \/ \E i \in 1 .. MaxAttempts : Rerun(i, o) \/ FinishRun(i, o)
    \/ \E i \in 1 .. MaxAttempts : verifyProvenance(i) \/ verifyRulesets(i)
    \/ \E mode \in ScannerModes, broken \in Breakages : EditConfig(mode, broken)
    \/ EditWorkflow
    \/ \E document \in HandWrittenBaselines : EditBaseline(document)
    \/ \E ruleset \in {"absent", "disabled", "weak"} : EditRules(ruleset, protected)
    \/ EditRules(owned, TRUE) \/ RequireCheck
    \/ Wait

RolloutSpec == RolloutInit /\ [][RolloutNext]_rolloutVars

-----------------------------------------------------------------------------
(* Properties.                                                             *)

AttemptOf(x) == runs[x[1]].attempts[x[2]]

\* A gate passes in enforce mode only if a report-only push or dispatch of the default
\* branch had passed its gate a full observation period before, and the GuardianBot
\* ruleset required the check at some moment since the attempt began: whatever people
\* wrote into the baseline, however runs were repeated, and in whichever order the pull
\* requests were merged.  The ruleset may have been weakened since: the verifier reads
\* it before the scanners run.
Observed(x) == /\ AttemptOf(x).gate = "success" /\ AttemptOf(x).conclusion # "pending"
               /\ runs[x[1]].event \in {"push", "workflow_dispatch"}
               /\ ModeAt(commits, runs[x[1]].head) = "report-only"
               /\ now - AttemptOf(x).at >= MinimumDays
RequiredSince(t) == owned = "ready" \/ lastReady >= t
EnforcementIsEarned ==
    [][\A i \in DOMAIN runs' :
         (/\ i \notin DOMAIN runs \/ runs'[i] # runs[i]
          /\ Last(runs'[i].attempts).gate = "success"
          /\ ModeAt(commits, runs'[i].head) = "enforce")
         => /\ RequiredSince(Last(runs'[i].attempts).at)
            /\ \E x \in Attempts : Observed(x)]_rolloutVars

\* A diagnosis that lets a baseline or enforcement through rests on an attempt, of a run
\* whose gate succeeded, a full period ago, since which the configuration was report-only
\* until the doctor read its history, or, when enforcement is only repeated, was never
\* anything but report-only and then enforce: although commits, runs and rules change
\* between its requests, and so does the configuration between the first and the history.
\* Of commits merged after the history was read it says nothing.
Diagnosed == cli.step = "rules" /\ cli'.step \in {"draft", "enforce"}
InForce(t) == Max({k \in DOMAIN commits : commits[k].at <= t})
ReportOnlySince(t) ==
    \E last \in InForce(t) - 1 .. cli.seen :
        /\ InForce(t) <= cli.seen
        /\ \A k \in InForce(t) .. last : ModeAt(commits, k) = "report-only"
        /\ \A k \in last + 1 .. cli.seen : ModeAt(commits, k) = "enforce"
        /\ cli.of.config.mode = "report-only" => last = cli.seen
DiagnosisIsHonest ==
    [][Diagnosed => \E x, y \in Attempts : /\ x[1] = y[1] /\ AttemptOf(y).gate = "success"
                                           /\ AttemptOf(x).conclusion # "pending"
                                           /\ now - AttemptOf(x).at >= MinimumDays
                                           /\ ReportOnlySince(AttemptOf(x).at)]_rolloutVars

\* The run whose age the doctor takes for the report-only observation ran report-only.
\* It need not: a run that is repeated counts from its repetition, and then the oldest
\* one may be a run in the enforce mode that the observation earned.
ObservationIsReportOnly ==
    [][Diagnosed => ModeAt(commits, runs[Diagnosis.proof.run].head) = "report-only"]_rolloutVars

\* guardianctl and the verifier agree, although the doctor lists the runs, loads their
\* jobs and drafts in separate requests: the provenance of a baseline that guardianctl
\* drafts from runs that were not repeated and are no schedules satisfies the verifier.
DraftIsVerifiable ==
    [][\A p \in pulls' \ pulls :
         (/\ p.kind = "baseline"
          /\ Len(runs[p.files.baseline.source.run].attempts) = 1
          /\ Len(runs[p.files.baseline.observation.run].attempts) = 1
          /\ runs[p.files.baseline.source.run].event # "schedule")
         => /\ gateProvenance(commits, runs, p.files.baseline.source)
            /\ gateProvenance(commits, runs, p.files.baseline.observation)
            /\ observationIsOldEnough(runs, p.files.baseline.observation, now)]_rolloutVars

\* The inventory, which here reads everything at one moment, calls a repository enforced
\* only when, no run having been repeated, a gate has passed in enforce mode.
InventoryStatus ==
    LET config   == Tip.config
        workflow == Tip.workflow
        mode     == IF config = None THEN None ELSE config.mode
        access   == inspectAppAccess(setting.installations)
        changed  == IF None \in {config, workflow} THEN None
                    ELSE managedConfigurationChangedAt(ChangeTimes(commits))
        since    == IF mode \in {None, "advisory"} THEN None
                    ELSE reportOnlyConfigurationStart(commits, mode)
        listed   == IF workflow = None THEN <<>> ELSE loadWorkflowRuns(runs)
        target   == deriveConfiguredWorkflowSha(config, workflow)
        d == doctorInternal(config, workflow, access,
                 fileChecks(config, workflow, access, target, now),
                 inspectLatestRun(listed, changed, now),
                 inspectGateCheck(listed, runs, changed, now),
                 mode = None \/ inspectBaseline(Tip.baseline, mode),
                 IF mode = None THEN [ok |-> TRUE, proof |-> None]
                 ELSE inspectObservationPeriod(listed, runs, mode, since, now),
                 inspectRulesets(owned, protected))
    IN  classifyInventory(d, config # None \/ workflow # None)
EnforcedRowIsVerified ==
    (/\ \A i \in DOMAIN runs : Len(runs[i].attempts) = 1
     /\ Tip.config # None /\ Tip.config.mode = "enforce"
     /\ InventoryStatus = "enforced") =>
        \E x \in Attempts : /\ AttemptOf(x).gate = "success"
                            /\ ModeAt(commits, runs[x[1]].head) = "enforce"
=============================================================================
