# guardianbot in TLA+

Specifications of the guardianbot control plane (`src/`), TLC configurations
that check them on small instances, and TLAPS proofs of the properties that
matter most. Everything is translated from the TypeScript and the SQL in `src/`;
docs and comments are used only as statements to compare the code with.
`PROJECT.json` maps every definition to the lines it models.

## The system

guardianbot is a GitHub App. The control plane (`src/apps/control-plane`)
receives webhooks, reviews pull requests with a language model behind a backend
protocol, ingests the evidence of scanner workflows, keeps the lifecycle of
findings and the issues opened for them, gates releases and deployments, and
monitors the enrolled repositories. `guardianctl` (`src/packages/guardianctl`) is
the operator's command line that rolls the security gate out to a repository, and
`src/scripts/verify-enforcement-readiness.mjs` the verifier that an enforcing gate
runs first. All state that survives a restart is in
PostgreSQL (`store.ts`, one table or group of tables per
component); several processes may run against one database, and during a rolling
restart two always do.

| Component | State | Operations | Talks to |
|---|---|---|---|
| Webhook queue | `webhook_jobs`; per process: worker id, `uncountedAttempts` | enqueue, claim, complete, fail, purge, count | HTTP edge inserts, worker loops drain |
| Server lifecycle | worker, cleanup and monitoring loops, abort signal | start, drain, forced exit | restarts decide which leases are left behind |
| Webhook dispatch | none | `handle()` by event and action | calls every handler below |
| Pull-request review | `reviews` row | review, unavailable, stale, summary, inline comments | GitHub comments, model backend, the queue's lease |
| Review outcomes and feedback | `findings` column, lifetime totals | merge, evict, carry, dismiss, merged, count a reply, discard | writes the row a review overwrites |
| Repository lifecycle | `repositories` | discover, push, rename, pause, active, suspended, removed | discards findings, disables reviews |
| Commands | pause flag | review, pause, dismiss, draft-fix, explain... | review, feedback, remediation |
| Onboarding issue | promise map per process, advisory lock | open or reuse one issue | GitHub issues |
| Repository index | generations per commit | full or incremental refresh, publish, purge, retrieve | review reads the generation of its head |
| Findings lifecycle | lifecycle rows, per-scope watermark | ingest an accepted run, suppress, SLA, bound | scanner evidence feeds it, tickets read it |
| Finding tickets | ticket claims with leases, marker scan cursor | claim, complete, release, recover by marker | GitHub issues |
| Scanner evidence | workflow runs, artifacts, evidence rows | accept or refuse, import, reconcile, retry | DefectDojo, findings lifecycle, release gate |
| Attestation, OIDC | none | verify one input | scanner evidence, DAST |
| DAST session broker | issuance rows with leases; key cache | verify, claim, get a credential, complete, release, answer | GitHub's OIDC keys, deployment evidence, the target |
| Deployment promotion | promotion claims, deployment evidence | claim, start, poll, record | DigitalOcean, release gate |
| Image rescan | rescan evidence with its freeze | resolve the target, freeze, lift | deployment evidence, release gate |
| Release gate | none | read in several requests, decide | evidence, freezes, DefectDojo |
| Monitoring | lock, snapshots, alerts, weekly report | list, evaluate, save, resolve, report | every table above |
| Remediation drafts | draft records | branch, commit, pull request, link, report checks, clean up | GitHub branches, pulls, runs |
| Backend registry, protocol client, model bridge | routes, admission counters | choose, call, retry | model providers |
| Core policy | none | detection, configuration, SBOM difference, risk | every handler |
| GitHub client, App auth | throttle window | calls | GitHub |
| guardianctl, readiness verifier | none; the files, rules and runs of the repository | onboard, doctor, baseline, enforce, upgrade, offboard; verify | GitHub |
| DefectDojo client | Tests and findings at DefectDojo | import, reimport, list | scanner evidence, release gate |
| Database migration, scripts | none of their own | | |

### What is hard here

* Every handler can run **again** (retry, lapsed lease, redelivery), and two runs
  of the same handler can overlap, because a lease is never renewed and a
  handler is never stopped by the end of its lease.
* A review holds what it **read** across a model call of minutes and then
  overwrites a whole JSON column, while the author pushes and people dismiss.
* Memory of **one process** (the credit ledger, the worker id) meets durable
  counters of all of them.
* A worker loop that meets a store error **ends** while its process goes on
  serving HTTP.
* **Several statements** make one logical change (state, then discard; save, then
  publish), and a failure can come between any two.
* Lifecycle events and accepted runs can be applied **out of order**.
* A decision is made from **several reads**: four inventory queries of a sweep, the
  Tests and then the findings of a release, the many requests of a diagnosis.
* **GitHub's branches, issues and workflow runs** are shared with people, who push,
  edit, delete and repeat between any two calls, and most calls have no
  precondition.

`hazards` in `PROJECT.json` lists each of these at its line, with the properties
that would catch it going wrong.

### What makes each component correct

* Queue: leases exclude; a row never gets stuck; finished is final; only the last
  claim decides; the budget is exact; every accepted delivery finishes.
* Review and its row: outcomes and retained advisories survive overwrites; what
  is published was recorded; a quiet removal is final.
* Findings lifecycle: the newest run decides each stream, whatever the order of
  the merges; only complete scans fix; the SLA clock is steady; ticket results
  survive merges.
* Tickets: one issue per root cause; no two live claims on one finding; a late pass
  never overwrites a newer result; an issue shows what its ticket says.
* Release chain: a pass of the gate leaves no blocking finding of the candidate that
  nobody accepted; a frozen digest is not promoted; the newest deployment on record
  is the one confirmed last.
* Repository index: what a generation, and a review's context taken from it, says
  is true of its commit; carrying files forward misses none; one onboarding issue.
* Monitoring: alerts are those of the newest snapshot; a repository saved as
  `enforced` was attested at its indexed commit by what stood on record during that
  sweep; a report is of a complete sweep; departed repositories have no alerts.
* Rollout: enforcement is earned by a full observation period before the verifier
  ran; a diagnosis made of many reads is honest about the history it read; guardianctl
  and the verifier agree.
* DAST sessions: one session per key and job, whatever lapses or gets lost; a
  withdrawn signing key stops being accepted.
* Remediation drafts: the recorded commit is the validated fix; cleaning up deletes
  no writer's commit; the link of a draft does not stay pending once its checks are
  complete.

## Modules

| Module | Models | Extended by |
|---|---|---|
| `WebhookQueue` | the queue, worker loops, credit ledger, restarts, cleanup | `MCWebhookQueue`, `WebhookQueueProofs` |
| `WebhookQueueProofs` | theorems about `WebhookQueue` | |
| `PullReview` | one pull request: its reviews, outcomes, feedback, publication, removal of its repository | `MCPullReview`, `PullReviewProofs` |
| `PullReviewProofs` | theorems about `PullReview` | |
| `FindingsLifecycle` | merges of accepted scanner runs into the lifecycle records of one repository | `MCFindingsLifecycle`, `FindingsLifecycleProofs` |
| `FindingsLifecycleProofs` | theorems about `FindingsLifecycle` | |
| `FindingTickets` | ticket passes of one provider over those records | `MCFindingTickets`, `FindingTicketsProofs` |
| `FindingTicketsProofs` | theorems about `FindingTickets` | |
| `ReleaseGate` | the release decision as an operator | `ReleaseChain` |
| `ReleaseChain` | scanner evidence, DefectDojo, promotion, rescan, the gate's two callers | `MCReleaseChain`, `ReleaseChainProofs` |
| `ReleaseChainProofs` | theorems about `ReleaseChain` | |
| `Absence` | the null value `None`, shared by the modules about one repository | `RepositoryIndex`, `MonitoringPolicy`, `RolloutPolicy` |
| `RepositoryIndex` | one repository's row, index generations and onboarding issue | `MCRepositoryIndex`, `RepositoryProofs` |
| `MonitoringPolicy` | what a sweep concludes about one inventory item | `Monitoring` |
| `Monitoring` | the sweeps of several replicas | `MCMonitoring`, `RepositoryProofs` |
| `RolloutPolicy` | what guardianctl and the verifier conclude from what they read | `Rollout` |
| `Rollout` | one repository between operator, people, workflow runs and verifier | `MCRollout`, `RepositoryProofs` |
| `RepositoryProofs` | theorems about `RepositoryIndex`, `Monitoring` and `Rollout`, and the operators they are built from | |
| `OneSession` | the abstract promise of the session broker | instanced by `DastSession` |
| `DastSession` | the session broker and the OIDC verifier | `MCDastSession`, `DastSessionProofs` |
| `DastSessionProofs` | theorems about `DastSession` | |
| `RemediationDraft` | the drafts of one finding at one head | `MCRemediationDraft`, `RemediationDraftProofs` |
| `RemediationDraftProofs` | theorems about `RemediationDraft` | |

The MC modules hold symmetry sets and the small instances: scans, scenarios,
histories, budgets. `FindingsLifecycle` and `FindingTickets` meet in the
lifecycle record: each has the steps of the other that it can see (a ticket result
recorded without the lock; a merge that writes or removes a record). `ReleaseChain`
composes five components that share evidence rows: scanner evidence, the DefectDojo
client, promotion, rescan and the gate. Each module with a `TypeOK` states the shape
of its state there (`Monitoring` calls it `SweepTypeOK`), and each is proved; the
invariants of the proofs do it for `RemediationDraft` and `Rollout`. `Monitoring` and
`Rollout` prefix the names of their specifications (`SweepSpec`, `RolloutSpec`), because
`RepositoryProofs` extends them side by side with `RepositoryIndex`.

### WebhookQueue

`job` is the table, one row per delivery id, `"absent"` when there is none.
`proc` is a process: the phase of its one sequential loop (`runWorkerLoop` and
`processNextWebhook`), how often it has started, and whether `shutdown` has
begun. `claim` is the `WebhookJob` the loop holds in memory with the attempt
number it was given, and `credit` is `uncountedAttempts`.

| Action | Code |
|---|---|
| `enqueueWebhook` | `INSERT ... ON CONFLICT DO NOTHING` behind the authenticated POST |
| `claimWebhook`, `claimFails` | the `UPDATE ... FOR UPDATE SKIP LOCKED` claim; a store error in it ends the loop |
| `handle` | the handler's result: success, error, permanent backend error, throttled, aborted by shutdown |
| `completeWebhook`, `completeFails` | the fenced success; a store error there is caught as a handler error |
| `requeueUncounted`, `failClaimedWebhook`, `failFails` | the three branches of the failure path with credit, budget and backoff |
| `shutdown`, `drained`, `crash`, `start` | drain, exit, forced exit or crash, restart |
| `purgeTerminalWebhookJobs` | one batch of the cleanup loop |
| `Tick` | time |

Instants are distances from now. `tally` is a history variable: the failures
recorded in the current row, free and counted.

### PullReview

`reviewPullRequest` is cut at every point where another actor can come in
between; the phase of a worker is its place in the function.

| Action | Code |
|---|---|
| `checkStart` | repository state, head, paused, draft, automatic |
| `getReview`, `saveReviewHead`, `renderPlaceholder` | first read, head moved in the row, placeholder comment |
| `callModel` | index, bundle and model call; the selection of inline findings |
| `publishUnavailable`, `publishStale`, `mergeReview` | the three ways to build the write, with merge, eviction and `fixed` |
| `saveReview` | the compare-and-set on head and lease, the carry of outcomes under the row lock |
| `listReviewComments`, `postReview`, `closeTerminalInlineComments`, `updateComment` | publication |
| `dismissCommand`, `recordMergedOutcomes`, `captureReviewCommentFeedback` | the other writers of the row |
| `removeRepository`, `setRepositoryState`, `discardFindings`, `removalFails`, `otherState` | lifecycle events as a review sees them |
| `Push`, `Request`, `claimWebhook`, `leaseExpires`, `completes`, `fails`, `crash` | GitHub and the queue as a review sees them |

Left open (any value may happen): what the model reports, what a diff rewrote,
the age of a finding, and which closing edits GitHub accepts. `hist` holds
history variables the properties need (what was recorded, evicted, dismissed).
`bounds` is what is left of the behaviour's budget of deliveries, claims, faults,
repository events and replies. The lifetime totals of evictions and replies are
left out: nothing reads them back.

### FindingsLifecycle

`record`, `mark` and `capacity` are the tables `finding_lifecycle`,
`finding_lifecycle_streams` and `finding_lifecycle_state` of one repository, `lock`
its advisory lock. `merge` is the progress of each `ingestFindingObservations` call:
the observations of its run, the policy it read *before* it waited for the lock, and
the records and watermarks it read *under* the lock.

| Action | Code |
|---|---|
| `completeRun` | a workflow run whose evidence was accepted: its trust, its parts per stream |
| `changePolicy` | suppressions are added, removed or expire in the repository's configuration |
| `completeFindingTicketClaim` | a ticket result, written without the lock |
| `beginMerge` | trust, `mergeObservations`, ownership and suppression policy |
| `acquireFindingLifecycleLock` | waiting for the lock, then both reads |
| `saveFindingLifecycle` | freshness, observation of each stream in order, status, SLA episode, the bound (retire, then drop), one transaction, unlock |
| `skipStale` | every stream was decided by a newer run |
| `mergeFails` | a store error or a dead process; the scanner job runs again |

A run's number stands for `compareRunOrder` and for its time. The severity of a
finding is fixed per fingerprint; rules, titles, owners and evidence of a record
are left out. Which findings of an oversized stream are cut, and the order of
records the sort leaves equal, are open. The breach clock and the digest of a
record are in the contents of `FindingTickets`.

### FindingTickets

`record` is what each lifecycle record renders to for one provider (everything in
the issue, its digest and the wanted state, in one content), `ticket` is
`tickets[provider]`, `claim` the row of `finding_ticket_claims`, `issue` the
provider's issues. `pass` is one `syncFindingTickets` call: the listed contents and
previous tickets, the finding in hand, the attempts of the call, and the session's
marker scan.

| Action | Code |
|---|---|
| `listWork`, `claimFindingTickets` | listing and claiming under the lifecycle lock, at most `PassLimit` |
| `nextItem` | the loop over the granted work |
| `updateIssue`, `transitionIssue` | GitHub's PATCH, Jira's PUT and its transition; 404 of a deleted issue |
| `findIssue` | the session's scan for markers (GitHub) or the search for the label (Jira) |
| `createIssue` | POST, whose reply may be lost after the issue was created |
| `completeFindingTicketClaim` | `FINDING_TICKET_COMPLETE_SQL`: release and write in one statement, by claim id |
| `releaseFindingTicketClaims` | the `finally` of a pass that a store error ended |
| `passDies`, `leaseExpires` | crash; ten minutes |
| `saveFindingLifecycle`, `deleteIssue` | merges and people as a pass sees them |

Every call may fail before or after it took effect, and `withRetry` repeats it up
to `MaxAttempts` times. The provider's issues are external. Left out: the Slack
notifier, which keeps no issue; the cap on the pages a marker scan reads; markers
in issues somebody else opened, which the scan ignores.

### ReleaseGate and ReleaseChain

`evaluateReleaseGate` is one operator: the proof that the candidate's commit was
scanned, the image evidence, the freeze, and the findings that block. `ReleaseChain`
has the workflow-run handler as a sequence of artifacts, each of which may be
refused, lose a store statement, fail to import, or be done already by an earlier
attempt; `run`, `artifact`, `rescanAt` and `deployment` are the evidence tables, `tests`
is DefectDojo, `app` the provider's application with its active and its pending image,
`lease` the promotion claim.

| Action | Code |
|---|---|
| `begin`, `validate`, `rejectRun`, `missingArtifacts`, `startArtifact`, `rejectMetadata`, `rejectArtifact`, `acceptArtifact`, `finishRun`, `handlerThrows` | `createScannerEvidenceHandler`: the run, its artifacts in order, and its end |
| `processSecurityArtifact`, `processImageArtifact`, `processImageRescanArtifact`, `recordFreeze`, `processDastArtifact`, `recordingFails` | what each artifact records; a rescan records its coverage and then its freeze; a store error leaves a part of the rows and rejects the artifact |
| `ensureImportContext`, `maybeImportToDefectDojo`, `importFails` | an import: the search for the latest Test, the POST into what it found, and the failure of either, before or after it took effect |
| `enforcePromotionFreeze`, `enforceReleaseGate`, `decide`, `claimDeploymentPromotion`, `getApp`, `putApp`, `poll`, `probe`, `recordDeployment`, `promoteFails`, `promotionCallFails`, `promoterDies` | a promotion, cut at every call |
| `resolve` | the target of a scheduled rescan, from the newest accepted deployment |
| `checkReads`, `checkDecides` | the gate's HTTP check: evidence, Tests, findings in separate requests, then the decision |
| `triage` | a risk is accepted at DefectDojo, or its acceptance expires |
| `deployed`, `leaseExpires` | the provider finishes; the promotion claim lapses |

### RepositoryIndex

`row` is the `repositories` row, `gen` the published generations by commit, `h` the
progress of each handler, `pending` the per-process map of onboarding operations and
`lock` the advisory lock behind it, whose session may be lost while its holder goes on
(`lockSessionLost`, counted by `sessionsLost`). A push, a discovery, an unarchive, a command and
a review are handlers cut at every await. A refresh resolves the branch head, looks
for a base generation, compares, reads the blobs it needs (which may fail) and
publishes in one transaction; a review reads its context in several queries, in
between which a sweep may delete the generation. The history is a constant:
`Ancestors`, the partial order that Git's commits form. `Supported` lists the
indexable paths in the order of candidates (priority, then path), and `First(n, S)`
is a page or a slice: the first `n` of them that are in `S`. The byte budget is
spent in that order too, skipping what no longer fits.

### MonitoringPolicy and Monitoring

The policy has the checks of `packages/monitoring` and `evaluateInventoryItem`:
index freshness, expected runs, evidence of the exact head, suppressions, findings,
and the state (`enforced`, `report-only`...) they add up to. A sweep takes the lock,
runs its four queries in any order, resolves the alerts of the departed, evaluates
and saves repository by repository, and reports when all were saved. Between any two
of these steps the index moves, a repository leaves or returns, a replica stops, fails,
dies, or loses the session its lock lives in, and runs and evidence arrive, or are taken
back: the upserts of the scanner handler have no fence (scanner-evidence.ts:2581, 2612,
2779 for runs and artifacts, 1132, 1286-1305 and 1837-1849 for evidence), so a replayed
or overlapping delivery sets an accepted run to pending or failed and overwrites a
success. The history variable `stood` of a sweep remembers what stood on record at some
moment since it began, and that is all that `enforced` can mean: neither that the
evidence still stands when the snapshot is saved, nor that the verdict of a run and its
evidence ever stood at one moment.

### RolloutPolicy and Rollout

`commits` is the history of the managed files on the default branch, `runs` the runs
of the caller workflow with their attempts, `pulls` the proposals of guardianctl,
`owned` and `protected` the rules, `cli` the command in progress. A commit carries the
time it was made, an attempt the time it started and how far its verifier has got
(`checked`); a run is the record of its event, its head and its attempts. `setting` is
what a behaviour meets of the App's installations, the events that start runs, and
which changes people make by hand, and how many (`ByHand`).

| Action | Code |
|---|---|
| `onboard`, `upgrade`, `offboard`, `MergePull` | the commands of one decision, and the merge of what they propose |
| `doctorReadsFiles`, `doctorReadsHistory`, `doctorReadsChange`, `doctorReadsRuns`, `doctorReadsGate`, `doctorReadsBaseline`, `doctorReadsObservation` | the diagnosis, one step for each request it awaits (guardianctl index.ts:2664-2977); the two change times come back in either order |
| `baselineDiagnosed`, `enforceDiagnosed` | the rules, read last, and the conclusion from everything in hand |
| `baseline`, `enforceRuleset`, `enforce`, `commandFails` | what a command writes after its diagnosis; it may end between any two requests |
| `StartRun`, `Rerun`, `FinishRun` | attempts of the caller workflow |
| `verifyProvenance`, `verifyRulesets` | the verifier of a pending attempt in enforce mode, an early step of its gate job (reusable-security.yml:177-194): the provenance of the baseline and then the rulesets, both before the scanners run |
| `EditConfig`, `EditWorkflow`, `EditBaseline`, `EditRules`, `RequireCheck`, `Wait` | people and time |

Commits, merges, runs, repetitions and changes of the rules happen between any two of
these steps. A gate in enforce mode passes only if its attempt is `checked`; the ruleset
may have been weakened between that and the pass, as the code does not read it again.

### OneSession, DastSession

`OneSession` says that a key is granted once and for good, and that only the call it
was granted to is answered. `DastSession` has the broker: token verification against
a key cache that is refreshed by requests whose answers come late, the claim with
its lease, the read of the deployment evidence, the exchange of a credential, the
completion whose acknowledgement may be lost, the release, the answer, restarts; and
GitHub's keys, tokens and deployments around it. The refinement mapping is
`Granted`: a key is granted to the call whose completion is on record.

### RemediationDraft

A command, a checks report or a cleanup is a handler of `Workers` with its place in
`step`. `branch` is the tip of the draft branch, `commits` what each commit holds
and whose commits it has below it, `record` the stored draft, `pulls`, `links`,
`runs` and `events` are GitHub's pull requests, the link comment, the workflow runs
and the deliveries still to be handled. Writers push, delete the branch and open
pull requests from it, drafts or not, into the source's branch or another. The POST of a
draft that GitHub refuses (422) and the listing of the open pull requests to reuse are
two steps. The repository stays active; a commit whose answer has no
sha and the limit of 20 listed drafts are left out.

## Runs

All bounds are named constants in the guards. Two of a thing (processes, workers,
deliveries) is what an interleaving needs; three or more only repeat it, because
no guard counts them beyond the limits of ledgers, rings, pages and batches, which
are set to 1, 2 or 3 so that they are met. Where the faults of all kinds together
are too many, a *budget* or a *scenario* bounds each behaviour, and the run has
several of them.

| Run | Configuration | Shows |
|---|---|---|
| `webhook_queue` | 2 processes, 1 delivery sent twice, one fault of each kind, fairness | leases exclude, no orphaned lease, the budget ends, finished is final, the last claim decides, every accepted delivery finishes |
| `review_replay` | 1 delivery claimed twice by 2 workers, a failure, crash or lapsed lease, or a removal; or 2 deliveries in turn; pushes, ageing | one review at a time, however often replayed, loses neither advisories nor dismissals, later claims win |
| `review_concurrent` | 2 deliveries at once around a push; or 1 delivery with 2 faults and 2 repository events | dismissals stick, nothing published unrecorded, a quiet removal is final |
| `findings_merge` | 2 scanner runs, 3 merges by 2 workers, a policy change or a ticket result, records and streams one over their limits | the newest run decides, only complete scans fix, steady SLA clock, tickets survive merges |
| `tickets_sync` | 1 finding, 3 passes, 2 issues, 4 merges, 2 attempts per call, both providers | one issue per finding, issue and ticket agree, claims exclude, late results are discarded |
| `tickets_duplicate` | the same with 3 merges; **expected to fail** | `withRetry` repeats a POST whose reply was lost: two issues for one finding |
| `release_chain` | 2 pushes, 1 rescan, 2 workers, seven scenarios of reports, retries, faults, triage and checks | a pass is clean, a frozen digest is not promoted, the record follows the last confirmation |
| `index_refresh` | 3 handlers in 2 processes, 3 commits of which one replaces another, 2 histories, 2 budgets (one with a fault, which may be the lost session of the lock) | generations and contexts are of their commit, incremental refreshes miss nothing, one onboarding issue, and at most one more for each lost session |
| `monitoring_sweep` | 2 replicas, 2 repositories, one change and one fault during the sweeps | alerts follow the newest snapshot, what is saved as `enforced` was attested during the sweep, reports are complete, the departed are cleared |
| `rollout` | 4 commits, 3 attempts, 2 open pull requests, 1 wait; three settings: guardianctl leads and people edit the configuration once; or there are only pushes and people edit the caller, weaken the rules or offboard; or the doctor refuses everything and people make 3 changes, the ruleset and the baseline among them | enforcement is earned before the verifier ran, diagnoses are honest about the history they read, drafts are verifiable, an enforced row was verified |
| `dast_session` | 2 calls of 1 job with 2 requests, 2 keys, time 0 to 3 | the broker implements `OneSession`, one session per job, withdrawn keys are refused |
| `remediation` | 2 commands, 2 runs, 2 workers, 1 pull request, 1 trouble (failure, lost answer, lapsed lease or act of a writer) | the recorded commit is the fix, cleanups spare writers, a link whose checks completed after the save does not stay pending |

Except in `monitoring_sweep`, whose loops go on for ever, the configurations say
`CHECK_DEADLOCK FALSE`: the system may stop when every delivery is done and the
bounds are used up. That no accepted delivery is stuck is what
`AcceptedDeliveryFinishes` says.

### Known disagreements

Nine more configurations are kept to be run by hand. Each checks one statement that
a doc, a comment or a reply of the program makes, and TLC answers with a
counterexample. (`tickets_duplicate` is the tenth, and a run; `findings` in
`PROJECT.json` quotes it.)

| Configuration, property | What the code does | What is said |
|---|---|---|
| `MCWebhookFree.cfg`, `FreeFailuresNeverDeadLetter` | the credit for a throttled or aborted claim is a Map in one process (service.ts:446-449), `attempts` a column of all: another process, or the same after a restart, counts those claims and dead-letters | docs/operations.md:307-308 "GitHub throttling and shutdown aborts requeue the job without consuming an attempt, so neither can dead-letter it" |
| `MCReviewRemovalRace.cfg`, `RemovalIsFinal` | the repository state is read once (service.ts:871) and not by `saveReview`: a review in flight writes after the discard | docs/operations.md:369-373 "discards the retained findings of every affected repository immediately"; store.ts:1773-1774 "nothing is ever published for it again" |
| `MCReviewLostAdvisory.cfg`, `AdvisoryIsRetained` | two reviews of one head pass the same compare-and-set; the one that read first and wrote last (service.ts:899) drops what the other published | docs/operations.md:346-350 "an `open` finding is live advisory state and is retained" |
| `MCReviewStaleWrite.cfg`, `LaterDismissalIsCarried` | the head moves after the review was saved; `publishStale` writes the findings of the first read again (service.ts:1311-1322, 2651-2664), so a finding the review had added is dropped with the dismissal it got since. Its old advisory must still be open, so the finding was evicted or discarded before | service.ts:2661 "A dismissal or merge outcome recorded since `existing` was read is carried, not overwritten" |
| `MCFindingsReopened.cfg`, `DelayedRunReopensNothing` | the streams of a delayed run are skipped, but every record's status is recomputed (findings-lifecycle.ts:611-624) with the policy read before the lock, or none | findings-lifecycle.ts:521-522 "a delayed retry of an old run can neither reopen nor fix what a newer run already decided" |
| `MCReleaseFreeze.cfg`, `FreezeIsNeverHidden` | the retry of a rescan sets its run back to pending (scanner-evidence.ts:2581), and a freeze of a pending run does not count until the retry is done | scanner-evidence.ts "without ever hiding the freeze" (2117-2118) |
| `MCIndexPause.cfg`, `PauseSticks` | a push handler that read the row before a pause writes the whole row back after it (service.ts:2343) | the reply to the command, that automatic review is paused |
| `MCDastLive.cfg`, `SessionIsOfTheLiveDeployment` | any successful deployment of the requested head is accepted, also one that a later deployment replaced (store.ts:5976-6036) | docs/dast.md:31-33 "proves that the same default-branch SHA is active and healthy in the profile's DigitalOcean environment" |
| `MCRolloutRepeated.cfg`, `ObservationIsReportOnly` | the doctor takes the oldest passing push or dispatch since the configuration became report-only (guardianctl index.ts:2238-2265), and a repeated run counts from its repetition: after the report-only run was repeated in enforce mode, the oldest is a run of the enforce mode it earned, until a period has passed again | docs/onboarding-repositories.md:71-74 "the first successful report-only default-branch push or `workflow_dispatch`" |

Met while modelling, without a configuration of their own:

* Queue: credit that a process keeps for a row another one finished outlives the
  row, so `BudgetEnds` holds of a delivery that is sent once.
* Rollout: a rerun resets `run_started_at`, which `workflowRunTime` reads
  (guardianctl index.ts:649-654), so repeating an old run makes its age young again,
  while docs/troubleshooting.md:23-26 and docs/onboarding-repositories.md:70-73 count
  from the run; a baseline drafted from a schedule's gate is refused by the verifier,
  and so is one of a repeated attempt, hence the premises of `DraftIsVerifiable`; the
  doctor accepts branch protection, another ruleset or a legacy baseline where the
  verifier does not; a second onboarding fails because `onboarding.md` stays behind;
  runs beyond the 1000 that GitHub lists are not seen; `enforce` writes the ruleset
  before its pull request, from a diagnosis that may be stale.
* Drafts: a run that completes before the record is saved leaves the link pending
  for good, although remediation-draft.ts:360-361 says that GuardianBot updates the
  comment when the runs complete, hence the premise of `ChecksAreReported`;
  overlapping reports can let a stale "passed" overwrite "failed"; the PUT lands on a
  commit a writer pushed in between, so the branch may hold more than what was
  validated (service.ts:2226-2227); a push between the read of the tip and the
  deletion is lost (docs/remediation-drafts.md:158-167); store.ts:733-734 says reports
  act only when the tip equals the recorded head, but the code compares the run's.

### Fairness

Only `webhook_queue` uses it. `WF(Tick)`: time passes. `WF(Step(p))`: a loop that
can claim, finish its handler or record does so, a drained process exits, and a
stopped one is started again (`restart: unless-stopped` in the compose file). No
fairness is assumed of faults, of GitHub sending again, or of cleanup. Nothing in
the code restarts a loop that ended on a store error while its process stays up,
so the property is conditional on some loop running again and again.

## Proofs

`WebhookQueueProofs` proves for any sets of deliveries and processes and any
bounds allowed by `QueueAssumption` (leases and the budget are positive, the
dead-letter retention is not the shorter one, the null values are no ids):

* `TypeCorrect`: `Safety => []TypeOK`;
* `LeasesExclude`: `LeaseExclusion`. It is not inductive: that two holders cannot
  both have time left follows only from what the *row* says. The strengthening is
  `LeaseInv`, that (a) every owner in a row is a worker id some process has had,
  (b) a loop whose lease has time left is the owner of its leased row and the two
  clocks agree, (c) `NoOrphanedLease`, and (d) a loop that owns the row it works on was
  given the row's attempt number. Two holders with time left would be two owners
  of one row;
* `NoLeaseIsOrphaned`: conjunct (c); it needs (a), or a restarted process could
  meet its new id already in a row;
* `GaugeIsExact`: the gauge's SQL and the claim's SQL select the same rows; it needs
  that a leased row has a passed `available_at`;
* `FinishedStaysFinished` and `LastClaimDecides`: the two action properties, from
  the owner fence and conjuncts (b) and (d);
* `BudgetEndsTheorem`: `BudgetEnds`, that a delivery sent once never has more counted
  failures than the budget. From `BudgetInv`: for every process, the failures counted so
  far, the credit that process keeps for the row, and the claims whose outcome is still
  open (its own, and the current owner's) are together at most the row's `attempts`, so
  no process can credit a claim twice over; and a leased row has counted less than its
  attempts.

`FindingTicketsProofs` proves for any finite set of findings, any passes, contents,
providers and bounds allowed by `TicketAssumption` (null values are no ids, no content is both
open and closed, at least one attempt):

* `TypeCorrect`: `Spec => []TypeOK`. It is not inductive: that an update writes an
  issue of the right shape needs that the issue exists. The strengthening `IInv`
  adds `RefsNameTheirIssue`: every reference in a ticket, in a listed item, in a
  session's markers or in the hand of a pass is empty or names an issue opened for
  that very finding. Issues only grow (`IssuesGrow`), so references stay good;
* `ReferencesCorrect`: `IInv` itself, a result in its own right: no pass ever
  overwrites or closes the issue of another root cause;
* `ClaimsExcludeTheorem`: from `ClaimInv`, that a pass which has not finished with a
  finding holds its claim or lost it to a lapse or a removal, that a finding in hand
  is no longer on the list, and that the holder of a claim was granted it last;
* `LateResultTheorem`: the action property `LateResultIsDiscarded`, from the fence of
  `FINDING_TICKET_COMPLETE_SQL` and the last part of `ClaimInv`;
* `OneIssueTheorem`: `OneIssuePerFinding`. From `OneInv`: a finding has at most one
  standing issue, and none while a pass has *decided* to create one. A pass decides by
  its session's search, which may be many calls old, so the argument is that what the
  search found stays true of the findings whose claims the pass still holds
  (`ClaimInv`). The premise of the property stays: no lapsed lease and no lost reply of
  a POST for that finding;
* `IssueShowsTicketTheorem`: `IssueShowsTicket`. Between two calls of a pass the ticket
  says something the issue no longer shows; `ShowInv` says that then the *pass* knows
  what it shows (`Knows`, by phase), and that what it has still to finish has a record
  its result can be written to.

`DastSessionProofs` proves for any calls, requests, jobs, profiles, deployments and
times allowed by `DastAssumption` (null values are no ids, the request for the keys
times out before the cache does) and `NoRowAssumption`:

* `TypeCorrect`: `Spec => []TypeOK`;
* `BrokerImplementsOneSession`: `Spec => OneSession!Spec` under the mapping `Granted`.
  Initial states map to initial states; a completion is a `Grant`, an answer an
  `Answer`, everything else stutters. What it needs is `Fence`: a call that is
  about to answer, or has, is the grantee on record. It is kept because a row is
  completed only by the call whose lease id it has, and a completed row is never
  claimed or released again, whatever lapsed or got lost before;
* `JobGetsOneSession`: from `Fence` and `Identified`, that a call past the
  verification asked for what its token says; two answered calls of one job then have
  one key, and one grantee;
* `WithdrawnKeyIsRefused`: from `KeysOK`. That the cache is honest is not inductive:
  an answer that is under way may become the cache, so `ReplyHonest` says that its
  keys were published when it was asked for, and `RetiredIsOld` that a withdrawn key
  is never the newest one.

`FindingsLifecycleProofs` proves for any streams, scans, policies and limits allowed by
`LifecycleAssumption` (finitely many fingerprints, the null worker is no worker, the empty
policy is one, a scan has the shape the reports have):

* `TypeCorrect` and `NewestRunDecidesTheorem`, from `IInv`. What a merge writes is
  computed from what it read, so `NewestRunDecides` needs `ReadIsStored`: what the
  holder of the lock has read is what is stored, but for tickets, which are written
  without the lock. `Underway` says that a merge holds observations its own run can
  have, `Shapes` that exactly the records some stream reports are open or suppressed;
* `FixNeedsCompleteScansTheorem`, `SlaClockIsSteadyTheorem` and
  `MergesKeepTicketsTheorem`, the action properties, from the same invariant: each
  speaks of the stored record before the step, and the code of the record it read.

`PullReviewProofs` proves for any deliveries, workers, heads and budgets allowed by
`ReviewAssumption` (limits and budgets are numbers, the null values are no ids), so
also for any number of reviews of the pull request at once:

* `TypeCorrect`;
* `RecordedBeforePublishedTheorem`: from `RecordedAll`, that what any worker has read,
  or is about to post, was recorded by some save before;
* `QuietRemovalIsFinalTheorem`: from `Quiet`, that after the discard of a removal that
  met no review in flight nobody is past the check of the repository's state;
* `DismissalSticksTheorem`: every write of the row carries dismissals, under the
  compare-and-set or the row lock, whatever it read before;
* `LaterClaimWinsTheorem`: from `Claims`, that the owner of a delivery is the worker
  with its last claim.

`AdvisoryIsRetainedTheorem` and `OutcomeIsNeverLostTheorem` have a premise of their own,
`OneReview`: there is one delivery, which any number of overlapping claims may replay, or
the worker loops run one at a time. Without it the first is false (two deliveries of one
head, `MCReviewLostAdvisory.cfg`). Both follow from `OneInv`, on top of the invariant
above: whoever may still save knows of everything on the record (`Knows`: it is in what
was read, drafted or is to be dropped), so that a save takes only what it meant to take
(`Kept`), and every finding that was ever recorded is on the record or is gone by an
eviction, a removal or a review that went stale after its save. With
`RecordedBeforePublished` that is the first property. `review_replay` checks both where
the premise holds, although it declares two deliveries: its budgets send one, or run one
loop. The proof is what showed that a review that goes stale takes back what it had
added; the model had not said so, and no run had met it.

`ReleaseChainProofs` proves for any runs, images, scans, workers and scenarios allowed
by `ChainAssumption` and `GateAssumption` (pushes and schedules are different runs, the
null values are no ids, critical is a blocking severity):

* `TypeCorrect`;
* `RecordFollowsConfirmationTheorem`: from `Confirmed`, that no handler has seen and no
  row tells of a later deployment than the one confirmed last;
* `FrozenIsNotPromotedTheorem`: from `FreezeInv`. The newest rescan of a digest is
  unique because no two are recorded at one time (`Times`); its evidence comes before
  its status (`Begun`), and a rescan that came to an end is verified unless a handler is
  still there (`Ends`), so the gate that reads it sees the freeze. A rescan whose coverage
  is recorded and whose freeze is not yet, or never will be, is not verified;
* `GatePassIsCleanTheorem`: from `Kept`, that a SAST Test of a commit has every finding
  of its report, active, accepted or lapsed, whichever imports failed or were repeated;
  and `Reads`, that a caller has read the Tests as they are unless an import or a
  triage came between its reads and its decision. It
  speaks of the scans DefectDojo has a Test of: a scan whose first import failed is not
  known to the gate, which asks for at least one SAST Test in scope
  (release-gate-policy.ts:626-665, docs/release-gate.md:43).

`RepositoryProofs` has three parts. About `RepositoryIndex` it proves, for any handlers,
processes, histories and budgets allowed by `CommitsAssumption` (ancestors are a partial
order, as Git's are), `PathsAssumption` (the list of supported paths has no path twice)
and `ValuesAssumption` (null values are no ids, the handlers are finitely many). First
the operators:

* `MergeBaseOfAncestor`: the merge base of a commit and its ancestor is the ancestor;
* `FirstOnes`, `FirstIsFinite`, `LeastIndex`, `FirstHoldsAll`: what the first `n` of a
  list that are in a set are, and that a page with fewer than its limit left nothing
  out, by counting;
* `ChangedPathsCarry`: a comparison whose base is an ancestor of the head and whose page
  is not full names every selected path that differs, or that the base did not have.

Then, from `IInv` (`Inductive`):

* `TypeCorrect`;
* `OneOnboardingIssueTheorem`: `OneOnboardingIssue`, that there are never more issues than
  one and the lost sessions of the lock. From `Issued`, by counting: the handlers that go
  on without the lock (`Unlocked`) are no more than the sessions that were lost, and the
  issues together with the handlers about to create one (`Creators`) are no more than one
  and those sessions, because only the holder of the lock and the unlocked may create, and
  the holder found none. It needs finitely many handlers;
* `IndexIsOfItsCommitTheorem` and `IncrementalMissesNothingTheorem`: from `Indexed`. What
  a refresh carries between its awaits is true of the commit it resolved, not of the
  branch, which moves: the generation to republish, the previous files with the paths to
  read again (`Carries`), the files it built; and each query of a review's context found
  rows of its commit, whatever a sweep deleted before the next.

About `Monitoring` it proves, for any replicas, repositories, records and changes allowed
by `MonitoringAssumption` (the null value is no replica; records, runs and evidence have
the fields the queries return), from `SweepInv` (`SweepInductive`):

* `SweepTypeCorrect`;
* `AlertsFollowLatestSnapshotTheorem`: from `OneSweeps`, that while no session was lost
  only the replica that holds the lock sweeps, so no other snapshot or alert comes
  between two of its saves;
* `EnforcedMeansProtectedTheorem`: from `ReadsStand`, that an accepted run or a success
  which a sweep has read stood on record since the sweep began (`RunStood`,
  `EvidenceStood`); nothing is said of what was taken back since. That the evaluation said
  `enforced` then means that it met every requirement (`NewestFound`, `RequirementMet`,
  `EnforcedFindsAll`), although its four queries saw four moments;
* `ReportIsOfACompleteSweepTheorem`: from `SavedStand`, that a sweep has saved or still
  has to save exactly what it listed and that, while no session was lost, what it saved
  is the newest snapshot; and from `ReportCounts`, that the report counts each listed
  repository once, under its state;
* `SweepClearsTheDepartedTheorem`: from `GoneStay`, that a repository that was away
  during the whole sweep so far is not among the rows it read, so that nothing it saves
  gives that repository an alert back once the alerts of the departed are resolved.

About `Rollout` it proves, for any history, pins, configurations, ends of runs and
bounds allowed by `RolloutAssumption` and `PolicyAssumption` (the null value is no pin,
mode or file, runs have one of the three events of the caller workflow, the observation
period is positive), from `RolloutInv` (`RolloutInductive`):

* `History`: commits have ascending times, configuration and caller are there together
  and name one pin (`Coherent`), and a file that no commit of a stretch touches is the
  same at both ends. The merge of two branches keeps `Coherent` only because Git merges
  the configuration by line and the caller whole (`MergedIsCoherent`);
* `Executions`: each run started while its head was the head of the branch, and only
  its last attempt may be pending;
* `Verification`: what the verifier of an attempt found stays true (`Checked`,
  `Vouched`): an observation that was old enough gets older, and a ruleset that required
  the check after the attempt began did so since, even if it is weakened now;
* `Commands`: what a command holds after each of its requests stays true until it uses
  it, whatever is merged, run or repeated in between: the list of runs is of attempts that
  stay (`Listing`), the start of the report-only stretch lies in the history that was read
  (`Seen`), and so on to the observed run of a draft (`DraftHolds`);
* `EnforcementIsEarnedTheorem`, `DraftIsVerifiableTheorem`: from `Verification`, what the
  verifier read is what the property says; what guardianctl drafts is what the verifier
  reads;
* `DiagnosisIsHonestTheorem`: from `Stretch`, that the walk over the configuration's
  commits finds one that was report-only, after which the configuration was report-only
  and then at most enforce up to the commit at which the history was read, and from `Seen`
  and `Listing`, which carry that to the conclusion. The observed attempt is older than
  the command, because a command takes less than the period. The proof attempt corrected
  the property: TLC then found that the last report-only commit may lie before the commit
  in force when the observed run was repeated, which the smaller bounds had hidden;
* `EnforcedRowIsVerifiedTheorem`: from `ChangedIs` and the premise that no run was
  repeated, that a run after the last change of the managed files has the configuration
  of today at its head.

`RemediationDraftProofs` proves for any workers, contents and numbers of commits, pull
requests and runs allowed by `DraftAssumption` (the finding has a first and a last line,
files are sequences of lines, null values are no ids):

* `CleanupSparesWritersTheorem`: from `WorkerOK`, that between the read of the tip and
  the deletion the commits of writers that were there when it was read are not on the
  branch to be deleted;
* `RecordedCommitHoldsTheFixTheorem`: from `RecordOK` and `WorkerOK`, that the row a
  handler has in hand, as the stored one, names a commit with the validated fix and the
  link comment of that commit;
* `ChecksAreReportedTheorem`: that the link of a recorded draft is not pending once
  everything is handled and its checks are complete, if a run of its commit completed
  after the record was saved. From `Reported`: that the checks are shown when they are
  complete is not inductive, because showing them takes three steps of a handler that
  may die: until then a delivery is still to be handled that will show them. Which outcome
  is shown is not said: of overlapping reports the older may write last.

Each of these invariants holds on the instances of the runs too, where TLC checks it as an
`INVARIANT` of a module that extends the MC module and the proofs (all but
`OwnersExist`, which quantifies over the naturals).

Only model-checked: liveness (`AcceptedDeliveryFinishes`; the prover has no rule for
it, nor for `ENABLED`). Every other property of the passing runs is a theorem. What a
recursive definition computes is not proved (the prover has no induction over data): the
proofs about `RepositoryIndex` use that the files kept within the byte budget are among
those that were read, not how many fit.

## Not modelled

* The contents of a review: bundle, prompt, rendering, ranking; the parsers, symbols
  and graph queries of the index.
* Which comment carries the summary: `summary` is one comment.
* An operator's manual requeue of a dead letter (SQL in `docs/operations.md`).
* HTTP routes other than the webhook, the gate's check and the session broker;
  signatures, attestations, TLS, metrics, logging.
* In `Rollout`: the checks of release branches (guardianctl index.ts:2527-2623),
  configurations that do not parse, rules that cannot be read, and `upgrade` over a
  list of repositories. Some of its steps are coarser than the code: a command is shorter
  than the observation period (the guard of `doctorReads`) and no days pass while it
  runs; a reading that refuses the command ends it at once, for what would be read
  after it changes nothing; the jobs of the listed runs are read in one step, and
  `NewestJobFirst` says for a whole behaviour in which order GitHub lists them; a run is
  repeated as a whole, with all its jobs; the inventory is evaluated on one snapshot; the
  verifier reads the attempts that a baseline claims in one step, as they do not change
  once they have ended. No property speaks of commits merged after the doctor read the
  history, or of a ruleset weakened after the verifier read it.
* Archive and report parsing of scanner evidence: an artifact is valid or not.
* The model bridge, the backend registry and the protocol client: one request each,
  no state that outlives it but an admission counter. Database migration: one
  statement under one lock at boot. `PROJECT.json` lists each with its reason.

## Plan

Done: the ten specifications above, all of them with proofs, one refinement. What
would come next: an abstract lifecycle that `FindingsLifecycle` implements, and an
abstract promise of the queue (a delivery that was accepted is decided once) that
`WebhookQueue` implements.
