----------------------------- MODULE Monitoring -----------------------------
(***************************************************************************)
(* The monitoring service: every replica runs a loop whose sweep takes a   *)
(* database-wide advisory lock, lists the inventory with four concurrent   *)
(* queries, resolves the alerts of repositories that left, evaluates and   *)
(* saves each repository, and publishes the weekly report when every one   *)
(* was saved.  Other parts of the system change the records while a sweep  *)
(* runs; a replica stops, crashes, or loses the session that holds the     *)
(* lock while its sweep goes on.  The process-local gauges are left out.   *)
(***************************************************************************)
EXTENDS MonitoringPolicy, TLC

CONSTANTS
    Procs,                  \* replicas of the control plane
    Repos,                  \* repository ids, a set of integers
    InitialRecords,         \* function: repository -> its possible first records
    Generations, Runs, Evidence,    \* functions: repository -> what other parts
                                    \* may record of it later
    MaxChanges, MaxFaults   \* bounds on changes of the records and on faults

RecordFields == {"active", "indexSha", "indexAge", "scannerState", "paused",
                 "generations", "runs", "evidence", "findings"}
RunFields == {"id", "event", "sha", "verdict", "status", "conclusion", "age"}
Verdicts == {"pending", "accepted", "rejected", "failed"}

\* Evidence of a signature names the digest that was signed.
EvidenceRecord(e) == /\ DOMAIN e = {"key", "run", "status", "digest", "age"}
                     /\ e.status \in {"success", "failure"} /\ e.age \in Nat
                     /\ e.key = "signature" => e.digest # None

ASSUME MonitoringAssumption ==
    /\ None \notin Procs /\ Repos \subseteq Nat /\ {MaxChanges, MaxFaults} \subseteq Nat
    /\ \A r \in Repos :
         /\ \A w \in InitialRecords[r] :
              /\ DOMAIN w = RecordFields /\ w.active \in BOOLEAN
              /\ \A n \in w.runs : DOMAIN n = RunFields
              /\ \A e \in w.evidence : EvidenceRecord(e)
         /\ \A n \in Runs[r] : DOMAIN n = RunFields
         /\ \A e \in Evidence[r] : EvidenceRecord(e)

VARIABLES
    records,    \* repository -> [active, indexSha, indexAge, scannerState, paused,
                \*   generations, runs, evidence, findings]
    sweepLock,  \* the replica whose session holds the advisory lock, or None
    sweep,      \* replica -> its sweep
    latest,     \* swept repository -> the snapshot with the newest observation time
    alerts,     \* repository -> keys of its active alerts
    report,     \* the weekly report, or None
    lost,       \* a sweep once went on without the lock
    changes, faults

sweepVars == <<records, sweepLock, sweep, latest, alerts, report, lost, changes, faults>>

Queries == {"repositories", "indexes", "runs", "evidence"}

NoSweep == [pc |-> "off", stopping |-> FALSE, reads |-> {}, rows |-> <<>>, indexes |-> <<>>,
            runs |-> <<>>, evidence |-> <<>>, todo |-> {}, saved |-> <<>>, outcome |-> "success",
            earlier |-> {}, overtaken |-> {}, gone |-> {},
            stood |-> [r \in Repos |-> [runs |-> {}, evidence |-> {}]]]

ActiveRepos == {r \in Repos : records[r].active}

Sweeping(p) == sweep[p].pc \notin {"off", "idle"}

SweepInit == /\ records \in [Repos -> UNION {InitialRecords[r] : r \in Repos}]
             /\ \A r \in Repos : records[r] \in InitialRecords[r]
             /\ sweepLock = None
             /\ sweep = [p \in Procs |-> [NoSweep EXCEPT !.pc = "idle"]]
             /\ latest = <<>>
             /\ alerts = [r \in Repos |-> {}]
             /\ report = None
             /\ lost = FALSE
             /\ changes = 0 /\ faults = 0

-----------------------------------------------------------------------------
(* What other parts of the system do to the records meanwhile.  A sweep's  *)
(* stood remembers the accepted runs and the successes that were on record *)
(* at some moment since it began.                                          *)

Standing(w) ==
    [runs |-> {[id |-> n.id, sha |-> n.sha] : n \in {m \in w.runs : m.verdict = "accepted"}},
     evidence |-> {[key |-> e.key, run |-> e.run, digest |-> e.digest] :
                     e \in {f \in w.evidence : f.status = "success"}}]

StandsToo(stood, w) == [runs |-> stood.runs \cup Standing(w).runs,
                        evidence |-> stood.evidence \cup Standing(w).evidence]

Change(r, new) ==
    /\ changes < MaxChanges
    /\ new # records[r]
    /\ records' = [records EXCEPT ![r] = new]
    /\ sweep' = [p \in Procs |-> IF Sweeping(p)
                                 THEN [sweep[p] EXCEPT !.stood[r] = StandsToo(@, new)]
                                 ELSE sweep[p]]
    /\ changes' = changes + 1
    /\ UNCHANGED <<sweepLock, latest, alerts, report, lost, faults>>

\* A generation is published and the row moves to it.
indexPublished(r) ==
    \E g \in Generations[r] :
        Change(r, [records[r] EXCEPT
                     !.generations = {x \in @ : x.commit # g.commit} \cup {g},
                     !.indexSha = g.commit, !.indexAge = 0,
                     !.scannerState = IF g.config = None THEN "not-configured"
                                      ELSE ScannerStateOf(g.config.mode)])

\* A scanner run is recorded, or gets another verdict.  Nothing fences the upsert:
\* deliveries of one run overlap and repeat, so that an accepted run may be pending
\* or failed again.  What GitHub says of a recorded run stays.
upsertScannerWorkflowRun(r) ==
    \/ \E n \in Runs[r] :
          /\ \A x \in records[r].runs : x.id # n.id
          /\ Change(r, [records[r] EXCEPT !.runs = @ \cup {n}])
    \/ \E x \in records[r].runs, v \in Verdicts :
          Change(r, [records[r] EXCEPT !.runs = (@ \ {x}) \cup {[x EXCEPT !.verdict = v]}])

\* Evidence belongs to a recorded run and overwrites what that run had recorded
\* under its key, a success too.
upsertScannerEvidence(r) ==
    \E e \in Evidence[r] :
        LET Same(x) == x.key = e.key /\ x.run = e.run IN
        /\ \E n \in records[r].runs : n.id = e.run
        /\ Change(r, [records[r] EXCEPT !.evidence = {x \in @ : ~Same(x)} \cup {e}])

\* A repository leaves monitoring, or comes back; gone remembers those that were
\* away during the whole sweep.
repositoryStateChanges(r) ==
    /\ changes < MaxChanges
    /\ records' = [records EXCEPT ![r].active = ~@]
    /\ sweep' = [p \in Procs |-> [sweep[p] EXCEPT !.gone = @ \ {r}]]
    /\ changes' = changes + 1
    /\ UNCHANGED <<sweepLock, latest, alerts, report, lost, faults>>

Older(S) == {[x EXCEPT !.age = @ + 1] : x \in S}

timePasses ==
    /\ changes < MaxChanges
    /\ records' = [r \in Repos |-> [records[r] EXCEPT
                      !.indexAge = IF @ = None THEN None ELSE @ + 1,
                      !.runs = Older(@), !.evidence = Older(@)]]
    /\ changes' = changes + 1
    /\ UNCHANGED <<sweepLock, sweep, latest, alerts, report, lost, faults>>

-----------------------------------------------------------------------------
(* The loop of a replica and the lock.                                     *)

start(p) == /\ sweep[p].pc = "off"
            /\ sweep' = [sweep EXCEPT ![p] = [NoSweep EXCEPT !.pc = "idle"]]
            /\ UNCHANGED <<records, sweepLock, latest, alerts, report, lost, changes, faults>>

\* A mistake: the answer of pg_try_advisory_lock is not looked at.
LockAnswerIgnored(p) == TRUE

\* pg_try_advisory_lock succeeds only when no session holds the lock.
LockIsFree(p) == sweepLock = None

\* The sweep's observation time follows that of every sweep under way.
acquireMonitoringLock(p) ==
    /\ sweep[p].pc = "idle" /\ ~sweep[p].stopping
    /\ LockIsFree(p)
    /\ sweepLock' = p
    /\ sweep' = [q \in Procs |->
                   IF q = p THEN [NoSweep EXCEPT !.pc = "list", !.reads = Queries,
                                                 !.earlier = {x \in Procs \ {p} : Sweeping(x)},
                                                 !.gone = Repos \ ActiveRepos,
                                                 !.stood = [r \in Repos |-> Standing(records[r])]]
                   ELSE [sweep[q] EXCEPT !.earlier = @ \ {p}]]
    /\ UNCHANGED <<records, latest, alerts, report, lost, changes, faults>>

Keep(p, s) == /\ sweep' = [sweep EXCEPT ![p] = s]
              /\ UNCHANGED <<records, sweepLock, lost, changes, faults>>

\* listMonitoringRepositoryInventory: four queries, each its own snapshot.  The
\* index query returns the generation the row points at when it runs.
IndexOf(row) == IF \E g \in row.generations : g.commit = row.indexSha
                THEN CHOOSE g \in row.generations : g.commit = row.indexSha ELSE None

\* The newest evidence of each key and event; a deployment's also by status.
latestScannerEvidence(row) ==
    LET EventOf(e) == (CHOOSE n \in row.runs : n.id = e.run).event
        Alike(e, x) == /\ e.key = x.key /\ EventOf(e) = EventOf(x)
                       /\ e.key = "deployment" => e.status = x.status
    IN  {e \in row.evidence :
           \A x \in row.evidence : Alike(e, x) =>
               e.age < x.age \/ (e.age = x.age /\ e.run >= x.run)}

RowOf(w) == [indexSha |-> w.indexSha, indexAge |-> w.indexAge, paused |-> w.paused,
             scannerState |-> w.scannerState]

listMonitoringRepositoryInventory(p) ==
    /\ sweep[p].pc = "list"
    /\ \E q \in sweep[p].reads :
         LET rest == sweep[p].reads \ {q}
             read == [sweep[p] EXCEPT !.reads = rest,
                                      !.pc = IF rest = {} THEN "resolve" ELSE "list"]
         IN  \/ /\ q = "repositories"
                /\ Keep(p, [read EXCEPT !.rows = [r \in ActiveRepos |-> RowOf(records[r])]])
             \/ /\ q = "indexes"
                /\ Keep(p, [read EXCEPT !.indexes = [r \in ActiveRepos |-> IndexOf(records[r])]])
             \/ /\ q = "runs"
                /\ Keep(p, [read EXCEPT !.runs = [r \in ActiveRepos |-> records[r].runs]])
             \/ /\ q = "evidence"
                /\ Keep(p, [read EXCEPT !.evidence =
                               [r \in ActiveRepos |-> latestScannerEvidence(records[r])]])
    /\ UNCHANGED <<latest, alerts, report>>

\* A mistake: the alerts of repositories that left are kept.
AlertsStay == alerts

ResolvedAlerts == [r \in Repos |-> IF records[r].active THEN alerts[r] ELSE {}]

\* The repositories to sweep are those of the inventory's row query.
resolveMonitoringAlertsForInactiveRepositories(p) ==
    /\ sweep[p].pc = "resolve"
    /\ alerts' = ResolvedAlerts
    /\ Keep(p, [sweep[p] EXCEPT !.pc = "each", !.todo = DOMAIN sweep[p].rows])
    /\ UNCHANGED <<latest, report>>

\* What the four results say of repository r; its findings are read now.
InventoryItem(p, r) ==
    LET s == sweep[p]
        At(f, none) == IF r \in DOMAIN f THEN f[r] ELSE none
    IN  [repo |-> s.rows[r], index |-> At(s.indexes, None), runs |-> At(s.runs, {}),
         evidence |-> At(s.evidence, {}), findings |-> records[r].findings]

toPersistedSnapshot(item) ==
    LET v == evaluateInventoryItem(item)
    IN  [state |-> v.state, overall |-> v.overall, checks |-> v.checks,
         commit |-> item.repo.indexSha, config |-> readIndexedConfiguration(item)]

NextRepository(p) == CHOOSE x \in sweep[p].todo : \A y \in sweep[p].todo : x <= y
Put(f, r, snapshot) == [x \in DOMAIN f \cup {r} |-> IF x = r THEN snapshot ELSE f[x]]

\* One transaction.  A snapshot of an older observation becomes the latest only
\* when both fall in one interval and so share a key.
saveMonitoringSnapshot(p) ==
    /\ sweep[p].pc = "each" /\ sweep[p].todo # {} /\ ~sweep[p].stopping
    /\ LET s == sweep[p]
           r == NextRepository(p)
       IN  \E snapshot \in {toPersistedSnapshot(InventoryItem(p, r))}, sameInterval \in BOOLEAN :
             /\ alerts' = [alerts EXCEPT ![r] = activeAlertsFor(snapshot.checks)]
             /\ latest' = IF r \in s.overtaken /\ ~sameInterval
                          THEN latest ELSE Put(latest, r, snapshot)
             /\ sweep' = [q \in Procs |->
                   IF q = p THEN [s EXCEPT !.todo = @ \ {r}, !.saved = Put(@, r, snapshot)]
                   ELSE IF q \in s.earlier THEN [sweep[q] EXCEPT !.overtaken = @ \cup {r}]
                   ELSE sweep[q]]
    /\ UNCHANGED <<records, sweepLock, lost, report, changes, faults>>

\* The cancellation checkpoint before each repository.
throwIfMonitoringAborted(p) ==
    /\ sweep[p].pc = "each" /\ sweep[p].todo # {} /\ sweep[p].stopping
    /\ Keep(p, [sweep[p] EXCEPT !.pc = "release", !.outcome = "cancelled"])
    /\ UNCHANGED <<latest, alerts, report>>

\* A mistake: a shutdown breaks out of the loop instead of throwing.
SweptOrStopping(p) == sweep[p].todo = {} \/ sweep[p].stopping

EverythingSwept(p) == sweep[p].todo = {}

\* After the last repository; exactly at the start of a week there is no report.
saveMonitoringWeeklyReport(p) ==
    /\ sweep[p].pc = "each" /\ EverythingSwept(p)
    /\ report' \in {report, buildWeeklyCoverageReport(sweep[p].saved)}
    /\ Keep(p, [sweep[p] EXCEPT !.pc = "release"])
    /\ UNCHANGED <<latest, alerts>>

\* The lock is released whatever happened; a stopped loop ends.
finishSweep(p) ==
    /\ sweep[p].pc = "release"
    /\ sweepLock' = IF sweepLock = p THEN None ELSE sweepLock
    /\ sweep' = [q \in Procs |->
           IF q = p THEN [NoSweep EXCEPT !.pc = IF sweep[p].stopping THEN "off" ELSE "idle"]
           ELSE [sweep[q] EXCEPT !.earlier = @ \ {p}]]
    /\ UNCHANGED <<records, latest, alerts, report, lost, changes, faults>>

-----------------------------------------------------------------------------
(* Faults.                                                                 *)

Fault == faults < MaxFaults /\ faults' = faults + 1

\* stop: the loop ends at once when it sleeps, at the next checkpoint otherwise.
stop(p) == /\ Fault
           /\ sweep[p].pc # "off" /\ ~sweep[p].stopping
           /\ sweep' = [sweep EXCEPT ![p] = IF Sweeping(p) THEN [@ EXCEPT !.stopping = TRUE]
                                            ELSE NoSweep]
           /\ UNCHANGED <<records, sweepLock, latest, alerts, report, lost, changes>>

\* A statement of the sweep fails: the lock is still released.
sweepFails(p) == /\ Fault
                 /\ sweep[p].pc \in {"list", "resolve", "each"}
                 /\ sweep' = [sweep EXCEPT ![p].pc = "release", ![p].outcome = "failed"]
                 /\ UNCHANGED <<records, sweepLock, latest, alerts, report, lost, changes>>

\* The database drops the session that holds the lock; the sweep does not notice.
sessionLost == /\ Fault
               /\ sweepLock # None
               /\ sweepLock' = None /\ lost' = TRUE
               /\ UNCHANGED <<records, sweep, latest, alerts, report, changes>>

\* The replica dies and its session with it.
replicaCrash(p) == /\ Fault
                   /\ sweep[p].pc # "off"
                   /\ sweepLock' = IF sweepLock = p THEN None ELSE sweepLock
                   /\ sweep' = [q \in Procs |-> IF q = p THEN NoSweep
                                                ELSE [sweep[q] EXCEPT !.earlier = @ \ {p}]]
                   /\ UNCHANGED <<records, latest, alerts, report, lost, changes>>

-----------------------------------------------------------------------------
Step(p) == \/ start(p) \/ acquireMonitoringLock(p)
           \/ listMonitoringRepositoryInventory(p)
           \/ resolveMonitoringAlertsForInactiveRepositories(p)
           \/ saveMonitoringSnapshot(p) \/ throwIfMonitoringAborted(p)
           \/ saveMonitoringWeeklyReport(p) \/ finishSweep(p)

SweepNext == \/ \E p \in Procs : Step(p) \/ stop(p) \/ sweepFails(p) \/ replicaCrash(p)
             \/ sessionLost
             \/ \E r \in Repos : \/ indexPublished(r) \/ upsertScannerWorkflowRun(r)
                                 \/ upsertScannerEvidence(r) \/ repositoryStateChanges(r)
             \/ timePasses

SweepSpec == SweepInit /\ [][SweepNext]_sweepVars

-----------------------------------------------------------------------------
SweepTypeOK ==
    /\ DOMAIN latest \subseteq Repos
    /\ sweepLock \in Procs \cup {None}
    /\ \A p \in Procs :
         /\ sweep[p].pc \in {"off", "idle", "list", "resolve", "each", "release"}
         /\ sweep[p].reads \subseteq Queries
         /\ sweep[p].todo \cup DOMAIN sweep[p].saved \subseteq Repos
         /\ sweep[p].outcome \in {"success", "failed", "cancelled"}
         /\ sweep[p].earlier \subseteq Procs /\ sweep[p].overtaken \subseteq Repos
    /\ \A r \in DOMAIN latest : latest[r].overall \in Statuses
    /\ lost \in BOOLEAN /\ changes \in 0..MaxChanges /\ faults \in 0..MaxFaults

\* The active alerts of a repository are those of its latest snapshot, unless they
\* were resolved because it left: no older sweep's verdict raises or clears an alert
\* behind a newer one.  Only a sweep that lost its lock can break this.
AlertsFollowLatestSnapshot ==
    \A r \in Repos :
        \/ lost
        \/ alerts[r] = {}
        \/ r \in DOMAIN latest /\ alerts[r] = activeAlertsFor(latest[r].checks)

\* A sweep saves a repository as enforced only if everything its configuration turns
\* on was attested with success by an accepted run of the very commit that is
\* indexed, and the signed image is the deployed one, by what stood on record while
\* that sweep went on: its four queries each saw the database at another moment, and
\* verdicts and evidence are overwritten in between.  Nothing older counts, nor
\* anything a later delivery has yet to record.
EnforcedMeansProtected ==
    \A p \in Procs : \A r \in DOMAIN sweep[p].saved :
        sweep[p].saved[r].state = "enforced" =>
            LET config == sweep[p].saved[r].config
                attested == {e \in sweep[p].stood[r].evidence :
                               \E n \in sweep[p].stood[r].runs :
                                  n.id = e.run /\ n.sha = sweep[p].saved[r].commit}
                Has(key) == \E e \in attested : e.key = key
            IN  /\ config # None
                /\ config.semgrep => Has("semgrep") /\ Has("semgrep-import")
                /\ config.image => Has("image-trivy") /\ Has("sbom")
                /\ config.image /\ config.deployment =>
                      \E e, f \in attested : /\ e.key = "signature" /\ f.key = "deployment"
                                             /\ e.digest = f.digest

\* A sweep that was cancelled or failed publishes nothing: a report that changes
\* counts every active repository the sweep listed, each by the state its snapshot
\* says.
ReportIsOfACompleteSweep ==
    [][(report' # report /\ ~lost) =>
         \E p \in Procs :
            LET listed == DOMAIN sweep[p].rows
                states == {latest[r].state : r \in listed}
            IN  /\ sweep[p].pc = "each" /\ listed \subseteq DOMAIN latest
                /\ report'.total = Cardinality(listed)
                /\ DOMAIN report'.states = states
                /\ \A s \in states :
                     report'.states[s] = Cardinality({r \in listed : latest[r].state = s})]_sweepVars

\* Once a sweep ends that was not cut short, no repository that was away during all
\* of it has an active alert, also when it had left in the middle of an earlier
\* sweep, which then saved it once more.
SweepClearsTheDeparted ==
    [][\A p \in Procs :
         (sweep[p].pc = "release" /\ sweep'[p].pc = "idle" /\ sweep[p].outcome = "success" /\ ~lost)
           => \A r \in sweep[p].gone : alerts[r] = {}]_sweepVars

=============================================================================
