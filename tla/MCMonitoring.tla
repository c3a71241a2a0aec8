---------------------------- MODULE MCMonitoring ----------------------------
(* Two replicas and two repositories: one with rich records, one that only *)
(* has a configuration that does not parse.                                *)
EXTENDS Monitoring

MCRepos == {1, 2}
Symmetry == Permutations(Procs)

Scanning == [mode |-> "enforce", semgrep |-> TRUE, trivy |-> FALSE, image |-> FALSE,
             deployment |-> FALSE, dast |-> FALSE, automatic |-> TRUE, suppressions |-> {}]
Shipping == [Scanning EXCEPT !.semgrep = FALSE, !.image = TRUE, !.deployment = TRUE,
                             !.dast = TRUE, !.suppressions = {1, 3}]

Generation(c, config, baseline) == [commit |-> c, config |-> config, baseline |-> baseline]

Run(id, event, sha, verdict, age) ==
    [id |-> id, event |-> event, sha |-> sha, verdict |-> verdict, status |-> "completed",
     conclusion |-> "success", age |-> age]

Found(key, n, status, digest, age) ==
    [key |-> key, run |-> n, status |-> status, digest |-> digest, age |-> age]

Row(sha, config, n, e, f) ==
    [active |-> TRUE, indexSha |-> sha, indexAge |-> 0, paused |-> FALSE,
     scannerState |-> IF config = None THEN "enforced" ELSE ScannerStateOf(config.mode),
     generations |-> {Generation(sha, config, "valid")}, runs |-> n, evidence |-> e,
     findings |-> f]

\* Semgrep enforced on c1: run 1 was scheduled on it, and push 2 has the evidence.
ScanningRow ==
    Row("c1", Scanning, {Run(1, "schedule", "c1", "accepted", 2), Run(2, "push", "c1", "pending", 1)},
        {Found("semgrep", 2, "success", None, 1), Found("semgrep-import", 2, "success", None, 1)},
        None)

\* An image signed and deployed by push 1, rescanned and attacked by schedule 2.
ShippingRow ==
    Row("c1", Shipping, {Run(1, "push", "c1", "accepted", 2), Run(2, "schedule", "c1", "accepted", 1)},
        {Found(k, 1, "success", "d1", 2) :
           k \in {"image-trivy", "sbom", "signature", "deployment", "zap-smoke", "zap-smoke-import"}}
          \cup {Found(k, 2, "success", "d1", 1) :
                 k \in {"image-rescan", "zap-nightly", "zap-nightly-import"}}
          \cup {Found("promotion-freeze", 2, "failure", "d1", 1)},
        [open |-> {1}, failedTickets |-> 0, dropped |-> 1, droppedSevere |-> 0, foreign |-> 0])

MCInitialRecords ==
    [r \in MCRepos |-> IF r = 1 THEN {ScanningRow, ShippingRow}
                       ELSE {Row("c1", None, {}, {}, None)}]

\* Later the index of the first repository moves to c2, a run of c2 begins, a
\* replayed delivery fails where it had succeeded or the other way round.
OfFirst(S) == [r \in MCRepos |-> IF r = 1 THEN S ELSE {}]
MCGenerations == OfFirst({Generation("c2", Scanning, "valid")})
MCRuns == OfFirst({Run(3, "schedule", "c2", "pending", 0)})
MCEvidence == OfFirst({Found("trivy", 2, "failure", None, 0), Found("semgrep-import", 2, "failure", None, 0),
                       Found("promotion-freeze", 2, "success", "d1", 0)})
=============================================================================
