----------------------------- MODULE ReleaseGate -----------------------------
(***************************************************************************)
(* The release decision: evaluateReleaseGate of release-gate-policy.ts, a  *)
(* function of a candidate (commit and image digest), the evidence of the  *)
(* control plane and what DefectDojo returned.  One repository and one     *)
(* deployment environment; the candidate, tests and evidence of others are *)
(* told apart by their tags before they get here.                          *)
(***************************************************************************)
EXTENDS Naturals, FiniteSets

CONSTANTS
    Blocking,          \* policy.blockingSeverities
    RequiredEvidence,  \* policy.requiredEvidence
    VerifiedOnly,      \* policy.verifiedOnly
    SastScans,         \* scan types of a security artifact
    None               \* null

Severities == {"critical", "high"}
Sources == {"sast", "image", "dast"}

ASSUME GateAssumption ==
    /\ Blocking \subseteq Severities /\ "critical" \in Blocking
    /\ RequiredEvidence \subseteq {"signature", "image-scan", "sbom", "deployed-rescan"}
    /\ VerifiedOnly \in BOOLEAN

(***************************************************************************)
(* A DefectDojo Test carries the tags of its last import: digest = None is *)
(* a commit-scoped import, otherwise a deployment-bound one.               *)
(***************************************************************************)
findingScope(test, c) ==
    CASE test.digest # None /\ test.digest = c.digest -> "in-scope"
      [] test.digest # None /\ test.digest # c.digest -> "other-digest"
      [] test.digest = None /\ test.commit = c.commit -> "in-scope"
      [] OTHER                                        -> "other-commit"

(* Mutant: any stored summary counts as proof, whatever it counted.        *)
commitScanProofOfPresence(source, scan, ev) ==
    \/ source = "sast" /\ scan \in SastScans /\ ev.commitScan # None
    \/ source = "image" /\ ev.imageScan # None

(***************************************************************************)
(* Local proof that a commit-scoped scan of the candidate is clean, used   *)
(* when DefectDojo's Test of that scan was reimported for another commit.  *)
(* A summary is [ok, found]: the scanner's status and the severities with  *)
(* a non-zero count.                                                       *)
(***************************************************************************)
commitScanProof(source, scan, ev) ==
    \/ /\ source = "sast"
       /\ scan \in SastScans
       /\ ev.commitScan # None
       /\ ev.commitScan[scan] # None
       /\ ev.commitScan[scan].ok
       /\ ev.commitScan[scan].found \cap Blocking = {}
    \/ /\ source = "image"
       /\ Blocking = {"critical"}
       /\ ev.imageScan # None
       /\ ev.imageScan.ok /\ ev.imageScan.critical = 0

SignatureBlockers(c, ev) ==
    IF ev.signature = None \/ ev.signature.digest # c.digest
    THEN {"unsigned-digest"}
    ELSE IF ev.signature.trusted THEN {} ELSE {"wrong-signer"}

ImageScanBlockers(ev) ==
    CASE "image-scan" \notin RequiredEvidence          -> {}
      [] ev.imageScan = None                           -> {"image-scan-missing"}
      [] ev.imageScan.ok /\ ev.imageScan.critical = 0  -> {}
      [] OTHER                                         -> {"image-scan-critical"}

SbomBlockers(ev) ==
    IF "sbom" \in RequiredEvidence /\ ~ev.sbom THEN {"sbom-missing"} ELSE {}

(***************************************************************************)
(* candidateRescan is the newest verified rescan of the candidate digest,  *)
(* deployedRescan the coverage of the digest that runs now.                *)
(***************************************************************************)
RescanBlockers(c, ev) ==
    LET covered == ev.deployedRescan.rescan
    IN  (IF ev.candidateRescan # None /\ ev.candidateRescan.digest = c.digest /\ ev.candidateRescan.frozen
         THEN {"promotion-frozen"} ELSE {})
        \cup
        (CASE "deployed-rescan" \notin RequiredEvidence -> {}
           [] ev.deployedRescan.digest = None -> {}
           [] covered = None \/ ~covered.fresh -> {"deployed-rescan-missing"}
           [] OTHER -> IF covered.accepted THEN {} ELSE {"deployed-rescan-failed"})

(***************************************************************************)
(* Scan types whose Tests all name another commit, and the two sources     *)
(* that must have an import scoped to the candidate.                       *)
(***************************************************************************)
Stale(tests, c) ==
    { k \in { <<t.source, t.scan>> : t \in tests } :
        /\ k[1] # "dast"
        /\ \E t \in tests : <<t.source, t.scan>> = k /\ findingScope(t, c) = "other-commit"
        /\ ~\E t \in tests : <<t.source, t.scan>> = k /\ findingScope(t, c) = "in-scope" }

ScopeBlockers(c, ev, tests) ==
    LET described(source) ==
            \/ \E t \in tests : t.source = source /\ findingScope(t, c) = "in-scope"
            \/ \E k \in Stale(tests, c) : k[1] = source
    IN  IF \/ \E k \in Stale(tests, c) : ~commitScanProof(k[1], k[2], ev)
           \/ \E source \in {"sast", "image"} : ~described(source)
        THEN {"defectdojo-scope-missing"} ELSE {}

(***************************************************************************)
(* A finding is [test, severity, state]; its Test decides its scope.  The  *)
(* states are those the evaluator tells apart: active, unverified, closed  *)
(* (inactive, mitigated, false positive or duplicate), accepted with a     *)
(* named unexpired acceptance, and lapsed (risk_accepted without one).     *)
(***************************************************************************)
FindingBlockers(c, tests, findings) ==
    LET inScope(f) == \E t \in tests : t.id = f.test /\ findingScope(t, c) = "in-scope"
        counts(f)  == inScope(f) /\ f.severity \in Blocking
    IN  { code \in {"release-blocking-finding", "risk-acceptance-invalid"} :
            \E f \in findings :
               /\ counts(f)
               /\ \/ /\ code = "release-blocking-finding"
                     /\ f.state = "active" \/ (f.state = "unverified" /\ ~VerifiedOnly)
                  \/ /\ code = "risk-acceptance-invalid"
                     /\ f.state = "lapsed" }

evaluateReleaseGate(c, ev, dojo) ==
    SignatureBlockers(c, ev) \cup ImageScanBlockers(ev) \cup SbomBlockers(ev)
    \cup RescanBlockers(c, ev)
    \cup (IF ~dojo.available
          THEN {"gate-unavailable"}
          ELSE ScopeBlockers(c, ev, dojo.tests) \cup FindingBlockers(c, dojo.tests, dojo.findings))
==============================================================================
