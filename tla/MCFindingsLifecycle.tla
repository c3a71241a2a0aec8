------------------------- MODULE MCFindingsLifecycle -------------------------
(* Small instances of the findings lifecycle for TLC.                       *)
EXTENDS FindingsLifecycle, TLC

CONSTANTS f1, f2, s1, s2, w1, w2

Artifacts(stream, complete, found) == [stream : {stream}, complete : complete, findings : found]

(* Trusted runs: one artifact of s1, or complete artifacts of both streams; *)
(* and an untrusted run that found nothing.                                 *)
SmallScans ==
  LET single == {<<p>> : p \in Artifacts(s1, BOOLEAN, SUBSET Fingerprints)}
      both   == {<<p, q>> : p \in Artifacts(s1, {TRUE}, SUBSET Fingerprints),
                            q \in Artifacts(s2, {TRUE}, {{}, {f1}})}
      clean  == {<<p>> : p \in Artifacts(s1, {TRUE}, {{}})}
  IN  [trusted : {TRUE}, parts : single \cup both] \cup [trusted : {FALSE}, parts : clean]

(* No suppression, or one of the severe finding. *)
SmallPolicies == {{}, {f1}}

WorkerSymmetry == Permutations({w1, w2})
=============================================================================
