--------------------------- MODULE MCReleaseChain ---------------------------
(* Small instances of the release chain for TLC.                             *)
EXTENDS ReleaseChain, TLC

CONSTANTS p1, p2, r1, d1, d2, w1, w2

Scan(ok, found) == [ok |-> ok, found |-> found]
Files(found, critical) ==
    [sast |-> [s \in SastScans |-> Scan(TRUE, found)], critical |-> critical,
     zap |-> Scan(TRUE, {}), bad |-> {}]

Clean == Files({}, 0)
Scenario(q1, q2, a, b, c, tries, faults, decisions, checks) ==
    [image  |-> [p \in Pushes |-> IF p = p1 THEN q1 ELSE q2],
     report |-> [r \in Runs |-> CASE r = p1 -> a [] r = p2 -> b [] OTHER -> c],
     tries  |-> [r \in Runs |-> CASE r = p1 -> tries[1] [] r = p2 -> tries[2] [] OTHER -> tries[3]],
     faults |-> faults, triage |-> decisions, checks |-> checks]

(* A blocking finding only one of two commits has, with a retry, a triage or  *)
(* a check of the gate, two at a time; a rescan that freezes the digest both  *)
(* build; two images promoted with failures and retries; an image with a      *)
(* critical finding; an artifact that is refused.                             *)
SmallScenarios ==
    { Scenario(d1, d2, Clean, Files({"high"}, 0), Clean, <<1, 2, 0>>, 0, 1, 0),
      Scenario(d1, d2, Clean, Files({"high"}, 0), Clean, <<1, 2, 0>>, 0, 0, 1),
      Scenario(d1, d2, Clean, Files({"high"}, 0), Clean, <<1, 1, 0>>, 0, 1, 1),
      Scenario(d1, d1, Clean, Clean, Files({}, 1), <<1, 1, 2>>, 1, 0, 0),
      Scenario(d1, d2, Clean, Clean, Clean, <<2, 1, 0>>, 1, 0, 0),
      Scenario(d1, d2, Clean, Files({}, 1), Clean, <<1, 1, 1>>, 0, 0, 1),
      Scenario(d1, d2, Clean, [Clean EXCEPT !.bad = {<<"security", "archive">>, <<"image-validation", "metadata">>}],
               Clean, <<1, 2, 1>>, 0, 0, 0) }

(* One image is deployed, and a rescan of it finds a critical finding.       *)
FreezeScenario == { Scenario(d1, d2, Clean, Clean, Files({}, 1), <<1, 0, 2>>, 1, 0, 0) }

WorkerSymmetry == Permutations({w1, w2})
=============================================================================
