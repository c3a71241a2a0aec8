--------------------------- MODULE MCDastSession ---------------------------
(* Instances of DastSession for model checking.                            *)
EXTENDS DastSession, TLC

MCRequest(attempt) ==
    [repo |-> "app", origin |-> "https", run |-> 1, attempt |-> attempt, head |-> 1,
     scan |-> "authenticated-full", profile |-> "staging"]
MCRequests == {MCRequest(1), MCRequest(2)}

MCJob(attempt, event) == [trusted |-> TRUE, repo |-> "app", run |-> 1, attempt |-> attempt,
                          head |-> 1, event |-> event]
MCJobs == {MCJob(1, "schedule")}

MCProfiles == [p \in {"staging"} |->
                 [repo |-> "app", origin |-> "https", env |-> "staging", ttl |-> 2,
                  mode |-> "exchange"]]
MCDeployments == {[env |-> "staging", head |-> 1, origin |-> "https"]}
MCTwoHeads == {[env |-> "staging", head |-> h, origin |-> "https"] : h \in 1 .. 2}

MCSymmetry == Permutations(Calls)
=============================================================================
