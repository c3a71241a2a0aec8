------------------------- MODULE MCRemediationDraft -------------------------
(* An instance of RemediationDraft for model checking.                     *)
EXTENDS RemediationDraft, TLC

MCFile == <<"a", "b", "c">>
MCSuggestion == <<"x">>

MCCandidate == [path |-> "plain", outcome |-> "none", state |-> "open", reviewedAtHead |-> TRUE,
                seenAtHead |-> TRUE, published |-> <<"x">>, changed |-> {2, 3}]
MCCandidates == {MCCandidate, [MCCandidate EXCEPT !.changed = {3}]}

MCContents == {<<"a", "b", "c">>, <<"a", "x", "c">>, <<"a", "y", "c">>}

MCSymmetry == Permutations(Workers)
=============================================================================
