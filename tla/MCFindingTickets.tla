-------------------------- MODULE MCFindingTickets ---------------------------
(* Small instances of the ticket passes for TLC.                            *)
EXTENDS FindingTickets, TLC

CONSTANTS f1, f2, p1, p2, p3, o1, c1

PassSymmetry == Permutations(Passes)
=============================================================================
