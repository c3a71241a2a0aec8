---------------------------- MODULE MCPullReview ----------------------------
(* Model values for the instances of PullReview that TLC checks.            *)
EXTENDS PullReview, TLC

CONSTANTS f1, f2, d1, d2, w1, w2, c1

Budget(deliveries, running, claims, faults, events, replies) ==
  [deliveries |-> deliveries, running |-> running, claims |-> claims, faults |-> faults,
   events |-> events, replies |-> replies]

(* One delivery claimed twice, around a fault or a removal, or two          *)
(* deliveries one after the other.                                          *)
Replayed == {Budget(1, 2, 2, 1, 0, 0), Budget(1, 2, 2, 0, 1, 0), Budget(2, 1, 1, 0, 0, 0)}

(* Two deliveries at once, or one around removals and reactivations.        *)
Concurrent == {Budget(2, 2, 1, 1, 0, 0), Budget(1, 1, 2, 2, 2, 1)}

(* By hand: two deliveries and no fault; three, one after the other; one    *)
(* delivery and a removal.                                                  *)
TwoDeliveries == {Budget(2, 2, 1, 0, 0, 0)}
ThreeDeliveries == {Budget(3, 1, 1, 0, 0, 0)}
OneRemoval == {Budget(1, 1, 1, 0, 1, 0)}

WorkerSymmetry == Permutations({w1, w2})
FingerprintSymmetry == Permutations({f1, f2})
ConcurrentSymmetry == WorkerSymmetry \cup Permutations({d1, d2})
ReviewSymmetry == ConcurrentSymmetry \cup FingerprintSymmetry
=============================================================================
