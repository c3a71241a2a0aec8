------------------------- MODULE WebhookQueueProofs -------------------------
(***************************************************************************)
(* The lease discipline and the attempt budget of the webhook queue, for   *)
(* any number of deliveries and processes, any budgets and any faults.     *)
(***************************************************************************)
EXTENDS WebhookQueue, TLAPS

(* The owner column is set exactly while a row is leased, and names a start *)
(* of a process that has happened.  A leased row is past its available_at.  *)
OwnersExist ==
  \A d \in Deliveries :
    /\ job[d].status = "leased" <=> job[d].owner # NoOwner
    /\ job[d].status = "leased" => job[d].wait <= 0
    /\ \A p \in Processes : \A e \in Nat :
         job[d].owner = <<p, e>> => e <= proc[p].epoch

(* A worker whose lease has not run out owns the row it works on, and the   *)
(* row's lease is the worker's.                                             *)
HolderOwns ==
  \A p \in Processes :
    Working(p) /\ claim[p].lease > 0 =>
      /\ job[claim[p].delivery].owner = WorkerId(p)
      /\ job[claim[p].delivery].lease = claim[p].lease

(* The owner of a row works on the row's last claim. *)
OwnerIsCurrent ==
  \A p \in Processes : \A d \in Deliveries :
    Holds(p, d) /\ job[d].owner = WorkerId(p) => job[d].attempts = claim[p].attempts

LeaseInv == OwnersExist /\ HolderOwns /\ NoOrphanedLease /\ OwnerIsCurrent

-----------------------------------------------------------------------------
(* The retry delay is a natural number whatever attempt it is asked for. *)
LEMMA BackoffType ==
  ASSUME NEW n \in Int PROVE computeBackoffMs(n) \in Nat
<1> DEFINE b == BackoffBase * 2 ^ (n - 1)
<1>1. CASE b \in 0 .. BackoffCap
  BY <1>1 DEF computeBackoffMs
<1>2. CASE b \notin 0 .. BackoffCap
  BY <1>2, QueueAssumption DEF computeBackoffMs
<1> QED BY <1>1, <1>2

(* The rows and claims the actions write are well formed. *)
LEMMA RowTypes ==
  ASSUME NEW d \in Deliveries, job[d] \in Row
  PROVE  /\ NoJob \in Row /\ FreshRow \in Row
         /\ \A p \in Processes : proc[p].epoch \in Nat => ClaimedRow(p, d) \in Row
         /\ \A w \in Int, e \in Failures : RetryRow(d, w, e) \in Row
         /\ \A e \in Failures : DeadLetterRow(d, e) \in Row
         /\ [job[d] EXCEPT !.status = "succeeded", !.owner = NoOwner,
                           !.lease = 0, !.keep = SucceededRetention + 1] \in Row
<1>1. NoJob \in Row /\ FreshRow \in Row
  BY DEF NoJob, FreshRow, Row, Statuses
<1>2. ASSUME NEW p \in Processes, proc[p].epoch \in Nat PROVE ClaimedRow(p, d) \in Row
  <2>1. WorkerId(p) \in Owners /\ WebhookLeaseMs \in Nat
    BY <1>2, QueueAssumption DEF WorkerId, Owners
  <2>2. job[d].attempts + 1 \in Nat
    BY DEF Row
  <2> QED BY <2>1, <2>2 DEF ClaimedRow, Row, Statuses
<1>3. \A w \in Int, e \in Failures : RetryRow(d, w, e) \in Row
  BY DEF RetryRow, Row, Statuses
<1>4. \A e \in Failures : DeadLetterRow(d, e) \in Row
  <2>1. DeadLetterRetention + 1 \in Nat
    BY QueueAssumption
  <2> QED BY <2>1 DEF DeadLetterRow, Row, Statuses
<1>5. [job[d] EXCEPT !.status = "succeeded", !.owner = NoOwner,
                     !.lease = 0, !.keep = SucceededRetention + 1] \in Row
  <2>1. SucceededRetention + 1 \in Nat
    BY QueueAssumption
  <2> QED BY <2>1 DEF Row, Statuses
<1> QED BY <1>1, <1>2, <1>3, <1>4, <1>5

(* The empty queue with idle loops is well formed. *)
LEMMA TypeInit == Init => TypeOK
<1> SUFFICES ASSUME Init PROVE TypeOK
  OBVIOUS
<1>1. job \in [Deliveries -> Row]
  BY DEF Init, Row, NoJob, Statuses
<1>2. proc \in [Processes -> Process] /\ \A p \in Processes : ~Working(p)
  BY DEF Init, Process, Phases, Working
<1>3. claim \in [Processes -> Claim]
  BY DEF Init, Claim, NoClaim
<1>4. credit \in [Processes -> [Deliveries -> Nat]] /\ sends \in [Deliveries -> Nat]
  BY DEF Init, NoCredit
<1>5. /\ faults \in [restarts : Nat, throttles : Nat, store : Nat, overruns : Nat]
      /\ tally \in [Deliveries -> [free : Nat, counted : Nat]]
  BY DEF Init, NoTally
<1> QED BY <1>1, <1>2, <1>3, <1>4, <1>5 DEF TypeOK

(* A fenced update writes a well-formed row or nothing. *)
LEMMA SettleType ==
  ASSUME TypeOK, NEW p \in Processes, NEW d \in Deliveries, NEW row \in Row,
         Settle(p, d, row)
  PROVE  job' \in [Deliveries -> Row]
  BY DEF Settle, TypeOK

(* The control half of TypeOK. *)
ControlOK ==
  /\ proc \in [Processes -> Process]
  /\ claim \in [Processes -> Claim]
  /\ \A p \in Processes : Working(p) => claim[p].delivery \in Deliveries

(* Going back to polling leaves the loop and its claim well formed. *)
LEMMA ReleasedType ==
  ASSUME TypeOK, NEW p \in Processes, Released(p)
  PROVE  ControlOK'
<1>1. proc' \in [Processes -> Process]
  BY DEF Released, TypeOK, Process, Phases
<1>2. NoClaim \in Claim
  BY DEF NoClaim, Claim
<1>3. claim' \in [Processes -> Claim]
  BY <1>2 DEF Released, TypeOK
<1>4. \A q \in Processes : Working(q)' => claim'[q].delivery \in Deliveries
  BY DEF Released, TypeOK, Working, Process
<1> QED BY <1>1, <1>3, <1>4 DEF ControlOK

(* Counting a fault keeps the fault counters natural. *)
LEMMA FaultType ==
  ASSUME TypeOK
  PROVE  /\ [faults EXCEPT !.restarts = @ + 1] \in
              [restarts : Nat, throttles : Nat, store : Nat, overruns : Nat]
         /\ [faults EXCEPT !.throttles = @ + 1] \in
              [restarts : Nat, throttles : Nat, store : Nat, overruns : Nat]
         /\ [faults EXCEPT !.store = @ + 1] \in
              [restarts : Nat, throttles : Nat, store : Nat, overruns : Nat]
         /\ [faults EXCEPT !.overruns = @ + 1] \in
              [restarts : Nat, throttles : Nat, store : Nat, overruns : Nat]
  BY DEF TypeOK

(* Moving a loop to another phase keeps the processes well formed. *)
LEMMA PhaseType ==
  ASSUME TypeOK, NEW p \in Processes, NEW x \in Phases
  PROVE  /\ [proc EXCEPT ![p].phase = x] \in [Processes -> Process]
         /\ [proc EXCEPT ![p].draining = TRUE] \in [Processes -> Process]
         /\ \A q \in Processes : [proc EXCEPT ![p].draining = TRUE][q].phase = proc[q].phase
<1>1. proc[p] \in Process
  BY DEF TypeOK
<1>2. [proc[p] EXCEPT !.phase = x] \in Process
  BY <1>1 DEF Process
<1>3. /\ [proc[p] EXCEPT !.draining = TRUE] \in Process
      /\ [proc[p] EXCEPT !.draining = TRUE].phase = proc[p].phase
  BY <1>1 DEF Process
<1> QED BY <1>2, <1>3 DEF TypeOK

(* Recording the outcome of a handler keeps the claim on its delivery. *)
LEMMA OutcomeType ==
  ASSUME TypeOK, NEW p \in Processes, NEW o \in Failures \cup {"none", "ok"}
  PROVE  /\ [claim EXCEPT ![p].outcome = o] \in [Processes -> Claim]
         /\ \A q \in Processes :
              [claim EXCEPT ![p].outcome = o][q].delivery = claim[q].delivery
<1>1. claim[p] \in Claim
  BY DEF TypeOK
<1>2. /\ [claim[p] EXCEPT !.outcome = o] \in Claim
      /\ [claim[p] EXCEPT !.outcome = o].delivery = claim[p].delivery
  BY <1>1 DEF Claim
<1> QED BY <1>2 DEF TypeOK

(* So does recording a throttled outcome with its retry time. *)
LEMMA ThrottledType ==
  ASSUME TypeOK, NEW p \in Processes, NEW w \in Nat,
         claim' = [claim EXCEPT ![p].outcome = "throttled", ![p].retry = w]
  PROVE  /\ claim' \in [Processes -> Claim]
         /\ \A q \in Processes : claim'[q].delivery = claim[q].delivery
<1> DEFINE c == [[claim[p] EXCEPT !.outcome = "throttled"] EXCEPT !.retry = w]
<1>1. claim[p] \in Claim
  BY DEF TypeOK
<1>2. c \in Claim /\ c.delivery = claim[p].delivery
  BY <1>1 DEF Claim, Failures
<1>3. claim' = [claim EXCEPT ![p] = c]
  BY <1>1 DEF TypeOK
<1> HIDE DEF c
<1> QED BY <1>2, <1>3 DEF TypeOK

(* Crediting a claim back, or forgetting the credit, keeps the ledger well  *)
(* formed.                                                                  *)
LEMMA CreditType ==
  ASSUME TypeOK, NEW p \in Processes, NEW d \in Deliveries
  PROVE  /\ [credit EXCEPT ![p][d] = 0] \in [Processes -> [Deliveries -> Nat]]
         /\ Credited(p, d) \in [Processes -> [Deliveries -> Nat]]
<1>1. credit \in [Processes -> [Deliveries -> Nat]]
  BY DEF TypeOK
<1>2. credit[p] \in [Deliveries -> Nat] /\ credit[p][d] + 1 \in Nat
  BY <1>1
<1>3. /\ [credit[p] EXCEPT ![d] = 0] \in [Deliveries -> Nat]
      /\ [credit[p] EXCEPT ![d] = credit[p][d] + 1] \in [Deliveries -> Nat]
  BY <1>2
<1>4. /\ [credit EXCEPT ![p][d] = 0] \in [Processes -> [Deliveries -> Nat]]
      /\ [credit EXCEPT ![p][d] = @ + 1] \in [Processes -> [Deliveries -> Nat]]
  BY <1>1, <1>3
<1> QED BY <1>1, <1>4 DEF Credited

(* Counting a failure keeps the tallies natural. *)
LEMMA TallyType ==
  ASSUME TypeOK, NEW d \in Deliveries
  PROVE  /\ [tally EXCEPT ![d].free = @ + 1] \in [Deliveries -> [free : Nat, counted : Nat]]
         /\ [tally EXCEPT ![d].counted = @ + 1] \in [Deliveries -> [free : Nat, counted : Nat]]
<1>1. tally[d] \in [free : Nat, counted : Nat]
  BY DEF TypeOK
<1>2. /\ [tally[d] EXCEPT !.free = @ + 1] \in [free : Nat, counted : Nat]
      /\ [tally[d] EXCEPT !.counted = @ + 1] \in [free : Nat, counted : Nat]
  BY <1>1
<1> QED BY <1>2 DEF TypeOK

(* Every action keeps the state well formed; one step per action. *)
LEMMA TypeStep == TypeOK /\ [Next]_vars => TypeOK'
<1> SUFFICES ASSUME TypeOK, [Next]_vars PROVE TypeOK'
  OBVIOUS
<1>0. \A d \in Deliveries : job[d] \in Row
  BY DEF TypeOK
<1>1. ASSUME NEW d \in Deliveries, enqueueWebhook(d) PROVE TypeOK'
  <2>1. job' \in [Deliveries -> Row]
    BY <1>1, <1>0, RowTypes DEF enqueueWebhook, TypeOK
  <2>2. tally' \in [Deliveries -> [free : Nat, counted : Nat]]
    BY <1>1 DEF enqueueWebhook, TypeOK, NoTally
  <2>3. sends' \in [Deliveries -> Nat]
    BY <1>1 DEF enqueueWebhook, TypeOK
  <2> QED BY <1>1, <2>1, <2>2, <2>3 DEF enqueueWebhook, TypeOK, Working
<1>2. ASSUME NEW p \in Processes, NEW d \in Deliveries, claimWebhook(p, d) PROVE TypeOK'
  <2>1. proc[p].epoch \in Nat
    BY DEF TypeOK, Process
  <2>2. job' \in [Deliveries -> Row]
    BY <1>2, <1>0, <2>1, RowTypes DEF claimWebhook, TypeOK
  <2>3. job[d].attempts + 1 \in Nat /\ WebhookLeaseMs \in Nat
    BY <1>0, QueueAssumption DEF Row
  <2>4. claim' \in [Processes -> Claim]
    BY <1>2, <2>3 DEF claimWebhook, TypeOK, Claim
  <2>5. proc' \in [Processes -> Process]
    BY <1>2 DEF claimWebhook, TypeOK, Process, Phases
  <2>6. \A q \in Processes : Working(q)' => claim'[q].delivery \in Deliveries
    BY <1>2 DEF claimWebhook, TypeOK, Working
  <2> QED BY <1>2, <2>2, <2>4, <2>5, <2>6 DEF claimWebhook, TypeOK
<1>3. ASSUME NEW p \in Processes, handle(p) PROVE TypeOK'
  <2>1. proc' \in [Processes -> Process]
    BY <1>3, PhaseType DEF handle, Phases
  <2>2. /\ claim' \in [Processes -> Claim]
        /\ \A q \in Processes : claim'[q].delivery = claim[q].delivery
    <3>2. CASE \E o \in {"ok", "error", "permanent", "aborted"} :
                 claim' = [claim EXCEPT ![p].outcome = o]
      <4>1. PICK o \in Failures \cup {"none", "ok"} : claim' = [claim EXCEPT ![p].outcome = o]
        BY <3>2 DEF Failures
      <4> QED BY <4>1, OutcomeType
    <3>3. CASE \E v \in ThrottleWindows :
                 claim' = [claim EXCEPT ![p].outcome = "throttled", ![p].retry = v]
      BY <3>3, QueueAssumption, ThrottledType
    <3> QED BY <1>3, <3>2, <3>3 DEF handle
  <2>4. \A q \in Processes : Working(q)' => Working(q)
    BY <1>3 DEF handle, TypeOK, Working
  <2>5. faults' \in [restarts : Nat, throttles : Nat, store : Nat, overruns : Nat]
    BY <1>3, FaultType DEF handle, TypeOK
  <2> QED BY <1>3, <2>1, <2>2, <2>4, <2>5 DEF handle, TypeOK
<1>4. ASSUME NEW p \in Processes, completeWebhook(p) PROVE TypeOK'
  <2> DEFINE d == claim[p].delivery
  <2>1. d \in Deliveries
    BY <1>4 DEF completeWebhook, TypeOK, Working
  <2>2. job' \in [Deliveries -> Row]
    BY <1>4, <1>0, <2>1, RowTypes, SettleType DEF completeWebhook
  <2>3. ControlOK'
    BY <1>4, ReleasedType DEF completeWebhook
  <2>4. credit' \in [Processes -> [Deliveries -> Nat]]
    BY <1>4, <2>1, CreditType DEF completeWebhook
  <2> QED BY <1>4, <2>2, <2>3, <2>4 DEF completeWebhook, TypeOK, ControlOK
<1>5. ASSUME NEW p \in Processes, requeueUncounted(p) PROVE TypeOK'
  <2> DEFINE d == claim[p].delivery
  <2>1. d \in Deliveries /\ claim[p].retry \in Int /\ claim[p].outcome \in Failures
    BY <1>5 DEF requeueUncounted, TypeOK, Working, Claim, Failures
  <2>2. job' \in [Deliveries -> Row]
    BY <1>5, <1>0, <2>1, RowTypes, SettleType DEF requeueUncounted
  <2>3. ControlOK'
    BY <1>5, ReleasedType DEF requeueUncounted
  <2>4. credit' \in [Processes -> [Deliveries -> Nat]]
    BY <1>5, <2>1, CreditType DEF requeueUncounted
  <2>5. tally' \in [Deliveries -> [free : Nat, counted : Nat]]
    BY <1>5, <2>1, TallyType DEF requeueUncounted, TypeOK
  <2> QED BY <1>5, <2>2, <2>3, <2>4, <2>5 DEF requeueUncounted, TypeOK, ControlOK
<1>6. ASSUME NEW p \in Processes, failClaimedWebhook(p) PROVE TypeOK'
  <2> DEFINE d == claim[p].delivery
             o == claim[p].outcome
             w == computeBackoffMs(Attempt(p, d))
  <2>1. d \in Deliveries /\ o \in Failures
    BY <1>6 DEF failClaimedWebhook, TypeOK, Working, Failures
  <2>2. Attempt(p, d) \in Int
    BY <2>1 DEF Attempt, TypeOK, Claim
  <2>3. w \in Int
    BY <2>2, BackoffType
  <2>4. RetryRow(d, w, o) \in Row /\ DeadLetterRow(d, o) \in Row
    BY <1>0, <2>1, <2>3, RowTypes
  <2>5. job' \in [Deliveries -> Row]
    BY <1>6, <2>1, <2>4, SettleType DEF failClaimedWebhook
  <2>6. ControlOK'
    BY <1>6, ReleasedType DEF failClaimedWebhook
  <2>7. credit' \in [Processes -> [Deliveries -> Nat]]
    <3>1. credit' = credit \/ credit' = [credit EXCEPT ![p][d] = 0]
      BY <1>6 DEF failClaimedWebhook
    <3> HIDE DEF d
    <3>2. [credit EXCEPT ![p][d] = 0] \in [Processes -> [Deliveries -> Nat]]
      BY <2>1, CreditType
    <3>3. credit \in [Processes -> [Deliveries -> Nat]]
      BY DEF TypeOK
    <3> QED BY <3>1, <3>2, <3>3
  <2>8. tally' \in [Deliveries -> [free : Nat, counted : Nat]]
    <3>1. tally' = tally \/ tally' = [tally EXCEPT ![d].counted = @ + 1]
      BY <1>6 DEF failClaimedWebhook
    <3>2. tally \in [Deliveries -> [free : Nat, counted : Nat]]
      BY DEF TypeOK
    <3> HIDE DEF d
    <3> QED BY <2>1, <3>1, <3>2, TallyType
  <2> QED BY <1>6, <2>5, <2>6, <2>7, <2>8 DEF failClaimedWebhook, TypeOK, ControlOK
<1>7. ASSUME NEW p \in Processes, claimFails(p) \/ completeFails(p) \/ failFails(p)
      PROVE TypeOK'
  <2>1. proc' \in [Processes -> Process]
    <3>1. "ended" \in Phases
      BY DEF Phases
    <3>2. proc' = proc \/ proc' = [proc EXCEPT ![p].phase = "ended"]
      BY <1>7 DEF claimFails, completeFails, failFails
    <3>3. proc \in [Processes -> Process]
      BY DEF TypeOK
    <3>4. [proc EXCEPT ![p].phase = "ended"] \in [Processes -> Process]
      BY <3>1, PhaseType
    <3> QED BY <3>2, <3>3, <3>4
  <2>0. NoClaim \in Claim
    BY DEF NoClaim, Claim
  <2>2. claim' \in [Processes -> Claim]
    <3>1. CASE claim' = [claim EXCEPT ![p].outcome = "error"]
      BY <3>1, OutcomeType DEF Failures
    <3> QED BY <1>7, <2>0, <3>1 DEF claimFails, completeFails, failFails, TypeOK
  <2>3. \A q \in Processes : Working(q)' => Working(q) /\ claim'[q].delivery = claim[q].delivery
    <3>1. CASE claimFails(p)
      BY <3>1 DEF claimFails, TypeOK, Working, Process
    <3>2. CASE completeFails(p)
      <4>1. \A q \in Processes : claim'[q].delivery = claim[q].delivery
        BY <3>2, OutcomeType DEF completeFails, Failures
      <4> QED BY <3>2, <4>1 DEF completeFails, Working
    <3>3. CASE failFails(p)
      BY <3>3 DEF failFails, TypeOK, Working, Process
    <3> QED BY <1>7, <3>1, <3>2, <3>3
  <2>4. faults' \in [restarts : Nat, throttles : Nat, store : Nat, overruns : Nat]
    BY <1>7, FaultType DEF claimFails, completeFails, failFails
  <2>5. credit' \in [Processes -> [Deliveries -> Nat]]
    <3>1. CASE claimFails(p) \/ completeFails(p)
      BY <3>1 DEF claimFails, completeFails, TypeOK
    <3>2. CASE failFails(p)
      <4>1. claim[p].delivery \in Deliveries
        BY <3>2 DEF failFails, TypeOK, Working
      <4>2. Credited(p, claim[p].delivery) \in [Processes -> [Deliveries -> Nat]]
        BY <4>1, CreditType
      <4> QED BY <3>2, <4>2 DEF failFails, TypeOK
    <3> QED BY <1>7, <3>1, <3>2
  <2> QED BY <1>7, <2>1, <2>2, <2>3, <2>4, <2>5 DEF claimFails, completeFails, failFails, TypeOK
<1>8. ASSUME NEW p \in Processes, shutdown(p) \/ drained(p) \/ crash(p) \/ start(p)
      PROVE TypeOK'
  <2>1. proc' \in [Processes -> Process]
    <3>1. CASE start(p)
      <4>1. [phase |-> "idle", epoch |-> proc[p].epoch + 1, draining |-> FALSE] \in Process
        BY DEF TypeOK, Process, Phases
      <4> QED BY <3>1, <4>1 DEF start, TypeOK
    <3>2. "down" \in Phases
      BY DEF Phases
    <3>3. CASE shutdown(p)
      BY <3>2, <3>3, PhaseType DEF shutdown
    <3>4. CASE drained(p) \/ crash(p)
      <4>1. proc' = [proc EXCEPT ![p].phase = "down"]
        BY <3>4 DEF drained, crash
      <4> QED BY <3>2, <4>1, PhaseType
    <3> QED BY <1>8, <3>1, <3>3, <3>4
  <2>2. claim' \in [Processes -> Claim]
    BY <1>8 DEF shutdown, drained, crash, start, TypeOK, Claim, NoClaim
  <2>3. \A q \in Processes : Working(q)' => Working(q) /\ claim'[q].delivery = claim[q].delivery
    BY <1>8 DEF shutdown, drained, crash, start, TypeOK, Process, Working
  <2>4. faults' \in [restarts : Nat, throttles : Nat, store : Nat, overruns : Nat]
    BY <1>8, FaultType DEF shutdown, drained, crash, start, Restarting, TypeOK
  <2>5. credit' \in [Processes -> [Deliveries -> Nat]]
    BY <1>8 DEF shutdown, drained, crash, start, NoCredit, TypeOK
  <2> QED
    BY <1>8, <2>1, <2>2, <2>3, <2>4, <2>5 DEF shutdown, drained, crash, start, TypeOK
<1>9. ASSUME NEW batch \in SUBSET Deliveries, purgeTerminalWebhookJobs(batch) PROVE TypeOK'
  BY <1>9, <1>0, RowTypes DEF purgeTerminalWebhookJobs, TypeOK, Working
<1>10. CASE Tick
  <2>1. \A n \in Nat : Left(n) \in Nat
    BY DEF Left
  <2>2. ASSUME NEW d \in Deliveries PROVE job'[d] \in Row
    <3>1. (IF Live(d) /\ job[d].wait > -MaxAge THEN job[d].wait - 1 ELSE job[d].wait) \in Int
      BY <1>0 DEF Row
    <3>2. Left(job[d].lease) \in Nat /\ Left(job[d].keep) \in Nat
      BY <1>0, <2>1 DEF Row
    <3> QED BY <1>10, <1>0, <3>1, <3>2 DEF Tick, Row
  <2>3. ASSUME NEW p \in Processes
        PROVE  claim'[p] \in Claim /\ claim'[p].delivery = claim[p].delivery
    <3>1. claim[p] \in Claim
      BY DEF TypeOK
    <3>2. Left(claim[p].lease) \in Nat /\ Left(claim[p].retry) \in Nat
      BY <3>1, <2>1 DEF Claim
    <3> QED BY <1>10, <3>1, <3>2 DEF Tick, Claim
  <2>4. faults' \in [restarts : Nat, throttles : Nat, store : Nat, overruns : Nat]
    BY <1>10, FaultType DEF Tick, TypeOK
  <2>5. job' \in [Deliveries -> Row] /\ claim' \in [Processes -> Claim]
    BY <1>10, <2>2, <2>3 DEF Tick
  <2> QED BY <1>10, <2>3, <2>4, <2>5 DEF Tick, TypeOK, Working
<1>11. CASE UNCHANGED vars
  BY <1>11 DEF vars, TypeOK, Working
<1> QED
  BY <1>1, <1>2, <1>3, <1>4, <1>5, <1>6, <1>7, <1>8, <1>9, <1>10, <1>11
     DEF Next, Step, Fault

(* Every state the queue and its workers reach is well formed. *)
THEOREM TypeCorrect == Safety => []TypeOK
  BY TypeInit, TypeStep, PTL DEF Safety

-----------------------------------------------------------------------------
(***************************************************************************)
(* The lease invariant.  Its steps fall in five kinds: a claim, a recorded *)
(* outcome, a move of the control of one process, a row that appears or    *)
(* disappears, and the passing of time.                                    *)
(***************************************************************************)

(* A step of control: no row changes, nobody starts to work, and a loop     *)
(* that polls or works is the one that did so before or a new start.        *)
ControlStep ==
  /\ job' = job
  /\ \A q \in Processes :
       /\ proc'[q].epoch >= proc[q].epoch
       /\ Working(q)' =>
            /\ Working(q) /\ proc'[q].epoch = proc[q].epoch
            /\ claim'[q].delivery = claim[q].delivery
            /\ claim'[q].lease = claim[q].lease
            /\ claim'[q].attempts = claim[q].attempts
       /\ proc'[q].phase \notin {"ended", "down"} =>
            \/ proc'[q].epoch > proc[q].epoch
            \/ /\ proc[q].phase \notin {"ended", "down"}
               /\ proc'[q].epoch = proc[q].epoch
               /\ Working(q) => Working(q)' /\ claim'[q].delivery = claim[q].delivery

(* Rows appear and disappear outside leases. *)
RowStep ==
  /\ UNCHANGED <<proc, claim>>
  /\ \A d \in Deliveries :
       \/ job'[d] = job[d]
       \/ /\ job[d].status # "leased"
          /\ job'[d].status # "leased" /\ job'[d].owner = NoOwner

(* Process p goes back to polling; if it owns row d, the lease is released. *)
SettleStep(p, d) ==
  /\ Working(p) /\ claim[p].delivery = d
  /\ \A e \in Deliveries \ {d} : job'[e] = job[e]
  /\ \/ job[d].owner # WorkerId(p) /\ job'[d] = job[d]
     \/ /\ job[d].owner = WorkerId(p)
        /\ job'[d].status \in {"pending", "succeeded", "dead-letter"}
        /\ job'[d].status = "succeeded" <=> claim[p].outcome = "ok"
        /\ job'[d].owner = NoOwner
  /\ proc'[p].phase = "idle" /\ proc'[p].epoch = proc[p].epoch
  /\ \A q \in Processes \ {p} : proc'[q] = proc[q] /\ claim'[q] = claim[q]

(* The actions that leave every row alone, by what they do to the loops. *)
LEMMA ControlSteps ==
  ASSUME TypeOK, NEW p \in Processes,
         \/ handle(p) \/ drained(p) \/ start(p) \/ claimFails(p) \/ completeFails(p)
         \/ failFails(p) \/ shutdown(p) \/ crash(p)
  PROVE  ControlStep
<1>0. /\ proc[p] \in Process /\ claim[p] \in Claim
      /\ \A q \in Processes : proc[q].epoch \in Nat
  BY DEF TypeOK, Process
<1>1. CASE handle(p)
  <2>1. job' = job
    BY <1>1 DEF handle
  <2>2. /\ proc'[p].phase = "recording" /\ proc'[p].epoch = proc[p].epoch
        /\ \A q \in Processes \ {p} : proc'[q] = proc[q]
    BY <1>0, <1>1 DEF handle, TypeOK, Process
  <2>3. \A q \in Processes : /\ claim'[q].delivery = claim[q].delivery
                             /\ claim'[q].lease = claim[q].lease
                             /\ claim'[q].attempts = claim[q].attempts
    <3>1. CASE \E o \in {"ok", "error", "permanent", "aborted"} :
                 claim' = [claim EXCEPT ![p].outcome = o]
      BY <1>0, <3>1 DEF TypeOK, Claim
    <3>2. CASE \E w \in ThrottleWindows :
                 claim' = [claim EXCEPT ![p].outcome = "throttled", ![p].retry = w]
      BY <1>0, <3>2 DEF TypeOK, Claim
    <3> QED BY <1>1, <3>1, <3>2 DEF handle
  <2> QED BY <1>0, <1>1, <2>1, <2>2, <2>3 DEF ControlStep, Working, handle
<1>2. CASE completeFails(p)
  <2>1. \A q \in Processes : /\ claim'[q].delivery = claim[q].delivery
                             /\ claim'[q].lease = claim[q].lease
                             /\ claim'[q].attempts = claim[q].attempts
    BY <1>0, <1>2 DEF completeFails, TypeOK, Claim
  <2> QED BY <1>0, <1>2, <2>1 DEF ControlStep, completeFails, Working
<1>3. CASE \/ drained(p) \/ claimFails(p) \/ failFails(p) \/ crash(p)
  <2>1. /\ proc'[p].phase \in {"ended", "down"} /\ proc'[p].epoch = proc[p].epoch
        /\ \A q \in Processes \ {p} : proc'[q] = proc[q] /\ claim'[q] = claim[q]
        /\ job' = job
    BY <1>0, <1>3 DEF drained, claimFails, failFails, crash, TypeOK, Process
  <2> QED BY <1>0, <2>1 DEF ControlStep, Working
<1>4. CASE shutdown(p)
  <2>1. /\ proc'[p].phase = proc[p].phase /\ proc'[p].epoch = proc[p].epoch
        /\ \A q \in Processes \ {p} : proc'[q] = proc[q]
        /\ job' = job /\ claim' = claim
    BY <1>0, <1>4 DEF shutdown, TypeOK, Process
  <2> QED BY <1>0, <2>1 DEF ControlStep, Working
<1>5. CASE start(p)
  <2>1. /\ proc'[p].phase = "idle" /\ proc'[p].epoch = proc[p].epoch + 1
        /\ \A q \in Processes \ {p} : proc'[q] = proc[q]
        /\ job' = job /\ claim' = claim
    BY <1>0, <1>5 DEF start, TypeOK
  <2> QED BY <1>0, <2>1 DEF ControlStep, Working
<1> QED BY <1>1, <1>2, <1>3, <1>4, <1>5

(* The actions that only add or delete rows that nobody has leased. *)
LEMMA RowSteps ==
  ASSUME TypeOK,
         \/ \E d \in Deliveries : enqueueWebhook(d)
         \/ \E batch \in SUBSET Deliveries : purgeTerminalWebhookJobs(batch)
  PROVE  RowStep
<1>1. ASSUME NEW d \in Deliveries, enqueueWebhook(d) PROVE RowStep
  <2>1. FreshRow.status = "pending" /\ FreshRow.owner = NoOwner
    BY DEF FreshRow, NoJob
  <2> QED BY <1>1, <2>1 DEF enqueueWebhook, RowStep, TypeOK
<1>2. ASSUME NEW batch \in SUBSET Deliveries, purgeTerminalWebhookJobs(batch) PROVE RowStep
  <2>1. NoJob.status = "absent" /\ NoJob.owner = NoOwner
    BY DEF NoJob
  <2> QED BY <1>2, <2>1 DEF purgeTerminalWebhookJobs, Purgeable, Terminal, RowStep, TypeOK
<1> QED BY <1>1, <1>2

(* The actions that record an outcome: one fenced row update, then polling. *)
LEMMA SettleSteps ==
  ASSUME TypeOK, NEW p \in Processes,
         completeWebhook(p) \/ requeueUncounted(p) \/ failClaimedWebhook(p)
  PROVE  claim[p].delivery \in Deliveries /\ SettleStep(p, claim[p].delivery)
<1> DEFINE d == claim[p].delivery
<1>0. Working(p) /\ d \in Deliveries /\ job[d] \in Row /\ proc[p] \in Process
  BY DEF completeWebhook, requeueUncounted, failClaimedWebhook, TypeOK, Working
<1>1. PICK row : /\ Settle(p, d, row) /\ row.owner = NoOwner
                 /\ row.status \in {"pending", "succeeded", "dead-letter"}
                 /\ row.status = "succeeded" <=> claim[p].outcome = "ok"
  <2>1. \A w, e : RetryRow(d, w, e).status = "pending" /\ RetryRow(d, w, e).owner = NoOwner
    BY <1>0 DEF RetryRow, Row
  <2>2. \A e : DeadLetterRow(d, e).status = "dead-letter" /\ DeadLetterRow(d, e).owner = NoOwner
    BY <1>0 DEF DeadLetterRow, Row
  <2> DEFINE done == [job[d] EXCEPT !.status = "succeeded", !.owner = NoOwner,
                                    !.lease = 0, !.keep = SucceededRetention + 1]
  <2>3. done.status = "succeeded" /\ done.owner = NoOwner
    BY <1>0 DEF Row
  <2>4. CASE completeWebhook(p)
    BY <2>3, <2>4 DEF completeWebhook
  <2>5. CASE requeueUncounted(p)
    BY <2>1, <2>5 DEF requeueUncounted
  <2>6. CASE failClaimedWebhook(p)
    BY <2>1, <2>2, <2>6 DEF failClaimedWebhook
  <2> QED BY <2>4, <2>5, <2>6
<1>2. Released(p)
  BY DEF completeWebhook, requeueUncounted, failClaimedWebhook
<1>3. /\ proc'[p].phase = "idle" /\ proc'[p].epoch = proc[p].epoch
      /\ \A q \in Processes \ {p} : proc'[q] = proc[q] /\ claim'[q] = claim[q]
  BY <1>0, <1>2 DEF Released, TypeOK, Process
<1>4. /\ \A e \in Deliveries \ {d} : job'[e] = job[e]
      /\ \/ job[d].owner # WorkerId(p) /\ job'[d] = job[d]
         \/ /\ job[d].owner = WorkerId(p)
            /\ job'[d].status \in {"pending", "succeeded", "dead-letter"}
            /\ job'[d].status = "succeeded" <=> claim[p].outcome = "ok"
            /\ job'[d].owner = NoOwner
  BY <1>0, <1>1 DEF Settle, TypeOK
<1> QED BY <1>0, <1>3, <1>4 DEF SettleStep

(* Actions of the first kind keep the lease discipline. *)
LEMMA LeaseControl ==
  ASSUME TypeOK, TypeOK', LeaseInv, ControlStep PROVE LeaseInv'
<1>0. \A q \in Processes : proc[q].epoch \in Nat /\ proc'[q].epoch \in Nat
  BY DEF TypeOK, Process
<1>1. \A q \in Processes : Working(q)' => WorkerId(q)' = WorkerId(q)
  BY DEF ControlStep, WorkerId
<1>2. OwnersExist'
  <2>1. SUFFICES ASSUME NEW d \in Deliveries, NEW p \in Processes, NEW e \in Nat,
                        job[d].owner = <<p, e>>
                 PROVE  e <= proc'[p].epoch
    BY DEF OwnersExist, LeaseInv, ControlStep
  <2>2. e <= proc[p].epoch /\ proc'[p].epoch >= proc[p].epoch
    BY <2>1 DEF OwnersExist, LeaseInv, ControlStep
  <2> QED BY <1>0, <2>2
<1>3. HolderOwns'
  BY <1>1 DEF HolderOwns, LeaseInv, ControlStep
<1>4. NoOrphanedLease'
  <2>1. SUFFICES ASSUME NEW p \in Processes, NEW d \in Deliveries,
                        job[d].status = "leased", job[d].owner = WorkerId(p)',
                        proc'[p].phase \notin {"ended", "down"}
                 PROVE  Holds(p, d)'
    BY DEF NoOrphanedLease, ControlStep
  <2>2. CASE proc'[p].epoch > proc[p].epoch
    <3>1. job[d].owner = <<p, proc'[p].epoch>>
      BY <2>1 DEF WorkerId
    <3>2. job[d].owner \in Owners
      BY <2>1 DEF LeaseInv, OwnersExist, TypeOK, Row
    <3>3. proc'[p].epoch \in Nat
      BY <3>1, <3>2 DEF Owners
    <3>4. proc'[p].epoch <= proc[p].epoch
      BY <3>1, <3>3 DEF LeaseInv, OwnersExist
    <3> QED BY <1>0, <2>2, <3>3, <3>4
  <2>3. CASE /\ proc[p].phase \notin {"ended", "down"}
             /\ proc'[p].epoch = proc[p].epoch
             /\ Working(p) => Working(p)' /\ claim'[p].delivery = claim[p].delivery
    <3>1. job[d].owner = WorkerId(p)
      BY <2>1, <2>3 DEF WorkerId
    <3>2. Holds(p, d)
      BY <2>1, <2>3, <3>1 DEF LeaseInv, NoOrphanedLease
    <3> QED BY <2>3, <3>2 DEF Holds
  <2> QED BY <2>1, <2>2, <2>3 DEF ControlStep
<1>5. OwnerIsCurrent'
  BY <1>1 DEF OwnerIsCurrent, LeaseInv, ControlStep, Holds
<1> QED BY <1>2, <1>3, <1>4, <1>5 DEF LeaseInv

(* So do actions of the second kind. *)
LEMMA LeaseRow ==
  ASSUME TypeOK, LeaseInv, RowStep PROVE LeaseInv'
<1>0. NoOwner \notin Owners /\ \A q \in Processes : WorkerId(q) \in Owners
  BY QueueAssumption DEF TypeOK, Process, WorkerId, Owners
<1>1. /\ \A q \in Processes : /\ Working(q)' <=> Working(q)
                              /\ WorkerId(q)' = WorkerId(q)
                              /\ proc'[q] = proc[q]
      /\ claim' = claim
  BY DEF RowStep, Working, WorkerId
<1>2. \A d \in Deliveries : job'[d].owner # NoOwner => job'[d] = job[d]
  BY DEF RowStep
<1>3. \A d \in Deliveries : job[d].owner # NoOwner => job'[d] = job[d]
  BY DEF RowStep, LeaseInv, OwnersExist
<1>4. OwnersExist'
  <2>1. SUFFICES ASSUME NEW d \in Deliveries
                 PROVE  /\ job'[d].status = "leased" <=> job'[d].owner # NoOwner
                        /\ job'[d].status = "leased" => job'[d].wait <= 0
                        /\ \A p \in Processes : \A e \in Nat :
                             job'[d].owner = <<p, e>> => e <= proc'[p].epoch
    BY DEF OwnersExist
  <2>2. CASE job'[d] = job[d]
    BY <1>1, <2>2 DEF LeaseInv, OwnersExist
  <2>3. CASE job'[d].status # "leased" /\ job'[d].owner = NoOwner
    BY <1>0, <2>3 DEF Owners
  <2> QED BY <2>2, <2>3 DEF RowStep
<1>5. HolderOwns'
  <2>1. SUFFICES ASSUME NEW q \in Processes, Working(q), claim[q].lease > 0
                 PROVE  /\ job'[claim[q].delivery].owner = WorkerId(q)
                        /\ job'[claim[q].delivery].lease = claim[q].lease
    BY <1>1 DEF HolderOwns
  <2>2. /\ job[claim[q].delivery].owner = WorkerId(q)
        /\ job[claim[q].delivery].lease = claim[q].lease
        /\ claim[q].delivery \in Deliveries
    BY <2>1 DEF HolderOwns, LeaseInv, TypeOK
  <2>3. job'[claim[q].delivery] = job[claim[q].delivery]
    BY <1>0, <1>3, <2>2
  <2> QED BY <2>2, <2>3
<1>6. NoOrphanedLease'
  BY <1>0, <1>1, <1>2 DEF NoOrphanedLease, LeaseInv, Holds
<1>7. OwnerIsCurrent'
  BY <1>0, <1>1, <1>2 DEF OwnerIsCurrent, LeaseInv, Holds
<1> QED BY <1>4, <1>5, <1>6, <1>7 DEF LeaseInv

(* So do the fenced updates: only the owner of a row frees it. *)
LEMMA LeaseSettle ==
  ASSUME TypeOK, LeaseInv, NEW p \in Processes, NEW d \in Deliveries, SettleStep(p, d)
  PROVE  LeaseInv'
<1>0. NoOwner \notin Owners /\ \A q \in Processes : WorkerId(q) \in Owners
  BY QueueAssumption DEF TypeOK, Process, WorkerId, Owners
<1>1. /\ ~Working(p)'
      /\ \A q \in Processes : WorkerId(q)' = WorkerId(q) /\ proc'[q].epoch = proc[q].epoch
      /\ \A q \in Processes \ {p} :
           (Working(q)' <=> Working(q)) /\ claim'[q] = claim[q] /\ proc'[q] = proc[q]
  BY DEF SettleStep, Working, WorkerId
<1>2. \A q \in Processes \ {p} : WorkerId(q) # WorkerId(p)
  BY DEF WorkerId
<1>3. \A e \in Deliveries : \/ job'[e] = job[e]
                            \/ /\ e = d /\ job[e].owner = WorkerId(p)
                               /\ job'[e].status # "leased" /\ job'[e].owner = NoOwner
  BY DEF SettleStep
<1>4. OwnersExist'
  <2>1. SUFFICES ASSUME NEW x \in Deliveries
                 PROVE  /\ job'[x].status = "leased" <=> job'[x].owner # NoOwner
                        /\ job'[x].status = "leased" => job'[x].wait <= 0
                        /\ \A q \in Processes : \A e \in Nat :
                             job'[x].owner = <<q, e>> => e <= proc'[q].epoch
    BY DEF OwnersExist
  <2>2. CASE job'[x] = job[x]
    BY <1>1, <2>2 DEF LeaseInv, OwnersExist
  <2>3. CASE job'[x].status # "leased" /\ job'[x].owner = NoOwner
    BY <1>0, <2>3 DEF Owners
  <2> QED BY <1>3, <2>2, <2>3
<1>5. HolderOwns'
  <2>1. SUFFICES ASSUME NEW q \in Processes, Working(q)', claim'[q].lease > 0
                 PROVE  /\ job'[claim'[q].delivery].owner = WorkerId(q)'
                        /\ job'[claim'[q].delivery].lease = claim'[q].lease
    BY DEF HolderOwns
  <2>2. q # p /\ Working(q) /\ claim'[q] = claim[q]
    BY <1>1, <2>1
  <2>3. /\ job[claim[q].delivery].owner = WorkerId(q)
        /\ job[claim[q].delivery].lease = claim[q].lease
    BY <2>1, <2>2 DEF LeaseInv, HolderOwns
  <2>4. claim[q].delivery \in Deliveries
    BY <2>2 DEF TypeOK
  <2>5. job'[claim[q].delivery] = job[claim[q].delivery]
    BY <1>2, <1>3, <2>2, <2>3, <2>4
  <2> QED BY <1>1, <2>2, <2>3, <2>5
<1>6. NoOrphanedLease'
  <2>1. SUFFICES ASSUME NEW q \in Processes, NEW x \in Deliveries,
                        job'[x].status = "leased", job'[x].owner = WorkerId(q)',
                        proc'[q].phase \notin {"ended", "down"}
                 PROVE  Holds(q, x)'
    BY DEF NoOrphanedLease
  <2>2. job'[x] = job[x] /\ job[x].owner = WorkerId(q) /\ job[x].status = "leased"
    BY <1>1, <1>3, <2>1
  <2>3. CASE q = p
    <3>1. proc[p].phase \notin {"ended", "down"}
      BY DEF SettleStep, Working
    <3>2. Holds(p, x)
      BY <2>2, <2>3, <3>1 DEF LeaseInv, NoOrphanedLease
    <3>3. x = d
      BY <3>2 DEF Holds, SettleStep
    <3> QED BY <1>0, <2>1, <2>2, <2>3, <3>3 DEF SettleStep
  <2>4. CASE q # p
    BY <1>1, <2>1, <2>2, <2>4 DEF LeaseInv, NoOrphanedLease, Holds
  <2> QED BY <2>3, <2>4
<1>7. OwnerIsCurrent'
  <2>1. SUFFICES ASSUME NEW q \in Processes, NEW x \in Deliveries,
                        Holds(q, x)', job'[x].owner = WorkerId(q)'
                 PROVE  job'[x].attempts = claim'[q].attempts
    BY DEF OwnerIsCurrent
  <2>2. q # p /\ Holds(q, x) /\ claim'[q] = claim[q]
    BY <1>1, <2>1 DEF Holds
  <2>3. job'[x] = job[x]
    BY <1>0, <1>1, <1>3, <2>1
  <2> QED BY <1>1, <2>1, <2>2, <2>3 DEF LeaseInv, OwnerIsCurrent
<1> QED BY <1>4, <1>5, <1>6, <1>7 DEF LeaseInv

(* So does a claim: a row is taken over only once its lease is spent. *)
LEMMA LeaseClaim ==
  ASSUME TypeOK, LeaseInv, NEW p \in Processes, NEW d \in Deliveries, claimWebhook(p, d)
  PROVE  LeaseInv'
<1>0. /\ NoOwner \notin Owners /\ \A q \in Processes : WorkerId(q) \in Owners
      /\ proc[p] \in Process /\ claim[p] \in Claim /\ job[d] \in Row
  BY QueueAssumption DEF TypeOK, Process, WorkerId, Owners
<1>1. /\ \A q \in Processes : WorkerId(q)' = WorkerId(q) /\ proc'[q].epoch = proc[q].epoch
      /\ \A q \in Processes \ {p} : proc'[q] = proc[q] /\ claim'[q] = claim[q]
      /\ \A q \in Processes \ {p} : Working(q)' <=> Working(q)
      /\ Working(p)' /\ claim'[p].delivery = d
      /\ claim'[p].lease = WebhookLeaseMs /\ claim'[p].attempts = job[d].attempts + 1
  BY <1>0 DEF claimWebhook, TypeOK, Process, WorkerId, Working
<1>2. /\ \A e \in Deliveries \ {d} : job'[e] = job[e]
      /\ job'[d].status = "leased" /\ job'[d].owner = WorkerId(p)
      /\ job'[d].lease = WebhookLeaseMs /\ job'[d].attempts = job[d].attempts + 1
      /\ job'[d].wait = job[d].wait
  BY <1>0 DEF claimWebhook, ClaimedRow, TypeOK, Row
<1>3. job[d].wait <= 0 /\ (job[d].status = "leased" => job[d].lease = 0)
  BY DEF claimWebhook, Candidate, Claimable
<1>4. \A q \in Processes \ {p} : WorkerId(q) # WorkerId(p)
  BY DEF WorkerId
<1>5. \A e \in Deliveries : job[e].owner # WorkerId(p)
  <2>1. proc[p].phase \notin {"ended", "down"} /\ ~Working(p)
    BY DEF claimWebhook, Working
  <2>2. ASSUME NEW e \in Deliveries, job[e].owner = WorkerId(p) PROVE FALSE
    <3>1. job[e].status = "leased"
      BY <1>0, <2>2 DEF LeaseInv, OwnersExist
    <3> QED BY <2>1, <2>2, <3>1 DEF LeaseInv, NoOrphanedLease, Holds
  <2> QED BY <2>2
<1>6. OwnersExist'
  <2>1. SUFFICES ASSUME NEW x \in Deliveries
                 PROVE  /\ job'[x].status = "leased" <=> job'[x].owner # NoOwner
                        /\ job'[x].status = "leased" => job'[x].wait <= 0
                        /\ \A q \in Processes : \A e \in Nat :
                             job'[x].owner = <<q, e>> => e <= proc'[q].epoch
    BY DEF OwnersExist
  <2>2. CASE x # d
    BY <1>1, <1>2, <2>2 DEF LeaseInv, OwnersExist
  <2>3. CASE x = d
    <3>1. ASSUME NEW q \in Processes, NEW e \in Nat, job'[d].owner = <<q, e>>
          PROVE  e <= proc'[q].epoch
      BY <1>0, <1>1, <1>2, <3>1 DEF WorkerId, Process
    <3> QED BY <1>0, <1>2, <1>3, <2>3, <3>1
  <2> QED BY <2>2, <2>3
<1>7. HolderOwns'
  <2>1. SUFFICES ASSUME NEW q \in Processes, Working(q)', claim'[q].lease > 0
                 PROVE  /\ job'[claim'[q].delivery].owner = WorkerId(q)'
                        /\ job'[claim'[q].delivery].lease = claim'[q].lease
    BY DEF HolderOwns
  <2>2. CASE q = p
    BY <1>1, <1>2, <2>2
  <2>3. CASE q # p
    <3>1. Working(q) /\ claim'[q] = claim[q]
      BY <1>1, <2>1, <2>3
    <3>2. /\ job[claim[q].delivery].owner = WorkerId(q)
          /\ job[claim[q].delivery].lease = claim[q].lease
          /\ claim[q].delivery \in Deliveries
      BY <2>1, <3>1 DEF LeaseInv, HolderOwns, TypeOK
    <3>3. claim[q].delivery # d
      <4>1. SUFFICES ASSUME claim[q].delivery = d PROVE FALSE
        OBVIOUS
      <4>2. job[d].status = "leased"
        BY <1>0, <3>2, <4>1 DEF LeaseInv, OwnersExist
      <4>3. claim[q].lease = 0
        BY <1>3, <3>2, <4>1, <4>2
      <4> QED BY <2>1, <3>1, <4>3
    <3> QED BY <1>1, <1>2, <3>1, <3>2, <3>3
  <2> QED BY <2>2, <2>3
<1>8. NoOrphanedLease'
  <2>1. SUFFICES ASSUME NEW q \in Processes, NEW x \in Deliveries,
                        job'[x].status = "leased", job'[x].owner = WorkerId(q)',
                        proc'[q].phase \notin {"ended", "down"}
                 PROVE  Holds(q, x)'
    BY DEF NoOrphanedLease
  <2>2. CASE x = d
    <3>1. q = p
      BY <1>1, <1>2, <1>4, <2>1, <2>2
    <3> QED BY <1>1, <2>2, <3>1 DEF Holds
  <2>3. CASE x # d
    <3>1. job'[x] = job[x] /\ q # p
      BY <1>1, <1>2, <1>5, <2>1, <2>3
    <3> QED BY <1>1, <2>1, <3>1 DEF LeaseInv, NoOrphanedLease, Holds
  <2> QED BY <2>2, <2>3
<1>9. OwnerIsCurrent'
  <2>1. SUFFICES ASSUME NEW q \in Processes, NEW x \in Deliveries,
                        Holds(q, x)', job'[x].owner = WorkerId(q)'
                 PROVE  job'[x].attempts = claim'[q].attempts
    BY DEF OwnerIsCurrent
  <2>2. CASE q = p
    BY <1>1, <1>2, <2>1, <2>2 DEF Holds
  <2>3. CASE q # p
    <3>1. x # d /\ job'[x] = job[x]
      BY <1>1, <1>2, <1>4, <2>1, <2>3
    <3> QED BY <1>1, <2>1, <2>3, <3>1 DEF LeaseInv, OwnerIsCurrent, Holds
  <2> QED BY <2>2, <2>3
<1> QED BY <1>6, <1>7, <1>8, <1>9 DEF LeaseInv

(* So does the passing of time: row and holder count down together. *)
LEMMA LeaseTick ==
  ASSUME TypeOK, LeaseInv, Tick PROVE LeaseInv'
<1>1. ASSUME NEW d \in Deliveries
      PROVE  /\ job'[d].status = job[d].status /\ job'[d].owner = job[d].owner
             /\ job'[d].attempts = job[d].attempts
             /\ job'[d].lease = Left(job[d].lease) /\ job'[d].wait <= job[d].wait
  <2>1. job[d] \in Row
    BY DEF TypeOK
  <2>2. job'[d] = [job[d] EXCEPT
                     !.wait = IF Live(d) /\ @ > -MaxAge THEN @ - 1 ELSE @,
                     !.lease = Left(@), !.keep = Left(@)]
    BY DEF Tick
  <2>3. /\ job'[d].status = job[d].status /\ job'[d].owner = job[d].owner
        /\ job'[d].attempts = job[d].attempts
        /\ job'[d].lease = Left(job[d].lease)
    BY <2>1, <2>2 DEF Row
  <2>4. job'[d].wait = IF Live(d) /\ job[d].wait > -MaxAge THEN job[d].wait - 1 ELSE job[d].wait
    BY <2>1, <2>2 DEF Row
  <2>5. job'[d].wait <= job[d].wait
    BY <2>1, <2>4 DEF Row
  <2> QED BY <2>3, <2>5
<1>2. ASSUME NEW p \in Processes
      PROVE  /\ claim'[p].delivery = claim[p].delivery
             /\ claim'[p].attempts = claim[p].attempts
             /\ claim'[p].lease = Left(claim[p].lease)
  <2>1. claim[p] \in Claim
    BY DEF TypeOK
  <2> QED BY <2>1 DEF Tick, Claim
<1>3. /\ proc' = proc
      /\ \A p \in Processes : WorkerId(p)' = WorkerId(p) /\ (Working(p)' <=> Working(p))
  BY DEF Tick, WorkerId, Working
<1>4. OwnersExist'
  <2>1. \A d \in Deliveries : job[d].wait \in Int /\ job'[d].wait \in Int
    <3>1. TypeOK'
      BY TypeStep DEF Next
    <3> QED BY <3>1 DEF TypeOK, Row
  <2> QED BY <1>1, <1>3, <2>1 DEF LeaseInv, OwnersExist
<1>5. HolderOwns'
  <2>1. \A n \in Nat : Left(n) > 0 => n > 0
    BY DEF Left
  <2>2. \A p \in Processes : claim[p].lease \in Nat
    BY DEF TypeOK, Claim
  <2> QED BY <1>1, <1>2, <1>3, <2>1, <2>2 DEF LeaseInv, HolderOwns, TypeOK
<1>6. NoOrphanedLease'
  BY <1>1, <1>2, <1>3 DEF LeaseInv, NoOrphanedLease, Holds
<1>7. OwnerIsCurrent'
  BY <1>1, <1>2, <1>3 DEF LeaseInv, OwnerIsCurrent, Holds
<1> QED BY <1>4, <1>5, <1>6, <1>7 DEF LeaseInv

(* The lease discipline holds initially. *)
LEMMA LeaseInit == Init => LeaseInv
<1> SUFFICES ASSUME Init PROVE LeaseInv
  OBVIOUS
<1>1. \A d \in Deliveries : job[d].status = "absent" /\ job[d].owner = NoOwner
  BY DEF Init, NoJob
<1>2. \A p \in Processes : ~Working(p)
  BY DEF Init, Working
<1>3. NoOwner \notin Owners
  BY QueueAssumption DEF Owners
<1>4. OwnersExist
  <2>1. \A p \in Processes : \A e \in Nat : <<p, e>> # NoOwner
    BY <1>3 DEF Owners
  <2> QED BY <1>1, <2>1 DEF OwnersExist
<1>5. HolderOwns /\ NoOrphanedLease /\ OwnerIsCurrent
  BY <1>1, <1>2 DEF HolderOwns, NoOrphanedLease, OwnerIsCurrent, Holds
<1> QED BY <1>4, <1>5 DEF LeaseInv

(* Every action keeps the lease discipline. *)
LEMMA LeaseStep == TypeOK /\ LeaseInv /\ [Next]_vars => LeaseInv'
<1> SUFFICES ASSUME TypeOK, LeaseInv, [Next]_vars PROVE LeaseInv'
  OBVIOUS
<1>1. ASSUME NEW p \in Processes, NEW d \in Deliveries, claimWebhook(p, d) PROVE LeaseInv'
  BY <1>1, LeaseClaim
<1>2. ASSUME NEW p \in Processes,
             completeWebhook(p) \/ requeueUncounted(p) \/ failClaimedWebhook(p)
      PROVE  LeaseInv'
  BY <1>2, SettleSteps, LeaseSettle
<1>3. ASSUME NEW p \in Processes,
             \/ handle(p) \/ drained(p) \/ start(p) \/ claimFails(p) \/ completeFails(p)
             \/ failFails(p) \/ shutdown(p) \/ crash(p)
      PROVE  LeaseInv'
  BY <1>3, ControlSteps, LeaseControl, TypeStep
<1>4. CASE \/ \E d \in Deliveries : enqueueWebhook(d)
           \/ \E batch \in SUBSET Deliveries : purgeTerminalWebhookJobs(batch)
  BY <1>4, RowSteps, LeaseRow
<1>5. CASE Tick
  BY <1>5, LeaseTick
<1>6. CASE UNCHANGED vars
  <2>1. UNCHANGED <<job, proc, claim>>
    BY <1>6 DEF vars
  <2> QED BY <2>1 DEF LeaseInv, OwnersExist, HolderOwns, NoOrphanedLease, OwnerIsCurrent,
                      Holds, Working, WorkerId
<1> QED BY <1>1, <1>2, <1>3, <1>4, <1>5, <1>6 DEF Next, Step, Fault

(* The lease discipline is an invariant. *)
LEMMA LeaseInvariant == Safety => [](TypeOK /\ LeaseInv)
  BY TypeInit, TypeStep, LeaseInit, LeaseStep, PTL DEF Safety

(* No two workers run the handler of a delivery while both of their leases  *)
(* are unexpired.                                                           *)
THEOREM LeasesExclude == Safety => []LeaseExclusion
<1>1. TypeOK /\ LeaseInv => LeaseExclusion
  <2>1. SUFFICES ASSUME TypeOK, LeaseInv, NEW p \in Processes, NEW q \in Processes,
                        NEW d \in Deliveries, p # q, Holds(p, d), Holds(q, d),
                        claim[p].lease # 0, claim[q].lease # 0
                 PROVE  FALSE
    BY DEF LeaseExclusion
  <2>2. claim[p].lease > 0 /\ claim[q].lease > 0
    BY <2>1 DEF TypeOK, Claim
  <2>3. job[d].owner = WorkerId(p) /\ job[d].owner = WorkerId(q)
    BY <2>1, <2>2 DEF LeaseInv, HolderOwns, Holds
  <2> QED BY <2>1, <2>3 DEF WorkerId
<1> QED BY <1>1, LeaseInvariant, PTL

(* A loop that goes on never leaves a leased row behind. *)
THEOREM NoLeaseIsOrphaned == Safety => []NoOrphanedLease
<1>1. LeaseInv => NoOrphanedLease
  BY DEF LeaseInv
<1> QED BY <1>1, LeaseInvariant, PTL

(* The runnable gauge counts exactly the rows a worker could claim. *)
THEOREM GaugeIsExact == Safety => []RunnableGaugeIsExact
<1>1. LeaseInv => RunnableGaugeIsExact
  BY DEF LeaseInv, OwnersExist, RunnableGaugeIsExact, Runnable, Claimable, Live
<1> QED BY <1>1, LeaseInvariant, PTL

-----------------------------------------------------------------------------
(* What a step may do to a row, by the row's status before it. *)
Finality(d) ==
  /\ job[d].status \in Terminal =>
       \/ job'[d].status = job[d].status /\ job'[d].attempts = job[d].attempts
       \/ job'[d].status = "absent" /\ job[d].keep = 0
  /\ Live(d) => job'[d].status # "absent"

LastClaim(d) ==
  job[d].status = "leased" /\ job'[d].status # "leased" =>
    \E p \in Processes :
      /\ Holds(p, d)
      /\ job[d].attempts = claim[p].attempts
      /\ job'[d].status = "succeeded" <=> claim[p].outcome = "ok"

(* What one step may do to a row, action by action. *)
LEMMA FateStep ==
  ASSUME TypeOK, LeaseInv, [Next]_vars, NEW d \in Deliveries
  PROVE  Finality(d) /\ LastClaim(d)
<1>0. /\ job[d] \in Row /\ NoOwner \notin Owners
      /\ \A q \in Processes : WorkerId(q) \in Owners
  BY QueueAssumption DEF TypeOK, Process, WorkerId, Owners
<1>1. ASSUME NEW e \in Deliveries, enqueueWebhook(e) PROVE Finality(d) /\ LastClaim(d)
  <2>1. job[d].status # "absent" => job'[d] = job[d]
    BY <1>1 DEF enqueueWebhook, TypeOK
  <2> QED BY <2>1 DEF Finality, LastClaim, Live, Terminal
<1>2. ASSUME NEW p \in Processes, NEW e \in Deliveries, claimWebhook(p, e)
      PROVE  Finality(d) /\ LastClaim(d)
  <2>1. e # d => job'[d] = job[d]
    BY <1>2 DEF claimWebhook, TypeOK
  <2>2. e = d => Live(d) /\ job'[d].status = "leased"
    BY <1>0, <1>2 DEF claimWebhook, ClaimedRow, Candidate, Claimable, TypeOK, Row
  <2> QED BY <2>1, <2>2 DEF Finality, LastClaim, Live, Terminal
<1>3. ASSUME NEW p \in Processes,
             completeWebhook(p) \/ requeueUncounted(p) \/ failClaimedWebhook(p)
      PROVE  Finality(d) /\ LastClaim(d)
  <2>1. SettleStep(p, claim[p].delivery)
    BY <1>3, SettleSteps
  <2>2. CASE job'[d] = job[d]
    BY <2>2 DEF Finality, LastClaim, Live, Terminal
  <2>3. CASE /\ d = claim[p].delivery
             /\ job[d].owner = WorkerId(p)
             /\ job'[d].status \in {"pending", "succeeded", "dead-letter"}
             /\ job'[d].status = "succeeded" <=> claim[p].outcome = "ok"
    <3>1. job[d].status = "leased"
      BY <1>0, <2>3 DEF LeaseInv, OwnersExist
    <3>2. Holds(p, d)
      BY <2>1, <2>3 DEF SettleStep, Holds
    <3>3. job[d].attempts = claim[p].attempts
      BY <2>3, <3>2 DEF LeaseInv, OwnerIsCurrent
    <3> QED BY <2>3, <3>1, <3>2, <3>3 DEF Finality, LastClaim, Live, Terminal
  <2> QED BY <2>1, <2>2, <2>3 DEF SettleStep
<1>4. ASSUME NEW batch \in SUBSET Deliveries, purgeTerminalWebhookJobs(batch)
      PROVE  Finality(d) /\ LastClaim(d)
  <2>1. \/ job'[d] = job[d]
        \/ job'[d].status = "absent" /\ job[d].keep = 0 /\ job[d].status \in Terminal
    BY <1>4 DEF purgeTerminalWebhookJobs, Purgeable, NoJob
  <2> QED BY <2>1 DEF Finality, LastClaim, Live, Terminal
<1>5. CASE Tick
  <2>1. job'[d].status = job[d].status /\ job'[d].attempts = job[d].attempts
    BY <1>0, <1>5 DEF Tick, Row
  <2> QED BY <2>1 DEF Finality, LastClaim, Live, Terminal
<1>6. ASSUME job' = job PROVE Finality(d) /\ LastClaim(d)
  BY <1>6 DEF Finality, LastClaim, Live, Terminal
<1>7. ASSUME NEW p \in Processes,
             \/ handle(p) \/ drained(p) \/ start(p) \/ claimFails(p) \/ completeFails(p)
             \/ failFails(p) \/ shutdown(p) \/ crash(p)
      PROVE  Finality(d) /\ LastClaim(d)
  BY <1>6, <1>7, ControlSteps DEF ControlStep
<1>8. CASE UNCHANGED vars
  BY <1>6, <1>8 DEF vars
<1> QED BY <1>1, <1>2, <1>3, <1>4, <1>5, <1>7, <1>8 DEF Next, Step, Fault

(* Finished rows stay finished for their retention, and rows still to be    *)
(* worked on are never deleted.                                             *)
THEOREM FinishedStaysFinished == Safety => TerminalIsFinal
<1>1. TypeOK /\ LeaseInv /\ [Next]_vars =>
        [\A d \in Deliveries :
           /\ job[d].status \in Terminal =>
                \/ job'[d].status = job[d].status /\ job'[d].attempts = job[d].attempts
                \/ job'[d].status = "absent" /\ job[d].keep = 0
           /\ Live(d) => job'[d].status # "absent"]_vars
  BY FateStep DEF Finality
<1> QED BY <1>1, LeaseInvariant, PTL DEF Safety, TerminalIsFinal

(* A leased row is decided by the handler run of its last claim. *)
THEOREM LastClaimDecides == Safety => OnlyTheLastClaimDecides
<1>1. TypeOK /\ LeaseInv /\ [Next]_vars =>
        [\A d \in Deliveries :
           job[d].status = "leased" /\ job'[d].status # "leased" =>
             \E p \in Processes :
               /\ Holds(p, d)
               /\ job[d].attempts = claim[p].attempts
               /\ job'[d].status = "succeeded" <=> claim[p].outcome = "ok"]_vars
  BY FateStep DEF LastClaim
<1> QED BY <1>1, LeaseInvariant, PTL DEF Safety, OnlyTheLastClaimDecides

-----------------------------------------------------------------------------
(* The attempt budget. *)

(* Claims of row d whose outcome is still open, as process p sees them: its *)
(* own, and the one the row is leased for if that is another's.             *)
Open(p, d) ==
  (IF Holds(p, d) THEN 1 ELSE 0)
  + (IF job[d].status = "leased" /\ job[d].owner # WorkerId(p) THEN 1 ELSE 0)

(* Every claim of a row is still open, was counted as a failure, or was     *)
(* credited by some process: no process can credit more than the rest.      *)
BudgetKept(d) ==
  /\ tally[d].counted < MaxWebhookAttempts
  /\ tally[d].counted <= job[d].attempts
  /\ job[d].status = "leased" => tally[d].counted < job[d].attempts
  /\ \A p \in Processes : tally[d].counted + credit[p][d] + Open(p, d) <= job[d].attempts

Unsent(d) == job[d].status = "absent" /\ \A p \in Processes : credit[p][d] = 0 /\ ~Holds(p, d)

BudgetInv ==
  \A d \in Deliveries :
    /\ sends[d] = 0 => Unsent(d)
    /\ sends[d] = 1 /\ Live(d) => BudgetKept(d)

LEMMA OpenType ==
  ASSUME NEW p \in Processes, NEW d \in Deliveries
  PROVE  Open(p, d) \in 0 .. 2 /\ Open(p, d)' \in 0 .. 2
BY DEF Open

(* What a step may do to the accounts of a row it does not settle. *)
Eases(p, d) ==
  \/ credit'[p][d] + Open(p, d)' <= credit[p][d] + Open(p, d)
  \/ credit'[p][d] = 0 /\ (Open(p, d)' = 0 \/ (Open(p, d)' = 1 /\ job[d].status = "leased"))

LEMMA BudgetStays ==
  ASSUME TypeOK, TypeOK', NEW d \in Deliveries, BudgetKept(d), tally'[d].counted = tally[d].counted,
         job'[d].attempts = job[d].attempts,
         job'[d].status = "leased" => job[d].status = "leased",
         \A p \in Processes : Eases(p, d)
  PROVE  BudgetKept(d)'
<1>1. /\ tally[d].counted \in Nat /\ job[d].attempts \in Nat
      /\ \A p \in Processes : credit[p][d] \in Nat /\ credit'[p][d] \in Nat
  BY DEF TypeOK, Row
<1>2. ASSUME NEW p \in Processes
      PROVE  tally'[d].counted + credit'[p][d] + Open(p, d)' <= job'[d].attempts
  <2>1. tally[d].counted + credit[p][d] + Open(p, d) <= job[d].attempts
    BY DEF BudgetKept
  <2>2. Open(p, d) \in Nat /\ Open(p, d)' \in Nat
    BY OpenType
  <2>3. CASE credit'[p][d] + Open(p, d)' <= credit[p][d] + Open(p, d)
    BY <1>1, <2>1, <2>2, <2>3
  <2>4. CASE credit'[p][d] = 0 /\ Open(p, d)' = 0
    BY <1>1, <2>4 DEF BudgetKept
  <2>5. CASE credit'[p][d] = 0 /\ Open(p, d)' = 1 /\ job[d].status = "leased"
    BY <1>1, <2>5 DEF BudgetKept
  <2> QED BY <2>3, <2>4, <2>5 DEF Eases
<1> QED BY <1>2 DEF BudgetKept

(* Nothing changes for the row and the workers on it. *)
LEMMA SameAccounts ==
  ASSUME NEW d \in Deliveries, NEW p \in Processes, credit'[p][d] = credit[p][d],
         Holds(p, d)' => Holds(p, d),
         job'[d].status = "leased" /\ job'[d].owner # WorkerId(p)' =>
           job[d].status = "leased" /\ job[d].owner # WorkerId(p),
         credit[p][d] \in Nat
  PROVE  Eases(p, d)
<1>1. Open(p, d) \in Nat /\ Open(p, d)' \in Nat
  BY OpenType
<1>2. Open(p, d)' <= Open(p, d)
  BY DEF Open
<1> QED BY <1>1, <1>2 DEF Eases

(* One step keeps the accounts of one row. *)
BudgetOf(d) ==
  /\ sends[d] = 0 => Unsent(d)
  /\ sends[d] = 1 /\ Live(d) => BudgetKept(d)

LEMMA BudgetEnqueue ==
  ASSUME TypeOK, TypeOK', NEW d \in Deliveries, BudgetOf(d),
         NEW e \in Deliveries, enqueueWebhook(e)
  PROVE  BudgetOf(d)'
<1>1. /\ sends[d] \in Nat /\ sends \in [Deliveries -> Nat] /\ job \in [Deliveries -> Row]
      /\ tally \in [Deliveries -> [free : Nat, counted : Nat]]
  BY DEF TypeOK
<1>2. UNCHANGED <<proc, claim, credit>>
  BY DEF enqueueWebhook
<1>3. CASE d = e /\ sends[d] = 0
  <2>1. Unsent(d) /\ sends'[d] = 1
    BY <1>1, <1>3 DEF BudgetOf, enqueueWebhook
  <2>2. job'[d] = FreshRow /\ tally'[d] = NoTally
    BY <1>1, <1>3, <2>1 DEF enqueueWebhook, Unsent
  <2>3. job'[d].attempts = 0 /\ job'[d].status = "pending" /\ tally'[d].counted = 0
    BY <2>2 DEF FreshRow, NoJob, NoTally
  <2>4. \A p \in Processes : credit'[p][d] = 0 /\ Open(p, d)' = 0
    BY <1>2, <2>1, <2>3 DEF Unsent, Open, Holds, Working
  <2>5. BudgetKept(d)'
    BY <2>3, <2>4, QueueAssumption DEF BudgetKept
  <2> QED BY <2>1, <2>5 DEF BudgetOf
<1>4. CASE d = e /\ sends[d] # 0
  <2>1. sends' = [sends EXCEPT ![e] = @ + 1]
    BY DEF enqueueWebhook
  <2>2. sends'[d] \notin {0, 1}
    BY <1>1, <1>4, <2>1
  <2> QED BY <2>2 DEF BudgetOf
<1>5. CASE d # e
  <2>1. job'[d] = job[d] /\ tally'[d] = tally[d] /\ sends'[d] = sends[d]
    BY <1>1, <1>5 DEF enqueueWebhook
  <2> QED BY <1>2, <2>1 DEF BudgetOf, Unsent, BudgetKept, Live, Open, Holds, Working, WorkerId
<1> QED BY <1>3, <1>4, <1>5

LEMMA BudgetPurge ==
  ASSUME TypeOK, NEW d \in Deliveries, BudgetOf(d),
         NEW batch \in SUBSET Deliveries, purgeTerminalWebhookJobs(batch)
  PROVE  BudgetOf(d)'
<1>1. UNCHANGED <<proc, claim, credit, sends, tally>>
  BY DEF purgeTerminalWebhookJobs
<1>2. job'[d] = job[d] \/ job'[d].status = "absent"
  BY DEF purgeTerminalWebhookJobs, NoJob
<1>3. CASE job'[d] = job[d]
  BY <1>1, <1>3 DEF BudgetOf, Unsent, BudgetKept, Live, Open, Holds, Working, WorkerId
<1>4. CASE job'[d].status = "absent"
  BY <1>1, <1>4 DEF BudgetOf, Unsent, Live, Holds, Working
<1> QED BY <1>2, <1>3, <1>4

LEMMA BudgetTick ==
  ASSUME TypeOK, TypeOK', NEW d \in Deliveries, BudgetOf(d), Tick
  PROVE  BudgetOf(d)'
<1>1. UNCHANGED <<proc, credit, sends, tally>>
  BY DEF Tick
<1>2. job'[d].status = job[d].status /\ job'[d].owner = job[d].owner /\ job'[d].attempts = job[d].attempts
  BY DEF Tick, TypeOK, Row
<1>3. ASSUME NEW p \in Processes PROVE claim'[p].delivery = claim[p].delivery
  <2>1. claim[p] \in Claim
    BY DEF TypeOK
  <2> QED BY <2>1 DEF Tick, Claim
<1> QED BY <1>1, <1>2, <1>3 DEF BudgetOf, Unsent, BudgetKept, Live, Open, Holds, Working, WorkerId

(* A claim adds an attempt and opens it. *)
LEMMA BudgetClaim ==
  ASSUME TypeOK, TypeOK', NEW d \in Deliveries, BudgetOf(d),
         NEW p \in Processes, NEW e \in Deliveries, claimWebhook(p, e)
  PROVE  BudgetOf(d)'
<1>1. /\ UNCHANGED <<credit, sends, tally>>
      /\ \A q \in Processes \ {p} : proc'[q] = proc[q] /\ claim'[q] = claim[q]
      /\ ~Working(p) /\ claim'[p].delivery = e /\ Live(e)
      /\ \A q \in Processes : WorkerId(q)' = WorkerId(q)
  BY DEF claimWebhook, TypeOK, Process, Working, WorkerId, Candidate, Claimable
<1>2. \A q \in Processes \ {p} : (Working(q)' <=> Working(q)) /\ (Holds(q, d)' <=> Holds(q, d))
  BY <1>1 DEF Working, Holds
<1>3. CASE d # e
  <2>1. job'[d] = job[d] /\ ~Holds(p, d)' /\ ~Holds(p, d)
    BY <1>1, <1>3 DEF claimWebhook, TypeOK, Holds
  <2>2. \A q \in Processes : (Holds(q, d)' <=> Holds(q, d)) /\ Open(q, d)' = Open(q, d)
    BY <1>1, <1>2, <2>1 DEF Open
  <2> QED BY <1>1, <2>1, <2>2 DEF BudgetOf, Unsent, BudgetKept, Live
<1>4. CASE d = e
  <2>1. /\ job'[d].status = "leased" /\ job'[d].owner = WorkerId(p)
        /\ job'[d].attempts = job[d].attempts + 1
    BY <1>4 DEF claimWebhook, ClaimedRow, TypeOK, Row
  <2>2. sends[d] # 0 /\ (sends[d] = 1 => BudgetKept(d))
    BY <1>1, <1>4 DEF BudgetOf, Unsent, Live
  <2>3. ASSUME BudgetKept(d) PROVE BudgetKept(d)'
    <3>1. /\ tally[d].counted \in Nat /\ job[d].attempts \in Nat
          /\ \A q \in Processes : credit[q][d] \in Nat
      BY DEF TypeOK, Row
    <3>2. ASSUME NEW q \in Processes PROVE Open(q, d)' <= Open(q, d) + 1
      <4>1. CASE q = p
        BY <1>1, <2>1, <4>1 DEF Open, Holds
      <4>2. CASE q # p
        BY <1>2, <4>2 DEF Open
      <4> QED BY <4>1, <4>2
    <3>3. ASSUME NEW q \in Processes
          PROVE  tally'[d].counted + credit'[q][d] + Open(q, d)' <= job'[d].attempts
      <4>1. tally[d].counted + credit[q][d] + Open(q, d) <= job[d].attempts
        BY <2>3 DEF BudgetKept
      <4>2. Open(q, d) \in Nat /\ Open(q, d)' \in Nat
        BY OpenType
      <4> QED BY <1>1, <2>1, <3>1, <3>2, <4>1, <4>2
    <3> QED BY <1>1, <2>1, <2>3, <3>1, <3>3 DEF BudgetKept
  <2> QED BY <1>1, <2>2, <2>3 DEF BudgetOf
<1> QED BY <1>3, <1>4

(* A process credits only what it holds. *)
LEMMA CreditedIs ==
  ASSUME TypeOK, NEW p \in Processes, NEW e \in Deliveries,
         NEW q \in Processes, NEW d \in Deliveries
  PROVE  \/ Credited(p, e)[q][d] = credit[q][d]
         \/ q = p /\ d = e /\ Credited(p, e)[q][d] = credit[q][d] + 1
BY DEF Credited, TypeOK

(* A loop stops, starts or goes on without a word to the row. *)
LEMMA BudgetControl ==
  ASSUME TypeOK, TypeOK', NEW d \in Deliveries, BudgetOf(d), NEW p \in Processes,
         \/ handle(p) \/ drained(p) \/ start(p) \/ claimFails(p) \/ completeFails(p)
         \/ failFails(p) \/ shutdown(p) \/ crash(p)
  PROVE  BudgetOf(d)'
<1>1. ControlStep
  BY ControlSteps
<1>2. /\ job' = job /\ UNCHANGED <<sends, tally>>
      /\ \A q \in Processes : Holds(q, d)' => Holds(q, d)
      /\ \A q \in Processes : credit[q][d] \in Nat
  BY <1>1 DEF ControlStep, Holds, TypeOK, handle, drained, start, claimFails, completeFails,
              failFails, shutdown, crash
<1>3. ASSUME NEW q \in Processes
      PROVE  Eases(q, d) /\ (Unsent(d) => credit'[q][d] = 0)
  <2>1. CASE start(p) /\ q = p
    <3>1. credit'[p][d] = 0 /\ ~Holds(p, d)'
      BY <2>1 DEF start, TypeOK, NoCredit, Holds, Working
    <3>2. Open(p, d)' = 0 \/ (Open(p, d)' = 1 /\ job[d].status = "leased")
      BY <1>2, <3>1 DEF Open
    <3> QED BY <2>1, <3>1, <3>2 DEF Eases
  <2>2. CASE failFails(p) /\ q = p
    <3>1. Holds(p, claim[p].delivery) /\ claim[p].delivery \in Deliveries /\ ~Holds(p, d)'
      BY <2>2 DEF failFails, Holds, Working, TypeOK
    <3>2. \/ credit'[p][d] = credit[p][d]
          \/ d = claim[p].delivery /\ credit'[p][d] = credit[p][d] + 1
      BY <2>2, <3>1, CreditedIs DEF failFails
    <3>3. WorkerId(p)' = WorkerId(p)
      BY <2>2 DEF failFails, WorkerId, TypeOK, Process
    <3>4. CASE credit'[p][d] = credit[p][d]
      BY <1>2, <2>2, <3>3, <3>4, SameAccounts DEF Unsent
    <3>5. CASE d = claim[p].delivery /\ credit'[p][d] = credit[p][d] + 1
      <4>1. Open(p, d)' + 1 = Open(p, d)
        BY <1>2, <3>1, <3>3, <3>5 DEF Open
      <4>2. Open(p, d) \in Nat /\ Open(p, d)' \in Nat
        BY OpenType
      <4> QED BY <1>2, <2>2, <3>1, <3>5, <4>1, <4>2 DEF Eases, Unsent
    <3> QED BY <3>2, <3>4, <3>5
  <2>3. CASE q # p \/ ~(start(p) \/ failFails(p))
    <3>1. credit'[q][d] = credit[q][d]
      BY <2>3 DEF TypeOK, handle, drained, start, claimFails, completeFails, failFails, shutdown,
                  crash, Credited
    <3>2. WorkerId(q)' = WorkerId(q)
      BY <2>3 DEF TypeOK, Process, WorkerId, handle, drained, start, claimFails, completeFails,
                  failFails, shutdown, crash
    <3> QED BY <1>2, <3>1, <3>2, SameAccounts DEF Unsent
  <2> QED BY <2>1, <2>2, <2>3
<1>4. Live(d)' => Live(d)
  BY <1>2 DEF Live
<1>5. BudgetKept(d) => BudgetKept(d)'
  BY <1>2, <1>3, BudgetStays
<1>6. Unsent(d) => Unsent(d)'
  BY <1>2, <1>3 DEF Unsent
<1> QED BY <1>2, <1>4, <1>5, <1>6 DEF BudgetOf

(* An outcome is recorded: the claim it closes was counted, credited, or    *)
(* ends the row; a counted one leaves the budget short of its end.          *)
LEMMA BudgetSettle ==
  ASSUME TypeOK, TypeOK', LeaseInv, NEW d \in Deliveries, BudgetOf(d), NEW p \in Processes,
         completeWebhook(p) \/ requeueUncounted(p) \/ failClaimedWebhook(p)
  PROVE  BudgetOf(d)'
<1> DEFINE e == claim[p].delivery
<1>1. e \in Deliveries /\ SettleStep(p, e) /\ Holds(p, e)
  BY SettleSteps DEF SettleStep, Holds
<1>2. /\ sends' = sends
      /\ \A q \in Processes : WorkerId(q)' = WorkerId(q)
      /\ \A q \in Processes \ {p} : Holds(q, d)' <=> Holds(q, d)
      /\ ~Holds(p, d)'
      /\ \A q \in Processes : credit[q][d] \in Nat
  <2>1. sends' = sends
    BY DEF completeWebhook, requeueUncounted, failClaimedWebhook
  <2>2. \A q \in Processes : proc'[q].epoch = proc[q].epoch
    BY <1>1 DEF SettleStep
  <2>3. ~Working(p)' /\ \A q \in Processes \ {p} : proc'[q] = proc[q] /\ claim'[q] = claim[q]
    BY <1>1 DEF SettleStep, Working
  <2>4. \A q \in Processes : credit[q][d] \in Nat
    BY DEF TypeOK
  <2> QED BY <2>1, <2>2, <2>3, <2>4 DEF WorkerId, Holds, Working
<1>3. \A q \in Processes \ {p} : credit'[q][d] = credit[q][d]
  BY <1>1 DEF TypeOK, completeWebhook, requeueUncounted, failClaimedWebhook, Credited
<1>4. CASE d # e
  <2>1. job'[d] = job[d] /\ tally'[d] = tally[d]
    BY <1>1, <1>4 DEF SettleStep, TypeOK, completeWebhook, requeueUncounted, failClaimedWebhook
  <2>2. credit'[p][d] = credit[p][d]
    BY <1>1, <1>4 DEF TypeOK, completeWebhook, requeueUncounted, failClaimedWebhook, Credited
  <2>3. \A q \in Processes : Eases(q, d)
    BY <1>2, <1>3, <2>1, <2>2, SameAccounts
  <2>4. BudgetKept(d) => BudgetKept(d)'
    BY <2>1, <2>3, BudgetStays
  <2> QED BY <1>2, <1>3, <2>1, <2>2, <2>4 DEF BudgetOf, Unsent, Live
<1>5. CASE d = e
  <2>1. sends[d] # 0 /\ Working(p) /\ Holds(p, d)
    BY <1>1, <1>5 DEF BudgetOf, Unsent, SettleStep
  <2>2. \A q \in Processes \ {p} : WorkerId(q) # WorkerId(p)
    BY DEF WorkerId
  <2>3. /\ tally[d].counted \in Nat /\ job[d].attempts \in Nat /\ job[d] \in Row
        /\ job[d].owner = WorkerId(p) => job[d].status = "leased"
    <3>1. tally[d].counted \in Nat /\ job[d] \in Row /\ job[d].attempts \in Nat
      BY DEF TypeOK, Row
    <3>2. WorkerId(p) # NoOwner
      BY QueueAssumption DEF TypeOK, WorkerId, Owners, Process
    <3> QED BY <3>1, <3>2 DEF LeaseInv, OwnersExist
  <2>4. CASE job[d].owner # WorkerId(p)
    <3>1. job'[d] = job[d] /\ tally'[d] = tally[d]
      BY <1>1, <1>5, <2>4 DEF SettleStep, TypeOK, completeWebhook, requeueUncounted, failClaimedWebhook
    <3>2. credit'[p][d] \in {0, credit[p][d], credit[p][d] + 1}
      <4>1. \/ credit' = [credit EXCEPT ![p][claim[p].delivery] = 0]
            \/ credit' = Credited(p, claim[p].delivery)
            \/ credit' = credit
        BY <1>1 DEF completeWebhook, requeueUncounted, failClaimedWebhook
      <4>2. claim[p].delivery \in Deliveries
        BY <2>1 DEF Working, TypeOK
      <4> HIDE DEF Credited
      <4>3. CASE credit' = [credit EXCEPT ![p][claim[p].delivery] = 0]
        BY <4>3 DEF TypeOK
      <4>4. CASE credit' = Credited(p, claim[p].delivery)
        BY <4>2, <4>4, CreditedIs
      <4> QED BY <4>1, <4>3, <4>4
    <3>3. Open(p, d)' + 1 = Open(p, d)
      BY <1>2, <2>1, <3>1 DEF Open
    <3>4. Eases(p, d)
      <4>1. Open(p, d) \in Nat /\ Open(p, d)' \in Nat
        BY OpenType
      <4> QED BY <1>2, <3>2, <3>3, <4>1 DEF Eases
    <3>5. \A q \in Processes \ {p} : Eases(q, d)
      BY <1>2, <1>3, <3>1, SameAccounts
    <3>6. BudgetKept(d) => BudgetKept(d)'
      BY <3>1, <3>4, <3>5, BudgetStays
    <3> QED BY <1>2, <2>1, <3>1, <3>6 DEF BudgetOf, Live
  <2>5. CASE job[d].owner = WorkerId(p) /\ Live(d)' /\ sends[d] = 1
    <3>1. BudgetKept(d) /\ job[d].status = "leased"
      BY <2>3, <2>5 DEF BudgetOf, Live
    <3>2. job'[d].status = "pending"
      BY <1>1, <1>5, <2>5 DEF SettleStep, Live
    <3>3. CASE requeueUncounted(p)
      <4>1. job'[d].attempts = job[d].attempts
        BY <1>5, <2>3, <2>5, <3>3 DEF requeueUncounted, Settle, RetryRow, TypeOK, Row
      <4>2. tally'[d].counted = tally[d].counted
        BY <1>5, <2>5, <3>3 DEF requeueUncounted, TypeOK
      <4>3. credit'[p][d] \in {credit[p][d], credit[p][d] + 1}
        BY <1>5, <3>3, CreditedIs DEF requeueUncounted
      <4>4. Open(p, d)' = 0 /\ Open(p, d) = 1
        BY <1>2, <2>1, <2>5, <3>2 DEF Open
      <4>5. Eases(p, d)
        BY <1>2, <4>3, <4>4 DEF Eases
      <4>6. \A q \in Processes \ {p} : Eases(q, d)
        BY <1>2, <1>3, <3>2, SameAccounts
      <4>7. BudgetKept(d)'
        BY <3>1, <3>2, <4>1, <4>2, <4>5, <4>6, BudgetStays
      <4> QED BY <1>2, <2>1, <4>7 DEF BudgetOf
    <3>4. CASE failClaimedWebhook(p)
      <4>1. ~deadLetters(p, d) /\ credit' = credit
        <5>1. CASE deadLetters(p, d)
          <6>1. job'[d] = DeadLetterRow(d, claim[p].outcome)
            BY <1>5, <2>5, <3>4, <5>1 DEF failClaimedWebhook, Settle, TypeOK
          <6>2. DeadLetterRow(d, claim[p].outcome).status = "dead-letter"
            BY <2>3 DEF DeadLetterRow, Row
          <6> QED BY <3>2, <6>1, <6>2
        <5> QED BY <1>5, <3>4, <5>1 DEF failClaimedWebhook
      <4>2. job'[d].attempts = job[d].attempts
        <5>1. \A w, o : RetryRow(d, w, o).attempts = job[d].attempts
          BY <2>3 DEF RetryRow, Row
        <5> HIDE DEF e
        <5>2. job'[d] = RetryRow(d, computeBackoffMs(Attempt(p, d)), claim[p].outcome)
          BY <1>5, <2>5, <3>4, <4>1 DEF failClaimedWebhook, Settle, TypeOK, e
        <5> QED BY <5>1, <5>2
      <4>3. tally'[d].counted = tally[d].counted + 1
        BY <1>5, <2>5, <3>4 DEF failClaimedWebhook, TypeOK
      <4>4. ASSUME NEW q \in Processes
            PROVE  tally'[d].counted + credit'[q][d] + Open(q, d)' <= job'[d].attempts
        <5>1. tally[d].counted + credit[q][d] + Open(q, d) <= job[d].attempts
          BY <3>1 DEF BudgetKept
        <5>2. Open(q, d)' + 1 = Open(q, d)
          BY <1>2, <2>1, <2>2, <2>5, <3>1, <3>2 DEF Open
        <5>3. Open(q, d) \in Nat /\ Open(q, d)' \in Nat
          BY OpenType
        <5> QED BY <1>2, <2>3, <4>1, <4>2, <4>3, <5>1, <5>2, <5>3
      <4>5. tally[d].counted + 1 < MaxWebhookAttempts
        <5>1. job[d].attempts = claim[p].attempts
          BY <2>1, <2>5 DEF LeaseInv, OwnerIsCurrent
        <5>2. tally[d].counted + credit[p][d] + 1 <= job[d].attempts
          <6>1. tally[d].counted + credit[p][d] + Open(p, d) <= job[d].attempts
            BY <3>1 DEF BudgetKept
          <6>2. Open(p, d) = 1
            BY <2>1, <2>5, <3>1 DEF Open
          <6> QED BY <6>1, <6>2
        <5>3. claim[p].attempts - credit[p][d] >= tally[d].counted + 1
          BY <1>2, <2>3, <5>1, <5>2
        <5>4. Attempt(p, d) = claim[p].attempts - credit[p][d]
          BY <1>2, <2>3, <5>1, <5>3 DEF Attempt
        <5>5. ~(Attempt(p, d) >= MaxWebhookAttempts)
          BY <4>1 DEF deadLetters
        <5> QED BY <1>2, <2>3, <5>1, <5>3, <5>4, <5>5, QueueAssumption
      <4>6. BudgetKept(d)'
        BY <2>3, <3>1, <3>2, <4>2, <4>3, <4>4, <4>5 DEF BudgetKept
      <4> QED BY <1>2, <2>1, <4>6 DEF BudgetOf
    <3>5. CASE completeWebhook(p)
      BY <1>1, <1>5, <2>5, <3>2, <3>5 DEF completeWebhook, SettleStep
    <3> QED BY <3>3, <3>4, <3>5
  <2>6. CASE ~Live(d)' \/ sends[d] # 1
    BY <1>2, <2>1, <2>6 DEF BudgetOf
  <2> QED BY <2>4, <2>5, <2>6
<1> QED BY <1>4, <1>5

LEMMA BudgetInvariance == Safety => []BudgetInv
<1>1. Init => BudgetInv
  <2> SUFFICES ASSUME Init PROVE BudgetInv
    OBVIOUS
  <2>1. \A d \in Deliveries : Unsent(d) /\ sends[d] = 0
    BY DEF Init, Unsent, NoJob, NoCredit, Holds, Working
  <2> QED BY <2>1 DEF BudgetInv
<1>2. TypeOK /\ LeaseInv /\ BudgetInv /\ [Next]_vars => BudgetInv'
  <2> SUFFICES ASSUME TypeOK, LeaseInv, [Next]_vars, NEW d \in Deliveries, BudgetOf(d)
               PROVE  BudgetOf(d)'
    BY DEF BudgetInv, BudgetOf
  <2>1. TypeOK'
    BY TypeStep
  <2>2. CASE UNCHANGED vars
    BY <2>2 DEF vars, BudgetOf, Unsent, BudgetKept, Live, Open, Holds, Working, WorkerId
  <2> QED BY <2>1, <2>2, BudgetEnqueue, BudgetPurge, BudgetTick, BudgetClaim, BudgetControl, BudgetSettle
          DEF Next, Step, Fault
<1> QED BY <1>1, <1>2, LeaseInvariant, PTL DEF Safety

(* A row never outlives its attempt budget, whichever processes count its   *)
(* failures and whatever credit for throttled and aborted runs each of them *)
(* keeps, as long as GitHub sent the delivery once.                         *)
THEOREM BudgetEndsTheorem == Safety => []BudgetEnds
<1>1. BudgetInv => BudgetEnds
  BY DEF BudgetInv, BudgetKept, BudgetEnds
<1> QED BY <1>1, BudgetInvariance, PTL

=============================================================================
