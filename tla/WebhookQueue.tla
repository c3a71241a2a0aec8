---------------------------- MODULE WebhookQueue ----------------------------
(***************************************************************************)
(* The durable webhook queue of the control plane (table webhook_jobs) and *)
(* the worker loops that drain it.                                         *)
(*                                                                         *)
(* The HTTP edge inserts one row per GitHub delivery id.  Every process    *)
(* runs one sequential loop: claim a row under a lease, run its handler,   *)
(* record the outcome.  A row is fenced only by its lease owner, an id     *)
(* that is new each time a process starts.  `attempts' is durable and      *)
(* counts claims; the credit that makes throttled and aborted claims free  *)
(* lives in the memory of one process.                                     *)
(*                                                                         *)
(* Instants are kept as distances from the present, which Tick shortens:   *)
(* `wait' to available_at (below 0 once it has passed, down to -MaxAge),   *)
(* `lease' to lease_expires_at, `keep' to the end of the retention.  Polls *)
(* that find nothing are stuttering steps.                                 *)
(***************************************************************************)
EXTENDS Integers, FiniteSets

CONSTANTS
  Deliveries,           \* GitHub delivery ids
  Processes,            \* control-plane process slots
  NoDelivery,           \* no delivery claimed
  NoOwner,              \* lease_owner IS NULL
  MaxWebhookAttempts,   \* options.maxWebhookAttempts
  WebhookLeaseMs,       \* options.webhookLeaseMs
  BackoffBase,          \* first retry delay
  BackoffCap,           \* longest retry delay
  ThrottleWindows,      \* distances to retryAt that GitHub throttling can ask for
  MaxUncounted,         \* MAX_UNCOUNTED_ATTEMPT_DELIVERIES
  SucceededRetention,   \* succeededRetentionMs
  DeadLetterRetention,  \* deadLetterRetentionMs
  PurgeLimit,           \* batchLimit of one cleanup pass
  MaxAge,               \* bound: how long past available_at rows are told apart
  MaxSends,             \* bound: times GitHub sends one delivery id
  MaxRestarts,          \* bound: shutdowns and crashes together
  MaxThrottles,         \* bound: throttled handler runs
  MaxStoreErrors,       \* bound: store calls of a worker loop that fail
  MaxOverruns           \* bound: handler runs that outlast their lease

ASSUME QueueAssumption ==
  /\ MaxWebhookAttempts \in Nat \ {0}
  /\ WebhookLeaseMs \in Nat \ {0}
  /\ BackoffBase \in Nat /\ BackoffCap \in Nat
  /\ ThrottleWindows \subseteq Nat
  /\ MaxUncounted \in Nat
  /\ SucceededRetention \in Nat
  /\ DeadLetterRetention \in Nat /\ DeadLetterRetention >= SucceededRetention
  /\ PurgeLimit \in Nat \ {0}
  /\ MaxAge \in Nat /\ MaxSends \in Nat /\ MaxRestarts \in Nat
  /\ MaxThrottles \in Nat /\ MaxStoreErrors \in Nat /\ MaxOverruns \in Nat
  /\ NoDelivery \notin Deliveries
  /\ NoOwner \notin Processes \X Nat

VARIABLES
  job,      \* webhook_jobs: delivery id -> row, or the absent row
  proc,     \* process -> phase of its worker loop, incarnation, draining flag
  claim,    \* process -> the WebhookJob its loop works on
  credit,   \* process -> uncountedAttempts
  sends,    \* delivery id -> times GitHub has sent it
  faults,   \* faults used up so far, by kind
  tally     \* history: failures recorded in the current row, free and counted

vars == <<job, proc, claim, credit, sends, faults, tally>>

Statuses == {"absent", "pending", "leased", "succeeded", "dead-letter"}
Terminal == {"succeeded", "dead-letter"}
Failures == {"error", "permanent", "throttled", "aborted"}
Phases   == {"idle", "handling", "recording", "ended", "down"}
Owners   == Processes \X Nat

Row ==
  [status : Statuses, attempts : Nat, owner : Owners \cup {NoOwner},
   wait : Int, lease : Nat, keep : Nat, lastError : Failures \cup {"none"}]

Process == [phase : Phases, epoch : Nat, draining : BOOLEAN]

Claim ==
  [delivery : Deliveries \cup {NoDelivery}, attempts : Nat, lease : Nat,
   outcome : Failures \cup {"none", "ok"}, retry : Nat]

NoJob ==
  [status |-> "absent", attempts |-> 0, owner |-> NoOwner,
   wait |-> 0, lease |-> 0, keep |-> 0, lastError |-> "none"]

NoClaim ==
  [delivery |-> NoDelivery, attempts |-> 0, lease |-> 0, outcome |-> "none", retry |-> 0]

NoCredit == [d \in Deliveries |-> 0]
NoTally  == [free |-> 0, counted |-> 0]

(* Mutant: the id survives a restart. *)
WorkerIdReused(p) == <<p, 0>>

(* workerId: the pid and a fresh uuid of this start of the process. *)
WorkerId(p) == <<p, proc[p].epoch>>

Working(p) == proc[p].phase \in {"handling", "recording"}
Serving(p) == proc[p].phase # "down" /\ ~proc[p].draining
Live(d)    == job[d].status \in {"pending", "leased"}

TypeOK ==
  /\ job \in [Deliveries -> Row]
  /\ proc \in [Processes -> Process]
  /\ claim \in [Processes -> Claim]
  /\ \A p \in Processes : Working(p) => claim[p].delivery \in Deliveries
  /\ credit \in [Processes -> [Deliveries -> Nat]]
  /\ sends \in [Deliveries -> Nat]
  /\ faults \in [restarts : Nat, throttles : Nat, store : Nat, overruns : Nat]
  /\ tally \in [Deliveries -> [free : Nat, counted : Nat]]

Init ==
  /\ job = [d \in Deliveries |-> NoJob]
  /\ proc = [p \in Processes |-> [phase |-> "idle", epoch |-> 0, draining |-> FALSE]]
  /\ claim = [p \in Processes |-> NoClaim]
  /\ credit = [p \in Processes |-> NoCredit]
  /\ sends = [d \in Deliveries |-> 0]
  /\ faults = [restarts |-> 0, throttles |-> 0, store |-> 0, overruns |-> 0]
  /\ tally = [d \in Deliveries |-> NoTally]

-----------------------------------------------------------------------------
(* The HTTP edge: authenticated POST, then INSERT ... ON CONFLICT DO NOTHING. *)

FreshRow == [NoJob EXCEPT !.status = "pending"]

enqueueWebhook(d) ==
  /\ sends[d] < MaxSends
  /\ \E p \in Processes : Serving(p)
  /\ sends' = [sends EXCEPT ![d] = @ + 1]
  /\ \/ /\ job[d].status = "absent"
        /\ job' = [job EXCEPT ![d] = FreshRow]
        /\ tally' = [tally EXCEPT ![d] = NoTally]
     \/ /\ job[d].status # "absent"
        /\ UNCHANGED <<job, tally>>
  /\ UNCHANGED <<proc, claim, credit, faults>>

-----------------------------------------------------------------------------
(* Claiming: the candidate is a claimable row with the earliest            *)
(* available_at (rows of the same instant in either order); claiming       *)
(* counts an attempt and starts a lease.                                   *)

(* Mutant: no lease test. *)
ClaimableUnderLease(d) == Live(d) /\ job[d].wait <= 0

(* Mutant: a leased row is not taken over. *)
ClaimableOnlyPending(d) == job[d].status = "pending" /\ job[d].wait <= 0

Claimable(d) ==
  /\ Live(d)
  /\ job[d].wait <= 0
  /\ job[d].status = "leased" => job[d].lease = 0

Candidate(d) ==
  Claimable(d) /\ \A e \in Deliveries : Claimable(e) => job[d].wait <= job[e].wait

ClaimedRow(p, d) ==
  [job[d] EXCEPT !.status = "leased", !.attempts = @ + 1, !.owner = WorkerId(p),
                 !.lease = WebhookLeaseMs]

claimWebhook(p, d) ==
  /\ proc[p].phase = "idle" /\ ~proc[p].draining
  /\ Candidate(d)
  /\ job' = [job EXCEPT ![d] = ClaimedRow(p, d)]
  /\ claim' = [claim EXCEPT ![p] =
       [delivery |-> d, attempts |-> job[d].attempts + 1,
        lease |-> WebhookLeaseMs, outcome |-> "none", retry |-> 0]]
  /\ proc' = [proc EXCEPT ![p].phase = "handling"]
  /\ UNCHANGED <<credit, sends, faults, tally>>

(* An exception of claimWebhook leaves processNextWebhook and ends the loop; *)
(* the process keeps serving HTTP.                                           *)
claimFails(p) ==
  /\ proc[p].phase = "idle" /\ ~proc[p].draining
  /\ faults.store < MaxStoreErrors
  /\ faults' = [faults EXCEPT !.store = @ + 1]
  /\ proc' = [proc EXCEPT ![p].phase = "ended"]
  /\ UNCHANGED <<job, claim, credit, sends, tally>>

-----------------------------------------------------------------------------
(* The handler runs to its end, however long after the lease that is.  It   *)
(* aborts only at a checkpoint after shutdown has begun.                     *)

handle(p) ==
  /\ proc[p].phase = "handling"
  /\ proc' = [proc EXCEPT ![p].phase = "recording"]
  /\ \/ \E o \in {"ok", "error", "permanent"} :
          /\ claim' = [claim EXCEPT ![p].outcome = o]
          /\ UNCHANGED faults
     \/ /\ proc[p].draining
        /\ claim' = [claim EXCEPT ![p].outcome = "aborted"]
        /\ UNCHANGED faults
     \/ /\ faults.throttles < MaxThrottles
        /\ faults' = [faults EXCEPT !.throttles = @ + 1]
        /\ \E w \in ThrottleWindows :
             claim' = [claim EXCEPT ![p].outcome = "throttled", ![p].retry = w]
  /\ UNCHANGED <<job, credit, sends, tally>>

(* The tail of processNextWebhook: back to polling, nothing claimed. *)
Released(p) ==
  /\ proc' = [proc EXCEPT ![p].phase = "idle"]
  /\ claim' = [claim EXCEPT ![p] = NoClaim]

(* Mutant: the updates match the delivery id only. *)
SettleUnfenced(p, d, row) == job' = [job EXCEPT ![d] = row]

(* completeWebhook and failWebhook: UPDATE ... WHERE lease_owner = worker. *)
Settle(p, d, row) ==
  job' = IF job[d].owner = WorkerId(p) THEN [job EXCEPT ![d] = row] ELSE job

completeWebhook(p) ==
  LET d == claim[p].delivery IN
  /\ proc[p].phase = "recording" /\ claim[p].outcome = "ok"
  /\ Settle(p, d, [job[d] EXCEPT !.status = "succeeded", !.owner = NoOwner,
                                 !.lease = 0, !.keep = SucceededRetention + 1])
  /\ credit' = [credit EXCEPT ![p][d] = 0]
  /\ Released(p)
  /\ UNCHANGED <<sends, faults, tally>>

(* A store error while completing is caught as a failure of the handler. *)
completeFails(p) ==
  /\ proc[p].phase = "recording" /\ claim[p].outcome = "ok"
  /\ faults.store < MaxStoreErrors
  /\ faults' = [faults EXCEPT !.store = @ + 1]
  /\ claim' = [claim EXCEPT ![p].outcome = "error"]
  /\ UNCHANGED <<job, proc, credit, sends, tally>>

RetryRow(d, wait, error) ==
  [job[d] EXCEPT !.status = "pending", !.owner = NoOwner, !.lease = 0,
                 !.wait = wait, !.lastError = error]

DeadLetterRow(d, error) ==
  [job[d] EXCEPT !.status = "dead-letter", !.owner = NoOwner, !.lease = 0,
                 !.keep = DeadLetterRetention + 1, !.lastError = error]

computeBackoffMs(attempt) ==
  LET doubled == BackoffBase * 2 ^ (attempt - 1)
  IN  IF doubled \in 0 .. BackoffCap THEN doubled ELSE BackoffCap

(* Throttled or aborted: credit the claim back, unless the ledger is full,  *)
(* and requeue.                                                             *)
Credited(p, d) ==
  IF Cardinality({e \in Deliveries : credit[p][e] > 0}) < MaxUncounted
    THEN [credit EXCEPT ![p][d] = @ + 1]
    ELSE credit

requeueUncounted(p) ==
  LET d == claim[p].delivery
      o == claim[p].outcome
  IN
  /\ proc[p].phase = "recording" /\ o \in {"throttled", "aborted"}
  /\ credit' = Credited(p, d)
  /\ Settle(p, d, RetryRow(d, claim[p].retry, o))
  /\ tally' = IF job[d].owner = WorkerId(p) THEN [tally EXCEPT ![d].free = @ + 1] ELSE tally
  /\ Released(p)
  /\ UNCHANGED <<sends, faults>>

(* Counted failure: dead-letter on a permanent backend error or when the    *)
(* budget is spent, else retry after the backoff.                           *)
Attempt(p, d) ==
  LET counted == claim[p].attempts - credit[p][d]
  IN  IF counted >= 1 THEN counted ELSE 1

(* Mutant: off by one. *)
deadLettersLate(p, d) ==
  claim[p].outcome = "permanent" \/ Attempt(p, d) > MaxWebhookAttempts

deadLetters(p, d) ==
  claim[p].outcome = "permanent" \/ Attempt(p, d) >= MaxWebhookAttempts

failClaimedWebhook(p) ==
  LET d == claim[p].delivery
      o == claim[p].outcome
  IN
  /\ proc[p].phase = "recording" /\ o \in {"error", "permanent"}
  /\ \/ /\ deadLetters(p, d)
        /\ Settle(p, d, DeadLetterRow(d, o))
        /\ credit' = [credit EXCEPT ![p][d] = 0]
     \/ /\ ~deadLetters(p, d)
        /\ Settle(p, d, RetryRow(d, computeBackoffMs(Attempt(p, d)), o))
        /\ UNCHANGED credit
  /\ tally' = IF job[d].owner = WorkerId(p) THEN [tally EXCEPT ![d].counted = @ + 1] ELSE tally
  /\ Released(p)
  /\ UNCHANGED <<sends, faults>>

(* A store error while recording a failure escapes and ends the loop.  The *)
(* row stays leased until the lease runs out.                              *)
failFails(p) ==
  /\ proc[p].phase = "recording" /\ claim[p].outcome \in Failures
  /\ faults.store < MaxStoreErrors
  /\ faults' = [faults EXCEPT !.store = @ + 1]
  /\ proc' = [proc EXCEPT ![p].phase = "ended"]
  /\ credit' = IF claim[p].outcome \in {"throttled", "aborted"}
                 THEN Credited(p, claim[p].delivery) ELSE credit
  /\ claim' = [claim EXCEPT ![p] = NoClaim]
  /\ UNCHANGED <<job, sends, tally>>

-----------------------------------------------------------------------------
(* Process lifecycle.  shutdown aborts the worker signal and waits for the *)
(* loop to settle; a crash (or the forced exit after the drain budget)     *)
(* can come at any point.  A restart has a new worker id and no credit.    *)

Restarting == /\ faults.restarts < MaxRestarts
              /\ faults' = [faults EXCEPT !.restarts = @ + 1]

shutdown(p) ==
  /\ Serving(p)
  /\ Restarting
  /\ proc' = [proc EXCEPT ![p].draining = TRUE]
  /\ UNCHANGED <<job, claim, credit, sends, tally>>

drained(p) ==
  /\ proc[p].draining /\ proc[p].phase \in {"idle", "ended"}
  /\ proc' = [proc EXCEPT ![p].phase = "down"]
  /\ UNCHANGED <<job, claim, credit, sends, faults, tally>>

crash(p) ==
  /\ proc[p].phase # "down"
  /\ Restarting
  /\ proc' = [proc EXCEPT ![p].phase = "down"]
  /\ claim' = [claim EXCEPT ![p] = NoClaim]
  /\ UNCHANGED <<job, credit, sends, tally>>

start(p) ==
  /\ proc[p].phase = "down"
  /\ proc' = [proc EXCEPT ![p] =
                [phase |-> "idle", epoch |-> @.epoch + 1, draining |-> FALSE]]
  /\ credit' = [credit EXCEPT ![p] = NoCredit]
  /\ UNCHANGED <<job, claim, sends, faults, tally>>

-----------------------------------------------------------------------------
(* The cleanup loop: terminal rows past their retention, at most one batch *)
(* (which of them go first is left open).                                  *)

Purgeable == {d \in Deliveries : job[d].status \in Terminal /\ job[d].keep = 0}

purgeTerminalWebhookJobs(batch) ==
  /\ \E p \in Processes : Serving(p)
  /\ batch # {} /\ batch \subseteq Purgeable
  /\ \/ batch = Purgeable /\ Cardinality(batch) <= PurgeLimit
     \/ Cardinality(batch) = PurgeLimit
  /\ job' = [d \in Deliveries |-> IF d \in batch THEN NoJob ELSE job[d]]
  /\ UNCHANGED <<proc, claim, credit, sends, faults, tally>>

Left(n) == IF n > 0 THEN n - 1 ELSE 0

(* Loops whose lease runs out under a handler still at work. *)
Late == {p \in Processes : Working(p) /\ claim[p].lease = 1}

Tick ==
  /\ \/ Late = {} /\ UNCHANGED faults
     \/ /\ Late # {} /\ faults.overruns < MaxOverruns
        /\ faults' = [faults EXCEPT !.overruns = @ + 1]
  /\ job' = [d \in Deliveries |->
       [job[d] EXCEPT !.wait = IF Live(d) /\ @ > -MaxAge THEN @ - 1 ELSE @,
                      !.lease = Left(@), !.keep = Left(@)]]
  /\ claim' = [p \in Processes |-> [claim[p] EXCEPT !.lease = Left(@), !.retry = Left(@)]]
  /\ UNCHANGED <<proc, credit, sends, tally>>

Step(p) ==
  \/ \E d \in Deliveries : claimWebhook(p, d)
  \/ handle(p) \/ completeWebhook(p) \/ requeueUncounted(p) \/ failClaimedWebhook(p)
  \/ drained(p) \/ start(p)

Fault(p) ==
  \/ claimFails(p) \/ completeFails(p) \/ failFails(p) \/ shutdown(p) \/ crash(p)

Next ==
  \/ \E d \in Deliveries : enqueueWebhook(d)
  \/ \E p \in Processes : Step(p) \/ Fault(p)
  \/ \E batch \in SUBSET Deliveries : purgeTerminalWebhookJobs(batch)
  \/ Tick

(* Time passes, loops that run keep running, a process that is down is     *)
(* started again (restart: unless-stopped).  Nothing restarts a process    *)
(* whose loop has ended but that still serves HTTP.                        *)
Fairness == WF_vars(Tick) /\ \A p \in Processes : WF_vars(Step(p))

Safety == Init /\ [][Next]_vars
Spec   == Safety /\ Fairness
-----------------------------------------------------------------------------
(***************************************************************************)
(* What the queue promises.                                                *)
(***************************************************************************)

Holds(p, d) == Working(p) /\ claim[p].delivery = d

(* Two workers run the handler of one delivery at the same time only when   *)
(* the lease of one of them has run out (claimWebhook's lease test, the     *)
(* owner fence of completeWebhook and failWebhook, no lease renewal).       *)
LeaseExclusion ==
  \A p, q \in Processes : \A d \in Deliveries :
    p # q /\ Holds(p, d) /\ Holds(q, d) =>
      claim[p].lease = 0 \/ claim[q].lease = 0

(* A leased row is never left behind by a loop that goes on: its owner is   *)
(* working on it, or that start of the process is over or its loop ended    *)
(* (every exit of processNextWebhook releases the lease or stops the loop). *)
NoOrphanedLease ==
  \A p \in Processes : \A d \in Deliveries :
    /\ job[d].status = "leased"
    /\ job[d].owner = WorkerId(p)
    /\ proc[p].phase \notin {"ended", "down"}
    => Holds(p, d)

(* A finished delivery stays finished, whatever late workers record, and    *)
(* its row, which is what makes a redelivery a duplicate, outlives the      *)
(* retention; a row still to be worked on is never deleted.                 *)
TerminalIsFinal ==
  [][\A d \in Deliveries :
       /\ job[d].status \in Terminal =>
            \/ job'[d].status = job[d].status /\ job'[d].attempts = job[d].attempts
            \/ job'[d].status = "absent" /\ job[d].keep = 0
       /\ Live(d) => job'[d].status # "absent"]_vars

(* Only the worker whose claim was the last one decides what becomes of a   *)
(* leased row, and it decides by the outcome of its own handler run.        *)
OnlyTheLastClaimDecides ==
  [][\A d \in Deliveries :
       job[d].status = "leased" /\ job'[d].status # "leased" =>
         \E p \in Processes :
           /\ Holds(p, d)
           /\ job[d].attempts = claim[p].attempts
           /\ job'[d].status = "succeeded" <=> claim[p].outcome = "ok"]_vars

(* The `runnable' gauge of countWebhookJobs, computed by its own SQL, says  *)
(* exactly which rows a worker could claim: the two queries differ in how   *)
(* they treat available_at of leased rows.                                  *)
Runnable ==
  {d \in Deliveries :
     \/ job[d].status = "pending" /\ job[d].wait <= 0
     \/ job[d].status = "leased" /\ job[d].lease = 0}

RunnableGaugeIsExact == Runnable = {d \in Deliveries : Claimable(d)}

(* No row outlives the attempt budget: the failure that makes the counted   *)
(* failures reach it dead-letters the row (failClaimedWebhook), whichever   *)
(* processes recorded them and whatever credit each of them keeps.  It is   *)
(* stated of a delivery that GitHub sent once: the credit that one process  *)
(* kept for a row that another one finished outlives the row, and is taken  *)
(* from the failures of a redelivery after the purge.                       *)
BudgetEnds ==
  \A d \in Deliveries :
    Live(d) /\ sends[d] = 1 => tally[d].counted < MaxWebhookAttempts

(* Throttled and aborted claims are free: a row is dead-lettered only by a  *)
(* permanent backend failure or when the claims that were not throttled or  *)
(* aborted have used up the budget (doc of failClaimedWebhook).             *)
FreeFailuresNeverDeadLetter ==
  \A d \in Deliveries :
    job[d].status = "dead-letter" /\ job[d].lastError # "permanent" =>
      job[d].attempts - tally[d].free >= MaxWebhookAttempts

(* Every accepted delivery is eventually finished, as long as some worker   *)
(* loop keeps running.                                                      *)
LoopRuns(p) == proc[p].phase # "ended"

AcceptedDeliveryFinishes ==
  ([]<>(\E p \in Processes : LoopRuns(p))) =>
    \A d \in Deliveries : Live(d) ~> ~Live(d)
=============================================================================
