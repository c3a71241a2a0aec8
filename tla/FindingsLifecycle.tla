-------------------------- MODULE FindingsLifecycle --------------------------
(***************************************************************************)
(* The lifecycle of deterministic scanner findings in one repository:      *)
(* accepted scanner runs are merged, one stream at a time, into the        *)
(* finding_lifecycle records under the per-repository lock.                *)
(*                                                                         *)
(* Runs are numbered by compareRunOrder (started at, id, attempt) and are  *)
(* merged in any order, at the same time by several processes, and again   *)
(* when the scanner job is retried.  A run has one part per artifact and   *)
(* stream.  The ownership and suppression policy is read before the lock   *)
(* is waited for.  Ticket passes record ticket states without the lock     *)
(* (module FindingTickets has all of them).                                *)
(*                                                                         *)
(* The time of an observation is the number of its run.                    *)
(***************************************************************************)
EXTENDS Integers, FiniteSets, Sequences

CONSTANTS
  Fingerprints,      \* root-cause fingerprints
  Streams,           \* scan streams
  Workers,           \* handlers that merge accepted runs
  NoWorker,          \* the lock is free
  Severe,            \* fingerprints of critical or high severity
  StreamLimit,       \* MAX_LIFECYCLE_FINDINGS_PER_STREAM
  RecordLimit,       \* MAX_FINDING_LIFECYCLE_RECORDS
  Scans,             \* what a run may be: whether it is trusted, and its parts
  Policies,          \* suppression policies: sets of suppressed fingerprints
  MaxRun,            \* bound: runs of the scanners
  MaxMerges,         \* bound: merges begun
  MaxEvents          \* bound: policy changes and ticket results recorded

ASSUME LifecycleAssumption ==
  /\ IsFiniteSet(Fingerprints) /\ Severe \subseteq Fingerprints
  /\ NoWorker \notin Workers
  /\ {} \in Policies /\ Policies \subseteq SUBSET Fingerprints
  /\ StreamLimit \in Nat /\ RecordLimit \in Nat
  /\ MaxRun \in Nat /\ MaxMerges \in Nat /\ MaxEvents \in Nat
  /\ Scans \subseteq [trusted : BOOLEAN,
                 parts : Seq([stream : Streams, complete : BOOLEAN, findings : SUBSET Fingerprints])]

VARIABLES
  runs,      \* run -> its trust and its parts, once it has completed
  policy,    \* fingerprints with an active suppression
  record,    \* finding_lifecycle
  mark,      \* finding_lifecycle_streams: the run that decided a stream last
  lock,      \* holder of the lifecycle lock
  merge,     \* worker -> progress of its ingestFindingObservations call
  capacity,  \* finding_lifecycle_state
  bounds,    \* merges begun; policy changes and ticket results
  hist       \* history: runs merged, reports the bound took off the record

vars == <<runs, policy, record, mark, lock, merge, capacity, bounds, hist>>

RunIds   == 1 .. MaxRun
Times    == 0 .. MaxRun
Statuses == {"absent", "open", "suppressed", "fixed"}

Part == [stream : Streams, complete : BOOLEAN, findings : SUBSET Fingerprints]
NotRun == [trusted |-> FALSE, parts |-> <<>>]

Record  == [status : Statuses, streams : SUBSET Streams, first : Times, opened : Times,
            fixed : Times, ticket : {"none", "open", "closed"}]
Records == [Fingerprints -> Record]

Absent == [status |-> "absent", streams |-> {}, first |-> 0, opened |-> 0,
           fixed |-> 0, ticket |-> "none"]

Known(rs) == {f \in Fingerprints : rs[f].status # "absent"}

(* One stream's result of one run; `pos' is its place in the run. *)
Observation == [pos : Nat, complete : BOOLEAN, findings : SUBSET Fingerprints]

NoMerge == [phase |-> "idle", run |-> 0, observed |-> [s \in {} |-> 0], suppressed |-> {},
            read |-> [f \in Fingerprints |-> Absent], marks |-> [s \in Streams |-> 0]]

TypeOK ==
  /\ runs \in [RunIds -> Scans \cup {NotRun}]
  /\ policy \in Policies
  /\ record \in Records
  /\ mark \in [Streams -> Times]
  /\ lock \in Workers \cup {NoWorker}
  /\ DOMAIN merge = Workers
  /\ \A w \in Workers :
       /\ DOMAIN merge[w] = DOMAIN NoMerge
       /\ merge[w].phase \in {"idle", "waiting", "merging"}
       /\ lock = w <=> merge[w].phase = "merging"
       /\ merge[w].run \in IF merge[w].phase = "idle" THEN {0} ELSE RunIds
       /\ DOMAIN merge[w].observed \subseteq Streams
       /\ \A s \in DOMAIN merge[w].observed : merge[w].observed[s] \in Observation
       /\ merge[w].suppressed \in Policies
       /\ merge[w].read \in Records /\ merge[w].marks \in [Streams -> Times]
  /\ capacity \in [dropped : Nat, last : Nat, lastSevere : Nat]
  /\ bounds \in [merges : Nat, events : Nat]
  /\ hist \in [merged : SUBSET RunIds, lost : SUBSET (Fingerprints \X Streams)]

Init ==
  /\ runs = [n \in RunIds |-> NotRun]
  /\ policy = {}
  /\ record = [f \in Fingerprints |-> Absent]
  /\ mark = [s \in Streams |-> 0]
  /\ lock = NoWorker
  /\ merge = [w \in Workers |-> NoMerge]
  /\ capacity = [dropped |-> 0, last |-> 0, lastSevere |-> 0]
  /\ bounds = [merges |-> 0, events |-> 0]
  /\ hist = [merged |-> {}, lost |-> {}]

-----------------------------------------------------------------------------
(* What a run observed. *)

PartsOf(parts, s) == {i \in DOMAIN parts : parts[i].stream = s}

AllOf(parts, s) == UNION {parts[i].findings : i \in PartsOf(parts, s)}

(* Mutant: a truncated observation passes for a complete one. *)
CompleteThoughCut(parts, s) == \A i \in PartsOf(parts, s) : parts[i].complete

Complete(parts, s) ==
  /\ \A i \in PartsOf(parts, s) : parts[i].complete
  /\ Cardinality(AllOf(parts, s)) <= StreamLimit

(* The parts of one stream are one observation: all findings, complete only *)
(* if every part is and none has to be cut off (which ones is left open).   *)
mergeObservations(parts) ==
  LET present == {parts[i].stream : i \in DOMAIN parts}
      Pos(s)  == CHOOSE i \in PartsOf(parts, s) : \A j \in PartsOf(parts, s) : i <= j
      kept    == {k \in [present -> SUBSET Fingerprints] : \A s \in present :
                    IF Cardinality(AllOf(parts, s)) <= StreamLimit
                    THEN k[s] = AllOf(parts, s)
                    ELSE k[s] \subseteq AllOf(parts, s) /\ Cardinality(k[s]) = StreamLimit}
  IN  {[s \in present |-> [pos |-> Pos(s), complete |-> Complete(parts, s), findings |-> k[s]]] : k \in kept}

(* Mutant: there is no watermark. *)
AlwaysFresh(n, marks, s) == TRUE

(* A stream that a newer run has decided is skipped. *)
Fresh(n, marks, s) == n >= marks[s]

(* The streams that report f once those of `done' have been applied. *)
Reporting(r, f, obs, done) ==
  {s \in done : f \in obs[s].findings}
    \cup {s \in r.streams : s \in done => f \in obs[s].findings \/ ~obs[s].complete}

(* Mutant: a stream that did not report f before begins an episode. *)
NewEpisodePerStream(r, f, obs, accepted) ==
  \E s \in accepted : f \in obs[s].findings /\ s \notin r.streams

(* f is reported by a stream at a moment when no stream has it. *)
NewEpisode(r, f, obs, accepted) ==
  \E s \in accepted :
    /\ f \in obs[s].findings
    /\ Reporting(r, f, obs, {t \in accepted : obs[t].pos < obs[s].pos}) = {}

(* The record of f after the accepted streams of run n. *)
Observed(r, f, n, obs, accepted, suppressed) ==
  LET streams == Reporting(r, f, obs, accepted)
      seen    == r.status # "absent" \/ streams # {}
      fixed   == streams = {}
  IN  IF ~seen THEN Absent ELSE
      [status  |-> IF fixed THEN "fixed" ELSE IF f \in suppressed THEN "suppressed" ELSE "open",
       streams |-> streams,
       first   |-> IF r.status = "absent" THEN n ELSE r.first,
       opened  |-> IF NewEpisode(r, f, obs, accepted) THEN n ELSE r.opened,
       fixed   |-> IF ~fixed THEN 0 ELSE IF r.status = "fixed" THEN r.fixed ELSE n,
       ticket  |-> r.ticket]

-----------------------------------------------------------------------------
(* The bound on the records of a repository. *)

OpenSevere(rs) == {f \in Severe : rs[f].status = "open"}

Over(rs) == IF Cardinality(Known(rs)) > RecordLimit THEN Cardinality(Known(rs)) - RecordLimit ELSE 0

(* Fixed records without an open ticket are retired, the longest fixed first. *)
Retired(rs) ==
  LET able == {f \in Known(rs) : rs[f].status = "fixed" /\ rs[f].ticket # "open"}
  IN  {x \in SUBSET able :
         /\ x = able \/ Cardinality(x) = Over(rs)
         /\ Cardinality(x) <= Over(rs)
         /\ \A f \in x, g \in able \ x : rs[f].fixed <= rs[g].fixed}

(* f is not kept longer than g: open critical and high findings are spent   *)
(* last, then other open ones, then by severity, the newest first.          *)
DropsBefore(rs, f, g) ==
  LET Rank(h) == IF h \in OpenSevere(rs) THEN 3
                 ELSE IF rs[h].status = "open" THEN 2
                 ELSE IF h \in Severe THEN 1 ELSE 0
  IN  \/ Rank(f) < Rank(g)
      \/ Rank(f) = Rank(g) /\ rs[f].first >= rs[g].first

Without(rs, drop) == [f \in Fingerprints |-> IF f \in drop THEN Absent ELSE rs[f]]

Dropped(rs) ==
  {x \in SUBSET Known(rs) :
     /\ Cardinality(x) = Over(rs)
     /\ \A f \in x, g \in Known(rs) \ x : DropsBefore(rs, f, g)}

-----------------------------------------------------------------------------
(* Scanners, people and ticket passes. *)

(* A scanner run completes and its evidence is accepted. *)
completeRun(n) ==
  /\ runs[n] = NotRun
  /\ \E scan \in Scans : runs' = [runs EXCEPT ![n] = scan]
  /\ UNCHANGED <<policy, record, mark, lock, merge, capacity, bounds, hist>>

(* Suppressions are added, taken away, or expire. *)
changePolicy ==
  /\ bounds.events < MaxEvents
  /\ bounds' = [bounds EXCEPT !.events = @ + 1]
  /\ \E p \in Policies \ {policy} : policy' = p
  /\ UNCHANGED <<runs, record, mark, lock, merge, capacity, hist>>

(* A ticket pass records a result; it does not take the lock. *)
completeFindingTicketClaim(f, state) ==
  /\ f \in Known(record) /\ record[f].ticket # state
  /\ record' = [record EXCEPT ![f].ticket = state]
  /\ bounds.events < MaxEvents
  /\ bounds' = [bounds EXCEPT !.events = @ + 1]
  /\ UNCHANGED <<runs, policy, mark, lock, merge, capacity, hist>>

-----------------------------------------------------------------------------
(* ingestFindingObservations. *)

(* A push or schedule run of the default branch of an active repository. *)
isTrustedLifecycleRun(n) == runs[n] # NotRun /\ runs[n].trusted

(* The policy as the index shows it; none if there is no valid configuration. *)
loadFindingOwnershipContext == {policy, {}}

beginMerge(w, n) ==
  /\ merge[w].phase = "idle" /\ bounds.merges < MaxMerges
  /\ isTrustedLifecycleRun(n) /\ runs[n].parts # <<>>
  /\ bounds' = [bounds EXCEPT !.merges = @ + 1]
  /\ \E obs \in mergeObservations(runs[n].parts), p \in loadFindingOwnershipContext :
       merge' = [merge EXCEPT ![w] =
         [NoMerge EXCEPT !.phase = "waiting", !.run = n, !.observed = obs, !.suppressed = p]]
  /\ UNCHANGED <<runs, policy, record, mark, lock, capacity, hist>>

LockIsFree == lock = NoWorker

acquireFindingLifecycleLock(w) ==
  /\ merge[w].phase = "waiting" /\ LockIsFree
  /\ lock' = w
  /\ merge' = [merge EXCEPT ![w] = [@ EXCEPT !.phase = "merging", !.read = record, !.marks = mark]]
  /\ UNCHANGED <<runs, policy, record, mark, capacity, bounds, hist>>

Finish(w) ==
  /\ lock' = IF lock = w THEN NoWorker ELSE lock
  /\ merge' = [merge EXCEPT ![w] = NoMerge]

Accepted(w) == {s \in DOMAIN merge[w].observed : Fresh(merge[w].run, merge[w].marks, s)}

Merged(w) ==
  [f \in Fingerprints |->
     Observed(merge[w].read[f], f, merge[w].run, merge[w].observed, Accepted(w), merge[w].suppressed)]

(* Mutant: the upsert writes the tickets that were read. *)
UpsertedWithTickets(r, f) == r

(* The upsert leaves the tickets of a stored record alone. *)
Upserted(r, f) ==
  IF record[f].status = "absent" THEN r ELSE [r EXCEPT !.ticket = record[f].ticket]

(* The merge, the bound, and one transaction for the records that changed,  *)
(* the watermarks and the capacity; then the lock is released.              *)
saveFindingLifecycle(w) ==
  LET me == merge[w] IN
  /\ me.phase = "merging" /\ Accepted(w) # {}
  /\ \E retired \in Retired(Merged(w)) : \E dropped \in Dropped(Without(Merged(w), retired)) :
       LET kept == Without(Merged(w), retired \cup dropped) IN
       /\ record' = [f \in Fingerprints |->
            CASE kept[f] = me.read[f] -> record[f]
              [] kept[f] # me.read[f] /\ f \in Known(kept) -> Upserted(kept[f], f)
              [] OTHER -> Absent]
       /\ capacity' = [dropped |-> capacity.dropped + Cardinality(dropped),
                       last |-> Cardinality(dropped),
                       lastSevere |-> Cardinality(dropped \cap OpenSevere(Merged(w)))]
       /\ hist' = [merged |-> hist.merged \cup {me.run},
                   lost |-> {p \in hist.lost \cup {q \in dropped \X Streams : q[2] \in Merged(w)[q[1]].streams} :
                               p[2] \notin kept[p[1]].streams}]
  /\ mark' = [s \in Streams |-> IF s \in Accepted(w) THEN me.run ELSE mark[s]]
  /\ Finish(w)
  /\ UNCHANGED <<runs, policy, bounds>>

(* Every stream was decided by a newer run. *)
skipStale(w) ==
  /\ merge[w].phase = "merging" /\ Accepted(w) = {}
  /\ hist' = [hist EXCEPT !.merged = @ \cup {merge[w].run}]
  /\ Finish(w)
  /\ UNCHANGED <<runs, policy, record, mark, capacity, bounds>>

(* The store fails or the process dies: nothing is written and the scanner  *)
(* job runs again.                                                          *)
mergeFails(w) ==
  /\ merge[w].phase # "idle"
  /\ Finish(w)
  /\ UNCHANGED <<runs, policy, record, mark, capacity, bounds, hist>>

Next ==
  \/ \E n \in RunIds : completeRun(n)
  \/ changePolicy
  \/ \E f \in Fingerprints, state \in {"open", "closed"} : completeFindingTicketClaim(f, state)
  \/ \E w \in Workers :
       \/ \E n \in RunIds : beginMerge(w, n)
       \/ acquireFindingLifecycleLock(w) \/ saveFindingLifecycle(w) \/ skipStale(w) \/ mergeFails(w)

Spec == Init /\ [][Next]_vars
-----------------------------------------------------------------------------
(***************************************************************************)
(* What the lifecycle promises.                                            *)
(***************************************************************************)

(* A stream is decided by the newest of the trusted runs that were merged,  *)
(* in whatever order they came: if it was complete it says exactly which    *)
(* findings the stream reports, else it is a lower bound; reports the bound *)
(* took off are excepted (lock and watermark of ingestFindingObservations). *)
Reported(s) == {f \in Fingerprints : s \in record[f].streams}

NewestRunDecides ==
  \A s \in Streams :
    LET merged == {n \in hist.merged : PartsOf(runs[n].parts, s) # {}} IN
    /\ mark[s] \in merged \cup {0} /\ \A n \in merged : n <= mark[s] /\ runs[n].trusted
    /\ mark[s] # 0 =>
         \E obs \in mergeObservations(runs[mark[s]].parts) :
           /\ obs[s].findings \subseteq Reported(s) \cup {f \in Fingerprints : <<f, s>> \in hist.lost}
           /\ obs[s].complete => Reported(s) \subseteq obs[s].findings

(* A finding becomes fixed only by complete scans, without it, of every     *)
(* stream that reported it; an incomplete or truncated scan never fixes.    *)
FixNeedsCompleteScans ==
  [][\A f \in Fingerprints :
       record[f].status \in {"open", "suppressed"} /\ record'[f].status \in {"fixed", "absent"} =>
         \/ \E n \in RunIds : \A s \in record[f].streams :
              /\ mark'[s] = n /\ f \notin AllOf(runs[n].parts, s)
              /\ \A i \in PartsOf(runs[n].parts, s) : runs[n].parts[i].complete
         \/ record'[f].status = "absent" /\ capacity'.last > 0]_vars

(* The SLA clock of a finding restarts only when no stream reported it any  *)
(* more: as long as one and the same stream goes on reporting it, the       *)
(* episode stays the same.                                                  *)
SlaClockIsSteady ==
  [][\A f \in Fingerprints :
       record[f].streams \cap record'[f].streams # {} => record'[f].opened = record[f].opened]_vars

(* Merges never write ticket state: a result recorded while a merge was     *)
(* running survives it as long as the record does.                          *)
MergesKeepTickets ==
  [][(\E w \in Workers : merge[w].phase = "merging" /\ merge'[w].phase = "idle") =>
       \A f \in Known(record) : f \in Known(record') =>
         record'[f].ticket = record[f].ticket]_vars

(* docs/findings-lifecycle.md: a delayed run cannot reopen what a newer run *)
(* decided.  A finding that runs newer than this one found suppressed, and  *)
(* whose suppression is still in force, stays so.  Violated: the merge      *)
(* recomputes every record with the policy it read before it waited for the *)
(* lock, or with none if the index was not there.                           *)
DelayedRunReopensNothing ==
  [][\A w \in Workers, f \in policy :
       /\ merge[w].phase = "merging" /\ merge'[w].phase = "idle"
       /\ record[f].status = "suppressed" /\ \A s \in record[f].streams : mark[s] > merge[w].run
       => record'[f].status # "open"]_vars
=============================================================================
