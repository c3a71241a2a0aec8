----------------------- MODULE FindingsLifecycleProofs -----------------------
(***************************************************************************)
(* Proofs about the findings lifecycle: for any streams, runs, policies    *)
(* and limits the newest merged run decides, a fix needs complete scans,   *)
(* the SLA clock is steady and merges keep tickets.                        *)
(***************************************************************************)
EXTENDS FindingsLifecycle, FiniteSetTheorems, WellFoundedInduction, TLAPS

-----------------------------------------------------------------------------
(* The inductive invariant. *)

(* A record that is absent has nothing in it; only a fixed record has no    *)
(* stream that reports it.                                                  *)
Shape(r) ==
  /\ r.status = "absent" => r = Absent
  /\ r.status \in {"absent", "fixed"} <=> r.streams = {}
Shapes == \A f \in Fingerprints : Shape(record[f])

(* Merged runs are trusted. *)
MergedAreTrusted == \A n \in hist.merged : runs[n].trusted

(* A merge under way is of a trusted run and holds what it observed. *)
Underway == \A w \in Workers :
  merge[w].phase # "idle" =>
    /\ runs[merge[w].run].trusted
    /\ merge[w].observed \in mergeObservations(runs[merge[w].run].parts)

SameButTicket(r, q) ==
  /\ r.status = q.status /\ r.streams = q.streams /\ r.first = q.first
  /\ r.opened = q.opened /\ r.fixed = q.fixed

(* What the holder of the lock read is what is stored, but for tickets. *)
ReadIsStored == \A w \in Workers :
  merge[w].phase = "merging" =>
    /\ merge[w].marks = mark
    /\ \A f \in Fingerprints :
         Shape(merge[w].read[f]) /\ SameButTicket(merge[w].read[f], record[f])

(* NewestRunDecides, of one stream. *)
Lost(s) == {f \in Fingerprints : <<f, s>> \in hist.lost}

Decided(s) ==
  LET merged == {n \in hist.merged : PartsOf(runs[n].parts, s) # {}} IN
  /\ mark[s] \in merged \cup {0} /\ \A n \in merged : n <= mark[s] /\ runs[n].trusted
  /\ mark[s] # 0 =>
       \E obs \in mergeObservations(runs[mark[s]].parts) :
         /\ obs[s].findings \subseteq Reported(s) \cup Lost(s)
         /\ obs[s].complete => Reported(s) \subseteq obs[s].findings

IInv ==
  /\ TypeOK /\ Shapes /\ MergedAreTrusted /\ Underway /\ ReadIsStored
  /\ NewestRunDecides

-----------------------------------------------------------------------------
(* What a run observed. *)

LEMMA HasSmallest ==
  ASSUME NEW S \in SUBSET Nat, S # {}
  PROVE  \E i \in S : \A j \in S : i <= j
<1> DEFINE R == OpToRel(<, Nat)
<1>1. IsWellFoundedOn(R, Nat)
  BY NatLessThanWellFounded
<1>2. \A x, y \in Nat : x < y => <<x, y>> \in R
  BY DEF OpToRel
<1> HIDE DEF R
<1>3. \E x \in S : \A y \in S : <<y, x>> \notin R
  BY <1>1, WFMin
<1>4. \A x, y \in Nat : ~(x < y) => y <= x
  OBVIOUS
<1> QED BY <1>2, <1>3, <1>4

(* One observation per stream of the run: what it lists was found, and all  *)
(* that was found if it is complete.                                        *)
LEMMA ObservationFacts ==
  ASSUME NEW parts \in Seq(Part), NEW obs \in mergeObservations(parts)
  PROVE  /\ DOMAIN obs = {parts[i].stream : i \in DOMAIN parts}
         /\ \A s \in DOMAIN obs :
              /\ obs[s].findings \subseteq AllOf(parts, s)
              /\ obs[s].findings \in SUBSET Fingerprints
              /\ obs[s].complete = Complete(parts, s)
              /\ obs[s].complete => obs[s].findings = AllOf(parts, s)
<1> DEFINE present == {parts[i].stream : i \in DOMAIN parts}
           Pos(s)  == CHOOSE i \in PartsOf(parts, s) : \A j \in PartsOf(parts, s) : i <= j
           kept    == {k \in [present -> SUBSET Fingerprints] : \A s \in present :
                    IF Cardinality(AllOf(parts, s)) <= StreamLimit
                    THEN k[s] = AllOf(parts, s)
                    ELSE k[s] \subseteq AllOf(parts, s) /\ Cardinality(k[s]) = StreamLimit}
<1>1. PICK k \in kept : obs = [s \in present |->
              [pos |-> Pos(s), complete |-> Complete(parts, s), findings |-> k[s]]]
  BY DEF mergeObservations
<1>2. DOMAIN obs = present
  BY <1>1
<1>3. ASSUME NEW s \in present
      PROVE  /\ obs[s].complete = Complete(parts, s)
             /\ obs[s].findings = k[s]
  BY <1>1, <1>3
<1>4. ASSUME NEW s \in present
      PROVE  /\ k[s] \in SUBSET Fingerprints
             /\ k[s] \subseteq AllOf(parts, s)
             /\ Complete(parts, s) => k[s] = AllOf(parts, s)
  BY <1>1, <1>4 DEF Complete
<1> QED BY <1>2, <1>3, <1>4

LEMMA ObservationType ==
  ASSUME NEW parts \in Seq(Part), NEW obs \in mergeObservations(parts)
  PROVE  /\ DOMAIN obs \subseteq Streams
         /\ \A s \in DOMAIN obs : obs[s] \in Observation
<1> DEFINE present == {parts[i].stream : i \in DOMAIN parts}
           Pos(s)  == CHOOSE i \in PartsOf(parts, s) : \A j \in PartsOf(parts, s) : i <= j
           kept    == {k \in [present -> SUBSET Fingerprints] : \A s \in present :
                    IF Cardinality(AllOf(parts, s)) <= StreamLimit
                    THEN k[s] = AllOf(parts, s)
                    ELSE k[s] \subseteq AllOf(parts, s) /\ Cardinality(k[s]) = StreamLimit}
<1>1. PICK k \in kept : obs = [s \in present |->
              [pos |-> Pos(s), complete |-> Complete(parts, s), findings |-> k[s]]]
  BY DEF mergeObservations
<1>2. DOMAIN obs = present
  BY <1>1
<1>5. present \subseteq Streams
  <2>1. \A i \in DOMAIN parts : parts[i] \in Part
    OBVIOUS
  <2> QED BY <2>1 DEF Part
<1>3. ASSUME NEW s \in present PROVE obs[s] \in Observation
  <2>1. PartsOf(parts, s) \in SUBSET Nat /\ PartsOf(parts, s) # {}
    BY <1>3 DEF PartsOf
  <2>2. \E i \in PartsOf(parts, s) : \A j \in PartsOf(parts, s) : i <= j
    BY <2>1, HasSmallest
  <2>3. Pos(s) \in Nat
    BY <2>1, <2>2
  <2>4. Complete(parts, s) \in BOOLEAN
    BY DEF Complete
  <2>5. k[s] \in SUBSET Fingerprints
    BY <1>3
  <2>6. obs[s] = [pos |-> Pos(s), complete |-> Complete(parts, s), findings |-> k[s]]
    BY <1>1, <1>3
  <2> HIDE DEF Pos
  <2> QED BY <2>3, <2>4, <2>5, <2>6 DEF Observation
<1> QED BY <1>2, <1>3, <1>5

-----------------------------------------------------------------------------
(* What a merge makes of one record. *)

LEMMA AbsentFacts ==
  /\ Absent \in Record /\ Shape(Absent) /\ Absent.status = "absent" /\ Absent.streams = {}
BY LifecycleAssumption DEF Absent, Record, Shape, Statuses, Times

LEMMA ReportingType ==
  ASSUME NEW r \in Record, NEW f \in Fingerprints, NEW obs, DOMAIN obs \subseteq Streams,
         NEW accepted \in SUBSET DOMAIN obs
  PROVE  Reporting(r, f, obs, accepted) \in SUBSET Streams
BY DEF Reporting, Record

LEMMA ObservedFacts ==
  ASSUME NEW r \in Record, Shape(r), NEW f \in Fingerprints, NEW n \in RunIds,
         NEW obs, DOMAIN obs \subseteq Streams, NEW accepted \in SUBSET DOMAIN obs,
         NEW suppressed
  PROVE  LET o == Observed(r, f, n, obs, accepted, suppressed) IN
         /\ o \in Record /\ Shape(o)
         /\ o.streams = Reporting(r, f, obs, accepted)
         /\ r.status # "absent" => o.status # "absent"
         /\ r.status # "absent" /\ ~NewEpisode(r, f, obs, accepted) => o.opened = r.opened
<1> DEFINE streams == Reporting(r, f, obs, accepted)
           o == Observed(r, f, n, obs, accepted, suppressed)
           e == NewEpisode(r, f, obs, accepted)
<1>1. streams \in SUBSET Streams
  BY ReportingType
<1>2. n \in Times
  BY LifecycleAssumption DEF RunIds, Times
<1>3. 0 \in Times
  BY LifecycleAssumption DEF Times
<1> HIDE DEF streams, e
<1>4. CASE r.status = "absent" /\ streams = {}
  <2>1. o = Absent
    BY <1>4 DEF Observed, streams
  <2> QED BY <1>4, <2>1, AbsentFacts DEF streams
<1>5. CASE r.status # "absent" \/ streams # {}
  <2>1. o = [status  |-> IF streams = {} THEN "fixed" ELSE IF f \in suppressed THEN "suppressed" ELSE "open",
             streams |-> streams,
             first   |-> IF r.status = "absent" THEN n ELSE r.first,
             opened  |-> IF e THEN n ELSE r.opened,
             fixed   |-> IF streams # {} THEN 0 ELSE IF r.status = "fixed" THEN r.fixed ELSE n,
             ticket  |-> r.ticket]
    BY <1>5 DEF Observed, streams, e
  <2> HIDE DEF o
  <2>2. /\ o.status \in Statuses /\ o.status # "absent"
        /\ o.status = "fixed" <=> streams = {}
        /\ o.streams = streams
    BY <2>1 DEF Statuses
  <2>3. o \in Record
    BY <1>1, <1>2, <1>3, <2>1 DEF Record, Statuses
  <2>4. ~e => o.opened = r.opened
    BY <2>1
  <2> QED BY <2>2, <2>3, <2>4 DEF Shape, o, streams, e
<1> QED BY <1>4, <1>5

(* As long as one stream goes on reporting, no episode begins. *)
LEMMA SteadyEpisode ==
  ASSUME NEW r, NEW f, NEW obs, NEW accepted, NEW s \in r.streams,
         s \in Reporting(r, f, obs, accepted)
  PROVE  ~NewEpisode(r, f, obs, accepted)
<1> SUFFICES ASSUME NEW done \in SUBSET accepted
             PROVE  s \in Reporting(r, f, obs, done)
  BY DEF NewEpisode
<1>1. CASE s \in done
  BY <1>1 DEF Reporting
<1>2. CASE s \notin done
  BY <1>2 DEF Reporting
<1> QED BY <1>1, <1>2

-----------------------------------------------------------------------------
(* Steps other than the write of a merge. *)

LEMMA RunParts ==
  ASSUME TypeOK, NEW n \in RunIds
  PROVE  runs[n].trusted \in BOOLEAN /\ runs[n].parts \in Seq(Part)
<1>1. runs[n] \in Scans \cup {NotRun}
  BY DEF TypeOK
<1>2. NotRun.trusted = FALSE /\ NotRun.parts = <<>>
  BY DEF NotRun
<1>3. <<>> \in Seq(Part)
  OBVIOUS
<1> QED BY <1>1, <1>2, <1>3, LifecycleAssumption DEF Part


LEMMA NoMergeFacts ==
  /\ NoMerge.phase = "idle" /\ NoMerge.run = 0 /\ NoMerge.observed = [s \in {} |-> 0]
  /\ NoMerge.suppressed \in Policies /\ DOMAIN NoMerge.observed = {}
  /\ NoMerge.read \in Records /\ NoMerge.marks \in [Streams -> Times]
BY AbsentFacts, LifecycleAssumption DEF NoMerge, Records, Times

LEMMA Initially == Init => IInv
<1> SUFFICES ASSUME Init PROVE IInv
  OBVIOUS
<1>1. TypeOK
  <2>1. 0 \in Times /\ Absent \in Record
    BY AbsentFacts, LifecycleAssumption DEF Times
  <2> QED BY <2>1, NoMergeFacts, LifecycleAssumption DEF Init, TypeOK, Records
<1>2. Shapes
  BY AbsentFacts DEF Init, Shapes
<1>3. Underway /\ ReadIsStored
  BY NoMergeFacts DEF Init, Underway, ReadIsStored
<1>4. NewestRunDecides /\ MergedAreTrusted
  BY DEF Init, NewestRunDecides, MergedAreTrusted
<1> QED BY <1>1, <1>2, <1>3, <1>4 DEF IInv

(* Parts of the invariant that look at the same variables as before. *)
LEMMA MergesStay ==
  ASSUME IInv, UNCHANGED merge
  PROVE  /\ UNCHANGED runs => Underway'
         /\ UNCHANGED <<record, mark>> => ReadIsStored'
BY DEF IInv, Underway, ReadIsStored, SameButTicket

LEMMA DecisionsStay ==
  ASSUME IInv, UNCHANGED <<runs, record, mark, hist>>
  PROVE  Shapes' /\ MergedAreTrusted' /\ NewestRunDecides'
BY DEF IInv, Shapes, MergedAreTrusted, NewestRunDecides, Reported

LEMMA RunStep ==
  ASSUME IInv, NEW n \in RunIds, completeRun(n)
  PROVE  IInv'
<1> USE DEF IInv
<1>1. ASSUME NEW m \in RunIds, runs[m].trusted
      PROVE  runs'[m] = runs[m]
  BY <1>1 DEF completeRun, TypeOK, NotRun
<1>2. TypeOK'
  BY DEF completeRun, TypeOK
<1>3. Underway' /\ ReadIsStored' /\ Shapes'
  <2>1. \A w \in Workers : merge[w].phase # "idle" => merge[w].run \in RunIds
    BY DEF TypeOK
  <2>2. Underway'
    BY <1>1, <2>1 DEF completeRun, Underway
  <2> QED BY <2>2, MergesStay DEF completeRun, Shapes
<1>4. NewestRunDecides'
  <2> SUFFICES ASSUME NEW s \in Streams
               PROVE  LET merged == {m \in hist'.merged : PartsOf(runs'[m].parts, s) # {}} IN
                      /\ mark'[s] \in merged \cup {0} /\ \A m \in merged : m <= mark'[s] /\ runs'[m].trusted
                      /\ mark'[s] # 0 =>
                           \E obs \in mergeObservations(runs'[mark'[s]].parts) :
                             /\ obs[s].findings \subseteq Reported(s)' \cup {f \in Fingerprints : <<f, s>> \in hist'.lost}
                             /\ obs[s].complete => Reported(s)' \subseteq obs[s].findings
    BY DEF NewestRunDecides
  <2> DEFINE merged == {m \in hist.merged : PartsOf(runs[m].parts, s) # {}}
  <2>1. /\ mark[s] \in merged \cup {0} /\ \A m \in merged : m <= mark[s] /\ runs[m].trusted
        /\ mark[s] # 0 =>
             \E obs \in mergeObservations(runs[mark[s]].parts) :
               /\ obs[s].findings \subseteq Reported(s) \cup {f \in Fingerprints : <<f, s>> \in hist.lost}
               /\ obs[s].complete => Reported(s) \subseteq obs[s].findings
    BY DEF NewestRunDecides
  <2>2. Reported(s)' = Reported(s) /\ mark' = mark /\ hist' = hist
    BY DEF completeRun, Reported
  <2>3. \A m \in hist.merged : runs'[m] = runs[m]
    BY <1>1 DEF TypeOK, MergedAreTrusted
  <2>4. {m \in hist'.merged : PartsOf(runs'[m].parts, s) # {}} = merged
    BY <2>2, <2>3
  <2>5. mark[s] # 0 => runs'[mark[s]] = runs[mark[s]]
    BY <2>1, <2>3
  <2> HIDE DEF merged
  <2>6. mark[s] # 0 =>
          \E obs \in mergeObservations(runs'[mark[s]].parts) :
            /\ obs[s].findings \subseteq Reported(s) \cup {f \in Fingerprints : <<f, s>> \in hist.lost}
            /\ obs[s].complete => Reported(s) \subseteq obs[s].findings
    BY <2>1, <2>5
  <2>7. \A m \in merged : runs'[m].trusted
    BY <2>1, <2>3 DEF merged
  <2> QED BY <2>1, <2>2, <2>4, <2>6, <2>7
<1>5. MergedAreTrusted'
  BY <1>1 DEF MergedAreTrusted, completeRun, TypeOK
<1> QED BY <1>2, <1>3, <1>4, <1>5

LEMMA PolicyStep ==
  ASSUME IInv, changePolicy
  PROVE  IInv'
<1>1. TypeOK'
  BY DEF IInv, TypeOK, changePolicy
<1> QED BY <1>1, MergesStay, DecisionsStay DEF IInv, changePolicy

LEMMA TicketStep ==
  ASSUME IInv, NEW f \in Fingerprints, NEW state \in {"open", "closed"},
         completeFindingTicketClaim(f, state)
  PROVE  IInv'
<1> USE DEF IInv
<1>1. /\ record[f].status # "absent"
      /\ record' = [record EXCEPT ![f].ticket = state]
  BY DEF completeFindingTicketClaim, Known
<1>2. \A g \in Fingerprints : record[g] \in Record
  BY DEF TypeOK, Records
<1>3. \A g \in Fingerprints : /\ record'[g] \in Record
                              /\ SameButTicket(record[g], record'[g])
                              /\ g # f => record'[g] = record[g]
  BY <1>1, <1>2 DEF TypeOK, Records, Record, SameButTicket
<1>4. TypeOK'
  <2>1. record' \in Records
    BY <1>1, <1>3 DEF TypeOK, Records
  <2> QED BY <2>1 DEF TypeOK, completeFindingTicketClaim
<1>5. Shapes'
  BY <1>1, <1>3 DEF Shapes, Shape, SameButTicket
<1>6. Underway' /\ MergedAreTrusted'
  BY MergesStay DEF completeFindingTicketClaim, MergedAreTrusted
<1>7. ReadIsStored'
  BY <1>3 DEF ReadIsStored, SameButTicket, completeFindingTicketClaim
<1>8. NewestRunDecides'
  <2>1. \A s \in Streams : Reported(s)' = Reported(s)
    BY <1>3 DEF Reported, SameButTicket
  <2> QED BY <2>1 DEF NewestRunDecides, completeFindingTicketClaim
<1> QED BY <1>4, <1>5, <1>6, <1>7, <1>8

LEMMA BeginStep ==
  ASSUME IInv, NEW w \in Workers, NEW n \in RunIds, beginMerge(w, n)
  PROVE  IInv'
<1> USE DEF IInv
<1>1. PICK obs \in mergeObservations(runs[n].parts), p \in loadFindingOwnershipContext :
        merge' = [merge EXCEPT ![w] =
          [NoMerge EXCEPT !.phase = "waiting", !.run = n, !.observed = obs, !.suppressed = p]]
  BY DEF beginMerge
<1> DEFINE new == [NoMerge EXCEPT !.phase = "waiting", !.run = n, !.observed = obs, !.suppressed = p]
<1>2. p \in Policies
  BY LifecycleAssumption DEF loadFindingOwnershipContext, TypeOK
<1>3. /\ new.phase = "waiting" /\ new.run = n /\ new.observed = obs /\ new.suppressed = p
      /\ new.read = NoMerge.read /\ new.marks = NoMerge.marks /\ DOMAIN new = DOMAIN NoMerge
  BY DEF NoMerge
<1>4. DOMAIN obs \subseteq Streams /\ \A s \in DOMAIN obs : obs[s] \in Observation
  BY RunParts, ObservationType
<1> HIDE DEF new
<1>5. /\ merge'[w] = new /\ DOMAIN merge' = Workers
      /\ \A v \in Workers : v # w => merge'[v] = merge[v]
  BY <1>1 DEF TypeOK, new
<1>6. lock # w
  BY LifecycleAssumption DEF TypeOK, beginMerge
<1>7. TypeOK'
  <2>1. \A v \in Workers :
       /\ DOMAIN merge'[v] = DOMAIN NoMerge
       /\ merge'[v].phase \in {"idle", "waiting", "merging"}
       /\ lock = v <=> merge'[v].phase = "merging"
       /\ merge'[v].run \in IF merge'[v].phase = "idle" THEN {0} ELSE RunIds
       /\ DOMAIN merge'[v].observed \subseteq Streams
       /\ \A s \in DOMAIN merge'[v].observed : merge'[v].observed[s] \in Observation
       /\ merge'[v].suppressed \in Policies
       /\ merge'[v].read \in Records /\ merge'[v].marks \in [Streams -> Times]
    BY <1>2, <1>3, <1>4, <1>5, <1>6, NoMergeFacts DEF TypeOK
  <2> QED BY <2>1, <1>5 DEF TypeOK, beginMerge
<1>8. Underway' /\ ReadIsStored'
  BY <1>3, <1>5 DEF Underway, ReadIsStored, SameButTicket, beginMerge, isTrustedLifecycleRun
<1> QED BY <1>7, <1>8, DecisionsStay DEF beginMerge

LEMMA AcquireStep ==
  ASSUME IInv, NEW w \in Workers, acquireFindingLifecycleLock(w)
  PROVE  IInv'
<1> USE DEF IInv
<1> DEFINE new == [merge[w] EXCEPT !.phase = "merging", !.read = record, !.marks = mark]
<1>1. /\ new.phase = "merging" /\ new.run = merge[w].run /\ new.observed = merge[w].observed
      /\ new.suppressed = merge[w].suppressed /\ new.read = record /\ new.marks = mark
      /\ DOMAIN new = DOMAIN NoMerge
  BY DEF TypeOK, NoMerge
<1>2. /\ merge'[w] = new /\ DOMAIN merge' = Workers /\ lock' = w /\ lock = NoWorker
      /\ \A v \in Workers : v # w => merge'[v] = merge[v]
      /\ merge[w].phase = "waiting"
  BY DEF TypeOK, acquireFindingLifecycleLock, LockIsFree
<1> HIDE DEF new
<1>3. TypeOK'
  <2>1. \A v \in Workers :
       /\ DOMAIN merge'[v] = DOMAIN NoMerge
       /\ merge'[v].phase \in {"idle", "waiting", "merging"}
       /\ lock' = v <=> merge'[v].phase = "merging"
       /\ merge'[v].run \in IF merge'[v].phase = "idle" THEN {0} ELSE RunIds
       /\ DOMAIN merge'[v].observed \subseteq Streams
       /\ \A s \in DOMAIN merge'[v].observed : merge'[v].observed[s] \in Observation
       /\ merge'[v].suppressed \in Policies
       /\ merge'[v].read \in Records /\ merge'[v].marks \in [Streams -> Times]
    BY <1>1, <1>2, LifecycleAssumption DEF TypeOK
  <2> QED BY <2>1, <1>2 DEF TypeOK, acquireFindingLifecycleLock
<1>4. Underway'
  BY <1>1, <1>2 DEF Underway, acquireFindingLifecycleLock
<1>5. ReadIsStored'
  BY <1>1, <1>2 DEF ReadIsStored, SameButTicket, Shapes, acquireFindingLifecycleLock
<1> QED BY <1>3, <1>4, <1>5, DecisionsStay DEF acquireFindingLifecycleLock

(* A handler gives up its merge, and the lock if it has it. *)
LEMMA FinishFacts ==
  ASSUME IInv, NEW w \in Workers, Finish(w)
  PROVE  /\ merge'[w] = NoMerge /\ DOMAIN merge' = Workers
         /\ \A v \in Workers : v # w => merge'[v] = merge[v]
         /\ lock' \in Workers \cup {NoWorker} /\ lock' # w
         /\ \A v \in Workers : v # w => (lock' = v <=> lock = v)
         /\ merge[w].phase = "merging" => \A v \in Workers : merge'[v].phase # "merging"
BY LifecycleAssumption, NoMergeFacts DEF IInv, TypeOK, Finish

LEMMA FinishTypes ==
  ASSUME IInv, NEW w \in Workers, Finish(w)
  PROVE  \A v \in Workers :
       /\ DOMAIN merge'[v] = DOMAIN NoMerge
       /\ merge'[v].phase \in {"idle", "waiting", "merging"}
       /\ lock' = v <=> merge'[v].phase = "merging"
       /\ merge'[v].run \in IF merge'[v].phase = "idle" THEN {0} ELSE RunIds
       /\ DOMAIN merge'[v].observed \subseteq Streams
       /\ \A s \in DOMAIN merge'[v].observed : merge'[v].observed[s] \in Observation
       /\ merge'[v].suppressed \in Policies
       /\ merge'[v].read \in Records /\ merge'[v].marks \in [Streams -> Times]
BY FinishFacts, NoMergeFacts DEF IInv, TypeOK

LEMMA FailStep ==
  ASSUME IInv, NEW w \in Workers, mergeFails(w)
  PROVE  IInv'
<1>1. Finish(w)
  BY DEF mergeFails
<1>2. TypeOK'
  BY <1>1, FinishFacts, FinishTypes DEF IInv, TypeOK, mergeFails
<1>3. Underway' /\ ReadIsStored'
  BY <1>1, FinishFacts, NoMergeFacts DEF IInv, Underway, ReadIsStored, SameButTicket, mergeFails
<1> QED BY <1>2, <1>3, DecisionsStay DEF IInv, mergeFails

-----------------------------------------------------------------------------
(* The end of a merge. *)

LEMMA DecidedFacts == NewestRunDecides <=> \A s \in Streams : Decided(s)
BY DEF NewestRunDecides, Decided, Lost

(* What the merge works on. *)
LEMMA MergingFacts ==
  ASSUME IInv, NEW w \in Workers, merge[w].phase = "merging"
  PROVE  LET obs == merge[w].observed
             n   == merge[w].run
         IN  /\ n \in RunIds /\ n \in Nat /\ n # 0 /\ runs[n].trusted
             /\ obs \in mergeObservations(runs[n].parts)
             /\ runs[n].parts \in Seq(Part)
             /\ DOMAIN obs \subseteq Streams
             /\ Accepted(w) \in SUBSET DOMAIN obs
             /\ \A s \in Streams : s \in DOMAIN obs <=> PartsOf(runs[n].parts, s) # {}
             /\ \A s \in Streams : s \in Accepted(w) <=> s \in DOMAIN obs /\ mark[s] <= n
<1> DEFINE obs == merge[w].observed
           n   == merge[w].run
<1>1. n \in RunIds /\ n \in Nat /\ n # 0
  BY LifecycleAssumption DEF IInv, TypeOK, RunIds
<1>2. runs[n].trusted /\ obs \in mergeObservations(runs[n].parts)
  BY DEF IInv, Underway
<1>3. runs[n].parts \in Seq(Part)
  BY <1>1, RunParts DEF IInv
<1>4. DOMAIN obs = {runs[n].parts[i].stream : i \in DOMAIN runs[n].parts}
  BY <1>2, <1>3, ObservationFacts
<1>5. DOMAIN obs \subseteq Streams
  BY <1>2, <1>3, ObservationType
<1>6. \A s \in Streams : s \in DOMAIN obs <=> PartsOf(runs[n].parts, s) # {}
  BY <1>4 DEF PartsOf
<1>7. merge[w].marks = mark /\ \A s \in Streams : mark[s] \in Nat
  BY LifecycleAssumption DEF IInv, ReadIsStored, TypeOK, Times
<1>8. \A s \in Streams : s \in Accepted(w) <=> s \in DOMAIN obs /\ mark[s] <= n
  BY <1>1, <1>7 DEF Accepted, Fresh
<1> QED BY <1>1, <1>2, <1>3, <1>5, <1>6, <1>8 DEF Accepted

(* A stream that the merge of run n does not decide stays decided. *)
LEMMA DecidedStays ==
  ASSUME IInv, UNCHANGED runs, NEW s \in Streams, mark'[s] = mark[s],
         NEW n \in RunIds, hist'.merged = hist.merged \cup {n},
         PartsOf(runs[n].parts, s) # {} => n <= mark[s] /\ runs[n].trusted,
         Reported(s)' \subseteq Reported(s),
         Reported(s) \cup Lost(s) \subseteq Reported(s)' \cup Lost(s)'
  PROVE  Decided(s)'
<1> DEFINE merged == {m \in hist.merged : PartsOf(runs[m].parts, s) # {}}
           more   == {m \in hist'.merged : PartsOf(runs'[m].parts, s) # {}}
<1>1. /\ mark[s] \in merged \cup {0} /\ \A m \in merged : m <= mark[s] /\ runs[m].trusted
      /\ mark[s] # 0 =>
           \E obs \in mergeObservations(runs[mark[s]].parts) :
             /\ obs[s].findings \subseteq Reported(s) \cup Lost(s)
             /\ obs[s].complete => Reported(s) \subseteq obs[s].findings
  BY DecidedFacts DEF IInv, Decided
<1>2. \A m \in more : m \in merged \/ (m = n /\ PartsOf(runs[n].parts, s) # {})
  OBVIOUS
<1>3. merged \subseteq more
  OBVIOUS
<1> HIDE DEF merged
<1>4. mark'[s] \in more \cup {0}
  BY <1>1, <1>3
<1>5. \A m \in more : m <= mark'[s] /\ runs'[m].trusted
  BY <1>1, <1>2
<1>6. mark'[s] # 0 =>
        \E obs \in mergeObservations(runs'[mark'[s]].parts) :
          /\ obs[s].findings \subseteq Reported(s)' \cup Lost(s)'
          /\ obs[s].complete => Reported(s)' \subseteq obs[s].findings
  <2>1. SUFFICES ASSUME mark[s] # 0
                 PROVE  \E obs \in mergeObservations(runs[mark[s]].parts) :
                          /\ obs[s].findings \subseteq Reported(s)' \cup Lost(s)'
                          /\ obs[s].complete => Reported(s)' \subseteq obs[s].findings
    OBVIOUS
  <2>2. PICK obs \in mergeObservations(runs[mark[s]].parts) :
          /\ obs[s].findings \subseteq Reported(s) \cup Lost(s)
          /\ obs[s].complete => Reported(s) \subseteq obs[s].findings
    BY <1>1, <2>1
  <2>3. /\ obs[s].findings \subseteq Reported(s)' \cup Lost(s)'
        /\ obs[s].complete => Reported(s)' \subseteq obs[s].findings
    BY <2>2
  <2> QED BY <2>3
<1> QED BY <1>4, <1>5, <1>6 DEF Decided

LEMMA SkipStep ==
  ASSUME IInv, NEW w \in Workers, skipStale(w)
  PROVE  IInv'
<1> DEFINE n == merge[w].run
<1>1. /\ merge[w].phase = "merging" /\ Accepted(w) = {} /\ Finish(w)
      /\ hist' = [hist EXCEPT !.merged = @ \cup {n}]
      /\ UNCHANGED <<runs, policy, record, mark, capacity, bounds>>
  BY DEF skipStale
<1>2. /\ n \in RunIds /\ n \in Nat /\ runs[n].trusted
      /\ \A s \in Streams : PartsOf(runs[n].parts, s) # {} => ~(mark[s] <= n)
  BY <1>1, MergingFacts
<1>3. hist'.merged = hist.merged \cup {n} /\ hist'.lost = hist.lost
      /\ hist' \in [merged : SUBSET RunIds, lost : SUBSET (Fingerprints \X Streams)]
  BY <1>1, <1>2 DEF IInv, TypeOK
<1>4. TypeOK'
  BY <1>1, <1>3, FinishFacts, FinishTypes DEF IInv, TypeOK
<1>5. Underway' /\ ReadIsStored'
  BY <1>1, FinishFacts, NoMergeFacts DEF IInv, Underway, ReadIsStored, SameButTicket
<1>6. Shapes' /\ MergedAreTrusted'
  BY <1>1, <1>2, <1>3 DEF IInv, Shapes, MergedAreTrusted
<1>7. ASSUME NEW s \in Streams PROVE Decided(s)'
  <2>1. mark[s] \in Nat
    BY LifecycleAssumption DEF IInv, TypeOK, Times
  <2>2. PartsOf(runs[n].parts, s) # {} => n <= mark[s] /\ runs[n].trusted
    BY <1>2, <2>1
  <2>3. Reported(s)' = Reported(s) /\ Lost(s)' = Lost(s)
    BY <1>1, <1>3 DEF Reported, Lost
  <2> QED BY <1>1, <1>2, <1>3, <2>2, <2>3, DecidedStays
<1>8. NewestRunDecides'
  BY <1>7 DEF NewestRunDecides, Decided, Lost
<1> QED BY <1>4, <1>5, <1>6, <1>8 DEF IInv

(* The merged records, before the bound. *)
LEMMA MergedFacts ==
  ASSUME IInv, NEW w \in Workers, merge[w].phase = "merging", NEW f \in Fingerprints
  PROVE  LET m == Merged(w)[f] IN
         /\ m \in Record /\ Shape(m)
         /\ m.streams = Reporting(record[f], f, merge[w].observed, Accepted(w))
         /\ SameButTicket(merge[w].read[f], record[f])
         /\ merge[w].read[f] \in Record
         /\ record[f].status # "absent" => m.status # "absent"
         /\ record[f].streams \cap m.streams # {} => m.opened = record[f].opened
<1> DEFINE r == merge[w].read[f]
           obs == merge[w].observed
           n == merge[w].run
           accepted == Accepted(w)
           suppressed == merge[w].suppressed
           m == Observed(r, f, n, obs, accepted, suppressed)
<1>1. r \in Record
  BY DEF IInv, TypeOK, Records
<1>2. SameButTicket(r, record[f]) /\ Shape(r)
  BY DEF IInv, ReadIsStored
<1>3. n \in RunIds /\ DOMAIN obs \subseteq Streams /\ accepted \in SUBSET DOMAIN obs
  BY MergingFacts
<1>4. Merged(w)[f] = m
  BY DEF Merged
<1> HIDE DEF r, obs, n, accepted, suppressed
<1>5. /\ m \in Record /\ Shape(m)
      /\ m.streams = Reporting(r, f, obs, accepted)
      /\ r.status # "absent" => m.status # "absent"
      /\ r.status # "absent" /\ ~NewEpisode(r, f, obs, accepted) => m.opened = r.opened
  <2>1. r \in Record /\ Shape(r) /\ f \in Fingerprints /\ n \in RunIds
    BY <1>1, <1>2, <1>3
  <2>2. DOMAIN obs \subseteq Streams
    BY <1>3
  <2>3. accepted \in SUBSET DOMAIN obs
    BY <1>3
  <2>4. m \in Record
    BY ONLY <2>1, <2>2, <2>3, ObservedFacts DEF m
  <2>5. Shape(m)
    BY ONLY <2>1, <2>2, <2>3, ObservedFacts DEF m
  <2>6. m.streams = Reporting(r, f, obs, accepted)
    BY ONLY <2>1, <2>2, <2>3, ObservedFacts DEF m
  <2>7. /\ r.status # "absent" => m.status # "absent"
        /\ r.status # "absent" /\ ~NewEpisode(r, f, obs, accepted) => m.opened = r.opened
    BY ONLY <2>1, <2>2, <2>3, ObservedFacts DEF m
  <2> QED BY <2>4, <2>5, <2>6, <2>7
<1> HIDE DEF m
<1> USE DEF r, obs, n, accepted
<1>6. Reporting(r, f, obs, Accepted(w)) = Reporting(record[f], f, obs, Accepted(w))
  BY <1>2 DEF Reporting, SameButTicket
<1>7. ASSUME record[f].streams \cap m.streams # {} PROVE m.opened = record[f].opened
  <2>1. PICK s \in r.streams : s \in Reporting(r, f, obs, Accepted(w))
    BY <1>2, <1>5, <1>7 DEF SameButTicket
  <2>2. ~NewEpisode(r, f, obs, Accepted(w))
    BY <2>1, SteadyEpisode
  <2>3. r.status # "absent"
    BY <1>2, <2>1 DEF Shape
  <2> QED BY <1>2, <1>5, <2>2, <2>3 DEF SameButTicket
<1> QED BY <1>1, <1>2, <1>4, <1>5, <1>6, <1>7 DEF SameButTicket

(* What the write leaves behind: the merged records but for the retired and *)
(* the dropped ones, and the tickets that are stored.                       *)
Saved(w, retired, dropped) ==
  /\ \A f \in retired : Merged(w)[f].streams = {} /\ Merged(w)[f].status = "fixed"
  /\ \A f \in Fingerprints :
       /\ record'[f] \in Record /\ Shape(record'[f])
       /\ f \in retired \cup dropped => record'[f].status = "absent"
       /\ f \notin retired \cup dropped => SameButTicket(record'[f], Merged(w)[f])
       /\ record[f].status # "absent" /\ record'[f].status # "absent" =>
            record'[f].ticket = record[f].ticket
  /\ capacity'.dropped = capacity.dropped + Cardinality(dropped)
  /\ capacity'.last = Cardinality(dropped)
  /\ capacity' \in [dropped : Nat, last : Nat, lastSevere : Nat]
  /\ hist'.merged = hist.merged \cup {merge[w].run}
  /\ hist' \in [merged : SUBSET RunIds, lost : SUBSET (Fingerprints \X Streams)]
  /\ \A f \in Fingerprints, s \in Streams :
       (<<f, s>> \in hist.lost \/ (f \in dropped /\ s \in Merged(w)[f].streams))
         /\ s \notin record'[f].streams => <<f, s>> \in hist'.lost

LEMMA SaveFacts ==
  ASSUME IInv, NEW w \in Workers, saveFindingLifecycle(w)
  PROVE  \E retired, dropped \in SUBSET Fingerprints : Saved(w, retired, dropped)
<1> DEFINE me == merge[w]
           M  == Merged(w)
<1>1. me.phase = "merging"
  BY DEF saveFindingLifecycle
<1>2. PICK retired \in Retired(M) : \E dropped \in Dropped(Without(M, retired)) :
       LET kept == Without(M, retired \cup dropped) IN
       /\ record' = [f \in Fingerprints |->
            CASE kept[f] = me.read[f] -> record[f]
              [] kept[f] # me.read[f] /\ f \in Known(kept) -> Upserted(kept[f], f)
              [] OTHER -> Absent]
       /\ capacity' = [dropped |-> capacity.dropped + Cardinality(dropped),
                       last |-> Cardinality(dropped),
                       lastSevere |-> Cardinality(dropped \cap OpenSevere(M))]
       /\ hist' = [merged |-> hist.merged \cup {me.run},
                   lost |-> {p \in hist.lost \cup {q \in dropped \X Streams : q[2] \in M[q[1]].streams} :
                               p[2] \notin kept[p[1]].streams}]
  BY DEF saveFindingLifecycle
<1>3. PICK dropped \in Dropped(Without(M, retired)) :
       LET kept == Without(M, retired \cup dropped) IN
       /\ record' = [f \in Fingerprints |->
            CASE kept[f] = me.read[f] -> record[f]
              [] kept[f] # me.read[f] /\ f \in Known(kept) -> Upserted(kept[f], f)
              [] OTHER -> Absent]
       /\ capacity' = [dropped |-> capacity.dropped + Cardinality(dropped),
                       last |-> Cardinality(dropped),
                       lastSevere |-> Cardinality(dropped \cap OpenSevere(M))]
       /\ hist' = [merged |-> hist.merged \cup {me.run},
                   lost |-> {p \in hist.lost \cup {q \in dropped \X Streams : q[2] \in M[q[1]].streams} :
                               p[2] \notin kept[p[1]].streams}]
  BY <1>2
<1> DEFINE kept == Without(M, retired \cup dropped)
<1>4. retired \in SUBSET Fingerprints /\ \A f \in retired : M[f].status = "fixed"
  BY DEF Retired, Known
<1>5. dropped \in SUBSET Fingerprints
  BY DEF Dropped, Known
<1>6. ASSUME NEW f \in Fingerprints
      PROVE  /\ M[f] \in Record /\ Shape(M[f]) /\ SameButTicket(me.read[f], record[f])
             /\ me.read[f] \in Record
             /\ record[f] \in Record /\ Shape(record[f])
  BY <1>1, MergedFacts DEF IInv, TypeOK, Records, Shapes
<1>7. \A f \in retired : M[f].streams = {} /\ M[f].status = "fixed"
  BY <1>4, <1>6 DEF Shape
<1> HIDE DEF M
<1>8. ASSUME NEW f \in Fingerprints
      PROVE  /\ f \in retired \cup dropped => kept[f] = Absent
             /\ f \notin retired \cup dropped => kept[f] = M[f]
             /\ kept[f] \in Record /\ Shape(kept[f])
  BY <1>6, AbsentFacts DEF Without
<1>9. ASSUME NEW f \in Fingerprints
      PROVE  /\ record'[f] \in Record /\ Shape(record'[f])
             /\ SameButTicket(record'[f], kept[f])
             /\ record[f].status # "absent" /\ record'[f].status # "absent" =>
                  record'[f].ticket = record[f].ticket
  <2>1. record'[f] = CASE kept[f] = me.read[f] -> record[f]
              [] kept[f] # me.read[f] /\ f \in Known(kept) -> Upserted(kept[f], f)
              [] OTHER -> Absent
    BY <1>3
  <2>2. f \in Known(kept) <=> kept[f].status # "absent"
    BY DEF Known
  <2> HIDE DEF kept
  <2>3. CASE kept[f] = me.read[f]
    <3>1. record'[f] = record[f]
      BY <2>1, <2>3
    <3> QED BY <2>3, <3>1, <1>6 DEF SameButTicket
  <2>4. CASE kept[f] # me.read[f] /\ f \in Known(kept)
    <3>1. record'[f] = Upserted(kept[f], f)
      BY <2>1, <2>4
    <3>2. CASE record[f].status = "absent"
      <4>1. record'[f] = kept[f]
        BY <3>1, <3>2 DEF Upserted
      <4> QED BY <1>8, <3>2, <4>1 DEF SameButTicket
    <3>3. CASE record[f].status # "absent"
      <4>1. record'[f] = [kept[f] EXCEPT !.ticket = record[f].ticket]
        BY <3>1, <3>3 DEF Upserted
      <4>2. /\ record'[f] \in Record /\ SameButTicket(record'[f], kept[f])
            /\ record'[f].ticket = record[f].ticket
        BY <4>1, <1>6, <1>8 DEF Record, SameButTicket
      <4>3. Shape(record'[f])
        BY <4>2, <1>8, <2>2, <2>4 DEF Shape, SameButTicket
      <4> QED BY <4>2, <4>3
    <3> QED BY <3>2, <3>3
  <2>5. CASE kept[f] # me.read[f] /\ f \notin Known(kept)
    <3>1. record'[f] = Absent /\ kept[f].status = "absent"
      BY <2>1, <2>2, <2>5
    <3>2. kept[f] = Absent
      BY <3>1, <1>8 DEF Shape
    <3> QED BY <3>1, <3>2, AbsentFacts DEF SameButTicket
  <2> QED BY <2>3, <2>4, <2>5
<1>10. ASSUME NEW f \in Fingerprints
       PROVE  /\ f \in retired \cup dropped => record'[f].status = "absent"
              /\ f \notin retired \cup dropped => SameButTicket(record'[f], M[f])
  BY <1>8, <1>9, AbsentFacts DEF SameButTicket
<1>11. capacity' \in [dropped : Nat, last : Nat, lastSevere : Nat]
  <2>1. IsFiniteSet(dropped) /\ IsFiniteSet(dropped \cap OpenSevere(M))
    BY <1>5, LifecycleAssumption, FS_Subset
  <2>2. Cardinality(dropped) \in Nat /\ Cardinality(dropped \cap OpenSevere(M)) \in Nat
    BY <2>1, FS_CardinalityType
  <2> QED BY <2>2, <1>3 DEF IInv, TypeOK
<1>12. hist' \in [merged : SUBSET RunIds, lost : SUBSET (Fingerprints \X Streams)]
  <2>1. me.run \in RunIds
    BY <1>1, MergingFacts
  <2>2. hist.merged \cup {me.run} \in SUBSET RunIds
    BY <2>1 DEF IInv, TypeOK
  <2>3. {p \in hist.lost \cup {q \in dropped \X Streams : q[2] \in M[q[1]].streams} :
           p[2] \notin kept[p[1]].streams} \in SUBSET (Fingerprints \X Streams)
    BY <1>5 DEF IInv, TypeOK
  <2> QED BY <2>2, <2>3, <1>3
<1>13. ASSUME NEW f \in Fingerprints, NEW s \in Streams,
              <<f, s>> \in hist.lost \/ (f \in dropped /\ s \in M[f].streams),
              s \notin record'[f].streams
       PROVE  <<f, s>> \in hist'.lost
  <2>1. s \notin kept[f].streams
    BY <1>9, <1>13 DEF SameButTicket
  <2>2. hist'.lost = {p \in hist.lost \cup {q \in dropped \X Streams : q[2] \in M[q[1]].streams} :
                        p[2] \notin kept[p[1]].streams}
    BY <1>3
  <2> HIDE DEF kept
  <2> QED BY <1>13, <2>1, <2>2
<1>14. /\ capacity'.dropped = capacity.dropped + Cardinality(dropped)
       /\ capacity'.last = Cardinality(dropped)
       /\ hist'.merged = hist.merged \cup {me.run}
  BY <1>3
<1> HIDE DEF kept
<1>15. Saved(w, retired, dropped)
  BY <1>7, <1>9, <1>10, <1>11, <1>12, <1>13, <1>14 DEF M, Saved
<1> QED BY <1>4, <1>5, <1>15

LEMMA SaveStep ==
  ASSUME IInv, NEW w \in Workers, saveFindingLifecycle(w)
  PROVE  IInv'
<1> DEFINE n   == merge[w].run
           obs == merge[w].observed
           M   == Merged(w)
<1>1. /\ merge[w].phase = "merging" /\ Finish(w)
      /\ mark' = [s \in Streams |-> IF s \in Accepted(w) THEN n ELSE mark[s]]
      /\ UNCHANGED <<runs, policy, bounds>>
  BY DEF saveFindingLifecycle
<1>a. PICK retired, dropped \in SUBSET Fingerprints : Saved(w, retired, dropped)
  BY SaveFacts
<1>2. /\ \A f \in retired : M[f].streams = {} /\ M[f].status = "fixed"
      /\ \A f \in Fingerprints :
           /\ record'[f] \in Record /\ Shape(record'[f])
           /\ f \in retired \cup dropped => record'[f].status = "absent"
           /\ f \notin retired \cup dropped => SameButTicket(record'[f], M[f])
           /\ record[f].status # "absent" /\ record'[f].status # "absent" =>
                record'[f].ticket = record[f].ticket
      /\ capacity'.dropped = capacity.dropped + Cardinality(dropped)
      /\ capacity'.last = Cardinality(dropped)
      /\ capacity' \in [dropped : Nat, last : Nat, lastSevere : Nat]
      /\ hist'.merged = hist.merged \cup {n}
      /\ hist' \in [merged : SUBSET RunIds, lost : SUBSET (Fingerprints \X Streams)]
      /\ \A f \in Fingerprints, s \in Streams :
           (<<f, s>> \in hist.lost \/ (f \in dropped /\ s \in M[f].streams))
             /\ s \notin record'[f].streams => <<f, s>> \in hist'.lost
  BY <1>a DEF Saved
<1>3. /\ n \in RunIds /\ n \in Nat /\ n # 0 /\ runs[n].trusted
      /\ obs \in mergeObservations(runs[n].parts)
      /\ runs[n].parts \in Seq(Part)
      /\ \A s \in Streams : s \in DOMAIN obs <=> PartsOf(runs[n].parts, s) # {}
      /\ \A s \in Streams : s \in Accepted(w) <=> s \in DOMAIN obs /\ mark[s] <= n
  BY <1>1, MergingFacts
<1>4. \A f \in Fingerprints : M[f].streams = Reporting(record[f], f, obs, Accepted(w))
  BY <1>1, MergedFacts
<1>5. \A f \in Fingerprints, s \in Streams :
        s \in record'[f].streams <=> f \notin dropped /\ s \in M[f].streams
  BY <1>2 DEF Shape, SameButTicket
<1>6. TypeOK'
  <2>1. record' \in Records
    <3>1. DOMAIN record' = Fingerprints /\ record' = [f \in Fingerprints |-> record'[f]]
      BY DEF saveFindingLifecycle
    <3> QED BY <1>2, <3>1 DEF Records
  <2>2. mark' \in [Streams -> Times]
    BY <1>1, <1>3, LifecycleAssumption DEF IInv, TypeOK, Times, RunIds
  <2> QED BY <1>1, <1>2, <2>1, <2>2, FinishFacts, FinishTypes DEF IInv, TypeOK
<1>7. Underway' /\ ReadIsStored'
  BY <1>1, FinishFacts, NoMergeFacts DEF IInv, Underway, ReadIsStored, SameButTicket
<1>8. Shapes' /\ MergedAreTrusted'
  BY <1>1, <1>2, <1>3 DEF IInv, Shapes, MergedAreTrusted
<1>9. ASSUME NEW s \in Streams PROVE Decided(s)'
  <2> HIDE DEF M
  <2>1. /\ \A f \in Fingerprints : f \in Reported(s)' <=> f \notin dropped /\ s \in M[f].streams
        /\ \A f \in Fingerprints : f \in Lost(s)' <=> <<f, s>> \in hist'.lost
        /\ \A f \in Fingerprints : f \in Reported(s) <=> s \in record[f].streams
        /\ \A f \in Fingerprints : f \in Lost(s) <=> <<f, s>> \in hist.lost
        /\ Reported(s) \subseteq Fingerprints /\ Lost(s) \subseteq Fingerprints
        /\ Reported(s)' \subseteq Fingerprints /\ Lost(s)' \subseteq Fingerprints
    BY <1>5 DEF Reported, Lost
  <2>2. \A f \in Fingerprints : (f \in Lost(s) \/ s \in M[f].streams) => f \in Reported(s)' \cup Lost(s)'
    BY <1>2, <1>5, <2>1
  <2>3. CASE s \notin Accepted(w)
    <3>1. \A f \in Fingerprints : s \in M[f].streams <=> s \in record[f].streams
      BY <1>4, <2>3 DEF Reporting
    <3>2. /\ Reported(s)' \subseteq Reported(s)
          /\ Reported(s) \cup Lost(s) \subseteq Reported(s)' \cup Lost(s)'
      BY <2>1, <2>2, <3>1
    <3>3. mark'[s] = mark[s] /\ mark[s] \in Nat
      BY <1>1, <2>3, LifecycleAssumption DEF IInv, TypeOK, Times
    <3>4. PartsOf(runs[n].parts, s) # {} => n <= mark[s] /\ runs[n].trusted
      BY <1>3, <2>3, <3>3
    <3>5. UNCHANGED runs /\ hist'.merged = hist.merged \cup {n} /\ n \in RunIds
      BY <1>1, <1>2, <1>3
    <3> HIDE DEF n
    <3> QED BY <3>2, <3>3, <3>4, <3>5, DecidedStays
  <2>4. CASE s \in Accepted(w)
    <3> DEFINE merged == {m \in hist.merged : PartsOf(runs[m].parts, s) # {}}
               more   == {m \in hist'.merged : PartsOf(runs'[m].parts, s) # {}}
    <3>1. /\ \A m \in merged : m <= mark[s] /\ runs[m].trusted
          /\ \A m \in merged : m \in Nat
          /\ mark[s] \in Nat
      <4>1. Decided(s)
        BY DecidedFacts DEF IInv
      <4>2. mark[s] \in Nat /\ hist.merged \subseteq Nat
        BY LifecycleAssumption DEF IInv, TypeOK, RunIds, Times
      <4> QED BY <4>1, <4>2 DEF Decided
    <3>2. mark'[s] = n /\ mark[s] <= n /\ s \in DOMAIN obs
      BY <1>1, <1>3, <2>4
    <3>3. more = merged \cup {n}
      BY <1>1, <1>2, <1>3, <3>2
    <3> HIDE DEF merged, more
    <3>4. \A m \in more : m <= mark'[s] /\ runs'[m].trusted
      BY <1>1, <1>3, <3>1, <3>2, <3>3
    <3>5. \A f \in Fingerprints :
            /\ f \in obs[s].findings => s \in M[f].streams
            /\ s \in M[f].streams /\ obs[s].complete => f \in obs[s].findings
      BY <1>4, <2>4 DEF Reporting
    <3>6. obs[s].findings \subseteq Fingerprints
      BY <1>3, <3>2, ObservationFacts
    <3>7. /\ obs[s].findings \subseteq Reported(s)' \cup Lost(s)'
          /\ obs[s].complete => Reported(s)' \subseteq obs[s].findings
      BY <2>1, <2>2, <3>5, <3>6
    <3>8. obs \in mergeObservations(runs'[mark'[s]].parts)
      BY <1>1, <1>3, <3>2
    <3>9. mark'[s] \in more
      BY <3>2, <3>3
    <3> HIDE DEF obs
    <3> QED BY <3>4, <3>7, <3>8, <3>9 DEF Decided, more
  <2> QED BY <2>3, <2>4
<1>10. NewestRunDecides'
  BY <1>9 DEF NewestRunDecides, Decided, Lost
<1> QED BY <1>6, <1>7, <1>8, <1>10 DEF IInv

-----------------------------------------------------------------------------
(* The theorems. *)

LEMMA Step == IInv /\ [Next]_vars => IInv'
<1> SUFFICES ASSUME IInv, [Next]_vars PROVE IInv'
  OBVIOUS
<1>1. ASSUME NEW n \in RunIds, completeRun(n) PROVE IInv'
  BY <1>1, RunStep
<1>2. CASE changePolicy
  BY <1>2, PolicyStep
<1>3. ASSUME NEW f \in Fingerprints, NEW state \in {"open", "closed"},
             completeFindingTicketClaim(f, state)
      PROVE  IInv'
  BY <1>3, TicketStep
<1>4. ASSUME NEW w \in Workers, NEW n \in RunIds, beginMerge(w, n) PROVE IInv'
  BY <1>4, BeginStep
<1>5. ASSUME NEW w \in Workers,
             acquireFindingLifecycleLock(w) \/ saveFindingLifecycle(w) \/ skipStale(w) \/ mergeFails(w)
      PROVE  IInv'
  BY <1>5, AcquireStep, SaveStep, SkipStep, FailStep
<1>6. CASE UNCHANGED vars
  <2>1. TypeOK'
    BY <1>6 DEF IInv, TypeOK, vars
  <2> QED BY <1>6, <2>1, MergesStay, DecisionsStay DEF IInv, vars
<1> QED BY <1>1, <1>2, <1>3, <1>4, <1>5, <1>6 DEF Next

LEMMA Invariance == Spec => []IInv
BY Initially, Step, PTL DEF Spec

(* The variables keep their types: the lock and the phases agree, and the   *)
(* capacity counters of finding_lifecycle_state are natural numbers.        *)
THEOREM TypeCorrect == Spec => []TypeOK
<1>1. IInv => TypeOK
  BY DEF IInv
<1> QED BY <1>1, Invariance, PTL

(* However runs are ordered, repeated and interleaved, a stream says what   *)
(* the newest merged run of it says (ingestFindingObservations).            *)
THEOREM NewestRunDecidesTheorem == Spec => []NewestRunDecides
<1>1. IInv => NewestRunDecides
  BY DEF IInv
<1> QED BY <1>1, Invariance, PTL

(* Only ticket passes and the write of a merge change a record. *)
LEMMA RecordChanges ==
  ASSUME [Next]_vars, record' # record
  PROVE  \/ \E f \in Fingerprints, state \in {"open", "closed"} :
              completeFindingTicketClaim(f, state)
         \/ \E w \in Workers : saveFindingLifecycle(w)
BY DEF Next, vars, completeRun, changePolicy, beginMerge, acquireFindingLifecycleLock, skipStale,
       mergeFails

(* A finding that a merge leaves without a stream was looked for, and not   *)
(* found, by a complete scan of every stream that had reported it.          *)
LEMMA NoStreamLeft ==
  ASSUME IInv, NEW w \in Workers, saveFindingLifecycle(w), NEW f \in Fingerprints,
         Merged(w)[f].streams = {}, NEW s \in record[f].streams
  PROVE  /\ mark'[s] = merge[w].run /\ f \notin AllOf(runs[merge[w].run].parts, s)
         /\ \A i \in PartsOf(runs[merge[w].run].parts, s) : runs[merge[w].run].parts[i].complete
<1> DEFINE n   == merge[w].run
           obs == merge[w].observed
<1>1. merge[w].phase = "merging" /\ mark' = [t \in Streams |-> IF t \in Accepted(w) THEN n ELSE mark[t]]
  BY DEF saveFindingLifecycle
<1>2. s \in Streams
  BY DEF IInv, TypeOK, Records, Record
<1>3. Reporting(record[f], f, obs, Accepted(w)) = {}
  BY <1>1, MergedFacts
<1>4. s \in Accepted(w) /\ f \notin obs[s].findings /\ obs[s].complete
  BY <1>3 DEF Reporting
<1>5. /\ obs \in mergeObservations(runs[n].parts) /\ runs[n].parts \in Seq(Part)
      /\ s \in DOMAIN obs
  BY <1>1, <1>4, MergingFacts
<1>6. obs[s].findings = AllOf(runs[n].parts, s) /\ Complete(runs[n].parts, s)
  <2> HIDE DEF n, obs
  <2>1. obs[s].complete = Complete(runs[n].parts, s)
    BY <1>5, ObservationFacts
  <2>2. obs[s].complete => obs[s].findings = AllOf(runs[n].parts, s)
    BY <1>5, ObservationFacts
  <2> QED BY <1>4, <2>1, <2>2
<1> QED BY <1>1, <1>2, <1>4, <1>6 DEF Complete

(* A finding becomes fixed only by complete scans, without it, of every     *)
(* stream that reported it, or else the bound took its record away          *)
(* (mergeObservations, applyObservation).                                   *)
THEOREM FixNeedsCompleteScansTheorem == Spec => FixNeedsCompleteScans
<1> DEFINE Fix ==
      \A f \in Fingerprints :
        record[f].status \in {"open", "suppressed"} /\ record'[f].status \in {"fixed", "absent"} =>
         \/ \E n \in RunIds : \A s \in record[f].streams :
              /\ mark'[s] = n /\ f \notin AllOf(runs[n].parts, s)
              /\ \A i \in PartsOf(runs[n].parts, s) : runs[n].parts[i].complete
         \/ record'[f].status = "absent" /\ capacity'.last > 0
<1>1. ASSUME IInv, [Next]_vars PROVE Fix
  <2> SUFFICES ASSUME NEW f \in Fingerprints,
                      record[f].status \in {"open", "suppressed"},
                      record'[f].status \in {"fixed", "absent"}
               PROVE  \/ \E n \in RunIds : \A s \in record[f].streams :
                           /\ mark'[s] = n /\ f \notin AllOf(runs[n].parts, s)
                           /\ \A i \in PartsOf(runs[n].parts, s) : runs[n].parts[i].complete
                      \/ record'[f].status = "absent" /\ capacity'.last > 0
    OBVIOUS
  <2>1. record[f] \in Record /\ DOMAIN record = Fingerprints
    BY <1>1 DEF IInv, TypeOK, Records
  <2>2. ASSUME NEW g \in Fingerprints, NEW state \in {"open", "closed"},
               completeFindingTicketClaim(g, state)
        PROVE  FALSE
    <3>1. record' = [record EXCEPT ![g].ticket = state]
      BY <2>2 DEF completeFindingTicketClaim
    <3>2. record'[f].status = record[f].status
      BY <2>1, <3>1 DEF Record
    <3> QED BY <3>2
  <2>3. PICK w \in Workers : saveFindingLifecycle(w)
    <3>1. record' # record
      OBVIOUS
    <3> QED BY <1>1, <2>2, <3>1, RecordChanges
  <2>a. PICK retired, dropped \in SUBSET Fingerprints : Saved(w, retired, dropped)
    BY <1>1, <2>3, SaveFacts
  <2>4. /\ \A g \in retired : Merged(w)[g].streams = {}
        /\ \A g \in Fingerprints :
             /\ Shape(record'[g])
             /\ g \notin retired \cup dropped => SameButTicket(record'[g], Merged(w)[g])
             /\ g \in retired \cup dropped => record'[g].status = "absent"
        /\ capacity'.last = Cardinality(dropped)
    BY <2>a DEF Saved
  <2>5. CASE f \in dropped
    <3>1. IsFiniteSet(dropped) /\ dropped # {}
      BY <2>5, LifecycleAssumption, FS_Subset
    <3>2. Cardinality(dropped) \in Nat /\ Cardinality(dropped) # 0
      BY <3>1, FS_CardinalityType, FS_EmptySet
    <3>3. capacity'.last > 0
      BY <2>4, <3>2
    <3> QED BY <2>4, <2>5, <3>3
  <2>6. CASE f \notin dropped
    <3>1. Merged(w)[f].streams = {}
      BY <2>4, <2>6 DEF Shape, SameButTicket
    <3>2. merge[w].run \in RunIds
      BY <1>1, <2>3, MergingFacts DEF saveFindingLifecycle
    <3>3. \A s \in record[f].streams :
            /\ mark'[s] = merge[w].run /\ f \notin AllOf(runs[merge[w].run].parts, s)
            /\ \A i \in PartsOf(runs[merge[w].run].parts, s) : runs[merge[w].run].parts[i].complete
      BY <1>1, <2>3, <3>1, NoStreamLeft
    <3> QED BY <3>2, <3>3
  <2> QED BY <2>5, <2>6
<1>2. IInv /\ [Next]_vars => [Fix]_vars
  BY <1>1
<1>3. Spec => [][Fix]_vars
  BY <1>2, Invariance, PTL DEF Spec
<1> QED BY <1>3 DEF FixNeedsCompleteScans

(* The SLA clock of a finding goes on as long as one and the same stream    *)
(* goes on reporting it (applyObservation).                                 *)
THEOREM SlaClockIsSteadyTheorem == Spec => SlaClockIsSteady
<1> DEFINE Steady ==
      \A f \in Fingerprints :
        record[f].streams \cap record'[f].streams # {} => record'[f].opened = record[f].opened
<1>1. ASSUME IInv, [Next]_vars PROVE Steady
  <2> SUFFICES ASSUME NEW f \in Fingerprints, record[f].streams \cap record'[f].streams # {}
               PROVE  record'[f].opened = record[f].opened
    OBVIOUS
  <2>1. record[f] \in Record /\ DOMAIN record = Fingerprints
    BY <1>1 DEF IInv, TypeOK, Records
  <2>2. ASSUME NEW g \in Fingerprints, NEW state \in {"open", "closed"},
               completeFindingTicketClaim(g, state)
        PROVE  record'[f].opened = record[f].opened
    <3>1. record' = [record EXCEPT ![g].ticket = state]
      BY <2>2 DEF completeFindingTicketClaim
    <3> QED BY <2>1, <3>1 DEF Record
  <2>3. ASSUME NEW w \in Workers, saveFindingLifecycle(w)
        PROVE  record'[f].opened = record[f].opened
    <3>1. \/ record'[f].status = "absent" /\ Shape(record'[f])
          \/ SameButTicket(record'[f], Merged(w)[f])
      BY <1>1, <2>3, SaveFacts DEF Saved
    <3>2. CASE record'[f].status = "absent" /\ Shape(record'[f])
      BY <3>2, AbsentFacts DEF Shape
    <3>3. CASE SameButTicket(record'[f], Merged(w)[f])
      BY <1>1, <2>3, <3>3, MergedFacts DEF SameButTicket, saveFindingLifecycle
    <3> QED BY <3>1, <3>2, <3>3
  <2> QED BY <1>1, <2>2, <2>3, RecordChanges
<1>2. IInv /\ [Next]_vars => [Steady]_vars
  BY <1>1
<1>3. Spec => [][Steady]_vars
  BY <1>2, Invariance, PTL DEF Spec
<1> QED BY <1>3 DEF SlaClockIsSteady

(* The end of a merge leaves the tickets of the records that stay as they   *)
(* are stored (saveFindingLifecycle of the stores).                         *)
THEOREM MergesKeepTicketsTheorem == Spec => MergesKeepTickets
<1> DEFINE Keep ==
      (\E w \in Workers : merge[w].phase = "merging" /\ merge'[w].phase = "idle") =>
        \A f \in Known(record) : f \in Known(record') => record'[f].ticket = record[f].ticket
<1>1. ASSUME IInv, [Next]_vars PROVE Keep
  <2> SUFFICES ASSUME NEW v \in Workers, merge[v].phase = "merging", merge'[v].phase = "idle",
                      NEW f \in Known(record), f \in Known(record')
               PROVE  record'[f].ticket = record[f].ticket
    OBVIOUS
  <2>1. f \in Fingerprints /\ record[f].status # "absent" /\ record'[f].status # "absent"
    BY DEF Known
  <2>2. ASSUME NEW w \in Workers, saveFindingLifecycle(w)
        PROVE  record'[f].ticket = record[f].ticket
    BY <1>1, <2>1, <2>2, SaveFacts DEF Saved
  <2>3. ~ \E g \in Fingerprints, state \in {"open", "closed"} : completeFindingTicketClaim(g, state)
    BY DEF completeFindingTicketClaim
  <2> QED BY <1>1, <2>2, <2>3, RecordChanges
<1>2. IInv /\ [Next]_vars => [Keep]_vars
  BY <1>1
<1>3. Spec => [][Keep]_vars
  BY <1>2, Invariance, PTL DEF Spec
<1> QED BY <1>3 DEF MergesKeepTickets

=============================================================================
