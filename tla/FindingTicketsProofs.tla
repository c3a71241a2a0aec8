------------------------- MODULE FindingTicketsProofs -------------------------
(***************************************************************************)
(* Proofs about FindingTickets, for any findings, passes, providers and    *)
(* bounds: the state is well formed, every reference names an issue of its *)
(* finding, claims exclude, a late result is discarded, a finding has one  *)
(* issue, and the issue shows what the ticket of the finding says.         *)
(***************************************************************************)
EXTENDS FindingTickets, FiniteSetTheorems, WellFoundedInduction, TLAPS

(* A reference is empty or names an issue that was opened for f. *)
Names(issues, i, f) == i = 0 \/ (issues[i] \in Issue /\ issues[i].of = f)

(* Every reference a pass has is one of the finding it has it for. *)
PassNames(issues, q) ==
  /\ \A f \in q.work : Names(issues, q.item[f].previous.ref, f)
  /\ \A f \in Fingerprints : Names(issues, q.markers[f], f)
  /\ q.at \in Fingerprints =>
       Names(issues, q.item[q.at].previous.ref, q.at) /\ Names(issues, q.ref, q.at)

(* The strengthening TypeOK needs: an update never meets an issue that does *)
(* not exist.                                                               *)
RefsNameTheirIssue ==
  /\ \A f \in Fingerprints : Names(issue, ticket[f].ref, f)
  /\ \A p \in Passes : PassNames(issue, pass[p])

IInv == TypeOK /\ RefsNameTheirIssue

(* A pass that has not finished with a finding holds its claim, or lost it  *)
(* to a lapse or a removal; the holder of a claim was granted it last.      *)
ClaimInv ==
  /\ \A p \in Passes : \A f \in Busy(p) : claim[f].by = p \/ f \in hist.overrun
  /\ \A p \in Passes : pass[p].at \notin pass[p].work
  /\ \A f \in Fingerprints : claim[f].by # NoPass => claim[f].by = hist.last[f]

-----------------------------------------------------------------------------
(* Issues and the references to them. *)

(* No issue is taken back, and none changes hands. *)
IssuesGrow ==
  /\ issue' \in [IssueIds -> Issue \cup {NoIssue}]
  /\ \A i \in IssueIds : issue[i] \in Issue => issue'[i] \in Issue /\ issue'[i].of = issue[i].of

(* References stay good while issues grow. *)
LEMMA NamesStay ==
  ASSUME IssuesGrow, NEW f \in Fingerprints, NEW i \in Refs, Names(issue, i, f)
  PROVE  Names(issue', i, f)
BY TicketAssumption DEF IssuesGrow, Names, Refs, IssueIds

LEMMA PassNamesStay ==
  ASSUME IssuesGrow, NEW q \in Pass, PassOK(q), PassNames(issue, q)
  PROVE  PassNames(issue', q)
<1>1. ASSUME NEW f \in Fingerprints, q.item[f] \in Item, Names(issue, q.item[f].previous.ref, f)
      PROVE  Names(issue', q.item[f].previous.ref, f)
  <2>1. q.item[f].previous.ref \in Refs
    BY <1>1 DEF Item, Ticket
  <2> QED BY <1>1, <2>1, NamesStay
<1>2. ASSUME NEW f \in q.work PROVE Names(issue', q.item[f].previous.ref, f)
  <2>1. f \in Fingerprints
    BY DEF Pass
  <2>2. q.item[f] \in Item /\ Names(issue, q.item[f].previous.ref, f)
    BY DEF PassOK, PassNames
  <2> QED BY <1>1, <2>1, <2>2
<1>3. ASSUME NEW f \in Fingerprints PROVE Names(issue', q.markers[f], f)
  <2>1. q.markers[f] \in Refs
    BY DEF Pass
  <2>2. Names(issue, q.markers[f], f)
    BY DEF PassNames
  <2> QED BY <2>1, <2>2, NamesStay
<1>4. ASSUME q.at \in Fingerprints
      PROVE  Names(issue', q.item[q.at].previous.ref, q.at) /\ Names(issue', q.ref, q.at)
  <2>1. q.ref \in Refs
    BY DEF Pass
  <2>2. q.item[q.at] \in Item /\ Names(issue, q.item[q.at].previous.ref, q.at) /\ Names(issue, q.ref, q.at)
    BY <1>4 DEF PassNames, PassOK
  <2>3. Names(issue', q.ref, q.at)
    BY <1>4, <2>1, <2>2, NamesStay
  <2> QED BY <1>1, <1>4, <2>2, <2>3
<1> QED BY <1>2, <1>3, <1>4 DEF PassNames

(* Nothing happens to the issues. *)
LEMMA SameIssues ==
  ASSUME TypeOK, issue' = issue
  PROVE  IssuesGrow
BY DEF TypeOK, IssuesGrow

-----------------------------------------------------------------------------
(* What all steps of one pass have in common: if what it becomes is well    *)
(* formed, so are all passes.                                               *)
PassesOK ==
  /\ pass \in [Passes -> Pass]
  /\ \A p \in Passes : PassOK(pass[p]) /\ (lock = p <=> pass[p].phase = "listed")
  /\ \A p \in Passes : PassNames(issue, pass[p])

LEMMA OnePassMoves ==
  ASSUME PassesOK, IssuesGrow, NEW p \in Passes, NEW q \in Pass, Becomes(p, q),
         PassOK(q), PassNames(issue', q), lock' = p <=> q.phase = "listed",
         \A r \in Passes \ {p} : lock' = r <=> lock = r
  PROVE  PassesOK'
<1>1. pass' \in [Passes -> Pass] /\ pass'[p] = q /\ \A r \in Passes \ {p} : pass'[r] = pass[r]
  BY DEF PassesOK, Becomes
<1>2. \A r \in Passes : PassOK(pass'[r]) /\ (lock' = r <=> pass'[r].phase = "listed")
  BY <1>1 DEF PassesOK
<1>3. ASSUME NEW r \in Passes PROVE PassNames(issue', pass'[r])
  <2>1. CASE r = p BY <2>1, <1>1
  <2>2. CASE r # p
    <3>1. pass'[r] = pass[r] /\ pass[r] \in Pass /\ PassOK(pass[r]) /\ PassNames(issue, pass[r])
      BY <1>1, <2>2 DEF PassesOK
    <3> QED BY <3>1, PassNamesStay
  <2> QED BY <2>1, <2>2
<1>4. (\A r \in Passes : PassOK(pass[r]) /\ (lock = r <=> pass[r].phase = "listed"))'
  BY <1>2 DEF PassOK
<1>5. (\A r \in Passes : PassNames(issue, pass[r]))'
  BY <1>3
<1> QED BY <1>1, <1>4, <1>5 DEF PassesOK

(* No pass moves. *)
LEMMA NoPassMoves ==
  ASSUME PassesOK, IssuesGrow, UNCHANGED <<pass, lock>>
  PROVE  PassesOK'
<1>1. ASSUME NEW r \in Passes PROVE PassNames(issue', pass[r])
  BY PassNamesStay DEF PassesOK
<1> QED BY <1>1 DEF PassesOK, PassOK

(* The tickets keep their references. *)
LEMMA SameTickets ==
  ASSUME TypeOK, RefsNameTheirIssue, IssuesGrow, ticket' = ticket
  PROVE  \A f \in Fingerprints : Names(issue', ticket'[f].ref, f)
<1> SUFFICES ASSUME NEW f \in Fingerprints PROVE Names(issue', ticket[f].ref, f)
  OBVIOUS
<1>1. ticket[f].ref \in Refs
  BY DEF TypeOK, Ticket
<1>2. Names(issue, ticket[f].ref, f)
  BY DEF RefsNameTheirIssue
<1> QED BY <1>1, <1>2, NamesStay

(* The variables that are not about passes. *)
RestOK ==
  /\ provider \in Providers
  /\ record \in [Fingerprints -> Contents \cup {None}]
  /\ ticket \in [Fingerprints -> Ticket]
  /\ claim \in [Fingerprints -> [by : Passes \cup {NoPass}, lapsed : BOOLEAN]]
  /\ lock \in Passes \cup {NoPass}
  /\ issue \in [IssueIds -> Issue \cup {NoIssue}]
  /\ merges \in Nat
  /\ hist \in [lost : SUBSET Fingerprints, overrun : SUBSET Fingerprints, died : SUBSET Fingerprints,
               last : [Fingerprints -> Passes \cup {NoPass}]]
  /\ \A f \in Fingerprints : Names(issue, ticket[f].ref, f)

LEMMA Split == IInv <=> PassesOK /\ RestOK
BY DEF IInv, TypeOK, RefsNameTheirIssue, PassesOK, RestOK

LEMMA Joined == PassesOK' /\ RestOK' => IInv'
BY DEF IInv, TypeOK, RefsNameTheirIssue, PassesOK, RestOK

(* A step of one pass that changes nothing but the pass, and maybe issues.  *)
LEMMA RestStays ==
  ASSUME IInv, IssuesGrow, UNCHANGED <<provider, record, ticket, claim, lock, merges>>,
         hist' \in [lost : SUBSET Fingerprints, overrun : SUBSET Fingerprints, died : SUBSET Fingerprints,
                    last : [Fingerprints -> Passes \cup {NoPass}]]
  PROVE  RestOK'
<1>1. \A f \in Fingerprints : Names(issue', ticket'[f].ref, f)
  BY SameTickets DEF IInv
<1>2. issue' \in [IssueIds -> Issue \cup {NoIssue}]
  BY DEF IssuesGrow
<1> QED BY <1>1, <1>2, Split DEF RestOK

-----------------------------------------------------------------------------
(* Initially. *)

LEMMA ZeroRef == 0 \in Refs
BY TicketAssumption DEF Refs

LEMMA NoTicketType == NoTicket \in Ticket
BY ZeroRef DEF NoTicket, Ticket

(* A pass that has nothing in hand is well formed. *)
LEMMA IdleIsOK ==
  ASSUME NEW phase \in {"new", "over", "dead"}, NEW issues
  PROVE  Idle(phase) \in Pass /\ PassOK(Idle(phase)) /\ PassNames(issues, Idle(phase))
<1>1. phase \in Phases /\ phase \notin Calling
  BY DEF Phases, Calling
<1>2. Idle(phase) \in Pass
  BY <1>1, ZeroRef DEF Pass, Idle
<1>3. PassOK(Idle(phase))
  BY <1>1, TicketAssumption DEF PassOK, Idle
<1>4. PassNames(issues, Idle(phase))
  BY TicketAssumption DEF PassNames, Names, Idle
<1> QED BY <1>2, <1>3, <1>4

LEMMA Initially == Init => IInv
<1> SUFFICES ASSUME Init PROVE IInv
  OBVIOUS
<1>1. PassesOK
  BY IdleIsOK, TicketAssumption DEF Init, PassesOK, Idle
<1>2. RestOK
  BY NoTicketType, TicketAssumption DEF Init, RestOK, Names, NoTicket, NoClaim
<1> QED BY <1>1, <1>2, Split

-----------------------------------------------------------------------------
(* Merges, people and time. *)

LEMMA MergeStep ==
  ASSUME IInv, NEW f \in Fingerprints, NEW c \in Contents \cup {None}, saveFindingLifecycle(f, c)
  PROVE  IInv'
<1>1. IssuesGrow
  BY SameIssues DEF IInv, saveFindingLifecycle
<1>2. PassesOK'
  BY <1>1, NoPassMoves, Split DEF saveFindingLifecycle
<1>3. /\ record' \in [Fingerprints -> Contents \cup {None}]
      /\ merges' \in Nat
  BY Split DEF saveFindingLifecycle, RestOK
<1>4. CASE c = None
  <2>1. /\ ticket' = [ticket EXCEPT ![f] = NoTicket]
        /\ claim' = [claim EXCEPT ![f] = NoClaim]
        /\ hist' = [hist EXCEPT !.overrun = @ \cup {g \in {f} : Overrun(g)}]
        /\ UNCHANGED <<provider, lock, issue>>
    BY <1>4 DEF saveFindingLifecycle
  <2>2. ticket' \in [Fingerprints -> Ticket]
    BY <2>1, NoTicketType, Split DEF RestOK
  <2>3. claim' \in [Fingerprints -> [by : Passes \cup {NoPass}, lapsed : BOOLEAN]]
    BY <2>1, Split DEF RestOK, NoClaim
  <2>4. hist' \in [lost : SUBSET Fingerprints, overrun : SUBSET Fingerprints,
                   died : SUBSET Fingerprints, last : [Fingerprints -> Passes \cup {NoPass}]]
    BY <2>1, Split DEF RestOK
  <2>5. \A g \in Fingerprints : Names(issue', ticket'[g].ref, g)
    BY <2>1, Split DEF RestOK, Names, NoTicket
  <2>6. RestOK'
    BY <1>3, <2>1, <2>2, <2>3, <2>4, <2>5, Split DEF RestOK
  <2> QED BY <1>2, <2>6, Joined
<1>5. CASE c # None
  <2>1. UNCHANGED <<ticket, claim, hist, provider, lock, issue>>
    BY <1>5 DEF saveFindingLifecycle
  <2>2. RestOK'
    BY <1>3, <2>1, Split DEF RestOK
  <2> QED BY <1>2, <2>2, Joined
<1> QED BY <1>4, <1>5

LEMMA LapseStep ==
  ASSUME IInv, NEW f \in Fingerprints, leaseExpires(f)
  PROVE  IInv'
<1>1. IssuesGrow
  BY SameIssues DEF IInv, leaseExpires
<1>2. PassesOK'
  BY <1>1, NoPassMoves, Split DEF leaseExpires
<1>3. claim' \in [Fingerprints -> [by : Passes \cup {NoPass}, lapsed : BOOLEAN]]
  BY Split DEF RestOK, leaseExpires
<1>4. RestOK'
  BY <1>3, Split DEF RestOK, leaseExpires
<1> QED BY <1>2, <1>4, Joined

LEMMA DeleteStep ==
  ASSUME IInv, NEW i \in IssueIds, deleteIssue(i)
  PROVE  IInv'
<1>1. issue[i] \in Issue
  BY Split DEF RestOK, deleteIssue, NoIssue
<1>2. IssuesGrow
  BY <1>1, Split DEF RestOK, deleteIssue, IssuesGrow, Issue
<1>3. PassesOK'
  BY <1>2, NoPassMoves, Split DEF deleteIssue
<1>4. RestOK'
  BY <1>2, RestStays, Split DEF deleteIssue, RestOK
<1> QED BY <1>3, <1>4, Joined

-----------------------------------------------------------------------------
(* Choosing and claiming the work. *)

LEMMA ListStep ==
  ASSUME IInv, NEW p \in Passes, listWork(p)
  PROVE  IInv'
<1>1. PICK W \in SUBSET {f \in Fingerprints : NeedsSync(f)} :
        Becomes(p, [pass[p] EXCEPT !.phase = "listed", !.work = W,
                     !.item = [f \in Fingerprints |-> IF f \in W
                                     THEN [content |-> record[f], previous |-> ticket[f]] ELSE None]])
  BY DEF listWork
<1> DEFINE item == [f \in Fingerprints |-> IF f \in W
                      THEN [content |-> record[f], previous |-> ticket[f]] ELSE None]
           q    == [pass[p] EXCEPT !.phase = "listed", !.work = W, !.item = item]
<1>2. IssuesGrow
  BY SameIssues DEF IInv, listWork
<1>3. \A f \in W : item[f] \in Item /\ item[f].previous = ticket[f]
  BY Split DEF RestOK, NeedsSync, Item
<1>4. item \in [Fingerprints -> Item \cup {None}]
  BY <1>3
<1>5. pass[p] \in Pass /\ pass[p].phase = "new" /\ PassOK(pass[p]) /\ PassNames(issue, pass[p])
  BY Split DEF PassesOK, listWork
<1>6. /\ q \in Pass /\ q.phase = "listed" /\ q.work = W /\ q.item = item /\ q.at = pass[p].at
      /\ q.ref = pass[p].ref /\ q.tries = pass[p].tries /\ q.markers = pass[p].markers
  <2> HIDE DEF item
  <2> QED BY <1>4, <1>5 DEF Pass, Phases
<1>7. PassOK(q)
  <2> HIDE DEF item, q
  <2> QED BY <1>3, <1>5, <1>6 DEF PassOK, Calling
<1>8. PassNames(issue', q)
  <2>1. \A f \in W : Names(issue', item[f].previous.ref, f)
    BY <1>3, Split DEF RestOK, listWork
  <2>2. q.at \notin Fingerprints
    BY <1>5, <1>6 DEF PassOK, Calling
  <2> HIDE DEF item, q
  <2> QED BY <1>5, <1>6, <2>1, <2>2 DEF PassNames, listWork
<1>9. PassesOK'
  <2>1. lock' = p /\ lock = NoPass /\ NoPass \notin Passes
    BY TicketAssumption DEF listWork
  <2> HIDE DEF q
  <2> QED BY <1>1, <1>2, <1>6, <1>7, <1>8, <2>1, OnePassMoves, Split DEF q
<1>10. RestOK'
  BY Split DEF RestOK, listWork
<1> QED BY <1>9, <1>10, Joined

(* A pass ends: it has nothing in hand any more. *)
LEMMA PassEnds ==
  ASSUME IInv, IssuesGrow, NEW p \in Passes, NEW ph \in {"over", "dead"}, Becomes(p, Idle(ph)),
         lock' # p, \A r \in Passes \ {p} : lock' = r <=> lock = r
  PROVE  PassesOK'
<1>1. Idle(ph) \in Pass /\ PassOK(Idle(ph)) /\ PassNames(issue', Idle(ph))
  BY IdleIsOK
<1>2. Idle(ph).phase # "listed"
  BY DEF Idle
<1> QED BY <1>1, <1>2, OnePassMoves, Split

(* Another pass or none has the lock, or p itself. *)
LEMMA LockMovesAlone ==
  ASSUME NEW p \in Passes, lock' = (IF lock = p THEN NoPass ELSE lock)
  PROVE  lock' # p /\ \A r \in Passes \ {p} : lock' = r <=> lock = r
BY TicketAssumption

LEMMA ClaimStep ==
  ASSUME IInv, NEW p \in Passes, claimFindingTickets(p)
  PROVE  IInv'
<1> DEFINE granted == {f \in pass[p].work : Grantable(f)}
           q == [pass[p] EXCEPT !.phase = "next", !.work = granted]
<1>1. IssuesGrow
  BY SameIssues DEF IInv, claimFindingTickets
<1>2. pass[p] \in Pass /\ pass[p].phase = "listed" /\ PassOK(pass[p]) /\ PassNames(issue, pass[p])
  BY Split DEF PassesOK, claimFindingTickets
<1>3. lock' # p /\ \A r \in Passes \ {p} : lock' = r <=> lock = r
  <2>1. lock = p /\ lock' = NoPass
    BY <1>2, Split DEF PassesOK, claimFindingTickets
  <2> QED BY <2>1, TicketAssumption
<1>4. PassesOK'
  <2>1. CASE granted = {}
    <3>1. Becomes(p, Idle("over"))
      BY <2>1 DEF claimFindingTickets
    <3> QED BY <3>1, <1>1, <1>3, PassEnds
  <2>2. CASE granted # {}
    <3>1. Becomes(p, q)
      BY <2>2 DEF claimFindingTickets
    <3>2. granted \subseteq pass[p].work
      OBVIOUS
    <3> HIDE DEF granted
    <3>3. /\ q \in Pass /\ q.phase = "next" /\ q.work = granted /\ q.item = pass[p].item
          /\ q.at = pass[p].at /\ q.ref = pass[p].ref /\ q.tries = pass[p].tries
          /\ q.markers = pass[p].markers
      BY <1>2, <3>2 DEF Pass, Phases
    <3> HIDE DEF q
    <3>4. PassOK(q)
      BY <1>2, <3>2, <3>3 DEF PassOK, Calling
    <3>5. PassNames(issue, q)
      BY <1>2, <3>2, <3>3 DEF PassNames
    <3>6. PassNames(issue', q)
      BY <1>1, <3>3, <3>4, <3>5, PassNamesStay
    <3>7. q.phase # "listed"
      BY <3>3
    <3> QED BY <1>1, <1>3, <3>1, <3>3, <3>4, <3>6, <3>7, OnePassMoves, Split
  <2> QED BY <2>1, <2>2
<1>5. claim' \in [Fingerprints -> [by : Passes \cup {NoPass}, lapsed : BOOLEAN]]
  BY Split DEF RestOK, claimFindingTickets
<1>6. hist' \in [lost : SUBSET Fingerprints, overrun : SUBSET Fingerprints,
                 died : SUBSET Fingerprints, last : [Fingerprints -> Passes \cup {NoPass}]]
  <2>1. granted \subseteq Fingerprints
    BY <1>2 DEF Pass
  <2>2. hist' = [hist EXCEPT !.overrun = @ \cup {f \in granted : claim[f].lapsed /\ Overrun(f)},
                             !.last = [f \in Fingerprints |-> IF f \in granted THEN p ELSE @[f]]]
    BY DEF claimFindingTickets
  <2> HIDE DEF granted
  <2> QED BY <2>1, <2>2, Split DEF RestOK
<1>7. RestOK'
  BY <1>5, <1>6, Split DEF RestOK, claimFindingTickets
<1> QED BY <1>4, <1>7, Joined

-----------------------------------------------------------------------------
(* Calls to the provider. *)

(* The common part: a pass goes on with the finding it is at. *)
LEMMA CallMoves ==
  ASSUME IInv, IssuesGrow, NEW p \in Passes, NEW q \in Pass, Becomes(p, q), lock' = lock,
         pass[p].phase \in Calling, q.phase \in Calling, q.tries < MaxAttempts,
         q.work = pass[p].work, q.item = pass[p].item, q.at = pass[p].at,
         q.phase \in {"update", "updateFound", "transition"} => q.ref \in IssueIds,
         Names(issue', q.ref, q.at), \A f \in Fingerprints : Names(issue', q.markers[f], f)
  PROVE  PassesOK'
<1>1. pass[p] \in Pass /\ PassOK(pass[p]) /\ PassNames(issue, pass[p])
  BY Split DEF PassesOK
<1>2. PassOK(q)
  BY <1>1 DEF PassOK
<1>3. PassNames(issue', pass[p])
  BY <1>1, PassNamesStay
<1>4. PassNames(issue', q)
  BY <1>3 DEF PassNames
<1>5. q.phase # "listed" /\ lock' # p
  BY Split DEF PassesOK, Calling
<1> QED BY <1>2, <1>4, <1>5, OnePassMoves, Split

(* What is known of a pass that is calling. *)
LEMMA AtACall ==
  ASSUME IInv, NEW p \in Passes, pass[p].phase \in Calling
  PROVE  /\ pass[p] \in Pass /\ pass[p].at \in Fingerprints /\ pass[p].item[pass[p].at] \in Item
         /\ Doing(p) \in Contents /\ Before(p) \in Ticket
         /\ pass[p].tries \in Nat /\ pass[p].tries < MaxAttempts
         /\ pass[p].ref \in Refs /\ Names(issue, pass[p].ref, pass[p].at)
         /\ Before(p).ref \in Refs /\ Names(issue, Before(p).ref, pass[p].at)
         /\ pass[p].markers \in [Fingerprints -> Refs]
         /\ \A f \in Fingerprints : Names(issue, pass[p].markers[f], f)
         /\ pass[p].phase \in {"update", "updateFound", "transition"} => pass[p].ref \in IssueIds
<1>1. pass[p] \in Pass /\ PassOK(pass[p]) /\ PassNames(issue, pass[p])
  BY Split DEF PassesOK
<1>2. pass[p].at \in Fingerprints /\ pass[p].item[pass[p].at] \in Item
  BY <1>1 DEF PassOK
<1>3. Doing(p) \in Contents /\ Before(p) \in Ticket /\ Before(p).ref \in Refs
  BY <1>2 DEF Doing, Before, Item, Ticket
<1>4. Names(issue, pass[p].ref, pass[p].at) /\ Names(issue, Before(p).ref, pass[p].at)
  BY <1>1, <1>2 DEF PassNames, Before
<1>5. \A f \in Fingerprints : Names(issue, pass[p].markers[f], f)
  BY <1>1 DEF PassNames
<1>6. /\ pass[p].tries \in Nat /\ pass[p].tries < MaxAttempts /\ pass[p].ref \in Refs
      /\ pass[p].markers \in [Fingerprints -> Refs]
      /\ pass[p].phase \in {"update", "updateFound", "transition"} => pass[p].ref \in IssueIds
  BY <1>1 DEF Pass, PassOK
<1> QED BY <1>1, <1>2, <1>3, <1>4, <1>5, <1>6

(* The references a calling pass has stay good. *)
LEMMA CallNamesStay ==
  ASSUME IInv, IssuesGrow, NEW p \in Passes, pass[p].phase \in Calling
  PROVE  /\ Names(issue', pass[p].ref, pass[p].at)
         /\ Names(issue', Before(p).ref, pass[p].at)
         /\ \A f \in Fingerprints : Names(issue', pass[p].markers[f], f)
<1>1. Names(issue', pass[p].ref, pass[p].at) /\ Names(issue', Before(p).ref, pass[p].at)
  BY AtACall, NamesStay
<1>2. ASSUME NEW f \in Fingerprints PROVE Names(issue', pass[p].markers[f], f)
  <2>1. pass[p].markers[f] \in Refs /\ Names(issue, pass[p].markers[f], f)
    BY AtACall
  <2> QED BY <2>1, NamesStay
<1> QED BY <1>1, <1>2

LEMMA FinishedOK ==
  ASSUME IInv, IssuesGrow, NEW p \in Passes, pass[p].phase \in Calling, lock' = lock,
         NEW ok \in BOOLEAN, NEW ref \in Refs, Names(issue', ref, pass[p].at),
         Becomes(p, Finished(p, ok, ref))
  PROVE  PassesOK'
<1> DEFINE q == Finished(p, ok, ref)
<1>1. pass[p] \in Pass
  BY AtACall
<1>2. /\ q \in Pass /\ q.phase = "record" /\ q.tries = 0 /\ q.work = pass[p].work
      /\ q.item = pass[p].item /\ q.at = pass[p].at /\ q.ref = ref /\ q.markers = pass[p].markers
  BY <1>1 DEF Finished, Pass, Phases, Calling
<1>3. q.phase \in Calling /\ q.tries < MaxAttempts
  BY <1>2, TicketAssumption DEF Calling
<1>4. q.phase \notin {"update", "updateFound", "transition"}
  BY <1>2
<1> HIDE DEF q
<1>5. \A f \in Fingerprints : Names(issue', q.markers[f], f)
  BY <1>2, CallNamesStay
<1>6. Becomes(p, q)
  BY DEF q
<1> QED BY <1>2, <1>3, <1>4, <1>5, <1>6, CallMoves

LEMMA StepOK ==
  ASSUME IInv, IssuesGrow, NEW p \in Passes, pass[p].phase \in Calling, lock' = lock,
         NEW ph \in Calling, ph \in {"update", "updateFound", "transition"} => pass[p].ref \in IssueIds,
         Step(p, ph)
  PROVE  PassesOK'
<1> DEFINE q == [pass[p] EXCEPT !.phase = ph, !.tries = 0]
<1>1. pass[p] \in Pass
  BY AtACall
<1>2. /\ q \in Pass /\ q.phase = ph /\ q.tries = 0 /\ q.work = pass[p].work
      /\ q.item = pass[p].item /\ q.at = pass[p].at /\ q.ref = pass[p].ref /\ q.markers = pass[p].markers
  BY <1>1 DEF Pass, Phases
<1>3. q.tries < MaxAttempts
  BY <1>2, TicketAssumption
<1>4. Becomes(p, q)
  BY DEF Step
<1> HIDE DEF q
<1>5. Names(issue', q.ref, q.at) /\ \A f \in Fingerprints : Names(issue', q.markers[f], f)
  BY <1>2, CallNamesStay
<1> QED BY <1>2, <1>3, <1>4, <1>5, CallMoves

LEMMA FailedOK ==
  ASSUME IInv, IssuesGrow, NEW p \in Passes, pass[p].phase \in Calling, lock' = lock, Failed(p)
  PROVE  PassesOK'
<1>1. CASE Becomes(p, Finished(p, FALSE, pass[p].ref))
  BY <1>1, AtACall, CallNamesStay, FinishedOK
<1>2. CASE pass[p].tries + 1 < MaxAttempts /\ Becomes(p, [pass[p] EXCEPT !.tries = @ + 1])
  <2> DEFINE q == [pass[p] EXCEPT !.tries = @ + 1]
  <2>1. pass[p] \in Pass /\ pass[p].tries \in Nat
    BY AtACall
  <2>2. /\ q \in Pass /\ q.phase = pass[p].phase /\ q.tries = pass[p].tries + 1 /\ q.work = pass[p].work
        /\ q.item = pass[p].item /\ q.at = pass[p].at /\ q.ref = pass[p].ref /\ q.markers = pass[p].markers
    BY <2>1 DEF Pass
  <2>3. Becomes(p, q)
    BY <1>2
  <2> HIDE DEF q
  <2>4. q.phase \in {"update", "updateFound", "transition"} => q.ref \in IssueIds
    BY <2>2, AtACall
  <2>5. Names(issue', q.ref, q.at) /\ \A f \in Fingerprints : Names(issue', q.markers[f], f)
    BY <2>2, CallNamesStay
  <2>6. q.tries < MaxAttempts /\ q.phase \in Calling
    BY <1>2, <2>2
  <2> QED BY <2>2, <2>3, <2>4, <2>5, <2>6, CallMoves
<1> QED BY <1>1, <1>2 DEF Failed

LEMMA NextItemStep ==
  ASSUME IInv, NEW p \in Passes, nextItem(p)
  PROVE  IInv'
<1>1. PICK f \in pass[p].work :
        Becomes(p, [pass[p] EXCEPT !.work = @ \ {f}, !.at = f, !.ref = pass[p].item[f].previous.ref,
                      !.tries = 0, !.phase = IF pass[p].item[f].previous.ref # 0 THEN "update" ELSE "find"])
  BY DEF nextItem
<1> DEFINE ref == pass[p].item[f].previous.ref
           q   == [pass[p] EXCEPT !.work = @ \ {f}, !.at = f, !.ref = ref, !.tries = 0,
                                  !.phase = IF ref # 0 THEN "update" ELSE "find"]
<1>2. IssuesGrow
  BY SameIssues DEF IInv, nextItem
<1>3. pass[p] \in Pass /\ PassOK(pass[p]) /\ PassNames(issue, pass[p]) /\ pass[p].phase = "next"
  BY Split DEF PassesOK, nextItem
<1>4. f \in Fingerprints /\ pass[p].item[f] \in Item /\ ref \in Refs /\ Names(issue, ref, f)
  <2>1. f \in Fingerprints /\ pass[p].item[f] \in Item
    BY <1>3 DEF Pass, PassOK
  <2>2. pass[p].item[f].previous.ref \in Refs
    BY <2>1 DEF Item, Ticket
  <2> QED BY <2>1, <2>2, <1>3 DEF PassNames
<1>5. Becomes(p, q)
  BY <1>1
<1> HIDE DEF ref
<1>6. /\ q \in Pass /\ q.work = pass[p].work \ {f} /\ q.at = f /\ q.ref = ref /\ q.tries = 0
      /\ q.phase = (IF ref # 0 THEN "update" ELSE "find") /\ q.item = pass[p].item
      /\ q.markers = pass[p].markers
  BY <1>3, <1>4 DEF Pass, Phases, Calling
<1> HIDE DEF q
<1>7. PassOK(q)
  <2>1. ref # 0 => ref \in IssueIds
    BY <1>4, TicketAssumption DEF Refs, IssueIds
  <2>2. q.phase \in Calling
    BY <1>6 DEF Calling
  <2> QED BY <1>3, <1>4, <1>6, <2>1, <2>2, TicketAssumption DEF PassOK
<1>8. PassNames(issue, q)
  <2>1. q.item[q.at].previous.ref = ref
    BY <1>6 DEF ref
  <2> QED BY <1>3, <1>4, <1>6, <2>1 DEF PassNames
<1>9. PassNames(issue', q)
  BY <1>2, <1>6, <1>7, <1>8, PassNamesStay
<1>10. PassesOK'
  <2>1. q.phase # "listed" /\ lock' = lock /\ lock # p
    BY <1>3, <1>6, Split DEF nextItem, PassesOK
  <2> QED BY <1>2, <1>5, <1>6, <1>7, <1>9, <2>1, OnePassMoves, Split
<1>11. RestOK'
  BY Split DEF RestOK, nextItem
<1> QED BY <1>10, <1>11, Joined

-----------------------------------------------------------------------------
(* Writing to an issue, and moving it. *)

(* An issue keeps its finding when it is written. *)
LEMMA WrittenGrows ==
  ASSUME IInv, NEW i \in IssueIds, NEW x \in Issue, issue[i] \in Issue, x.of = issue[i].of,
         issue' = [issue EXCEPT ![i] = x]
  PROVE  IssuesGrow
BY Split DEF RestOK, IssuesGrow

(* The issue a pass knows exists. *)
LEMMA KnownIssue ==
  ASSUME IInv, NEW p \in Passes, pass[p].phase \in {"update", "updateFound", "transition"}
  PROVE  /\ pass[p].phase \in Calling /\ pass[p].ref \in IssueIds /\ pass[p].ref \in Refs
         /\ issue[pass[p].ref] \in Issue
<1>1. pass[p].phase \in Calling
  BY DEF Calling
<1>2. pass[p].ref \in IssueIds /\ Names(issue, pass[p].ref, pass[p].at) /\ pass[p].ref \in Refs
  BY <1>1, AtACall
<1>3. pass[p].ref # 0
  BY <1>2, TicketAssumption DEF IssueIds
<1> QED BY <1>1, <1>2, <1>3 DEF Names

LEMMA StateOfType == \A c : StateOf(c) \in {"open", "closed", "gone"}
BY DEF StateOf

(* A call ends, or goes on, and no issue but the one called for changes. *)
LEMMA UpdateStep ==
  ASSUME IInv, NEW p \in Passes, updateIssue(p)
  PROVE  IInv'
<1> DEFINE i == pass[p].ref
<1>1. pass[p].phase \in {"update", "updateFound"} /\ lock' = lock
  BY DEF updateIssue
<1>2. pass[p].phase \in Calling /\ i \in IssueIds /\ i \in Refs /\ issue[i] \in Issue
  BY <1>1, KnownIssue
<1>3. IssuesGrow
  <2>1. CASE issue' = issue
    BY <2>1, SameIssues DEF IInv
  <2>2. CASE issue' = [issue EXCEPT ![i] = Written(i, Doing(p))]
    <3>1. Doing(p) \in Contents
      BY <1>2, AtACall
    <3>2. Written(i, Doing(p)) \in Issue /\ Written(i, Doing(p)).of = issue[i].of
      BY <1>2, <3>1, StateOfType DEF Written, Issue
    <3> QED BY <1>2, <2>2, <3>2, WrittenGrows
  <2> QED BY <2>1, <2>2 DEF updateIssue
<1>4. Names(issue', i, pass[p].at)
  BY <1>2, <1>3, CallNamesStay
<1>5. PassesOK'
  <2>1. CASE Step(p, "find")
    <3>1. "find" \in Calling /\ "find" \notin {"update", "updateFound", "transition"}
      BY DEF Calling
    <3> QED BY <1>1, <1>2, <1>3, <2>1, <3>1, StepOK
  <2>2. CASE Step(p, "transition")
    <3>1. "transition" \in Calling
      BY DEF Calling
    <3> QED BY <1>1, <1>2, <1>3, <2>2, <3>1, StepOK
  <2>3. CASE Failed(p)
    BY <1>1, <1>2, <1>3, <2>3, FailedOK
  <2>4. CASE \E ok \in BOOLEAN : Becomes(p, Finished(p, ok, i))
    BY <1>1, <1>2, <1>3, <1>4, <2>4, FinishedOK
  <2> QED BY <2>1, <2>2, <2>3, <2>4 DEF updateIssue, Succeeded
<1>6. RestOK'
  BY <1>3, RestStays, Split DEF RestOK, updateIssue
<1> QED BY <1>5, <1>6, Joined

LEMMA TransitionStep ==
  ASSUME IInv, NEW p \in Passes, transitionIssue(p)
  PROVE  IInv'
<1> DEFINE i == pass[p].ref
<1>1. pass[p].phase = "transition" /\ lock' = lock
  BY DEF transitionIssue
<1>2. pass[p].phase \in Calling /\ i \in IssueIds /\ i \in Refs /\ issue[i] \in Issue
  BY <1>1, KnownIssue
<1>3. IssuesGrow
  <2>1. CASE issue' = issue
    BY <2>1, SameIssues DEF IInv
  <2>2. CASE issue' = [issue EXCEPT ![i].state = StateOf(Doing(p))]
    <3> DEFINE x == [issue[i] EXCEPT !.state = StateOf(Doing(p))]
    <3>1. x \in Issue /\ x.of = issue[i].of
      BY <1>2, StateOfType DEF Issue
    <3>2. issue' = [issue EXCEPT ![i] = x]
      BY <2>2
    <3> HIDE DEF x
    <3> QED BY <1>2, <3>1, <3>2, WrittenGrows
  <2> QED BY <2>1, <2>2 DEF transitionIssue
<1>4. Names(issue', i, pass[p].at)
  BY <1>2, <1>3, CallNamesStay
<1>5. PassesOK'
  <2>1. CASE Failed(p)
    BY <1>1, <1>2, <1>3, <2>1, FailedOK
  <2>2. CASE Becomes(p, Finished(p, TRUE, i))
    BY <1>1, <1>2, <1>3, <1>4, <2>2, FinishedOK
  <2> QED BY <2>1, <2>2 DEF transitionIssue, Succeeded
<1>6. RestOK'
  BY <1>3, RestStays, Split DEF RestOK, transitionIssue
<1> QED BY <1>5, <1>6, Joined

-----------------------------------------------------------------------------
(* Recording the result, and the end of a pass. *)

LEMMA CompleteStep ==
  ASSUME IInv, NEW p \in Passes, completeFindingTicketClaim(p)
  PROVE  IInv'
<1> DEFINE f == pass[p].at
           q == [pass[p] EXCEPT !.phase = "next", !.at = None]
<1>1. IssuesGrow
  BY SameIssues DEF IInv, completeFindingTicketClaim
<1>2. pass[p].phase = "record" /\ pass[p].phase \in Calling /\ lock' = lock /\ issue' = issue
  BY DEF completeFindingTicketClaim, Calling
<1>3. pass[p] \in Pass /\ PassOK(pass[p]) /\ PassNames(issue, pass[p]) /\ lock # p
  BY <1>2, Split DEF PassesOK
<1>4. PassesOK'
  <2>1. CASE Becomes(p, Idle("over"))
    BY <1>1, <1>2, <1>3, <2>1, PassEnds
  <2>2. CASE Becomes(p, q)
    <3>1. /\ q \in Pass /\ q.phase = "next" /\ q.at = None /\ q.work = pass[p].work
          /\ q.item = pass[p].item /\ q.tries = pass[p].tries /\ q.markers = pass[p].markers
      BY <1>3 DEF Pass, Phases
    <3> HIDE DEF q
    <3>2. q.phase \notin Calling /\ q.at \notin Fingerprints
      BY <3>1, TicketAssumption DEF Calling
    <3>3. PassOK(q)
      BY <1>3, <3>1, <3>2 DEF PassOK
    <3>4. PassNames(issue', q)
      BY <1>2, <1>3, <3>1, <3>2 DEF PassNames
    <3>5. q.phase # "listed" /\ lock' # p
      BY <1>2, <1>3, <3>1
    <3> QED BY <1>1, <1>2, <2>2, <3>1, <3>3, <3>4, <3>5, OnePassMoves, Split
  <2> QED BY <2>1, <2>2 DEF completeFindingTicketClaim
<1>5. f \in Fingerprints /\ Doing(p) \in Contents /\ Before(p) \in Ticket /\ pass[p].ref \in Refs
      /\ Names(issue, pass[p].ref, f) /\ Names(issue, Before(p).ref, f)
  BY <1>2, AtACall
<1>6. Result(p) \in Ticket /\ Names(issue, Result(p).ref, f)
  <2>1. CASE pass[p].ok
    <3>1. StateOf(Doing(p)) \in {"none", "open", "closed"}
      BY DEF StateOf
    <3> QED BY <1>5, <2>1, <3>1 DEF Result, Ticket
  <2>2. CASE ~pass[p].ok
    BY <1>5, <2>2 DEF Result, Ticket
  <2> QED BY <2>1, <2>2
<1>7. ticket' = ticket \/ ticket' = [ticket EXCEPT ![f] = Result(p)]
  BY DEF completeFindingTicketClaim
<1>8. ticket' \in [Fingerprints -> Ticket] /\ \A g \in Fingerprints : Names(issue', ticket'[g].ref, g)
  <2>1. ticket \in [Fingerprints -> Ticket] /\ \A g \in Fingerprints : Names(issue, ticket[g].ref, g)
    BY Split DEF RestOK
  <2>2. CASE ticket' = ticket
    BY <1>2, <2>1, <2>2
  <2>3. CASE ticket' = [ticket EXCEPT ![f] = Result(p)]
    BY <1>2, <1>5, <1>6, <2>1, <2>3
  <2> QED BY <1>7, <2>2, <2>3
<1>9. claim' \in [Fingerprints -> [by : Passes \cup {NoPass}, lapsed : BOOLEAN]]
  <2>1. claim' = claim \/ claim' = [claim EXCEPT ![f] = NoClaim]
    BY DEF completeFindingTicketClaim
  <2>2. NoClaim \in [by : Passes \cup {NoPass}, lapsed : BOOLEAN]
    BY DEF NoClaim
  <2> QED BY <1>5, <2>1, <2>2, Split DEF RestOK
<1>10. RestOK'
  BY <1>8, <1>9, Split DEF RestOK, completeFindingTicketClaim
<1> QED BY <1>4, <1>10, Joined

LEMMA ReleaseStep ==
  ASSUME IInv, NEW p \in Passes, releaseFindingTicketClaims(p)
  PROVE  IInv'
<1>1. IssuesGrow
  BY SameIssues DEF IInv, releaseFindingTicketClaims
<1>2. lock' = lock /\ lock # p
  BY Split DEF PassesOK, releaseFindingTicketClaims
<1>3. PassesOK'
  BY <1>1, <1>2, PassEnds DEF releaseFindingTicketClaims
<1>4. claim' \in [Fingerprints -> [by : Passes \cup {NoPass}, lapsed : BOOLEAN]]
  BY Split DEF RestOK, releaseFindingTicketClaims, Released, NoClaim
<1>5. pass[p].at \in Fingerprints
  BY AtACall DEF releaseFindingTicketClaims, Calling
<1>6. hist' \in [lost : SUBSET Fingerprints, overrun : SUBSET Fingerprints,
                 died : SUBSET Fingerprints, last : [Fingerprints -> Passes \cup {NoPass}]]
  BY <1>5, Split DEF RestOK, releaseFindingTicketClaims
<1>7. RestOK'
  BY <1>4, <1>6, Split DEF RestOK, releaseFindingTicketClaims
<1> QED BY <1>3, <1>7, Joined

LEMMA DiesStep ==
  ASSUME IInv, NEW p \in Passes, passDies(p)
  PROVE  IInv'
<1>1. IssuesGrow
  BY SameIssues DEF IInv, passDies
<1>2. lock' # p /\ \A r \in Passes \ {p} : lock' = r <=> lock = r
  BY LockMovesAlone DEF passDies
<1>3. PassesOK'
  BY <1>1, <1>2, PassEnds DEF passDies
<1>4. Busy(p) \subseteq Fingerprints
  BY Split DEF PassesOK, Busy, Current, Pass
<1>5. hist' \in [lost : SUBSET Fingerprints, overrun : SUBSET Fingerprints,
                 died : SUBSET Fingerprints, last : [Fingerprints -> Passes \cup {NoPass}]]
  BY <1>4, Split DEF RestOK, passDies
<1>6. lock' \in Passes \cup {NoPass}
  BY Split DEF RestOK, passDies
<1>7. RestOK'
  BY <1>5, <1>6, Split DEF RestOK, passDies
<1> QED BY <1>3, <1>7, Joined

-----------------------------------------------------------------------------
(* Searching. *)

(* The oldest and the newest of some issues are among them. *)
LEMMA HasSmallest ==
  ASSUME NEW S \in SUBSET Nat, S # {}
  PROVE  \E i \in S : \A j \in S : i <= j
<1> DEFINE R == OpToRel(<, Nat)
<1>1. IsWellFoundedOn(R, Nat)
  BY NatLessThanWellFounded
<1>2. \A x, y \in Nat : x < y => <<x, y>> \in R
  BY DEF OpToRel
<1> HIDE DEF R
<1>3. \E x \in S : \A y \in S : <<y, x>> \notin R
  BY <1>1, WFMin
<1>4. \A x, y \in Nat : ~(x < y) => y <= x
  OBVIOUS
<1> QED BY <1>2, <1>3, <1>4

LEMMA OldestIn ==
  ASSUME NEW S \in SUBSET IssueIds
  PROVE  Oldest(S) = 0 \/ Oldest(S) \in S
<1>1. CASE S = {} BY <1>1 DEF Oldest
<1>2. CASE S # {}
  <2>1. S \in SUBSET Nat
    BY TicketAssumption DEF IssueIds
  <2>2. \E i \in S : \A j \in S : i <= j
    BY <1>2, <2>1, HasSmallest
  <2> QED BY <1>2, <2>2 DEF Oldest
<1> QED BY <1>1, <1>2

LEMMA OldestOfSome ==
  ASSUME NEW S \in SUBSET IssueIds, S # {}
  PROVE  Oldest(S) \in S
<1>1. 0 \notin S
  BY TicketAssumption DEF IssueIds
<1>2. S \in SUBSET Nat
  BY TicketAssumption DEF IssueIds
<1>3. \E i \in S : \A j \in S : i <= j
  BY <1>2, HasSmallest
<1> QED BY <1>3 DEF Oldest

LEMMA NewestOfSome ==
  ASSUME NEW S \in SUBSET IssueIds, S # {}
  PROVE  Newest(S) \in S
<1> DEFINE T == {MaxIssues - i : i \in S}
<1>1. T \in SUBSET Nat /\ T # {}
  <2>1. \A i \in IssueIds : MaxIssues - i \in Nat
    BY TicketAssumption DEF IssueIds
  <2> QED BY <2>1
<1>2. PICK t \in T : \A j \in T : t <= j
  BY <1>1, HasSmallest
<1>3. PICK i \in S : t = MaxIssues - i
  OBVIOUS
<1>4. ASSUME NEW j \in S PROVE j <= i
  <2>1. t <= MaxIssues - j
    BY <1>2
  <2> QED BY <1>3, <2>1, TicketAssumption DEF IssueIds
<1> QED BY <1>4 DEF Newest

LEMMA NewestIn ==
  ASSUME NEW S \in SUBSET IssueIds
  PROVE  Newest(S) = 0 \/ Newest(S) \in S
BY NewestOfSome DEF Newest

(* The issues that stand for a finding are issues of it. *)
LEMMA MarkedNames ==
  ASSUME IInv, NEW f \in Fingerprints, NEW i, i = 0 \/ i \in Marked(f)
  PROVE  Names(issue, i, f) /\ i \in Refs /\ (i # 0 => i \in IssueIds)
<1>1. CASE i = 0 BY <1>1, ZeroRef DEF Names
<1>2. CASE i \in Marked(f)
  <2>1. i \in IssueIds /\ issue[i].of = f
    BY <1>2 DEF Marked, Standing, Issues
  <2>2. issue[i] \in Issue \/ issue[i] = NoIssue
    BY <2>1, Split DEF RestOK
  <2>3. i \in Refs
    BY <2>1, TicketAssumption DEF Refs, IssueIds
  <2>4. issue[i] \in Issue
    BY <2>1, <2>2, TicketAssumption DEF NoIssue
  <2> QED BY <2>1, <2>3, <2>4 DEF Names
<1> QED BY <1>1, <1>2

LEMMA FoundOK ==
  ASSUME IInv, IssuesGrow, NEW p \in Passes, pass[p].phase = "find", lock' = lock,
         NEW i \in Refs, NEW scan \in {"no", "done", "failed"}, NEW marks \in [Fingerprints -> Refs],
         Names(issue', i, pass[p].at), \A f \in Fingerprints : Names(issue', marks[f], f),
         Found(p, i, scan, marks)
  PROVE  PassesOK'
<1> DEFINE q0 == [pass[p] EXCEPT !.tries = 0, !.scan = scan, !.markers = marks]
           q  == IF i # 0 THEN [q0 EXCEPT !.phase = "updateFound", !.ref = i]
                 ELSE IF Doing(p) \in ClosedContents
                      THEN [q0 EXCEPT !.phase = "record", !.ref = Before(p).ref, !.ok = TRUE]
                      ELSE [q0 EXCEPT !.phase = "create", !.ref = 0]
<1>1. pass[p].phase \in Calling
  BY DEF Calling
<1>2. pass[p] \in Pass /\ Before(p).ref \in Refs
  BY <1>1, AtACall
<1>3. Becomes(p, q)
  BY DEF Found
<1>4. /\ q0 \in Pass /\ q0.tries = 0 /\ q0.work = pass[p].work /\ q0.item = pass[p].item
      /\ q0.at = pass[p].at /\ q0.markers = marks
  BY <1>2 DEF Pass
<1> HIDE DEF q0
<1>5. /\ q \in Pass /\ q.tries = 0 /\ q.work = pass[p].work /\ q.item = pass[p].item
      /\ q.at = pass[p].at /\ q.markers = marks
      /\ \/ q.phase = "updateFound" /\ q.ref = i /\ i # 0
         \/ q.phase = "record" /\ q.ref = Before(p).ref
         \/ q.phase = "create" /\ q.ref = 0
  <2>1. CASE i # 0
    BY <1>4, <2>1 DEF Pass, Phases, Calling
  <2>2. CASE i = 0 /\ Doing(p) \in ClosedContents
    <3>1. q = [q0 EXCEPT !.phase = "record", !.ref = Before(p).ref, !.ok = TRUE]
      BY <2>2
    <3> QED BY <1>2, <1>4, <3>1 DEF Pass, Phases, Calling
  <2>3. CASE i = 0 /\ Doing(p) \notin ClosedContents
    <3>1. q = [q0 EXCEPT !.phase = "create", !.ref = 0]
      BY <2>3
    <3> QED BY <1>4, <3>1, ZeroRef DEF Pass, Phases, Calling
  <2> QED BY <2>1, <2>2, <2>3
<1> HIDE DEF q
<1>6. q.phase \in Calling /\ q.tries < MaxAttempts
  BY <1>5, TicketAssumption DEF Calling
<1>7. q.phase \in {"update", "updateFound", "transition"} => q.ref \in IssueIds
  BY <1>5, TicketAssumption DEF Refs, IssueIds
<1>8. Names(issue', Before(p).ref, pass[p].at)
  BY <1>1, CallNamesStay
<1>9. Names(issue', q.ref, q.at)
  <2>1. Names(issue', 0, q.at)
    BY DEF Names
  <2> QED BY <1>5, <1>8, <2>1
<1>10. \A f \in Fingerprints : Names(issue', q.markers[f], f)
  BY <1>5
<1> QED BY <1>1, <1>3, <1>5, <1>6, <1>7, <1>9, <1>10, CallMoves

LEMMA SearchFailedOK ==
  ASSUME IInv, IssuesGrow, NEW p \in Passes, pass[p].phase = "find", lock' = lock,
         NEW scan \in {"no", "done", "failed"}, SearchFailed(p, scan)
  PROVE  PassesOK'
<1> DEFINE q == [Finished(p, FALSE, pass[p].ref) EXCEPT !.scan = scan]
<1>1. pass[p].phase \in Calling
  BY DEF Calling
<1>2. pass[p] \in Pass
  BY <1>1, AtACall
<1>3. Becomes(p, q)
  BY DEF SearchFailed
<1>4. /\ q \in Pass /\ q.phase = "record" /\ q.tries = 0 /\ q.work = pass[p].work
      /\ q.item = pass[p].item /\ q.at = pass[p].at /\ q.ref = pass[p].ref /\ q.markers = pass[p].markers
  BY <1>2 DEF Finished, Pass, Phases, Calling
<1> HIDE DEF q
<1>5. q.phase \in Calling /\ q.tries < MaxAttempts
  BY <1>4, TicketAssumption DEF Calling
<1>6. q.phase \notin {"update", "updateFound", "transition"}
  BY <1>4
<1>7. Names(issue', q.ref, q.at) /\ \A f \in Fingerprints : Names(issue', q.markers[f], f)
  BY <1>1, <1>4, CallNamesStay
<1> QED BY <1>1, <1>3, <1>4, <1>5, <1>6, <1>7, CallMoves

LEMMA FindStep ==
  ASSUME IInv, NEW p \in Passes, findIssue(p)
  PROVE  IInv'
<1> DEFINE f == pass[p].at
           marks == [g \in Fingerprints |-> Newest(Marked(g))]
<1>1. pass[p].phase = "find" /\ pass[p].phase \in Calling /\ lock' = lock /\ issue' = issue
  BY DEF findIssue, Calling
<1>2. IssuesGrow
  BY <1>1, SameIssues DEF IInv
<1>3. /\ f \in Fingerprints /\ pass[p].markers \in [Fingerprints -> Refs]
      /\ \A g \in Fingerprints : Names(issue', pass[p].markers[g], g)
  BY <1>1, AtACall
<1>4. \A g \in Fingerprints : Marked(g) \in SUBSET IssueIds
  BY DEF Marked, Standing, Issues
<1>5. \A g \in Fingerprints : Names(issue', Newest(Marked(g)), g) /\ Newest(Marked(g)) \in Refs
  BY <1>1, <1>4, NewestIn, MarkedNames
<1>6. Names(issue', Oldest(Marked(f)), f) /\ Oldest(Marked(f)) \in Refs
  BY <1>1, <1>3, <1>4, OldestIn, MarkedNames
<1>7. marks \in [Fingerprints -> Refs] /\ \A g \in Fingerprints : Names(issue', marks[g], g)
  BY <1>5
<1>8. PassesOK'
  <2>1. CASE \E scan \in {"no", "done", "failed"} : SearchFailed(p, scan)
    BY <1>1, <1>2, <2>1, SearchFailedOK
  <2>2. CASE Found(p, Oldest(Marked(f)), "no", pass[p].markers)
    <3>1. "no" \in {"no", "done", "failed"}
      OBVIOUS
    <3> QED BY <1>1, <1>2, <1>3, <1>6, <2>2, <3>1, FoundOK
  <2>3. CASE Found(p, marks[f], "done", marks)
    <3>1. "done" \in {"no", "done", "failed"} /\ marks[f] \in Refs /\ Names(issue', marks[f], f)
      BY <1>3, <1>7
    <3> HIDE DEF marks
    <3> QED BY <1>1, <1>2, <1>7, <2>3, <3>1, FoundOK
  <2>4. CASE Found(p, pass[p].markers[f], "done", pass[p].markers)
    <3>1. "done" \in {"no", "done", "failed"} /\ pass[p].markers[f] \in Refs
          /\ Names(issue', pass[p].markers[f], f)
      BY <1>3
    <3> QED BY <1>1, <1>2, <1>3, <2>4, <3>1, FoundOK
  <2> QED BY <2>1, <2>2, <2>3, <2>4 DEF findIssue
<1>9. RestOK'
  BY <1>2, RestStays, Split DEF RestOK, findIssue
<1> QED BY <1>8, <1>9, Joined

LEMMA CreateStep ==
  ASSUME IInv, NEW p \in Passes, createIssue(p)
  PROVE  IInv'
<1> DEFINE f == pass[p].at
           i == Oldest(Unused)
           x == [of |-> f, shows |-> Doing(p), state |-> "open"]
           made == Unused # {} /\ issue' = [issue EXCEPT ![i] = x]
<1>1. pass[p].phase = "create" /\ pass[p].phase \in Calling /\ lock' = lock
  BY DEF createIssue, Calling
<1>2. /\ f \in Fingerprints /\ Doing(p) \in Contents /\ pass[p] \in Pass
      /\ pass[p].markers \in [Fingerprints -> Refs]
  BY <1>1, AtACall
<1>3. x \in Issue /\ x.of = f
  BY <1>2 DEF Issue
<1>4. ASSUME Unused # {} PROVE i \in IssueIds /\ i \in Refs /\ issue[i] = NoIssue
  <2>1. Unused \in SUBSET IssueIds
    BY DEF Unused
  <2>2. i \in Unused
    BY <1>4, <2>1, OldestOfSome
  <2> QED BY <2>1, <2>2, TicketAssumption DEF Unused, Refs, IssueIds
<1>5. NoIssue \notin Issue
  BY TicketAssumption DEF NoIssue, Issue
<1>6. CASE made
  <2>1. i \in IssueIds /\ i \in Refs /\ issue[i] = NoIssue
    BY <1>4, <1>6
  <2>2. IssuesGrow
    <3> HIDE DEF x, i
    <3> QED BY <1>3, <1>5, <1>6, <2>1, Split DEF RestOK, IssuesGrow
  <2>3. issue'[i] = x
    <3> HIDE DEF x, i
    <3> QED BY <1>6, <2>1, Split DEF RestOK
  <2>4. Names(issue', i, f)
    BY <1>3, <2>3 DEF Names
  <2>5. hist' \in [lost : SUBSET Fingerprints, overrun : SUBSET Fingerprints,
                   died : SUBSET Fingerprints, last : [Fingerprints -> Passes \cup {NoPass}]]
    BY <1>2, Split DEF RestOK, createIssue
  <2>6. RestOK'
    BY <2>2, <2>5, RestStays DEF createIssue
  <2>7. CASE Failed(p)
    <3>1. PassesOK'
      BY <1>1, <2>2, <2>7, FailedOK
    <3> QED BY <2>6, <3>1, Joined
  <2>8. CASE Becomes(p, [Finished(p, TRUE, i) EXCEPT !.markers =
                               IF pass[p].scan = "done" THEN [@ EXCEPT ![f] = i] ELSE @])
    <3> DEFINE marks == IF pass[p].scan = "done" THEN [pass[p].markers EXCEPT ![f] = i]
                        ELSE pass[p].markers
               q == [Finished(p, TRUE, i) EXCEPT !.markers = marks]
    <3> HIDE DEF x, i
    <3>1. Finished(p, TRUE, i).markers = pass[p].markers
      BY <1>2 DEF Finished, Pass
    <3>2. Becomes(p, q)
      BY <2>8, <3>1
    <3>3. marks \in [Fingerprints -> Refs]
      BY <1>2, <2>1
    <3>4. \A g \in Fingerprints : Names(issue', marks[g], g)
      <4>1. \A g \in Fingerprints : Names(issue', pass[p].markers[g], g)
        BY <1>1, <2>2, CallNamesStay
      <4> QED BY <1>2, <2>4, <4>1
    <3> HIDE DEF marks
    <3>5. /\ q \in Pass /\ q.phase = "record" /\ q.tries = 0 /\ q.work = pass[p].work
          /\ q.item = pass[p].item /\ q.at = f /\ q.ref = i /\ q.markers = marks
      BY <1>2, <2>1, <3>3 DEF Finished, Pass, Phases, Calling
    <3> HIDE DEF q
    <3>6. q.phase \in Calling /\ q.tries < MaxAttempts
      BY <3>5, TicketAssumption DEF Calling
    <3>7. q.phase \notin {"update", "updateFound", "transition"}
      BY <3>5
    <3>8. Names(issue', q.ref, q.at) /\ \A g \in Fingerprints : Names(issue', q.markers[g], g)
      BY <2>4, <3>4, <3>5
    <3>9. PassesOK'
      BY <1>1, <2>2, <3>2, <3>5, <3>6, <3>7, <3>8, CallMoves
    <3> QED BY <2>6, <3>9, Joined
  <2>9. Failed(p) \/ Becomes(p, [Finished(p, TRUE, i) EXCEPT !.markers =
                               IF pass[p].scan = "done" THEN [@ EXCEPT ![f] = i] ELSE @])
    BY DEF createIssue
  <2> QED BY <2>7, <2>8, <2>9
<1>7. CASE Failed(p) /\ UNCHANGED <<issue, hist>>
  <2>1. IssuesGrow
    BY <1>7, SameIssues DEF IInv
  <2>2. PassesOK'
    BY <1>1, <1>7, <2>1, FailedOK
  <2>3. RestOK'
    BY <1>7, Split DEF RestOK, createIssue
  <2> QED BY <2>2, <2>3, Joined
<1> QED BY <1>6, <1>7 DEF createIssue

-----------------------------------------------------------------------------
(* Together. *)

LEMMA Stutter ==
  ASSUME IInv, UNCHANGED vars
  PROVE  IInv'
<1>1. IssuesGrow
  BY SameIssues DEF IInv, vars
<1>2. PassesOK'
  BY <1>1, NoPassMoves, Split DEF vars
<1>3. RestOK'
  BY Split DEF RestOK, vars
<1> QED BY <1>2, <1>3, Joined

(* Every reference names an issue of its finding, in any state: an update   *)
(* or a transition is never made on an issue of another root cause.         *)
THEOREM ReferencesCorrect == Spec => []IInv
<1>1. Init => IInv
  BY Initially
<1>2. IInv /\ [Next]_vars => IInv'
  <2> SUFFICES ASSUME IInv, [Next]_vars PROVE IInv'
    OBVIOUS
  <2>1. CASE \E f \in Fingerprints, c \in Contents \cup {None} : saveFindingLifecycle(f, c)
    BY <2>1, MergeStep
  <2>2. CASE \E f \in Fingerprints : leaseExpires(f)
    BY <2>2, LapseStep
  <2>3. CASE \E i \in IssueIds : deleteIssue(i)
    BY <2>3, DeleteStep
  <2>4. ASSUME NEW p \in Passes, listWork(p) \/ claimFindingTickets(p) \/ nextItem(p)
        PROVE  IInv'
    BY <2>4, ListStep, ClaimStep, NextItemStep
  <2>5. ASSUME NEW p \in Passes,
               updateIssue(p) \/ transitionIssue(p) \/ findIssue(p) \/ createIssue(p)
        PROVE  IInv'
    BY <2>5, UpdateStep, TransitionStep, FindStep, CreateStep
  <2>6. ASSUME NEW p \in Passes,
               completeFindingTicketClaim(p) \/ releaseFindingTicketClaims(p) \/ passDies(p)
        PROVE  IInv'
    BY <2>6, CompleteStep, ReleaseStep, DiesStep
  <2>7. CASE UNCHANGED vars
    BY <2>7, Stutter
  <2> QED BY <2>1, <2>2, <2>3, <2>4, <2>5, <2>6, <2>7 DEF Next
<1> QED BY <1>1, <1>2, PTL DEF Spec

(* The state is well formed: no pass has more attempts than withRetry makes,*)
(* calls without a finding, or has the lock while it calls.                 *)
THEOREM TypeCorrect == Spec => []TypeOK
<1>1. IInv => TypeOK
  BY DEF IInv
<1> QED BY <1>1, ReferencesCorrect, PTL

-----------------------------------------------------------------------------
(* Claims. *)

(* What a pass has still to finish, of its row alone. *)
Left(q) == IF q.phase \notin {"new", "over", "dead", "listed"}
           THEN q.work \cup ({q.at} \cap Fingerprints) ELSE {}

LEMMA BusyIsLeft == \A p : Busy(p) = Left(pass[p])
BY DEF Busy, Left, Live, Current

LEMMA BusyIsLeftNext == \A p : Busy(p)' = Left(pass'[p])
BY DEF Busy, Left, Live, Current

(* A step of one pass that takes on nothing and touches no claim. *)
LEMMA ClaimsStay ==
  ASSUME IInv, ClaimInv, NEW p \in Passes, NEW q, Becomes(p, q), claim' = claim,
         hist'.overrun = hist.overrun, hist'.last = hist.last,
         Left(q) \subseteq Left(pass[p]), q.at \notin q.work
  PROVE  ClaimInv'
<1>1. pass'[p] = q /\ \A r \in Passes \ {p} : pass'[r] = pass[r]
  BY Split DEF PassesOK, Becomes
<1>2. \A r \in Passes : Left(pass'[r]) \subseteq Left(pass[r]) /\ pass'[r].at \notin pass'[r].work
  BY <1>1 DEF ClaimInv
<1>3. \A r \in Passes : Busy(r)' \subseteq Busy(r)
  BY <1>2, BusyIsLeft, BusyIsLeftNext
<1> QED BY <1>2, <1>3 DEF ClaimInv

(* No pass moves and no claim changes its holder. *)
LEMMA NobodyMoves ==
  ASSUME ClaimInv, pass' = pass, hist' = hist, \A f \in Fingerprints : claim'[f].by = claim[f].by,
         \A p \in Passes : Busy(p) \subseteq Fingerprints
  PROVE  ClaimInv'
<1>1. \A r : Busy(r)' = Busy(r)
  BY BusyIsLeft, BusyIsLeftNext
<1> QED BY <1>1 DEF ClaimInv

LEMMA BusyType ==
  ASSUME IInv
  PROVE  \A p \in Passes : Busy(p) \subseteq Fingerprints
BY Split DEF PassesOK, Busy, Current, Pass

(* A call leaves the list and the finding the pass is at alone. *)
LEMMA CallKeeps ==
  ASSUME IInv, NEW p \in Passes,
         updateIssue(p) \/ transitionIssue(p) \/ findIssue(p) \/ createIssue(p)
  PROVE  /\ pass[p].phase \in Calling
         /\ \E q : Becomes(p, q) /\ q.work = pass[p].work /\ q.at = pass[p].at
<1>1. pass[p].phase \in Calling
  BY DEF updateIssue, transitionIssue, findIssue, createIssue, Calling
<1>2. pass[p] \in Pass
  BY <1>1, AtACall
<1>3. \A ok, ref : /\ Finished(p, ok, ref).work = pass[p].work
                   /\ Finished(p, ok, ref).at = pass[p].at
  BY <1>2 DEF Finished, Pass
<1>4. ASSUME Failed(p)
      PROVE  \E q : Becomes(p, q) /\ q.work = pass[p].work /\ q.at = pass[p].at
  <2>1. CASE Becomes(p, Finished(p, FALSE, pass[p].ref))
    <3> DEFINE q == Finished(p, FALSE, pass[p].ref)
    <3>1. Becomes(p, q) /\ q.work = pass[p].work /\ q.at = pass[p].at
      BY <1>3, <2>1
    <3> HIDE DEF q
    <3> QED BY <3>1
  <2>2. CASE Becomes(p, [pass[p] EXCEPT !.tries = @ + 1])
    BY <1>2, <2>2 DEF Pass
  <2> QED BY <1>4, <2>1, <2>2 DEF Failed
<1>5. ASSUME NEW ph, Step(p, ph)
      PROVE  \E q : Becomes(p, q) /\ q.work = pass[p].work /\ q.at = pass[p].at
  <2> DEFINE q == [pass[p] EXCEPT !.phase = ph, !.tries = 0]
  <2>1. Becomes(p, q) /\ q.work = pass[p].work /\ q.at = pass[p].at
    BY <1>2, <1>5 DEF Step, Pass
  <2> HIDE DEF q
  <2> QED BY <2>1
<1>6. ASSUME NEW ref, Succeeded(p, ref)
      PROVE  \E q : Becomes(p, q) /\ q.work = pass[p].work /\ q.at = pass[p].at
  BY <1>3, <1>6 DEF Succeeded
<1>7. ASSUME NEW scan, SearchFailed(p, scan)
      PROVE  \E q : Becomes(p, q) /\ q.work = pass[p].work /\ q.at = pass[p].at
  <2>1. /\ [Finished(p, FALSE, pass[p].ref) EXCEPT !.scan = scan].work = pass[p].work
        /\ [Finished(p, FALSE, pass[p].ref) EXCEPT !.scan = scan].at = pass[p].at
    BY <1>2 DEF Finished, Pass
  <2> QED BY <1>7, <2>1 DEF SearchFailed
<1>8. ASSUME NEW i, NEW scan, NEW marks, Found(p, i, scan, marks)
      PROVE  \E q : Becomes(p, q) /\ q.work = pass[p].work /\ q.at = pass[p].at
  <2> DEFINE q0 == [pass[p] EXCEPT !.tries = 0, !.scan = scan, !.markers = marks]
             q  == IF i # 0 THEN [q0 EXCEPT !.phase = "updateFound", !.ref = i]
                   ELSE IF Doing(p) \in ClosedContents
                        THEN [q0 EXCEPT !.phase = "record", !.ref = Before(p).ref, !.ok = TRUE]
                        ELSE [q0 EXCEPT !.phase = "create", !.ref = 0]
  <2>1. Becomes(p, q)
    BY <1>8 DEF Found
  <2>2. q.work = pass[p].work /\ q.at = pass[p].at
    BY <1>2 DEF Pass
  <2> QED BY <2>1, <2>2
<1>9. ASSUME createIssue(p)
      PROVE  \E q : Becomes(p, q) /\ q.work = pass[p].work /\ q.at = pass[p].at
  <2> DEFINE q(marks) == [Finished(p, TRUE, Oldest(Unused)) EXCEPT !.markers = marks]
  <2>1. \A marks : q(marks).work = pass[p].work /\ q(marks).at = pass[p].at
    BY <1>2 DEF Finished, Pass
  <2>2. Failed(p) \/ Becomes(p, [Finished(p, TRUE, Oldest(Unused)) EXCEPT !.markers =
                          IF pass[p].scan = "done" THEN [@ EXCEPT ![pass[p].at] = Oldest(Unused)] ELSE @])
    BY <1>9 DEF createIssue
  <2>3. Failed(p) \/ \E marks : Becomes(p, q(marks))
    <3> DEFINE marks == LET old == Finished(p, TRUE, Oldest(Unused)).markers
                        IN IF pass[p].scan = "done" THEN [old EXCEPT ![pass[p].at] = Oldest(Unused)] ELSE old
    <3>1. Failed(p) \/ Becomes(p, q(marks))
      BY <2>2
    <3> QED BY <3>1
  <2> QED BY <1>4, <2>1, <2>3
<1>10. ASSUME updateIssue(p)
       PROVE  \E q : Becomes(p, q) /\ q.work = pass[p].work /\ q.at = pass[p].at
  <2>1. \/ \E ph : Step(p, ph)
        \/ Failed(p)
        \/ \E ok, ref : Becomes(p, Finished(p, ok, ref))
    BY <1>10 DEF updateIssue, Succeeded
  <2>2. ASSUME NEW ok, NEW ref, Becomes(p, Finished(p, ok, ref))
        PROVE  \E q : Becomes(p, q) /\ q.work = pass[p].work /\ q.at = pass[p].at
    BY <1>3, <2>2
  <2> QED BY <1>4, <1>5, <2>1, <2>2
<1>11. ASSUME transitionIssue(p)
       PROVE  \E q : Becomes(p, q) /\ q.work = pass[p].work /\ q.at = pass[p].at
  BY <1>4, <1>6, <1>11 DEF transitionIssue
<1>12. ASSUME findIssue(p)
       PROVE  \E q : Becomes(p, q) /\ q.work = pass[p].work /\ q.at = pass[p].at
  BY <1>7, <1>8, <1>12 DEF findIssue
<1> QED BY <1>1, <1>9, <1>10, <1>11, <1>12

LEMMA CallClaims ==
  ASSUME IInv, ClaimInv, NEW p \in Passes,
         updateIssue(p) \/ transitionIssue(p) \/ findIssue(p) \/ createIssue(p)
  PROVE  ClaimInv'
<1>1. PICK q : Becomes(p, q) /\ q.work = pass[p].work /\ q.at = pass[p].at
  BY CallKeeps
<1>2. pass[p].phase \in Calling
  BY CallKeeps
<1>3. Left(q) \subseteq Left(pass[p])
  BY <1>1, <1>2 DEF Left, Calling
<1>4. q.at \notin q.work
  BY <1>1 DEF ClaimInv
<1>5. claim' = claim /\ hist'.overrun = hist.overrun /\ hist'.last = hist.last
  BY Split DEF RestOK, updateIssue, transitionIssue, findIssue, createIssue
<1> QED BY <1>1, <1>3, <1>4, <1>5, ClaimsStay

LEMMA NextItemClaims ==
  ASSUME IInv, ClaimInv, NEW p \in Passes, nextItem(p)
  PROVE  ClaimInv'
<1>1. pass[p] \in Pass /\ pass[p].phase = "next"
  BY Split DEF PassesOK, nextItem
<1>2. PICK f \in pass[p].work :
        Becomes(p, [pass[p] EXCEPT !.work = @ \ {f}, !.at = f, !.ref = pass[p].item[f].previous.ref,
                      !.tries = 0, !.phase = IF pass[p].item[f].previous.ref # 0 THEN "update" ELSE "find"])
  BY DEF nextItem
<1> DEFINE q == [pass[p] EXCEPT !.work = @ \ {f}, !.at = f, !.ref = pass[p].item[f].previous.ref,
                   !.tries = 0, !.phase = IF pass[p].item[f].previous.ref # 0 THEN "update" ELSE "find"]
<1>3. q.work = pass[p].work \ {f} /\ q.at = f
  BY <1>1 DEF Pass
<1>4. Becomes(p, q)
  BY <1>2
<1> HIDE DEF q
<1>5. Left(q) \subseteq Left(pass[p]) /\ q.at \notin q.work
  BY <1>1, <1>3 DEF Left
<1> QED BY <1>4, <1>5, ClaimsStay DEF nextItem

LEMMA ListClaims ==
  ASSUME IInv, ClaimInv, NEW p \in Passes, listWork(p)
  PROVE  ClaimInv'
<1>1. pass[p] \in Pass /\ PassOK(pass[p]) /\ pass[p].phase = "new"
  BY Split DEF PassesOK, listWork
<1>2. PICK W \in SUBSET Fingerprints : \E item :
        Becomes(p, [pass[p] EXCEPT !.phase = "listed", !.work = W, !.item = item])
  BY DEF listWork
<1> PICK item : Becomes(p, [pass[p] EXCEPT !.phase = "listed", !.work = W, !.item = item])
  BY <1>2
<1> DEFINE q == [pass[p] EXCEPT !.phase = "listed", !.work = W, !.item = item]
<1>3. q.phase = "listed" /\ q.work = W /\ q.at = pass[p].at
  BY <1>1 DEF Pass
<1>4. Becomes(p, q)
  OBVIOUS
<1> HIDE DEF q
<1>5. q.at \notin q.work
  BY <1>1, <1>3 DEF PassOK, Calling
<1>6. Left(q) \subseteq Left(pass[p])
  BY <1>3 DEF Left
<1> QED BY <1>4, <1>5, <1>6, ClaimsStay DEF listWork

(* A pass that ended has nothing left to finish. *)
LEMMA NothingLeft ==
  ASSUME NEW ph \in {"over", "dead"}
  PROVE  Left(Idle(ph)) = {} /\ Idle(ph).at \notin Idle(ph).work
BY DEF Left, Idle

LEMMA DiesClaims ==
  ASSUME IInv, ClaimInv, NEW p \in Passes, passDies(p)
  PROVE  ClaimInv'
<1>1. Becomes(p, Idle("dead")) /\ claim' = claim
  BY DEF passDies
<1>2. hist'.overrun = hist.overrun /\ hist'.last = hist.last
  BY Split DEF RestOK, passDies
<1>3. Left(Idle("dead")) \subseteq Left(pass[p]) /\ Idle("dead").at \notin Idle("dead").work
  BY NothingLeft
<1> QED BY <1>1, <1>2, <1>3, ClaimsStay

LEMMA MergeClaims ==
  ASSUME IInv, ClaimInv, NEW f \in Fingerprints, NEW c \in Contents \cup {None}, saveFindingLifecycle(f, c)
  PROVE  ClaimInv'
<1>1. pass' = pass /\ \A p : Busy(p)' = Busy(p)
  BY BusyIsLeft, BusyIsLeftNext DEF saveFindingLifecycle
<1>2. CASE UNCHANGED <<claim, hist>>
  BY <1>1, <1>2 DEF ClaimInv
<1>3. CASE /\ claim' = [claim EXCEPT ![f] = NoClaim]
           /\ hist' = [hist EXCEPT !.overrun = @ \cup {g \in {f} : Overrun(g)}]
  <2>1. /\ hist'.last = hist.last /\ hist.overrun \subseteq hist'.overrun
        /\ Overrun(f) => f \in hist'.overrun
    BY <1>3, Split DEF RestOK
  <2>2. claim'[f].by = NoPass /\ \A g \in Fingerprints \ {f} : claim'[g] = claim[g]
    BY <1>3, Split DEF RestOK, NoClaim
  <2>3. ASSUME NEW p \in Passes, NEW g \in Busy(p)
        PROVE  claim'[g].by = p \/ g \in hist'.overrun
    <3>1. g \in Fingerprints /\ (claim[g].by = p \/ g \in hist.overrun)
      BY BusyType DEF ClaimInv
    <3>2. CASE g # f
      BY <2>1, <2>2, <3>1, <3>2
    <3>3. CASE g = f
      BY <2>1, <3>1, <3>3 DEF Overrun
    <3> QED BY <3>2, <3>3
  <2>4. \A g \in Fingerprints : claim'[g].by # NoPass => claim'[g].by = hist'.last[g]
    BY <2>1, <2>2 DEF ClaimInv
  <2> QED BY <1>1, <2>3, <2>4 DEF ClaimInv
<1> QED BY <1>2, <1>3 DEF saveFindingLifecycle

LEMMA GrantClaims ==
  ASSUME IInv, ClaimInv, NEW p \in Passes, claimFindingTickets(p)
  PROVE  ClaimInv'
<1> DEFINE granted == {f \in pass[p].work : Grantable(f)}
           q == [pass[p] EXCEPT !.phase = "next", !.work = granted]
<1>1. pass[p] \in Pass /\ PassOK(pass[p]) /\ pass[p].phase = "listed"
  BY Split DEF PassesOK, claimFindingTickets
<1>2. granted \subseteq Fingerprints
  BY <1>1 DEF Pass
<1>3. /\ claim' = [f \in Fingerprints |-> IF f \in granted THEN [by |-> p, lapsed |-> FALSE] ELSE claim[f]]
      /\ hist' = [hist EXCEPT !.overrun = @ \cup {f \in granted : claim[f].lapsed /\ Overrun(f)},
                              !.last = [f \in Fingerprints |-> IF f \in granted THEN p ELSE @[f]]]
  BY DEF claimFindingTickets
<1>4. Becomes(p, Idle("over")) \/ Becomes(p, q)
  BY DEF claimFindingTickets
<1>5. \A f \in granted : claim[f].by \in Passes => claim[f].lapsed
  BY TicketAssumption DEF Grantable
<1>6. q.phase = "next" /\ q.work = granted /\ q.at = pass[p].at /\ q.at \notin Fingerprints
  BY <1>1 DEF Pass, PassOK, Calling
<1> HIDE DEF granted, q
<1>7. /\ hist.overrun \subseteq hist'.overrun
      /\ \A f \in granted : claim[f].lapsed /\ Overrun(f) => f \in hist'.overrun
      /\ \A f \in Fingerprints : hist'.last[f] = IF f \in granted THEN p ELSE hist.last[f]
  BY <1>3, Split DEF RestOK
<1>8. \A f \in Fingerprints : IF f \in granted THEN claim'[f].by = p ELSE claim'[f] = claim[f]
  BY <1>3
<1>9. pass \in [Passes -> Pass]
  BY Split DEF PassesOK
<1>10. /\ \A r \in Passes \ {p} : pass'[r] = pass[r]
       /\ Left(pass'[p]) \subseteq granted /\ pass'[p].at \notin pass'[p].work
  <2>1. CASE Becomes(p, Idle("over"))
    BY <1>9, <2>1, NothingLeft DEF Becomes
  <2>2. CASE Becomes(p, q)
    <3>1. pass'[p] = q /\ \A r \in Passes \ {p} : pass'[r] = pass[r]
      BY <1>9, <2>2 DEF Becomes
    <3> QED BY <1>2, <1>6, <3>1 DEF Left
  <2> QED BY <1>4, <2>1, <2>2
<1>11. ASSUME NEW r \in Passes, NEW f \in Busy(r)'
       PROVE  claim'[f].by = r \/ f \in hist'.overrun
  <2>1. CASE r = p
    BY <1>2, <1>8, <1>10, <2>1, BusyIsLeftNext
  <2>2. CASE r # p
    <3>1. f \in Busy(r)
      BY <1>10, <2>2, BusyIsLeft, BusyIsLeftNext
    <3>2. f \in Fingerprints /\ (claim[f].by = r \/ f \in hist.overrun)
      BY <3>1, BusyType DEF ClaimInv
    <3>3. CASE f \in granted /\ claim[f].by = r
      <4>1. Overrun(f)
        BY <3>1, <3>3 DEF Overrun
      <4> QED BY <1>5, <1>7, <3>3, <4>1
    <3>4. CASE f \notin granted \/ f \in hist.overrun
      BY <1>7, <1>8, <3>2, <3>4
    <3> QED BY <3>2, <3>3, <3>4
  <2> QED BY <2>1, <2>2
<1>12. \A r \in Passes : pass'[r].at \notin pass'[r].work
  BY <1>10 DEF ClaimInv
<1>13. \A f \in Fingerprints : claim'[f].by # NoPass => claim'[f].by = hist'.last[f]
  BY <1>7, <1>8 DEF ClaimInv
<1> QED BY <1>11, <1>12, <1>13 DEF ClaimInv

(* A pass gives back claims of its own, and has finished with all of them.  *)
LEMMA GivesBack ==
  ASSUME IInv, ClaimInv, NEW p \in Passes, NEW q, Becomes(p, q), NEW G \in SUBSET Fingerprints,
         \A f \in G : claim[f].by = p /\ claim'[f] = NoClaim,
         \A f \in Fingerprints \ G : claim'[f] = claim[f],
         hist'.overrun = hist.overrun, hist'.last = hist.last,
         Left(q) \subseteq Left(pass[p]) \ G, q.at \notin q.work
  PROVE  ClaimInv'
<1>1. pass'[p] = q /\ \A r \in Passes \ {p} : pass'[r] = pass[r]
  BY Split DEF PassesOK, Becomes
<1>2. ASSUME NEW r \in Passes, NEW f \in Busy(r)'
      PROVE  claim'[f].by = r \/ f \in hist'.overrun
  <2>1. f \in Busy(r)
    BY <1>1, BusyIsLeft, BusyIsLeftNext
  <2>2. f \in Fingerprints /\ (claim[f].by = r \/ f \in hist.overrun)
    BY <2>1, BusyType DEF ClaimInv
  <2>3. CASE f \in G
    <3>1. r # p
      BY <1>1, <2>3, BusyIsLeftNext
    <3> QED BY <2>2, <2>3, <3>1
  <2>4. CASE f \notin G
    BY <2>2, <2>4
  <2> QED BY <2>3, <2>4
<1>3. \A r \in Passes : pass'[r].at \notin pass'[r].work
  BY <1>1 DEF ClaimInv
<1>4. \A f \in Fingerprints : claim'[f].by # NoPass => claim'[f].by = hist'.last[f]
  BY DEF ClaimInv, NoClaim
<1> QED BY <1>2, <1>3, <1>4 DEF ClaimInv

LEMMA CompleteClaims ==
  ASSUME IInv, ClaimInv, NEW p \in Passes, completeFindingTicketClaim(p)
  PROVE  ClaimInv'
<1> DEFINE f == pass[p].at
           G == IF Holds(p, f) THEN {f} ELSE {}
           q == [pass[p] EXCEPT !.phase = "next", !.at = None]
<1>1. pass[p].phase = "record" /\ pass[p].phase \in Calling /\ hist' = hist
  BY DEF completeFindingTicketClaim, Calling
<1>2. pass[p] \in Pass /\ f \in Fingerprints
  BY <1>1, AtACall
<1>3. /\ \A g \in G : claim[g].by = p /\ claim'[g] = NoClaim
      /\ \A g \in Fingerprints \ G : claim'[g] = claim[g]
  BY <1>2, Split DEF completeFindingTicketClaim, Holds, RestOK
<1>4. G \in SUBSET Fingerprints /\ G \subseteq {f}
  BY <1>2
<1>5. q.phase = "next" /\ q.at = None /\ q.work = pass[p].work
  BY <1>2 DEF Pass
<1>6. Becomes(p, Idle("over")) \/ Becomes(p, q)
  BY DEF completeFindingTicketClaim
<1> HIDE DEF q, G
<1>7. CASE Becomes(p, Idle("over"))
  <2>1. Left(Idle("over")) \subseteq Left(pass[p]) \ G /\ Idle("over").at \notin Idle("over").work
    BY NothingLeft
  <2> QED BY <1>1, <1>3, <1>4, <1>7, <2>1, GivesBack
<1>8. CASE Becomes(p, q)
  <2>1. q.at \notin Fingerprints /\ q.at \notin q.work
    BY <1>2, <1>5, TicketAssumption DEF Pass
  <2>2. f \notin pass[p].work
    BY DEF ClaimInv
  <2>3. Left(q) \subseteq Left(pass[p]) \ G
    BY <1>1, <1>4, <1>5, <2>1, <2>2 DEF Left
  <2> QED BY <1>1, <1>3, <1>4, <1>8, <2>1, <2>3, GivesBack
<1> QED BY <1>6, <1>7, <1>8

LEMMA ReleaseClaims ==
  ASSUME IInv, ClaimInv, NEW p \in Passes, releaseFindingTicketClaims(p)
  PROVE  ClaimInv'
<1> DEFINE G == {f \in Fingerprints : claim[f].by = p}
<1>1. /\ \A f \in G : claim[f].by = p /\ claim'[f] = NoClaim
      /\ \A f \in Fingerprints \ G : claim'[f] = claim[f]
  BY DEF releaseFindingTicketClaims, Released
<1>2. hist'.overrun = hist.overrun /\ hist'.last = hist.last
  BY Split DEF RestOK, releaseFindingTicketClaims
<1>3. Becomes(p, Idle("over"))
  BY DEF releaseFindingTicketClaims
<1>4. Left(Idle("over")) \subseteq Left(pass[p]) \ G /\ Idle("over").at \notin Idle("over").work
  BY NothingLeft
<1>5. G \in SUBSET Fingerprints
  OBVIOUS
<1> HIDE DEF G
<1> QED BY <1>1, <1>2, <1>3, <1>4, <1>5, GivesBack

LEMMA ClaimsInitially == Init => ClaimInv
<1> SUFFICES ASSUME Init PROVE ClaimInv
  OBVIOUS
<1>1. \A p \in Passes : pass[p] = Idle("new")
  BY DEF Init
<1>2. \A p \in Passes : Busy(p) = {} /\ pass[p].at \notin pass[p].work
  BY <1>1, BusyIsLeft DEF Left, Idle
<1>3. \A f \in Fingerprints : claim[f].by = NoPass
  BY DEF Init, NoClaim
<1> QED BY <1>2, <1>3 DEF ClaimInv

(* A pass that is not done with a finding holds its claim, or lost it to a  *)
(* lapse or a removal, in every state.                                      *)
THEOREM ClaimsHold == Spec => []ClaimInv
<1>1. Init => ClaimInv
  BY ClaimsInitially
<1>2. IInv /\ ClaimInv /\ [Next]_vars => ClaimInv'
  <2> SUFFICES ASSUME IInv, ClaimInv, [Next]_vars PROVE ClaimInv'
    OBVIOUS
  <2>1. CASE \E f \in Fingerprints, c \in Contents \cup {None} : saveFindingLifecycle(f, c)
    BY <2>1, MergeClaims
  <2>2. ASSUME NEW f \in Fingerprints, leaseExpires(f) PROVE ClaimInv'
    <3>1. \A g \in Fingerprints : claim'[g].by = claim[g].by
      BY <2>2, Split DEF leaseExpires, RestOK
    <3> QED BY <2>2, <3>1, NobodyMoves, BusyType DEF leaseExpires
  <2>3. CASE \E i \in IssueIds : deleteIssue(i)
    BY <2>3, NobodyMoves, BusyType DEF deleteIssue
  <2>4. ASSUME NEW p \in Passes, listWork(p) \/ claimFindingTickets(p) \/ nextItem(p)
        PROVE  ClaimInv'
    BY <2>4, ListClaims, GrantClaims, NextItemClaims
  <2>5. ASSUME NEW p \in Passes,
               updateIssue(p) \/ transitionIssue(p) \/ findIssue(p) \/ createIssue(p)
        PROVE  ClaimInv'
    BY <2>5, CallClaims
  <2>6. ASSUME NEW p \in Passes,
               completeFindingTicketClaim(p) \/ releaseFindingTicketClaims(p) \/ passDies(p)
        PROVE  ClaimInv'
    BY <2>6, CompleteClaims, ReleaseClaims, DiesClaims
  <2>7. CASE UNCHANGED vars
    BY <2>7, NobodyMoves, BusyType DEF vars
  <2> QED BY <2>1, <2>2, <2>3, <2>4, <2>5, <2>6, <2>7 DEF Next
<1> QED BY <1>1, <1>2, ReferencesCorrect, PTL DEF Spec

(* Two passes work on one finding only after the claim of one was lost      *)
(* under it (FINDING_TICKET_CLAIM_SQL), for any number of passes.           *)
THEOREM ClaimsExcludeTheorem == Spec => []ClaimsExclude
<1>1. IInv /\ ClaimInv => ClaimsExclude
  <2> SUFFICES ASSUME IInv, ClaimInv, NEW p \in Passes, NEW q \in Passes, p # q,
                      NEW f \in Busy(p) \cap Busy(q)
               PROVE  f \in hist.overrun
    BY DEF ClaimsExclude
  <2> QED BY DEF ClaimInv
<1> QED BY <1>1, ReferencesCorrect, ClaimsHold, PTL

(* A result is recorded only by the pass that was granted its finding last. *)
THEOREM LateResultTheorem == Spec => LateResultIsDiscarded
<1> DEFINE Discards ==
      \A f \in Fingerprints : \A p \in Passes :
        ticket'[f] # ticket[f] /\ record'[f] = record[f] /\ pass[p].phase = "record" /\ pass'[p] # pass[p]
          => hist.last[f] = p
<1>1. IInv /\ ClaimInv /\ [Next]_vars => [Discards]_vars
  <2> SUFFICES ASSUME IInv, ClaimInv, [Next]_vars, NEW f \in Fingerprints, NEW p \in Passes,
                      ticket'[f] # ticket[f], record'[f] = record[f],
                      pass[p].phase = "record", pass'[p] # pass[p]
               PROVE  hist.last[f] = p
    OBVIOUS
  <2>1. ASSUME NEW g \in Fingerprints, NEW c \in Contents \cup {None}, saveFindingLifecycle(g, c)
        PROVE  FALSE
    BY <2>1 DEF saveFindingLifecycle
  <2>2. ASSUME NEW r \in Passes, completeFindingTicketClaim(r)
        PROVE  hist.last[f] = p
    <3>1. r = p
      BY <2>2, Split DEF PassesOK, completeFindingTicketClaim, Becomes
    <3>2. f = pass[r].at /\ Holds(r, f)
      BY <2>2, Split DEF RestOK, completeFindingTicketClaim
    <3> QED BY <3>1, <3>2, TicketAssumption DEF Holds, ClaimInv
  <2>3. CASE ticket' = ticket
    BY <2>3
  <2>4. ASSUME NEW r \in Passes,
               \/ listWork(r) \/ claimFindingTickets(r) \/ nextItem(r)
               \/ updateIssue(r) \/ transitionIssue(r) \/ findIssue(r) \/ createIssue(r)
               \/ releaseFindingTicketClaims(r) \/ passDies(r)
        PROVE  ticket' = ticket
    BY <2>4 DEF listWork, claimFindingTickets, nextItem, updateIssue, transitionIssue, findIssue,
                createIssue, releaseFindingTicketClaims, passDies
  <2>5. ASSUME \/ \E g \in Fingerprints : leaseExpires(g)
               \/ \E i \in IssueIds : deleteIssue(i)
               \/ UNCHANGED vars
        PROVE  ticket' = ticket
    BY <2>5 DEF leaseExpires, deleteIssue, vars
  <2> QED BY <2>1, <2>2, <2>3, <2>4, <2>5 DEF Next
<1> QED BY <1>1, ReferencesCorrect, ClaimsHold, PTL DEF Spec, LateResultIsDiscarded

-----------------------------------------------------------------------------
(* One issue for each finding. *)

Quiet == {"new", "listed", "over", "dead"}

(* A pass is going to create an issue for f without looking for one again.  *)
Decided(q, f) ==
  \/ q.phase = "create" /\ q.at = f
  \/ /\ q.scan = "done" /\ q.markers[f] = 0
     /\ f \in q.work \/ (q.at = f /\ q.phase \in {"update", "find"})

(* A finding has at most one issue, and none while a pass is going to       *)
(* create one: what the search of a session found stays true of the         *)
(* findings it holds the claims of.                                         *)
OneInv ==
  /\ \A p \in Passes : pass[p].phase \in Quiet => pass[p].scan = "no"
  /\ \A f \in Fingerprints \ (hist.lost \cup hist.overrun) :
       /\ \A i, j \in Standing(f) : i = j
       /\ \A p \in Passes : Decided(pass[p], f) => Standing(f) = {}

(* A finding for which a pass has decided is one it is busy with. *)
LEMMA DecidedIsBusy ==
  ASSUME IInv, OneInv, NEW p \in Passes, NEW f \in Fingerprints, Decided(pass[p], f)
  PROVE  f \in Busy(p)
<1>1. pass[p] \in Pass /\ (pass[p].phase \in Quiet => pass[p].scan = "no")
  BY Split DEF PassesOK, OneInv
<1>2. pass[p].phase \notin Quiet
  BY <1>1 DEF Decided, Quiet
<1> QED BY <1>2 DEF Decided, Busy, Live, Quiet, Current

(* A step of one pass that opens no issue, and does not decide for a        *)
(* finding with an issue.                                                   *)
LEMMA OneStays ==
  ASSUME IInv, OneInv, NEW p \in Passes, NEW q, Becomes(p, q),
         \A f \in Fingerprints : Standing(f)' \subseteq Standing(f),
         hist.lost \subseteq hist'.lost, hist.overrun \subseteq hist'.overrun,
         q.phase \in Quiet => q.scan = "no",
         \A f \in Fingerprints : Decided(q, f) => Decided(pass[p], f) \/ Standing(f) = {}
  PROVE  OneInv'
<1>1. pass'[p] = q /\ \A r \in Passes \ {p} : pass'[r] = pass[r]
  BY Split DEF PassesOK, Becomes
<1>2. \A r \in Passes : pass'[r].phase \in Quiet => pass'[r].scan = "no"
  BY <1>1 DEF OneInv
<1>3. ASSUME NEW f \in Fingerprints, f \notin hist'.lost \cup hist'.overrun
      PROVE  /\ \A i, j \in Standing(f)' : i = j
             /\ \A r \in Passes : Decided(pass'[r], f) => Standing(f)' = {}
  <2>1. /\ \A i, j \in Standing(f) : i = j
        /\ \A r \in Passes : Decided(pass[r], f) => Standing(f) = {}
    BY <1>3 DEF OneInv
  <2>2. \A r \in Passes : Decided(pass'[r], f) => Standing(f) = {}
    BY <1>1, <2>1
  <2> QED BY <2>1, <2>2
<1>4. \A r \in Passes, f \in Fingerprints : Decided(pass[r], f)' = Decided(pass'[r], f)
  BY DEF Decided
<1> QED BY <1>2, <1>3, <1>4 DEF OneInv

LEMMA OneNobodyMoves ==
  ASSUME IInv, OneInv, pass' = pass,
         \A f \in Fingerprints : Standing(f)' \subseteq Standing(f),
         hist.lost \subseteq hist'.lost, hist.overrun \subseteq hist'.overrun
  PROVE  OneInv'
BY DEF OneInv, Decided

-----------------------------------------------------------------------------
(* What a call makes of its pass. *)

(* The pass goes on with its finding. *)
SameWork(p, q) == q.work = pass[p].work /\ q.item = pass[p].item /\ q.at = pass[p].at
SameSearch(p, q) == q.scan = pass[p].scan /\ q.markers = pass[p].markers

LEMMA FinishedIs ==
  ASSUME NEW p \in Passes, pass[p] \in Pass, NEW ok, NEW ref
  PROVE  /\ SameWork(p, Finished(p, ok, ref)) /\ SameSearch(p, Finished(p, ok, ref))
         /\ Finished(p, ok, ref).phase = "record" /\ Finished(p, ok, ref).ok = ok
         /\ Finished(p, ok, ref).ref = ref
BY DEF Finished, SameWork, SameSearch, Pass

LEMMA FailedIs ==
  ASSUME NEW p \in Passes, pass[p] \in Pass, Failed(p)
  PROVE  \E q : /\ Becomes(p, q) /\ SameWork(p, q) /\ SameSearch(p, q) /\ q.ref = pass[p].ref
                /\ q.phase = pass[p].phase \/ (q.phase = "record" /\ ~q.ok)
<1>1. CASE Becomes(p, Finished(p, FALSE, pass[p].ref))
  <2> DEFINE q == Finished(p, FALSE, pass[p].ref)
  <2>1. /\ SameWork(p, q) /\ SameSearch(p, q) /\ q.ref = pass[p].ref
        /\ q.phase = "record" /\ ~q.ok
    BY DEF Finished, Pass, SameWork, SameSearch
  <2> HIDE DEF q
  <2> QED BY <1>1, <2>1 DEF q
<1>2. CASE Becomes(p, [pass[p] EXCEPT !.tries = @ + 1])
  <2> DEFINE q == [pass[p] EXCEPT !.tries = @ + 1]
  <2>1. /\ SameWork(p, q) /\ SameSearch(p, q) /\ q.ref = pass[p].ref /\ q.phase = pass[p].phase
    BY DEF Pass, SameWork, SameSearch
  <2>2. Becomes(p, q)
    BY <1>2
  <2> HIDE DEF q
  <2> QED BY <2>1, <2>2
<1> QED BY <1>1, <1>2 DEF Failed

LEMMA StepIs ==
  ASSUME NEW p \in Passes, pass[p] \in Pass, NEW ph, Step(p, ph)
  PROVE  \E q : /\ Becomes(p, q) /\ SameWork(p, q) /\ SameSearch(p, q) /\ q.ref = pass[p].ref
                /\ q.phase = ph
<1> DEFINE q == [pass[p] EXCEPT !.phase = ph, !.tries = 0]
<1>1. SameWork(p, q) /\ SameSearch(p, q) /\ q.ref = pass[p].ref /\ q.phase = ph
  BY DEF Pass, SameWork, SameSearch
<1>2. Becomes(p, q)
  BY DEF Step
<1> HIDE DEF q
<1> QED BY <1>1, <1>2

LEMMA SearchFailedIs ==
  ASSUME NEW p \in Passes, pass[p] \in Pass, NEW scan, SearchFailed(p, scan)
  PROVE  \E q : /\ Becomes(p, q) /\ SameWork(p, q) /\ q.scan = scan
                /\ q.phase = "record" /\ ~q.ok
<1> DEFINE q == [Finished(p, FALSE, pass[p].ref) EXCEPT !.scan = scan]
<1>1. SameWork(p, q) /\ q.scan = scan /\ q.phase = "record" /\ ~q.ok
  BY DEF Finished, Pass, SameWork
<1>2. Becomes(p, q)
  BY DEF SearchFailed
<1> HIDE DEF q
<1> QED BY <1>1, <1>2

LEMMA FoundIs ==
  ASSUME NEW p \in Passes, pass[p] \in Pass, NEW i, NEW scan, NEW marks, Found(p, i, scan, marks)
  PROVE  \E q : /\ Becomes(p, q) /\ SameWork(p, q) /\ q.scan = scan /\ q.markers = marks
                /\ \/ i # 0 /\ q.phase = "updateFound" /\ q.ref = i
                   \/ i = 0 /\ q.phase = "record" /\ q.ref = Before(p).ref
                   \/ i = 0 /\ q.phase = "create" /\ Doing(p) \notin ClosedContents
<1> DEFINE q0 == [pass[p] EXCEPT !.tries = 0, !.scan = scan, !.markers = marks]
           q1 == [q0 EXCEPT !.phase = "updateFound", !.ref = i]
           q2 == [q0 EXCEPT !.phase = "record", !.ref = Before(p).ref, !.ok = TRUE]
           q3 == [q0 EXCEPT !.phase = "create", !.ref = 0]
<1>1. /\ SameWork(p, q1) /\ q1.scan = scan /\ q1.markers = marks
      /\ q1.phase = "updateFound" /\ q1.ref = i
  BY DEF Pass, SameWork
<1>2. /\ SameWork(p, q2) /\ q2.scan = scan /\ q2.markers = marks
      /\ q2.phase = "record" /\ q2.ref = Before(p).ref
  BY DEF Pass, SameWork
<1>3. /\ SameWork(p, q3) /\ q3.scan = scan /\ q3.markers = marks /\ q3.phase = "create"
  BY DEF Pass, SameWork
<1>4. Becomes(p, IF i # 0 THEN q1 ELSE IF Doing(p) \in ClosedContents THEN q2 ELSE q3)
  BY DEF Found
<1> HIDE DEF q1, q2, q3
<1>5. CASE i # 0
  BY <1>1, <1>4, <1>5
<1>6. CASE i = 0 /\ Doing(p) \in ClosedContents
  BY <1>2, <1>4, <1>6
<1>7. CASE i = 0 /\ Doing(p) \notin ClosedContents
  BY <1>3, <1>4, <1>7
<1> QED BY <1>5, <1>6, <1>7

-----------------------------------------------------------------------------
(* Each step decides for findings without an issue only. *)

LEMMA NoneFound ==
  ASSUME NEW f \in Fingerprints
  PROVE  /\ Newest(Marked(f)) = 0 => Standing(f) = {}
         /\ Oldest(Marked(f)) = 0 => Standing(f) = {}
<1>1. Marked(f) = Standing(f) /\ Marked(f) \in SUBSET IssueIds
  BY DEF Marked, Standing, Issues
<1>2. 0 \notin Marked(f)
  BY <1>1, TicketAssumption DEF IssueIds
<1>3. Marked(f) # {} => Oldest(Marked(f)) \in Marked(f)
  BY <1>1, OldestOfSome
<1>4. Newest(Marked(f)) = 0 => Marked(f) = {}
  <2> SUFFICES ASSUME Marked(f) # {} PROVE Newest(Marked(f)) \in Marked(f)
    BY <1>2
  <2> QED BY <1>1, NewestOfSome
<1> QED BY <1>1, <1>2, <1>3, <1>4

LEMMA FindDecides ==
  ASSUME IInv, OneInv, NEW p \in Passes, findIssue(p)
  PROVE  \E q : /\ Becomes(p, q) /\ q.phase \notin Quiet
                /\ \A f \in Fingerprints : Decided(q, f) => Decided(pass[p], f) \/ Standing(f) = {}
<1> DEFINE marks == [g \in Fingerprints |-> Newest(Marked(g))]
           f0 == pass[p].at
<1>1. /\ pass[p].phase = "find" /\ pass[p].phase \in Calling
  BY DEF findIssue, Calling
<1>2. pass[p] \in Pass /\ f0 \in Fingerprints
  BY <1>1, AtACall
<1>3. ASSUME NEW scan, SearchFailed(p, scan), scan # "done"
      PROVE  \E q : /\ Becomes(p, q) /\ q.phase \notin Quiet
                    /\ \A f \in Fingerprints : Decided(q, f) => Decided(pass[p], f) \/ Standing(f) = {}
  <2>1. PICK q : Becomes(p, q) /\ q.scan = scan /\ q.phase = "record"
    BY <1>2, <1>3, SearchFailedIs
  <2> QED BY <1>3, <2>1 DEF Decided, Quiet
<1>4. ASSUME NEW i, NEW scan, NEW ms, Found(p, i, scan, ms),
             i = 0 => Decided(pass[p], f0) \/ Standing(f0) = {},
             scan = "done" => \A f \in Fingerprints : ms[f] = 0 =>
               Standing(f) = {} \/ (pass[p].scan = "done" /\ pass[p].markers[f] = 0)
      PROVE  \E q : /\ Becomes(p, q) /\ q.phase \notin Quiet
                    /\ \A f \in Fingerprints : Decided(q, f) => Decided(pass[p], f) \/ Standing(f) = {}
  <2>1. PICK q : /\ Becomes(p, q) /\ SameWork(p, q) /\ q.scan = scan /\ q.markers = ms
                 /\ q.phase \in {"updateFound", "record", "create"}
                 /\ q.phase = "create" => i = 0
    <3>1. PICK q : /\ Becomes(p, q) /\ SameWork(p, q) /\ q.scan = scan /\ q.markers = ms
                   /\ \/ i # 0 /\ q.phase = "updateFound" /\ q.ref = i
                      \/ i = 0 /\ q.phase = "record" /\ q.ref = Before(p).ref
                      \/ i = 0 /\ q.phase = "create" /\ Doing(p) \notin ClosedContents
      BY <1>2, <1>4, FoundIs
    <3> QED BY <3>1
  <2>2. ASSUME NEW f \in Fingerprints, Decided(q, f)
        PROVE  Decided(pass[p], f) \/ Standing(f) = {}
    <3>1. CASE q.phase = "create" /\ q.at = f
      BY <1>4, <2>1, <3>1 DEF SameWork
    <3>2. CASE q.scan = "done" /\ q.markers[f] = 0 /\ f \in q.work
      BY <1>4, <2>1, <3>2 DEF SameWork, Decided
    <3> QED BY <2>1, <2>2, <3>1, <3>2 DEF Decided
  <2> QED BY <2>1, <2>2 DEF Quiet
<1>5. CASE Found(p, Oldest(Marked(f0)), "no", pass[p].markers)
  BY <1>2, <1>4, <1>5, NoneFound
<1>6. CASE Found(p, marks[f0], "done", marks)
  <2>1. \A f \in Fingerprints : marks[f] = 0 => Standing(f) = {}
    BY NoneFound
  <2> HIDE DEF marks
  <2> QED BY <1>2, <1>4, <1>6, <2>1
<1>7. CASE pass[p].scan = "done" /\ Found(p, pass[p].markers[f0], "done", pass[p].markers)
  <2>1. pass[p].markers[f0] = 0 => Decided(pass[p], f0)
    BY <1>1, <1>7 DEF Decided
  <2> QED BY <1>4, <1>7, <2>1
<1>8. CASE SearchFailed(p, "no") \/ SearchFailed(p, "failed")
  BY <1>3, <1>8
<1> QED BY <1>5, <1>6, <1>7, <1>8 DEF findIssue

LEMMA FindOne ==
  ASSUME IInv, OneInv, NEW p \in Passes, findIssue(p)
  PROVE  OneInv'
<1>1. PICK q : /\ Becomes(p, q) /\ q.phase \notin Quiet
               /\ \A f \in Fingerprints : Decided(q, f) => Decided(pass[p], f) \/ Standing(f) = {}
  BY FindDecides
<1>2. issue' = issue /\ hist' = hist
  BY DEF findIssue
<1>3. \A f \in Fingerprints : Standing(f)' \subseteq Standing(f)
  BY <1>2 DEF Standing, Issues
<1> QED BY <1>1, <1>2, <1>3, OneStays

(* A pass that goes on decides for nothing new. *)
LEMMA GoesOn ==
  ASSUME NEW p \in Passes, NEW q, SameWork(p, q), SameSearch(p, q),
         \/ q.phase = pass[p].phase \/ q.phase \in {"record", "transition"}
         \/ q.phase = "find" /\ pass[p].phase = "update"
  PROVE  \A f \in Fingerprints : Decided(q, f) => Decided(pass[p], f)
BY DEF SameWork, SameSearch, Decided

LEMMA FailedOne ==
  ASSUME NEW p \in Passes, pass[p] \in Pass, pass[p].phase \in Calling, Failed(p)
  PROVE  \E q : /\ Becomes(p, q) /\ q.phase \notin Quiet
                /\ \A f \in Fingerprints : Decided(q, f) => Decided(pass[p], f)
<1>1. PICK q : /\ Becomes(p, q) /\ SameWork(p, q) /\ SameSearch(p, q)
               /\ q.phase = pass[p].phase \/ (q.phase = "record" /\ ~q.ok)
  BY FailedIs
<1> QED BY <1>1, GoesOn DEF Quiet, Calling

LEMMA UpdateOne ==
  ASSUME IInv, OneInv, NEW p \in Passes, updateIssue(p) \/ transitionIssue(p)
  PROVE  OneInv'
<1> DEFINE i == pass[p].ref
           x == Written(i, Doing(p))
<1>1. /\ pass[p].phase \in {"update", "updateFound", "transition"} /\ hist' = hist
      /\ pass[p].phase \in Calling /\ i \in IssueIds /\ issue[i] \in Issue
      /\ issue \in [IssueIds -> Issue \cup {NoIssue}]
  BY KnownIssue, Split DEF updateIssue, transitionIssue, RestOK
<1>2. pass[p] \in Pass
  BY <1>1, AtACall
<1>3. \A f \in Fingerprints : Standing(f)' \subseteq Standing(f)
  <2>1. CASE issue' = issue
    BY <2>1 DEF Standing, Issues
  <2>2. CASE issue' = [issue EXCEPT ![i] = x] /\ issue[i].state # "gone"
    <3>1. x.of = issue[i].of
      BY <1>1 DEF Written, Issue
    <3> HIDE DEF x, i
    <3> QED BY <1>1, <2>2, <3>1 DEF Standing, Issues
  <2>3. CASE issue' = [issue EXCEPT ![i].state = StateOf(Doing(p))] /\ issue[i].state # "gone"
    <3> DEFINE y == [issue[i] EXCEPT !.state = StateOf(Doing(p))]
    <3>1. y.of = issue[i].of /\ issue' = [issue EXCEPT ![i] = y]
      BY <1>1, <2>3 DEF Issue
    <3> HIDE DEF y, i
    <3> QED BY <1>1, <2>3, <3>1 DEF Standing, Issues
  <2> QED BY <2>1, <2>2, <2>3 DEF updateIssue, transitionIssue
<1>4. \E q : /\ Becomes(p, q) /\ q.phase \notin Quiet
             /\ \A f \in Fingerprints : Decided(q, f) => Decided(pass[p], f)
  <2>1. CASE Failed(p)
    BY <1>1, <1>2, <2>1, FailedOne
  <2>2. ASSUME NEW ph \in {"find", "transition"}, Step(p, ph), ph = "find" => pass[p].phase = "update"
        PROVE  \E q : /\ Becomes(p, q) /\ q.phase \notin Quiet
                      /\ \A f \in Fingerprints : Decided(q, f) => Decided(pass[p], f)
    <3>1. PICK q : Becomes(p, q) /\ SameWork(p, q) /\ SameSearch(p, q) /\ q.phase = ph
      BY <1>2, <2>2, StepIs
    <3> QED BY <2>2, <3>1, GoesOn DEF Quiet
  <2>3. ASSUME NEW ok, NEW ref, Becomes(p, Finished(p, ok, ref))
        PROVE  \E q : /\ Becomes(p, q) /\ q.phase \notin Quiet
                      /\ \A f \in Fingerprints : Decided(q, f) => Decided(pass[p], f)
    <3> DEFINE q == Finished(p, ok, ref)
    <3>1. SameWork(p, q) /\ SameSearch(p, q) /\ q.phase = "record"
      BY <1>2, FinishedIs
    <3> HIDE DEF q
    <3>2. \A f \in Fingerprints : Decided(q, f) => Decided(pass[p], f)
      BY <3>1, GoesOn
    <3>3. Becomes(p, q)
      BY <2>3 DEF q
    <3> QED BY <3>1, <3>2, <3>3 DEF Quiet
  <2>4. \/ Failed(p) \/ (Step(p, "find") /\ pass[p].phase = "update") \/ Step(p, "transition")
        \/ \E ok, ref : Becomes(p, Finished(p, ok, ref))
    BY DEF updateIssue, transitionIssue, Succeeded
  <2> QED BY <2>1, <2>2, <2>3, <2>4
<1>5. PICK q : /\ Becomes(p, q) /\ q.phase \notin Quiet
               /\ \A f \in Fingerprints : Decided(q, f) => Decided(pass[p], f)
  BY <1>4
<1> QED BY <1>1, <1>3, <1>5, OneStays

(* A pass with nothing in hand has decided for nothing. *)
LEMMA IdleDecides ==
  ASSUME NEW ph \in {"new", "over", "dead"}
  PROVE  Idle(ph).scan = "no" /\ \A f \in Fingerprints : ~Decided(Idle(ph), f)
BY DEF Idle, Decided

LEMMA SameStanding ==
  ASSUME issue' = issue
  PROVE  \A f \in Fingerprints : Standing(f)' = Standing(f)
BY DEF Standing, Issues

LEMMA CreateOne ==
  ASSUME IInv, ClaimInv, OneInv, NEW p \in Passes, createIssue(p)
  PROVE  OneInv'
<1>0. PICK f0 : f0 = pass[p].at
  OBVIOUS
<1> DEFINE i == Oldest(Unused)
           x == [of |-> f0, shows |-> Doing(p), state |-> "open"]
<1>1. /\ pass[p].phase = "create" /\ pass[p].phase \in Calling
      /\ issue \in [IssueIds -> Issue \cup {NoIssue}]
      /\ hist' = hist \/ hist' = [hist EXCEPT !.lost = @ \cup {f0}]
  BY <1>0, Split DEF createIssue, Calling, RestOK
<1>2. /\ pass[p] \in Pass /\ f0 \in Fingerprints /\ f0 \notin pass[p].work
      /\ pass[p].markers \in [Fingerprints -> Refs]
  BY <1>0, <1>1, AtACall DEF ClaimInv
<1>3. hist.lost \subseteq hist'.lost /\ hist.overrun \subseteq hist'.overrun
  BY <1>1, Split DEF RestOK
<1>4. CASE Failed(p) /\ UNCHANGED <<issue, hist>>
  <2>1. PICK q : /\ Becomes(p, q) /\ q.phase \notin Quiet
                 /\ \A f \in Fingerprints : Decided(q, f) => Decided(pass[p], f)
    BY <1>1, <1>2, <1>4, FailedOne
  <2> QED BY <1>3, <1>4, <2>1, SameStanding, OneStays
<1>5. CASE Unused # {} /\ issue' = [issue EXCEPT ![i] = x]
  <2>1. i \in IssueIds /\ issue[i] = NoIssue
    <3>1. Unused \in SUBSET IssueIds
      BY DEF Unused
    <3>2. i \in Unused
      BY <1>5, <3>1, OldestOfSome
    <3> QED BY <3>1, <3>2 DEF Unused
  <2>2. /\ \A f \in Fingerprints \ {f0} : Standing(f)' \subseteq Standing(f)
        /\ Standing(f0)' \subseteq Standing(f0) \cup {i}
    <3>1. x.of = f0 /\ issue'[i] = x /\ \A j \in IssueIds \ {i} : issue'[j] = issue[j]
      <4>1. x.of = f0
        OBVIOUS
      <4> HIDE DEF x, i
      <4> QED BY <1>1, <1>5, <2>1, <4>1
    <3> HIDE DEF x, i
    <3>2. ASSUME NEW f \in Fingerprints, NEW j \in Standing(f)', j # i
          PROVE  j \in Standing(f)
      BY <3>1, <3>2 DEF Standing, Issues
    <3>3. ASSUME NEW f \in Fingerprints, i \in Standing(f)'
          PROVE  f = f0
      BY <3>1, <3>3 DEF Standing, Issues
    <3>4. ASSUME NEW f \in Fingerprints \ {f0}
          PROVE  Standing(f)' \subseteq Standing(f)
      BY <3>2, <3>3
    <3>5. ASSUME NEW f \in Fingerprints
          PROVE  Standing(f)' \subseteq Standing(f) \cup {i}
      BY <3>2
    <3> QED BY <1>2, <3>4, <3>5
  <2>3. PICK q : /\ Becomes(p, q) /\ q.phase \notin Quiet
                 /\ \A f \in Fingerprints \ {f0} : Decided(q, f) => Decided(pass[p], f)
                 /\ Decided(q, f0) => f0 \in hist'.lost
    <3>1. CASE Failed(p) /\ hist' = [hist EXCEPT !.lost = @ \cup {f0}]
      <4>1. PICK q : /\ Becomes(p, q) /\ q.phase \notin Quiet
                     /\ \A f \in Fingerprints : Decided(q, f) => Decided(pass[p], f)
        BY <1>1, <1>2, <3>1, FailedOne
      <4>2. f0 \in hist'.lost
        BY <3>1, Split DEF RestOK
      <4> QED BY <4>1, <4>2
    <3>2. CASE Becomes(p, [Finished(p, TRUE, i) EXCEPT !.markers =
                             IF pass[p].scan = "done" THEN [@ EXCEPT ![f0] = i] ELSE @])
      <4> DEFINE marks == IF pass[p].scan = "done" THEN [pass[p].markers EXCEPT ![f0] = i]
                          ELSE pass[p].markers
                 q == [Finished(p, TRUE, i) EXCEPT !.markers = marks]
      <4> HIDE DEF i
      <4>1. Finished(p, TRUE, i).markers = pass[p].markers
        BY <1>2 DEF Finished, Pass
      <4>2. Becomes(p, q)
        BY <3>2, <4>1
      <4>3. \A f \in Fingerprints \ {f0} : marks[f] = pass[p].markers[f]
        BY <1>2
      <4> HIDE DEF marks
      <4>4. SameWork(p, q) /\ q.phase = "record" /\ q.scan = pass[p].scan /\ q.markers = marks
        BY <1>2 DEF Finished, Pass, SameWork
      <4> HIDE DEF q
      <4>5. \A f \in Fingerprints \ {f0} : Decided(q, f) => Decided(pass[p], f)
        BY <4>3, <4>4 DEF Decided, SameWork
      <4>6. ~Decided(q, f0)
        BY <1>2, <4>4 DEF Decided, SameWork
      <4> QED BY <4>2, <4>4, <4>5, <4>6 DEF Quiet
    <3>3. \/ Failed(p) /\ hist' = [hist EXCEPT !.lost = @ \cup {f0}]
          \/ Becomes(p, [Finished(p, TRUE, i) EXCEPT !.markers =
                           IF pass[p].scan = "done" THEN [@ EXCEPT ![f0] = i] ELSE @])
          \/ Failed(p) /\ UNCHANGED <<issue, hist>>
      BY <1>0 DEF createIssue
    <3>4. issue' # issue
      <4>1. x # NoIssue
        BY <1>2, TicketAssumption DEF NoIssue
      <4> HIDE DEF x, i
      <4> QED BY <1>1, <1>5, <2>1, <4>1
    <3> QED BY <3>1, <3>2, <3>3, <3>4
  <2> HIDE DEF x, i
  <2>4. pass'[p] = q /\ \A r \in Passes \ {p} : pass'[r] = pass[r]
    BY <2>3, Split DEF PassesOK, Becomes
  <2>5. ASSUME NEW f \in Fingerprints \ {f0}, f \notin hist'.lost \cup hist'.overrun
        PROVE  /\ \A j, k \in Standing(f)' : j = k
               /\ \A r \in Passes : Decided(pass'[r], f) => Standing(f)' = {}
    <3>1. /\ \A j, k \in Standing(f) : j = k
          /\ \A r \in Passes : Decided(pass[r], f) => Standing(f) = {}
      BY <1>3, <2>5 DEF OneInv
    <3>2. \A r \in Passes : Decided(pass'[r], f) => Decided(pass[r], f)
      BY <2>3, <2>4
    <3> QED BY <2>2, <3>1, <3>2
  <2>6. ASSUME f0 \notin hist'.lost \cup hist'.overrun
        PROVE  /\ \A j, k \in Standing(f0)' : j = k
               /\ \A r \in Passes : Decided(pass'[r], f0) => Standing(f0)' = {}
    <3>1. Decided(pass[p], f0)
      BY <1>0, <1>1 DEF Decided
    <3>2. Standing(f0) = {}
      BY <1>2, <1>3, <2>6, <3>1 DEF OneInv
    <3>3. f0 \in Busy(p)
      BY <1>2, <3>1, DecidedIsBusy
    <3>4. \A r \in Passes \ {p} : f0 \notin Busy(r)
      BY <1>3, <2>6, <3>3 DEF ClaimInv
    <3>5. \A r \in Passes \ {p} : ~Decided(pass'[r], f0)
      BY <1>2, <2>4, <3>4, DecidedIsBusy
    <3>6. ~Decided(pass'[p], f0)
      BY <2>3, <2>4, <2>6
    <3> QED BY <2>2, <3>2, <3>5, <3>6
  <2>7. \A r \in Passes : pass'[r].phase \in Quiet => pass'[r].scan = "no"
    BY <2>3, <2>4 DEF OneInv
  <2>8. \A r \in Passes, f \in Fingerprints : Decided(pass[r], f)' = Decided(pass'[r], f)
    BY DEF Decided
  <2>9. ASSUME NEW f \in Fingerprints, f \notin hist'.lost \cup hist'.overrun
        PROVE  /\ \A j, k \in Standing(f)' : j = k
               /\ \A r \in Passes : Decided(pass'[r], f) => Standing(f)' = {}
    <3>1. CASE f = f0
      BY <2>6, <2>9, <3>1
    <3>2. CASE f # f0
      BY <2>5, <2>9, <3>2
    <3> QED BY <3>1, <3>2
  <2> QED BY <2>7, <2>8, <2>9 DEF OneInv
<1> QED BY <1>0, <1>4, <1>5 DEF createIssue

LEMMA ListOne ==
  ASSUME IInv, OneInv, NEW p \in Passes, listWork(p)
  PROVE  OneInv'
<1>1. pass[p] \in Pass /\ pass[p].phase = "new" /\ issue' = issue /\ hist' = hist
  BY Split DEF PassesOK, listWork
<1>2. PICK W, item : Becomes(p, [pass[p] EXCEPT !.phase = "listed", !.work = W, !.item = item])
  BY DEF listWork
<1> DEFINE q == [pass[p] EXCEPT !.phase = "listed", !.work = W, !.item = item]
<1>3. q.phase = "listed" /\ q.scan = pass[p].scan
  BY <1>1 DEF Pass
<1>4. Becomes(p, q)
  BY <1>2
<1> HIDE DEF q
<1>5. q.scan = "no"
  BY <1>1, <1>3 DEF OneInv, Quiet
<1>6. \A f \in Fingerprints : ~Decided(q, f)
  BY <1>3, <1>5 DEF Decided
<1> QED BY <1>1, <1>4, <1>5, <1>6, SameStanding, OneStays

LEMMA GrantOne ==
  ASSUME IInv, OneInv, NEW p \in Passes, claimFindingTickets(p)
  PROVE  OneInv'
<1>1. pass[p] \in Pass /\ pass[p].phase = "listed" /\ issue' = issue /\ pass[p].scan = "no"
  BY Split DEF PassesOK, claimFindingTickets, OneInv, Quiet
<1>2. hist.lost \subseteq hist'.lost /\ hist.overrun \subseteq hist'.overrun
  BY Split DEF RestOK, claimFindingTickets
<1>3. CASE Becomes(p, Idle("over"))
  BY <1>1, <1>2, <1>3, IdleDecides, SameStanding, OneStays
<1>4. ASSUME NEW W, Becomes(p, [pass[p] EXCEPT !.phase = "next", !.work = W])
      PROVE  OneInv'
  <2> DEFINE q == [pass[p] EXCEPT !.phase = "next", !.work = W]
  <2>1. q.phase = "next" /\ q.scan = "no"
    BY <1>1 DEF Pass
  <2>2. Becomes(p, q)
    BY <1>4
  <2> HIDE DEF q
  <2>3. \A f \in Fingerprints : ~Decided(q, f)
    BY <2>1 DEF Decided
  <2> QED BY <1>1, <1>2, <2>1, <2>2, <2>3, SameStanding, OneStays
<1> QED BY <1>3, <1>4 DEF claimFindingTickets

LEMMA NextItemOne ==
  ASSUME IInv, OneInv, NEW p \in Passes, nextItem(p)
  PROVE  OneInv'
<1>1. pass[p] \in Pass /\ pass[p].phase = "next" /\ issue' = issue /\ hist' = hist
  BY Split DEF PassesOK, nextItem
<1>2. PICK f0 \in pass[p].work :
        Becomes(p, [pass[p] EXCEPT !.work = @ \ {f0}, !.at = f0, !.ref = pass[p].item[f0].previous.ref,
                      !.tries = 0, !.phase = IF pass[p].item[f0].previous.ref # 0 THEN "update" ELSE "find"])
  BY DEF nextItem
<1> DEFINE q == [pass[p] EXCEPT !.work = @ \ {f0}, !.at = f0, !.ref = pass[p].item[f0].previous.ref,
                   !.tries = 0, !.phase = IF pass[p].item[f0].previous.ref # 0 THEN "update" ELSE "find"]
<1>3. q.work = pass[p].work \ {f0} /\ q.at = f0 /\ SameSearch(p, q) /\ q.phase \in {"update", "find"}
  BY <1>1 DEF Pass, SameSearch
<1>4. Becomes(p, q)
  BY <1>2
<1> HIDE DEF q
<1>5. \A f \in Fingerprints : Decided(q, f) => Decided(pass[p], f)
  BY <1>3 DEF Decided, SameSearch
<1> QED BY <1>1, <1>3, <1>4, <1>5, SameStanding, OneStays DEF Quiet

LEMMA EndOne ==
  ASSUME IInv, OneInv, NEW p \in Passes,
         completeFindingTicketClaim(p) \/ releaseFindingTicketClaims(p) \/ passDies(p)
  PROVE  OneInv'
<1>1. issue' = issue /\ pass[p] \in Pass
  BY Split DEF PassesOK, completeFindingTicketClaim, releaseFindingTicketClaims, passDies
<1>2. hist.lost \subseteq hist'.lost /\ hist.overrun \subseteq hist'.overrun
  BY Split DEF RestOK, completeFindingTicketClaim, releaseFindingTicketClaims, passDies
<1>3. ASSUME NEW ph \in {"over", "dead"}, Becomes(p, Idle(ph))
      PROVE  OneInv'
  BY <1>1, <1>2, <1>3, IdleDecides, SameStanding, OneStays
<1>4. ASSUME pass[p].phase = "record", Becomes(p, [pass[p] EXCEPT !.phase = "next", !.at = None])
      PROVE  OneInv'
  <2> DEFINE q == [pass[p] EXCEPT !.phase = "next", !.at = None]
  <2>1. q.phase = "next" /\ q.work = pass[p].work /\ SameSearch(p, q)
    BY <1>1 DEF Pass, SameSearch
  <2>2. Becomes(p, q)
    BY <1>4
  <2> HIDE DEF q
  <2>3. \A f \in Fingerprints : Decided(q, f) => Decided(pass[p], f)
    BY <2>1 DEF Decided, SameSearch
  <2> QED BY <1>1, <1>2, <2>1, <2>2, <2>3, SameStanding, OneStays DEF Quiet
<1> QED BY <1>3, <1>4 DEF completeFindingTicketClaim, releaseFindingTicketClaims, passDies

LEMMA WorldOne ==
  ASSUME IInv, OneInv,
         \/ \E f \in Fingerprints, c \in Contents \cup {None} : saveFindingLifecycle(f, c)
         \/ \E f \in Fingerprints : leaseExpires(f)
         \/ \E i \in IssueIds : deleteIssue(i)
         \/ UNCHANGED vars
  PROVE  OneInv'
<1>1. pass' = pass
  BY DEF saveFindingLifecycle, leaseExpires, deleteIssue, vars
<1>2. hist.lost \subseteq hist'.lost /\ hist.overrun \subseteq hist'.overrun
  BY Split DEF RestOK, saveFindingLifecycle, leaseExpires, deleteIssue, vars
<1>3. \A f \in Fingerprints : Standing(f)' \subseteq Standing(f)
  <2>1. CASE issue' = issue
    BY <2>1, SameStanding
  <2>2. ASSUME NEW i \in IssueIds, deleteIssue(i)
        PROVE  \A f \in Fingerprints : Standing(f)' \subseteq Standing(f)
    <3>1. issue' = [issue EXCEPT ![i] = [issue[i] EXCEPT !.state = "gone"]]
      BY <2>2 DEF deleteIssue
    <3>2. issue[i] \in Issue
      BY <2>2, Split DEF RestOK, deleteIssue, NoIssue
    <3>3. [issue[i] EXCEPT !.state = "gone"].of = issue[i].of
      BY <3>2 DEF Issue
    <3> QED BY <2>2, <3>1, <3>3, Split DEF RestOK, Standing, Issues, deleteIssue
  <2> QED BY <2>1, <2>2 DEF saveFindingLifecycle, leaseExpires, vars
<1> QED BY <1>1, <1>2, <1>3, OneNobodyMoves

LEMMA OneInvariance == Spec => []OneInv
<1>1. Init => OneInv
  <2> SUFFICES ASSUME Init PROVE OneInv
    OBVIOUS
  <2>1. \A p \in Passes : pass[p] = Idle("new")
    BY DEF Init
  <2>2. \A f \in Fingerprints : Standing(f) = {}
    BY TicketAssumption DEF Init, Standing, Issues, NoIssue
  <2> QED BY <2>1, <2>2, IdleDecides DEF OneInv
<1>2. IInv /\ ClaimInv /\ OneInv /\ [Next]_vars => OneInv'
  BY FindOne, UpdateOne, CreateOne, ListOne, GrantOne, NextItemOne, EndOne, WorldOne DEF Next
<1> QED BY <1>1, <1>2, ReferencesCorrect, ClaimsHold, PTL DEF Spec

(* ticketing.ts opens one issue for each root cause, for any number of      *)
(* passes at once, passes that die after the POST, removed records and      *)
(* deleted issues: as long as no reply to a POST got lost and no pass       *)
(* outlived its claim, the search leads back to the issue there is.         *)
THEOREM OneIssueTheorem == Spec => []OneIssuePerFinding
<1>1. OneInv => OneIssuePerFinding
  <2> SUFFICES ASSUME OneInv, NEW f \in Fingerprints \ (hist.lost \cup hist.overrun)
               PROVE  Cardinality(Standing(f)) <= 1
    BY DEF OneIssuePerFinding
  <2>1. \A i, j \in Standing(f) : i = j
    BY DEF OneInv
  <2>2. CASE Standing(f) = {}
    BY <2>2, FS_EmptySet
  <2>3. CASE Standing(f) # {}
    <3>1. PICK i : Standing(f) = {i}
      BY <2>1, <2>3
    <3>2. Cardinality({i}) = 1
      BY FS_Singleton
    <3> QED BY <3>1, <3>2
  <2> QED BY <2>2, <2>3
<1> QED BY <1>1, OneInvariance, PTL

-----------------------------------------------------------------------------
(* An issue shows what its ticket says. *)

(* Issue i shows content c, in state st on GitHub, unless it is gone. *)
ShowsIt(issues, i, c, st) ==
  i # 0 /\ issues[i].state # "gone" =>
    /\ issues[i].shows = c
    /\ provider = "github-issues" => issues[i].state = st

Shows(issues, t) == ~t.error => ShowsIt(issues, t.ref, t.sha, t.state)

(* What a pass knows of the issue of its finding before each of its calls.  *)
Knows(issues, q) ==
  LET c == q.item[q.at].content
      b == q.item[q.at].previous.ref IN
  /\ q.phase = "update" => q.ref = b
  /\ q.phase = "find" => b = 0 \/ issues[b].state = "gone"
  /\ q.phase = "create" => c \in OpenContents
  /\ q.phase = "transition" =>
       provider = "jira" /\ (issues[q.ref].shows = c \/ issues[q.ref].state = "gone")
  /\ q.phase = "record" /\ q.ok => ShowsIt(issues, q.ref, c, StateOf(c))

(* The strengthening: while a pass is at a finding, the pass and not the    *)
(* ticket knows what the issue shows; what a pass has still to finish has a *)
(* record, which its result is written to.                                  *)
ShowInv ==
  /\ \A p \in Passes : pass[p].phase = "listed" => \A f \in pass[p].work : record[f] # None
  /\ \A f \in Fingerprints \ (hist.overrun \cup hist.died) :
       /\ (\A p \in Passes : pass[p].at # f) => Shows(issue, ticket[f])
       /\ \A p \in Passes : f \in Left(pass[p]) => record[f] # None
       /\ \A p \in Passes : pass[p].at = f => Knows(issue, pass[p])

(* Only issues of f change. *)
Touches(f) == \A i \in IssueIds : issue[i] \in Issue /\ issue[i].of # f => issue'[i] = issue[i]

LEMMA ShowsPrimed ==
  ASSUME provider' = provider
  PROVE  /\ \A t : Shows(issue, t)' <=> Shows(issue', t')
         /\ \A p \in Passes : Knows(issue, pass[p])' <=> Knows(issue', pass'[p])
BY DEF Shows, ShowsIt, Knows

LEMMA OthersShow ==
  ASSUME NEW f0, Touches(f0), NEW f \in Fingerprints \ {f0},
         NEW i \in Refs, Names(issue, i, f), NEW c, NEW st, ShowsIt(issue, i, c, st)
  PROVE  ShowsIt(issue', i, c, st)
<1>1. i # 0 => i \in IssueIds /\ issue[i] \in Issue /\ issue[i].of # f0
  BY TicketAssumption DEF Names, Refs, IssueIds
<1> QED BY <1>1 DEF Touches, ShowsIt

LEMMA OthersKnow ==
  ASSUME IInv, NEW f0, Touches(f0), NEW r \in Passes, pass[r].at \in Fingerprints \ {f0},
         Knows(issue, pass[r])
  PROVE  Knows(issue', pass[r])
<1> DEFINE f == pass[r].at
           i == pass[r].ref
           b == pass[r].item[f].previous.ref
           c == pass[r].item[f].content
<1>1. pass[r].phase \in Calling
  BY Split DEF PassesOK, PassOK
<1>2. i \in Refs /\ Names(issue, i, f) /\ b \in Refs /\ Names(issue, b, f)
  BY <1>1, AtACall DEF Before
<1>3. pass[r].phase = "find" => b = 0 \/ issue'[b].state = "gone"
  BY <1>2, TicketAssumption DEF Knows, Touches, Names, Refs, IssueIds
<1>4. pass[r].phase = "transition" =>
        provider = "jira" /\ (issue'[i].shows = c \/ issue'[i].state = "gone")
  <2> SUFFICES ASSUME pass[r].phase = "transition"
               PROVE  provider = "jira" /\ (issue'[i].shows = c \/ issue'[i].state = "gone")
    OBVIOUS
  <2>1. i \in IssueIds /\ issue[i] \in Issue /\ issue[i].of # f0
    BY <1>2, KnownIssue DEF Names, IssueIds
  <2> QED BY <2>1 DEF Knows, Touches
<1>5. pass[r].phase = "record" /\ pass[r].ok => ShowsIt(issue', i, c, StateOf(c))
  BY <1>2, OthersShow DEF Knows
<1> QED BY <1>3, <1>4, <1>5 DEF Knows

-----------------------------------------------------------------------------
(* A call of a pass: whatever it does to the issue of its finding, the pass *)
(* knows it.                                                                *)
LEMMA CallShows ==
  ASSUME IInv, ClaimInv, ShowInv, NEW p \in Passes, pass[p].phase \in Calling,
         Touches(pass[p].at), NEW q, Becomes(p, q), SameWork(p, q), q.phase \in Calling,
         UNCHANGED <<provider, record, ticket>>,
         hist.overrun \subseteq hist'.overrun, hist.died \subseteq hist'.died,
         pass[p].at \notin hist.overrun \cup hist.died => Knows(issue', q)
  PROVE  ShowInv'
<1> PICK f0 : f0 = pass[p].at
  OBVIOUS
<1>1. pass'[p] = q /\ \A r \in Passes \ {p} : pass'[r] = pass[r]
  BY Split DEF PassesOK, Becomes
<1>2. f0 \in Fingerprints /\ f0 \in Left(pass[p])
  BY AtACall DEF Left, Calling
<1>3. \A r \in Passes : pass'[r].at = pass[r].at /\ Left(pass'[r]) = Left(pass[r])
  BY <1>1 DEF SameWork, Left, Calling
<1>4. \A r \in Passes : pass'[r].phase = "listed" =>
        pass[r].phase = "listed" /\ pass'[r].work = pass[r].work
  BY <1>1 DEF Calling
<1>5. ASSUME NEW f \in Fingerprints \ (hist'.overrun \cup hist'.died)
      PROVE  /\ (\A r \in Passes : pass'[r].at # f) => Shows(issue', ticket[f])
             /\ \A r \in Passes : f \in Left(pass'[r]) => record[f] # None
             /\ \A r \in Passes : pass'[r].at = f => Knows(issue', pass'[r])
  <2>1. f \in Fingerprints \ (hist.overrun \cup hist.died)
    BY <1>5
  <2>2. ASSUME \A r \in Passes : pass'[r].at # f PROVE Shows(issue', ticket[f])
    <3>1. Shows(issue, ticket[f]) /\ f # f0
      BY <1>3, <2>1, <2>2 DEF ShowInv
    <3>2. ticket[f].ref \in Refs /\ Names(issue, ticket[f].ref, f)
      BY <2>1, Split DEF RestOK, Ticket
    <3> QED BY <2>1, <3>1, <3>2, OthersShow DEF Shows
  <2>3. ASSUME NEW r \in Passes, pass'[r].at = f PROVE Knows(issue', pass'[r])
    <3>1. CASE r = p
      BY <1>1, <1>3, <2>1, <2>3, <3>1
    <3>2. CASE r # p
      <4>1. pass[r].at = f /\ pass'[r] = pass[r] /\ Knows(issue, pass[r])
        BY <1>1, <2>1, <2>3, <3>2 DEF ShowInv
      <4>2. f \in Left(pass[r])
        BY <2>1, <4>1, Split DEF PassesOK, PassOK, Left, Calling
      <4>3. f # f0
        BY <1>2, <2>1, <3>2, <4>2, BusyIsLeft, TicketAssumption DEF ClaimInv
      <4> QED BY <2>1, <4>1, <4>3, OthersKnow
    <3> QED BY <3>1, <3>2
  <2>4. \A r \in Passes : f \in Left(pass'[r]) => record[f] # None
    BY <1>3, <2>1 DEF ShowInv
  <2> QED BY <2>2, <2>3, <2>4
<1>6. \A r \in Passes : pass'[r].phase = "listed" => \A f \in pass'[r].work : record[f] # None
  BY <1>4 DEF ShowInv
<1>7. \A f \in Fingerprints : Shows(issue, ticket[f])' <=> Shows(issue', ticket[f])
  BY DEF Shows, ShowsIt
<1>8. \A r \in Passes : Left(pass[r])' = Left(pass'[r])
  BY DEF Left
<1> QED BY <1>5, <1>6, <1>7, <1>8, ShowsPrimed DEF ShowInv

(* The call failed: what the pass knows stays true if it still holds now.   *)
LEMMA FailedKnows ==
  ASSUME NEW p \in Passes, pass[p] \in Pass, pass[p].phase \in Calling \ {"record"}, Failed(p)
  PROVE  \E q : /\ Becomes(p, q) /\ SameWork(p, q) /\ q.phase \in Calling
                /\ Knows(issue', pass[p]) => Knows(issue', q)
<1>1. PICK q : /\ Becomes(p, q) /\ SameWork(p, q) /\ SameSearch(p, q) /\ q.ref = pass[p].ref
               /\ q.phase = pass[p].phase \/ (q.phase = "record" /\ ~q.ok)
  BY FailedIs
<1>2. q.phase \in Calling
  BY <1>1 DEF Calling
<1>3. Knows(issue', pass[p]) => Knows(issue', q)
  BY <1>1 DEF Knows, SameWork
<1> QED BY <1>1, <1>2, <1>3

(* Whatever an update writes, it shows the content. *)
LEMMA WrittenShows ==
  ASSUME IInv, NEW p \in Passes, pass[p].phase \in {"update", "updateFound"},
         issue' = [issue EXCEPT ![pass[p].ref] = Written(pass[p].ref, Doing(p))]
  PROVE  /\ Touches(pass[p].at)
         /\ issue'[pass[p].ref].shows = Doing(p)
         /\ provider # "jira" => issue'[pass[p].ref].state = StateOf(Doing(p))
<1> DEFINE i == pass[p].ref
           x == Written(i, Doing(p))
<1>1. i \in IssueIds /\ issue[i] \in Issue /\ Names(issue, i, pass[p].at)
      /\ issue \in [IssueIds -> Issue \cup {NoIssue}]
  BY KnownIssue, AtACall, Split DEF RestOK
<1>2. i # 0
  BY <1>1, TicketAssumption DEF IssueIds
<1>3. issue[i].of = pass[p].at
  BY <1>1, <1>2 DEF Names
<1>4. x.shows = Doing(p) /\ (provider # "jira" => x.state = StateOf(Doing(p)))
  BY <1>1 DEF Written, Issue
<1> HIDE DEF x, i
<1>5. issue' = [issue EXCEPT ![i] = x]
  BY DEF x, i
<1>6. issue'[i] = x /\ \A j \in IssueIds \ {i} : issue'[j] = issue[j]
  BY <1>1, <1>5
<1>7. Touches(pass[p].at)
  BY <1>3, <1>6 DEF Touches
<1> QED BY <1>4, <1>6, <1>7 DEF i

LEMMA UpdateShows ==
  ASSUME IInv, ClaimInv, ShowInv, NEW p \in Passes, updateIssue(p)
  PROVE  ShowInv'
<1> DEFINE i == pass[p].ref
           good == pass[p].at \notin hist.overrun \cup hist.died
<1>1. /\ pass[p].phase \in {"update", "updateFound"} /\ pass[p].phase \in Calling \ {"record"}
      /\ UNCHANGED <<provider, record, ticket, hist>>
      /\ i \in IssueIds
  BY KnownIssue DEF updateIssue
<1>2. pass[p] \in Pass /\ i # 0
  BY <1>1, AtACall, TicketAssumption DEF IssueIds
<1>3. good => Knows(issue, pass[p])
  BY <1>1, AtACall DEF ShowInv
<1>4. Touches(pass[p].at)
  BY <1>1, WrittenShows DEF updateIssue, Touches
<1>5. \E q : Becomes(p, q) /\ SameWork(p, q) /\ q.phase \in Calling /\ (good => Knows(issue', q))
  <2>1. CASE Failed(p)
    <3>1. good => Knows(issue', pass[p])
      BY <1>1, <1>3 DEF Knows
    <3> QED BY <1>1, <1>2, <2>1, <3>1, FailedKnows
  <2>2. CASE Step(p, "find") /\ pass[p].phase = "update" /\ issue[i].state = "gone" /\ issue' = issue
    <3>1. PICK q : Becomes(p, q) /\ SameWork(p, q) /\ q.ref = i /\ q.phase = "find"
      BY <1>2, <2>2, StepIs
    <3>2. good => Knows(issue', q)
      BY <1>3, <2>2, <3>1 DEF Knows, SameWork
    <3> QED BY <3>1, <3>2 DEF Calling
  <2>3. CASE Becomes(p, Finished(p, FALSE, i))
    <3> DEFINE q == Finished(p, FALSE, i)
    <3>1. SameWork(p, q) /\ q.phase = "record" /\ ~q.ok
      BY <1>2 DEF Finished, Pass, SameWork
    <3>2. Becomes(p, q)
      BY <2>3
    <3> HIDE DEF q
    <3>3. Knows(issue', q)
      BY <3>1 DEF Knows
    <3> QED BY <3>1, <3>2, <3>3 DEF Calling
  <2>4. CASE issue' = [issue EXCEPT ![i] = Written(i, Doing(p))] /\ NeedsTransition(p) /\ Step(p, "transition")
    <3>1. PICK q : Becomes(p, q) /\ SameWork(p, q) /\ q.ref = i /\ q.phase = "transition"
      BY <1>2, <2>4, StepIs
    <3>2. issue'[i].shows = Doing(p)
      BY <1>1, <2>4, WrittenShows
    <3>3. Knows(issue', q)
      BY <2>4, <3>1, <3>2 DEF Knows, SameWork, Doing, NeedsTransition
    <3> QED BY <3>1, <3>3 DEF Calling
  <2>5. CASE issue' = [issue EXCEPT ![i] = Written(i, Doing(p))] /\ Becomes(p, Finished(p, TRUE, i))
    <3> DEFINE q == Finished(p, TRUE, i)
    <3>1. SameWork(p, q) /\ q.phase = "record" /\ q.ref = i
      BY <1>2 DEF Finished, Pass, SameWork
    <3>2. Becomes(p, q)
      BY <2>5
    <3> HIDE DEF q
    <3>3. issue'[i].shows = Doing(p) /\ (provider # "jira" => issue'[i].state = StateOf(Doing(p)))
      BY <1>1, <2>5, WrittenShows
    <3>4. ShowsIt(issue', i, Doing(p), StateOf(Doing(p)))
      BY <3>3 DEF ShowsIt
    <3>5. Knows(issue', q)
      BY <3>1, <3>4 DEF Knows, SameWork, Doing
    <3> QED BY <3>1, <3>2, <3>5 DEF Calling
  <2>6. \/ Failed(p)
        \/ Step(p, "find") /\ pass[p].phase = "update" /\ issue[i].state = "gone" /\ issue' = issue
        \/ Becomes(p, Finished(p, FALSE, i))
        \/ /\ issue' = [issue EXCEPT ![i] = Written(i, Doing(p))]
           /\ (NeedsTransition(p) /\ Step(p, "transition")) \/ Becomes(p, Finished(p, TRUE, i))
    BY DEF updateIssue, Succeeded
  <2> HIDE DEF i, good
  <2> QED BY <2>1, <2>2, <2>3, <2>4, <2>5, <2>6
<1>6. pass[p].phase \in Calling
  BY <1>1
<1> QED BY <1>1, <1>4, <1>5, <1>6, CallShows

LEMMA TransitionShows ==
  ASSUME IInv, ClaimInv, ShowInv, NEW p \in Passes, transitionIssue(p)
  PROVE  ShowInv'
<1> DEFINE i == pass[p].ref
           x == [issue[i] EXCEPT !.state = StateOf(Doing(p))]
           good == pass[p].at \notin hist.overrun \cup hist.died
<1>1. /\ pass[p].phase = "transition" /\ pass[p].phase \in Calling \ {"record"}
      /\ UNCHANGED <<provider, record, ticket, hist>>
      /\ i \in IssueIds /\ issue[i] \in Issue /\ issue \in [IssueIds -> Issue \cup {NoIssue}]
  BY KnownIssue, Split DEF RestOK, transitionIssue
<1>2. pass[p] \in Pass /\ i # 0 /\ issue[i].of = pass[p].at
  BY <1>1, AtACall, TicketAssumption DEF IssueIds, Names
<1>3. good => provider = "jira" /\ (issue[i].shows = Doing(p) \/ issue[i].state = "gone")
  BY <1>1, AtACall DEF ShowInv, Knows, Doing
<1>4. /\ x.of = issue[i].of /\ x.shows = issue[i].shows
      /\ (issue' = issue) \/ (issue[i].state # "gone" /\ issue' = [issue EXCEPT ![i] = x])
  BY <1>1 DEF transitionIssue, Issue
<1> HIDE DEF x
<1>5. Touches(pass[p].at)
  BY <1>1, <1>2, <1>4 DEF Touches
<1>6. good => provider = "jira" /\ (issue'[i].shows = Doing(p) \/ issue'[i].state = "gone")
  BY <1>1, <1>3, <1>4
<1>7. \E q : Becomes(p, q) /\ SameWork(p, q) /\ q.phase \in Calling /\ (good => Knows(issue', q))
  <2>1. CASE Failed(p)
    <3>1. good => Knows(issue', pass[p])
      BY <1>1, <1>6 DEF Knows, Doing
    <3> QED BY <1>1, <1>2, <2>1, <3>1, FailedKnows
  <2>2. CASE Becomes(p, Finished(p, TRUE, i))
    <3> DEFINE q == Finished(p, TRUE, i)
    <3>1. SameWork(p, q) /\ q.phase = "record" /\ q.ref = i
      BY <1>2 DEF Finished, Pass, SameWork
    <3>2. Becomes(p, q)
      BY <2>2
    <3> HIDE DEF q
    <3>3. good => ShowsIt(issue', i, Doing(p), StateOf(Doing(p)))
      BY <1>6 DEF ShowsIt
    <3>4. good => Knows(issue', q)
      BY <3>1, <3>3 DEF Knows, SameWork, Doing
    <3> HIDE DEF good
    <3> QED BY <3>1, <3>2, <3>4 DEF Calling
  <2> HIDE DEF i, good
  <2> QED BY <2>1, <2>2 DEF transitionIssue, Succeeded, i
<1>8. pass[p].phase \in Calling
  BY <1>1
<1> QED BY <1>1, <1>5, <1>7, <1>8, CallShows

LEMMA FindShows ==
  ASSUME IInv, ClaimInv, ShowInv, NEW p \in Passes, findIssue(p)
  PROVE  ShowInv'
<1> DEFINE good == pass[p].at \notin hist.overrun \cup hist.died
<1>1. /\ pass[p].phase = "find" /\ pass[p].phase \in Calling
      /\ UNCHANGED <<provider, record, ticket, issue, hist>>
  BY DEF findIssue, Calling
<1>2. pass[p] \in Pass /\ pass[p].at \in Fingerprints /\ Doing(p) \in Contents
  BY <1>1, AtACall
<1>3. good => Before(p).ref = 0 \/ issue'[Before(p).ref].state = "gone"
  BY <1>1, <1>2 DEF ShowInv, Knows, Before
<1>4. Touches(pass[p].at)
  BY <1>1 DEF Touches
<1>5. \E q : Becomes(p, q) /\ SameWork(p, q) /\ q.phase \in Calling /\ (good => Knows(issue', q))
  <2>1. ASSUME NEW scan, SearchFailed(p, scan)
        PROVE  \E q : Becomes(p, q) /\ SameWork(p, q) /\ q.phase \in Calling /\ (good => Knows(issue', q))
    <3>1. PICK q : Becomes(p, q) /\ SameWork(p, q) /\ q.phase = "record" /\ ~q.ok
      BY <1>2, <2>1, SearchFailedIs
    <3>2. Knows(issue', q)
      BY <3>1 DEF Knows
    <3> QED BY <3>1, <3>2 DEF Calling
  <2>2. ASSUME NEW i, NEW scan, NEW marks, Found(p, i, scan, marks)
        PROVE  \E q : Becomes(p, q) /\ SameWork(p, q) /\ q.phase \in Calling /\ (good => Knows(issue', q))
    <3>1. PICK q : /\ Becomes(p, q) /\ SameWork(p, q)
                   /\ \/ q.phase = "updateFound"
                      \/ q.phase = "record" /\ q.ref = Before(p).ref
                      \/ q.phase = "create" /\ Doing(p) \notin ClosedContents
      <4>1. PICK q : /\ Becomes(p, q) /\ SameWork(p, q) /\ q.scan = scan /\ q.markers = marks
                     /\ \/ i # 0 /\ q.phase = "updateFound" /\ q.ref = i
                        \/ i = 0 /\ q.phase = "record" /\ q.ref = Before(p).ref
                        \/ i = 0 /\ q.phase = "create" /\ Doing(p) \notin ClosedContents
        BY <1>2, <2>2, FoundIs
      <4> QED BY <4>1
    <3>2. good /\ q.phase = "record" => ShowsIt(issue', q.ref, Doing(p), StateOf(Doing(p)))
      BY <1>3, <3>1 DEF ShowsIt
    <3>3. q.phase = "create" => Doing(p) \in OpenContents
      BY <1>2, <3>1 DEF Contents
    <3>4. good => Knows(issue', q)
      BY <3>1, <3>2, <3>3 DEF Knows, SameWork, Doing
    <3> HIDE DEF good
    <3> QED BY <3>1, <3>4 DEF Calling
  <2> QED BY <2>1, <2>2 DEF findIssue
<1> QED BY <1>1, <1>4, <1>5, CallShows

LEMMA CreateShows ==
  ASSUME IInv, ClaimInv, ShowInv, NEW p \in Passes, createIssue(p)
  PROVE  ShowInv'
<1>0. PICK f0 : f0 = pass[p].at
  OBVIOUS
<1> DEFINE i == Oldest(Unused)
           x == [of |-> f0, shows |-> Doing(p), state |-> "open"]
           good == f0 \notin hist.overrun \cup hist.died
<1>1. /\ pass[p].phase = "create" /\ pass[p].phase \in Calling \ {"record"} /\ pass[p].phase \in Calling
      /\ UNCHANGED <<provider, record, ticket>>
      /\ hist.overrun \subseteq hist'.overrun /\ hist.died \subseteq hist'.died
      /\ issue \in [IssueIds -> Issue \cup {NoIssue}]
  BY Split DEF createIssue, Calling, RestOK
<1>2. /\ pass[p] \in Pass /\ f0 \in Fingerprints /\ Doing(p) \in Contents
      /\ pass[p].markers \in [Fingerprints -> Refs]
  BY <1>0, <1>1, AtACall
<1>3. good => Doing(p) \in OpenContents
  BY <1>0, <1>1, <1>2 DEF ShowInv, Knows, Doing
<1>4. x \in Issue /\ x # NoIssue /\ NoIssue \notin Issue
  BY <1>2, TicketAssumption DEF Issue, NoIssue
<1>5. Unused # {} => i \in IssueIds /\ issue[i] = NoIssue
  <2>1. Unused \in SUBSET IssueIds
    BY DEF Unused
  <2>2. Unused # {} => i \in Unused
    BY <2>1, OldestOfSome
  <2> QED BY <2>1, <2>2 DEF Unused
<1>6. Touches(f0)
  <2>1. issue' = issue \/ (Unused # {} /\ issue' = [issue EXCEPT ![i] = x])
    BY <1>0 DEF createIssue
  <2> HIDE DEF x, i
  <2> QED BY <1>1, <1>4, <1>5, <2>1 DEF Touches
<1>7. \E q : Becomes(p, q) /\ SameWork(p, q) /\ q.phase \in Calling /\ (good => Knows(issue', q))
  <2>1. CASE Failed(p)
    <3>1. good => Knows(issue', pass[p])
      BY <1>1, <1>3 DEF Knows, Doing
    <3> QED BY <1>1, <1>2, <2>1, <3>1, FailedKnows
  <2>2. CASE /\ Unused # {} /\ issue' = [issue EXCEPT ![i] = x]
             /\ Becomes(p, [Finished(p, TRUE, i) EXCEPT !.markers =
                              IF pass[p].scan = "done" THEN [@ EXCEPT ![f0] = i] ELSE @])
    <3> DEFINE marks == IF pass[p].scan = "done" THEN [pass[p].markers EXCEPT ![f0] = i]
                        ELSE pass[p].markers
               q == [Finished(p, TRUE, i) EXCEPT !.markers = marks]
    <3>1. issue'[i].shows = Doing(p) /\ issue'[i].state = "open"
      <4>1. x.shows = Doing(p) /\ x.state = "open"
        OBVIOUS
      <4> HIDE DEF x, i
      <4> QED BY <1>1, <1>5, <2>2, <4>1
    <3>2. good => ShowsIt(issue', i, Doing(p), StateOf(Doing(p)))
      BY <1>3, <3>1 DEF ShowsIt, StateOf
    <3> HIDE DEF i, x
    <3>3. Finished(p, TRUE, i).markers = pass[p].markers
      BY <1>2 DEF Finished, Pass
    <3>4. Becomes(p, q)
      BY <2>2, <3>3
    <3> HIDE DEF marks
    <3>5. SameWork(p, q) /\ q.phase = "record" /\ q.ref = i
      BY <1>2 DEF Finished, Pass, SameWork
    <3> HIDE DEF q
    <3>6. good => Knows(issue', q)
      BY <3>2, <3>5 DEF Knows, SameWork, Doing
    <3> HIDE DEF good
    <3> QED BY <3>4, <3>5, <3>6 DEF Calling
  <2> QED BY <1>0, <2>1, <2>2 DEF createIssue
<1> QED BY <1>0, <1>1, <1>6, <1>7, CallShows

-----------------------------------------------------------------------------
(* The other steps of a pass leave the issues alone. *)

(* The pass takes on nothing and is at no finding, or just turned to one    *)
(* that was left and knows of its issue what the next call relies on.       *)
LEMMA RestShows ==
  ASSUME IInv, ClaimInv, ShowInv, NEW p \in Passes, NEW q, Becomes(p, q),
         UNCHANGED <<provider, record, issue>>,
         hist.overrun \subseteq hist'.overrun, hist.died \subseteq hist'.died,
         q.phase = "listed" => \A f \in q.work : record[f] # None,
         \A f \in Left(q) : f \in Left(pass[p]) \/ record[f] # None,
         q.at \in Fingerprints \ (hist'.overrun \cup hist'.died) => Knows(issue, q),
         \A f \in Fingerprints \ (hist'.overrun \cup hist'.died) :
           f # q.at => IF f = pass[p].at THEN Shows(issue, ticket'[f]) ELSE ticket'[f] = ticket[f]
  PROVE  ShowInv'
<1>1. pass'[p] = q /\ \A r \in Passes \ {p} : pass'[r] = pass[r]
  BY Split DEF PassesOK, Becomes
<1>2. ASSUME NEW f \in Fingerprints \ (hist'.overrun \cup hist'.died)
      PROVE  /\ (\A r \in Passes : pass'[r].at # f) => Shows(issue', ticket'[f])
             /\ \A r \in Passes : f \in Left(pass'[r]) => record[f] # None
             /\ \A r \in Passes : pass'[r].at = f => Knows(issue', pass'[r])
  <2>1. f \in Fingerprints \ (hist.overrun \cup hist.died)
    BY <1>2
  <2>2. ASSUME \A r \in Passes : pass'[r].at # f PROVE Shows(issue', ticket'[f])
    <3>1. f # q.at
      BY <1>1, <2>2
    <3>2. CASE f = pass[p].at
      BY <1>2, <3>1, <3>2
    <3>3. CASE f # pass[p].at
      <4>1. \A r \in Passes : pass[r].at # f
        BY <1>1, <2>2, <3>3
      <4> QED BY <1>2, <2>1, <3>1, <3>3, <4>1 DEF ShowInv
    <3> QED BY <3>2, <3>3
  <2>3. ASSUME NEW r \in Passes, pass'[r].at = f PROVE Knows(issue', pass'[r])
    <3>1. CASE r = p
      BY <1>1, <1>2, <2>3, <3>1
    <3>2. CASE r # p
      BY <1>1, <2>1, <2>3, <3>2 DEF ShowInv
    <3> QED BY <3>1, <3>2
  <2>4. \A r \in Passes : f \in Left(pass'[r]) => record[f] # None
    BY <1>1, <2>1 DEF ShowInv
  <2> QED BY <2>2, <2>3, <2>4
<1>3. \A r \in Passes : pass'[r].phase = "listed" => \A f \in pass'[r].work : record[f] # None
  BY <1>1 DEF ShowInv
<1>4. \A f \in Fingerprints : Shows(issue, ticket[f])' <=> Shows(issue', ticket'[f])
  BY DEF Shows, ShowsIt
<1>5. \A r \in Passes : Left(pass[r])' = Left(pass'[r])
  BY DEF Left
<1> QED BY <1>2, <1>3, <1>4, <1>5, ShowsPrimed DEF ShowInv

LEMMA NotCalling ==
  ASSUME IInv, NEW p \in Passes, pass[p].phase \notin Calling
  PROVE  pass[p].at \notin Fingerprints
BY Split DEF PassesOK, PassOK

LEMMA IdleShows ==
  ASSUME NEW ph \in {"over", "dead"}
  PROVE  Idle(ph).phase = ph /\ Left(Idle(ph)) = {} /\ Idle(ph).at \notin Fingerprints
BY TicketAssumption DEF Idle, Left

LEMMA ListShows ==
  ASSUME IInv, ClaimInv, ShowInv, NEW p \in Passes, listWork(p)
  PROVE  ShowInv'
<1>1. /\ pass[p] \in Pass /\ pass[p].phase = "new"
      /\ UNCHANGED <<provider, record, ticket, issue, hist>>
  BY Split DEF PassesOK, listWork
<1>2. PICK W \in SUBSET {f \in Fingerprints : NeedsSync(f)} : \E item :
        Becomes(p, [pass[p] EXCEPT !.phase = "listed", !.work = W, !.item = item])
  BY DEF listWork
<1> PICK item : Becomes(p, [pass[p] EXCEPT !.phase = "listed", !.work = W, !.item = item])
  BY <1>2
<1> DEFINE q == [pass[p] EXCEPT !.phase = "listed", !.work = W, !.item = item]
<1>3. q.phase = "listed" /\ q.work = W /\ q.at = pass[p].at
  BY <1>1 DEF Pass
<1>4. Becomes(p, q)
  OBVIOUS
<1> HIDE DEF q
<1>5. pass[p].at \notin Fingerprints
  BY <1>1, NotCalling DEF Calling
<1>6. Left(q) = {} /\ \A f \in q.work : record[f] # None
  BY <1>3 DEF Left, NeedsSync
<1> QED BY <1>1, <1>3, <1>4, <1>5, <1>6, RestShows

LEMMA GrantShows ==
  ASSUME IInv, ClaimInv, ShowInv, NEW p \in Passes, claimFindingTickets(p)
  PROVE  ShowInv'
<1> DEFINE granted == {f \in pass[p].work : Grantable(f)}
           q == [pass[p] EXCEPT !.phase = "next", !.work = granted]
<1>1. /\ pass[p] \in Pass /\ pass[p].phase = "listed"
      /\ UNCHANGED <<provider, record, ticket, issue>>
      /\ hist.overrun \subseteq hist'.overrun /\ hist.died \subseteq hist'.died
  BY Split DEF PassesOK, RestOK, claimFindingTickets
<1>2. pass[p].at \notin Fingerprints /\ \A f \in granted : record[f] # None
  BY <1>1, NotCalling DEF Calling, ShowInv
<1>3. CASE Becomes(p, Idle("over"))
  BY <1>1, <1>2, <1>3, IdleShows, RestShows
<1>4. CASE Becomes(p, q)
  <2>1. q.phase = "next" /\ q.work = granted /\ q.at = pass[p].at
    BY <1>1 DEF Pass
  <2> HIDE DEF q, granted
  <2>2. \A f \in Left(q) : record[f] # None
    BY <1>2, <2>1 DEF Left
  <2> QED BY <1>1, <1>2, <1>4, <2>1, <2>2, RestShows
<1> QED BY <1>3, <1>4 DEF claimFindingTickets

LEMMA NextItemShows ==
  ASSUME IInv, ClaimInv, ShowInv, NEW p \in Passes, nextItem(p)
  PROVE  ShowInv'
<1>1. /\ pass[p] \in Pass /\ pass[p].phase = "next"
      /\ UNCHANGED <<provider, record, ticket, issue, hist>>
  BY Split DEF PassesOK, nextItem
<1>2. PICK f0 \in pass[p].work :
        Becomes(p, [pass[p] EXCEPT !.work = @ \ {f0}, !.at = f0, !.ref = pass[p].item[f0].previous.ref,
                      !.tries = 0, !.phase = IF pass[p].item[f0].previous.ref # 0 THEN "update" ELSE "find"])
  BY DEF nextItem
<1> DEFINE q == [pass[p] EXCEPT !.work = @ \ {f0}, !.at = f0, !.ref = pass[p].item[f0].previous.ref,
                   !.tries = 0, !.phase = IF pass[p].item[f0].previous.ref # 0 THEN "update" ELSE "find"]
<1>3. /\ q.work = pass[p].work \ {f0} /\ q.at = f0 /\ q.item = pass[p].item
      /\ q.ref = pass[p].item[f0].previous.ref
      /\ q.phase = IF pass[p].item[f0].previous.ref # 0 THEN "update" ELSE "find"
  BY <1>1 DEF Pass
<1>4. Becomes(p, q)
  BY <1>2
<1> HIDE DEF q
<1>5. pass[p].at \notin Fingerprints
  BY <1>1, NotCalling DEF Calling
<1>6. \A f \in Left(q) : f \in Left(pass[p])
  BY <1>1, <1>3 DEF Left
<1>7. Knows(issue, q)
  BY <1>3 DEF Knows
<1> QED BY <1>1, <1>3, <1>4, <1>5, <1>6, <1>7, RestShows

LEMMA CompleteShows ==
  ASSUME IInv, ClaimInv, ShowInv, NEW p \in Passes, completeFindingTicketClaim(p)
  PROVE  ShowInv'
<1> DEFINE f0 == pass[p].at
           q == [pass[p] EXCEPT !.phase = "next", !.at = None]
<1>1. /\ pass[p].phase = "record" /\ pass[p].phase \in Calling
      /\ UNCHANGED <<provider, record, issue, hist>>
      /\ ticket \in [Fingerprints -> Ticket]
  BY Split DEF RestOK, completeFindingTicketClaim, Calling
<1>2. pass[p] \in Pass /\ f0 \in Fingerprints /\ Before(p) \in Ticket /\ f0 \in Left(pass[p])
  BY <1>1, AtACall DEF Left, Calling
<1>3. \A f \in Fingerprints \ {f0} : ticket'[f] = ticket[f]
  BY <1>1 DEF completeFindingTicketClaim
<1>4. ASSUME f0 \notin hist'.overrun \cup hist'.died
      PROVE  Shows(issue, ticket'[f0])
  <2>1. Holds(p, f0) /\ record[f0] # None
    BY <1>1, <1>2, <1>4, BusyIsLeft DEF ClaimInv, ShowInv, Holds
  <2>2. ticket'[f0] = Result(p)
    BY <1>1, <1>2, <2>1 DEF completeFindingTicketClaim
  <2>3. CASE pass[p].ok
    <3>1. ShowsIt(issue, pass[p].ref, Doing(p), StateOf(Doing(p)))
      BY <1>1, <1>2, <1>4, <2>3 DEF ShowInv, Knows, Doing
    <3> QED BY <2>2, <2>3, <3>1 DEF Result, Shows
  <2>4. CASE ~pass[p].ok
    <3>1. Result(p).error
      BY <1>2, <2>4 DEF Result, Ticket
    <3> QED BY <2>2, <3>1 DEF Shows
  <2> QED BY <2>3, <2>4
<1>5. CASE Becomes(p, Idle("over"))
  BY <1>1, <1>3, <1>4, <1>5, IdleShows, RestShows
<1>6. CASE Becomes(p, q)
  <2>1. q.phase = "next" /\ q.at = None /\ q.work = pass[p].work
    BY <1>2 DEF Pass
  <2>2. q.at \notin Fingerprints
    BY <2>1, TicketAssumption
  <2>3. \A f \in Left(q) : f \in Left(pass[p])
    BY <1>1, <2>1, <2>2 DEF Left
  <2> HIDE DEF q
  <2> QED BY <1>1, <1>3, <1>4, <1>6, <2>1, <2>2, <2>3, RestShows
<1> QED BY <1>5, <1>6 DEF completeFindingTicketClaim

LEMMA EndShows ==
  ASSUME IInv, ClaimInv, ShowInv, NEW p \in Passes, releaseFindingTicketClaims(p) \/ passDies(p)
  PROVE  ShowInv'
<1>1. UNCHANGED <<provider, record, ticket, issue>>
  BY DEF releaseFindingTicketClaims, passDies
<1>2. hist.overrun \subseteq hist'.overrun /\ hist.died \subseteq hist'.died
  BY Split DEF RestOK, releaseFindingTicketClaims, passDies
<1>3. pass[p].at \in Fingerprints => pass[p].at \in hist'.died
  <2>1. pass[p].at \in Fingerprints => pass[p].phase \in Calling
    BY NotCalling
  <2>2. pass[p].at \in Fingerprints => pass[p].at \in Busy(p)
    BY <2>1, BusyIsLeft DEF Left, Calling
  <2> QED BY <2>2, Split DEF RestOK, releaseFindingTicketClaims, passDies
<1>4. Becomes(p, Idle("over")) \/ Becomes(p, Idle("dead"))
  BY DEF releaseFindingTicketClaims, passDies
<1>5. ASSUME NEW ph \in {"over", "dead"}, Becomes(p, Idle(ph))
      PROVE  ShowInv'
  BY <1>1, <1>2, <1>3, <1>5, IdleShows, RestShows
<1> QED BY <1>4, <1>5

-----------------------------------------------------------------------------
(* Merges, people and time. *)

LEMMA MergeShows ==
  ASSUME IInv, ClaimInv, ShowInv, NEW f0 \in Fingerprints, NEW c \in Contents \cup {None},
         saveFindingLifecycle(f0, c)
  PROVE  ShowInv'
<1>1. /\ UNCHANGED <<provider, lock, pass, issue>> /\ lock = NoPass
      /\ record' = [record EXCEPT ![f0] = c] /\ record \in [Fingerprints -> Contents \cup {None}]
      /\ ticket \in [Fingerprints -> Ticket]
  BY Split DEF RestOK, saveFindingLifecycle
<1>2. hist.overrun \subseteq hist'.overrun /\ hist.died \subseteq hist'.died
  BY Split DEF RestOK, saveFindingLifecycle
<1>3. \A p \in Passes : pass[p].phase # "listed"
  BY <1>1, TicketAssumption, Split DEF PassesOK
<1>4. ASSUME NEW p \in Passes, NEW f \in Left(pass[p]), f \in Fingerprints \ (hist'.overrun \cup hist'.died)
      PROVE  record'[f] # None
  <2>1. record[f] # None /\ claim[f].by = p /\ f \in Busy(p)
    BY <1>2, <1>4, BusyIsLeft DEF ShowInv, ClaimInv
  <2>2. CASE f = f0 /\ c = None
    <3>1. Overrun(f)
      BY <2>1 DEF Overrun
    <3>2. f \in hist'.overrun
      BY <2>2, <3>1, Split DEF RestOK, saveFindingLifecycle
    <3> QED BY <1>4, <3>2
  <2> QED BY <1>1, <2>1, <2>2
<1>5. ASSUME NEW f \in Fingerprints, Shows(issue, ticket[f])
      PROVE  Shows(issue, ticket'[f])
  <2>1. ticket'[f] = ticket[f] \/ ticket'[f] = NoTicket
    BY <1>1 DEF saveFindingLifecycle
  <2> QED BY <1>5, <2>1 DEF Shows, ShowsIt, NoTicket
<1>6. /\ \A f \in Fingerprints : Shows(issue, ticket[f])' <=> Shows(issue, ticket'[f])
      /\ \A p \in Passes : Knows(issue, pass[p])' <=> Knows(issue, pass[p])
      /\ \A p \in Passes : Left(pass[p])' = Left(pass[p])
  BY <1>1 DEF Shows, ShowsIt, Knows, Left
<1> QED BY <1>1, <1>2, <1>3, <1>4, <1>5, <1>6 DEF ShowInv

LEMMA DeleteShows ==
  ASSUME IInv, ClaimInv, ShowInv, NEW i \in IssueIds, deleteIssue(i)
  PROVE  ShowInv'
<1>1. UNCHANGED <<provider, record, ticket, pass, hist>> /\ issue \in [IssueIds -> Issue \cup {NoIssue}]
  BY Split DEF RestOK, deleteIssue
<1>2. issue[i] \in Issue
  BY <1>1 DEF deleteIssue, NoIssue
<1>3. \A j \in IssueIds : issue'[j] = issue[j] \/ issue'[j].state = "gone"
  <2> DEFINE x == [issue[i] EXCEPT !.state = "gone"]
  <2>1. issue' = [issue EXCEPT ![i] = x] /\ x.state = "gone"
    BY <1>2 DEF deleteIssue, Issue
  <2> HIDE DEF x
  <2> QED BY <1>1, <2>1
<1>4. \A j \in Refs : j = 0 \/ j \in IssueIds
  BY TicketAssumption DEF Refs, IssueIds
<1>5. ASSUME NEW f \in Fingerprints, Shows(issue, ticket[f])
      PROVE  Shows(issue', ticket[f])
  <2>1. ticket[f].ref \in Refs
    BY Split DEF RestOK, Ticket
  <2> QED BY <1>3, <1>4, <1>5, <2>1 DEF Shows, ShowsIt
<1>6. ASSUME NEW p \in Passes, pass[p].at \in Fingerprints, Knows(issue, pass[p])
      PROVE  Knows(issue', pass[p])
  <2>1. pass[p].phase \in Calling
    BY <1>6, NotCalling
  <2>2. /\ pass[p].ref \in Refs /\ pass[p].item[pass[p].at].previous.ref \in Refs
        /\ pass[p].phase = "transition" => pass[p].ref \in IssueIds
    BY <2>1, AtACall DEF Before
  <2> QED BY <1>3, <1>4, <1>6, <2>2 DEF Knows, ShowsIt
<1>7. /\ \A f \in Fingerprints : Shows(issue, ticket[f])' <=> Shows(issue', ticket[f])
      /\ \A p \in Passes : Knows(issue, pass[p])' <=> Knows(issue', pass[p])
      /\ \A p \in Passes : Left(pass[p])' = Left(pass[p])
  BY <1>1 DEF Shows, ShowsIt, Knows, Left
<1> QED BY <1>1, <1>5, <1>6, <1>7 DEF ShowInv

LEMMA ShowInvariance == Spec => []ShowInv
<1>1. Init => ShowInv
  <2> SUFFICES ASSUME Init PROVE ShowInv
    OBVIOUS
  <2>1. \A p \in Passes : pass[p].phase = "new" /\ pass[p].at = None /\ Left(pass[p]) = {}
    BY DEF Init, Idle, Left
  <2>2. \A f \in Fingerprints : Shows(issue, ticket[f]) /\ f # None
    BY TicketAssumption DEF Init, NoTicket, Shows, ShowsIt
  <2> QED BY <2>1, <2>2 DEF ShowInv
<1>2. IInv /\ ClaimInv /\ ShowInv /\ [Next]_vars => ShowInv'
  <2> SUFFICES ASSUME IInv, ClaimInv, ShowInv, [Next]_vars PROVE ShowInv'
    OBVIOUS
  <2>1. CASE UNCHANGED vars \/ \E f \in Fingerprints : leaseExpires(f)
    <3>1. UNCHANGED <<record, ticket, issue, pass, provider>>
          /\ hist.overrun \subseteq hist'.overrun /\ hist.died \subseteq hist'.died
      BY <2>1, Split DEF leaseExpires, vars, RestOK
    <3>2. /\ \A f \in Fingerprints : Shows(issue, ticket[f])' <=> Shows(issue, ticket[f])
          /\ \A p \in Passes : /\ Knows(issue, pass[p])' <=> Knows(issue, pass[p])
                               /\ Left(pass[p])' = Left(pass[p])
      BY <3>1 DEF Shows, ShowsIt, Knows, Left
    <3> QED BY <3>1, <3>2 DEF ShowInv
  <2> QED BY <2>1, FindShows, CreateShows, UpdateShows, TransitionShows, ListShows, GrantShows,
             NextItemShows, CompleteShows, EndShows, MergeShows, DeleteShows DEF Next
<1> QED BY <1>1, <1>2, ReferencesCorrect, ClaimsHold, PTL DEF Spec

(* An unchanged digest is skipped, for a good reason: whatever passes at    *)
(* once, failed calls, merges and deleted issues do, the issue of a finding *)
(* no pass is at shows what its ticket says, unless a pass died on it or    *)
(* outlived its claim.                                                      *)
THEOREM IssueShowsTicketTheorem == Spec => []IssueShowsTicket
<1>1. IInv /\ ShowInv => IssueShowsTicket
  <2> SUFFICES ASSUME IInv, ShowInv, NEW f \in Fingerprints \ (hist.overrun \cup hist.died),
                      ticket[f].ref # 0, ~ticket[f].error, \A p \in Passes : f \notin Busy(p),
                      issue[ticket[f].ref].state # "gone"
               PROVE  /\ issue[ticket[f].ref].of = f /\ issue[ticket[f].ref].shows = ticket[f].sha
                      /\ provider = "github-issues" => issue[ticket[f].ref].state = ticket[f].state
    BY DEF IssueShowsTicket
  <2>1. ASSUME NEW p \in Passes PROVE pass[p].at # f
    <3>1. pass[p].at = f => pass[p].phase \in Calling
      BY NotCalling
    <3> QED BY <3>1, BusyIsLeft DEF Left, Calling
  <2>2. Shows(issue, ticket[f])
    BY <2>1 DEF ShowInv
  <2>3. Names(issue, ticket[f].ref, f)
    BY Split DEF RestOK
  <2> QED BY <2>2, <2>3 DEF Shows, ShowsIt, Names
<1> QED BY <1>1, ReferencesCorrect, ShowInvariance, PTL

=============================================================================
