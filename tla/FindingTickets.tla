---------------------------- MODULE FindingTickets ----------------------------
(***************************************************************************)
(* Ticket passes (syncFindingTickets): each brings the issues of one       *)
(* provider in line with the lifecycle records.  A pass lists the records  *)
(* and claims its work under the lifecycle lock, releases the lock, calls  *)
(* the provider for one finding after the other and records each result    *)
(* only while its claim still holds.                                       *)
(*                                                                         *)
(* Passes run at the same time: after accepted scanner runs and from       *)
(* monitoring, in every process.  A claim is a lease and may lapse under a *)
(* slow pass; a pass may die anywhere; a reply of the provider may get     *)
(* lost after the request was carried out, and withRetry then sends it     *)
(* again.  Merges (module FindingsLifecycle) change, add and remove        *)
(* records under the lock and never write tickets.                         *)
(*                                                                         *)
(* A content stands for everything a provider renders of a record, its     *)
(* digest and the state the issue should have.  Providers are external:    *)
(* GitHub issues and Jira, as ticketing.ts calls them.                     *)
(***************************************************************************)
EXTENDS Integers, FiniteSets

CONSTANTS
  Fingerprints,    \* root causes
  Passes,          \* ticket passes; a pass runs once, its name is its claim id
  NoPass,
  OpenContents,    \* contents that ask for an open issue
  ClosedContents,  \* contents that ask for a closed one
  None,            \* no record, no digest, no finding
  Providers,       \* "github-issues", "jira"
  PassLimit,       \* MAX_TICKET_SYNCS_PER_PASS
  MaxAttempts,     \* attempts of withRetry
  MaxIssues,       \* bound: issues the provider ever holds
  MaxMerges        \* bound: changes of records

Contents == OpenContents \cup ClosedContents

ASSUME TicketAssumption ==
  /\ IsFiniteSet(Fingerprints)
  /\ NoPass \notin Passes /\ None \notin Contents \cup Fingerprints
  /\ OpenContents \cap ClosedContents = {}
  /\ Providers \subseteq {"github-issues", "jira"}
  /\ PassLimit \in Nat \ {0} /\ MaxAttempts \in Nat \ {0}
  /\ MaxIssues \in Nat /\ MaxMerges \in Nat

VARIABLES
  provider,  \* the provider this is about; each has its own tickets and claims
  record,    \* finding -> content its lifecycle record renders to
  ticket,    \* finding -> tickets[provider] of its record
  claim,     \* finding_ticket_claims: holder and whether the lease is over
  lock,      \* the lifecycle lock, while a pass lists and claims
  pass,      \* progress of each pass
  issue,     \* the provider's issues
  merges,    \* changes of records so far
  hist       \* history: findings with a lost reply, an overrun, a dead pass; last claims

vars == <<provider, record, ticket, claim, lock, pass, issue, merges, hist>>

Refs     == 0 .. MaxIssues
IssueIds == 1 .. MaxIssues

Ticket == [ref : Refs, state : {"none", "open", "closed"}, sha : Contents \cup {None},
           error : BOOLEAN]

NoTicket == [ref |-> 0, state |-> "none", sha |-> None, error |-> FALSE]

StateOf(c) == IF c \in OpenContents THEN "open" ELSE "closed"

(* An issue is absent, or was deleted by a person, or shows a content. *)
Issue == [of : Fingerprints, shows : Contents, state : {"open", "closed", "gone"}]

NoIssue == [of |-> None, shows |-> None, state |-> "absent"]

NoClaim == [by |-> NoPass, lapsed |-> FALSE]

(* What a pass listed of a finding. *)
Item == [content : Contents, previous : Ticket]

(* Where a pass is: the calls for one finding, and before and after them. *)
Calling == {"update", "find", "updateFound", "create", "transition", "record"}
Phases  == Calling \cup {"new", "listed", "next", "over", "dead"}

(* A pass: what is left of its list, what it listed, the finding it is at   *)
(* with the issue it knows, the failed attempts and the outcome of its      *)
(* call, and the session's scan: 0 or the issue found for each finding.     *)
Pass == [phase : Phases, work : SUBSET Fingerprints, item : [Fingerprints -> Item \cup {None}],
         at : Fingerprints \cup {None}, ref : Refs, tries : Nat, ok : BOOLEAN,
         scan : {"no", "done", "failed"}, markers : [Fingerprints -> Refs]]

(* A pass with nothing in hand. *)
Idle(ph) == [phase |-> ph, work |-> {}, item |-> [f \in Fingerprints |-> None], at |-> None,
             ref |-> 0, tries |-> 0, ok |-> FALSE, scan |-> "no",
             markers |-> [f \in Fingerprints |-> 0]]

PassOK(q) ==
  /\ q.tries < MaxAttempts
  /\ \A f \in q.work : q.item[f] \in Item
  /\ q.at \in Fingerprints => q.item[q.at] \in Item
  /\ q.phase \in Calling <=> q.at \in Fingerprints
  /\ q.phase \in {"update", "updateFound", "transition"} => q.ref \in IssueIds

Current(p) == {pass[p].at} \cap Fingerprints

Live(p) == pass[p].phase \notin {"new", "over", "dead"}

Issues(f) == {i \in IssueIds : issue[i].of = f}

Standing(f) == {i \in Issues(f) : issue[i].state # "gone"}

TypeOK ==
  /\ provider \in Providers
  /\ record \in [Fingerprints -> Contents \cup {None}]
  /\ ticket \in [Fingerprints -> Ticket]
  /\ claim \in [Fingerprints -> [by : Passes \cup {NoPass}, lapsed : BOOLEAN]]
  /\ lock \in Passes \cup {NoPass}
  /\ pass \in [Passes -> Pass]
  /\ \A p \in Passes :
       PassOK(pass[p]) /\ (lock = p <=> pass[p].phase = "listed")
  /\ issue \in [IssueIds -> Issue \cup {NoIssue}]
  /\ merges \in Nat
  /\ hist \in [lost : SUBSET Fingerprints, overrun : SUBSET Fingerprints, died : SUBSET Fingerprints,
               last : [Fingerprints -> Passes \cup {NoPass}]]

Init ==
  /\ provider \in Providers
  /\ record = [f \in Fingerprints |-> None]
  /\ ticket = [f \in Fingerprints |-> NoTicket]
  /\ claim = [f \in Fingerprints |-> NoClaim]
  /\ lock = NoPass
  /\ pass = [p \in Passes |-> Idle("new")]
  /\ issue = [i \in IssueIds |-> NoIssue]
  /\ merges = 0
  /\ hist = [lost |-> {}, overrun |-> {}, died |-> {}, last |-> [f \in Fingerprints |-> NoPass]]

-----------------------------------------------------------------------------
(* Merges, people and time. *)

(* The findings a live pass p still has to finish. *)
Busy(p) == IF Live(p) /\ pass[p].phase # "listed"
           THEN pass[p].work \cup Current(p) ELSE {}

(* f's claim is taken from a pass that has not finished with f. *)
Overrun(f) == \E p \in Passes : claim[f].by = p /\ f \in Busy(p)

(* A merge writes a record, or removes it with its claim. *)
saveFindingLifecycle(f, c) ==
  /\ lock = NoPass /\ merges < MaxMerges
  /\ merges' = merges + 1
  /\ c # record[f] /\ record' = [record EXCEPT ![f] = c]
  /\ IF c = None
     THEN /\ ticket' = [ticket EXCEPT ![f] = NoTicket]
          /\ claim' = [claim EXCEPT ![f] = NoClaim]
          /\ hist' = [hist EXCEPT !.overrun = @ \cup {g \in {f} : Overrun(g)}]
     ELSE UNCHANGED <<ticket, claim, hist>>
  /\ UNCHANGED <<provider, lock, pass, issue>>

(* Ten minutes after it was taken. *)
leaseExpires(f) ==
  /\ claim[f].by # NoPass /\ ~claim[f].lapsed
  /\ claim' = [claim EXCEPT ![f].lapsed = TRUE]
  /\ UNCHANGED <<provider, record, ticket, lock, pass, issue, merges, hist>>

(* A person deletes an issue. *)
deleteIssue(i) ==
  /\ issue[i].state \in {"open", "closed"}
  /\ issue' = [issue EXCEPT ![i].state = "gone"]
  /\ UNCHANGED <<provider, record, ticket, claim, lock, pass, merges, hist>>

-----------------------------------------------------------------------------
(* Choosing and claiming the work, under the lifecycle lock. *)

Becomes(p, q) == pass' = [pass EXCEPT ![p] = q]

NeedsSync(f) ==
  /\ record[f] # None
  /\ ~(ticket[f] = NoTicket /\ record[f] \in ClosedContents)
  /\ ~(ticket[f] # NoTicket /\ ~ticket[f].error /\ ticket[f].sha = record[f])

listWork(p) ==
  /\ pass[p].phase = "new" /\ lock = NoPass
  /\ \E W \in SUBSET {f \in Fingerprints : NeedsSync(f)} :
       /\ Cardinality(W) <= PassLimit
       /\ W = {f \in Fingerprints : NeedsSync(f)} \/ Cardinality(W) = PassLimit
       /\ W # {}
       /\ Becomes(p, [pass[p] EXCEPT !.phase = "listed", !.work = W,
                     !.item = [f \in Fingerprints |-> IF f \in W
                                     THEN [content |-> record[f], previous |-> ticket[f]] ELSE None]])
  /\ lock' = p
  /\ UNCHANGED <<provider, record, ticket, claim, issue, merges, hist>>

(* Mutant: a claim is granted whoever holds it. *)
GrantableAlways(f) == TRUE

Grantable(f) == claim[f].by = NoPass \/ claim[f].lapsed

(* What another pass holds is left to it; then the lock is released. *)
claimFindingTickets(p) ==
  LET granted == {f \in pass[p].work : Grantable(f)} IN
  /\ pass[p].phase = "listed"
  /\ claim' = [f \in Fingerprints |-> IF f \in granted THEN [by |-> p, lapsed |-> FALSE] ELSE claim[f]]
  /\ hist' = [hist EXCEPT !.overrun = @ \cup {f \in granted : claim[f].lapsed /\ Overrun(f)},
                          !.last = [f \in Fingerprints |-> IF f \in granted THEN p ELSE @[f]]]
  /\ lock' = NoPass
  /\ Becomes(p, IF granted = {} THEN Idle("over") ELSE [pass[p] EXCEPT !.phase = "next", !.work = granted])
  /\ UNCHANGED <<provider, record, ticket, issue, merges>>

-----------------------------------------------------------------------------
(* Calls to the provider. *)

Step(p, phase) == Becomes(p, [pass[p] EXCEPT !.phase = phase, !.tries = 0])

(* The pass turns to the next finding of its list. *)
nextItem(p) ==
  /\ pass[p].phase = "next"
  /\ \E f \in pass[p].work :
       LET ref == pass[p].item[f].previous.ref IN
       Becomes(p, [pass[p] EXCEPT !.work = @ \ {f}, !.at = f, !.ref = ref, !.tries = 0,
                                  !.phase = IF ref # 0 THEN "update" ELSE "find"])
  /\ UNCHANGED <<provider, record, ticket, claim, lock, issue, merges, hist>>

Doing(p)   == pass[p].item[pass[p].at].content
Before(p)  == pass[p].item[pass[p].at].previous

Finished(p, ok, ref) == [pass[p] EXCEPT !.phase = "record", !.ok = ok, !.ref = ref, !.tries = 0]

(* withRetry: the call failed and is made again, or its error is final.     *)
Failed(p) ==
  \/ pass[p].tries + 1 < MaxAttempts /\ Becomes(p, [pass[p] EXCEPT !.tries = @ + 1])
  \/ Becomes(p, Finished(p, FALSE, pass[p].ref))

Succeeded(p, ref) == Becomes(p, Finished(p, TRUE, ref))

(* GitHub's PATCH writes content and state; Jira's PUT the content only. *)
Written(i, c) ==
  IF provider = "jira" THEN [issue[i] EXCEPT !.shows = c]
  ELSE [issue[i] EXCEPT !.shows = c, !.state = StateOf(c)]

(* Jira moves the issue only if the state recorded before was the opposite; *)
(* a new key counts as no state.                                            *)
NeedsTransition(p) ==
  /\ provider = "jira"
  /\ \/ StateOf(Doing(p)) = "closed" /\ Before(p).state # "closed"
     \/ StateOf(Doing(p)) = "open" /\ Before(p).state = "closed"

(* The issue the pass knows is overwritten.  GitHub answers 404 for one     *)
(* that is gone: by its number, it is looked for; found by marker, or in    *)
(* Jira, it is an error.                                                    *)
updateIssue(p) ==
  LET i == pass[p].ref IN
  /\ pass[p].phase \in {"update", "updateFound"}
  /\ IF issue[i].state = "gone"
     THEN /\ IF provider = "github-issues" /\ pass[p].phase = "update"
             THEN Step(p, "find")
             ELSE Becomes(p, Finished(p, FALSE, i))
          /\ UNCHANGED issue
     ELSE \/ /\ issue' = [issue EXCEPT ![i] = Written(i, Doing(p))]
             /\ \/ IF NeedsTransition(p) THEN Step(p, "transition") ELSE Succeeded(p, i)
                \/ Failed(p)
          \/ Failed(p) /\ UNCHANGED issue
  /\ UNCHANGED <<provider, record, ticket, claim, lock, merges, hist>>

(* Jira's transition into the wanted category: reopening is best effort,    *)
(* closing without a transition is an error.                                *)
transitionIssue(p) ==
  LET i == pass[p].ref
      there == issue[i].state # "gone" IN
  /\ pass[p].phase = "transition"
  /\ \/ /\ there /\ issue' = [issue EXCEPT ![i].state = StateOf(Doing(p))]
        /\ Succeeded(p, i) \/ Failed(p)
     \/ /\ UNCHANGED issue
        /\ Failed(p) \/ (there /\ StateOf(Doing(p)) = "open" /\ Succeeded(p, i))
  /\ UNCHANGED <<provider, record, ticket, claim, lock, merges, hist>>

(* Mutant: issues that are closed are not looked at. *)
MarkedOpen(f) == {i \in Standing(f) : issue[i].state = "open"}

(* The issues of f that carry its marker (GitHub) or its label (Jira). *)
Marked(f) == Standing(f)

(* The newest on GitHub, the oldest in Jira. *)
Newest(S) == IF S = {} THEN 0 ELSE CHOOSE i \in S : \A j \in S : j <= i
Oldest(S) == IF S = {} THEN 0 ELSE CHOOSE i \in S : \A j \in S : i <= j

(* The search found issue i.  Nothing is created to be closed at once. *)
Found(p, i, scan, marks) ==
  LET q == [pass[p] EXCEPT !.tries = 0, !.scan = scan, !.markers = marks] IN
  Becomes(p, IF i # 0 THEN [q EXCEPT !.phase = "updateFound", !.ref = i]
             ELSE IF Doing(p) \in ClosedContents
                  THEN [q EXCEPT !.phase = "record", !.ref = Before(p).ref, !.ok = TRUE]
                  ELSE [q EXCEPT !.phase = "create", !.ref = 0])

SearchFailed(p, scan) == Becomes(p, [Finished(p, FALSE, pass[p].ref) EXCEPT !.scan = scan])

(* The search by marker, one for the session, or by label, one for each. *)
findIssue(p) ==
  LET f == pass[p].at
      marks == [g \in Fingerprints |-> Newest(Marked(g))] IN
  /\ pass[p].phase = "find"
  /\ \/ /\ provider = "jira"
        /\ Found(p, Oldest(Marked(f)), "no", pass[p].markers) \/ SearchFailed(p, "no")
     \/ /\ provider = "github-issues" /\ pass[p].scan = "no"
        /\ Found(p, marks[f], "done", marks) \/ SearchFailed(p, "failed")
     \/ /\ provider = "github-issues" /\ pass[p].scan = "done"
        /\ Found(p, pass[p].markers[f], "done", pass[p].markers)
     \/ provider = "github-issues" /\ pass[p].scan = "failed" /\ SearchFailed(p, "failed")
  /\ UNCHANGED <<provider, record, ticket, claim, lock, issue, merges, hist>>

Unused == {i \in IssueIds : issue[i] = NoIssue}

(* The POST may be carried out although its reply is lost; it is sent again. *)
createIssue(p) ==
  LET f == pass[p].at
      i == Oldest(Unused) IN
  /\ pass[p].phase = "create"
  /\ \/ /\ Unused # {}
        /\ issue' = [issue EXCEPT ![i] = [of |-> f, shows |-> Doing(p), state |-> "open"]]
        /\ \/ /\ Becomes(p, [Finished(p, TRUE, i) EXCEPT !.markers =
                               IF pass[p].scan = "done" THEN [@ EXCEPT ![f] = i] ELSE @])
              /\ UNCHANGED hist
           \/ Failed(p) /\ hist' = [hist EXCEPT !.lost = @ \cup {f}]
     \/ Failed(p) /\ UNCHANGED <<issue, hist>>
  /\ UNCHANGED <<provider, record, ticket, claim, lock, merges>>

-----------------------------------------------------------------------------
(* Recording the result, and the end of a pass. *)

(* Mutant: a failure leaves no error behind. *)
ResultWithoutError(p) ==
  IF pass[p].ok
  THEN [ref |-> pass[p].ref, state |-> StateOf(Doing(p)), sha |-> Doing(p), error |-> FALSE]
  ELSE Before(p)

Result(p) ==
  IF pass[p].ok
  THEN [ref |-> pass[p].ref, state |-> StateOf(Doing(p)), sha |-> Doing(p), error |-> FALSE]
  ELSE [Before(p) EXCEPT !.error = TRUE]

(* Mutant: the result is recorded whoever holds the claim. *)
HoldsAnyway(p, f) == TRUE

Holds(p, f) == claim[f].by = p

(* One statement: the claim is released and the ticket written, if the      *)
(* claim is still this pass's and the record still there.                   *)
completeFindingTicketClaim(p) ==
  LET f == pass[p].at IN
  /\ pass[p].phase = "record"
  /\ IF Holds(p, f)
     THEN /\ claim' = [claim EXCEPT ![f] = NoClaim]
          /\ ticket' = IF record[f] = None THEN ticket ELSE [ticket EXCEPT ![f] = Result(p)]
     ELSE UNCHANGED <<claim, ticket>>
  /\ Becomes(p, IF pass[p].work = {} THEN Idle("over") ELSE [pass[p] EXCEPT !.phase = "next", !.at = None])
  /\ UNCHANGED <<provider, record, lock, issue, merges, hist>>

Released(p) == [f \in Fingerprints |-> IF claim[f].by = p THEN NoClaim ELSE claim[f]]

(* The store fails: the pass gives back its claims and ends. *)
releaseFindingTicketClaims(p) ==
  /\ pass[p].phase = "record"
  /\ claim' = Released(p)
  /\ hist' = [hist EXCEPT !.died = @ \cup {pass[p].at}]
  /\ Becomes(p, Idle("over"))
  /\ UNCHANGED <<provider, record, ticket, lock, issue, merges>>

(* The process dies; its claims stay until their leases end. *)
passDies(p) ==
  /\ Live(p)
  /\ lock' = IF lock = p THEN NoPass ELSE lock
  /\ hist' = [hist EXCEPT !.died = @ \cup Busy(p)]
  /\ Becomes(p, Idle("dead"))
  /\ UNCHANGED <<provider, record, ticket, claim, issue, merges>>

Next ==
  \/ \E f \in Fingerprints, c \in Contents \cup {None} : saveFindingLifecycle(f, c)
  \/ \E f \in Fingerprints : leaseExpires(f)
  \/ \E i \in IssueIds : deleteIssue(i)
  \/ \E p \in Passes :
       \/ listWork(p) \/ claimFindingTickets(p) \/ nextItem(p)
       \/ updateIssue(p) \/ transitionIssue(p) \/ findIssue(p) \/ createIssue(p)
       \/ completeFindingTicketClaim(p) \/ releaseFindingTicketClaims(p) \/ passDies(p)

Spec == Init /\ [][Next]_vars
-----------------------------------------------------------------------------
(***************************************************************************)
(* What ticketing promises.                                                *)
(***************************************************************************)

(* One issue per root cause, as long as no reply to a POST was lost and no  *)
(* pass outlived its claim: through passes at once, passes that die after   *)
(* creating an issue, removed records and deleted issues, the marker or     *)
(* label leads back to the issue.                                           *)
OneIssuePerFinding ==
  \A f \in Fingerprints \ (hist.lost \cup hist.overrun) : Cardinality(Standing(f)) <= 1

(* ticketing.ts: "a lost database write or a retry never opens a            *)
(* duplicate".  Violated: withRetry repeats a POST whose reply was lost.    *)
RetryOpensNoDuplicate ==
  \A f \in Fingerprints \ hist.overrun : Cardinality(Standing(f)) <= 1

(* While no pass works on a finding and none died on it or outlived its     *)
(* claim, its issue shows what its ticket says was last synced there; so    *)
(* that a pass may skip a record whose digest is unchanged.                 *)
IssueShowsTicket ==
  \A f \in Fingerprints \ (hist.overrun \cup hist.died) :
    LET i == ticket[f].ref IN
    /\ i # 0 /\ ~ticket[f].error /\ (\A p \in Passes : f \notin Busy(p))
    /\ issue[i].state # "gone"
    => /\ issue[i].of = f /\ issue[i].shows = ticket[f].sha
       /\ provider = "github-issues" => issue[i].state = ticket[f].state

(* Two passes call the provider for one finding only when the claim of one  *)
(* of them ended before it did (FINDING_TICKET_CLAIM_SQL).                  *)
ClaimsExclude ==
  \A p, q \in Passes : p # q => Busy(p) \cap Busy(q) \subseteq hist.overrun

(* A result is recorded only by the pass that was granted the finding last: *)
(* a late pass never overwrites the result of a newer one.                  *)
LateResultIsDiscarded ==
  [][\A f \in Fingerprints : \A p \in Passes :
       ticket'[f] # ticket[f] /\ record'[f] = record[f] /\ pass[p].phase = "record" /\ pass'[p] # pass[p]
         => hist.last[f] = p]_vars
=============================================================================
