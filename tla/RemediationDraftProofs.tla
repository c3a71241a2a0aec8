------------------------ MODULE RemediationDraftProofs ------------------------
(***************************************************************************)
(* Proofs about remediation drafts: for any number of workers, commits,    *)
(* runs and failures, cleaning up spares the writers' commits, a recorded  *)
(* commit holds the fix, and the checks of a recorded draft are reported.  *)
(***************************************************************************)
EXTENDS RemediationDraft, SequenceTheorems, FiniteSetTheorems, TLAPS

-----------------------------------------------------------------------------
(* The inductive invariant. *)

Checks == {"pending", "passed", "failed"}
Commit == [parent : Nat, file : Seq(STRING), only : BOOLEAN, humans : SUBSET Nat]
Row    == [head : Nat, created : BOOLEAN, pull : Nat, link : Nat, checks : Checks]
Local  == [event : Happenings \cup {None}, row : Row, seen : SUBSET Nat]
Pull   == [open : BOOLEAN, draft : BOOLEAN, ours : BOOLEAN]
Run    == [commit : Nat, state : {"running", "success", "failure"}]

Typed ==
    /\ commits \in Seq(Commit)
    /\ \A c \in DOMAIN commits : commits[c].humans \subseteq DOMAIN commits
    /\ branch \in {None} \cup 0 .. Len(commits)
    /\ pulls \in Seq(Pull)
    /\ runs \in Seq(Run)
    /\ links \in Seq([head : Nat, checks : Checks])
    /\ record = None \/ record \in Row
    /\ events \subseteq Happenings
    /\ \A e \in events : e.kind = "run" => e.n \in DOMAIN runs
    /\ DOMAIN step = Workers /\ local \in [Workers -> Local]
    /\ reportable \subseteq Nat

(* The commit a row names holds the validated fix: it was written on the    *)
(* head, or on writers' commits, or reused.                                 *)
HoldsTheFix(r) ==
    /\ r.head \in DOMAIN commits /\ commits[r.head].file = Spliced /\ End <= Len(File)
    /\ ~r.created => commits[r.head].parent = 0 /\ commits[r.head].only
    /\ r.created /\ commits[r.head].parent = 0 => commits[r.head].humans = {}

Linked(r) == r.link \in DOMAIN links /\ links[r.link].head = r.head

(* The link of a commit shows the outcome of its checks. *)
Shown(h) == \E k \in DOMAIN links : links[k].head = h /\ links[k].checks # "pending"

RecordOK ==
    record # None =>
      /\ HoldsTheFix(record) /\ Linked(record)
      /\ record.checks # "pending" => Shown(record.head)

Commanding == {"validate", "create", "inspect", "write", "failed", "open", "reuse", "link", "save"}
Reporting  == {"list", "update", "set"}
Cleaning   == {"pull", "tip", "delete", "drop"}

WorkerOK(w) ==
    LET row == local[w].row
        e   == local[w].event
    IN
    /\ step[w] \in {"idle"} \cup Commanding \cup Reporting \cup Cleaning
    /\ step[w] \in {"idle"} \cup Commanding => e = None
    /\ step[w] \in Commanding \ {"failed"} => End <= Len(File)
    /\ step[w] \in {"open", "reuse", "link", "save"} => HoldsTheFix(row) /\ row.checks = "pending"
    /\ step[w] = "save" => Linked(row)
    /\ step[w] \in Reporting \cup Cleaning => HoldsTheFix(row) /\ Linked(row) /\ e \in Happenings
    /\ step[w] \in Cleaning => e.kind # "run"
    /\ step[w] \in Reporting =>
         e.kind = "run" /\ e.n \in DOMAIN runs /\ runs[e.n].commit = row.head
    /\ step[w] = "list" /\ row.checks # "pending" => Shown(row.head)
    /\ step[w] \in {"update", "set"} => row.checks # "pending"
    /\ step[w] = "set" => Shown(row.head)
    /\ local[w].seen \subseteq DOMAIN commits
    /\ step[w] = "delete" => HumansAt(branch) \cap local[w].seen = {}

(* The checks of a commit are shown, or they are not complete, or too many, *)
(* or a delivery will show them.                                            *)
Settled(h) ==
    \/ \E r \in RunsOf(h) : runs[r].state = "running"
    \/ Cardinality(RunsOf(h)) > PageSize
    \/ Shown(h)

Awaited(h) == Settled(h) \/ \E e \in events : e.kind = "run" /\ runs[e.n].commit = h

Reported ==
    /\ \A h \in reportable : RunsOf(h) # {}
    /\ record # None => (record.head \in reportable => Awaited(record.head))

IInv == Typed /\ RecordOK /\ (\A w \in Workers : WorkerOK(w)) /\ Reported

-----------------------------------------------------------------------------
(* Commits are added, links and runs are added or completed; no step takes  *)
(* back what they said, and a branch never gets an old writer's commit.     *)
Grows ==
    /\ DOMAIN commits \subseteq DOMAIN commits'
    /\ \A c \in DOMAIN commits : commits'[c] = commits[c]
    /\ DOMAIN links \subseteq DOMAIN links'
    /\ \A k \in DOMAIN links : /\ links'[k].head = links[k].head
                               /\ links[k].checks # "pending" => links'[k].checks # "pending"
    /\ DOMAIN runs \subseteq DOMAIN runs'
    /\ \A r \in DOMAIN runs : runs'[r].commit = runs[r].commit
    /\ \A h \in DOMAIN commits : h \in HumansAt(branch)' => h \in HumansAt(branch)

LEMMA RowStays ==
  ASSUME Grows, NEW r
  PROVE  /\ HoldsTheFix(r) => HoldsTheFix(r)'
         /\ Linked(r) => Linked(r)'
BY DEF Grows, HoldsTheFix, Linked

LEMMA ShownStays ==
  ASSUME Grows, NEW h, Shown(h)
  PROVE  Shown(h)'
BY DEF Grows, Shown

LEMMA WorkerStays ==
  ASSUME IInv, Grows, NEW w \in Workers, step'[w] = step[w], local'[w] = local[w]
  PROVE  WorkerOK(w)'
<1>1. WorkerOK(w)
  BY DEF IInv
<1>2. HoldsTheFix(local[w].row) => HoldsTheFix(local[w].row)'
  BY DEF Grows, HoldsTheFix
<1>3. Linked(local[w].row) => Linked(local[w].row)'
  BY DEF Grows, Linked
<1>4. Shown(local[w].row.head) => Shown(local[w].row.head)'
  BY DEF Grows, Shown
<1>5. local[w].seen \subseteq DOMAIN commits
  BY <1>1 DEF WorkerOK
<1>6. /\ local[w].seen \subseteq DOMAIN commits'
      /\ HumansAt(branch) \cap local[w].seen = {} => HumansAt(branch)' \cap local[w].seen = {}
  BY <1>5 DEF Grows
<1> QED BY <1>1, <1>2, <1>3, <1>4, <1>6 DEF WorkerOK, Grows

LEMMA RecordStays ==
  ASSUME IInv, Grows, record' = record
  PROVE  RecordOK'
<1>1. record # None => (HoldsTheFix(record) => HoldsTheFix(record)')
  BY DEF Grows, HoldsTheFix
<1>2. Linked(record) => Linked(record)'
  BY DEF Grows, Linked
<1>3. Shown(record.head) => Shown(record.head)'
  BY DEF Grows, Shown
<1> QED BY <1>1, <1>2, <1>3 DEF IInv, RecordOK

(* A delivery that is done with has shown the checks, or they are not its  *)
(* to show.                                                                 *)
LEMMA ReportedStays ==
  ASSUME IInv, Grows, UNCHANGED <<runs, reportable>>,
         record' # None => record # None /\ record'.head = record.head,
         \A e \in events \ events' :
            e.kind = "run" /\ record # None /\ runs[e.n].commit = record.head =>
              Settled(record.head)' \/ Settled(record.head)
  PROVE  Reported'
<1>1. /\ \A h \in reportable : RunsOf(h) # {}
      /\ record # None => (record.head \in reportable => Awaited(record.head))
  BY DEF IInv, Reported
<1>2. (\A h \in reportable : RunsOf(h) # {})'
  BY <1>1 DEF RunsOf
<1>3. SUFFICES ASSUME NEW h, h \in reportable, record # None, h = record.head, h = record'.head
               PROVE  Awaited(h)'
  BY <1>2 DEF Reported, Awaited, Settled, RunsOf, Shown
<1>4. Settled(h) => Settled(h)'
  BY DEF Settled, Grows, Shown, RunsOf
<1>5. Awaited(h)
  BY <1>1, <1>3
<1>6. CASE Settled(h)
  BY <1>6, <1>4 DEF Awaited
<1>7. CASE ~Settled(h)
  <2>1. PICK e \in events : e.kind = "run" /\ runs[e.n].commit = h
    BY <1>5, <1>7 DEF Awaited
  <2>2. Settled(record.head)' => Settled(h)'
    BY <1>3 DEF Settled, RunsOf, Shown
  <2> QED BY <2>1, <2>2, <1>3, <1>4 DEF Awaited
<1> QED BY <1>6, <1>7

LEMMA Unchanged ==
  ASSUME UNCHANGED <<commits, branch, runs, links>>
  PROVE  Grows
BY DEF Grows, HumansAt

(* One worker makes a step; the others are where they were. *)
LEMMA OneWorker ==
  ASSUME IInv, Grows, NEW w \in Workers, Typed', WorkerOK(w)', RecordOK', Reported',
         \A v \in Workers \ {w} : step'[v] = step[v] /\ local'[v] = local[v]
  PROVE  IInv'
<1>1. \A v \in Workers \ {w} : WorkerOK(v)'
  BY WorkerStays
<1> QED BY <1>1 DEF IInv

LEMMA NoWorker ==
  ASSUME IInv, Grows, Typed', RecordOK', Reported', UNCHANGED <<step, local>>
  PROVE  IInv'
<1>1. \A v \in Workers : WorkerOK(v)'
  BY WorkerStays
<1> QED BY <1>1 DEF IInv

-----------------------------------------------------------------------------
(* Steps that change what a worker holds on to and the deliveries only. *)

LEMMA TypedStays ==
  ASSUME IInv, UNCHANGED <<github, links>>, reportable' \subseteq reportable,
         record' = None \/ record' \in Row, events' \subseteq events,
         DOMAIN step' = Workers, local' \in [Workers -> Local]
  PROVE  Typed'
BY DEF IInv, Typed, github

LEMMA IdleOK ==
  ASSUME NEW w \in Workers, step[w] = "idle", local[w] = Nothing
  PROVE  WorkerOK(w)
BY DEF WorkerOK, Nothing, NoRow, Commanding, Reporting, Cleaning

LEMMA NothingTyped == Nothing \in Local /\ NoRow \in Row
BY DEF Nothing, NoRow, Local, Row, Checks

LEMMA DoneOK ==
  ASSUME IInv, NEW w \in Workers, Done(w)
  PROVE  /\ DOMAIN step' = Workers /\ local' \in [Workers -> Local]
         /\ WorkerOK(w)' /\ events' \subseteq events
         /\ \A v \in Workers \ {w} : step'[v] = step[v] /\ local'[v] = local[v]
<1>1. DOMAIN step = Workers /\ local \in [Workers -> Local]
  BY DEF IInv, Typed
<1>2. step'[w] = "idle" /\ local'[w] = Nothing
  BY <1>1 DEF Done, Goto
<1>3. WorkerOK(w)'
  BY <1>2 DEF WorkerOK, Nothing, NoRow, Commanding, Reporting, Cleaning
<1> QED BY <1>1, <1>3, NothingTyped DEF Done, Goto

(* A worker that goes on, without a change to what the others see. *)
LEMMA Private ==
  ASSUME IInv, NEW w \in Workers, UNCHANGED <<github, links, record, events, reportable>>,
         DOMAIN step' = Workers, local' \in [Workers -> Local], WorkerOK(w)',
         \A v \in Workers \ {w} : step'[v] = step[v] /\ local'[v] = local[v]
  PROVE  IInv' /\ Grows
<1>1. Grows
  BY Unchanged DEF github
<1>2. Typed'
  BY TypedStays DEF IInv, Typed
<1>3. RecordOK'
  BY <1>1, RecordStays
<1>4. Reported'
  BY <1>1, ReportedStays DEF github
<1> QED BY <1>1, <1>2, <1>3, <1>4, OneWorker

(* A worker that is done with a delivery it is not to report. *)
LEMMA DoneStep ==
  ASSUME IInv, NEW w \in Workers, Done(w), UNCHANGED <<github, links, record, reportable>>,
         step[w] \in Reporting => Settled(local[w].row.head)
  PROVE  IInv' /\ Grows
<1>1. Grows
  BY Unchanged DEF github
<1>2. Typed'
  BY TypedStays, DoneOK DEF IInv, Typed
<1>3. RecordOK'
  BY <1>1, RecordStays
<1>4. WorkerOK(w)
  BY DEF IInv
<1>5. ASSUME NEW e \in events \ events', e.kind = "run", record # None, runs[e.n].commit = record.head
      PROVE  Settled(record.head)
  <2>1. e = local[w].event /\ e \in Happenings
    BY <1>5 DEF Done, IInv, Typed
  <2>2. step[w] \in Reporting /\ runs[e.n].commit = local[w].row.head
    BY <1>4, <1>5, <2>1, DraftAssumption DEF WorkerOK, Cleaning
  <2> QED BY <1>5, <2>2
<1>6. Reported'
  BY <1>1, <1>5, ReportedStays DEF github
<1> QED BY <1>1, <1>2, <1>3, <1>6, DoneOK, OneWorker

-----------------------------------------------------------------------------
(* The draft-fix command. *)

LEMMA CommandSteps ==
  ASSUME IInv, NEW w \in Workers,
         \/ \E i \in Candidates, available \in BOOLEAN : draftFixCommand(w, i, available)
         \/ \E accepted \in BOOLEAN : secondValidateDraft(w, accepted)
  PROVE  IInv' /\ Grows
<1>1. /\ DOMAIN step = Workers /\ local \in [Workers -> Local]
      /\ WorkerOK(w)
  BY DEF IInv, Typed
<1>2. CASE \E i \in Candidates, available \in BOOLEAN : draftFixCommand(w, i, available)
  <2>1. PICK i \in Candidates, available \in BOOLEAN : draftFixCommand(w, i, available)
    BY <1>2
  <2>2. /\ DOMAIN step' = Workers /\ local' = local
        /\ step'[w] = "idle" \/ (step'[w] = "validate" /\ End <= Len(File))
        /\ \A v \in Workers \ {w} : step'[v] = step[v]
        /\ UNCHANGED <<github, links, record, events, reportable>>
    <3>1. validateRemediationDraft(i) => End <= Len(File)
      BY DEF validateRemediationDraft
    <3>2. /\ \/ step' = step
             \/ validateRemediationDraft(i) /\ step' = [step EXCEPT ![w] = "validate"]
          /\ step[w] = "idle" /\ local' = local
          /\ UNCHANGED <<github, links, record, events, reportable>>
      BY <2>1, Zenon DEF draftFixCommand
    <3> QED BY <1>1, <3>1, <3>2
  <2>3. WorkerOK(w)'
    BY <1>1, <2>1, <2>2 DEF draftFixCommand, WorkerOK, Commanding, Reporting, Cleaning, github
  <2> QED BY <1>1, <2>2, <2>3, Private
<1>3. CASE \E accepted \in BOOLEAN : secondValidateDraft(w, accepted)
  <2>1. PICK accepted \in BOOLEAN : secondValidateDraft(w, accepted)
    BY <1>3
  <2>2. /\ DOMAIN step' = Workers /\ local' = local
        /\ step'[w] \in {"idle", "create"}
        /\ \A v \in Workers \ {w} : step'[v] = step[v]
        /\ UNCHANGED <<github, links, record, events, reportable>>
    BY <1>1, <2>1 DEF secondValidateDraft, Goto
  <2>3. WorkerOK(w)'
    BY <1>1, <2>1, <2>2 DEF secondValidateDraft, WorkerOK, Commanding, Reporting, Cleaning, github
  <2> QED BY <1>1, <2>2, <2>3, Private
<1> QED BY <1>2, <1>3

(* A new branch is at the head; an old one stays where it is. *)
LEMMA CreateBranchStep ==
  ASSUME IInv, NEW w \in Workers, createBranch(w)
  PROVE  IInv' /\ Grows
<1>1. /\ DOMAIN step = Workers /\ local \in [Workers -> Local]
      /\ WorkerOK(w)
  BY DEF IInv, Typed
<1>2. Grows
  BY DEF createBranch, Grows, HumansAt
<1>3. Typed'
  BY <1>1, DraftAssumption DEF IInv, Typed, createBranch, Goto
<1>4. WorkerOK(w)'
  BY <1>1 DEF createBranch, Goto, WorkerOK, Commanding, Reporting, Cleaning
<1>5. RecordOK'
  BY <1>2, RecordStays DEF createBranch
<1>6. Reported'
  BY <1>2, ReportedStays DEF createBranch
<1>7. \A v \in Workers \ {w} : step'[v] = step[v] /\ local'[v] = local[v]
  BY DEF createBranch, Goto
<1> QED BY <1>2, <1>3, <1>4, <1>5, <1>6, <1>7, OneWorker

LEMMA PrepareStep ==
  ASSUME IInv, NEW w \in Workers, prepareRemediationBranch(w)
  PROVE  IInv' /\ Grows
<1>1. /\ DOMAIN step = Workers /\ local \in [Workers -> Local]
      /\ WorkerOK(w) /\ Typed
      /\ step[w] = "inspect" /\ branch # None
      /\ UNCHANGED <<github, links, record, reportable>>
  BY DEF IInv, Typed, prepareRemediationBranch
<1>2. CASE branch = 0
  <2>1. /\ DOMAIN step' = Workers /\ local' = local /\ events' = events
        /\ step'[w] = "write" /\ \A v \in Workers \ {w} : step'[v] = step[v]
    BY <1>1, <1>2 DEF prepareRemediationBranch, Goto
  <2>2. WorkerOK(w)'
    BY <1>1, <2>1 DEF WorkerOK, Commanding, Reporting, Cleaning, github
  <2> QED BY <1>1, <2>1, <2>2, Private
<1>3. CASE branch # 0 /\ Reusable(branch)
  <2>1. /\ branch \in Nat /\ branch \in DOMAIN commits
    BY <1>1, <1>3, DraftAssumption DEF Typed
  <2> DEFINE row == [NoRow EXCEPT !.head = branch]
  <2>2. /\ row \in Row /\ row.head = branch /\ ~row.created /\ row.checks = "pending"
    BY <2>1 DEF Row, NoRow, Checks
  <2>3. /\ DOMAIN step' = Workers /\ events' = events
        /\ step'[w] = "open" /\ \A v \in Workers \ {w} : step'[v] = step[v]
        /\ local' = [local EXCEPT ![w].row = row]
    BY <1>1, <1>3 DEF prepareRemediationBranch, Goto, Keep
  <2>4. /\ local' \in [Workers -> Local] /\ local'[w].row = row
        /\ local'[w].event = local[w].event /\ local'[w].seen = local[w].seen
        /\ \A v \in Workers \ {w} : local'[v] = local[v]
    BY <1>1, <2>2, <2>3 DEF Local
  <2>5. End <= Len(File) /\ HoldsTheFix(row)
    BY <1>1, <1>3, <2>1, <2>2 DEF WorkerOK, Commanding, HoldsTheFix, Reusable
  <2> HIDE DEF row
  <2>6. HoldsTheFix(local'[w].row)
    BY <2>4, <2>5
  <2>7. HoldsTheFix(local[w].row)'
    BY <1>1, <2>6 DEF HoldsTheFix, github
  <2>8. WorkerOK(w)'
    BY <1>1, <2>2, <2>3, <2>4, <2>5, <2>7 DEF WorkerOK, Commanding, Reporting, Cleaning, github
  <2> QED BY <1>1, <2>3, <2>4, <2>8, Private
<1>4. CASE branch # 0 /\ ~Reusable(branch)
  <2>1. Done(w)
    BY <1>1, <1>4 DEF prepareRemediationBranch
  <2> QED BY <1>1, <2>1, DoneStep DEF Reporting
<1> QED BY <1>2, <1>3, <1>4

(* A commit on the tip: the branch has the writers' commits it had, and at *)
(* most the new one.                                                        *)
LEMMA Committed ==
  ASSUME IInv, NEW c \in Commit, commits' = Append(commits, c), branch' = Len(commits'),
         c.humans \subseteq HumansAt(branch) \cup {Len(commits) + 1},
         UNCHANGED <<links, runs>>
  PROVE  /\ commits' \in Seq(Commit)
         /\ \A k \in DOMAIN commits' : commits'[k].humans \subseteq DOMAIN commits'
         /\ branch' = Len(commits) + 1 /\ branch' \in Nat /\ branch' \in DOMAIN commits'
         /\ commits'[branch'] = c
         /\ Grows
<1>1. /\ commits \in Seq(Commit) /\ Len(commits) \in Nat
      /\ DOMAIN commits = 1 .. Len(commits)
      /\ \A k \in DOMAIN commits : commits[k].humans \subseteq DOMAIN commits
      /\ branch \in {None} \cup 0 .. Len(commits)
  BY DEF IInv, Typed
<1>2. /\ commits' \in Seq(Commit) /\ Len(commits') = Len(commits) + 1
      /\ DOMAIN commits' = 1 .. Len(commits) + 1
      /\ \A k \in DOMAIN commits : commits'[k] = commits[k]
      /\ commits'[Len(commits) + 1] = c
  BY <1>1
<1>3. HumansAt(branch) \subseteq DOMAIN commits
  BY <1>1 DEF HumansAt
<1>4. \A k \in DOMAIN commits' : commits'[k].humans \subseteq DOMAIN commits'
  <2> SUFFICES ASSUME NEW k \in DOMAIN commits'
               PROVE  commits'[k].humans \subseteq DOMAIN commits'
    OBVIOUS
  <2>1. CASE k \in DOMAIN commits
    BY <1>1, <1>2, <2>1
  <2>2. CASE k = Len(commits) + 1
    BY <1>1, <1>2, <1>3, <2>2
  <2> QED BY <1>1, <1>2, <2>1, <2>2
<1>5. HumansAt(branch)' = c.humans
  BY <1>1, <1>2, DraftAssumption DEF HumansAt
<1>6. Grows
  BY <1>1, <1>2, <1>5 DEF Grows
<1> QED BY <1>1, <1>2, <1>4, <1>6

LEMMA SplicedTyped ==
  ASSUME End <= Len(File)
  PROVE  Spliced \in Seq(STRING)
<1>1. /\ File \in Seq(STRING) /\ Suggestion \in Seq(STRING)
      /\ Start \in Nat \ {0} /\ End \in Nat \ {0} /\ Start <= End /\ Len(File) \in Nat
  BY DraftAssumption
<1>2. SubSeq(File, 1, Start - 1) \in Seq(STRING) /\ SubSeq(File, End + 1, Len(File)) \in Seq(STRING)
  BY <1>1, SubSeqProperties
<1> QED BY <1>1, <1>2 DEF Spliced

LEMMA WriteFileStep ==
  ASSUME IInv, NEW w \in Workers, NEW answered \in BOOLEAN, writeFile(w, answered)
  PROVE  IInv' /\ Grows
<1> DEFINE c == [parent |-> branch, file |-> Spliced, only |-> TRUE, humans |-> HumansAt(branch)]
<1>1. /\ DOMAIN step = Workers /\ local \in [Workers -> Local]
      /\ WorkerOK(w) /\ Typed /\ step[w] = "write" /\ branch # None
      /\ commits' = Append(commits, c) /\ branch' = Len(commits')
      /\ UNCHANGED <<pulls, runs, links, record, events, sourceOpen, reportable>>
  BY DEF IInv, Typed, writeFile
<1>2. /\ branch \in 0 .. Len(commits) /\ Len(commits) \in Nat /\ DOMAIN commits = 1 .. Len(commits)
      /\ HumansAt(branch) \subseteq DOMAIN commits
  BY <1>1, DraftAssumption DEF Typed, HumansAt
<1>3. c \in Commit
  BY <1>1, <1>2, SplicedTyped DEF Commit, WorkerOK, Commanding
<1> HIDE DEF c
<1>4. /\ commits' \in Seq(Commit)
      /\ \A k \in DOMAIN commits' : commits'[k].humans \subseteq DOMAIN commits'
      /\ branch' = Len(commits) + 1 /\ branch' \in Nat /\ branch' \in DOMAIN commits'
      /\ commits'[branch'] = c
      /\ Grows
  BY <1>1, <1>3, Committed DEF c
<1>5. RecordOK' /\ Reported'
  BY <1>1, <1>4, RecordStays, ReportedStays
<1>6. Typed' /\ WorkerOK(w)' /\ \A v \in Workers \ {w} : step'[v] = step[v] /\ local'[v] = local[v]
  <2>1. CASE answered
    <3> DEFINE row == [NoRow EXCEPT !.head = branch', !.created = TRUE]
    <3>1. row \in Row /\ row.head = branch' /\ row.created /\ row.checks = "pending"
      BY <1>4 DEF Row, NoRow, Checks
    <3>2. /\ DOMAIN step' = Workers
          /\ step'[w] = "open" /\ \A v \in Workers \ {w} : step'[v] = step[v]
          /\ local' = [local EXCEPT ![w].row = row]
      BY <1>1, <2>1 DEF writeFile, Goto, Keep
    <3> HIDE DEF row
    <3>3. /\ local' \in [Workers -> Local] /\ local'[w].row = row
          /\ local'[w].event = local[w].event /\ local'[w].seen = local[w].seen
          /\ \A v \in Workers \ {w} : local'[v] = local[v]
      BY <1>1, <3>1, <3>2 DEF Local
    <3>4. Typed'
      BY <1>1, <1>4, <3>2, <3>3, DraftAssumption DEF Typed
    <3>5. End <= Len(File) /\ local[w].seen \subseteq DOMAIN commits /\ local[w].event = None
      BY <1>1 DEF WorkerOK, Commanding
    <3>6. c.file = Spliced /\ (c.parent = 0 => c.humans = {})
      BY DEF c, HumansAt
    <3>7. HoldsTheFix(local[w].row)'
      BY <1>4, <3>1, <3>3, <3>5, <3>6 DEF HoldsTheFix
    <3>8. WorkerOK(w)'
      BY <1>4, <3>1, <3>2, <3>3, <3>5, <3>7 DEF WorkerOK, Commanding, Reporting, Cleaning, Grows
    <3> QED BY <3>2, <3>3, <3>4, <3>8
  <2>2. CASE ~answered
    <3>1. /\ DOMAIN step' = Workers /\ local' = local
          /\ step'[w] = "failed" /\ \A v \in Workers \ {w} : step'[v] = step[v]
      BY <1>1, <2>2 DEF writeFile, Goto
    <3>2. Typed'
      BY <1>1, <1>4, <3>1, DraftAssumption DEF Typed
    <3>3. WorkerOK(w)'
      BY <1>1, <1>4, <3>1 DEF WorkerOK, Commanding, Reporting, Cleaning, Grows
    <3> QED BY <3>1, <3>2, <3>3
  <2> QED BY <2>1, <2>2
<1> QED BY <1>4, <1>5, <1>6, OneWorker

(* A handler puts the number of a pull request into its row. *)
LEMMA PullChosen ==
  ASSUME IInv, NEW w \in Workers, step[w] \in {"open", "reuse"}, NEW n \in Nat,
         Keep(w, [local[w].row EXCEPT !.pull = n]), Goto(w, "link"), pulls' \in Seq(Pull),
         UNCHANGED <<commits, branch, runs, links, record, events, sourceOpen, reportable>>
  PROVE  IInv' /\ Grows
<1> DEFINE row == [local[w].row EXCEPT !.pull = n]
<1>1. /\ DOMAIN step = Workers /\ local \in [Workers -> Local] /\ local[w] \in Local
      /\ WorkerOK(w) /\ Typed
  BY DEF IInv, Typed
<1>2. Grows
  BY Unchanged
<1>3. /\ row \in Row /\ row.head = local[w].row.head /\ row.created = local[w].row.created
      /\ row.checks = local[w].row.checks
  BY <1>1 DEF Local, Row
<1>4. local' = [local EXCEPT ![w].row = row]
  BY DEF Keep
<1> HIDE DEF row
<1>5. /\ local' \in [Workers -> Local] /\ local'[w].row = row
      /\ local'[w].event = local[w].event /\ local'[w].seen = local[w].seen
      /\ \A v \in Workers \ {w} : local'[v] = local[v]
  BY <1>1, <1>3, <1>4 DEF Local
<1>6. /\ DOMAIN step' = Workers
      /\ step'[w] = "link" /\ \A v \in Workers \ {w} : step'[v] = step[v]
  BY <1>1 DEF Goto
<1>7. HoldsTheFix(local[w].row)'
  BY <1>1, <1>3, <1>5 DEF HoldsTheFix, WorkerOK, Commanding
<1>8. WorkerOK(w)'
  BY <1>1, <1>3, <1>5, <1>6, <1>7 DEF WorkerOK, Commanding, Reporting, Cleaning
<1>9. Typed'
  BY <1>1, <1>5, <1>6 DEF Typed
<1>10. RecordOK' /\ Reported'
  BY <1>1, <1>2, RecordStays, ReportedStays
<1> QED BY <1>2, <1>5, <1>6, <1>8, <1>9, <1>10, OneWorker

LEMMA OpenStep ==
  ASSUME IInv, NEW w \in Workers, openRemediationPull(w)
  PROVE  IInv' /\ Grows
<1>1. /\ DOMAIN step = Workers /\ local \in [Workers -> Local]
      /\ WorkerOK(w) /\ Typed /\ step[w] = "open" /\ pulls \in Seq(Pull)
      /\ UNCHANGED <<commits, branch, runs, links, record, events, sourceOpen, reportable>>
  BY DEF IInv, Typed, openRemediationPull
<1>2. CASE Ahead /\ ~Opened
  <2>1. /\ pulls' = Append(pulls, [open |-> TRUE, draft |-> TRUE, ours |-> TRUE])
        /\ Keep(w, [local[w].row EXCEPT !.pull = Len(pulls')]) /\ Goto(w, "link")
    BY <1>2 DEF openRemediationPull
  <2>2. pulls' \in Seq(Pull) /\ Len(pulls') \in Nat
    BY <1>1, <2>1 DEF Pull
  <2> QED BY <1>1, <2>1, <2>2, PullChosen
<1>3. CASE ~(Ahead /\ ~Opened)
  <2>1. /\ DOMAIN step' = Workers /\ local' = local /\ UNCHANGED github
        /\ step'[w] = "reuse" /\ \A v \in Workers \ {w} : step'[v] = step[v]
    BY <1>1, <1>3 DEF openRemediationPull, Goto, github
  <2>2. WorkerOK(w)'
    BY <1>1, <2>1 DEF WorkerOK, Commanding, Reporting, Cleaning, HoldsTheFix
  <2> QED BY <1>1, <2>1, <2>2, Private
<1> QED BY <1>2, <1>3

LEMMA ReuseStep ==
  ASSUME IInv, NEW w \in Workers, reuseRemediationPull(w)
  PROVE  IInv' /\ Grows
<1>1. /\ DOMAIN step = Workers /\ local \in [Workers -> Local]
      /\ WorkerOK(w) /\ Typed /\ step[w] = "reuse" /\ pulls \in Seq(Pull)
      /\ UNCHANGED <<github, links, record, reportable>>
  BY DEF IInv, Typed, reuseRemediationPull
<1>2. ASSUME NEW n \in Open, Keep(w, [local[w].row EXCEPT !.pull = n]), Goto(w, "link"),
             UNCHANGED events
      PROVE  IInv' /\ Grows
  <2>1. n \in Nat
    BY <1>1 DEF Open
  <2> QED BY <1>1, <1>2, <2>1, PullChosen DEF github
<1>3. CASE Done(w)
  BY <1>1, <1>3, DoneStep DEF Reporting, github
<1> QED BY <1>2, <1>3 DEF reuseRemediationPull

LEMMA LinkStep ==
  ASSUME IInv, NEW w \in Workers, linkDraft(w)
  PROVE  IInv' /\ Grows
<1> DEFINE row == [local[w].row EXCEPT !.link = Len(links')]
           link == [head |-> local[w].row.head, checks |-> "pending"]
<1>1. /\ DOMAIN step = Workers /\ local \in [Workers -> Local] /\ local[w] \in Local
      /\ WorkerOK(w) /\ Typed /\ step[w] = "link"
      /\ links' = Append(links, link)
      /\ UNCHANGED <<github, record, events, reportable>>
      /\ local' = [local EXCEPT ![w].row = row]
      /\ links \in Seq([head : Nat, checks : Checks])
  BY DEF IInv, Typed, linkDraft, Keep
<1>2. link \in [head : Nat, checks : Checks] /\ link.head = local[w].row.head
  BY <1>1 DEF Local, Row, Checks
<1> HIDE DEF link
<1>3. /\ links' \in Seq([head : Nat, checks : Checks]) /\ Len(links') = Len(links) + 1
      /\ Len(links') \in Nat /\ Len(links') \in DOMAIN links' /\ links'[Len(links')] = link
      /\ DOMAIN links \subseteq DOMAIN links' /\ \A k \in DOMAIN links : links'[k] = links[k]
  BY <1>1, <1>2
<1>4. Grows
  BY <1>1, <1>3 DEF Grows, github, HumansAt
<1>5. /\ row \in Row /\ row.head = local[w].row.head /\ row.created = local[w].row.created
      /\ row.checks = local[w].row.checks /\ row.link = Len(links')
  BY <1>1, <1>3 DEF Local, Row
<1> HIDE DEF row
<1>6. /\ local' \in [Workers -> Local] /\ local'[w].row = row
      /\ local'[w].event = local[w].event /\ local'[w].seen = local[w].seen
      /\ \A v \in Workers \ {w} : local'[v] = local[v]
  BY <1>1, <1>5 DEF Local
<1>7. /\ DOMAIN step' = Workers
      /\ step'[w] = "save" /\ \A v \in Workers \ {w} : step'[v] = step[v]
  BY <1>1 DEF linkDraft, Goto
<1>8. HoldsTheFix(local[w].row)'
  BY <1>1, <1>5, <1>6 DEF HoldsTheFix, WorkerOK, Commanding, github
<1>9. Linked(local[w].row)'
  BY <1>2, <1>3, <1>5, <1>6 DEF Linked
<1>10. WorkerOK(w)'
  BY <1>1, <1>5, <1>6, <1>7, <1>8, <1>9 DEF WorkerOK, Commanding, Reporting, Cleaning, github
<1>11. Typed'
  BY <1>1, <1>3, <1>6, <1>7 DEF Typed, github
<1>12. RecordOK' /\ Reported'
  BY <1>1, <1>4, RecordStays, ReportedStays DEF github
<1> QED BY <1>4, <1>6, <1>7, <1>10, <1>11, <1>12, OneWorker

LEMMA SaveStep ==
  ASSUME IInv, NEW w \in Workers, saveRemediationDraft(w)
  PROVE  IInv' /\ Grows
<1>1. /\ local[w] \in Local /\ WorkerOK(w) /\ Typed /\ step[w] = "save" /\ Reported
      /\ UNCHANGED <<github, links>> /\ Done(w)
      /\ record' = local[w].row /\ reportable' = reportable \ {local[w].row.head}
  BY DEF IInv, Typed, saveRemediationDraft
<1>2. Grows
  BY <1>1, Unchanged DEF github
<1>3. record' \in Row
  BY <1>1 DEF Local
<1>4. Typed'
  BY <1>1, <1>3, TypedStays, DoneOK
<1>5. HoldsTheFix(local[w].row) /\ Linked(local[w].row) /\ local[w].row.checks = "pending"
  BY <1>1 DEF WorkerOK
<1>6. RecordOK'
  <2>1. HoldsTheFix(record)' /\ Linked(record)' /\ record'.checks = "pending"
    BY <1>1, <1>5 DEF HoldsTheFix, Linked, github
  <2> QED BY <2>1 DEF RecordOK
<1>7. Reported'
  BY <1>1 DEF Reported, RunsOf, github
<1> QED BY <1>1, <1>2, <1>4, <1>6, <1>7, DoneOK, OneWorker

-----------------------------------------------------------------------------
(* The checks of a draft. *)

(* A delivery a worker does not take up. *)
LEMMA Ignored ==
  ASSUME IInv, NEW e0 \in events, events' = events \ {e0},
         UNCHANGED <<github, links, record, step, local, reportable>>,
         e0.kind = "run" => ~SameCommit(runs[e0.n].commit)
  PROVE  IInv' /\ Grows
<1>1. Grows
  BY Unchanged DEF github
<1>2. Typed'
  BY TypedStays DEF IInv, Typed
<1>3. RecordOK'
  BY <1>1, RecordStays
<1>4. Reported'
  BY <1>1, ReportedStays DEF github, SameCommit
<1> QED BY <1>1, <1>2, <1>3, <1>4, NoWorker

LEMMA ReportStep ==
  ASSUME IInv, NEW w \in Workers, NEW e0 \in events, reportRemediationDraftChecks(w, e0)
  PROVE  IInv' /\ Grows
<1>1. /\ DOMAIN step = Workers /\ local \in [Workers -> Local]
      /\ WorkerOK(w) /\ Typed /\ RecordOK /\ step[w] = "idle" /\ e0.kind = "run"
      /\ UNCHANGED <<github, links, record, reportable>>
  BY DEF IInv, Typed, reportRemediationDraftChecks
<1>2. CASE ~SameCommit(runs[e0.n].commit)
  <2>1. events' = events \ {e0} /\ UNCHANGED <<step, local>>
    BY <1>2 DEF reportRemediationDraftChecks
  <2> QED BY <1>1, <1>2, <2>1, Ignored
<1>3. CASE SameCommit(runs[e0.n].commit)
  <2> DEFINE it == [event |-> e0, row |-> record, seen |-> {}]
  <2>1. record # None /\ record.head = runs[e0.n].commit /\ record \in Row
    BY <1>1, <1>3 DEF SameCommit, Typed
  <2>2. it \in Local /\ it.event = e0 /\ it.row = record /\ it.seen = {}
    BY <1>1, <2>1 DEF Local, Typed
  <2>3. /\ local' = [local EXCEPT ![w] = it] /\ events' = events
        /\ DOMAIN step' = Workers
        /\ step'[w] = "list" /\ \A v \in Workers \ {w} : step'[v] = step[v]
    BY <1>1, <1>3 DEF reportRemediationDraftChecks, Goto
  <2> HIDE DEF it
  <2>4. /\ local' \in [Workers -> Local] /\ local'[w] = it
        /\ \A v \in Workers \ {w} : local'[v] = local[v]
    BY <1>1, <2>2, <2>3
  <2>5. /\ HoldsTheFix(record) /\ Linked(record)
        /\ record.checks # "pending" => Shown(record.head)
    BY <1>1, <2>1 DEF RecordOK
  <2>6. /\ HoldsTheFix(local[w].row)' /\ Linked(local[w].row)'
        /\ record.checks # "pending" => Shown(local[w].row.head)'
    BY <1>1, <2>2, <2>4, <2>5 DEF HoldsTheFix, Linked, Shown, github
  <2>7. e0 \in Happenings /\ e0.n \in DOMAIN runs
    BY <1>1 DEF Typed
  <2>8. WorkerOK(w)'
    BY <1>1, <2>1, <2>2, <2>3, <2>4, <2>6, <2>7 DEF WorkerOK, Commanding, Reporting, Cleaning, github
  <2> QED BY <1>1, <2>3, <2>4, <2>8, Private
<1> QED BY <1>2, <1>3

(* What the page shows is pending only as long as a run is not complete, or *)
(* there are too many.                                                      *)
LEMMA Summary ==
  ASSUME NEW h, RunsOf(h) # {}
  PROVE  /\ summarizeDraftChecks(h) \in Checks
         /\ summarizeDraftChecks(h) = "pending" => Settled(h)
BY DEF summarizeDraftChecks, Settled, Checks

LEMMA ListRunsStep ==
  ASSUME IInv, NEW w \in Workers, listRuns(w)
  PROVE  IInv' /\ Grows
<1> DEFINE h == runs[local[w].event.n].commit
           checks == summarizeDraftChecks(h)
<1>1. /\ DOMAIN step = Workers /\ local \in [Workers -> Local] /\ local[w] \in Local
      /\ WorkerOK(w) /\ Typed /\ step[w] = "list"
      /\ UNCHANGED <<github, links, record, reportable>>
  BY DEF IInv, Typed, listRuns
<1>2. h = local[w].row.head /\ RunsOf(h) # {}
  BY <1>1 DEF WorkerOK, Reporting, RunsOf
<1>3. checks \in Checks /\ (checks = "pending" => Settled(h))
  BY <1>2, Summary
<1>4. IF checks \in {"pending", local[w].row.checks} THEN Done(w)
      ELSE /\ Goto(w, "update") /\ Keep(w, [local[w].row EXCEPT !.checks = checks])
           /\ UNCHANGED events
  BY DEF listRuns
<1> HIDE DEF h, checks
<1>5. CASE checks \in {"pending", local[w].row.checks}
  <2>1. Settled(h)
    BY <1>1, <1>2, <1>3, <1>5 DEF WorkerOK, Settled
  <2> QED BY <1>1, <1>2, <1>4, <1>5, <2>1, DoneStep
<1>6. CASE checks \notin {"pending", local[w].row.checks}
  <2> DEFINE row == [local[w].row EXCEPT !.checks = checks]
  <2>1. /\ row \in Row /\ row.head = local[w].row.head /\ row.created = local[w].row.created
        /\ row.link = local[w].row.link /\ row.checks = checks
    BY <1>1, <1>3 DEF Local, Row
  <2>2. /\ local' = [local EXCEPT ![w].row = row] /\ events' = events
        /\ DOMAIN step' = Workers
        /\ step'[w] = "update" /\ \A v \in Workers \ {w} : step'[v] = step[v]
    BY <1>1, <1>4, <1>6 DEF Goto, Keep
  <2> HIDE DEF row
  <2>3. /\ local' \in [Workers -> Local] /\ local'[w].row = row
        /\ local'[w].event = local[w].event /\ local'[w].seen = local[w].seen
        /\ \A v \in Workers \ {w} : local'[v] = local[v]
    BY <1>1, <2>1, <2>2 DEF Local
  <2>4. HoldsTheFix(local[w].row)' /\ Linked(local[w].row)'
    BY <1>1, <2>1, <2>3 DEF HoldsTheFix, Linked, WorkerOK, Reporting, github
  <2>5. WorkerOK(w)'
    BY <1>1, <1>2, <1>6, <2>1, <2>2, <2>3, <2>4
       DEF WorkerOK, Commanding, Reporting, Cleaning, github
  <2> QED BY <1>1, <2>2, <2>3, <2>5, Private
<1> QED BY <1>5, <1>6

LEMMA UpdateCommentStep ==
  ASSUME IInv, NEW w \in Workers, updateComment(w)
  PROVE  IInv' /\ Grows
<1> DEFINE k == local[w].row.link
           checks == local[w].row.checks
<1>1. /\ DOMAIN step = Workers /\ local \in [Workers -> Local] /\ local[w] \in Local
      /\ WorkerOK(w) /\ Typed /\ step[w] = "update"
      /\ links' = [links EXCEPT ![k].checks = checks]
      /\ UNCHANGED <<github, record, events, local, reportable>>
      /\ links \in Seq([head : Nat, checks : Checks])
  BY DEF IInv, Typed, updateComment
<1>2. /\ k \in DOMAIN links /\ links[k].head = local[w].row.head /\ checks # "pending"
      /\ HoldsTheFix(local[w].row)
  BY <1>1 DEF WorkerOK, Linked, Reporting
<1>3. checks \in Checks
  BY <1>1 DEF Local, Row
<1> HIDE DEF k, checks
<1>4. /\ DOMAIN links' = DOMAIN links
      /\ links' \in Seq([head : Nat, checks : Checks])
      /\ \A j \in DOMAIN links : links'[j].head = links[j].head
      /\ \A j \in DOMAIN links \ {k} : links'[j] = links[j]
      /\ links'[k].checks = checks
  <2> DEFINE new == [links[k] EXCEPT !.checks = checks]
  <2>1. /\ new \in [head : Nat, checks : Checks]
        /\ new.head = links[k].head /\ new.checks = checks
    <3>1. links[k] \in [head : Nat, checks : Checks]
      BY <1>1, <1>2, ElementOfSeq, DOMAIN links = 1 .. Len(links)
    <3> QED BY <1>3, <3>1
  <2>2. links' = [links EXCEPT ![k] = new]
    BY <1>1
  <2> HIDE DEF new
  <2>3. links' \in Seq([head : Nat, checks : Checks])
    <3>1. links \in Seq([head : Nat, checks : Checks]) /\ k \in 1 .. Len(links)
      BY <1>1, <1>2
    <3>2. [links EXCEPT ![k] = new] \in Seq([head : Nat, checks : Checks])
      BY <2>1, <3>1, ExceptSeq
    <3> QED BY <2>2, <3>2
  <2> QED BY <1>1, <1>2, <2>1, <2>2, <2>3
<1>5. Grows
  BY <1>1, <1>2, <1>4 DEF Grows, github, HumansAt
<1>6. /\ DOMAIN step' = Workers
      /\ step'[w] = "set" /\ \A v \in Workers \ {w} : step'[v] = step[v]
  BY <1>1 DEF updateComment, Goto
<1>7. /\ HoldsTheFix(local[w].row)' /\ Linked(local[w].row)' /\ Shown(local[w].row.head)'
  BY <1>1, <1>2, <1>4 DEF HoldsTheFix, Linked, Shown, github, k
<1>8. WorkerOK(w)'
  BY <1>1, <1>6, <1>7 DEF WorkerOK, Commanding, Reporting, Cleaning, github
<1>9. Typed'
  BY <1>1, <1>4, <1>6 DEF Typed, github
<1>10. RecordOK' /\ Reported'
  BY <1>1, <1>5, RecordStays, ReportedStays DEF github
<1> QED BY <1>1, <1>5, <1>6, <1>8, <1>9, <1>10, OneWorker

LEMMA SetChecksStep ==
  ASSUME IInv, NEW w \in Workers, setRemediationDraftChecks(w)
  PROVE  IInv' /\ Grows
<1> DEFINE checks == local[w].row.checks
<1>1. /\ local[w] \in Local /\ WorkerOK(w) /\ Typed /\ RecordOK /\ step[w] = "set"
      /\ UNCHANGED <<github, links, reportable>> /\ Done(w)
      /\ record' = IF SameCommit(local[w].row.head)
                   THEN [record EXCEPT !.checks = checks] ELSE record
  BY DEF IInv, Typed, setRemediationDraftChecks
<1>2. Grows
  BY <1>1, Unchanged DEF github
<1>3. Shown(local[w].row.head) /\ checks \in Checks
  BY <1>1 DEF WorkerOK, Local, Row
<1> HIDE DEF checks
<1>4. ASSUME NEW e \in events \ events', e.kind = "run", record # None, runs[e.n].commit = record.head
      PROVE  Settled(record.head)
  <2>1. e = local[w].event
    BY <1>1, <1>4 DEF Done
  <2>2. runs[e.n].commit = local[w].row.head
    BY <1>1, <2>1 DEF WorkerOK, Reporting
  <2> QED BY <1>3, <1>4, <2>2 DEF Settled
<1>5. CASE SameCommit(local[w].row.head)
  <2>1. /\ record # None /\ record.head = local[w].row.head /\ record \in Row
        /\ record' = [record EXCEPT !.checks = checks]
    BY <1>1, <1>5 DEF SameCommit, Typed
  <2>2. /\ record' \in Row /\ record'.head = record.head /\ record'.created = record.created
        /\ record'.link = record.link /\ record'.checks = checks
    BY <1>3, <2>1 DEF Row
  <2>3. HoldsTheFix(record)' /\ Linked(record)' /\ Shown(record.head)'
    BY <1>1, <1>3, <2>1, <2>2 DEF RecordOK, HoldsTheFix, Linked, Shown, github
  <2>4. RecordOK'
    BY <2>3 DEF RecordOK
  <2>5. Typed'
    BY <1>1, <2>2, TypedStays, DoneOK
  <2>6. Reported'
    BY <1>1, <1>2, <1>4, <2>1, <2>2, ReportedStays DEF github
  <2> QED BY <1>1, <1>2, <2>4, <2>5, <2>6, DoneOK, OneWorker
<1>6. CASE ~SameCommit(local[w].row.head)
  <2>1. record' = record
    BY <1>1, <1>6
  <2>2. step[w] \in Reporting => Settled(local[w].row.head)
    BY <1>3 DEF Settled
  <2> QED BY <1>1, <2>1, <2>2, DoneStep
<1> QED BY <1>5, <1>6

-----------------------------------------------------------------------------
(* Cleaning up. *)

LEMMA CleanupStep ==
  ASSUME IInv, NEW w \in Workers, NEW e0 \in events, cleanupRemediationDrafts(w, e0)
  PROVE  IInv' /\ Grows
<1>1. /\ DOMAIN step = Workers /\ local \in [Workers -> Local]
      /\ WorkerOK(w) /\ Typed /\ RecordOK /\ step[w] = "idle" /\ e0.kind \in {"pull", "source"}
      /\ UNCHANGED <<github, links, record, reportable>>
  BY DEF IInv, Typed, cleanupRemediationDrafts
<1> DEFINE ours == record # None /\ (IF e0.kind = "pull" THEN record.pull = e0.n ELSE TRUE)
<1>2. CASE ~ours
  <2>1. events' = events \ {e0} /\ UNCHANGED <<step, local>>
    BY <1>2 DEF cleanupRemediationDrafts
  <2> QED BY <1>1, <2>1, Ignored
<1>3. CASE ours
  <2> DEFINE it == [event |-> e0, row |-> record, seen |-> HumansAt(branch)]
  <2>1. record # None /\ record \in Row
    BY <1>1, <1>3 DEF Typed
  <2>2. HumansAt(branch) \subseteq DOMAIN commits /\ DOMAIN commits \subseteq Nat
    BY <1>1, DraftAssumption DEF HumansAt, Typed
  <2>3. it \in Local /\ it.event = e0 /\ it.row = record /\ it.seen = HumansAt(branch)
    BY <1>1, <2>1, <2>2 DEF Local, Typed
  <2>4. /\ local' = [local EXCEPT ![w] = it] /\ events' = events
        /\ DOMAIN step' = Workers
        /\ step'[w] \in {"tip", "pull"} /\ \A v \in Workers \ {w} : step'[v] = step[v]
    BY <1>1, <1>3 DEF cleanupRemediationDrafts, Goto
  <2> HIDE DEF it
  <2>5. /\ local' \in [Workers -> Local] /\ local'[w] = it
        /\ \A v \in Workers \ {w} : local'[v] = local[v]
    BY <1>1, <2>3, <2>4
  <2>6. HoldsTheFix(record) /\ Linked(record)
    BY <1>1, <2>1 DEF RecordOK
  <2>7. HoldsTheFix(local[w].row)' /\ Linked(local[w].row)'
    BY <1>1, <2>3, <2>5, <2>6 DEF HoldsTheFix, Linked, github
  <2>8. e0 \in Happenings
    BY <1>1 DEF Typed
  <2>9. WorkerOK(w)'
    BY <1>1, <2>2, <2>3, <2>4, <2>5, <2>7, <2>8
       DEF WorkerOK, Commanding, Reporting, Cleaning, github
  <2> QED BY <1>1, <2>4, <2>5, <2>9, Private
<1> QED BY <1>2, <1>3

LEMMA CurrentPullStep ==
  ASSUME IInv, NEW w \in Workers, getCurrentPull(w)
  PROVE  IInv' /\ Grows
<1>1. /\ DOMAIN step = Workers /\ local \in [Workers -> Local]
      /\ WorkerOK(w) /\ step[w] = "pull"
      /\ UNCHANGED <<github, links, record, reportable>>
  BY DEF IInv, Typed, getCurrentPull
<1>2. CASE pulls[local[w].row.pull].open
  <2>1. Done(w)
    BY <1>2 DEF getCurrentPull
  <2> QED BY <1>1, <2>1, DoneStep DEF Reporting
<1>3. CASE ~pulls[local[w].row.pull].open
  <2>1. /\ local' = local /\ events' = events
        /\ DOMAIN step' = Workers
        /\ step'[w] = "tip" /\ \A v \in Workers \ {w} : step'[v] = step[v]
    BY <1>1, <1>3 DEF getCurrentPull, Goto
  <2>2. HoldsTheFix(local[w].row)' /\ Linked(local[w].row)'
    BY <1>1, <2>1 DEF HoldsTheFix, Linked, WorkerOK, Cleaning, github
  <2>3. WorkerOK(w)'
    BY <1>1, <2>1, <2>2 DEF WorkerOK, Commanding, Reporting, Cleaning, github
  <2> QED BY <1>1, <2>1, <2>3, Private
<1> QED BY <1>2, <1>3

(* A tip that is the command's own commit, on the head, has no commit of a *)
(* writer below it.                                                         *)
LEMMA ReadTipStep ==
  ASSUME IInv, NEW w \in Workers, readTip(w)
  PROVE  IInv' /\ Grows
<1>1. /\ DOMAIN step = Workers /\ local \in [Workers -> Local]
      /\ WorkerOK(w) /\ step[w] = "tip"
      /\ UNCHANGED <<github, links, record, events, local, reportable>>
      /\ HoldsTheFix(local[w].row) /\ Linked(local[w].row)
  BY DEF IInv, Typed, readTip, WorkerOK, Cleaning
<1>2. /\ DOMAIN step' = Workers /\ \A v \in Workers \ {w} : step'[v] = step[v]
      /\ step'[w] \in {"delete", "drop"}
      /\ step'[w] = "delete" => branch # None /\ Owned(local[w].row)
  BY <1>1 DEF readTip, Goto
<1>3. step'[w] = "delete" => HumansAt(branch) = {}
  BY <1>1, <1>2 DEF Owned, HoldsTheFix, HumansAt
<1>4. HumansAt(branch)' = HumansAt(branch)
  BY <1>1 DEF HumansAt, github
<1>5. HoldsTheFix(local[w].row)' /\ Linked(local[w].row)'
  BY <1>1 DEF HoldsTheFix, Linked, github
<1>6. WorkerOK(w)'
  BY <1>1, <1>2, <1>3, <1>4, <1>5 DEF WorkerOK, Commanding, Reporting, Cleaning, github
<1> QED BY <1>1, <1>2, <1>6, Private

(* Without a branch nothing is on it, and the pull requests from it close. *)
LEMMA Deleted ==
  ASSUME IInv, BranchDeleted, UNCHANGED <<commits, runs, links, record, local, reportable>>,
         DOMAIN step' = Workers
  PROVE  Typed' /\ Grows /\ RecordOK' /\ Reported' /\ HumansAt(branch)' = {}
<1>1. Typed /\ pulls \in Seq(Pull)
  BY DEF IInv, Typed
<1>2. HumansAt(branch)' = {}
  BY DEF BranchDeleted, HumansAt
<1>3. Grows
  BY <1>2 DEF Grows
<1>4. pulls' \in Seq(Pull)
  <2> DEFINE closed(n) == [pulls[n] EXCEPT !.open = FALSE]
  <2>1. \A n \in 1 .. Len(pulls) : closed(n) \in Pull
    <3> TAKE n \in 1 .. Len(pulls)
    <3>1. pulls[n] \in Pull
      BY <1>1, ElementOfSeq
    <3> QED BY <3>1 DEF Pull
  <2>2. pulls' = [n \in 1 .. Len(pulls) |-> closed(n)] /\ Len(pulls) \in Nat
    BY <1>1 DEF BranchDeleted
  <2> HIDE DEF closed
  <2> QED BY <2>1, <2>2, SeqDef
<1>5. /\ events' \subseteq Happenings /\ events \subseteq events'
      /\ \A e \in events' : e.kind = "run" => e \in events
  BY <1>1 DEF BranchDeleted, Happenings, Open, Typed
<1>6. Typed'
  BY <1>1, <1>4, <1>5 DEF Typed, BranchDeleted
<1>7. RecordOK' /\ Reported'
  BY <1>3, <1>5, RecordStays, ReportedStays
<1> QED BY <1>2, <1>3, <1>6, <1>7

LEMMA DeleteBranchStep ==
  ASSUME IInv, NEW w \in Workers, deleteBranch(w)
  PROVE  IInv' /\ Grows
<1>1. /\ DOMAIN step = Workers /\ WorkerOK(w) /\ step[w] = "delete" /\ BranchDeleted
      /\ UNCHANGED <<commits, runs, links, record, local, reportable>>
  BY DEF IInv, Typed, deleteBranch
<1>2. /\ DOMAIN step' = Workers /\ \A v \in Workers \ {w} : step'[v] = step[v]
      /\ step'[w] = "drop"
  BY <1>1 DEF deleteBranch, Goto
<1>3. HoldsTheFix(local[w].row)' /\ Linked(local[w].row)'
  BY <1>1 DEF HoldsTheFix, Linked, WorkerOK, Cleaning
<1>4. WorkerOK(w)'
  BY <1>1, <1>2, <1>3 DEF WorkerOK, Commanding, Reporting, Cleaning
<1> QED BY <1>1, <1>2, <1>4, Deleted, OneWorker

LEMMA DropStep ==
  ASSUME IInv, NEW w \in Workers, deleteRemediationDraft(w)
  PROVE  IInv' /\ Grows
<1>1. /\ WorkerOK(w) /\ Typed /\ step[w] = "drop"
      /\ UNCHANGED <<github, links, reportable>> /\ Done(w)
      /\ record' = None \/ record' = record
  BY DEF IInv, Typed, deleteRemediationDraft
<1>2. CASE record' = record
  BY <1>1, <1>2, DoneStep DEF Reporting
<1>3. CASE record' = None
  <2>1. Grows
    BY <1>1, Unchanged DEF github
  <2>2. Typed'
    BY <1>1, <1>3, TypedStays, DoneOK
  <2>3. RecordOK'
    BY <1>3 DEF RecordOK
  <2>4. Reported'
    BY <1>1, <1>3 DEF IInv, Reported, RunsOf, github
  <2> QED BY <1>1, <2>1, <2>2, <2>3, <2>4, DoneOK, OneWorker
<1> QED BY <1>1, <1>2, <1>3

-----------------------------------------------------------------------------
(* Failures, and the world around the handlers. *)

LEMMA FailStep ==
  ASSUME IInv, NEW w \in Workers, fails(w) \/ refused(w)
  PROVE  IInv' /\ Grows
<1>1. DOMAIN step = Workers /\ local \in [Workers -> Local]
  BY DEF IInv, Typed
<1>2. /\ UNCHANGED <<github, links, record, events, reportable>>
      /\ step' = [step EXCEPT ![w] = "idle"] /\ local' = [local EXCEPT ![w] = Nothing]
  BY DEF fails, refused, Goto
<1>3. /\ DOMAIN step' = Workers /\ local' \in [Workers -> Local]
      /\ step'[w] = "idle" /\ local'[w] = Nothing
      /\ \A v \in Workers \ {w} : step'[v] = step[v] /\ local'[v] = local[v]
  BY <1>1, <1>2, NothingTyped
<1>4. WorkerOK(w)'
  BY <1>3 DEF WorkerOK, Nothing, NoRow, Commanding, Reporting, Cleaning
<1> QED BY <1>2, <1>3, <1>4, Private

LEMMA PushStep ==
  ASSUME IInv, NEW f \in Contents, writerPushes(f)
  PROVE  IInv' /\ Grows
<1> DEFINE tip == IF branch = None THEN 0 ELSE branch
           c == [parent |-> tip, file |-> f, only |-> f # FileAt(tip),
                 humans |-> HumansAt(tip) \cup {Len(commits) + 1}]
<1>1. /\ Typed /\ commits' = Append(commits, c) /\ branch' = Len(commits')
      /\ UNCHANGED <<pulls, runs, links, record, events, step, local, reportable>>
  BY DEF IInv, writerPushes
<1>2. /\ tip \in 0 .. Len(commits) /\ Len(commits) \in Nat /\ DOMAIN commits = 1 .. Len(commits)
      /\ HumansAt(tip) = HumansAt(branch) /\ HumansAt(branch) \subseteq DOMAIN commits
  BY <1>1, DraftAssumption DEF Typed, HumansAt
<1>3. /\ c \in Commit /\ c.humans = HumansAt(branch) \cup {Len(commits) + 1}
  BY <1>2, DraftAssumption DEF Commit
<1> HIDE DEF c, tip
<1>4. /\ commits' \in Seq(Commit)
      /\ \A k \in DOMAIN commits' : commits'[k].humans \subseteq DOMAIN commits'
      /\ branch' = Len(commits) + 1 /\ branch' \in DOMAIN commits'
      /\ Grows
  BY <1>1, <1>3, Committed
<1>5. Typed'
  BY <1>1, <1>4, DraftAssumption DEF Typed
<1>6. RecordOK' /\ Reported'
  BY <1>1, <1>4, RecordStays, ReportedStays
<1> QED BY <1>1, <1>4, <1>5, <1>6, NoWorker

(* A branch, a pull request or a delivery that is none of a run's. *)
LEMMA WriterSteps ==
  ASSUME IInv, \/ writerDeletesBranch \/ sourceCloses
               \/ \E draft, ours \in BOOLEAN : writerOpensPull(draft, ours)
               \/ \E n \in DOMAIN pulls : pullCloses(n)
  PROVE  IInv' /\ Grows
<1> USE DEF Typed
<1>1. Typed /\ pulls \in Seq(Pull)
  BY DEF IInv
<1>2. CASE writerDeletesBranch
  <2>1. /\ BranchDeleted
        /\ UNCHANGED <<commits, runs, links, record, step, local, reportable>>
    BY <1>2 DEF writerDeletesBranch
  <2> QED BY <1>1, <2>1, Deleted, NoWorker
<1>3. ASSUME UNCHANGED <<commits, branch, runs, links, record, step, local, reportable>>,
             pulls' \in Seq(Pull),
             events \subseteq events', events' \subseteq Happenings,
             \A e \in events' : e.kind = "run" => e \in events
      PROVE  IInv' /\ Grows
  <2>1. Grows
    BY <1>3, Unchanged
  <2>2. Typed'
    BY <1>1, <1>3
  <2>3. RecordOK' /\ Reported'
    BY <1>3, <2>1, RecordStays, ReportedStays
  <2> QED BY <1>3, <2>1, <2>2, <2>3, NoWorker
<1>4. CASE \E draft, ours \in BOOLEAN : writerOpensPull(draft, ours)
  <2>1. PICK draft \in BOOLEAN, ours \in BOOLEAN : writerOpensPull(draft, ours)
    BY <1>4
  <2>2. pulls' \in Seq(Pull)
    BY <1>1, <2>1 DEF writerOpensPull, Pull
  <2> QED BY <1>1, <1>3, <2>1, <2>2 DEF writerOpensPull
<1>5. CASE sourceCloses
  <2>1. events \subseteq events' /\ events' \subseteq Happenings
        /\ \A e \in events' : e.kind = "run" => e \in events
    BY <1>1, <1>5 DEF sourceCloses, Happenings
  <2> QED BY <1>1, <1>3, <1>5, <2>1 DEF sourceCloses
<1>6. CASE \E n \in DOMAIN pulls : pullCloses(n)
  <2>1. PICK n \in DOMAIN pulls : pullCloses(n)
    BY <1>6
  <2>2. events \subseteq events' /\ events' \subseteq Happenings
        /\ \A e \in events' : e.kind = "run" => e \in events
    BY <1>1, <2>1 DEF pullCloses, Happenings
  <2> DEFINE closed == [pulls[n] EXCEPT !.open = FALSE]
  <2>3. n \in 1 .. Len(pulls) /\ pulls[n] \in Pull
    <3>1. n \in 1 .. Len(pulls)
      BY <1>1
    <3> QED BY <1>1, <3>1, ElementOfSeq
  <2>4. closed \in Pull /\ pulls' = [pulls EXCEPT ![n] = closed]
    BY <2>1, <2>3 DEF pullCloses, Pull
  <2> HIDE DEF closed
  <2>5. pulls' \in Seq(Pull)
    BY <1>1, <2>3, <2>4, ExceptSeq
  <2> QED BY <1>3, <2>1, <2>2, <2>5 DEF pullCloses
<1> QED BY <1>2, <1>4, <1>5, <1>6

(* A commit whose run starts is settled until the run completes. *)
LEMMA RunStartsStep ==
  ASSUME IInv, runStarts
  PROVE  IInv' /\ Grows
<1> DEFINE new == [commit |-> branch, state |-> "running"]
<1>1. /\ Typed /\ Reported /\ RecordOK /\ runs \in Seq(Run)
      /\ runs' = Append(runs, new) /\ branch \in Nat
      /\ UNCHANGED <<commits, branch, pulls, links, record, events, step, local, reportable>>
  BY DraftAssumption DEF IInv, Typed, runStarts, Ahead
<1>2. new \in Run /\ new.state = "running"
  BY <1>1 DEF Run
<1> HIDE DEF new
<1>3. /\ runs' \in Seq(Run) /\ DOMAIN runs \subseteq DOMAIN runs'
      /\ \A r \in DOMAIN runs : runs'[r] = runs[r]
      /\ \A r \in DOMAIN runs' \ DOMAIN runs : runs'[r].state = "running"
  BY <1>1, <1>2
<1>4. Grows
  BY <1>1, <1>3 DEF Grows, HumansAt
<1>5. Typed'
  BY <1>1, <1>3 DEF Typed
<1>6. RecordOK'
  BY <1>1, <1>4, RecordStays
<1>7. \A h \in reportable : RunsOf(h)' # {}
  BY <1>1, <1>3 DEF Reported, RunsOf
<1>8. ASSUME NEW h, Awaited(h)
      PROVE  Awaited(h)'
  <2>1. CASE RunsOf(h)' = RunsOf(h)
    <3>1. Settled(h) => Settled(h)'
      BY <1>1, <1>3, <2>1 DEF Settled, Shown, RunsOf
    <3>2. (\E e \in events : e.kind = "run" /\ runs[e.n].commit = h)
          => \E e \in events' : e.kind = "run" /\ runs'[e.n].commit = h
      BY <1>1, <1>3 DEF Typed
    <3> QED BY <1>8, <3>1, <3>2 DEF Awaited
  <2>2. CASE RunsOf(h)' # RunsOf(h)
    <3>1. \E r \in RunsOf(h)' : runs'[r].state = "running"
      BY <1>3, <2>2 DEF RunsOf
    <3> QED BY <3>1 DEF Awaited, Settled
  <2> QED BY <2>1, <2>2
<1>9. Reported'
  <2>1. record # None => (record.head \in reportable => Awaited(record.head))
    BY <1>1 DEF Reported
  <2>2. record # None /\ record.head \in reportable => Awaited(record.head)'
    <3>1. \A h : Awaited(h) => Awaited(h)'
      BY <1>8
    <3>2. PICK h : h = record.head
      OBVIOUS
    <3>3. record # None /\ record.head \in reportable => Awaited(h)'
      BY <2>1, <3>1, <3>2
    <3> QED BY <1>1, <3>2, <3>3 DEF Awaited, Settled, RunsOf, Shown
  <2> QED BY <1>1, <1>7, <2>2 DEF Reported
<1> QED BY <1>1, <1>4, <1>5, <1>6, <1>9, NoWorker

(* A run that completes leaves a delivery that shows its commit's checks. *)
LEMMA RunCompletesStep ==
  ASSUME IInv, NEW r0 \in DOMAIN runs, NEW c \in {"success", "failure"}, runCompletes(r0, c)
  PROVE  IInv' /\ Grows
<1> DEFINE new == [runs[r0] EXCEPT !.state = c]
           e0 == [kind |-> "run", n |-> r0]
<1>1. /\ Typed /\ Reported /\ RecordOK /\ runs \in Seq(Run)
      /\ runs' = [runs EXCEPT ![r0] = new]
      /\ events' = events \cup {e0}
      /\ UNCHANGED <<commits, branch, pulls, links, record, step, local>>
      /\ reportable' = IF SameCommit(runs[r0].commit) THEN reportable \cup {runs[r0].commit}
                       ELSE reportable
  BY DEF IInv, Typed, runCompletes
<1>2. runs[r0] \in Run /\ r0 \in 1 .. Len(runs)
  BY <1>1, ElementOfSeq
<1>3. new \in Run /\ new.commit = runs[r0].commit
  BY <1>2 DEF Run
<1> HIDE DEF new
<1>4. runs' \in Seq(Run)
  BY <1>1, <1>2, <1>3, ExceptSeq
<1>5. /\ DOMAIN runs' = DOMAIN runs
      /\ \A r \in DOMAIN runs : runs'[r].commit = runs[r].commit
      /\ \A r \in DOMAIN runs \ {r0} : runs'[r] = runs[r]
  BY <1>1, <1>2, <1>3
<1>6. Grows
  BY <1>1, <1>5 DEF Grows, HumansAt
<1>7. Typed'
  <2>1. e0 \in Happenings /\ e0.n = r0 /\ runs[r0].commit \in Nat
    BY <1>2 DEF Happenings, Run
  <2>2. events' \subseteq Happenings /\ \A e \in events' : e.kind = "run" => e.n \in DOMAIN runs'
    BY <1>1, <1>5, <2>1 DEF Typed
  <2>3. reportable' \subseteq Nat
    BY <1>1, <2>1 DEF Typed
  <2> QED BY <1>1, <1>4, <2>2, <2>3 DEF Typed
<1>8. RecordOK'
  BY <1>1, <1>6, RecordStays
<1>9. \A h : RunsOf(h)' = RunsOf(h)
  BY <1>5 DEF RunsOf
<1>10. \A h \in reportable' : RunsOf(h)' # {}
  BY <1>1, <1>9 DEF Reported, RunsOf
<1>11. ASSUME NEW h, h # runs[r0].commit, Awaited(h)
       PROVE  Awaited(h)'
  <2>1. Settled(h) => Settled(h)'
    BY <1>1, <1>5, <1>9, <1>11 DEF Settled, Shown, RunsOf
  <2>2. (\E e \in events : e.kind = "run" /\ runs[e.n].commit = h)
        => \E e \in events' : e.kind = "run" /\ runs'[e.n].commit = h
    BY <1>1, <1>5 DEF Typed
  <2> QED BY <1>11, <2>1, <2>2 DEF Awaited
<1>12. Awaited(runs[r0].commit)'
  <2>1. e0 \in events' /\ e0.kind = "run" /\ runs'[e0.n].commit = runs[r0].commit
    BY <1>1, <1>5
  <2>2. runs'[r0].commit = runs[r0].commit
    BY <1>5
  <2> QED BY <2>1, <2>2 DEF Awaited
<1>13. Reported'
  <2> SUFFICES ASSUME record # None, record.head \in reportable'
               PROVE  Awaited(record.head)'
    BY <1>1, <1>10 DEF Reported
  <2>1. CASE record.head = runs[r0].commit
    <3>1. e0 \in events' /\ e0.kind = "run" /\ runs'[e0.n].commit = record.head
      BY <1>1, <1>5, <2>1
    <3>2. record'.head = record.head
      BY <1>1
    <3> HIDE DEF e0
    <3>3. \E e \in events' : e.kind = "run" /\ runs'[e.n].commit = record'.head
      BY <3>1, <3>2
    <3> QED BY <3>3 DEF Awaited
  <2>2. CASE record.head # runs[r0].commit
    <3>1. \A h : h # runs[r0].commit /\ Awaited(h) => Awaited(h)'
      BY <1>11
    <3>2. Awaited(record.head)
      BY <1>1, <2>2 DEF Reported
    <3>3. PICK h : h = record.head
      OBVIOUS
    <3>4. Awaited(h)'
      BY <3>1, <3>2, <3>3, <2>2
    <3> QED BY <1>1, <3>3, <3>4 DEF Awaited, Settled, RunsOf, Shown
  <2> QED BY <2>1, <2>2
<1> QED BY <1>1, <1>6, <1>7, <1>8, <1>13, NoWorker

-----------------------------------------------------------------------------
(* What is true throughout. *)

LEMMA InitOK ==
  ASSUME Init
  PROVE  IInv
<1>1. Typed
  BY NothingTyped DEF Init, Typed
<1>2. \A w \in Workers : WorkerOK(w)
  BY IdleOK DEF Init
<1>3. RecordOK /\ Reported
  BY DEF Init, RecordOK, Reported
<1> QED BY <1>1, <1>2, <1>3 DEF IInv

LEMMA Step ==
  ASSUME IInv, [Next]_vars
  PROVE  IInv' /\ Grows
<1>1. ASSUME NEW w \in Workers, Handler(w)
      PROVE  IInv' /\ Grows
  BY <1>1, CommandSteps, CreateBranchStep, PrepareStep, OpenStep, ReuseStep, WriteFileStep,
     LinkStep, SaveStep, ReportStep, CleanupStep, ListRunsStep, UpdateCommentStep, SetChecksStep, CurrentPullStep,
     ReadTipStep, DeleteBranchStep, DropStep, FailStep DEF Handler
<1>2. CASE UNCHANGED vars
  <2>1. /\ UNCHANGED <<commits, branch, pulls, runs, links, record, events, sourceOpen>>
        /\ UNCHANGED <<step, local, reportable>>
    BY <1>2 DEF vars
  <2>2. Grows
    BY <2>1, Unchanged
  <2>3. Typed'
    BY <2>1 DEF IInv, Typed
  <2>4. RecordOK' /\ Reported'
    BY <2>1, <2>2, RecordStays, ReportedStays
  <2> QED BY <2>1, <2>2, <2>3, <2>4, NoWorker
<1> QED BY <1>1, <1>2, PushStep, WriterSteps, RunStartsStep, RunCompletesStep DEF Next

LEMMA Invariance == Spec => []IInv
<1>1. IInv /\ [Next]_vars => IInv'
  BY Step
<1> QED BY InitOK, <1>1, PTL DEF Spec

-----------------------------------------------------------------------------
(* Cleaning up spares the writers. *)

LEMMA DeletesOnly ==
  ASSUME IInv, [Next]_vars, NEW w \in Workers, step[w] = "delete"
  PROVE  HumansAt(branch) \cap local[w].seen = {}
BY DEF IInv, WorkerOK

(* deleteIfOwned (service.ts) never removes a branch with a commit of a     *)
(* writer that was on it when the cleanup began: for any number of workers, *)
(* cleanups and pushes between them.                                        *)
THEOREM CleanupSparesWritersTheorem == Spec => CleanupSparesWriters
<1>1. IInv /\ [Next]_vars =>
        [\A w \in Workers :
           (step[w] = "delete" /\ step'[w] = "drop") => HumansAt(branch) \cap local[w].seen = {}]_vars
  BY DeletesOnly
<1> QED BY <1>1, Invariance, PTL DEF Spec, CleanupSparesWriters

-----------------------------------------------------------------------------
(* The recorded commit holds the fix. *)

(* Three parts of a sequence are found where their lengths put them. *)
Parts(new, A, B, C) ==
    /\ new \in Seq(STRING) /\ Len(new) = Len(A) + Len(B) + Len(C)
    /\ SubSeq(new, 1, Len(A)) = A
    /\ SubSeq(new, Len(A) + 1, Len(new) - Len(C)) = B
    /\ \A k \in 0 .. Len(C) - 1 : new[Len(new) - k] = C[Len(C) - k]

LEMMA ConcatParts ==
  ASSUME NEW A \in Seq(STRING), NEW B \in Seq(STRING), NEW C \in Seq(STRING)
  PROVE  Parts(A \o B \o C, A, B, C)
<1> DEFINE new == A \o B \o C
<1>1. /\ new \in Seq(STRING) /\ Len(new) = Len(A) + Len(B) + Len(C)
      /\ Len(A) \in Nat /\ Len(B) \in Nat /\ Len(C) \in Nat
  OBVIOUS
<1>2. /\ \A i \in 1 .. Len(A) : new[i] = A[i]
      /\ \A i \in 1 .. Len(B) : new[Len(A) + i] = B[i]
      /\ \A i \in 1 .. Len(C) : new[Len(A) + Len(B) + i] = C[i]
  OBVIOUS
<1> HIDE DEF new
<1>3. SubSeq(new, 1, Len(A)) = A
  BY <1>1, <1>2
<1>4. SubSeq(new, Len(A) + 1, Len(new) - Len(C)) = B
  <2> DEFINE t == SubSeq(new, Len(A) + 1, Len(A) + Len(B))
  <2>1. \A i \in Len(A) + 1 .. Len(A) + Len(B) : new[i] \in STRING
    BY <1>1
  <2>2. /\ t \in Seq(STRING) /\ Len(t) = Len(B)
        /\ \A i \in 1 .. Len(B) : t[i] = new[Len(A) + i]
    BY <1>1, <2>1
  <2>3. \A i \in 1 .. Len(B) : t[i] = B[i]
    BY <1>2, <2>2
  <2> HIDE DEF t
  <2>4. t = B
    BY <2>2, <2>3, SeqEqual
  <2>5. Len(new) - Len(C) = Len(A) + Len(B)
    BY <1>1
  <2> QED BY <2>4, <2>5 DEF t
<1>5. ASSUME NEW k \in 0 .. Len(C) - 1
      PROVE  new[Len(new) - k] = C[Len(C) - k]
  <2>1. Len(C) - k \in 1 .. Len(C) /\ Len(new) - k = Len(A) + Len(B) + (Len(C) - k)
    BY <1>1
  <2> QED BY <1>2, <2>1
<1> QED BY <1>1, <1>3, <1>4, <1>5 DEF new, Parts

LEMMA SplicedIsTheFix ==
  ASSUME End <= Len(File)
  PROVE  LET tail == Len(File) - End
         IN  /\ SubSeq(Spliced, 1, Start - 1) = SubSeq(File, 1, Start - 1)
             /\ SubSeq(Spliced, Start, Len(Spliced) - tail) = Suggestion
             /\ \A k \in 0 .. tail - 1 : Spliced[Len(Spliced) - k] = File[Len(File) - k]
<1> DEFINE A == SubSeq(File, 1, Start - 1)
           C == SubSeq(File, End + 1, Len(File))
<1>1. /\ File \in Seq(STRING) /\ Suggestion \in Seq(STRING)
      /\ Start \in Nat \ {0} /\ End \in Nat \ {0} /\ Start <= End /\ Len(File) \in Nat
  BY DraftAssumption
<1>2. A \in Seq(STRING) /\ Len(A) = Start - 1
  BY <1>1, SubSeqProperties
<1>3. /\ C \in Seq(STRING) /\ Len(C) = Len(File) - End
      /\ \A i \in 1 .. Len(C) : C[i] = File[End + i]
  BY <1>1, SubSeqProperties
<1>4. Spliced = A \o Suggestion \o C
  BY DEF Spliced
<1> HIDE DEF A, C
<1>5. /\ Spliced \in Seq(STRING) /\ SubSeq(Spliced, 1, Len(A)) = A
      /\ SubSeq(Spliced, Len(A) + 1, Len(Spliced) - Len(C)) = Suggestion
      /\ \A k \in 0 .. Len(C) - 1 : Spliced[Len(Spliced) - k] = C[Len(C) - k]
  <2>1. Parts(Spliced, A, Suggestion, C)
    BY <1>1, <1>2, <1>3, <1>4, ConcatParts
  <2> QED BY <2>1 DEF Parts
<1>6. \A k \in 0 .. Len(C) - 1 : C[Len(C) - k] = File[Len(File) - k]
  <2> TAKE k \in 0 .. Len(C) - 1
  <2>1. Len(C) - k \in 1 .. Len(C) /\ End + (Len(C) - k) = Len(File) - k
    BY <1>1, <1>3
  <2> QED BY <1>3, <2>1
<1>7. SubSeq(Spliced, 1, Start - 1) = SubSeq(File, 1, Start - 1)
  BY <1>1, <1>2, <1>5 DEF A
<1> QED BY <1>1, <1>2, <1>3, <1>5, <1>6, <1>7

LEMMA RecordedFix ==
  ASSUME IInv
  PROVE  RecordedCommitHoldsTheFix
<1> SUFFICES ASSUME record # None
             PROVE  RecordedCommitHoldsTheFix
  BY DEF RecordedCommitHoldsTheFix
<1>1. HoldsTheFix(record)
  BY DEF IInv, RecordOK
<1>2. commits[record.head].file = Spliced /\ End <= Len(File)
  BY <1>1 DEF HoldsTheFix
<1> QED BY <1>1, <1>2, SplicedIsTheFix DEF RecordedCommitHoldsTheFix, HoldsTheFix

(* Whatever writers pushed between the calls of createDraft (remediation.ts *)
(* and service.ts), the recorded commit is the validated suggestion spliced *)
(* into the file at the head, with every other line as it was; a reused     *)
(* commit is all the branch has above the head.                             *)
THEOREM RecordedCommitHoldsTheFixTheorem == Spec => []RecordedCommitHoldsTheFix
BY Invariance, RecordedFix, PTL

-----------------------------------------------------------------------------
(* The checks are reported. *)

LEMMA QuietReports ==
  ASSUME IInv
  PROVE  ChecksAreReported
<1> SUFFICES ASSUME Quiet, record # None, \A r \in DOMAIN runs : runs[r].state # "running",
                    record.head \in reportable, Cardinality(RunsOf(record.head)) <= PageSize
             PROVE  Shown(record.head)
  BY DEF ChecksAreReported, Shown
<1>1. Awaited(record.head) /\ events = {}
  BY DEF IInv, Reported, Quiet
<1>2. Settled(record.head)
  BY <1>1 DEF Awaited
<1>3. Cardinality(RunsOf(record.head)) \in Nat /\ PageSize \in Nat
  <2>1. IsFiniteSet(DOMAIN runs)
    <3>1. DOMAIN runs = 1 .. Len(runs) /\ Len(runs) \in Nat
      BY DEF IInv, Typed
    <3> QED BY <3>1, FS_Interval
  <2>2. IsFiniteSet(RunsOf(record.head))
    BY <2>1, FS_Subset DEF RunsOf
  <2> QED BY <2>2, FS_CardinalityType, DraftAssumption
<1>4. \A r \in RunsOf(record.head) : runs[r].state # "running"
  BY DEF RunsOf
<1> QED BY <1>2, <1>3, <1>4 DEF Settled

(* Once every delivery is handled, the link of a recorded draft is no       *)
(* longer pending, if a run of its commit completed after the record was    *)
(* saved, all have completed and one page shows them                        *)
(* (reportRemediationDraftChecks): whichever deliveries failed on the way,  *)
(* lapsed and were handled twice, or found the runs of the moment.  It may  *)
(* be the outcome that a slower handler had found earlier.                  *)
THEOREM ChecksAreReportedTheorem == Spec => []ChecksAreReported
BY Invariance, QuietReports, PTL

=============================================================================
