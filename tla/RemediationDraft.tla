-------------------------- MODULE RemediationDraft --------------------------
(***************************************************************************)
(* Remediation drafts of one finding at one head of a pull request: the    *)
(* draft-fix command creates a branch, commits the validated suggestion,   *)
(* opens a draft pull request, links it and records it; completed workflow *)
(* runs report the draft's checks on the link; closed pull requests clean  *)
(* the branch up.  Every handler is a sequence of calls to GitHub and the  *)
(* store, may fail between any two of them and is then run again; several  *)
(* run at once, while writers push to the branch, delete it and open pull  *)
(* requests from it.                                                       *)
(***************************************************************************)
EXTENDS Naturals, Sequences, FiniteSets

CONSTANTS
    None,
    Workers,
    File,           \* the lines of the file at the head
    Start, End,     \* the finding's range
    Suggestion,     \* its validated suggestion, as lines
    Candidates,     \* what the command may find on record and in the diff
    Contents,       \* what a writer's commit may leave in the file
    PageSize,       \* MAX_DRAFT_CHECK_RUNS
    MaxCommands, MaxCommits, MaxPulls, MaxRuns, MaxTroubles       \* bounds

Happenings == [kind : {"run", "pull", "source"}, n : Nat]

ASSUME DraftAssumption ==
    /\ {Start, End, PageSize} \subseteq Nat \ {0} /\ Start <= End
    /\ {File, Suggestion} \cup Contents \subseteq Seq(STRING)
    /\ None \notin Nat /\ None \notin Happenings

VARIABLES
    commits,    \* commits above the head; a commit's name is its position, the head's is 0
    branch,     \* the tip of the draft branch, None if there is none
    pulls,      \* pull requests from the branch: open, a draft, into the source's branch (ours)
    runs,       \* workflow runs of its commits
    links,      \* link comments on the source pull request
    record,     \* the row of remediation_drafts, None if there is none
    events,     \* deliveries that are still to be handled
    sourceOpen, \* the source pull request is open
    step, local,    \* where each worker is and what it holds on to
    commands, troubles,
    reportable  \* history: commits a run of which completed after their record was saved

vars == <<commits, branch, pulls, runs, links, record, events, sourceOpen, step, local,
          commands, troubles, reportable>>
github == <<commits, branch, pulls, runs, sourceOpen>>

NoRow == [head |-> 0, created |-> FALSE, pull |-> 0, link |-> 0, checks |-> "pending"]
Nothing == [event |-> None, row |-> NoRow, seen |-> {}]

Init ==
    /\ commits = <<>> /\ branch = None /\ pulls = <<>> /\ runs = <<>> /\ links = <<>>
    /\ record = None /\ events = {} /\ sourceOpen = TRUE
    /\ step = [w \in Workers |-> "idle"] /\ local = [w \in Workers |-> Nothing]
    /\ commands = 0 /\ troubles = 0 /\ reportable = {}

Goto(w, s) == step' = [step EXCEPT ![w] = s]
Keep(w, row) == local' = [local EXCEPT ![w].row = row]
\* A handler returns: its delivery is done.
Done(w) == /\ Goto(w, "idle")
           /\ local' = [local EXCEPT ![w] = Nothing]
           /\ events' = events \ {local[w].event}

\* A failure, a lapsed lease or an act of a writer, of which there are MaxTroubles.
Trouble == troubles < MaxTroubles /\ troubles' = troubles + 1

FileAt(tip) == IF tip = 0 THEN File ELSE commits[tip].file
\* The writers' commits that are reachable from a tip.
HumansAt(tip) == IF tip \in {None, 0} THEN {} ELSE commits[tip].humans

-----------------------------------------------------------------------------
(* The draft-fix command.                                                  *)

Spliced == SubSeq(File, 1, Start - 1) \o Suggestion \o SubSeq(File, End + 1, Len(File))

\* A `plain' path is normalized, not protected, not binary and within the size bounds.
validateRemediationDraft(i) ==
    /\ i.path = "plain"
    /\ i.outcome # "dismissed" /\ i.state = "open"
    /\ i.reviewedAtHead /\ i.seenAtHead
    /\ i.published = Suggestion
    /\ Start .. End \subseteq i.changed
    /\ End <= Len(File) /\ Spliced # File

\* Drafts are enabled and permitted for this pull request, and the finding is validated.
draftFixCommand(w, i, available) ==
    /\ step[w] = "idle" /\ commands < MaxCommands
    /\ commands' = commands + 1
    /\ step' = IF available /\ validateRemediationDraft(i)
               THEN [step EXCEPT ![w] = "validate"] ELSE step
    /\ UNCHANGED <<github, links, record, events, local, troubles, reportable>>

\* A second model can only veto.
secondValidateDraft(w, accepted) ==
    /\ step[w] = "validate"
    /\ Goto(w, IF accepted THEN "create" ELSE "idle")
    /\ UNCHANGED <<github, links, record, events, local, commands, troubles, reportable>>

\* The branch is created at the head, unless there is one.
createBranch(w) ==
    /\ step[w] = "create"
    /\ branch' = IF branch = None THEN 0 ELSE branch
    /\ Goto(w, IF branch = None THEN "write" ELSE "inspect")
    /\ UNCHANGED <<commits, pulls, runs, links, record, events, sourceOpen, local, commands,
                   troubles, reportable>>

\* An existing branch is written to if it is at the head, and reused if it is one commit
\* ahead that changes the validated file only, to exactly the validated content.
ReusableByPath(tip) == commits[tip].parent = 0 /\ commits[tip].only
Reusable(tip) == /\ commits[tip].parent = 0 /\ commits[tip].only
                 /\ commits[tip].file = Spliced

prepareRemediationBranch(w) ==
    /\ step[w] = "inspect" /\ branch # None
    /\ IF branch = 0 THEN Goto(w, "write") /\ UNCHANGED <<local, events>>
       ELSE IF Reusable(branch)
            THEN Goto(w, "open") /\ Keep(w, [NoRow EXCEPT !.head = branch]) /\ UNCHANGED events
            ELSE Done(w)
    /\ UNCHANGED <<github, links, record, commands, troubles, reportable>>

\* The contents call puts its commit on the tip of the moment, as long as the file there
\* is the one that was validated; its answer names the commit, or is lost.
writeFile(w, answered) ==
    /\ step[w] = "write" /\ branch # None /\ Len(commits) < MaxCommits
    /\ FileAt(branch) = File
    /\ commits' = Append(commits, [parent |-> branch, file |-> Spliced, only |-> TRUE,
                                   humans |-> HumansAt(branch)])
    /\ branch' = Len(commits')
    /\ IF answered
       THEN Goto(w, "open") /\ Keep(w, [NoRow EXCEPT !.head = branch', !.created = TRUE])
            /\ UNCHANGED troubles
       ELSE Goto(w, "failed") /\ Trouble /\ UNCHANGED local
    /\ UNCHANGED <<pulls, runs, links, record, events, sourceOpen, commands, reportable>>

\* GitHub opens a pull request only from a branch that is ahead.
Ahead == IF branch = None THEN FALSE ELSE branch > 0

\* The draft pull request is opened, unless there is one into the same base.
Open == {n \in DOMAIN pulls : pulls[n].open}
Opened == \E n \in Open : pulls[n].ours
openRemediationPull(w) ==
    /\ step[w] = "open"
    /\ IF Ahead /\ ~Opened
       THEN /\ Len(pulls) < MaxPulls
            /\ pulls' = Append(pulls, [open |-> TRUE, draft |-> TRUE, ours |-> TRUE])
            /\ Keep(w, [local[w].row EXCEPT !.pull = Len(pulls')])
            /\ Goto(w, "link")
       ELSE Goto(w, "reuse") /\ UNCHANGED <<pulls, local>>
    /\ UNCHANGED <<commits, branch, runs, links, record, events, sourceOpen, commands, troubles,
                   reportable>>

\* Of the pull requests that are listed then, an open draft into the same base is reused;
\* without one the command is refused.
reuseRemediationPull(w) ==
    /\ step[w] = "reuse"
    /\ \/ \E n \in Open : /\ pulls[n].draft /\ pulls[n].ours
                          /\ Keep(w, [local[w].row EXCEPT !.pull = n])
                          /\ Goto(w, "link") /\ UNCHANGED events
       \/ (\A n \in Open : ~(pulls[n].draft /\ pulls[n].ours)) /\ Done(w)
    /\ UNCHANGED <<github, links, record, commands, troubles, reportable>>

linkDraft(w) ==
    /\ step[w] = "link"
    /\ links' = Append(links, [head |-> local[w].row.head, checks |-> "pending"])
    /\ Keep(w, [local[w].row EXCEPT !.link = Len(links')])
    /\ Goto(w, "save")
    /\ UNCHANGED <<github, record, events, commands, troubles, reportable>>

saveRemediationDraft(w) ==
    /\ step[w] = "save"
    /\ record' = local[w].row
    /\ reportable' = reportable \ {local[w].row.head}
    /\ Done(w)
    /\ UNCHANGED <<github, links, commands, troubles>>

-----------------------------------------------------------------------------
(* The checks of a draft are reported.                                     *)

\* A delivery is handled by one worker, or by a second one once the lease of the first
\* has lapsed.
Taken(e) == \E w \in Workers : local[w].event = e
Claims(e) == IF Taken(e) THEN Trouble ELSE UNCHANGED troubles

\* A completed run of the recorded commit; any other is ignored.
SameCommit(head) == IF record = None THEN FALSE ELSE record.head = head

reportRemediationDraftChecks(w, e) ==
    /\ step[w] = "idle" /\ e.kind = "run" /\ Claims(e)
    /\ IF SameCommit(runs[e.n].commit)
       THEN /\ Goto(w, "list")
            /\ local' = [local EXCEPT ![w] = [event |-> e, row |-> record, seen |-> {}]]
            /\ UNCHANGED events
       ELSE events' = events \ {e} /\ UNCHANGED <<step, local>>
    /\ UNCHANGED <<github, links, record, commands, reportable>>

RunsOf(head) == {r \in DOMAIN runs : runs[r].commit = head}

\* Settled once all runs completed and one page shows them; no run is never a pass.
summarizeAFullPageAsPending(head) ==
    IF RunsOf(head) = {} \/ Cardinality(RunsOf(head)) >= PageSize THEN "pending"
    ELSE IF \E r \in RunsOf(head) : runs[r].state = "running" THEN "pending"
    ELSE IF \A r \in RunsOf(head) : runs[r].state = "success" THEN "passed" ELSE "failed"
summarizeDraftChecks(head) ==
    IF RunsOf(head) = {} \/ Cardinality(RunsOf(head)) > PageSize THEN "pending"
    ELSE IF \E r \in RunsOf(head) : runs[r].state = "running" THEN "pending"
    ELSE IF \A r \in RunsOf(head) : runs[r].state = "success" THEN "passed" ELSE "failed"

listRuns(w) ==
    /\ step[w] = "list"
    /\ \E checks \in {summarizeDraftChecks(runs[local[w].event.n].commit)} :
          IF checks \in {"pending", local[w].row.checks} THEN Done(w)
          ELSE /\ Goto(w, "update")
               /\ Keep(w, [local[w].row EXCEPT !.checks = checks])
               /\ UNCHANGED events
    /\ UNCHANGED <<github, links, record, commands, troubles, reportable>>

updateComment(w) ==
    /\ step[w] = "update"
    /\ links' = [links EXCEPT ![local[w].row.link].checks = local[w].row.checks]
    /\ Goto(w, "set")
    /\ UNCHANGED <<github, record, events, local, commands, troubles, reportable>>

setRemediationDraftChecks(w) ==
    /\ step[w] = "set"
    /\ record' = IF SameCommit(local[w].row.head)
                 THEN [record EXCEPT !.checks = local[w].row.checks] ELSE record
    /\ Done(w)
    /\ UNCHANGED <<github, links, commands, troubles, reportable>>

-----------------------------------------------------------------------------
(* Closed pull requests are cleaned up after.                              *)

\* The record of the draft that closed, or that of the source pull request.
cleanupRemediationDrafts(w, e) ==
    /\ step[w] = "idle" /\ e.kind \in {"pull", "source"} /\ Claims(e)
    /\ IF record # None /\ (IF e.kind = "pull" THEN record.pull = e.n ELSE TRUE)
       THEN /\ Goto(w, IF e.kind = "pull" THEN "tip" ELSE "pull")
            /\ local' = [local EXCEPT ![w] = [event |-> e, row |-> record,
                                              seen |-> HumansAt(branch)]]
            /\ UNCHANGED events
       ELSE events' = events \ {e} /\ UNCHANGED <<step, local>>
    /\ UNCHANGED <<github, links, record, commands, reportable>>

\* A draft that outlives its source is left for its own close.
getCurrentPull(w) ==
    /\ step[w] = "pull"
    /\ IF pulls[local[w].row.pull].open THEN Done(w)
       ELSE Goto(w, "tip") /\ UNCHANGED <<local, events>>
    /\ UNCHANGED <<github, links, record, commands, troubles, reportable>>

\* The command's own commit is still the tip, directly on the head.
OwnedByTip(row) == row.created /\ branch = row.head
Owned(row) == row.created /\ branch = row.head /\ commits[row.head].parent = 0

readTip(w) ==
    /\ step[w] = "tip"
    /\ Goto(w, IF branch # None /\ Owned(local[w].row) THEN "delete" ELSE "drop")
    /\ UNCHANGED <<github, links, record, events, local, commands, troubles, reportable>>

\* Deleting a branch closes the pull requests from it.
BranchDeleted ==
    /\ branch' = None
    /\ pulls' = [n \in DOMAIN pulls |-> [pulls[n] EXCEPT !.open = FALSE]]
    /\ events' = events \cup {[kind |-> "pull", n |-> n] : n \in Open}

deleteBranch(w) ==
    /\ step[w] = "delete"
    /\ BranchDeleted
    /\ Goto(w, "drop")
    /\ UNCHANGED <<commits, runs, links, record, sourceOpen, local, commands, troubles, reportable>>

deleteRemediationDraft(w) ==
    /\ step[w] = "drop"
    /\ record' = IF SameCommit(local[w].row.head) THEN None ELSE record
    /\ Done(w)
    /\ UNCHANGED <<github, links, commands, troubles, reportable>>

-----------------------------------------------------------------------------
(* Failures, and the world around the handlers.                            *)

\* A call fails, the process dies or is aborted: the delivery is handled again later.
fails(w) ==
    /\ step[w] # "idle" /\ Trouble
    /\ Goto(w, "idle") /\ local' = [local EXCEPT ![w] = Nothing]
    /\ UNCHANGED <<github, links, record, events, commands, reportable>>

\* What GitHub refuses: writing to a file that changed or to a branch that is gone; and
\* the end of a call whose answer was lost.
refused(w) ==
    /\ \/ step[w] = "failed"
       \/ step[w] = "inspect" /\ branch = None
       \/ step[w] = "write" /\ (IF branch = None THEN TRUE ELSE FileAt(branch) # File)
    /\ Goto(w, "idle") /\ local' = [local EXCEPT ![w] = Nothing]
    /\ UNCHANGED <<github, links, record, events, commands, troubles, reportable>>

\* A writer commits to the branch, or creates it; leaving the file as it is means that
\* another one changes.
writerPushes(f) ==
    /\ Len(commits) < MaxCommits
    /\ Trouble
    /\ \E tip \in {IF branch = None THEN 0 ELSE branch} :
          commits' = Append(commits, [parent |-> tip, file |-> f, only |-> f # FileAt(tip),
                                      humans |-> HumansAt(tip) \cup {Len(commits) + 1}])
    /\ branch' = Len(commits')
    /\ UNCHANGED <<pulls, runs, links, record, events, sourceOpen, step, local, commands,
                   reportable>>

writerDeletesBranch ==
    /\ branch # None
    /\ Trouble
    /\ BranchDeleted
    /\ UNCHANGED <<commits, runs, links, record, sourceOpen, step, local, commands,
                   reportable>>

\* A writer opens a pull request from the branch, into the source's branch or another.
writerOpensPull(draft, ours) ==
    /\ Ahead /\ Len(pulls) < MaxPulls
    /\ \A n \in Open : pulls[n].ours # ours
    /\ Trouble
    /\ pulls' = Append(pulls, [open |-> TRUE, draft |-> draft, ours |-> ours])
    /\ UNCHANGED <<commits, branch, runs, links, record, events, sourceOpen, step, local,
                   commands, reportable>>

pullCloses(n) ==
    /\ n \in Open
    /\ pulls' = [pulls EXCEPT ![n].open = FALSE]
    /\ events' = events \cup {[kind |-> "pull", n |-> n]}
    /\ UNCHANGED <<commits, branch, runs, links, record, sourceOpen, step, local, commands,
                   troubles, reportable>>

sourceCloses ==
    /\ sourceOpen
    /\ sourceOpen' = FALSE
    /\ events' = events \cup {[kind |-> "source", n |-> 0]}
    /\ UNCHANGED <<commits, branch, pulls, runs, links, record, step, local, commands, troubles,
                   reportable>>

runStarts ==
    /\ Ahead /\ Len(runs) < MaxRuns
    /\ runs' = Append(runs, [commit |-> branch, state |-> "running"])
    /\ UNCHANGED <<commits, branch, pulls, links, record, events, sourceOpen, step, local,
                   commands, troubles, reportable>>

runCompletes(r, conclusion) ==
    /\ runs[r].state = "running"
    /\ runs' = [runs EXCEPT ![r].state = conclusion]
    /\ events' = events \cup {[kind |-> "run", n |-> r]}
    /\ reportable' = IF SameCommit(runs[r].commit) THEN reportable \cup {runs[r].commit}
                     ELSE reportable
    /\ UNCHANGED <<commits, branch, pulls, links, record, sourceOpen, step, local, commands,
                   troubles>>

Handler(w) ==
    \/ \E i \in Candidates, available \in BOOLEAN : draftFixCommand(w, i, available)
    \/ \E accepted \in BOOLEAN : secondValidateDraft(w, accepted)
    \/ createBranch(w) \/ prepareRemediationBranch(w)
    \/ openRemediationPull(w) \/ reuseRemediationPull(w)
    \/ \E answered \in BOOLEAN : writeFile(w, answered)
    \/ linkDraft(w) \/ saveRemediationDraft(w)
    \/ \E e \in events : reportRemediationDraftChecks(w, e) \/ cleanupRemediationDrafts(w, e)
    \/ listRuns(w) \/ updateComment(w) \/ setRemediationDraftChecks(w)
    \/ getCurrentPull(w) \/ readTip(w) \/ deleteBranch(w) \/ deleteRemediationDraft(w)
    \/ fails(w) \/ refused(w)

Next == \/ \E w \in Workers : Handler(w)
        \/ \E f \in Contents : writerPushes(f)
        \/ \E draft, ours \in BOOLEAN : writerOpensPull(draft, ours)
        \/ writerDeletesBranch \/ sourceCloses \/ runStarts
        \/ \E n \in DOMAIN pulls : pullCloses(n)
        \/ \E r \in DOMAIN runs, c \in {"success", "failure"} : runCompletes(r, c)

Spec == Init /\ [][Next]_vars

-----------------------------------------------------------------------------
(* Properties.                                                             *)

\* Cleaning up never deletes a commit of a writer that was on the branch when the cleanup
\* began: not one below the command's own commit, and not one that the command reused.
CleanupSparesWriters ==
    [][\A w \in Workers :
         (step[w] = "delete" /\ step'[w] = "drop") => HumansAt(branch) \cap local[w].seen = {}]_vars

\* Whatever writers pushed meanwhile, the recorded commit has the file with the range
\* replaced by the suggestion and every other line as it was; and a commit that was reused
\* is all the branch has above the head.
RecordedCommitHoldsTheFix ==
    record # None =>
      LET new == commits[record.head].file
          tail == Len(File) - End
      IN  /\ SubSeq(new, 1, Start - 1) = SubSeq(File, 1, Start - 1)
          /\ SubSeq(new, Start, Len(new) - tail) = Suggestion
          /\ \A k \in 0 .. tail - 1 : new[Len(new) - k] = File[Len(File) - k]
          /\ ~record.created => commits[record.head].parent = 0 /\ commits[record.head].only

\* Once all is handled, the link of a recorded draft is no longer pending if its last run
\* completed after the record was saved.  That its outcome is the newest is not said: a
\* handler that listed the runs earlier may write last.
Quiet == events = {} /\ \A w \in Workers : step[w] = "idle"
ChecksAreReported ==
    (/\ Quiet /\ record # None
     /\ \A r \in DOMAIN runs : runs[r].state # "running"
     /\ IF record = None THEN FALSE
        ELSE record.head \in reportable /\ Cardinality(RunsOf(record.head)) <= PageSize) =>
    \E k \in DOMAIN links : links[k].head = record.head /\ links[k].checks # "pending"
=============================================================================
