-------------------------- MODULE RepositoryIndex --------------------------
(***************************************************************************)
(* The row of one repository, the commit-scoped generations of its code    *)
(* index, and its onboarding issue, as the webhook handlers of several     *)
(* control-plane processes read and write them.                            *)
(*                                                                         *)
(* A delivery is handled in steps that other handlers interleave with: a   *)
(* push or a discovery reads the row, writes the whole row back, (when     *)
(* discovering) makes sure the onboarding issue exists, refreshes the      *)
(* index of the branch head it resolves, and copies the scanner mode of    *)
(* that commit's configuration into the row.  Commands and lifecycle       *)
(* events update one column.  A sweeper deletes superseded generations.    *)
(*                                                                         *)
(* A commit's tree maps a path to a blob; blobs are immutable, so a read   *)
(* either returns the blob or fails.  The clock is not modelled: every     *)
(* superseded generation may be old enough for the sweep.                  *)
(***************************************************************************)
EXTENDS Naturals, Sequences, FiniteSets, Absence

CONSTANTS
    Handlers,           \* concurrent webhook handlers
    ProcessOf,          \* [Handlers -> processes]: who shares a promise map
    Commits,
    Ancestors,          \* [Commits -> SUBSET Commits]: a commit's history, itself included
    Trees,              \* candidate histories: a set of [Commits -> tree]
    Supported,          \* the supported paths, in candidate order
    Names,              \* identities (full name and visibility) of the repository
    Readable,           \* blobs that are neither oversized nor binary
    Bytes,              \* [blobs -> Nat]
    Mode,               \* [blobs -> scanner mode a configuration blob selects]
    ConfigPath,
    MAX_INDEXED_FILES, MAX_TOTAL_BYTES, MAX_INCREMENTAL_FILES,
    COMPARE_FILE_PAGE_LIMIT,
    Budgets             \* bounds of the model: sets of [events, moves, faults, sweeps]

\* A history is acyclic: being an ancestor is a partial order.
ASSUME CommitsAssumption ==
    /\ None \notin Commits
    /\ Ancestors \in [Commits -> SUBSET Commits]
    /\ \A c \in Commits : c \in Ancestors[c]
    /\ \A c \in Commits : \A b \in Ancestors[c] :
         Ancestors[b] \subseteq Ancestors[c] /\ (c \in Ancestors[b] => b = c)

\* A tree has a path once.
ASSUME PathsAssumption ==
    /\ Len(Supported) \in Nat /\ DOMAIN Supported = 1 .. Len(Supported)
    /\ \A i, j \in DOMAIN Supported : Supported[i] = Supported[j] => i = j
    /\ MAX_INDEXED_FILES \in Nat /\ COMPARE_FILE_PAGE_LIMIT \in Nat

Modes == {"not-configured", "report-only", "enforced"}

Rows == [name : Names, indexSha : Commits \cup {None}, paused : BOOLEAN,
         scanner : Modes, state : {"active", "removed"}]

ASSUME ValuesAssumption ==
    /\ Names # {}
    /\ IsFiniteSet(Handlers) /\ None \notin Handlers /\ None \notin Rows
    /\ \A t \in Trees : \A c \in Commits :
         ConfigPath \in DOMAIN t[c] => Mode[t[c][ConfigPath]] \in Modes

VARIABLES
    tree,       \* [Commits -> function from paths to blobs]: GitHub's objects
    head,       \* the default branch
    name,       \* the repository's current identity on GitHub
    row,        \* the repositories row, or None
    gen,        \* [Commits -> generation or None]: repository_indexes
    h,          \* [Handlers -> local state of the delivery it handles]
    pending,    \* handlers whose onboarding promise is in the process's map
    lock,       \* holder of the onboarding advisory lock
    issues,     \* onboarding issues among the pages that are listed
    told,       \* the pause state the last command replied with
    sessionsLost,   \* how often the session of the lock's holder was lost
    left        \* what is left of the bounds

vars == <<tree, head, name, row, gen, h, pending, lock, issues, told, sessionsLost, left>>

\* One of the bounded events happens.
Spend(k, n) == left[k] >= n /\ left' = [left EXCEPT ![k] = @ - n]

Idle == [pc |-> "idle", kind |-> None, name |-> None, ex |-> None,
         commit |-> None, existing |-> None, base |-> None, previous |-> None,
         changed |-> {}, files |-> <<>>, skipped |-> {}, mode |-> None]

Go(p, pc) == h' = [h EXCEPT ![p].pc = pc]

-----------------------------------------------------------------------------
(* What GitHub answers.                                                    *)

MergeBase(b, c) ==
    LET common == Ancestors[b] \cap Ancestors[c]
    IN  CHOOSE x \in common : common \subseteq Ancestors[x]

Differing(b, c) ==
    {q \in DOMAIN tree[b] \cup DOMAIN tree[c] :
        \/ q \notin DOMAIN tree[b] \/ q \notin DOMAIN tree[c]
        \/ tree[b][q] # tree[c][q]}

\* The first n supported paths that are in S.
Rank(S, k) == Cardinality({j \in 1 .. k : Supported[j] \in S})

First(n, S) ==
    {Supported[k] : k \in {i \in DOMAIN Supported : Supported[i] \in S /\ Rank(S, i) <= n}}

\* GET /compare/b...c names the paths that differ from the merge base, one
\* page of them; a page holds the first paths in path order.
Compared(b, c) ==
    [status |-> IF b \in Ancestors[c] THEN "ahead"
                ELSE IF c \in Ancestors[b] THEN "behind" ELSE "diverged",
     files |-> First(COMPARE_FILE_PAGE_LIMIT, Differing(MergeBase(b, c), c))]

\* The indexable paths of a commit's tree, by priority and path, cut off at the
\* file cap.
selected(c) == First(MAX_INDEXED_FILES, DOMAIN tree[c])

-----------------------------------------------------------------------------
(* The store.                                                              *)

upsertRepository(r) == row' = r

\* One transaction: the document, the rows queries read (a file's records, with
\* their vectors and call edges, stand for its content), and index_sha.
replaceRepositoryIndex(c, n, files) ==
    /\ gen' = [gen EXCEPT ![c] = [name |-> n, files |-> files,
                                  rows |-> files]]
    /\ row' = [row EXCEPT !.indexSha = c]

RowsOf(c) == IF gen[c] = None THEN <<>> ELSE gen[c].rows

\* Rows are inserted, or updated where there are some.
Upserted(new, rows) ==
    [q \in DOMAIN new \cup DOMAIN rows |-> IF q \in DOMAIN new THEN new[q] ELSE rows[q]]

Without(rows, deleted) == [q \in DOMAIN rows \ deleted |-> rows[q]]

\* The same, but only the rows the caller found removed are deleted.
applyRepositoryIndexDelta(c, n, files, deleted) ==
    /\ gen' = [gen EXCEPT ![c] =
                 [name |-> n, files |-> files,
                  rows |-> Upserted(files, Without(RowsOf(c), deleted))]]
    /\ row' = [row EXCEPT !.indexSha = c]

\* Generations the row does not point at, any number of them up to the limit.
purgeSupersededIndexGenerations ==
    /\ Spend("sweeps", 1)
    /\ row # None
    /\ \E S \in (SUBSET {c \in Commits : gen[c] # None /\ row.indexSha # c}) \ {{}} :
         gen' = [c \in Commits |-> IF c \in S THEN None ELSE gen[c]]
    /\ UNCHANGED <<tree, head, name, row, h, pending, lock, issues, told, sessionsLost>>

-----------------------------------------------------------------------------
(* Deliveries: the event is recorded with the identity GitHub gave it.     *)

handle(p, kind) ==
    /\ h[p].pc = "idle"
    /\ Spend("events", 1)
    /\ h' = [h EXCEPT ![p] = [Idle EXCEPT !.pc = kind, !.kind = kind, !.name = name]]
    /\ UNCHANGED <<tree, head, name, row, gen, pending, lock, issues, told, sessionsLost>>

\* deleted and archived; the findings this discards are PullReview's.
setRepositoryState(p) ==
    /\ h[p].pc \in {"archived", "unarchived"}
    /\ row' = IF row = None THEN None
              ELSE [row EXCEPT !.state = IF h[p].pc = "archived" THEN "removed" ELSE "active"]
    /\ IF h[p].pc = "archived" THEN h' = [h EXCEPT ![p] = Idle] ELSE Go(p, "discover")
    /\ UNCHANGED <<tree, head, name, gen, pending, lock, issues, told, sessionsLost, left>>

\* pause and resume: the record is created when there is none, and a removed
\* repository is refused.
ensureRepositoryRecord(p) ==
    /\ h[p].pc \in {"pause", "resume"}
    /\ IF row # None /\ row.state = "removed"
       THEN h' = [h EXCEPT ![p] = Idle] /\ UNCHANGED row
       ELSE /\ h' = [h EXCEPT ![p].pc = IF row = None THEN "newRecord" ELSE "setPaused"]
            /\ UNCHANGED row
    /\ UNCHANGED <<tree, head, name, gen, pending, lock, issues, told, sessionsLost, left>>

newRecord(p) ==
    /\ h[p].pc = "newRecord"
    /\ upsertRepository([name |-> h[p].name, indexSha |-> None, paused |-> FALSE,
                         scanner |-> "not-configured", state |-> "active"])
    /\ Go(p, "setPaused")
    /\ UNCHANGED <<tree, head, name, gen, pending, lock, issues, told, sessionsLost, left>>

setAutomaticReviewPaused(p) ==
    /\ h[p].pc = "setPaused"
    /\ row' = [row EXCEPT !.paused = h[p].kind = "pause"]
    /\ told' = (h[p].kind = "pause")
    /\ h' = [h EXCEPT ![p] = Idle]
    /\ UNCHANGED <<tree, head, name, gen, pending, lock, issues, sessionsLost, left>>

-----------------------------------------------------------------------------
(* Push and discovery: read the row, write the whole row back.             *)

readRepository(p) ==
    /\ h[p].pc \in {"push", "discover"}
    /\ h' = [h EXCEPT ![p].pc = "upsert", ![p].ex = row]
    /\ UNCHANGED <<tree, head, name, row, gen, pending, lock, issues, told, sessionsLost, left>>

writeRepository(p) ==
    /\ h[p].pc = "upsert"
    /\ LET ex == h[p].ex IN
         upsertRepository(
           [name |-> h[p].name,
            indexSha |-> IF ex = None THEN None ELSE ex.indexSha,
            paused |-> IF ex = None THEN FALSE ELSE ex.paused,
            scanner |-> IF ex = None THEN "not-configured" ELSE ex.scanner,
            state |-> "active"])
    /\ h' = [h EXCEPT ![p].ex = None,
                      ![p].pc = IF h[p].kind = "push" THEN "resolve" ELSE "onboard"]
    /\ UNCHANGED <<tree, head, name, gen, pending, lock, issues, told, sessionsLost, left>>

-----------------------------------------------------------------------------
(* The onboarding issue: one promise per process, one lock per database.   *)

ensureOnboardingIssue(p) ==
    /\ h[p].pc = "onboard"
    /\ IF \E q \in pending : ProcessOf[q] = ProcessOf[p]
       THEN Go(p, "awaitIssue") /\ UNCHANGED pending
       ELSE Go(p, "lock") /\ pending' = pending \cup {p}
    /\ UNCHANGED <<tree, head, name, row, gen, lock, issues, told, sessionsLost, left>>

\* Mutant: the advisory lock is not awaited.
acquireOnboardingIssueLockAtOnce(p) ==
    /\ h[p].pc = "lock"
    /\ lock' = p
    /\ Go(p, "list")
    /\ UNCHANGED <<tree, head, name, row, gen, pending, issues, told, sessionsLost, left>>

acquireOnboardingIssueLock(p) ==
    /\ h[p].pc = "lock"
    /\ lock = None
    /\ lock' = p
    /\ Go(p, "list")
    /\ UNCHANGED <<tree, head, name, row, gen, pending, issues, told, sessionsLost, left>>

listIssues(p) ==
    /\ h[p].pc = "list"
    /\ Go(p, IF issues > 0 THEN "unlock" ELSE "create")
    /\ UNCHANGED <<tree, head, name, row, gen, pending, lock, issues, told, sessionsLost, left>>

createIssue(p) ==
    /\ h[p].pc = "create"
    /\ issues' = issues + 1
    /\ Go(p, "unlock")
    /\ UNCHANGED <<tree, head, name, row, gen, pending, lock, told, sessionsLost, left>>

Waiters(p) == {q \in Handlers : h[q].pc = "awaitIssue" /\ ProcessOf[q] = ProcessOf[p]}

\* A handler that failed: its delivery is retried whole by the webhook queue.
Retried(q) == [Idle EXCEPT !.pc = h[q].kind, !.kind = h[q].kind, !.name = h[q].name]

\* The lock is released, the promise leaves the map and everyone awaiting it
\* goes on; or, when the session was lost, the release fails and they all fail.
releaseOnboardingIssueLock(p) ==
    /\ h[p].pc = "unlock"
    /\ lock' = IF lock = p THEN None ELSE lock
    /\ pending' = pending \ {p}
    /\ h' = [q \in Handlers |-> IF q \notin Waiters(p) \cup {p} THEN h[q]
                                ELSE IF lock = p THEN [h[q] EXCEPT !.pc = "resolve"]
                                ELSE Retried(q)]
    /\ UNCHANGED <<tree, head, name, row, gen, issues, told, sessionsLost, left>>

-----------------------------------------------------------------------------
(* The index refresh.                                                      *)

resolveBranchHead(p) ==
    /\ h[p].pc = "resolve"
    /\ h' = [h EXCEPT ![p].pc = "lookup", ![p].commit = head]
    /\ UNCHANGED <<tree, head, name, row, gen, pending, lock, issues, told, sessionsLost, left>>

\* A generation of this commit and identity is republished as it is.
getRepositoryIndex(p) ==
    /\ h[p].pc = "lookup"
    /\ LET existing == gen[h[p].commit] IN
         h' = [h EXCEPT ![p].existing = existing,
                        ![p].pc = IF existing # None /\ existing.name = h[p].name
                                  THEN "republish" ELSE "plan"]
    /\ UNCHANGED <<tree, head, name, row, gen, pending, lock, issues, told, sessionsLost, left>>

republish(p) ==
    /\ h[p].pc = "republish"
    /\ LET e == h[p].existing IN replaceRepositoryIndex(h[p].commit, e.name, e.files)
    /\ h' = [h EXCEPT ![p].pc = "config", ![p].existing = None]
    /\ UNCHANGED <<tree, head, name, pending, lock, issues, told, sessionsLost, left>>

\* The base of an incremental refresh is the commit the row points at now.
planBase(p) ==
    /\ h[p].pc = "plan"
    /\ IF row.indexSha \in {None, h[p].commit}
       THEN Go(p, "read")
       ELSE h' = [h EXCEPT ![p].pc = "compare", ![p].base = row.indexSha]
    /\ UNCHANGED <<tree, head, name, row, gen, pending, lock, issues, told, sessionsLost, left>>

\* Mutant: a comparison is trusted whatever its status.
changedPathsAnyStatus(base, previous, c, n) ==
    LET compared == Compared(base, c)
    IN  IF previous.name # n \/ Cardinality(compared.files) >= COMPARE_FILE_PAGE_LIMIT
        THEN None
        ELSE compared.files \cup (selected(c) \ DOMAIN previous.files)

\* Mutant: paths the file cap admits now are not read.
changedPathsNamedOnly(base, previous, c, n) ==
    LET compared == Compared(base, c)
    IN  IF \/ previous.name # n \/ compared.status # "ahead"
           \/ Cardinality(compared.files) >= COMPARE_FILE_PAGE_LIMIT
        THEN None ELSE compared.files

\* The paths to read again when previous can be carried forward from base to c,
\* or None when only a full rebuild is safe.
changedPaths(base, previous, c, n) ==
    LET compared == Compared(base, c)
        chosen == selected(c)
        changed == compared.files \cup (chosen \ DOMAIN previous.files)
    IN  IF \/ previous.name # n
           \/ compared.status # "ahead"
           \/ Cardinality(compared.files) >= COMPARE_FILE_PAGE_LIMIT
           \/ Cardinality(changed \cap chosen) > MAX_INCREMENTAL_FILES
        THEN None ELSE changed

planIncrementalRefresh(p) ==
    /\ h[p].pc = "compare"
    /\ LET previous == gen[h[p].base]
           changed == IF previous = None THEN None
                      ELSE changedPaths(h[p].base, previous, h[p].commit, h[p].name)
       IN  IF changed = None
           THEN h' = [h EXCEPT ![p].pc = "read", ![p].base = None]
           ELSE h' = [h EXCEPT ![p].pc = "read", ![p].previous = previous,
                               ![p].changed = changed, ![p].base = None]
    /\ UNCHANGED <<tree, head, name, row, gen, pending, lock, issues, told, sessionsLost, left>>

\* The compare failed: a full rebuild.
compareFails(p) ==
    /\ h[p].pc = "compare"
    /\ Spend("faults", 1)
    /\ h' = [h EXCEPT ![p].pc = "read", ![p].base = None]
    /\ UNCHANGED <<tree, head, name, row, gen, pending, lock, issues, told, sessionsLost>>

readTargets(p) ==
    LET chosen == selected(h[p].commit)
    IN  IF h[p].previous = None THEN chosen
        ELSE chosen \cap h[p].changed

\* A file that is too large or binary is not loaded.
readIndexedFile(c, q) == IF tree[c][q] \in Readable THEN "loaded" ELSE "unreadable"

\* The byte budget is spent in candidate order, after the concurrent reads: a
\* loaded file that no longer fits is skipped.
WithinBudget(c, loaded) ==
    LET size(i) == IF Supported[i] \in loaded THEN Bytes[tree[c][Supported[i]]] ELSE 0
        used[i \in 0 .. Len(Supported)] ==
            IF i = 0 THEN 0
            ELSE used[i - 1] + IF used[i - 1] + size(i) > MAX_TOTAL_BYTES THEN 0 ELSE size(i)
    IN  {q \in loaded : \E i \in DOMAIN Supported :
            Supported[i] = q /\ used[i - 1] + size(i) <= MAX_TOTAL_BYTES}

\* Every target is read; any of the reads may fail.
readIndexedFiles(p) ==
    /\ h[p].pc = "read"
    /\ \E failed \in SUBSET readTargets(p) :
         /\ Spend("faults", Cardinality(failed))
         /\ LET c == h[p].commit
                loaded == {q \in readTargets(p) \ failed : readIndexedFile(c, q) = "loaded"}
                kept == WithinBudget(c, loaded)
            IN  h' = [h EXCEPT ![p].pc = "publish",
                               ![p].files = [q \in kept |-> tree[c][q]],
                               ![p].skipped = readTargets(p) \ kept]
    /\ UNCHANGED <<tree, head, name, row, gen, pending, lock, issues, told, sessionsLost>>

\* The reread files, and the previous ones this head still selects unchanged.
buildRepositoryIndexIncremental(p) ==
    LET previous == h[p].previous.files
        files == h[p].files
        removed == {q \in DOMAIN previous :
                      q \notin DOMAIN files
                      /\ (q \in h[p].changed \/ q \notin selected(h[p].commit))}
        carried == DOMAIN previous \ (DOMAIN files \cup removed)
    IN  Upserted(files, [q \in carried |-> previous[q]])

BuiltIndex(p) == IF h[p].previous = None THEN h[p].files
                 ELSE buildRepositoryIndexIncremental(p)

\* Rows of a generation of this commit that the new one does not have.
recordIdsRemovedFrom(p, files) ==
    IF h[p].existing = None \/ files = <<>> THEN {}
    ELSE DOMAIN h[p].existing.files \ DOMAIN files

publishIndex(p) ==
    /\ h[p].pc = "publish"
    /\ LET files == BuiltIndex(p)
           deleted == recordIdsRemovedFrom(p, files)
       IN  IF deleted # {}
           THEN applyRepositoryIndexDelta(h[p].commit, h[p].name, files, deleted)
           ELSE replaceRepositoryIndex(h[p].commit, h[p].name, files)
    /\ h' = [h EXCEPT ![p] = [Idle EXCEPT !.pc = "config", !.kind = h[p].kind,
                                          !.name = h[p].name, !.commit = h[p].commit]]
    /\ UNCHANGED <<tree, head, name, pending, lock, issues, told, sessionsLost, left>>

-----------------------------------------------------------------------------
(* The scanner mode of the indexed commit is copied into the row.          *)

ScannerMode(c) == IF ConfigPath \in DOMAIN tree[c] THEN Mode[tree[c][ConfigPath]]
                  ELSE "not-configured"

\* The configuration is read at the commit, then the row.
refreshScannerStateFromConfig(p) ==
    /\ h[p].pc = "config"
    /\ LET mode == ScannerMode(h[p].commit) IN
         IF row.scanner = mode
         THEN h' = [h EXCEPT ![p] = Idle]
         ELSE h' = [h EXCEPT ![p] = [Idle EXCEPT !.pc = "scanner", !.kind = h[p].kind,
                                                 !.name = h[p].name, !.ex = row, !.mode = mode]]
    /\ UNCHANGED <<tree, head, name, row, gen, pending, lock, issues, told, sessionsLost, left>>

\* A read failure keeps the last confirmed state.
configReadFails(p) ==
    /\ h[p].pc = "config"
    /\ Spend("faults", 1)
    /\ h' = [h EXCEPT ![p] = Idle]
    /\ UNCHANGED <<tree, head, name, row, gen, pending, lock, issues, told, sessionsLost>>

writeScannerState(p) ==
    /\ h[p].pc = "scanner"
    /\ upsertRepository([h[p].ex EXCEPT !.scanner = h[p].mode])
    /\ h' = [h EXCEPT ![p] = Idle]
    /\ UNCHANGED <<tree, head, name, gen, pending, lock, issues, told, sessionsLost, left>>

-----------------------------------------------------------------------------
(* A review reads the context of its base commit: first the identity of    *)
(* the generation, then, each in a query of its own, the records of the    *)
(* changed paths, the records its call edges lead to, and the nearest      *)
(* vectors with their content.  Any failure leaves the context out.        *)

baseOf(p) ==
    /\ h[p].pc = "review"
    /\ \E c \in Commits : h' = [h EXCEPT ![p].pc = "descriptor", ![p].commit = c]
    /\ UNCHANGED <<tree, head, name, row, gen, pending, lock, issues, told, sessionsLost, left>>

\* No generation of the base, or one of another identity: no context.
loadRepositoryIndexDescriptor(p) ==
    /\ h[p].pc = "descriptor"
    /\ LET d == gen[h[p].commit] IN
         IF d = None \/ d.name # h[p].name
         THEN h' = [h EXCEPT ![p] = Idle]
         ELSE Go(p, "paths")
    /\ UNCHANGED <<tree, head, name, row, gen, pending, lock, issues, told, sessionsLost, left>>

\* Rows are asked for by the storage key of the base commit.
queryRows(p) == RowsOf(h[p].commit)

\* The changed paths; without a record of one there is nothing to follow.
queryRecordsByPath(p) ==
    /\ h[p].pc = "paths"
    /\ \E k \in DOMAIN Supported :
         LET rows == Without(queryRows(p), DOMAIN queryRows(p) \ {Supported[k]}) IN
         h' = [h EXCEPT ![p].files = rows,
                        ![p].pc = IF rows = <<>> THEN "vectors" ELSE "edges"]
    /\ UNCHANGED <<tree, head, name, row, gen, pending, lock, issues, told, sessionsLost, left>>

\* Callers and callees, then the vector recall; known records are kept.
queryRelated(p) ==
    /\ h[p].pc \in {"edges", "vectors"}
    /\ h' = [h EXCEPT ![p].files = Upserted(h[p].files, queryRows(p)),
                      ![p].pc = IF h[p].pc = "edges" THEN "vectors" ELSE "reviewed"]
    /\ UNCHANGED <<tree, head, name, row, gen, pending, lock, issues, told, sessionsLost, left>>

contextUsed(p) ==
    /\ h[p].pc = "reviewed"
    /\ h' = [h EXCEPT ![p] = Idle]
    /\ UNCHANGED <<tree, head, name, row, gen, pending, lock, issues, told, sessionsLost, left>>

-----------------------------------------------------------------------------
(* Failures.                                                               *)

\* A call throws, or the handler is aborted at a checkpoint; the lock and the
\* promise are released on the way out and the promise rejects for its waiters.
\* The call may have taken effect: an issue may exist whose answer was lost.
handlerThrows(p) ==
    /\ h[p].pc \in {"upsert", "lock", "list", "create", "resolve", "lookup",
                    "republish", "plan", "read", "publish"}
    /\ Spend("faults", 1)
    /\ lock' = IF lock = p THEN None ELSE lock
    /\ pending' = pending \ {p}
    /\ h' = [q \in Handlers |->
               IF q = p \/ (p \in pending /\ q \in Waiters(p)) THEN Retried(q) ELSE h[q]]
    /\ issues' \in {issues} \cup (IF h[p].pc = "create" THEN {issues + 1} ELSE {})
    /\ UNCHANGED <<tree, head, name, row, gen, told, sessionsLost>>

\* The process dies: its sessions' advisory lock goes with it, and another
\* process claims its deliveries when their leases lapse.
crash(x) ==
    /\ Spend("faults", 1)
    /\ LET dead == {q \in Handlers : ProcessOf[q] = x} IN
         /\ \E q \in dead : h[q].pc # "idle"
         /\ lock' = IF lock \in dead THEN None ELSE lock
         /\ pending' = pending \ dead
         /\ h' = [q \in Handlers |-> IF q \in dead /\ h[q].pc # "idle"
                                     THEN Retried(q) ELSE h[q]]
    /\ UNCHANGED <<tree, head, name, row, gen, issues, told, sessionsLost>>

\* The database ends the session that holds the lock, and the handler goes on, for
\* it learns of it only when it releases the lock.
lockSessionLost ==
    /\ lock # None
    /\ Spend("faults", 1)
    /\ lock' = None
    /\ sessionsLost' = sessionsLost + 1
    /\ UNCHANGED <<tree, head, name, row, gen, h, pending, issues, told>>

-----------------------------------------------------------------------------
(* The world outside: pushes (forced ones too), renames, buried issues.    *)

push(c) ==
    /\ Spend("moves", 1)
    /\ c # head
    /\ head' = c
    /\ UNCHANGED <<tree, name, row, gen, h, pending, lock, issues, told, sessionsLost>>

rename(n) ==
    /\ Spend("moves", 1)
    /\ n # name
    /\ name' = n
    /\ UNCHANGED <<tree, head, row, gen, h, pending, lock, issues, told, sessionsLost>>

\* So many newer issues that the listed pages no longer reach the old ones.
buryIssues ==
    /\ Spend("moves", 1)
    /\ issues > 0
    /\ issues' = 0
    /\ UNCHANGED <<tree, head, name, row, gen, h, pending, lock, told, sessionsLost>>

-----------------------------------------------------------------------------
\* The state an undisturbed discovery of the first head leaves.
DiscoveredBefore ==
    LET loaded == {q \in selected(head) : readIndexedFile(head, q) = "loaded"}
        files == [q \in WithinBudget(head, loaded) |-> tree[head][q]]
    IN  /\ row = [name |-> name, indexSha |-> head, paused |-> FALSE,
                  scanner |-> ScannerMode(head), state |-> "active"]
        /\ gen = [c \in Commits |-> IF c # head THEN None
                    ELSE [name |-> name, files |-> files, rows |-> files]]
        /\ issues = 1

Init ==
    /\ tree \in Trees
    /\ head \in {c \in Commits : Ancestors[c] = {c}}
    /\ name = CHOOSE n \in Names : TRUE
    /\ \/ /\ row = None /\ issues = 0
          /\ gen = [c \in Commits |-> None]
       \/ DiscoveredBefore
    /\ h = [p \in Handlers |-> Idle]
    /\ pending = {} /\ lock = None
    /\ told = FALSE /\ sessionsLost = 0
    /\ left \in Budgets

Kinds == {"push", "discover", "archived", "unarchived", "pause", "resume", "review"}

HandlerStep(p) ==
    \/ setRepositoryState(p) \/ ensureRepositoryRecord(p) \/ newRecord(p)
    \/ setAutomaticReviewPaused(p)
    \/ readRepository(p) \/ writeRepository(p)
    \/ ensureOnboardingIssue(p) \/ acquireOnboardingIssueLock(p) \/ listIssues(p)
    \/ createIssue(p) \/ releaseOnboardingIssueLock(p)
    \/ resolveBranchHead(p) \/ getRepositoryIndex(p) \/ republish(p)
    \/ planBase(p) \/ planIncrementalRefresh(p) \/ compareFails(p)
    \/ readIndexedFiles(p) \/ publishIndex(p)
    \/ refreshScannerStateFromConfig(p) \/ configReadFails(p) \/ writeScannerState(p)
    \/ baseOf(p) \/ loadRepositoryIndexDescriptor(p) \/ queryRecordsByPath(p)
    \/ queryRelated(p) \/ contextUsed(p)
    \/ handlerThrows(p)

Next ==
    \/ \E p \in Handlers : HandlerStep(p) \/ \E kind \in Kinds : handle(p, kind)
    \/ \E p \in Handlers : crash(ProcessOf[p])
    \/ lockSessionLost
    \/ \E c \in Commits : push(c)
    \/ \E n \in Names : rename(n)
    \/ buryIssues
    \/ purgeSupersededIndexGenerations

Spec == Init /\ [][Next]_vars

-----------------------------------------------------------------------------
(* Properties.                                                             *)

\* Types of the row, the lock and the promise map, and what a handler's place
\* in its work implies: past its upsert the row exists (no code deletes it), a
\* refresh has a commit, the lock is only held between acquire and release, and
\* the promise map holds exactly the handlers whose operation is unsettled.
TypeOK ==
    /\ row \in Rows \cup {None}
    /\ head \in Commits /\ name \in Names /\ issues \in Nat
    /\ pending \subseteq Handlers /\ lock \in Handlers \cup {None}
    /\ \A p \in Handlers :
         /\ h[p].pc \in {"onboard", "resolve", "lookup", "publish", "config", "setPaused"}
              => row # None
         /\ h[p].pc \in {"lookup", "plan", "read", "publish", "republish", "config"}
              => h[p].commit \in Commits
         /\ lock = p => h[p].pc \in {"list", "create", "unlock"}
         /\ p \in pending <=> h[p].pc \in {"lock", "list", "create", "unlock"}

\* A published generation describes its own commit, and so does the context a
\* review takes from it in several queries: every file and every row is one the
\* commit's tree selects, with the content it has there.  This holds across
\* incremental refreshes that carry files from a base commit, forced pushes,
\* renames, sweeps, and refreshes of one commit that overlap.
IndexIsOfItsCommit ==
    LET OfCommit(files, c) == \A q \in DOMAIN files :
            q \in selected(c) /\ files[q] = tree[c][q]
    IN  /\ \A c \in Commits : gen[c] # None =>
              OfCommit(gen[c].files, c) /\ OfCommit(gen[c].rows, c)
        /\ \A p \in Handlers : h[p].pc = "reviewed" => OfCommit(h[p].files, h[p].commit)

\* Carrying files forward loses none: when an incremental refresh is about to
\* publish, the only selected paths missing from its result are the ones it
\* tried to read for this very commit and could not.
IncrementalMissesNothing ==
    \A p \in Handlers : h[p].pc = "publish" =>
        selected(h[p].commit) \ DOMAIN BuiltIndex(p) = h[p].skipped

\* Handlers that race in two processes, retry after a lost answer or die
\* between the listing and the creation leave one onboarding issue within the
\* pages the next one will look at; each lost session of the lock's holder, who
\* goes on without it, may cost one more.
OneOnboardingIssue == issues <= 1 + sessionsLost

\* The pause state changes only when a pause or a resume command changes it:
\* what the reply told the maintainer stays true until the next command.
PauseSticks ==
    [][(row # None /\ row'.paused # row.paused) =>
          \E p \in Handlers : setAutomaticReviewPaused(p)]_vars
=============================================================================
