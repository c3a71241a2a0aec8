-------------------------- MODULE RepositoryProofs --------------------------
(***************************************************************************)
(* Proofs about one repository, in three parts.  Its index: for any number *)
(* of handlers, processes, commits, paths and failures, every generation   *)
(* and every review context is of its commit, an incremental refresh loses *)
(* no file, and one onboarding issue is opened.  Its monitoring: for any   *)
(* replicas, repositories and records, the alerts are those of the latest  *)
(* snapshot, a repository saved as enforced had its evidence on record at  *)
(* moments of that sweep, a report counts what it lists, and a sweep       *)
(* clears the departed.  Its rollout: for any history, pins, ends of runs  *)
(* and edits, enforcement is earned by the time its verifier ran,          *)
(* diagnoses are honest about the history they read, drafts verify, and a  *)
(* repository that is called enforced passed a gate in enforce mode.       *)
(***************************************************************************)
EXTENDS RepositoryIndex, Monitoring, Rollout, SequenceTheorems, FiniteSetTheorems,
        WellFoundedInduction, TLAPS

-----------------------------------------------------------------------------
(* The inductive invariant. *)

Holding    == {"list", "create", "unlock"}
Promised   == {"lock"} \cup Holding
Onboarding == {"onboard", "awaitIssue"} \cup Promised
Refreshing == {"lookup", "republish", "plan", "compare", "read", "publish", "config"}
Reading    == {"descriptor", "paths", "edges", "vectors", "reviewed"}
Recorded   == {"setPaused", "resolve", "scanner"} \cup Onboarding \cup Refreshing
Phases     == {"idle", "newRecord", "upsert"} \cup Kinds \cup Recorded \cup Reading

Fields == {"pc", "kind", "name", "ex", "commit", "existing", "base", "previous",
           "changed", "files", "skipped", "mode"}

Place(l) ==
    /\ DOMAIN l = Fields
    /\ l.pc \in Phases
    /\ l.pc # "idle" => l.kind \in Kinds /\ l.name \in Names
    /\ l.pc = "upsert" => l.ex \in Rows \cup {None}
    /\ l.pc = "scanner" => l.ex \in Rows /\ l.mode \in Modes
    /\ l.pc \in Refreshing \cup Reading
         => l.commit \in Commits
    /\ l.pc = "compare" => l.base \in Commits
    /\ l.pc \notin {"read", "publish"} => l.previous = None

Typed ==
    /\ tree \in Trees /\ head \in Commits /\ name \in Names
    /\ row \in Rows \cup {None}
    /\ DOMAIN gen = Commits
    /\ DOMAIN h = Handlers
    /\ \A p \in Handlers : Place(h[p])
    /\ \A p \in Handlers : h[p].pc \in Recorded => row # None

(* Who has the advisory lock is between its listing and its release; the      *)
(* promises in the map are the unsettled ones.                               *)
Locked ==
    /\ lock \in Handlers \cup {None} /\ pending \subseteq Handlers
    /\ \A p \in Handlers : lock = p => h[p].pc \in Holding
    /\ \A p \in Handlers : h[p].pc \in Promised <=> p \in pending

(* Who goes on without the lock lost its session; and there are no more       *)
(* issues, and handlers about to open one, than the lock and the lost        *)
(* sessions allow.                                                           *)
Creators == {p \in Handlers : h[p].pc = "create"}
Unlocked == {p \in Handlers : h[p].pc \in Holding /\ lock # p}
Issued ==
    /\ issues \in Nat /\ sessionsLost \in Nat
    /\ Cardinality(Unlocked) <= sessionsLost
    /\ issues + Cardinality(Creators) <= 1 + sessionsLost

(* The definitions below are about a history t, which no step changes.       *)
Chosen(t, c) == First(MAX_INDEXED_FILES, DOMAIN t[c])

OfCommit(t, files, c) ==
    \A q \in DOMAIN files : q \in Chosen(t, c) /\ files[q] = t[c][q]

(* What the selection and the comparison promise about the generation a      *)
(* refresh carries forward: a selected path is in it or is read again, and   *)
(* one that is not read again has the same content in the new commit.        *)
Carries(t, previous, changed, c) ==
    /\ Chosen(t, c) \subseteq DOMAIN previous.files \cup changed
    /\ \A q \in (DOMAIN previous.files \cap Chosen(t, c)) \ changed :
         previous.files[q] = t[c][q]

Targets(t, l) == IF l.previous = None THEN Chosen(t, l.commit)
                 ELSE Chosen(t, l.commit) \cap l.changed

Working == {"republish", "read", "publish", "edges", "vectors", "reviewed"}

Work(t, l) ==
    /\ l.pc = "republish" => OfCommit(t, l.existing.files, l.commit)
    /\ l.pc \in {"read", "publish"} /\ l.previous # None
         => Carries(t, l.previous, l.changed, l.commit)
    /\ l.pc = "publish" =>
         /\ DOMAIN l.files \subseteq Targets(t, l)
         /\ l.skipped = Targets(t, l) \ DOMAIN l.files
         /\ \A q \in DOMAIN l.files : l.files[q] = t[l.commit][q]
    /\ l.pc \in {"edges", "vectors", "reviewed"} => OfCommit(t, l.files, l.commit)

Generation(t, g, c) == g # None => OfCommit(t, g.files, c) /\ OfCommit(t, g.rows, c)

Indexed ==
    /\ \A c \in Commits : Generation(tree, gen[c], c)
    /\ \A p \in Handlers : Work(tree, h[p])

IInv == Typed /\ Locked /\ Issued /\ Indexed

-----------------------------------------------------------------------------
(* The history, the candidate order and the comparison. *)

LEMMA MergeBaseOfAncestor ==
    ASSUME NEW c \in Commits, NEW b \in Commits, b \in Ancestors[c]
    PROVE  MergeBase(b, c) = b
  <1> DEFINE common == Ancestors[b] \cap Ancestors[c]
  <1>1. common = Ancestors[b]
    BY CommitsAssumption
  <1>2. \A x \in common : common \subseteq Ancestors[x] => x = b
    BY <1>1, CommitsAssumption
  <1>3. b \in common /\ common \subseteq Ancestors[b]
    BY <1>1, CommitsAssumption
  <1>4. MergeBase(b, c) = CHOOSE x \in common : common \subseteq Ancestors[x]
    BY DEF MergeBase
  <1> HIDE DEF common
  <1> QED
    BY <1>2, <1>3, <1>4

LEMMA FirstOnes ==
    ASSUME NEW S, NEW n \in Nat
    PROVE  /\ First(n, S) \subseteq S
           /\ \A q \in First(n, S) : \E k \in DOMAIN Supported : Supported[k] = q
  BY DEF First

LEMMA FirstIsFinite ==
    ASSUME NEW S, NEW n \in Nat
    PROVE  IsFiniteSet(First(n, S)) /\ Cardinality(First(n, S)) \in Nat
  <1> DEFINE I == {i \in DOMAIN Supported : Supported[i] \in S /\ Rank(S, i) <= n}
             g == [i \in I |-> Supported[i]]
  <1>1. IsFiniteSet(I)
    <2>1. IsFiniteSet(1 .. Len(Supported)) /\ I \in SUBSET (1 .. Len(Supported))
      BY PathsAssumption, FS_Interval
    <2> HIDE DEF I
    <2> QED
      BY <2>1, FS_Subset
  <1>2. g \in Surjection(I, First(n, S))
    BY DEF First, Surjection
  <1> QED
    BY <1>1, <1>2, FS_Surjection, FS_CardinalityType

(* Among any indices there is a least one. *)
LEMMA LeastIndex ==
    ASSUME NEW K \in SUBSET Nat, K # {}
    PROVE  \E k \in K : \A i \in K : k <= i
  <1>1. \E k \in K : \A i \in K : <<i, k>> \notin OpToRel(<, Nat)
    BY NatLessThanWellFounded, WFMin
  <1>2. \A i, k \in Nat : i < k => <<i, k>> \in OpToRel(<, Nat)
    BY DEF OpToRel
  <1>3. \A i, k \in Nat : ~ i < k => k <= i
    OBVIOUS
  <1> QED
    BY <1>1, <1>2, <1>3

(* When fewer than n paths are listed, none was left out. *)
LEMMA FirstHoldsAll ==
    ASSUME NEW S, NEW n \in Nat, Cardinality(First(n, S)) < n,
           NEW k \in DOMAIN Supported, Supported[k] \in S
    PROVE  Supported[k] \in First(n, S)
  <1> DEFINE Among(m) == {j \in 1 .. m : Supported[j] \in S}
             Late == {i \in DOMAIN Supported : Supported[i] \in S /\ ~ Rank(S, i) <= n}
  <1>0. DOMAIN Supported = 1 .. Len(Supported) /\ Len(Supported) \in Nat
    BY PathsAssumption
  <1>1. SUFFICES ASSUME Late # {} PROVE FALSE
    BY DEF First
  <1>2. PICK m \in Late : \A i \in Late : m <= i
    <2>1. Late \in SUBSET Nat
      BY <1>0
    <2> HIDE DEF Late
    <2> QED
      BY <2>1, <1>1, LeastIndex
  <1>3. \A i \in Nat : IsFiniteSet(Among(i)) /\ Cardinality(Among(i)) \in Nat
    <2> TAKE i \in Nat
    <2>1. IsFiniteSet(1 .. i)
      BY FS_Interval
    <2> QED
      BY <2>1, FS_Subset, FS_CardinalityType
  <1>4. m \in Nat /\ m - 1 \in Nat /\ m >= 1 /\ Among(m) = Among(m - 1) \cup {m} /\ m \notin Among(m - 1)
    BY <1>0
  <1>5. Cardinality(Among(m)) = Cardinality(Among(m - 1)) + 1
    BY <1>3, <1>4, FS_AddElement
  <1>6. Cardinality(Among(m - 1)) >= n
    <2>1. ~ Cardinality(Among(m)) <= n
      BY DEF Rank
    <2>2. Cardinality(Among(m)) \in Nat /\ Cardinality(Among(m - 1)) \in Nat
      BY <1>3, <1>4
    <2> HIDE DEF Among
    <2> QED
      BY <1>5, <2>1, <2>2
  <1>7. \A j \in Among(m - 1) : Supported[j] \in First(n, S)
    BY <1>0, <1>2, <1>4 DEF First
  <1> DEFINE f == [j \in Among(m - 1) |-> Supported[j]]
             T == {f[j] : j \in Among(m - 1)}
  <1>8. f \in Bijection(Among(m - 1), T)
    <2>1. \A i, j \in Among(m - 1) : f[i] = f[j] => i = j
      BY <1>0, <1>4, PathsAssumption
    <2> QED
      BY <2>1 DEF Bijection, Injection, Surjection, IsInjective
  <1>9. IsFiniteSet(T) /\ Cardinality(T) = Cardinality(Among(m - 1))
    <2>1. IsFiniteSet(Among(m - 1)) /\ ExistsBijection(Among(m - 1), T)
      BY <1>3, <1>4, <1>8 DEF ExistsBijection
    <2> HIDE DEF Among, T
    <2> QED
      BY <2>1, FS_Bijection
  <1>10. IsFiniteSet(First(n, S)) /\ Cardinality(First(n, S)) \in Nat
    BY FirstIsFinite
  <1>11. T \subseteq First(n, S)
    BY <1>7
  <1>12. Cardinality(T) <= Cardinality(First(n, S)) /\ Cardinality(T) \in Nat
    BY <1>9, <1>10, <1>11, FS_Subset, FS_CardinalityType
  <1> QED
    BY <1>4, <1>3, <1>6, <1>9, <1>10, <1>12

(* A base generation that passes the checks of an incremental refresh can be *)
(* carried forward.                                                          *)
LEMMA ChangedPathsCarry ==
    ASSUME NEW b \in Commits, NEW c \in Commits, NEW previous, NEW n,
           OfCommit(tree, previous.files, b), changedPaths(b, previous, c, n) # None
    PROVE  Carries(tree, previous, changedPaths(b, previous, c, n), c)
  <1> DEFINE compared == Compared(b, c)
             changed == compared.files \cup (selected(c) \ DOMAIN previous.files)
  <1>1. /\ changedPaths(b, previous, c, n) = changed
        /\ compared.status = "ahead"
        /\ ~ Cardinality(compared.files) >= COMPARE_FILE_PAGE_LIMIT
    BY DEF changedPaths
  <1>2. b \in Ancestors[c]
    BY <1>1 DEF Compared
  <1>3. compared.files = First(COMPARE_FILE_PAGE_LIMIT, Differing(b, c))
    BY <1>2, MergeBaseOfAncestor DEF Compared
  <1>4. Cardinality(compared.files) < COMPARE_FILE_PAGE_LIMIT
    BY <1>1, <1>3, FirstIsFinite, PathsAssumption
  <1>5. \A q \in selected(c) : q \in Differing(b, c) => q \in compared.files
    BY <1>3, <1>4, FirstHoldsAll, FirstOnes, PathsAssumption DEF selected
  <1>6. \A q \in selected(c) \ Differing(b, c) : tree[b][q] = tree[c][q]
    BY FirstOnes, PathsAssumption DEF selected, Differing
  <1> QED
    BY <1>1, <1>5, <1>6 DEF Carries, OfCommit, Chosen, selected

-----------------------------------------------------------------------------
(* Types, and what a handler's place in its work implies. *)

LEMMA TypedTurn ==
    ASSUME Typed, NEW p \in Handlers, h' = [h EXCEPT ![p] = h'[p]],
           Place(h'[p]), h'[p].pc \in Recorded => row' # None,
           tree' = tree, head' = head, name' = name,
           row' \in Rows \cup {None}, row # None => row' # None,
           DOMAIN gen' = Commits
    PROVE  Typed'
  <1>1. DOMAIN h' = Handlers /\ \A q \in Handlers \ {p} : h'[q] = h[q]
    BY DEF Typed
  <1>2. \A q \in Handlers : Place(h'[q])
    BY <1>1 DEF Typed
  <1> QED
    BY <1>1, <1>2 DEF Typed

(* The same for a step that writes only the handler's own state.             *)
LEMMA TypedMove ==
    ASSUME Typed, NEW p \in Handlers, h' = [h EXCEPT ![p] = h'[p]], Place(h'[p]),
           h'[p].pc \in Recorded => h[p].pc \in Recorded,
           UNCHANGED <<tree, head, name, row, gen>>
    PROVE  Typed'
  <1>1. h'[p].pc \in Recorded => row' # None
    BY DEF Typed
  <1>2. row' \in Rows \cup {None} /\ DOMAIN gen' = Commits /\ tree' = tree /\ head' = head
        /\ name' = name /\ row' = row
    BY DEF Typed
  <1> QED
    BY <1>1, <1>2, TypedTurn

(* A review's first query finds rows of one path, or none.                   *)
LEMMA PathTurn ==
    ASSUME NEW p \in Handlers, queryRecordsByPath(p)
    PROVE  \E D, pc : /\ pc \in {"vectors", "edges"}
                     /\ h' = [h EXCEPT ![p].files = Without(RowsOf(h[p].commit), D), ![p].pc = pc]
  <1>1. PICK k \in DOMAIN Supported :
          LET rows == Without(queryRows(p), DOMAIN queryRows(p) \ {Supported[k]}) IN
          h' = [h EXCEPT ![p].files = rows,
                         ![p].pc = IF rows = <<>> THEN "vectors" ELSE "edges"]
    BY DEF queryRecordsByPath
  <1> DEFINE D == DOMAIN queryRows(p) \ {Supported[k]}
             pc == IF Without(queryRows(p), D) = <<>> THEN "vectors" ELSE "edges"
  <1>2. h' = [h EXCEPT ![p].files = Without(queryRows(p), D), ![p].pc = pc]
    BY <1>1
  <1>3. pc \in {"vectors", "edges"}
    OBVIOUS
  <1> HIDE DEF D, pc
  <1> QED
    BY <1>2, <1>3 DEF queryRows

(* The reads of a refresh keep some of the paths to be read.                 *)
LEMMA ReadTurn ==
    ASSUME NEW p \in Handlers, readIndexedFiles(p)
    PROVE  \E kept \in SUBSET readTargets(p) :
             h' = [h EXCEPT ![p].pc = "publish",
                            ![p].files = [q \in kept |-> tree[h[p].commit][q]],
                            ![p].skipped = readTargets(p) \ kept]
  <1>1. PICK failed \in SUBSET readTargets(p) :
          LET c == h[p].commit
              loaded == {q \in readTargets(p) \ failed : readIndexedFile(c, q) = "loaded"}
              kept == WithinBudget(c, loaded)
          IN  h' = [h EXCEPT ![p].pc = "publish",
                             ![p].files = [q \in kept |-> tree[c][q]],
                             ![p].skipped = readTargets(p) \ kept]
    BY DEF readIndexedFiles
  <1> DEFINE loaded == {q \in readTargets(p) \ failed : readIndexedFile(h[p].commit, q) = "loaded"}
             kept == WithinBudget(h[p].commit, loaded)
  <1>2. kept \in SUBSET readTargets(p)
    BY DEF WithinBudget
  <1>3. h' = [h EXCEPT ![p].pc = "publish",
                       ![p].files = [q \in kept |-> tree[h[p].commit][q]],
                       ![p].skipped = readTargets(p) \ kept]
    BY <1>1
  <1> HIDE DEF kept
  <1> QED
    BY <1>2, <1>3

(* After the mode is read the handler is done, or is about to write the row. *)
LEMMA ConfigTurn ==
    ASSUME NEW p \in Handlers, refreshScannerStateFromConfig(p)
    PROVE  \/ h' = [h EXCEPT ![p] = Idle]
           \/ h' = [h EXCEPT ![p] =
                [Idle EXCEPT !.pc = "scanner", !.kind = h[p].kind, !.name = h[p].name,
                             !.ex = row, !.mode = ScannerMode(h[p].commit)]]
  BY DEF refreshScannerStateFromConfig

LEMMA InitTyped == Init => Typed
  <1> SUFFICES ASSUME Init PROVE Typed
    OBVIOUS
  <1>1. tree \in Trees /\ head \in Commits /\ name \in Names
    BY ValuesAssumption DEF Init
  <1>2. row \in Rows \cup {None} /\ DOMAIN gen = Commits
    <2>1. CASE DiscoveredBefore
      <3>1. ScannerMode(head) \in Modes
        BY <1>1, ValuesAssumption DEF ScannerMode, Modes
      <3> QED
        BY <1>1, <2>1, <3>1 DEF DiscoveredBefore, Rows
    <2>2. CASE ~DiscoveredBefore
      BY <2>2 DEF Init
    <2> QED
      BY <2>1, <2>2
  <1>3. DOMAIN h = Handlers /\ \A p \in Handlers : h[p] = Idle
    BY DEF Init
  <1>4. Place(Idle) /\ Idle.pc \notin Recorded
    BY DEF Idle, Place, Fields, Phases, Refreshing, Reading, Recorded, Onboarding,
           Promised, Holding, Kinds
  <1> QED
    BY <1>1, <1>2, <1>3, <1>4 DEF Typed

LEMMA RetriedPlace ==
    ASSUME Typed, NEW q \in Handlers, h[q].pc # "idle"
    PROVE  Place(Retried(q)) /\ Retried(q).pc \in Kinds /\ Retried(q).pc \notin Recorded
  <1>1. h[q].kind \in Kinds /\ h[q].name \in Names
    BY DEF Typed, Place
  <1> QED
    BY <1>1 DEF Retried, Idle, Place, Fields, Phases, Refreshing, Reading, Recorded, Onboarding,
                Promised, Holding, Kinds

LEMMA TypedHandler ==
    ASSUME Typed, NEW p \in Handlers, HandlerStep(p)
    PROVE  Typed'
  <1> USE DEF Place, Fields, Phases, Refreshing, Reading, Recorded, Onboarding,
              Promised, Holding, Kinds
  <1>0. /\ DOMAIN h = Handlers /\ Place(h[p]) /\ (h[p].pc \in Recorded => row # None)
        /\ row \in Rows \cup {None} /\ head \in Commits /\ name \in Names
        /\ DOMAIN gen = Commits
    BY DEF Typed
  <1>1. CASE setRepositoryState(p)
    <2>1. row' \in Rows \cup {None} /\ (row # None => row' # None)
      BY <1>1, ValuesAssumption DEF Typed, setRepositoryState, Rows
    <2>2. h' = [h EXCEPT ![p] = h'[p]] /\ Place(h'[p]) /\ h'[p].pc \notin Recorded
      BY <1>1 DEF Typed, setRepositoryState, Go, Idle
    <2> QED
      BY <1>1, <2>1, <2>2, TypedTurn DEF Typed, setRepositoryState
  <1>2. CASE ensureRepositoryRecord(p)
    <2>1. h' = [h EXCEPT ![p] = h'[p]] /\ Place(h'[p])
      BY <1>0, <1>2 DEF ensureRepositoryRecord, Idle
    <2>2. h'[p].pc \in Recorded => row # None
      BY <1>0, <1>2 DEF ensureRepositoryRecord, Idle
    <2>3. UNCHANGED <<tree, head, name, row, gen>>
      BY <1>2 DEF ensureRepositoryRecord
    <2> QED
      BY <1>0, <2>1, <2>2, <2>3, TypedTurn
  <1>3. CASE newRecord(p)
    <2>1. row' \in Rows
      BY <1>3 DEF Typed, newRecord, upsertRepository, Rows, Modes
    <2>2. h' = [h EXCEPT ![p] = h'[p]] /\ Place(h'[p])
      BY <1>3 DEF Typed, newRecord, Go
    <2> QED
      BY <1>3, <2>1, <2>2, TypedTurn, ValuesAssumption DEF Typed, newRecord
  <1>4. CASE setAutomaticReviewPaused(p)
    <2>1. row' \in Rows
      BY <1>4 DEF Typed, setAutomaticReviewPaused, Rows
    <2>2. h' = [h EXCEPT ![p] = h'[p]] /\ Place(h'[p])
      BY <1>4 DEF Typed, setAutomaticReviewPaused, Idle
    <2> QED
      BY <1>4, <2>1, <2>2, TypedTurn, ValuesAssumption DEF Typed, setAutomaticReviewPaused
  <1>5. CASE readRepository(p)
    <2> DEFINE l == [h[p] EXCEPT !.pc = "upsert", !.ex = row]
    <2>0. h' = [h EXCEPT ![p] = l] /\ h[p].pc \in {"push", "discover"}
      BY <1>0, <1>5 DEF readRepository
    <2>a. Place(l) /\ l.pc = "upsert"
      BY <1>0, <2>0
    <2> HIDE DEF l
    <2>1. h' = [h EXCEPT ![p] = h'[p]] /\ Place(h'[p])
          /\ (h'[p].pc \in Recorded => h[p].pc \in Recorded)
      BY <1>0, <2>0, <2>a
    <2>2. UNCHANGED <<tree, head, name, row, gen>>
      BY <1>5 DEF readRepository
    <2> QED
      BY <2>1, <2>2, TypedMove
  <1>6. CASE writeRepository(p)
    <2>1. h[p].pc = "upsert" /\ h[p].ex \in Rows \cup {None} /\ h[p].name \in Names
      BY <1>6 DEF Typed, writeRepository
    <2>2. row' \in Rows
      BY <1>6, <2>1 DEF writeRepository, upsertRepository, Rows, Modes
    <2>3. h' = [h EXCEPT ![p] = h'[p]] /\ Place(h'[p])
      BY <1>6 DEF Typed, writeRepository
    <2> QED
      <3>1. UNCHANGED <<tree, head, name, gen>> /\ row' # None
        BY <1>6, <2>2, ValuesAssumption DEF writeRepository
      <3> QED
        BY <1>0, <2>2, <2>3, <3>1, TypedTurn
  <1>7. CASE ensureOnboardingIssue(p)
    <2>1. h' = [h EXCEPT ![p] = h'[p]] /\ Place(h'[p])
          /\ (h'[p].pc \in Recorded => h[p].pc \in Recorded)
      BY <1>0, <1>7 DEF ensureOnboardingIssue, Go
    <2>2. UNCHANGED <<tree, head, name, row, gen>>
      BY <1>7 DEF ensureOnboardingIssue
    <2> QED
      BY <2>1, <2>2, TypedMove
  <1>8. CASE acquireOnboardingIssueLock(p)
    <2>1. h' = [h EXCEPT ![p] = h'[p]] /\ Place(h'[p])
          /\ (h'[p].pc \in Recorded => h[p].pc \in Recorded)
      BY <1>0, <1>8 DEF acquireOnboardingIssueLock, Go
    <2>2. UNCHANGED <<tree, head, name, row, gen>>
      BY <1>8 DEF acquireOnboardingIssueLock
    <2> QED
      BY <2>1, <2>2, TypedMove
  <1>9. CASE listIssues(p)
    <2>1. h' = [h EXCEPT ![p] = h'[p]] /\ Place(h'[p])
          /\ (h'[p].pc \in Recorded => h[p].pc \in Recorded)
      BY <1>0, <1>9 DEF listIssues, Go
    <2>2. UNCHANGED <<tree, head, name, row, gen>>
      BY <1>9 DEF listIssues
    <2> QED
      BY <2>1, <2>2, TypedMove
  <1>10. CASE createIssue(p)
    <2>1. h' = [h EXCEPT ![p] = h'[p]] /\ Place(h'[p])
          /\ (h'[p].pc \in Recorded => h[p].pc \in Recorded)
      BY <1>0, <1>10 DEF createIssue, Go
    <2>2. UNCHANGED <<tree, head, name, row, gen>>
      BY <1>10 DEF createIssue
    <2> QED
      BY <2>1, <2>2, TypedMove

  <1>11. CASE releaseOnboardingIssueLock(p)
    <2>1. ASSUME NEW q \in Handlers, h'[q] # h[q]
          PROVE  /\ h[q].pc \in {"unlock", "awaitIssue"}
                 /\ h'[q] = [h[q] EXCEPT !.pc = "resolve"] \/ h'[q] = Retried(q)
      BY <1>11, <2>1 DEF releaseOnboardingIssueLock, Waiters
    <2>2. ASSUME NEW q \in Handlers, h'[q] # h[q] PROVE Place(h'[q]) /\ h[q].pc \in Recorded
      <3>1. h[q].pc \in Recorded /\ h[q].pc # "idle" /\ Place(h[q])
        BY <2>1, <2>2 DEF Typed
      <3>2. CASE h'[q] = [h[q] EXCEPT !.pc = "resolve"]
        BY <3>1, <3>2, <2>1, <2>2
      <3>3. CASE h'[q] = Retried(q)
        BY <3>1, <3>3, RetriedPlace
      <3> QED
        BY <2>1, <2>2, <3>2, <3>3
    <2> QED
      BY <1>11, <2>2 DEF Typed, releaseOnboardingIssueLock
  <1>12. CASE resolveBranchHead(p)
    <2>1. h' = [h EXCEPT ![p] = h'[p]] /\ Place(h'[p])
          /\ (h'[p].pc \in Recorded => h[p].pc \in Recorded)
      BY <1>0, <1>12 DEF resolveBranchHead
    <2>2. UNCHANGED <<tree, head, name, row, gen>>
      BY <1>12 DEF resolveBranchHead
    <2> QED
      BY <2>1, <2>2, TypedMove
  <1>13. CASE getRepositoryIndex(p)
    <2> DEFINE l == [h[p] EXCEPT !.existing = gen[h[p].commit], !.pc = h'[p].pc]
    <2>1. h' = [h EXCEPT ![p] = l] /\ h'[p].pc \in {"republish", "plan"}
      BY <1>13 DEF Typed, getRepositoryIndex
    <2>2. h' = [h EXCEPT ![p] = h'[p]] /\ Place(h'[p])
      BY <1>13, <2>1 DEF Typed, getRepositoryIndex
    <2>3. h[p].pc \in Recorded /\ UNCHANGED <<tree, head, name, row, gen>>
      BY <1>13 DEF getRepositoryIndex
    <2> QED
      BY <2>2, <2>3, TypedMove
  <1>14. CASE republish(p)
    <2>1. h' = [h EXCEPT ![p] = h'[p]] /\ Place(h'[p])
      BY <1>0, <1>14 DEF republish
    <2>2. row' \in Rows /\ DOMAIN gen' = Commits
      BY <1>14 DEF Typed, republish, replaceRepositoryIndex, Rows
    <2> QED
      <3>1. UNCHANGED <<tree, head, name>> /\ row' # None
        BY <1>14, <2>2, ValuesAssumption DEF republish
      <3> QED
        BY <1>0, <2>1, <2>2, <3>1, TypedTurn
  <1>15. CASE planBase(p)
    <2>1. h' = [h EXCEPT ![p] = h'[p]] /\ Place(h'[p])
          /\ (h'[p].pc \in Recorded => h[p].pc \in Recorded)
      BY <1>0, <1>15 DEF planBase, Go, Rows
    <2>2. UNCHANGED <<tree, head, name, row, gen>>
      BY <1>15 DEF planBase
    <2> QED
      BY <2>1, <2>2, TypedMove
  <1>16. CASE planIncrementalRefresh(p)
    <2>1. h' = [h EXCEPT ![p] = h'[p]] /\ Place(h'[p])
          /\ (h'[p].pc \in Recorded => h[p].pc \in Recorded)
      BY <1>0, <1>16 DEF planIncrementalRefresh
    <2>2. UNCHANGED <<tree, head, name, row, gen>>
      BY <1>16 DEF planIncrementalRefresh
    <2> QED
      BY <2>1, <2>2, TypedMove
  <1>17. CASE compareFails(p)
    <2>1. h' = [h EXCEPT ![p] = h'[p]] /\ Place(h'[p])
          /\ (h'[p].pc \in Recorded => h[p].pc \in Recorded)
      BY <1>0, <1>17 DEF compareFails
    <2>2. UNCHANGED <<tree, head, name, row, gen>>
      BY <1>17 DEF compareFails
    <2> QED
      BY <2>1, <2>2, TypedMove
  <1>18. CASE readIndexedFiles(p)
    <2>1. PICK kept \in SUBSET readTargets(p) :
            h' = [h EXCEPT ![p].pc = "publish",
                           ![p].files = [q \in kept |-> tree[h[p].commit][q]],
                           ![p].skipped = readTargets(p) \ kept]
      BY <1>18, ReadTurn
    <2>2. h' = [h EXCEPT ![p] = h'[p]] /\ Place(h'[p]) /\ row # None
      <3>1. h[p].pc = "read" /\ Place(h[p]) /\ DOMAIN h = Handlers /\ row # None
        BY <1>18 DEF Typed, readIndexedFiles
      <3> QED
        BY <2>1, <3>1
    <2> QED
      BY <1>18, <2>2, TypedTurn DEF Typed, readIndexedFiles
  <1>19. CASE publishIndex(p)
    BY <1>19, TypedTurn, ValuesAssumption
       DEF Typed, publishIndex, replaceRepositoryIndex, applyRepositoryIndexDelta, Idle, Rows
  <1>20. CASE refreshScannerStateFromConfig(p)
    <2>1. ScannerMode(h[p].commit) \in Modes
      BY <1>20, ValuesAssumption DEF Typed, refreshScannerStateFromConfig, ScannerMode, Modes
    <2>2. h' = [h EXCEPT ![p] = h'[p]] /\ Place(h'[p])
      <3> DEFINE l == [Idle EXCEPT !.pc = "scanner", !.kind = h[p].kind, !.name = h[p].name,
                                   !.ex = row, !.mode = ScannerMode(h[p].commit)]
      <3>1. h' = [h EXCEPT ![p] = Idle] \/ h' = [h EXCEPT ![p] = l]
        BY <1>20, ConfigTurn
      <3>2. DOMAIN h = Handlers /\ h[p].pc = "config" /\ Place(h[p]) /\ row \in Rows
        BY <1>20 DEF Typed, refreshScannerStateFromConfig
      <3>3. Place(l) /\ Place(Idle)
        BY <2>1, <3>2 DEF Idle
      <3> HIDE DEF l
      <3> QED
        BY <3>1, <3>2, <3>3
    <2>3. row # None
      BY <1>20 DEF Typed, refreshScannerStateFromConfig
    <2> QED
      BY <1>20, <2>2, <2>3, TypedTurn DEF Typed, refreshScannerStateFromConfig
  <1>21. CASE configReadFails(p)
    <2>1. h' = [h EXCEPT ![p] = h'[p]] /\ Place(h'[p])
          /\ (h'[p].pc \in Recorded => h[p].pc \in Recorded)
      BY <1>0, <1>21 DEF configReadFails, Idle
    <2>2. UNCHANGED <<tree, head, name, row, gen>>
      BY <1>21 DEF configReadFails
    <2> QED
      BY <2>1, <2>2, TypedMove
  <1>22. CASE writeScannerState(p)
    <2>1. h[p].pc = "scanner" /\ row' = [h[p].ex EXCEPT !.scanner = h[p].mode]
          /\ h' = [h EXCEPT ![p] = Idle] /\ UNCHANGED <<tree, head, name, gen>>
      BY <1>22 DEF writeScannerState, upsertRepository
    <2>2. row' \in Rows
      BY <1>0, <2>1 DEF Rows
    <2>3. h' = [h EXCEPT ![p] = h'[p]] /\ Place(h'[p])
      BY <1>0, <2>1 DEF Idle
    <2>4. row' # None
      BY <2>2, ValuesAssumption
    <2> QED
      BY <1>0, <2>1, <2>2, <2>3, <2>4, TypedTurn
  <1>23. CASE baseOf(p)
    <2>0. PICK c \in Commits : h' = [h EXCEPT ![p].pc = "descriptor", ![p].commit = c]
      BY <1>23 DEF baseOf
    <2>a. h[p].pc = "review"
      BY <1>23 DEF baseOf
    <2> DEFINE l == [h[p] EXCEPT !.pc = "descriptor", !.commit = c]
    <2>b. h' = [h EXCEPT ![p] = l]
      BY <1>0, <2>0
    <2>c. Place(l) /\ l.pc = "descriptor"
      BY <1>0, <2>a
    <2> HIDE DEF l
    <2>1. h' = [h EXCEPT ![p] = h'[p]] /\ Place(h'[p])
          /\ (h'[p].pc \in Recorded => h[p].pc \in Recorded)
      BY <1>0, <2>b, <2>c
    <2>2. UNCHANGED <<tree, head, name, row, gen>>
      BY <1>23 DEF baseOf
    <2> QED
      BY <2>1, <2>2, TypedMove
  <1>24. CASE loadRepositoryIndexDescriptor(p)
    <2>1. h' = [h EXCEPT ![p] = h'[p]] /\ Place(h'[p])
          /\ (h'[p].pc \in Recorded => h[p].pc \in Recorded)
      BY <1>0, <1>24 DEF loadRepositoryIndexDescriptor, Go, Idle
    <2>2. UNCHANGED <<tree, head, name, row, gen>>
      BY <1>24 DEF loadRepositoryIndexDescriptor
    <2> QED
      BY <2>1, <2>2, TypedMove
  <1>25. CASE queryRecordsByPath(p)
    <2>1. PICK D, pc : /\ pc \in {"vectors", "edges"}
                       /\ h' = [h EXCEPT ![p].files = Without(RowsOf(h[p].commit), D), ![p].pc = pc]
      BY <1>25, PathTurn
    <2>2. h[p].pc = "paths" /\ UNCHANGED <<tree, head, name, row, gen>>
      BY <1>25 DEF queryRecordsByPath
    <2>3. h' = [h EXCEPT ![p] = h'[p]] /\ Place(h'[p]) /\ h'[p].pc \notin Recorded
      BY <2>1, <2>2 DEF Typed
    <2> QED
      BY <2>2, <2>3, TypedMove
  <1>26. CASE queryRelated(p)
    <2>1. h' = [h EXCEPT ![p] = h'[p]] /\ Place(h'[p])
          /\ (h'[p].pc \in Recorded => h[p].pc \in Recorded)
      BY <1>0, <1>26 DEF queryRelated
    <2>2. UNCHANGED <<tree, head, name, row, gen>>
      BY <1>26 DEF queryRelated
    <2> QED
      BY <2>1, <2>2, TypedMove
  <1>27. CASE contextUsed(p)
    <2>1. h' = [h EXCEPT ![p] = h'[p]] /\ Place(h'[p])
          /\ (h'[p].pc \in Recorded => h[p].pc \in Recorded)
      BY <1>0, <1>27 DEF contextUsed, Idle
    <2>2. UNCHANGED <<tree, head, name, row, gen>>
      BY <1>27 DEF contextUsed
    <2> QED
      BY <2>1, <2>2, TypedMove
  <1>28. CASE handlerThrows(p)
    <2>1. ASSUME NEW q \in Handlers, h'[q] # h[q] PROVE h[q].pc # "idle" /\ h'[q] = Retried(q)
      BY <1>28, <2>1 DEF handlerThrows, Waiters
    <2>2. ASSUME NEW q \in Handlers, h'[q] # h[q] PROVE Place(h'[q]) /\ h'[q].pc \notin Recorded
      BY <2>1, <2>2, RetriedPlace
    <2> QED
      BY <1>28, <2>2 DEF Typed, handlerThrows
  <1> QED
    BY <1>1, <1>2, <1>3, <1>4, <1>5, <1>6, <1>7, <1>8, <1>9, <1>10, <1>11, <1>12, <1>13, <1>14,
       <1>15, <1>16, <1>17, <1>18, <1>19, <1>20, <1>21, <1>22, <1>23, <1>24, <1>25, <1>26,
       <1>27, <1>28 DEF HandlerStep

LEMMA TypedStep == Typed /\ [Next]_vars => Typed'
  <1> SUFFICES ASSUME Typed, [Next]_vars PROVE Typed'
    OBVIOUS
  <1>1. ASSUME NEW p \in Handlers, HandlerStep(p) PROVE Typed'
    BY <1>1, TypedHandler
  <1>2. ASSUME NEW p \in Handlers, NEW kind \in Kinds, handle(p, kind) PROVE Typed'
    <2>1. h' = [h EXCEPT ![p] = h'[p]] /\ Place(h'[p]) /\ h'[p].pc \notin Recorded
      BY <1>2 DEF Typed, handle, Idle, Place, Fields, Phases, Refreshing, Reading, Recorded,
                  Onboarding, Promised, Holding, Kinds
    <2> QED
      BY <1>2, <2>1, TypedTurn DEF Typed, handle
  <1>3. ASSUME NEW x, crash(x) PROVE Typed'
    <2>1. ASSUME NEW q \in Handlers, h'[q] # h[q] PROVE h[q].pc # "idle" /\ h'[q] = Retried(q)
      BY <1>3, <2>1 DEF crash
    <2>2. ASSUME NEW q \in Handlers, h'[q] # h[q] PROVE Place(h'[q]) /\ h'[q].pc \notin Recorded
      BY <2>1, <2>2, RetriedPlace
    <2> QED
      BY <1>3, <2>2 DEF Typed, crash
  <1>4. ASSUME NEW c \in Commits, push(c) PROVE Typed'
    BY <1>4 DEF Typed, push
  <1>5. ASSUME NEW n \in Names, rename(n) PROVE Typed'
    BY <1>5 DEF Typed, rename
  <1>6. CASE buryIssues
    BY <1>6 DEF Typed, buryIssues
  <1>7. CASE purgeSupersededIndexGenerations
    BY <1>7 DEF Typed, purgeSupersededIndexGenerations
  <1>8. CASE UNCHANGED vars
    BY <1>8 DEF Typed, vars
  <1>9. CASE lockSessionLost
    BY <1>9 DEF Typed, lockSessionLost
  <1> QED
    BY <1>1, <1>2, <1>3, <1>4, <1>5, <1>6, <1>7, <1>8, <1>9 DEF Next

-----------------------------------------------------------------------------
(* The advisory lock, the promises and the issue. *)

(* A handler that is in no part of the onboarding neither enters it nor       *)
(* leaves it.                                                                 *)
Aside(p) ==
    /\ h' = [h EXCEPT ![p] = h'[p]]
    /\ h[p].pc \notin Promised /\ h'[p].pc \notin Promised
    /\ UNCHANGED <<pending, lock, issues, sessionsLost>>

LEMMA OneMore ==
    ASSUME NEW S, NEW x, IsFiniteSet(S)
    PROVE  /\ IsFiniteSet(S \cup {x}) /\ Cardinality(S) \in Nat
           /\ Cardinality(S \cup {x}) <= Cardinality(S) + 1
  <1>1. Cardinality(S) \in Nat
    BY FS_CardinalityType
  <1>2. /\ IsFiniteSet(S \cup {x})
        /\ Cardinality(S \cup {x}) = IF x \in S THEN Cardinality(S) ELSE Cardinality(S) + 1
    BY FS_AddElement
  <1> QED
    BY <1>1, <1>2

(* Fewer handlers about to open an issue, or without the lock, break nothing. *)
LEMMA FewerKeep ==
    ASSUME Issued, Creators' \subseteq Creators, Unlocked' \subseteq Unlocked,
           issues' \in Nat, issues' <= issues, UNCHANGED sessionsLost
    PROVE  Issued'
  <1>1. IsFiniteSet(Creators) /\ IsFiniteSet(Unlocked)
    BY ValuesAssumption, FS_Subset DEF Creators, Unlocked
  <1>2. /\ Cardinality(Creators') <= Cardinality(Creators)
        /\ Cardinality(Unlocked') <= Cardinality(Unlocked)
        /\ IsFiniteSet(Creators') /\ IsFiniteSet(Unlocked')
    BY <1>1, FS_Subset
  <1>3. /\ Cardinality(Creators) \in Nat /\ Cardinality(Creators') \in Nat
        /\ Cardinality(Unlocked) \in Nat /\ Cardinality(Unlocked') \in Nat
    BY <1>1, <1>2, FS_CardinalityType
  <1> HIDE DEF Creators, Unlocked
  <1> QED
    BY <1>2, <1>3 DEF Issued

LEMMA AsideKeeps ==
    ASSUME Typed, Locked, Issued, NEW p \in Handlers, Aside(p)
    PROVE  Locked' /\ Issued'
  <1>1. DOMAIN h' = Handlers /\ \A q \in Handlers \ {p} : h'[q] = h[q]
    BY DEF Typed, Aside
  <1>2. "create" \in Promised /\ \A s \in Holding : s \in Promised
    BY DEF Promised, Holding
  <1>3. h[p].pc \notin Holding /\ h'[p].pc \notin Holding
    BY <1>2 DEF Aside
  <1>4. Locked'
    BY <1>1, <1>3 DEF Locked, Aside
  <1>5. Creators' \subseteq Creators /\ Unlocked' \subseteq Unlocked
    BY <1>1, <1>2, <1>3 DEF Creators, Unlocked, Aside
  <1>6. Issued'
    BY <1>5, FewerKeep DEF Issued, Aside
  <1> QED
    BY <1>4, <1>6

LEMMA OtherStepsAside ==
    ASSUME Typed, NEW p \in Handlers,
           \/ setRepositoryState(p) \/ ensureRepositoryRecord(p) \/ newRecord(p)
           \/ setAutomaticReviewPaused(p) \/ readRepository(p) \/ writeRepository(p)
           \/ resolveBranchHead(p) \/ getRepositoryIndex(p) \/ republish(p)
           \/ planBase(p) \/ planIncrementalRefresh(p) \/ compareFails(p)
           \/ readIndexedFiles(p) \/ publishIndex(p)
           \/ refreshScannerStateFromConfig(p) \/ configReadFails(p) \/ writeScannerState(p)
           \/ baseOf(p) \/ loadRepositoryIndexDescriptor(p) \/ queryRecordsByPath(p)
           \/ queryRelated(p) \/ contextUsed(p)
    PROVE  Aside(p)
  <1> USE DEF Aside, Promised, Holding
  <1>0. DOMAIN h = Handlers /\ Place(h[p])
    BY DEF Typed
  <1>1. DOMAIN h[p] = Fields
    BY <1>0 DEF Place
  <1> USE <1>0, <1>1 DEF Fields
  <1>2. CASE setRepositoryState(p)
    BY <1>2 DEF setRepositoryState, Go, Idle
  <1>3. CASE ensureRepositoryRecord(p)
    BY <1>3 DEF ensureRepositoryRecord, Idle
  <1>4. CASE newRecord(p)
    BY <1>4 DEF newRecord, Go
  <1>5. CASE setAutomaticReviewPaused(p)
    BY <1>5 DEF setAutomaticReviewPaused, Idle
  <1>6. CASE readRepository(p)
    BY <1>6 DEF readRepository
  <1>7. CASE writeRepository(p)
    BY <1>7 DEF writeRepository
  <1>8. CASE resolveBranchHead(p)
    BY <1>8 DEF resolveBranchHead
  <1>9. CASE getRepositoryIndex(p)
    BY <1>9 DEF getRepositoryIndex
  <1>10. CASE republish(p)
    BY <1>10 DEF republish
  <1>11. CASE planBase(p)
    BY <1>11 DEF planBase, Go
  <1>12. CASE planIncrementalRefresh(p)
    BY <1>12 DEF planIncrementalRefresh
  <1>13. CASE compareFails(p)
    BY <1>13 DEF compareFails
  <1>14. CASE readIndexedFiles(p)
    <2>1. PICK kept \in SUBSET readTargets(p) :
            h' = [h EXCEPT ![p].pc = "publish",
                           ![p].files = [q \in kept |-> tree[h[p].commit][q]],
                           ![p].skipped = readTargets(p) \ kept]
      BY <1>14, ReadTurn
    <2>2. h[p].pc = "read" /\ UNCHANGED <<pending, lock, issues, sessionsLost>>
      BY <1>14 DEF readIndexedFiles
    <2> QED
      BY <2>1, <2>2
  <1>15. CASE publishIndex(p)
    BY <1>15 DEF publishIndex, Idle
  <1>16. CASE refreshScannerStateFromConfig(p)
    <2>1. PICK l : h' = [h EXCEPT ![p] = l] /\ l.pc \in {"idle", "scanner"}
      <3> DEFINE l == [Idle EXCEPT !.pc = "scanner", !.kind = h[p].kind, !.name = h[p].name,
                                   !.ex = row, !.mode = ScannerMode(h[p].commit)]
      <3>1. h' = [h EXCEPT ![p] = Idle] \/ h' = [h EXCEPT ![p] = l]
        BY <1>16, ConfigTurn
      <3>2. l.pc = "scanner" /\ Idle.pc = "idle"
        BY DEF Idle
      <3> HIDE DEF l
      <3> QED
        BY <3>1, <3>2
    <2>2. h[p].pc = "config" /\ UNCHANGED <<pending, lock, issues, sessionsLost>>
      BY <1>16 DEF refreshScannerStateFromConfig
    <2> QED
      BY <2>1, <2>2
  <1>17. CASE configReadFails(p)
    BY <1>17 DEF configReadFails, Idle
  <1>18. CASE writeScannerState(p)
    BY <1>18 DEF writeScannerState, Idle
  <1>19. CASE baseOf(p)
    BY <1>19 DEF baseOf
  <1>20. CASE loadRepositoryIndexDescriptor(p)
    BY <1>20 DEF loadRepositoryIndexDescriptor, Go, Idle
  <1>21. CASE queryRecordsByPath(p)
    BY <1>21 DEF queryRecordsByPath
  <1>22. CASE queryRelated(p)
    BY <1>22 DEF queryRelated
  <1>23. CASE contextUsed(p)
    BY <1>23 DEF contextUsed, Idle
  <1> QED
    BY <1>2, <1>3, <1>4, <1>5, <1>6, <1>7, <1>8, <1>9, <1>10, <1>11, <1>12, <1>13, <1>14,
       <1>15, <1>16, <1>17, <1>18, <1>19, <1>20, <1>21, <1>22, <1>23

LEMMA InitLocked == Init => Locked /\ Issued
  <1> SUFFICES ASSUME Init PROVE Locked /\ Issued
    OBVIOUS
  <1>1. issues \in {0, 1} /\ sessionsLost = 0
    BY DEF Init, DiscoveredBefore
  <1>2. Creators = {} /\ Unlocked = {}
    BY DEF Init, Idle, Creators, Unlocked, Holding
  <1>3. Issued
    BY <1>1, <1>2, FS_EmptySet DEF Issued
  <1>4. Locked
    BY ValuesAssumption DEF Init, Locked, Idle, Promised, Holding
  <1> QED
    BY <1>3, <1>4

(* Who lists the issues and finds none joins the handlers about to open one:  *)
(* those have the lock, one at most, or have lost it.                        *)
LEMMA ListKeeps ==
    ASSUME Typed, Locked, Issued, NEW p \in Handlers, listIssues(p)
    PROVE  Issued'
  <1>0. DOMAIN h = Handlers /\ DOMAIN h[p] = Fields
    BY DEF Typed, Place
  <1>1. /\ UNCHANGED <<lock, issues, sessionsLost>> /\ h[p].pc = "list"
        /\ h' = [h EXCEPT ![p].pc = IF issues > 0 THEN "unlock" ELSE "create"]
    BY DEF listIssues, Go
  <1>2. h'[p].pc = (IF issues > 0 THEN "unlock" ELSE "create")
        /\ \A q \in Handlers \ {p} : h'[q] = h[q]
    BY <1>0, <1>1 DEF Fields
  <1>3. Unlocked' = Unlocked
    BY <1>1, <1>2 DEF Unlocked, Holding
  <1>4. CASE issues > 0
    <2>1. Creators' \subseteq Creators
      BY <1>2, <1>4 DEF Creators
    <2> QED
      BY <1>1, <1>3, <2>1, FewerKeep DEF Issued
  <1>5. CASE issues = 0
    <2>1. Creators' \subseteq Unlocked \cup {lock}
      BY <1>1, <1>3 DEF Creators, Unlocked, Holding
    <2>2. IsFiniteSet(Unlocked) /\ IsFiniteSet(Unlocked \cup {lock})
          /\ Cardinality(Unlocked \cup {lock}) <= Cardinality(Unlocked) + 1
      <3>1. IsFiniteSet(Unlocked)
        BY ValuesAssumption, FS_Subset DEF Unlocked
      <3> QED
        BY <3>1, OneMore
    <2>3. Cardinality(Creators') <= Cardinality(Unlocked \cup {lock}) /\ IsFiniteSet(Creators')
      BY <2>1, <2>2, FS_Subset
    <2>4. /\ Cardinality(Creators') \in Nat /\ Cardinality(Unlocked) \in Nat
          /\ Cardinality(Unlocked \cup {lock}) \in Nat
      BY <2>2, <2>3, FS_CardinalityType
    <2> HIDE DEF Creators, Unlocked
    <2> QED
      BY <1>1, <1>3, <1>5, <2>2, <2>3, <2>4 DEF Issued
  <1> QED
    BY <1>4, <1>5 DEF Issued

(* The one who creates the issue is no longer about to, even if it does not   *)
(* learn of it.                                                              *)
LEMMA CreateKeeps ==
    ASSUME Issued, NEW p \in Handlers, h[p].pc = "create",
           Creators' \subseteq Creators \ {p}, Unlocked' \subseteq Unlocked,
           issues' \in {issues, issues + 1}, UNCHANGED sessionsLost
    PROVE  Issued'
  <1>1. IsFiniteSet(Creators) /\ IsFiniteSet(Unlocked) /\ p \in Creators
    BY ValuesAssumption, FS_Subset DEF Creators, Unlocked
  <1>2. IsFiniteSet(Creators \ {p}) /\ Cardinality(Creators \ {p}) = Cardinality(Creators) - 1
    BY <1>1, FS_RemoveElement
  <1>3. /\ Cardinality(Creators') <= Cardinality(Creators \ {p})
        /\ Cardinality(Unlocked') <= Cardinality(Unlocked)
        /\ IsFiniteSet(Creators') /\ IsFiniteSet(Unlocked')
    BY <1>1, <1>2, FS_Subset
  <1>4. /\ Cardinality(Creators) \in Nat /\ Cardinality(Creators') \in Nat
        /\ Cardinality(Unlocked) \in Nat /\ Cardinality(Unlocked') \in Nat
    BY <1>1, <1>3, FS_CardinalityType
  <1> HIDE DEF Creators, Unlocked
  <1> QED
    BY <1>2, <1>3, <1>4 DEF Issued

LEMMA LockedHandler ==
    ASSUME Typed, Locked, Issued, NEW p \in Handlers, HandlerStep(p)
    PROVE  Locked' /\ Issued'
  <1> USE DEF Promised, Holding
  <1>0. DOMAIN h = Handlers /\ \A q \in Handlers : DOMAIN h[q] = Fields
    BY DEF Typed, Place
  <1>1. CASE ensureOnboardingIssue(p)
    <2>1. \A q \in Handlers : q # p => h'[q] = h[q]
      BY <1>0, <1>1 DEF ensureOnboardingIssue, Go
    <2>2. h'[p].pc \in {"awaitIssue", "lock"}
      BY <1>0, <1>1 DEF ensureOnboardingIssue, Go, Fields
    <2>3. Locked'
      BY <1>0, <1>1, ValuesAssumption DEF ensureOnboardingIssue, Go, Locked, Fields
    <2>4. Creators' \subseteq Creators /\ Unlocked' \subseteq Unlocked
      BY <1>1, <2>1, <2>2 DEF ensureOnboardingIssue, Creators, Unlocked
    <2> QED
      BY <1>1, <2>3, <2>4, FewerKeep DEF ensureOnboardingIssue, Issued
  <1>2. CASE acquireOnboardingIssueLock(p)
    <2>1. (\A q \in Handlers : q # p => h'[q] = h[q]) /\ h'[p].pc = "list" /\ lock' = p
      BY <1>0, <1>2 DEF acquireOnboardingIssueLock, Go, Fields
    <2>2. lock = None /\ UNCHANGED <<pending, issues, sessionsLost>> /\ h[p].pc = "lock"
      BY <1>2 DEF acquireOnboardingIssueLock
    <2>3. Locked'
      BY <2>1, <2>2, ValuesAssumption DEF Locked
    <2>4. Creators' \subseteq Creators /\ Unlocked' \subseteq Unlocked
      BY <2>1, <2>2, ValuesAssumption DEF Creators, Unlocked
    <2> QED
      BY <2>2, <2>3, <2>4, FewerKeep DEF Issued
  <1>3. CASE listIssues(p)
    <2>1. Locked'
      BY <1>0, <1>3, ValuesAssumption DEF listIssues, Go, Locked, Fields
    <2> QED
      BY <1>3, <2>1, ListKeeps
  <1>4. CASE createIssue(p)
    <2>1. (\A q \in Handlers : q # p => h'[q] = h[q]) /\ h'[p].pc = "unlock"
      BY <1>0, <1>4 DEF createIssue, Go, Fields
    <2>2. issues' = issues + 1 /\ UNCHANGED <<lock, pending, sessionsLost>> /\ h[p].pc = "create"
      BY <1>4 DEF createIssue
    <2>3. Locked'
      BY <2>1, <2>2 DEF Locked
    <2>4. Creators' \subseteq Creators \ {p} /\ Unlocked' \subseteq Unlocked
      BY <2>1, <2>2 DEF Creators, Unlocked
    <2> QED
      BY <2>2, <2>3, <2>4, CreateKeeps
  <1>5. CASE releaseOnboardingIssueLock(p)
    <2>1. /\ lock' = (IF lock = p THEN None ELSE lock) /\ pending' = pending \ {p}
          /\ UNCHANGED <<issues, sessionsLost>> /\ h[p].pc = "unlock"
      BY <1>5 DEF releaseOnboardingIssueLock
    <2>2. ASSUME NEW q \in Handlers
          PROVE  \/ q # p /\ h'[q] = h[q]
                 \/ h[q].pc \in {"unlock", "awaitIssue"} /\ h'[q].pc \notin Promised
                    /\ (q = p \/ h[q].pc = "awaitIssue")
      <3>1. h[q].pc \in {"unlock", "awaitIssue"} => Retried(q).pc \notin Promised
        BY RetriedPlace DEF Recorded, Onboarding
      <3> QED
        BY <1>0, <1>5, <2>1, <3>1 DEF releaseOnboardingIssueLock, Waiters, Fields
    <2>3. Locked'
      BY <2>1, <2>2, ValuesAssumption DEF Locked
    <2>4. Creators' \subseteq Creators /\ Unlocked' \subseteq Unlocked
      BY <2>1, <2>2 DEF Creators, Unlocked
    <2> QED
      BY <2>1, <2>3, <2>4, FewerKeep DEF Issued
  <1>6. CASE handlerThrows(p)
    <2>1. ASSUME NEW q \in Handlers
          PROVE  \/ q # p /\ h'[q] = h[q]
                 \/ q = p /\ h'[q].pc \notin Promised
                 \/ h[q].pc = "awaitIssue" /\ h'[q].pc \notin Promised
      <3>0. h[p].pc # "idle"
        BY <1>6 DEF handlerThrows
      <3>1. Retried(p).pc \notin Promised
        BY <3>0, RetriedPlace DEF Recorded, Onboarding
      <3>2. h[q].pc = "awaitIssue" => Retried(q).pc \notin Promised
        BY RetriedPlace DEF Recorded, Onboarding
      <3> QED
        BY <1>6, <3>1, <3>2 DEF handlerThrows, Waiters
    <2>2. /\ lock' = (IF lock = p THEN None ELSE lock) /\ pending' = pending \ {p}
          /\ UNCHANGED sessionsLost
      BY <1>6 DEF handlerThrows
    <2>3. Locked'
      BY <2>1, <2>2, ValuesAssumption DEF Locked
    <2>4. Creators' \subseteq Creators \ {p} /\ Unlocked' \subseteq Unlocked
      BY <2>1, <2>2 DEF Creators, Unlocked
    <2>5. CASE h[p].pc = "create"
      BY <1>6, <2>2, <2>3, <2>4, <2>5, CreateKeeps DEF handlerThrows
    <2>6. CASE h[p].pc # "create"
      <3>1. issues' = issues
        BY <1>6, <2>6 DEF handlerThrows
      <3> QED
        BY <2>2, <2>3, <2>4, <3>1, FewerKeep DEF Issued
    <2> QED
      BY <2>5, <2>6
  <1>7. CASE Aside(p)
    BY <1>7, AsideKeeps
  <1> QED
    BY <1>1, <1>2, <1>3, <1>4, <1>5, <1>6, <1>7, OtherStepsAside DEF HandlerStep

(* A handler whose session is lost goes on without the lock.                 *)
LEMMA LockSessionLostKeeps ==
    ASSUME Typed, Locked, Issued, lockSessionLost
    PROVE  Locked' /\ Issued'
  <1>1. /\ lock \in Handlers /\ lock' = None /\ sessionsLost' = sessionsLost + 1
        /\ UNCHANGED <<h, pending, issues>>
    BY DEF lockSessionLost, Locked
  <1>2. Locked'
    BY <1>1, ValuesAssumption DEF Locked
  <1>3. Creators' = Creators /\ Unlocked' \subseteq Unlocked \cup {lock}
    BY <1>1 DEF Creators, Unlocked
  <1>4. IsFiniteSet(Creators) /\ IsFiniteSet(Unlocked)
    BY ValuesAssumption, FS_Subset DEF Creators, Unlocked
  <1>5. /\ IsFiniteSet(Unlocked \cup {lock}) /\ Cardinality(Unlocked) \in Nat
        /\ Cardinality(Unlocked \cup {lock}) <= Cardinality(Unlocked) + 1
    BY <1>4, OneMore
  <1>6. Cardinality(Unlocked') <= Cardinality(Unlocked \cup {lock}) /\ IsFiniteSet(Unlocked')
    BY <1>3, <1>5, FS_Subset
  <1>7. /\ Cardinality(Creators) \in Nat /\ Cardinality(Unlocked') \in Nat
        /\ Cardinality(Unlocked \cup {lock}) \in Nat
    BY <1>4, <1>5, <1>6, FS_CardinalityType
  <1>8. Issued'
    <2> HIDE DEF Creators, Unlocked
    <2> QED
      BY <1>1, <1>3, <1>5, <1>6, <1>7 DEF Issued
  <1> QED
    BY <1>2, <1>8

LEMMA LockedStep == Typed /\ Locked /\ Issued /\ [Next]_vars => Locked' /\ Issued'
  <1> SUFFICES ASSUME Typed, Locked, Issued, [Next]_vars PROVE Locked' /\ Issued'
    OBVIOUS
  <1>1. ASSUME NEW p \in Handlers, HandlerStep(p) PROVE Locked' /\ Issued'
    BY <1>1, LockedHandler
  <1>2. ASSUME NEW p \in Handlers, NEW kind \in Kinds, handle(p, kind) PROVE Locked' /\ Issued'
    <2>1. Aside(p)
      BY <1>2 DEF Typed, handle, Idle, Aside, Promised, Holding, Kinds
    <2> QED
      BY <2>1, AsideKeeps
  <1>3. ASSUME NEW x, crash(x) PROVE Locked' /\ Issued'
    <2> DEFINE dead == {q \in Handlers : ProcessOf[q] = x}
    <2>1. ASSUME NEW q \in Handlers
          PROVE  \/ q \notin dead /\ h'[q] = h[q]
                 \/ q \in dead /\ h'[q].pc \notin Promised
      <3>1. h[q].pc # "idle" => Retried(q).pc \notin Promised
        BY RetriedPlace DEF Recorded, Onboarding
      <3>2. h[q].pc = "idle" => h[q].pc \notin Promised
        BY DEF Promised, Holding
      <3> QED
        BY <1>3, <3>1, <3>2 DEF crash
    <2>2. /\ lock' = (IF lock \in dead THEN None ELSE lock) /\ pending' = pending \ dead
          /\ UNCHANGED <<issues, sessionsLost>>
      BY <1>3 DEF crash
    <2> HIDE DEF dead
    <2>3. (\A s \in Holding : s \in Promised) /\ "create" \in Promised
      BY DEF Promised, Holding
    <2>4. Locked'
      BY <2>1, <2>2, <2>3, ValuesAssumption DEF Locked
    <2>5. Creators' \subseteq Creators /\ Unlocked' \subseteq Unlocked
      BY <2>1, <2>2, <2>3 DEF Creators, Unlocked
    <2> QED
      BY <2>2, <2>4, <2>5, FewerKeep DEF Issued
  <1>4. ASSUME UNCHANGED <<h, pending, lock, sessionsLost>>, issues' \in {0, issues}
        PROVE  Locked' /\ Issued'
    <2>1. Creators' = Creators /\ Unlocked' = Unlocked
      BY <1>4 DEF Creators, Unlocked
    <2> QED
      BY <1>4, <2>1, FewerKeep DEF Locked, Issued
  <1>5. ASSUME NEW c \in Commits, push(c) PROVE Locked' /\ Issued'
    BY <1>4, <1>5 DEF push
  <1>6. ASSUME NEW n \in Names, rename(n) PROVE Locked' /\ Issued'
    BY <1>4, <1>6 DEF rename
  <1>7. CASE buryIssues
    BY <1>4, <1>7 DEF buryIssues
  <1>8. CASE purgeSupersededIndexGenerations
    BY <1>4, <1>8 DEF purgeSupersededIndexGenerations
  <1>9. CASE UNCHANGED vars
    BY <1>4, <1>9 DEF vars
  <1>10. CASE lockSessionLost
    BY <1>10, LockSessionLostKeeps
  <1> QED
    BY <1>1, <1>2, <1>3, <1>5, <1>6, <1>7, <1>8, <1>9, <1>10 DEF Next

-----------------------------------------------------------------------------
(* Generations and contexts. *)

LEMMA IndexTurn ==
    ASSUME Typed, Indexed, NEW p \in Handlers, h' = [h EXCEPT ![p] = h'[p]], tree' = tree,
           Work(tree, h'[p]), \A c \in Commits : Generation(tree, gen'[c], c)
    PROVE  Indexed'
  <1>1. \A q \in Handlers \ {p} : h'[q] = h[q]
    BY DEF Typed
  <1> QED
    BY <1>1 DEF Indexed

LEMMA PlainWork ==
    ASSUME NEW t, NEW l, l.pc \notin Working
    PROVE  Work(t, l)
  BY DEF Work, Working

(* Steps after which the handler holds nothing of a generation.              *)
LEMMA PlainTurn ==
    ASSUME Typed, Indexed, NEW p \in Handlers,
           \/ setRepositoryState(p) \/ ensureRepositoryRecord(p) \/ newRecord(p)
           \/ setAutomaticReviewPaused(p) \/ readRepository(p) \/ writeRepository(p)
           \/ ensureOnboardingIssue(p) \/ acquireOnboardingIssueLock(p) \/ listIssues(p)
           \/ createIssue(p) \/ resolveBranchHead(p)
           \/ refreshScannerStateFromConfig(p) \/ configReadFails(p) \/ writeScannerState(p)
           \/ baseOf(p) \/ loadRepositoryIndexDescriptor(p) \/ contextUsed(p)
    PROVE  Indexed'
  <1> DEFINE Plain == h' = [h EXCEPT ![p] = h'[p]] /\ h'[p].pc \notin Working
                      /\ tree' = tree /\ gen' = gen
  <1>0. DOMAIN h = Handlers /\ DOMAIN h[p] = Fields
    BY DEF Typed, Place
  <1>a. SUFFICES Plain
    BY PlainWork, IndexTurn DEF Indexed
  <1> USE <1>0 DEF Fields, Working
  <1>1. CASE setRepositoryState(p)
    BY <1>1 DEF setRepositoryState, Go, Idle
  <1>2. CASE ensureRepositoryRecord(p)
    BY <1>2 DEF ensureRepositoryRecord, Idle
  <1>3. CASE newRecord(p)
    BY <1>3 DEF newRecord, Go
  <1>4. CASE setAutomaticReviewPaused(p)
    BY <1>4 DEF setAutomaticReviewPaused, Idle
  <1>5. CASE readRepository(p)
    BY <1>5 DEF readRepository
  <1>6. CASE writeRepository(p)
    BY <1>6 DEF writeRepository
  <1>7. CASE ensureOnboardingIssue(p)
    BY <1>7 DEF ensureOnboardingIssue, Go
  <1>8. CASE acquireOnboardingIssueLock(p)
    BY <1>8 DEF acquireOnboardingIssueLock, Go
  <1>9. CASE listIssues(p)
    BY <1>9 DEF listIssues, Go
  <1>10. CASE createIssue(p)
    BY <1>10 DEF createIssue, Go
  <1>11. CASE resolveBranchHead(p)
    BY <1>11 DEF resolveBranchHead
  <1>12. CASE refreshScannerStateFromConfig(p)
    <2> DEFINE l == [Idle EXCEPT !.pc = "scanner", !.kind = h[p].kind, !.name = h[p].name,
                                 !.ex = row, !.mode = ScannerMode(h[p].commit)]
    <2>1. h' = [h EXCEPT ![p] = Idle] \/ h' = [h EXCEPT ![p] = l]
      BY <1>12, ConfigTurn
    <2>2. l.pc = "scanner" /\ Idle.pc = "idle"
      BY DEF Idle
    <2>3. tree' = tree /\ gen' = gen
      BY <1>12 DEF refreshScannerStateFromConfig
    <2> HIDE DEF l
    <2> QED
      BY <2>1, <2>2, <2>3
  <1>13. CASE configReadFails(p)
    BY <1>13 DEF configReadFails, Idle
  <1>14. CASE writeScannerState(p)
    BY <1>14 DEF writeScannerState, Idle
  <1>15. CASE baseOf(p)
    BY <1>15 DEF baseOf
  <1>16. CASE loadRepositoryIndexDescriptor(p)
    BY <1>16 DEF loadRepositoryIndexDescriptor, Go, Idle
  <1>17. CASE contextUsed(p)
    BY <1>17 DEF contextUsed, Idle
  <1> QED
    BY <1>1, <1>2, <1>3, <1>4, <1>5, <1>6, <1>7, <1>8, <1>9, <1>10, <1>11, <1>12, <1>13, <1>14,
       <1>15, <1>16, <1>17

LEMMA RowsTogether ==
    ASSUME NEW t, NEW c, NEW f, NEW g, NEW D, OfCommit(t, f, c), OfCommit(t, g, c)
    PROVE  OfCommit(t, Upserted(f, g), c) /\ OfCommit(t, Without(g, D), c)
  BY DEF OfCommit, Without, Upserted

LEMMA RowsOfCommit ==
    ASSUME Typed, Indexed, NEW c \in Commits
    PROVE  OfCommit(tree, RowsOf(c), c)
  BY DEF RowsOf, Indexed, Generation, OfCommit

(* What an incremental refresh publishes is of its commit, and all of the     *)
(* paths it lacks were read in vain.                                          *)
LEMMA BuiltIndexOfCommit ==
    ASSUME NEW p \in Handlers, h[p].pc = "publish", Work(tree, h[p])
    PROVE  /\ OfCommit(tree, BuiltIndex(p), h[p].commit)
           /\ selected(h[p].commit) \ DOMAIN BuiltIndex(p) = h[p].skipped
  <1> DEFINE l == h[p]
             S == Chosen(tree, l.commit)
  <1>0. selected(l.commit) = S
    BY DEF selected, Chosen
  <1>1. /\ DOMAIN l.files \subseteq Targets(tree, l)
        /\ l.skipped = Targets(tree, l) \ DOMAIN l.files
        /\ \A q \in DOMAIN l.files : l.files[q] = tree[l.commit][q]
    BY DEF Work
  <1>2. CASE l.previous = None
    BY <1>0, <1>1, <1>2 DEF BuiltIndex, Targets, OfCommit
  <1>3. CASE l.previous # None
    <2> DEFINE previous == l.previous.files
               removed == {q \in DOMAIN previous : q \notin DOMAIN l.files
                             /\ (q \in l.changed \/ q \notin S)}
               carried == DOMAIN previous \ (DOMAIN l.files \cup removed)
               kept == [q \in carried |-> previous[q]]
    <2>1. BuiltIndex(p) = Upserted(l.files, kept)
      BY <1>0, <1>3 DEF BuiltIndex, buildRepositoryIndexIncremental
    <2>2. /\ S \subseteq DOMAIN previous \cup l.changed
          /\ \A q \in (DOMAIN previous \cap S) \ l.changed : previous[q] = tree[l.commit][q]
      BY <1>3 DEF Work, Carries
    <2>3. carried \subseteq (DOMAIN previous \cap S) \ l.changed
      OBVIOUS
    <2>4. OfCommit(tree, kept, l.commit)
      BY <2>2, <2>3 DEF OfCommit
    <2>5. OfCommit(tree, l.files, l.commit)
      BY <1>1, <1>3 DEF OfCommit, Targets
    <2>6. DOMAIN BuiltIndex(p) = DOMAIN l.files \cup carried
      BY <2>1 DEF Upserted
    <2>7. Targets(tree, l) = S \cap l.changed
      BY <1>3 DEF Targets
    <2>8. S \ (DOMAIN l.files \cup carried) = l.skipped
      BY <1>1, <2>2, <2>7
    <2> QED
      BY <1>0, <2>1, <2>4, <2>5, <2>6, <2>8, RowsTogether
  <1> QED
    BY <1>2, <1>3

LEMMA IndexedHandler ==
    ASSUME Typed, Indexed, NEW p \in Handlers, HandlerStep(p)
    PROVE  Indexed'
  <1>0. /\ DOMAIN h = Handlers /\ DOMAIN h[p] = Fields /\ DOMAIN gen = Commits
        /\ Work(tree, h[p]) /\ Place(h[p])
        /\ \A c \in Commits : Generation(tree, gen[c], c)
    BY DEF Typed, Place, Indexed
  <1>1. CASE releaseOnboardingIssueLock(p)
    <2>1. ASSUME NEW q \in Handlers PROVE Work(tree, h'[q])
      <3>1. \/ h'[q] = h[q] \/ h'[q].pc = "resolve"
            \/ h'[q] = Retried(q) /\ h[q].pc # "idle"
        BY <1>1 DEF releaseOnboardingIssueLock, Waiters, Typed, Place, Fields
      <3> QED
        BY <3>1, RetriedPlace, PlainWork DEF Indexed, Working, Kinds
    <2> QED
      BY <1>1, <2>1 DEF Indexed, releaseOnboardingIssueLock
  <1>2. CASE getRepositoryIndex(p)
    <2> DEFINE existing == gen[h[p].commit]
    <2>1. h' = [h EXCEPT ![p] = h'[p]] /\ tree' = tree /\ gen' = gen
      BY <1>0, <1>2 DEF getRepositoryIndex
    <2>2. /\ h'[p].existing = existing /\ h'[p].commit = h[p].commit
          /\ h'[p].pc \in {"republish", "plan"}
          /\ h'[p].pc = "republish" => existing # None
      BY <1>0, <1>2 DEF getRepositoryIndex, Fields
    <2>3. h[p].commit \in Commits
      BY <1>0, <1>2 DEF getRepositoryIndex, Place, Refreshing
    <2>4. Work(tree, h'[p])
      BY <1>0, <2>2, <2>3 DEF Work, Generation
    <2> QED
      BY <1>0, <2>1, <2>4, IndexTurn
  <1>3. CASE republish(p)
    <2> DEFINE e == h[p].existing
               g == [name |-> e.name, files |-> e.files, rows |-> e.files]
    <2>1. h' = [h EXCEPT ![p] = h'[p]] /\ h'[p].pc = "config" /\ tree' = tree
          /\ gen' = [gen EXCEPT ![h[p].commit] = g] /\ h[p].pc = "republish"
      BY <1>0, <1>3 DEF republish, replaceRepositoryIndex, Fields
    <2>2. OfCommit(tree, e.files, h[p].commit)
      BY <1>0, <2>1 DEF Work
    <2>3. Generation(tree, g, h[p].commit)
      BY <2>2 DEF Generation
    <2>4. \A c \in Commits : Generation(tree, gen'[c], c)
      BY <1>0, <2>1, <2>3
    <2>5. Work(tree, h'[p])
      BY <2>1, PlainWork DEF Working
    <2> QED
      BY <2>1, <2>4, <2>5, IndexTurn
  <1>4. CASE planBase(p)
    <2>1. h' = [h EXCEPT ![p] = h'[p]] /\ tree' = tree /\ gen' = gen
          /\ h'[p].previous = h[p].previous /\ h'[p].pc \in {"read", "compare"}
      BY <1>0, <1>4 DEF planBase, Go, Fields
    <2>2. h[p].previous = None
      BY <1>0, <1>4 DEF planBase, Place
    <2>3. Work(tree, h'[p])
      BY <2>1, <2>2 DEF Work
    <2> QED
      BY <1>0, <2>1, <2>3, IndexTurn
  <1>5. CASE planIncrementalRefresh(p)
    <2> DEFINE previous == gen[h[p].base]
               changed == changedPaths(h[p].base, previous, h[p].commit, h[p].name)
    <2>1. /\ h' = [h EXCEPT ![p] = h'[p]] /\ tree' = tree /\ gen' = gen
          /\ h'[p].pc = "read" /\ h'[p].commit = h[p].commit /\ h[p].pc = "compare"
      BY <1>0, <1>5 DEF planIncrementalRefresh, Fields
    <2>2. \/ h'[p].previous = h[p].previous
          \/ /\ previous # None /\ changed # None
             /\ h'[p].previous = previous /\ h'[p].changed = changed
      BY <1>0, <1>5 DEF planIncrementalRefresh, Fields
    <2>3. h[p].previous = None /\ h[p].base \in Commits /\ h[p].commit \in Commits
      BY <1>0, <2>1 DEF Place, Refreshing
    <2>4. previous # None /\ changed # None => Carries(tree, previous, changed, h[p].commit)
      BY <1>0, <2>3, ChangedPathsCarry DEF Generation
    <2>5. Work(tree, h'[p])
      BY <2>1, <2>2, <2>3, <2>4 DEF Work
    <2> QED
      BY <1>0, <2>1, <2>5, IndexTurn
  <1>6. CASE compareFails(p)
    <2>1. h' = [h EXCEPT ![p] = h'[p]] /\ tree' = tree /\ gen' = gen
          /\ h'[p].previous = h[p].previous /\ h'[p].pc = "read"
      BY <1>0, <1>6 DEF compareFails, Fields
    <2>2. h[p].previous = None
      BY <1>0, <1>6 DEF compareFails, Place
    <2>3. Work(tree, h'[p])
      BY <2>1, <2>2 DEF Work
    <2> QED
      BY <1>0, <2>1, <2>3, IndexTurn
  <1>7. CASE readIndexedFiles(p)
    <2>1. PICK kept \in SUBSET readTargets(p) :
            h' = [h EXCEPT ![p].pc = "publish",
                           ![p].files = [q \in kept |-> tree[h[p].commit][q]],
                           ![p].skipped = readTargets(p) \ kept]
      BY <1>7, ReadTurn
    <2>2. /\ h' = [h EXCEPT ![p] = h'[p]] /\ h'[p].pc = "publish"
          /\ h'[p].files = [q \in kept |-> tree[h[p].commit][q]]
          /\ h'[p].skipped = readTargets(p) \ kept
          /\ h'[p].commit = h[p].commit /\ h'[p].previous = h[p].previous
          /\ h'[p].changed = h[p].changed
      BY <1>0, <2>1 DEF Fields
    <2>3. readTargets(p) = Targets(tree, h[p]) /\ Targets(tree, h'[p]) = Targets(tree, h[p])
      BY <2>2 DEF readTargets, Targets, selected, Chosen
    <2>4. tree' = tree /\ gen' = gen /\ h[p].pc = "read"
      BY <1>7 DEF readIndexedFiles
    <2>5. h'[p].previous # None => Carries(tree, h'[p].previous, h'[p].changed, h'[p].commit)
      BY <1>0, <2>2, <2>4 DEF Work
    <2>6. DOMAIN h'[p].files = kept /\ \A q \in kept : h'[p].files[q] = tree[h[p].commit][q]
      BY <2>2
    <2>7. /\ DOMAIN h'[p].files \subseteq Targets(tree, h'[p])
          /\ h'[p].skipped = Targets(tree, h'[p]) \ DOMAIN h'[p].files
          /\ \A q \in DOMAIN h'[p].files : h'[p].files[q] = tree[h'[p].commit][q]
      <3>1. readTargets(p) = Targets(tree, h'[p]) /\ DOMAIN h'[p].files = kept
        BY <2>3, <2>6
      <3>2. h'[p].skipped = Targets(tree, h'[p]) \ kept
        BY <2>2, <3>1
      <3>3. \A q \in kept : h'[p].files[q] = tree[h'[p].commit][q]
        BY <2>2, <2>6
      <3> QED
        BY <3>1, <3>2, <3>3
    <2>8. Work(tree, h'[p])
      BY <2>2, <2>5, <2>7 DEF Work
    <2> QED
      BY <1>0, <2>2, <2>4, <2>8, IndexTurn
  <1>8. CASE publishIndex(p)
    <2> DEFINE c == h[p].commit
               files == BuiltIndex(p)
               deleted == recordIdsRemovedFrom(p, files)
               whole == [name |-> h[p].name, files |-> files, rows |-> files]
               part == [name |-> h[p].name, files |-> files,
                        rows |-> Upserted(files, Without(RowsOf(c), deleted))]
    <2>1. /\ h[p].pc = "publish" /\ tree' = tree
          /\ gen' = [gen EXCEPT ![c] = whole] \/ gen' = [gen EXCEPT ![c] = part]
      BY <1>8 DEF publishIndex, replaceRepositoryIndex, applyRepositoryIndexDelta
    <2>2. h' = [h EXCEPT ![p] = h'[p]] /\ h'[p].pc = "config"
      BY <1>0, <1>8 DEF publishIndex, Idle
    <2>3. OfCommit(tree, files, c) /\ c \in Commits
      BY <1>0, <2>1, BuiltIndexOfCommit DEF Place, Refreshing
    <2>4. OfCommit(tree, Upserted(files, Without(RowsOf(c), deleted)), c)
      BY <2>3, RowsOfCommit, RowsTogether
    <2>5. Generation(tree, whole, c) /\ Generation(tree, part, c)
      BY <2>3, <2>4 DEF Generation
    <2> HIDE DEF whole, part
    <2>6. \A x \in Commits : Generation(tree, gen'[x], x)
      BY <1>0, <2>1, <2>5
    <2>7. Work(tree, h'[p])
      BY <2>2, PlainWork DEF Working
    <2> QED
      BY <2>1, <2>2, <2>6, <2>7, IndexTurn
  <1>9. CASE queryRecordsByPath(p)
    <2> DEFINE rows == RowsOf(h[p].commit)
    <2>1. PICK D, pc : /\ pc \in {"vectors", "edges"}
                       /\ h' = [h EXCEPT ![p].files = Without(rows, D), ![p].pc = pc]
      BY <1>9, PathTurn
    <2>2. h'[p].pc \in {"vectors", "edges"} /\ h[p].pc = "paths" /\ tree' = tree /\ gen' = gen
      BY <1>0, <1>9, <2>1 DEF queryRecordsByPath, Fields
    <2>3. h[p].commit \in Commits
      BY <1>0, <2>2 DEF Place, Reading
    <2>4. OfCommit(tree, h'[p].files, h'[p].commit) /\ h' = [h EXCEPT ![p] = h'[p]]
      BY <1>0, <2>1, <2>3, RowsOfCommit, RowsTogether DEF Fields
    <2>5. Work(tree, h'[p])
      BY <2>2, <2>4 DEF Work
    <2> QED
      BY <1>0, <2>2, <2>4, <2>5, IndexTurn
  <1>10. CASE queryRelated(p)
    <2>1. /\ h' = [h EXCEPT ![p] = h'[p]] /\ h'[p].pc \in {"vectors", "reviewed"}
          /\ h'[p].files = Upserted(h[p].files, RowsOf(h[p].commit))
          /\ h'[p].commit = h[p].commit
          /\ h[p].pc \in {"edges", "vectors"} /\ tree' = tree /\ gen' = gen
      BY <1>0, <1>10 DEF queryRelated, queryRows, Fields
    <2>2. h[p].commit \in Commits /\ OfCommit(tree, h[p].files, h[p].commit)
      BY <1>0, <2>1 DEF Place, Reading, Work
    <2>3. OfCommit(tree, h'[p].files, h'[p].commit)
      BY <2>1, <2>2, RowsOfCommit, RowsTogether
    <2>4. Work(tree, h'[p])
      BY <2>1, <2>3 DEF Work
    <2> QED
      BY <1>0, <2>1, <2>4, IndexTurn
  <1>11. CASE handlerThrows(p)
    <2>1. ASSUME NEW q \in Handlers PROVE Work(tree, h'[q])
      <3>1. h'[q] = h[q] \/ (h'[q] = Retried(q) /\ h[q].pc # "idle")
        BY <1>11 DEF handlerThrows, Waiters
      <3> QED
        BY <3>1, RetriedPlace, PlainWork DEF Indexed, Working, Kinds
    <2> QED
      BY <1>11, <2>1 DEF Indexed, handlerThrows
  <1> QED
    BY <1>1, <1>2, <1>3, <1>4, <1>5, <1>6, <1>7, <1>8, <1>9, <1>10, <1>11, PlainTurn DEF HandlerStep

LEMMA InitIndexed == Init => Indexed
  <1> SUFFICES ASSUME Init PROVE Indexed
    OBVIOUS
  <1>1. \A p \in Handlers : Work(tree, h[p])
    BY PlainWork DEF Init, Idle, Working
  <1>2. CASE gen = [c \in Commits |-> None]
    BY <1>1, <1>2 DEF Indexed, Generation
  <1>3. CASE DiscoveredBefore
    <2> DEFINE loaded == {q \in selected(head) : readIndexedFile(head, q) = "loaded"}
               kept == WithinBudget(head, loaded)
               files == [q \in kept |-> tree[head][q]]
    <2>1. kept \subseteq selected(head)
      BY DEF WithinBudget
    <2>2. gen = [c \in Commits |-> IF c # head THEN None
                    ELSE [name |-> name, files |-> files, rows |-> files]]
      BY <1>3 DEF DiscoveredBefore
    <2> HIDE DEF kept
    <2>3. OfCommit(tree, files, head)
      BY <2>1 DEF OfCommit, Chosen, selected
    <2> HIDE DEF files
    <2>4. \A c \in Commits : Generation(tree, gen[c], c)
      BY <2>2, <2>3 DEF Generation
    <2> QED
      BY <1>1, <2>4 DEF Indexed
  <1> QED
    BY <1>2, <1>3 DEF Init

LEMMA IndexedStep == Typed /\ Indexed /\ [Next]_vars => Indexed'
  <1> SUFFICES ASSUME Typed, Indexed, [Next]_vars PROVE Indexed'
    OBVIOUS
  <1>1. ASSUME NEW p \in Handlers, HandlerStep(p) PROVE Indexed'
    BY <1>1, IndexedHandler
  <1>2. ASSUME NEW p \in Handlers, NEW kind \in Kinds, handle(p, kind) PROVE Indexed'
    <2>1. h' = [h EXCEPT ![p] = h'[p]] /\ h'[p].pc \notin Working /\ tree' = tree /\ gen' = gen
      BY <1>2 DEF Typed, handle, Idle, Working, Kinds
    <2> QED
      BY <2>1, PlainWork, IndexTurn DEF Indexed
  <1>3. ASSUME NEW x, crash(x) PROVE Indexed'
    <2>1. ASSUME NEW q \in Handlers PROVE Work(tree, h'[q])
      <3>1. h'[q] = h[q] \/ (h'[q] = Retried(q) /\ h[q].pc # "idle")
        BY <1>3 DEF crash
      <3> QED
        BY <3>1, RetriedPlace, PlainWork DEF Indexed, Working, Kinds
    <2> QED
      BY <1>3, <2>1 DEF Indexed, crash
  <1>4. ASSUME NEW c \in Commits, push(c) PROVE Indexed'
    BY <1>4 DEF Indexed, push
  <1>5. ASSUME NEW n \in Names, rename(n) PROVE Indexed'
    BY <1>5 DEF Indexed, rename
  <1>6. CASE buryIssues
    BY <1>6 DEF Indexed, buryIssues
  <1>7. CASE purgeSupersededIndexGenerations
    <2>1. \A c \in Commits : gen'[c] \in {gen[c], None} /\ tree' = tree /\ h' = h
      BY <1>7 DEF purgeSupersededIndexGenerations
    <2>2. \A c \in Commits : Generation(tree, gen'[c], c)
      BY <2>1 DEF Indexed, Generation
    <2> QED
      BY <1>7, <2>2 DEF Indexed, purgeSupersededIndexGenerations
  <1>8. CASE UNCHANGED vars
    BY <1>8 DEF Indexed, vars
  <1>9. CASE lockSessionLost
    BY <1>9 DEF Indexed, lockSessionLost
  <1> QED
    BY <1>1, <1>2, <1>3, <1>4, <1>5, <1>6, <1>7, <1>8, <1>9 DEF Next

-----------------------------------------------------------------------------
(* The theorems. *)

THEOREM Inductive == Spec => []IInv
  <1>1. Init => IInv
    BY InitTyped, InitLocked, InitIndexed DEF IInv
  <1>2. IInv /\ [Next]_vars => IInv'
    BY TypedStep, LockedStep, IndexedStep DEF IInv
  <1> QED
    BY <1>1, <1>2, PTL DEF Spec

(* Rows, commits and names are well formed, a handler past its upsert finds   *)
(* the row, a refresh knows its commit, and the lock and the promise map      *)
(* belong to handlers in the middle of the onboarding.                        *)
THEOREM TypeCorrect == Spec => []TypeOK
  <1>1. IInv => TypeOK
    BY DEF IInv, Typed, Locked, Issued, Place, TypeOK, Recorded, Onboarding, Promised,
           Holding, Refreshing
  <1> QED
    BY <1>1, Inductive, PTL

(* Two control planes that see the repository for the first time, a lost      *)
(* answer, a retry or a crash between the listing and the creation open one   *)
(* onboarding issue (ensureOnboardingIssue and the advisory lock), and no     *)
(* more issues than lost sessions of the lock besides.                        *)
THEOREM OneOnboardingIssueTheorem == Spec => []OneOnboardingIssue
  <1>1. Cardinality(Creators) \in Nat
    BY ValuesAssumption, FS_Subset, FS_CardinalityType DEF Creators
  <1>2. Issued => OneOnboardingIssue
    <2> HIDE DEF Creators
    <2> QED
      BY <1>1 DEF Issued, OneOnboardingIssue
  <1>3. IInv => OneOnboardingIssue
    BY <1>2 DEF IInv
  <1> QED
    BY <1>3, Inductive, PTL

(* Every published generation, and every context a review puts together from  *)
(* several queries of it, describes its own commit: refreshDefaultBranchIndex *)
(* full and incremental, replaceRepositoryIndex, applyRepositoryIndexDelta    *)
(* and the sweep keep this for any history, crash or overlap.                 *)
THEOREM IndexIsOfItsCommitTheorem == Spec => []IndexIsOfItsCommit
  <1>1. IInv => IndexIsOfItsCommit
    BY DEF IInv, Indexed, Generation, Work, OfCommit, Chosen, selected, IndexIsOfItsCommit
  <1> QED
    BY <1>1, Inductive, PTL

(* What planIncrementalRefresh decides to read again covers everything that   *)
(* changed: an incremental generation only lacks what could not be read.      *)
THEOREM IncrementalMissesNothingTheorem == Spec => []IncrementalMissesNothing
  <1>1. IInv => IncrementalMissesNothing
    BY BuiltIndexOfCommit DEF IInv, Indexed, IncrementalMissesNothing
  <1> QED
    BY <1>1, Inductive, PTL

-----------------------------------------------------------------------------
(* Monitoring. *)

SweepFields == {"pc", "stopping", "reads", "rows", "indexes", "runs", "evidence",
                "todo", "saved", "outcome", "earlier", "overtaken", "gone", "stood"}

(* What a sweep, a record and the tables look like.                        *)
SweepShape(s) ==
    /\ DOMAIN s = SweepFields
    /\ s.pc \in {"off", "idle", "list", "resolve", "each", "release"}
    /\ s.stopping \in BOOLEAN
    /\ s.reads \subseteq Queries
    /\ DOMAIN s.rows \subseteq Repos /\ DOMAIN s.runs \subseteq Repos
    /\ DOMAIN s.evidence \subseteq Repos
    /\ s.todo \subseteq Repos /\ DOMAIN s.saved \subseteq Repos
    /\ s.outcome \in {"success", "failed", "cancelled"}
    /\ s.earlier \subseteq Procs /\ s.overtaken \subseteq Repos /\ s.gone \subseteq Repos
    /\ DOMAIN s.stood = Repos

RecordShape(w) ==
    /\ DOMAIN w = RecordFields /\ w.active \in BOOLEAN
    /\ \A n \in w.runs : DOMAIN n = RunFields
    /\ \A e \in w.evidence : EvidenceRecord(e)

SweepTyped ==
    /\ sweepLock \in Procs \cup {None}
    /\ DOMAIN sweep = Procs /\ \A p \in Procs : SweepShape(sweep[p])
    /\ DOMAIN records = Repos /\ \A r \in Repos : RecordShape(records[r])
    /\ DOMAIN latest \subseteq Repos
    /\ \A r \in DOMAIN latest : latest[r].overall \in Statuses
    /\ DOMAIN alerts = Repos
    /\ lost \in BOOLEAN /\ changes \in 0..MaxChanges /\ faults \in 0..MaxFaults

(* While no session was lost, only the holder of the lock sweeps: no sweep has *)
(* an earlier one to fear, and none was overtaken.                         *)
OneSweeps ==
    ~lost => \A p \in Procs : /\ Sweeping(p) => sweepLock = p
                              /\ sweep[p].earlier = {} /\ sweep[p].overtaken = {}

(* A success that was read was on record at some moment of the sweep.      *)
RunStood(n, stood) == n.verdict = "accepted" => [id |-> n.id, sha |-> n.sha] \in stood.runs
EvidenceStood(e, stood) ==
    e.status = "success" => [key |-> e.key, run |-> e.run, digest |-> e.digest] \in stood.evidence

(* A sweep remembers what is on record now, and with it what its queries read. *)
ReadsStand ==
    \A p \in Procs :
        /\ Sweeping(p) => \A r \in Repos :
              /\ Standing(records[r]).runs \subseteq sweep[p].stood[r].runs
              /\ Standing(records[r]).evidence \subseteq sweep[p].stood[r].evidence
        /\ \A r \in DOMAIN sweep[p].runs :
             \A n \in sweep[p].runs[r] : RunStood(n, sweep[p].stood[r])
        /\ \A r \in DOMAIN sweep[p].evidence :
             \A e \in sweep[p].evidence[r] : EvidenceRecord(e) /\ EvidenceStood(e, sweep[p].stood[r])

(* A sweep that saves has saved or still has to save exactly what the      *)
(* repository query listed, and what it saved is the latest.               *)
SavedStand ==
    \A p \in Procs :
        /\ sweep[p].pc \in {"list", "resolve"} => DOMAIN sweep[p].saved = {}
        /\ sweep[p].pc = "each" =>
             /\ sweep[p].todo \cup DOMAIN sweep[p].saved = DOMAIN sweep[p].rows
             /\ sweep[p].todo \cap DOMAIN sweep[p].saved = {}
             /\ ~lost => \A r \in DOMAIN sweep[p].saved :
                            r \in DOMAIN latest /\ latest[r] = sweep[p].saved[r]

(* A repository that was away during the whole sweep is inactive; the sweep's *)
(* rows do not have it once they are read, and once the alerts of those that *)
(* left are resolved it has none.                                          *)
GoneStay ==
    \A p \in Procs : \A r \in sweep[p].gone :
        /\ Sweeping(p) => ~records[r].active
        /\ sweep[p].pc \in {"list", "resolve", "each"} /\ "repositories" \notin sweep[p].reads
              => r \notin DOMAIN sweep[p].rows
        /\ sweep[p].pc \in {"resolve", "each"} => "repositories" \notin sweep[p].reads
        /\ ~lost /\ (sweep[p].pc = "each" \/ (sweep[p].pc = "release" /\ sweep[p].outcome = "success"))
              => alerts[r] = {}

(* The inductive invariant.                                                *)
SweepInv == /\ SweepTyped /\ OneSweeps /\ ReadsStand /\ SavedStand /\ GoneStay
            /\ AlertsFollowLatestSnapshot /\ EnforcedMeansProtected

-----------------------------------------------------------------------------
LEMMA EmptyDomain == DOMAIN <<>> = {}
OBVIOUS

(* A replica that does not sweep.                                          *)
Blank(s, pc) ==
    /\ SweepShape(s) /\ s.pc = pc /\ s.outcome = "success"
    /\ DOMAIN s.rows = {} /\ DOMAIN s.runs = {} /\ DOMAIN s.evidence = {} /\ DOMAIN s.saved = {}
    /\ s.earlier = {} /\ s.overtaken = {} /\ s.gone = {}

LEMMA NoSweepShape == Blank(NoSweep, "off") /\ Blank([NoSweep EXCEPT !.pc = "idle"], "idle")
BY EmptyDomain DEF NoSweep, SweepShape, SweepFields, Blank

LEMMA SweepBounds ==
  ASSUME MonitoringAssumption
  PROVE  MaxChanges \in Nat /\ MaxFaults \in Nat
BY MonitoringAssumption

LEMMA Overall == ASSUME NEW item PROVE toPersistedSnapshot(item).overall \in Statuses
BY DEF toPersistedSnapshot, evaluateInventoryItem, worstMonitoringStatus, Statuses

(* Among any ages there is a smallest.                                     *)
LEMMA LeastOf ==
  ASSUME NEW S \in SUBSET Nat, S # {}
  PROVE  \E i \in S : \A j \in S : i <= j
<1> DEFINE R == OpToRel(<, Nat)
<1>1. IsWellFoundedOn(R, Nat)
  BY NatLessThanWellFounded
<1>2. \A x, y \in Nat : x < y => <<x, y>> \in R
  BY DEF OpToRel
<1> HIDE DEF R
<1>3. \E x \in S : \A y \in S : <<y, x>> \notin R
  BY <1>1, WFMin
<1>4. \A x, y \in Nat : ~(x < y) => y <= x
  OBVIOUS
<1> QED BY <1>2, <1>3, <1>4

(* No replica sweeps at first, and nothing was saved.                      *)
LEMMA SweepInitially ==
  ASSUME MonitoringAssumption
  PROVE  SweepInit => SweepInv
<1> SUFFICES ASSUME SweepInit PROVE SweepInv
  OBVIOUS
<1>1. DOMAIN sweep = Procs /\ \A p \in Procs : Blank(sweep[p], "idle")
  BY NoSweepShape, Zenon DEF SweepInit
<1>2. SweepTyped
  <2>1. DOMAIN records = Repos /\ \A r \in Repos : RecordShape(records[r])
    BY MonitoringAssumption DEF SweepInit, RecordShape
  <2>2. DOMAIN sweep = Procs /\ \A p \in Procs : SweepShape(sweep[p])
    BY <1>1 DEF Blank
  <2> QED
    <3>1. sweepLock = None /\ latest = <<>> /\ lost = FALSE /\ changes = 0 /\ faults = 0
      BY Zenon DEF SweepInit
    <3>2. DOMAIN alerts = Repos
      BY DEF SweepInit
    <3>3. DOMAIN latest = {} /\ 0 \in 0 .. MaxChanges /\ 0 \in 0 .. MaxFaults
      BY <3>1, EmptyDomain, SweepBounds
    <3>4. sweepLock = None /\ lost = FALSE /\ changes = 0 /\ faults = 0
      BY <3>1
    <3> QED BY <2>1, <2>2, <3>2, <3>3, <3>4 DEF SweepTyped
<1>3. OneSweeps /\ ReadsStand /\ SavedStand /\ GoneStay
  BY <1>1, <1>2 DEF SweepInit, OneSweeps, ReadsStand, SavedStand, GoneStay, Sweeping, Blank
<1>4. AlertsFollowLatestSnapshot /\ EnforcedMeansProtected
  BY <1>1, EmptyDomain DEF SweepInit, AlertsFollowLatestSnapshot, EnforcedMeansProtected, Blank
<1> QED BY <1>2, <1>3, <1>4 DEF SweepInv

-----------------------------------------------------------------------------
(* Every step keeps the shapes. *)

RestTyped ==
    /\ sweepLock \in Procs \cup {None}
    /\ DOMAIN records = Repos /\ \A r \in Repos : RecordShape(records[r])
    /\ DOMAIN latest \subseteq Repos
    /\ \A r \in DOMAIN latest : latest[r].overall \in Statuses
    /\ DOMAIN alerts = Repos
    /\ lost \in BOOLEAN /\ changes \in 0..MaxChanges /\ faults \in 0..MaxFaults
SweepsTyped == DOMAIN sweep = Procs /\ \A p \in Procs : SweepShape(sweep[p])

LEMMA TypedParts == /\ SweepTyped <=> RestTyped /\ SweepsTyped
                    /\ SweepTyped' <=> RestTyped' /\ SweepsTyped'
BY DEF SweepTyped, RestTyped, SweepsTyped

LEMMA OneSweepMoves ==
  ASSUME SweepsTyped, NEW p \in Procs, NEW s, SweepShape(s), sweep' = [sweep EXCEPT ![p] = s]
  PROVE  SweepsTyped'
BY DEF SweepsTyped

LEMMA KeepsShape ==
  ASSUME NEW s, SweepShape(s)
  PROVE  /\ \A x \in BOOLEAN : SweepShape([s EXCEPT !.stopping = x])
         /\ \A x \in {"failed", "cancelled"} : SweepShape([s EXCEPT !.pc = "release", !.outcome = x])
         /\ SweepShape([s EXCEPT !.pc = "release"])
         /\ SweepShape([s EXCEPT !.pc = "each", !.todo = DOMAIN s.rows])
         /\ \A x \in Procs : SweepShape([s EXCEPT !.earlier = @ \ {x}])
         /\ \A r \in Repos : /\ SweepShape([s EXCEPT !.overtaken = @ \cup {r}])
                             /\ SweepShape([s EXCEPT !.gone = @ \ {r}])
                             /\ \A w : SweepShape([s EXCEPT !.stood[r] = StandsToo(@, w)])
BY DEF SweepShape, SweepFields

LEMMA RestKept ==
  ASSUME RestTyped, UNCHANGED <<records, sweepLock, latest, lost, changes, faults>>, DOMAIN alerts' = Repos
  PROVE  RestTyped'
BY DEF RestTyped

(* The repository a sweep goes on with is one it still has to save.        *)
LEMMA NextIsTodo ==
  ASSUME MonitoringAssumption, SweepsTyped, NEW p \in Procs, sweep[p].todo # {}
  PROVE  NextRepository(p) \in sweep[p].todo /\ NextRepository(p) \in Repos
<1>1. sweep[p].todo \in SUBSET Repos
  BY DEF SweepsTyped, SweepShape
<1>2. sweep[p].todo \in SUBSET Nat
  BY <1>1, MonitoringAssumption
<1>3. \E x \in sweep[p].todo : \A y \in sweep[p].todo : x <= y
  BY <1>2, LeastOf
<1> QED BY <1>1, <1>3 DEF NextRepository

(* One of the four queries of the inventory, from sweep s to sweep t.      *)
Read(q, s, t) ==
    /\ SweepShape(t)
    /\ t.stopping = s.stopping /\ t.todo = s.todo /\ t.saved = s.saved /\ t.outcome = s.outcome
    /\ t.earlier = s.earlier /\ t.overtaken = s.overtaken /\ t.gone = s.gone /\ t.stood = s.stood
    /\ t.reads = s.reads \ {q}
    /\ t.pc = IF t.reads = {} THEN "resolve" ELSE "list"
    /\ IF q = "repositories" THEN DOMAIN t.rows = ActiveRepos ELSE t.rows = s.rows
    /\ IF q = "runs" THEN t.runs = [r \in ActiveRepos |-> records[r].runs] ELSE t.runs = s.runs
    /\ IF q = "evidence" THEN t.evidence = [r \in ActiveRepos |-> latestScannerEvidence(records[r])]
       ELSE t.evidence = s.evidence

LEMMA ListEffect ==
  ASSUME SweepsTyped, NEW p \in Procs, listMonitoringRepositoryInventory(p)
  PROVE  /\ sweep[p].pc = "list"
         /\ UNCHANGED <<records, sweepLock, latest, alerts, report, lost, changes, faults>>
         /\ \E q \in sweep[p].reads : \E t : Read(q, sweep[p], t) /\ sweep' = [sweep EXCEPT ![p] = t]
<1> DEFINE s == sweep[p]
<1>1. SweepShape(s)
  BY DEF SweepsTyped
<1>2. s.pc = "list" /\ UNCHANGED <<records, sweepLock, latest, alerts, report, lost, changes, faults>>
  BY DEF listMonitoringRepositoryInventory, Keep
<1>3. PICK q \in s.reads :
         LET rest == s.reads \ {q}
             read == [s EXCEPT !.reads = rest,
                               !.pc = IF rest = {} THEN "resolve" ELSE "list"]
         IN  \/ /\ q = "repositories"
                /\ sweep' = [sweep EXCEPT ![p] =
                      [read EXCEPT !.rows = [r \in ActiveRepos |-> RowOf(records[r])]]]
             \/ /\ q = "indexes"
                /\ sweep' = [sweep EXCEPT ![p] =
                      [read EXCEPT !.indexes = [r \in ActiveRepos |-> IndexOf(records[r])]]]
             \/ /\ q = "runs"
                /\ sweep' = [sweep EXCEPT ![p] =
                      [read EXCEPT !.runs = [r \in ActiveRepos |-> records[r].runs]]]
             \/ /\ q = "evidence"
                /\ sweep' = [sweep EXCEPT ![p] =
                      [read EXCEPT !.evidence = [r \in ActiveRepos |-> latestScannerEvidence(records[r])]]]
  BY Zenon DEF listMonitoringRepositoryInventory, Keep
<1> DEFINE rest == s.reads \ {q}
           read == [s EXCEPT !.reads = rest,
                             !.pc = IF rest = {} THEN "resolve" ELSE "list"]
<1>4. ActiveRepos \subseteq Repos
  BY DEF ActiveRepos
<1>5. Read(q, s, [read EXCEPT !.rows = [r \in ActiveRepos |-> RowOf(records[r])]])
        \/ q # "repositories"
  BY <1>1, <1>4 DEF Read, SweepShape, SweepFields
<1>6. Read(q, s, [read EXCEPT !.indexes = [r \in ActiveRepos |-> IndexOf(records[r])]])
        \/ q # "indexes"
  BY <1>1, <1>4 DEF Read, SweepShape, SweepFields
<1>7. Read(q, s, [read EXCEPT !.runs = [r \in ActiveRepos |-> records[r].runs]])
        \/ q # "runs"
  BY <1>1, <1>4 DEF Read, SweepShape, SweepFields
<1>8. Read(q, s, [read EXCEPT !.evidence = [r \in ActiveRepos |-> latestScannerEvidence(records[r])]])
        \/ q # "evidence"
  BY <1>1, <1>4 DEF Read, SweepShape, SweepFields
<1> HIDE DEF s
<1>9. \E t : Read(q, s, t) /\ sweep' = [sweep EXCEPT ![p] = t]
  BY <1>3, <1>5, <1>6, <1>7, <1>8, Zenon
<1> QED BY <1>2, <1>9 DEF s

(* One snapshot is saved, from sweep s to sweep t.                         *)
Saved(s, r, snapshot, t) ==
    /\ SweepShape(t)
    /\ t.pc = s.pc /\ t.stopping = s.stopping /\ t.reads = s.reads /\ t.rows = s.rows
    /\ t.runs = s.runs /\ t.evidence = s.evidence /\ t.outcome = s.outcome
    /\ t.earlier = s.earlier /\ t.overtaken = s.overtaken /\ t.gone = s.gone /\ t.stood = s.stood
    /\ t.todo = s.todo \ {r} /\ t.saved = Put(s.saved, r, snapshot)

SavesAs(p, t, r, snapshot) ==
    /\ sweep[p].pc = "each" /\ sweep[p].todo # {}
    /\ r \in sweep[p].todo /\ r \in Repos /\ r = NextRepository(p)
    /\ snapshot = toPersistedSnapshot(InventoryItem(p, r))
    /\ Saved(sweep[p], r, snapshot, t)
    /\ alerts' = [alerts EXCEPT ![r] = activeAlertsFor(snapshot.checks)]
    /\ \/ r \in sweep[p].overtaken /\ latest' = latest
       \/ latest' = Put(latest, r, snapshot)
    /\ sweep' = [q \in Procs |->
            IF q = p THEN t
            ELSE IF q \in sweep[p].earlier THEN [sweep[q] EXCEPT !.overtaken = @ \cup {r}]
            ELSE sweep[q]]
    /\ UNCHANGED <<records, sweepLock, lost, report, changes, faults>>

LEMMA SaveEffect ==
  ASSUME MonitoringAssumption, SweepsTyped, NEW p \in Procs, saveMonitoringSnapshot(p)
  PROVE  \E t, r, snapshot : SavesAs(p, t, r, snapshot)
<1> DEFINE s == sweep[p]
           r == NextRepository(p)
           snapshot == toPersistedSnapshot(InventoryItem(p, r))
           t == [s EXCEPT !.todo = @ \ {r}, !.saved = Put(@, r, snapshot)]
<1>1. SweepShape(s)
  BY DEF SweepsTyped
<1>2. /\ s.pc = "each" /\ s.todo # {} /\ ~s.stopping
      /\ UNCHANGED <<records, sweepLock, lost, report, changes, faults>>
  BY DEF saveMonitoringSnapshot
<1>3. r \in s.todo /\ r \in Repos
  BY <1>2, NextIsTodo
<1>4. /\ alerts' = [alerts EXCEPT ![r] = activeAlertsFor(snapshot.checks)]
      /\ \/ r \in s.overtaken /\ latest' = latest
         \/ latest' = Put(latest, r, snapshot)
      /\ sweep' = [q \in Procs |->
              IF q = p THEN t
              ELSE IF q \in s.earlier THEN [sweep[q] EXCEPT !.overtaken = @ \cup {r}]
              ELSE sweep[q]]
  BY Zenon DEF saveMonitoringSnapshot
<1> HIDE DEF r, snapshot
<1>5. Saved(s, r, snapshot, t)
  BY <1>1, <1>3 DEF Saved, SweepShape, SweepFields, Put
<1> HIDE DEF t
<1> QED BY <1>2, <1>3, <1>4, <1>5, Zenon DEF r, snapshot, SavesAs

(* A step of a replica keeps the shape of the sweeps, and of the tables.   *)
LEMMA SweepsTypedReplica ==
  ASSUME MonitoringAssumption, SweepsTyped, NEW p \in Procs, Step(p) \/ stop(p) \/ sweepFails(p) \/ replicaCrash(p)
  PROVE  SweepsTyped'
<1>0. SweepShape(sweep[p])
  BY DEF SweepsTyped
<1>1. CASE start(p)
  <2> DEFINE s == [NoSweep EXCEPT !.pc = "idle"]
  <2>1. SweepShape(s)
    BY NoSweepShape, Zenon DEF Blank
  <2>2. sweep' = [sweep EXCEPT ![p] = s]
    BY <1>1, Zenon DEF start
  <2> HIDE DEF s
  <2> QED BY <2>1, <2>2, OneSweepMoves
<1>2. CASE acquireMonitoringLock(p)
  <2> DEFINE s == [NoSweep EXCEPT !.pc = "list", !.reads = Queries,
                                   !.earlier = {x \in Procs \ {p} : Sweeping(x)},
                                   !.gone = Repos \ ActiveRepos,
                                   !.stood = [r \in Repos |-> Standing(records[r])]]
  <2>1. SweepShape(s)
    BY EmptyDomain DEF NoSweep, SweepShape, SweepFields, Queries
  <2>2. sweep' = [q \in Procs |-> IF q = p THEN s ELSE [sweep[q] EXCEPT !.earlier = @ \ {p}]]
    BY <1>2, Zenon DEF acquireMonitoringLock
  <2> HIDE DEF s
  <2> QED BY <2>1, <2>2, KeepsShape DEF SweepsTyped
<1>3. CASE listMonitoringRepositoryInventory(p)
  <2>1. \E t : SweepShape(t) /\ sweep' = [sweep EXCEPT ![p] = t]
    BY <1>3, ListEffect, Zenon DEF Read
  <2> QED BY <2>1, OneSweepMoves
<1>4. CASE resolveMonitoringAlertsForInactiveRepositories(p)
  <2> DEFINE s == [sweep[p] EXCEPT !.pc = "each", !.todo = DOMAIN sweep[p].rows]
  <2>1. SweepShape(s)
    BY <1>0, KeepsShape
  <2>2. sweep' = [sweep EXCEPT ![p] = s]
    BY <1>4, Zenon DEF resolveMonitoringAlertsForInactiveRepositories, Keep
  <2> HIDE DEF s
  <2> QED BY <2>1, <2>2, OneSweepMoves
<1>5. CASE saveMonitoringSnapshot(p)
  <2>1. PICK t, r, snapshot : SavesAs(p, t, r, snapshot)
    BY <1>5, SaveEffect, Zenon
  <2>2. SweepShape(t) /\ \A q \in Procs : SweepShape([sweep[q] EXCEPT !.overtaken = @ \cup {r}])
    BY <2>1, KeepsShape DEF SweepsTyped, Saved, SavesAs
  <2>3. sweep' = [q \in Procs |->
                   IF q = p THEN t
                   ELSE IF q \in sweep[p].earlier THEN [sweep[q] EXCEPT !.overtaken = @ \cup {r}]
                   ELSE sweep[q]]
    BY <2>1 DEF SavesAs
  <2> QED BY <2>2, <2>3 DEF SweepsTyped
<1>6. CASE throwIfMonitoringAborted(p)
  BY <1>0, <1>6, KeepsShape, OneSweepMoves, Zenon DEF throwIfMonitoringAborted, Keep
<1>7. CASE saveMonitoringWeeklyReport(p)
  <2> DEFINE s == [sweep[p] EXCEPT !.pc = "release"]
  <2>1. SweepShape(s)
    BY <1>0, KeepsShape
  <2>2. sweep' = [sweep EXCEPT ![p] = s]
    BY <1>7, Zenon DEF saveMonitoringWeeklyReport, Keep
  <2> HIDE DEF s
  <2> QED BY <2>1, <2>2, OneSweepMoves
<1>8. CASE finishSweep(p)
  <2> DEFINE s == [NoSweep EXCEPT !.pc = IF sweep[p].stopping THEN "off" ELSE "idle"]
  <2>1. SweepShape(s)
    BY EmptyDomain DEF NoSweep, SweepShape, SweepFields, Queries
  <2>2. sweep' = [q \in Procs |-> IF q = p THEN s ELSE [sweep[q] EXCEPT !.earlier = @ \ {p}]]
    BY <1>8, Zenon DEF finishSweep
  <2> HIDE DEF s
  <2> QED BY <2>1, <2>2, KeepsShape DEF SweepsTyped
<1>9. CASE stop(p)
  <2>1. SweepShape(NoSweep) /\ SweepShape([sweep[p] EXCEPT !.stopping = TRUE])
    BY <1>0, KeepsShape, NoSweepShape DEF Blank
  <2>2. sweep' = [sweep EXCEPT ![p] = IF Sweeping(p) THEN [sweep[p] EXCEPT !.stopping = TRUE]
                                      ELSE NoSweep]
    BY <1>9, Zenon DEF stop
  <2> QED BY <2>1, <2>2, OneSweepMoves DEF SweepsTyped
<1>10. CASE sweepFails(p)
  <2> DEFINE s == [sweep[p] EXCEPT !.pc = "release", !.outcome = "failed"]
  <2>1. SweepShape(s)
    BY <1>0, KeepsShape
  <2>2. sweep' = [sweep EXCEPT ![p] = s]
    BY <1>10 DEF sweepFails, SweepsTyped
  <2> HIDE DEF s
  <2> QED BY <2>1, <2>2, OneSweepMoves
<1>11. CASE replicaCrash(p)
  <2>1. SweepShape(NoSweep) /\ \A q \in Procs : SweepShape([sweep[q] EXCEPT !.earlier = @ \ {p}])
    BY KeepsShape, NoSweepShape DEF Blank, SweepsTyped
  <2>2. sweep' = [q \in Procs |-> IF q = p THEN NoSweep ELSE [sweep[q] EXCEPT !.earlier = @ \ {p}]]
    BY <1>11, Zenon DEF replicaCrash
  <2> QED BY <2>1, <2>2 DEF SweepsTyped
<1> QED BY <1>1, <1>2, <1>3, <1>4, <1>5, <1>6, <1>7, <1>8, <1>9, <1>10, <1>11 DEF Step

LEMMA RestTypedReplica ==
  ASSUME MonitoringAssumption, RestTyped, SweepsTyped, NEW p \in Procs, Step(p) \/ stop(p) \/ sweepFails(p) \/ replicaCrash(p)
  PROVE  RestTyped'
<1>1. CASE start(p)
  BY <1>1, RestKept DEF start, RestTyped
<1>2. CASE acquireMonitoringLock(p)
  BY <1>2 DEF acquireMonitoringLock, RestTyped
<1>3. CASE listMonitoringRepositoryInventory(p)
  <2>1. UNCHANGED <<records, sweepLock, latest, lost, changes, faults, alerts>>
    BY <1>3 DEF listMonitoringRepositoryInventory, Keep
  <2> QED BY <2>1, RestKept DEF RestTyped
<1>4. CASE resolveMonitoringAlertsForInactiveRepositories(p)
  BY <1>4, RestKept DEF resolveMonitoringAlertsForInactiveRepositories, Keep, ResolvedAlerts
<1>5. CASE saveMonitoringSnapshot(p)
  <2>1. PICK t, r, snapshot : SavesAs(p, t, r, snapshot)
    BY <1>5, SaveEffect, Zenon
  <2>2. snapshot.overall \in Statuses
    BY <2>1, Overall DEF SavesAs
  <2> QED BY <2>1, <2>2 DEF SavesAs, RestTyped, Put
<1>6. CASE throwIfMonitoringAborted(p)
  BY <1>6, RestKept DEF throwIfMonitoringAborted, Keep, RestTyped
<1>7. CASE saveMonitoringWeeklyReport(p)
  BY <1>7, RestKept DEF saveMonitoringWeeklyReport, Keep, RestTyped
<1>8. CASE finishSweep(p)
  BY <1>8 DEF finishSweep, RestTyped
<1>9. CASE stop(p)
  BY <1>9, SweepBounds DEF stop, Fault, RestTyped
<1>10. CASE sweepFails(p)
  BY <1>10, SweepBounds DEF sweepFails, Fault, RestTyped
<1>11. CASE replicaCrash(p)
  BY <1>11, SweepBounds DEF replicaCrash, Fault, RestTyped
<1> QED BY <1>1, <1>2, <1>3, <1>4, <1>5, <1>6, <1>7, <1>8, <1>9, <1>10, <1>11 DEF Step

LEMMA RecordKept ==
  ASSUME NEW w, RecordShape(w)
  PROVE  /\ RecordShape([w EXCEPT !.active = ~@])
         /\ \A x : RecordShape([w EXCEPT !.indexAge = x, !.runs = Older(@), !.evidence = Older(@)])
<1>1. \A n \in Older(w.runs) : DOMAIN n = RunFields
  BY DEF RecordShape, Older
<1>2. \A e \in Older(w.evidence) : EvidenceRecord(e)
  BY DEF RecordShape, Older, EvidenceRecord
<1> QED BY <1>1, <1>2 DEF RecordShape, RecordFields

(* A change of the records, and the end of a session, keep the shapes.     *)
LEMMA RestTypedChange ==
  ASSUME MonitoringAssumption, RestTyped,
         \/ sessionLost \/ timePasses
         \/ \E r \in Repos : \/ indexPublished(r) \/ upsertScannerWorkflowRun(r)
                            \/ upsertScannerEvidence(r) \/ repositoryStateChanges(r)
  PROVE  RestTyped'
<1>1. CASE sessionLost
  BY <1>1, SweepBounds DEF sessionLost, Fault, RestTyped
<1>2. ASSUME changes < MaxChanges, changes' = changes + 1,
             UNCHANGED <<sweepLock, latest, alerts, lost, faults>>,
             DOMAIN records' = Repos, \A r \in Repos : RecordShape(records'[r])
      PROVE  RestTyped'
  BY <1>2, SweepBounds DEF RestTyped
<1>3. CASE timePasses
  <2> DEFINE New(w) == [w EXCEPT !.indexAge = IF @ = None THEN None ELSE @ + 1,
                                 !.runs = Older(@), !.evidence = Older(@)]
  <2>1. records' = [r \in Repos |-> New(records[r])]
    BY <1>3, Zenon DEF timePasses
  <2>2. DOMAIN records' = Repos /\ \A r \in Repos : RecordShape(records'[r])
    BY <2>1, RecordKept DEF RestTyped
  <2> QED BY <1>2, <1>3, <2>2 DEF timePasses
<1>4. ASSUME NEW r \in Repos, NEW w, RecordShape(w), Change(r, w) PROVE RestTyped'
  <2>1. DOMAIN records' = Repos /\ \A x \in Repos : RecordShape(records'[x])
    BY <1>4 DEF Change, RestTyped
  <2> QED BY <1>2, <1>4, <2>1 DEF Change
<1>5. ASSUME NEW r \in Repos, indexPublished(r) PROVE RestTyped'
  BY <1>4, <1>5 DEF indexPublished, RestTyped, RecordShape, RecordFields
<1>6. ASSUME NEW r \in Repos, upsertScannerWorkflowRun(r) PROVE RestTyped'
  <2>1. CASE \E n \in Runs[r] : Change(r, [records[r] EXCEPT !.runs = @ \cup {n}])
    <3>1. PICK n \in Runs[r] : Change(r, [records[r] EXCEPT !.runs = @ \cup {n}])
      BY <2>1
    <3>2. RecordShape([records[r] EXCEPT !.runs = @ \cup {n}])
      BY <1>6, MonitoringAssumption DEF RestTyped, RecordShape, RecordFields
    <3> QED BY <1>4, <1>6, <3>1, <3>2, Zenon
  <2>2. CASE \E x \in records[r].runs, v \in Verdicts :
               Change(r, [records[r] EXCEPT !.runs = (@ \ {x}) \cup {[x EXCEPT !.verdict = v]}])
    <3>1. PICK x \in records[r].runs, v \in Verdicts :
             Change(r, [records[r] EXCEPT !.runs = (@ \ {x}) \cup {[x EXCEPT !.verdict = v]}])
      BY <2>2
    <3>2. RecordShape([records[r] EXCEPT !.runs = (@ \ {x}) \cup {[x EXCEPT !.verdict = v]}])
      BY <1>6 DEF RestTyped, RecordShape, RecordFields
    <3> QED BY <1>4, <1>6, <3>1, <3>2, Zenon
  <2> QED BY <1>6, <2>1, <2>2, Zenon DEF upsertScannerWorkflowRun
<1>7. ASSUME NEW r \in Repos, upsertScannerEvidence(r) PROVE RestTyped'
  <2>1. PICK e \in Evidence[r] :
           Change(r, [records[r] EXCEPT !.evidence = {x \in @ : ~(x.key = e.key /\ x.run = e.run)} \cup {e}])
    BY <1>7, Zenon DEF upsertScannerEvidence
  <2>2. RecordShape([records[r] EXCEPT !.evidence = {x \in @ : ~(x.key = e.key /\ x.run = e.run)} \cup {e}])
    BY <1>7, MonitoringAssumption DEF RestTyped, RecordShape, RecordFields
  <2> QED BY <1>4, <1>7, <2>1, <2>2, Zenon
<1>8. ASSUME NEW r \in Repos, repositoryStateChanges(r) PROVE RestTyped'
  <2>1. DOMAIN records' = Repos /\ \A x \in Repos : RecordShape(records'[x])
    BY <1>8, RecordKept DEF repositoryStateChanges, RestTyped
  <2> QED BY <1>2, <1>8, <2>1 DEF repositoryStateChanges
<1> QED BY <1>1, <1>3, <1>5, <1>6, <1>7, <1>8

LEMMA SweepTypedStep ==
  ASSUME MonitoringAssumption
  PROVE  SweepTyped /\ [SweepNext]_sweepVars => SweepTyped'
<1> SUFFICES ASSUME SweepTyped, [SweepNext]_sweepVars PROVE SweepTyped'
  OBVIOUS
<1> USE TypedParts
<1>1. CASE UNCHANGED sweepVars
  BY <1>1 DEF sweepVars, SweepTyped, SweepShape, RecordShape
<1>2. CASE \E p \in Procs : Step(p) \/ stop(p) \/ sweepFails(p) \/ replicaCrash(p)
  BY <1>2, SweepsTypedReplica, RestTypedReplica
<1>3. CASE sessionLost
  BY <1>3, RestTypedChange DEF sessionLost, SweepsTyped
<1>4. CASE timePasses
  BY <1>4, RestTypedChange DEF timePasses, SweepsTyped
<1>5. ASSUME NEW r \in Repos, \/ indexPublished(r) \/ upsertScannerWorkflowRun(r)
                              \/ upsertScannerEvidence(r) \/ repositoryStateChanges(r)
      PROVE  SweepTyped'
  <2>1. RestTyped'
    BY <1>5, RestTypedChange
  <2>2. ASSUME \E w : Change(r, w) PROVE SweepsTyped'
    <3>1. PICK w : sweep' = [p \in Procs |-> IF Sweeping(p)
                                 THEN [sweep[p] EXCEPT !.stood[r] = StandsToo(@, w)]
                                 ELSE sweep[p]]
      BY <2>2, Zenon DEF Change
    <3>2. \A p \in Procs : SweepShape(sweep[p]) /\ SweepShape([sweep[p] EXCEPT !.stood[r] = StandsToo(@, w)])
      BY KeepsShape DEF SweepsTyped
    <3> QED BY <3>1, <3>2 DEF SweepsTyped
  <2>3. ASSUME sweep' = [p \in Procs |-> [sweep[p] EXCEPT !.gone = @ \ {r}]] PROVE SweepsTyped'
    <3>1. \A p \in Procs : SweepShape([sweep[p] EXCEPT !.gone = @ \ {r}])
      BY KeepsShape DEF SweepsTyped
    <3> QED BY <2>3, <3>1 DEF SweepsTyped
  <2>4. SweepsTyped'
    BY <1>5, <2>2, <2>3, Zenon
       DEF indexPublished, upsertScannerWorkflowRun, upsertScannerEvidence, repositoryStateChanges
  <2> QED BY <2>1, <2>4
<1> QED BY <1>1, <1>2, <1>3, <1>4, <1>5 DEF SweepNext

-----------------------------------------------------------------------------
(* What a step of a replica does, as the invariants see it. *)

LeftAlone(q, p) ==
    LET s == sweep[q]
        t == sweep'[q]
    IN  /\ t.pc = s.pc /\ t.stopping = s.stopping /\ t.reads = s.reads /\ t.rows = s.rows
        /\ t.runs = s.runs /\ t.evidence = s.evidence /\ t.todo = s.todo /\ t.saved = s.saved
        /\ t.outcome = s.outcome /\ t.gone = s.gone /\ t.stood = s.stood /\ t.earlier \subseteq s.earlier
        /\ t.overtaken = s.overtaken \/ q \in sweep[p].earlier

Clears(p) ==
    /\ Blank(sweep'[p], "off") \/ Blank(sweep'[p], "idle")
    /\ UNCHANGED <<records, latest, alerts, report, lost>>
    /\ \/ ~Sweeping(p) /\ sweepLock' = sweepLock
       \/ sweepLock' = IF sweepLock = p THEN None ELSE sweepLock

Begins(p) ==
    /\ sweepLock = None /\ sweepLock' = p
    /\ LET t == sweep'[p] IN
       /\ t.pc = "list" /\ t.reads = Queries /\ t.outcome = "success"
       /\ DOMAIN t.rows = {} /\ DOMAIN t.runs = {} /\ DOMAIN t.evidence = {} /\ DOMAIN t.saved = {}
       /\ t.earlier = {x \in Procs \ {p} : Sweeping(x)} /\ t.overtaken = {}
       /\ t.gone = Repos \ ActiveRepos
       /\ t.stood = [r \in Repos |-> Standing(records[r])]
    /\ UNCHANGED <<records, latest, alerts, report, lost>>

Reads(p) ==
    /\ sweep[p].pc = "list"
    /\ UNCHANGED <<records, sweepLock, latest, alerts, report, lost>>
    /\ \E q \in sweep[p].reads : Read(q, sweep[p], sweep'[p])

Resolves(p) ==
    LET s == sweep[p]
        t == sweep'[p]
    IN  /\ s.pc = "resolve" /\ t.pc = "each" /\ t.todo = DOMAIN s.rows
        /\ t.reads = s.reads /\ t.rows = s.rows /\ t.runs = s.runs /\ t.evidence = s.evidence
        /\ t.saved = s.saved /\ t.outcome = s.outcome /\ t.gone = s.gone /\ t.stood = s.stood
        /\ t.earlier = s.earlier /\ t.overtaken = s.overtaken
        /\ alerts' = ResolvedAlerts
        /\ UNCHANGED <<records, sweepLock, latest, report, lost>>

Saves(p) ==
    \E r, snapshot :
       /\ sweep[p].pc = "each"
       /\ r \in sweep[p].todo /\ r \in Repos
       /\ snapshot = toPersistedSnapshot(InventoryItem(p, r))
       /\ Saved(sweep[p], r, snapshot, sweep'[p])
       /\ alerts' = [alerts EXCEPT ![r] = activeAlertsFor(snapshot.checks)]
       /\ \/ r \in sweep[p].overtaken /\ latest' = latest
          \/ latest' = Put(latest, r, snapshot)
       /\ UNCHANGED <<records, sweepLock, report, lost>>

Ends(p) ==
    LET s == sweep[p]
        t == sweep'[p]
    IN  /\ s.pc \in {"list", "resolve", "each"} /\ t.pc = "release"
        /\ t.reads = s.reads /\ t.rows = s.rows /\ t.runs = s.runs /\ t.evidence = s.evidence
        /\ t.saved = s.saved /\ t.gone = s.gone /\ t.stood = s.stood
        /\ t.earlier = s.earlier /\ t.overtaken = s.overtaken
        /\ \/ t.outcome \in {"cancelled", "failed"} /\ report' = report
           \/ /\ s.pc = "each" /\ s.todo = {} /\ t.outcome = s.outcome
              /\ report' \in {report, buildWeeklyCoverageReport(s.saved)}
        /\ UNCHANGED <<records, sweepLock, latest, alerts, lost>>

Marked(p) ==
    LET s == sweep[p]
        t == sweep'[p]
    IN  /\ Sweeping(p) /\ t.pc = s.pc
        /\ t.reads = s.reads /\ t.rows = s.rows /\ t.runs = s.runs /\ t.evidence = s.evidence
        /\ t.todo = s.todo /\ t.saved = s.saved /\ t.gone = s.gone /\ t.outcome = s.outcome
        /\ t.stood = s.stood
        /\ t.earlier = s.earlier /\ t.overtaken = s.overtaken
        /\ UNCHANGED <<records, sweepLock, latest, alerts, report, lost>>

LEMMA AsideOthers ==
  ASSUME MonitoringAssumption, SweepsTyped, NEW p \in Procs, Step(p) \/ stop(p) \/ sweepFails(p) \/ replicaCrash(p)
  PROVE  \A q \in Procs \ {p} : LeftAlone(q, p)
<1>1. ASSUME NEW s, sweep' = [sweep EXCEPT ![p] = s]
      PROVE  \A q \in Procs \ {p} : LeftAlone(q, p)
  BY <1>1 DEF LeftAlone, SweepsTyped
<1>2. ASSUME NEW s, sweep' = [q \in Procs |-> IF q = p THEN s ELSE [sweep[q] EXCEPT !.earlier = @ \ {p}]]
      PROVE  \A q \in Procs \ {p} : LeftAlone(q, p)
  BY <1>2 DEF LeftAlone, SweepsTyped, SweepShape, SweepFields
<1>3. ASSUME NEW s, NEW r, sweep' = [q \in Procs |->
                   IF q = p THEN s
                   ELSE IF q \in sweep[p].earlier THEN [sweep[q] EXCEPT !.overtaken = @ \cup {r}]
                   ELSE sweep[q]]
      PROVE  \A q \in Procs \ {p} : LeftAlone(q, p)
  BY <1>3 DEF LeftAlone, SweepsTyped, SweepShape, SweepFields
<1>4. CASE start(p) \/ stop(p)
  BY <1>1, <1>4, Zenon DEF start, stop
<1>5. CASE acquireMonitoringLock(p) \/ finishSweep(p) \/ replicaCrash(p)
  BY <1>2, <1>5, Zenon DEF acquireMonitoringLock, finishSweep, replicaCrash
<1>6. CASE listMonitoringRepositoryInventory(p)
  BY <1>1, <1>6, ListEffect, Zenon
<1>7. CASE resolveMonitoringAlertsForInactiveRepositories(p) \/ throwIfMonitoringAborted(p)
             \/ saveMonitoringWeeklyReport(p)
  BY <1>1, <1>7, Zenon DEF resolveMonitoringAlertsForInactiveRepositories, throwIfMonitoringAborted,
                           saveMonitoringWeeklyReport, Keep
<1>8. CASE saveMonitoringSnapshot(p)
  <2>1. PICK t, r, snapshot : SavesAs(p, t, r, snapshot)
    BY <1>8, SaveEffect, Zenon
  <2>2. sweep' = [q \in Procs |->
                   IF q = p THEN t
                   ELSE IF q \in sweep[p].earlier THEN [sweep[q] EXCEPT !.overtaken = @ \cup {r}]
                   ELSE sweep[q]]
    BY <2>1 DEF SavesAs
  <2> QED BY <1>3, <2>2, Zenon
<1>9. CASE sweepFails(p)
  <2>1. sweep' = [sweep EXCEPT ![p] = [sweep[p] EXCEPT !.pc = "release", !.outcome = "failed"]]
    BY <1>9 DEF sweepFails, SweepsTyped
  <2> QED BY <1>1, <2>1, Zenon
<1> QED BY <1>4, <1>5, <1>6, <1>7, <1>8, <1>9 DEF Step

LEMMA ReplicaView ==
  ASSUME MonitoringAssumption, SweepsTyped, NEW p \in Procs, Step(p) \/ stop(p) \/ sweepFails(p) \/ replicaCrash(p)
  PROVE  \/ Clears(p) \/ Begins(p) \/ Reads(p) \/ Resolves(p) \/ Saves(p) \/ Ends(p) \/ Marked(p)
<1>0. SweepShape(sweep[p]) /\ DOMAIN sweep = Procs
  BY DEF SweepsTyped
<1>1. CASE start(p)
  <2>1. sweep'[p] = [NoSweep EXCEPT !.pc = "idle"]
    BY <1>0, <1>1, Zenon DEF start
  <2> QED BY <1>1, <2>1, NoSweepShape, Zenon DEF start, Clears, Sweeping
<1>2. CASE acquireMonitoringLock(p)
  <2>1. sweep'[p] = [NoSweep EXCEPT !.pc = "list", !.reads = Queries,
                                   !.earlier = {x \in Procs \ {p} : Sweeping(x)},
                                   !.gone = Repos \ ActiveRepos,
                                   !.stood = [r \in Repos |-> Standing(records[r])]]
    BY <1>2, Zenon DEF acquireMonitoringLock
  <2>2. sweepLock = None /\ sweepLock' = p /\ UNCHANGED <<records, latest, alerts, report, lost>>
    BY <1>2 DEF acquireMonitoringLock, LockIsFree
  <2> QED BY <2>1, <2>2, EmptyDomain DEF Begins, NoSweep
<1>3. CASE listMonitoringRepositoryInventory(p)
  BY <1>0, <1>3, ListEffect DEF Reads
<1>4. CASE resolveMonitoringAlertsForInactiveRepositories(p)
  BY <1>0, <1>4 DEF resolveMonitoringAlertsForInactiveRepositories, Keep, Resolves, SweepShape, SweepFields
<1>5. CASE saveMonitoringSnapshot(p)
  <2>1. PICK t, r, snapshot : SavesAs(p, t, r, snapshot)
    BY <1>5, SaveEffect, Zenon
  <2>2. sweep'[p] = t
    BY <2>1 DEF SavesAs
  <2> QED BY <2>1, <2>2, Zenon DEF Saves, SavesAs
<1>6. CASE throwIfMonitoringAborted(p)
  BY <1>0, <1>6 DEF throwIfMonitoringAborted, Keep, Ends, SweepShape, SweepFields
<1>7. CASE saveMonitoringWeeklyReport(p)
  BY <1>0, <1>7 DEF saveMonitoringWeeklyReport, EverythingSwept, Keep, Ends, SweepShape, SweepFields
<1>8. CASE finishSweep(p)
  <2>1. sweep'[p] = [NoSweep EXCEPT !.pc = IF sweep[p].stopping THEN "off" ELSE "idle"]
    BY <1>8, Zenon DEF finishSweep
  <2>2. Blank(sweep'[p], "off") \/ Blank(sweep'[p], "idle")
    BY <2>1, EmptyDomain DEF NoSweep, Blank, SweepShape, SweepFields
  <2> QED BY <1>8, <2>2, Zenon DEF finishSweep, Clears
<1>9. CASE stop(p)
  <2>1. CASE Sweeping(p)
    <3>1. sweep'[p] = [sweep[p] EXCEPT !.stopping = TRUE]
      BY <1>0, <1>9, <2>1, Zenon DEF stop
    <3> QED BY <1>0, <1>9, <2>1, <3>1 DEF stop, Marked, SweepShape, SweepFields
  <2>2. CASE ~Sweeping(p)
    <3>1. sweep'[p] = NoSweep
      BY <1>0, <1>9, <2>2, Zenon DEF stop
    <3> QED BY <1>9, <2>2, <3>1, NoSweepShape, Zenon DEF stop, Clears
  <2> QED BY <2>1, <2>2
<1>10. CASE sweepFails(p)
  BY <1>0, <1>10 DEF sweepFails, Ends, SweepShape, SweepFields
<1>11. CASE replicaCrash(p)
  <2>1. sweep'[p] = NoSweep
    BY <1>11, Zenon DEF replicaCrash
  <2> QED BY <1>11, <2>1, NoSweepShape, Zenon DEF replicaCrash, Clears
<1> QED BY <1>1, <1>2, <1>3, <1>4, <1>5, <1>6, <1>7, <1>8, <1>9, <1>10, <1>11 DEF Step

-----------------------------------------------------------------------------
(* What a change of the records does. *)

(* What sweep s stood by sweep t still stands by.                           *)
Grown(s, t) == \A r \in Repos : /\ s.stood[r].runs \subseteq t.stood[r].runs
                                /\ s.stood[r].evidence \subseteq t.stood[r].evidence

(* What comes on record from records w to records v, sweep t remembers.    *)
Noted(w, v, t) ==
    \A r \in Repos :
        /\ Standing(v[r]).runs \subseteq Standing(w[r]).runs \cup t.stood[r].runs
        /\ Standing(v[r]).evidence \subseteq Standing(w[r]).evidence \cup t.stood[r].evidence

ChangedAside(s, t) ==
    /\ t.pc = s.pc /\ t.reads = s.reads /\ t.rows = s.rows
    /\ t.runs = s.runs /\ t.evidence = s.evidence /\ t.todo = s.todo
    /\ t.saved = s.saved /\ t.outcome = s.outcome
    /\ t.earlier = s.earlier /\ t.overtaken = s.overtaken

ChangeOfRecords ==
    /\ UNCHANGED <<sweepLock, latest, alerts, report, lost>>
    /\ \A p \in Procs : /\ ChangedAside(sweep[p], sweep'[p]) /\ Grown(sweep[p], sweep'[p])
                        /\ Sweeping(p) => Noted(records, records', sweep'[p])
    /\ \/ /\ \A r \in Repos : records'[r].active = records[r].active
          /\ \A p \in Procs : sweep'[p].gone = sweep[p].gone
       \/ \E r \in Repos : /\ \A x \in Repos \ {r} : records'[x].active = records[x].active
                           /\ \A p \in Procs : sweep'[p].gone = sweep[p].gone \ {r}

RecordsChange ==
    timePasses \/ \E r \in Repos : \/ indexPublished(r) \/ upsertScannerWorkflowRun(r)
                                   \/ upsertScannerEvidence(r) \/ repositoryStateChanges(r)

LEMMA ChangeView == ASSUME SweepTyped, RecordsChange PROVE ChangeOfRecords
<1>0. /\ DOMAIN sweep = Procs /\ \A p \in Procs : SweepShape(sweep[p])
      /\ DOMAIN records = Repos /\ \A r \in Repos : RecordShape(records[r])
  BY DEF SweepTyped
<1>1. ASSUME NEW r \in Repos, NEW w, Change(r, w), w.active = records[r].active
      PROVE  ChangeOfRecords
  <2>1. /\ records' = [records EXCEPT ![r] = w]
        /\ sweep' = [p \in Procs |-> IF Sweeping(p)
                                    THEN [sweep[p] EXCEPT !.stood[r] = StandsToo(@, w)]
                                    ELSE sweep[p]]
        /\ UNCHANGED <<sweepLock, latest, alerts, report, lost>>
    BY <1>1, Zenon DEF Change
  <2>2. \A x \in Repos \ {r} : records'[x] = records[x]
    BY <1>0, <2>1
  <2>3. records'[r] = w
    BY <1>0, <2>1
  <2>4. ASSUME NEW p \in Procs
        PROVE  /\ ChangedAside(sweep[p], sweep'[p]) /\ Grown(sweep[p], sweep'[p])
               /\ Sweeping(p) => Noted(records, records', sweep'[p])
               /\ sweep'[p].gone = sweep[p].gone
    <3>1. CASE ~Sweeping(p)
      <4>1. sweep'[p] = sweep[p]
        BY <2>1, <3>1
      <4> QED BY <3>1, <4>1 DEF ChangedAside, Grown
    <3>2. CASE Sweeping(p)
      <4>1. sweep'[p] = [sweep[p] EXCEPT !.stood[r] = StandsToo(@, w)]
        BY <2>1, <3>2
      <4>2. DOMAIN sweep[p] = SweepFields /\ DOMAIN sweep[p].stood = Repos
        BY <1>0, <3>2 DEF SweepShape, Sweeping
      <4>3. sweep'[p].stood = [sweep[p].stood EXCEPT ![r] = StandsToo(@, w)]
        BY <4>1, <4>2 DEF SweepFields
      <4>4. ChangedAside(sweep[p], sweep'[p]) /\ sweep'[p].gone = sweep[p].gone
        BY <4>1, <4>2 DEF SweepFields, ChangedAside
      <4>5. \A x \in Repos : sweep'[p].stood[x] =
                                IF x = r THEN StandsToo(sweep[p].stood[r], w) ELSE sweep[p].stood[x]
        BY <4>2, <4>3
      <4>6. Grown(sweep[p], sweep'[p])
        BY <4>5 DEF Grown, StandsToo
      <4>7. Noted(records, records', sweep'[p])
        BY <2>2, <2>3, <4>5 DEF Noted, StandsToo
      <4> QED BY <4>4, <4>6, <4>7
    <3> QED BY <3>1, <3>2
  <2>5. \A x \in Repos : records'[x].active = records[x].active
    BY <1>1, <2>2, <2>3
  <2> QED BY <2>1, <2>4, <2>5, Zenon DEF ChangeOfRecords
<1>2. ASSUME NEW r \in Repos, indexPublished(r) PROVE ChangeOfRecords
  <2>1. PICK g \in Generations[r] : Change(r, [records[r] EXCEPT
                     !.generations = {x \in @ : x.commit # g.commit} \cup {g},
                     !.indexSha = g.commit, !.indexAge = 0,
                     !.scannerState = IF g.config = None THEN "not-configured"
                                      ELSE ScannerStateOf(g.config.mode)])
    BY <1>2, Zenon DEF indexPublished
  <2> DEFINE w == [records[r] EXCEPT
                     !.generations = {x \in @ : x.commit # g.commit} \cup {g},
                     !.indexSha = g.commit, !.indexAge = 0,
                     !.scannerState = IF g.config = None THEN "not-configured"
                                      ELSE ScannerStateOf(g.config.mode)]
  <2>2. w.active = records[r].active
    BY <1>0, <1>2 DEF RecordShape, RecordFields
  <2> HIDE DEF w
  <2> QED BY <1>1, <1>2, <2>1, <2>2 DEF w
<1>3. ASSUME NEW r \in Repos, upsertScannerWorkflowRun(r) PROVE ChangeOfRecords
  <2>1. \A S : [records[r] EXCEPT !.runs = S].active = records[r].active
    BY <1>0, <1>3 DEF RecordShape, RecordFields
  <2>2. \E S : Change(r, [records[r] EXCEPT !.runs = S])
    BY <1>3, Zenon DEF upsertScannerWorkflowRun
  <2> QED BY <1>1, <1>3, <2>1, <2>2, Zenon
<1>4. ASSUME NEW r \in Repos, upsertScannerEvidence(r) PROVE ChangeOfRecords
  <2>1. \A S : [records[r] EXCEPT !.evidence = S].active = records[r].active
    BY <1>0, <1>4 DEF RecordShape, RecordFields
  <2>2. \E S : Change(r, [records[r] EXCEPT !.evidence = S])
    BY <1>4, Zenon DEF upsertScannerEvidence
  <2> QED BY <1>1, <1>4, <2>1, <2>2, Zenon
<1>5. ASSUME NEW r \in Repos, repositoryStateChanges(r) PROVE ChangeOfRecords
  <2>1. /\ records' = [records EXCEPT ![r].active = ~@]
        /\ sweep' = [p \in Procs |-> [sweep[p] EXCEPT !.gone = @ \ {r}]]
        /\ UNCHANGED <<sweepLock, latest, alerts, report, lost>>
    BY <1>5, Zenon DEF repositoryStateChanges
  <2>2. \A x \in Repos : /\ records'[x].runs = records[x].runs
                         /\ records'[x].evidence = records[x].evidence
                         /\ x # r => records'[x].active = records[x].active
    BY <1>0, <2>1 DEF RecordShape, RecordFields
  <2>3. \A x \in Repos : Standing(records'[x]) = Standing(records[x])
    BY <2>2, Zenon DEF Standing
  <2>4. \A p \in Procs : /\ ChangedAside(sweep[p], sweep'[p]) /\ Grown(sweep[p], sweep'[p])
                         /\ sweep'[p].gone = sweep[p].gone \ {r}
    BY <1>0, <2>1 DEF SweepShape, SweepFields, ChangedAside, Grown
  <2>5. \A p \in Procs : Noted(records, records', sweep'[p])
    BY <2>3 DEF Noted
  <2> QED BY <1>5, <2>1, <2>2, <2>4, <2>5, Zenon DEF ChangeOfRecords
<1>6. CASE timePasses
  <2>1. /\ records' = [r \in Repos |-> [records[r] EXCEPT
                      !.indexAge = IF @ = None THEN None ELSE @ + 1,
                      !.runs = Older(@), !.evidence = Older(@)]]
        /\ sweep' = sweep /\ UNCHANGED <<sweepLock, latest, alerts, report, lost>>
    BY <1>6, Zenon DEF timePasses
  <2>2. \A r \in Repos : /\ records'[r].runs = Older(records[r].runs)
                         /\ records'[r].evidence = Older(records[r].evidence)
                         /\ records'[r].active = records[r].active
    BY <1>0, <2>1 DEF RecordShape, RecordFields
  <2>3. ASSUME NEW r \in Repos
        PROVE  /\ Standing(records'[r]).runs \subseteq Standing(records[r]).runs
               /\ Standing(records'[r]).evidence \subseteq Standing(records[r]).evidence
    <3>1. \A y \in Older(records[r].runs) : \E x \in records[r].runs :
             y.id = x.id /\ y.verdict = x.verdict /\ y.sha = x.sha
      BY <1>0 DEF RecordShape, Older, RunFields
    <3>2. \A y \in Older(records[r].evidence) : \E x \in records[r].evidence :
             y.key = x.key /\ y.run = x.run /\ y.status = x.status /\ y.digest = x.digest
      BY <1>0 DEF RecordShape, Older, EvidenceRecord
    <3> QED BY <2>2, <3>1, <3>2 DEF Standing
  <2>4. \A p \in Procs : /\ ChangedAside(sweep[p], sweep'[p]) /\ Grown(sweep[p], sweep'[p])
                         /\ Noted(records, records', sweep'[p]) /\ sweep'[p].gone = sweep[p].gone
    BY <2>1, <2>3 DEF ChangedAside, Grown, Noted
  <2> QED BY <2>1, <2>2, <2>4, Zenon DEF ChangeOfRecords
<1> QED BY <1>2, <1>3, <1>4, <1>5, <1>6 DEF RecordsChange

-----------------------------------------------------------------------------
(* The invariants, a view of the step at a time. *)

ReplicaStep(p) ==
    /\ \A q \in Procs \ {p} : LeftAlone(q, p)
    /\ \/ Clears(p) \/ Begins(p) \/ Reads(p) \/ Resolves(p) \/ Saves(p) \/ Ends(p) \/ Marked(p)

SessionEnds == sweepLock' = None /\ lost' = TRUE /\ UNCHANGED <<records, sweep, latest, alerts, report>>

View == \/ UNCHANGED sweepVars \/ SessionEnds \/ ChangeOfRecords \/ \E p \in Procs : ReplicaStep(p)

LEMMA StepView ==
  ASSUME MonitoringAssumption
  PROVE  SweepTyped /\ [SweepNext]_sweepVars => View
<1> SUFFICES ASSUME SweepTyped, [SweepNext]_sweepVars PROVE View
  OBVIOUS
<1>1. CASE sessionLost
  BY <1>1 DEF sessionLost, SessionEnds, View
<1>2. CASE RecordsChange
  BY <1>2, ChangeView DEF View
<1>3. CASE \E p \in Procs : Step(p) \/ stop(p) \/ sweepFails(p) \/ replicaCrash(p)
  BY <1>3, TypedParts, AsideOthers, ReplicaView DEF View, ReplicaStep
<1> QED BY <1>1, <1>2, <1>3 DEF SweepNext, RecordsChange, View

LEMMA OneSweepsStep ==
  ASSUME MonitoringAssumption, SweepTyped, SweepTyped', OneSweeps, View
  PROVE  OneSweeps'
<1>0. None \notin Procs
  BY MonitoringAssumption
<1>1. CASE UNCHANGED sweepVars \/ SessionEnds
  BY <1>1 DEF sweepVars, SessionEnds, OneSweeps, Sweeping
<1>2. CASE ChangeOfRecords
  BY <1>2 DEF ChangeOfRecords, ChangedAside, OneSweeps, Sweeping
<1>3. ASSUME NEW p \in Procs, ReplicaStep(p) PROVE OneSweeps'
  <2> SUFFICES ASSUME ~lost', NEW q \in Procs
               PROVE  /\ Sweeping(q)' => sweepLock' = q
                      /\ sweep'[q].earlier = {} /\ sweep'[q].overtaken = {}
    BY DEF OneSweeps
  <2>1. ~lost
    BY <1>3 DEF ReplicaStep, Clears, Begins, Reads, Resolves, Saves, Ends, Marked
  <2>2. \A x \in Procs : /\ Sweeping(x) => sweepLock = x
                         /\ sweep[x].earlier = {} /\ sweep[x].overtaken = {}
    BY <2>1 DEF OneSweeps
  <2>3. CASE q # p
    <3>1. /\ Sweeping(q)' => Sweeping(q)
          /\ sweep'[q].earlier = {} /\ sweep'[q].overtaken = {}
      BY <1>3, <2>2, <2>3 DEF ReplicaStep, LeftAlone, Sweeping
    <3>2. Sweeping(q) => sweepLock' = sweepLock
      BY <1>0, <1>3, <2>2, <2>3 DEF ReplicaStep, Clears, Begins, Reads, Resolves, Saves, Ends, Marked
    <3> QED BY <2>2, <3>1, <3>2
  <2>4. CASE q = p
    <3>1. CASE Clears(p)
      BY <2>4, <3>1 DEF Clears, Blank, Sweeping
    <3>2. CASE Begins(p)
      BY <1>0, <2>2, <2>4, <3>2 DEF Begins
    <3>3. CASE Reads(p)
      BY <2>2, <2>4, <3>3 DEF Reads, Read, Sweeping
    <3>4. CASE Resolves(p)
      BY <2>2, <2>4, <3>4 DEF Resolves, Sweeping
    <3>5. CASE Saves(p)
      BY <2>2, <2>4, <3>5 DEF Saves, Saved, Sweeping
    <3>6. CASE Ends(p)
      BY <2>2, <2>4, <3>6 DEF Ends, Sweeping
    <3>7. CASE Marked(p)
      BY <2>2, <2>4, <3>7 DEF Marked, Sweeping
    <3> QED BY <1>3, <3>1, <3>2, <3>3, <3>4, <3>5, <3>6, <3>7 DEF ReplicaStep
  <2> QED BY <2>3, <2>4
<1> QED BY <1>1, <1>2, <1>3 DEF View

ReadStands(s, w) ==
    /\ s.pc \notin {"off", "idle"} => \A r \in Repos :
          /\ Standing(w[r]).runs \subseteq s.stood[r].runs
          /\ Standing(w[r]).evidence \subseteq s.stood[r].evidence
    /\ \A r \in DOMAIN s.runs : \A n \in s.runs[r] : RunStood(n, s.stood[r])
    /\ \A r \in DOMAIN s.evidence :
         \A e \in s.evidence[r] : EvidenceRecord(e) /\ EvidenceStood(e, s.stood[r])

(* What a query reads now is on record now.                                *)
LEMMA OnRecordStands ==
  ASSUME NEW w
  PROVE  /\ \A n \in w.runs : RunStood(n, Standing(w))
         /\ \A e \in w.evidence : EvidenceStood(e, Standing(w))
BY DEF RunStood, EvidenceStood, Standing

LEMMA ReadsStandStep ==
  ASSUME SweepTyped, SweepTyped', ReadsStand, View
  PROVE  ReadsStand'
<1>0. \A p \in Procs : /\ ReadStands(sweep[p], records)
                       /\ DOMAIN sweep[p].runs \subseteq Repos /\ DOMAIN sweep[p].evidence \subseteq Repos
  BY DEF ReadsStand, ReadStands, SweepTyped, SweepShape, Sweeping
<1> SUFFICES ASSUME NEW p \in Procs PROVE ReadStands(sweep'[p], records')
  BY DEF ReadsStand, ReadStands, Sweeping
<1>1. CASE UNCHANGED sweepVars \/ SessionEnds
  BY <1>0, <1>1, Zenon DEF sweepVars, SessionEnds
<1>2. CASE ChangeOfRecords
  <2>1. ChangedAside(sweep[p], sweep'[p]) /\ Grown(sweep[p], sweep'[p])
    BY <1>2 DEF ChangeOfRecords
  <2>2. Sweeping(p) => Noted(records, records', sweep'[p])
    BY <1>2 DEF ChangeOfRecords
  <2>3. sweep'[p].pc \notin {"off", "idle"} => \A r \in Repos :
          /\ Standing(records'[r]).runs \subseteq sweep'[p].stood[r].runs
          /\ Standing(records'[r]).evidence \subseteq sweep'[p].stood[r].evidence
    BY <1>0, <2>1, <2>2 DEF ChangedAside, Grown, Noted, ReadStands, Sweeping
  <2>4. \A r \in Repos : \A n : RunStood(n, sweep[p].stood[r]) => RunStood(n, sweep'[p].stood[r])
    BY <2>1 DEF Grown, RunStood
  <2>5. \A r \in Repos : \A e : EvidenceStood(e, sweep[p].stood[r]) => EvidenceStood(e, sweep'[p].stood[r])
    BY <2>1 DEF Grown, EvidenceStood
  <2>6. sweep'[p].runs = sweep[p].runs /\ sweep'[p].evidence = sweep[p].evidence
    BY <2>1 DEF ChangedAside
  <2> QED BY <1>0, <2>3, <2>4, <2>5, <2>6, Zenon DEF ReadStands
<1>3. ASSUME NEW x \in Procs, ReplicaStep(x) PROVE ReadStands(sweep'[p], records')
  <2>1. records' = records
    BY <1>3 DEF ReplicaStep, Clears, Begins, Reads, Resolves, Saves, Ends, Marked
  <2>2. CASE /\ sweep'[p].runs = sweep[p].runs /\ sweep'[p].evidence = sweep[p].evidence
             /\ sweep'[p].stood = sweep[p].stood /\ sweep[p].pc \notin {"off", "idle"}
    BY <1>0, <2>1, <2>2, Zenon DEF ReadStands
  <2>3. CASE Blank(sweep'[p], "off") \/ Blank(sweep'[p], "idle")
    BY <2>3 DEF ReadStands, Blank
  <2>4. CASE p = x /\ Reads(x)
    <3>1. PICK q \in sweep[p].reads : Read(q, sweep[p], sweep'[p])
      BY <2>4 DEF Reads
    <3>2. \A r \in Repos : /\ Standing(records[r]).runs \subseteq sweep[p].stood[r].runs
                           /\ Standing(records[r]).evidence \subseteq sweep[p].stood[r].evidence
      BY <1>0, <2>4 DEF Reads, ReadStands
    <3>3. \A r \in Repos : /\ \A n \in records[r].runs : RunStood(n, sweep[p].stood[r])
                           /\ \A e \in records[r].evidence : EvidenceStood(e, sweep[p].stood[r])
      BY <3>2, OnRecordStands DEF RunStood, EvidenceStood
    <3>4. sweep'[p].stood = sweep[p].stood
      BY <3>1 DEF Read
    <3>5. \A r \in DOMAIN sweep'[p].runs : \A n \in sweep'[p].runs[r] : RunStood(n, sweep[p].stood[r])
      <4>1. CASE q = "runs"
        BY <3>1, <3>3, <4>1 DEF Read, ActiveRepos
      <4>2. CASE q # "runs"
        BY <1>0, <3>1, <4>2 DEF Read, ReadStands
      <4> QED BY <4>1, <4>2
    <3>6. \A r \in DOMAIN sweep'[p].evidence : \A e \in sweep'[p].evidence[r] :
             EvidenceRecord(e) /\ EvidenceStood(e, sweep[p].stood[r])
      <4>1. CASE q = "evidence"
        <5>1. \A r \in ActiveRepos : \A e \in latestScannerEvidence(records[r]) :
                 e \in records[r].evidence /\ r \in Repos
          BY DEF latestScannerEvidence, ActiveRepos
        <5>2. \A r \in DOMAIN sweep'[p].evidence :
                 r \in ActiveRepos /\ sweep'[p].evidence[r] = latestScannerEvidence(records[r])
          BY <3>1, <4>1 DEF Read
        <5>3. \A r \in Repos : \A e \in records[r].evidence : EvidenceRecord(e)
          BY DEF SweepTyped, RecordShape
        <5> QED BY <3>3, <5>1, <5>2, <5>3, Zenon
      <4>2. CASE q # "evidence"
        BY <1>0, <3>1, <4>2 DEF Read, ReadStands
      <4> QED BY <4>1, <4>2
    <3> QED BY <2>1, <3>2, <3>4, <3>5, <3>6, Zenon DEF ReadStands
  <2>5. CASE p # x
    <3>1. /\ sweep'[p].runs = sweep[p].runs /\ sweep'[p].evidence = sweep[p].evidence
          /\ sweep'[p].stood = sweep[p].stood /\ sweep'[p].pc = sweep[p].pc
      BY <1>3, <2>5 DEF ReplicaStep, LeftAlone
    <3> QED BY <1>0, <2>1, <3>1, Zenon DEF ReadStands
  <2>6. CASE p = x /\ Begins(x)
    <3>1. /\ sweep'[p].stood = [r \in Repos |-> Standing(records[r])]
          /\ DOMAIN sweep'[p].runs = {} /\ DOMAIN sweep'[p].evidence = {}
      BY <2>6 DEF Begins
    <3> QED BY <2>1, <3>1 DEF ReadStands
  <2>7. CASE p = x /\ ~Reads(x) /\ ~Begins(x)
    BY <1>3, <2>2, <2>3, <2>7 DEF ReplicaStep, Clears, Resolves, Saves, Saved, Ends, Marked, Sweeping
  <2> QED BY <2>4, <2>5, <2>6, <2>7
<1> QED BY <1>1, <1>2, <1>3 DEF View

SavedStands(s, m, unlost) ==
    /\ s.pc \in {"list", "resolve"} => DOMAIN s.saved = {}
    /\ s.pc = "each" =>
         /\ s.todo \cup DOMAIN s.saved = DOMAIN s.rows
         /\ s.todo \cap DOMAIN s.saved = {}
         /\ unlost => \A r \in DOMAIN s.saved : r \in DOMAIN m /\ m[r] = s.saved[r]

LEMMA SavedStandStep ==
  ASSUME SweepTyped, SweepTyped', OneSweeps, SavedStand, View
  PROVE  SavedStand'
<1>0. \A p \in Procs : SavedStands(sweep[p], latest, ~lost)
  BY DEF SavedStand, SavedStands
<1> SUFFICES ASSUME NEW p \in Procs PROVE SavedStands(sweep'[p], latest', ~lost')
  BY DEF SavedStand, SavedStands
<1>1. CASE UNCHANGED sweepVars \/ SessionEnds
  BY <1>0, <1>1 DEF sweepVars, SessionEnds, SavedStands
<1>2. CASE ChangeOfRecords
  BY <1>0, <1>2 DEF ChangeOfRecords, ChangedAside, SavedStands
<1>3. ASSUME NEW x \in Procs, ReplicaStep(x) PROVE SavedStands(sweep'[p], latest', ~lost')
  <2>1. CASE p # x
    <3>1. /\ sweep'[p].pc = sweep[p].pc /\ sweep'[p].rows = sweep[p].rows
          /\ sweep'[p].todo = sweep[p].todo /\ sweep'[p].saved = sweep[p].saved
      BY <1>3, <2>1 DEF ReplicaStep, LeftAlone
    <3>2. lost' = lost
      BY <1>3 DEF ReplicaStep, Clears, Begins, Reads, Resolves, Saves, Ends, Marked
    <3>3. latest' = latest \/ lost \/ sweep[p].pc # "each"
      <4>1. CASE Saves(x)
        BY <2>1, <4>1 DEF Saves, OneSweeps, Sweeping
      <4>2. CASE ~Saves(x)
        BY <1>3, <4>2 DEF ReplicaStep, Clears, Begins, Reads, Resolves, Ends, Marked
      <4> QED BY <4>1, <4>2
    <3> QED BY <1>0, <3>1, <3>2, <3>3 DEF SavedStands
  <2>2. CASE p = x
    <3>1. CASE Clears(p)
      BY <3>1 DEF Clears, Blank, SavedStands
    <3>2. CASE Begins(p)
      BY <3>2 DEF Begins, SavedStands
    <3>3. CASE Reads(p)
      BY <1>0, <3>3 DEF Reads, Read, SavedStands
    <3>4. CASE Resolves(p)
      BY <1>0, <3>4 DEF Resolves, SavedStands
    <3>5. CASE Saves(p)
      <4>1. PICK r, snapshot :
               /\ sweep[p].pc = "each" /\ r \in sweep[p].todo
               /\ Saved(sweep[p], r, snapshot, sweep'[p])
               /\ r \in sweep[p].overtaken \/ latest' = Put(latest, r, snapshot)
               /\ lost' = lost
        BY <3>5 DEF Saves
      <4>2. ~lost => sweep[p].overtaken = {}
        BY DEF OneSweeps
      <4> QED BY <1>0, <4>1, <4>2 DEF Saved, Put, SavedStands
    <3>6. CASE Ends(p)
      BY <3>6 DEF Ends, SavedStands
    <3>7. CASE Marked(p)
      BY <1>0, <3>7 DEF Marked, SavedStands
    <3> QED BY <1>3, <2>2, <3>1, <3>2, <3>3, <3>4, <3>5, <3>6, <3>7 DEF ReplicaStep
  <2> QED BY <2>1, <2>2
<1> QED BY <1>1, <1>2, <1>3 DEF View

LEMMA AlertsStep ==
  ASSUME SweepTyped, SweepTyped', OneSweeps, AlertsFollowLatestSnapshot, View
  PROVE  AlertsFollowLatestSnapshot'
<1>1. CASE UNCHANGED sweepVars \/ SessionEnds \/ ChangeOfRecords
  BY <1>1 DEF sweepVars, SessionEnds, ChangeOfRecords, AlertsFollowLatestSnapshot
<1>2. ASSUME NEW p \in Procs, ReplicaStep(p) PROVE AlertsFollowLatestSnapshot'
  <2>1. CASE Saves(p)
    <3>1. PICK r, snapshot :
             /\ r \in Repos
             /\ alerts' = [alerts EXCEPT ![r] = activeAlertsFor(snapshot.checks)]
             /\ r \in sweep[p].overtaken \/ latest' = Put(latest, r, snapshot)
             /\ lost' = lost
      BY <2>1 DEF Saves
    <3>2. ~lost => sweep[p].overtaken = {}
      BY DEF OneSweeps
    <3>3. DOMAIN alerts = Repos
      BY DEF SweepTyped
    <3> QED BY <3>1, <3>2, <3>3 DEF Put, AlertsFollowLatestSnapshot
  <2>2. CASE Resolves(p)
    BY <2>2 DEF Resolves, ResolvedAlerts, AlertsFollowLatestSnapshot
  <2>3. CASE ~Saves(p) /\ ~Resolves(p)
    <3>1. UNCHANGED <<latest, alerts, lost>>
      BY <1>2, <2>3 DEF ReplicaStep, Clears, Begins, Reads, Ends, Marked
    <3> QED BY <3>1 DEF AlertsFollowLatestSnapshot
  <2> QED BY <2>1, <2>2, <2>3
<1> QED BY <1>1, <1>2 DEF View

GoneStays(s, r, active, keys, unlost) ==
    /\ s.pc \notin {"off", "idle"} => ~active
    /\ s.pc \in {"list", "resolve", "each"} /\ "repositories" \notin s.reads => r \notin DOMAIN s.rows
    /\ s.pc \in {"resolve", "each"} => "repositories" \notin s.reads
    /\ unlost /\ (s.pc = "each" \/ (s.pc = "release" /\ s.outcome = "success")) => keys = {}

LEMMA GoneStayStep ==
  ASSUME SweepTyped, SweepTyped', OneSweeps, SavedStand, GoneStay, View
  PROVE  GoneStay'
<1>0. \A p \in Procs : \A r \in sweep[p].gone :
         GoneStays(sweep[p], r, records[r].active, alerts[r], ~lost)
  BY DEF GoneStay, GoneStays, Sweeping
<1>1. \A p \in Procs : sweep[p].gone \subseteq Repos
  BY DEF SweepTyped, SweepShape
<1> SUFFICES ASSUME NEW p \in Procs, NEW r \in sweep'[p].gone
             PROVE  GoneStays(sweep'[p], r, records'[r].active, alerts'[r], ~lost')
  BY DEF GoneStay, GoneStays, Sweeping
<1>2. CASE UNCHANGED sweepVars \/ SessionEnds
  BY <1>0, <1>2 DEF sweepVars, SessionEnds, GoneStays
<1>3. CASE ChangeOfRecords
  BY <1>0, <1>1, <1>3 DEF ChangeOfRecords, ChangedAside, GoneStays
<1>4. ASSUME NEW x \in Procs, ReplicaStep(x)
      PROVE  GoneStays(sweep'[p], r, records'[r].active, alerts'[r], ~lost')
  <2>1. records' = records /\ lost' = lost
    BY <1>4 DEF ReplicaStep, Clears, Begins, Reads, Resolves, Saves, Ends, Marked
  <2>2. CASE p # x
    <3>1. /\ sweep'[p].pc = sweep[p].pc /\ sweep'[p].rows = sweep[p].rows
          /\ sweep'[p].reads = sweep[p].reads /\ sweep'[p].outcome = sweep[p].outcome
          /\ sweep'[p].gone = sweep[p].gone
      BY <1>4, <2>2 DEF ReplicaStep, LeftAlone
    <3>2. alerts'[r] = alerts[r] \/ lost \/ ~Sweeping(p)
      <4>1. CASE Saves(x) \/ Resolves(x)
        BY <2>2, <4>1 DEF Saves, Resolves, OneSweeps, Sweeping
      <4>2. CASE ~Saves(x) /\ ~Resolves(x)
        BY <1>4, <4>2 DEF ReplicaStep, Clears, Begins, Reads, Ends, Marked
      <4> QED BY <4>1, <4>2
    <3> QED BY <1>0, <2>1, <3>1, <3>2 DEF GoneStays, Sweeping
  <2>3. CASE p = x
    <3>1. CASE Clears(p)
      BY <3>1 DEF Clears, Blank
    <3>2. CASE Begins(p)
      BY <2>1, <3>2 DEF Begins, ActiveRepos, GoneStays, Queries
    <3>3. CASE Reads(p)
      <4>1. PICK q \in sweep[p].reads : Read(q, sweep[p], sweep'[p])
        BY <3>3 DEF Reads
      <4>2. r \in sweep[p].gone /\ sweep[p].pc = "list" /\ alerts' = alerts
        BY <3>3, <4>1 DEF Reads, Read
      <4>3. ~records[r].active
        BY <1>0, <4>2 DEF GoneStays
      <4>4. "repositories" \notin sweep'[p].reads => r \notin DOMAIN sweep'[p].rows
        BY <1>0, <4>1, <4>2, <4>3 DEF Read, GoneStays, ActiveRepos
      <4>5. sweep'[p].pc = "resolve" => sweep'[p].reads = {}
        BY <4>1 DEF Read
      <4>6. sweep'[p].pc \in {"list", "resolve"}
        BY <4>1 DEF Read
      <4> QED BY <2>1, <4>3, <4>4, <4>5, <4>6 DEF GoneStays
    <3>4. CASE Resolves(p)
      BY <1>0, <1>1, <2>1, <3>4 DEF Resolves, ResolvedAlerts, GoneStays
    <3>5. CASE Saves(p)
      <4>1. PICK y, snapshot :
               /\ sweep[p].pc = "each" /\ y \in sweep[p].todo
               /\ Saved(sweep[p], y, snapshot, sweep'[p])
               /\ alerts' = [alerts EXCEPT ![y] = activeAlertsFor(snapshot.checks)]
        BY <3>5 DEF Saves
      <4>2. r \in sweep[p].gone /\ sweep[p].todo \subseteq DOMAIN sweep[p].rows
        BY <4>1 DEF Saved, SavedStand
      <4>3. r # y
        BY <1>0, <4>1, <4>2 DEF GoneStays
      <4> QED BY <1>0, <1>1, <2>1, <4>1, <4>2, <4>3 DEF Saved, GoneStays
    <3>6. CASE Ends(p)
      BY <1>0, <2>1, <3>6 DEF Ends, GoneStays
    <3>7. CASE Marked(p)
      BY <1>0, <2>1, <3>7 DEF Marked, GoneStays
    <3> QED BY <1>4, <2>3, <3>1, <3>2, <3>3, <3>4, <3>5, <3>6, <3>7 DEF ReplicaStep
  <2> QED BY <2>2, <2>3
<1> QED BY <1>2, <1>3, <1>4 DEF View

-----------------------------------------------------------------------------
(* What the evaluation of an item in the enforced state has found. *)

LEMMA NewestFound ==
  ASSUME NEW S, \A e \in S : e.age \in Nat, Newest(S) # None
  PROVE  Newest(S) \in S
<1>1. S # {}
  BY DEF Newest
<1> DEFINE ages == {e.age : e \in S}
<1>2. ages \in SUBSET Nat /\ ages # {}
  BY <1>1
<1>3. \E i \in ages : \A j \in ages : i <= j
  BY <1>2, LeastOf
<1>4. \E x \in S : \A y \in S : x.age <= y.age
  BY <1>3
<1> QED BY <1>1, <1>4 DEF Newest

Meets(item, e) == /\ e \in item.evidence /\ e.status = "success"
                  /\ \E n \in item.runs : n.id = e.run /\ n.verdict = "accepted"
                                          /\ n.sha = item.index.commit

(* A requirement whose check does not fail is met by a success of an accepted *)
(* run of the indexed commit.                                              *)
LEMMA RequirementMet ==
  ASSUME NEW item, \A e \in item.evidence : EvidenceRecord(e),
         NEW requirements, NEW q \in requirements,
         "failing" \notin StatusesOf(reconcileEvidence(requirements, relevantEvidence(item)))
  PROVE  \E e : /\ Meets(item, e) /\ e \in relevantEvidence(item) /\ e.key = q.key
                /\ q.digest # None => e.digest = q.digest
<1> DEFINE matching == {e \in relevantEvidence(item) :
                          e.key = q.key /\ (q.digest # None => e.digest = q.digest)}
           e == latestMatchingEvidence(q, relevantEvidence(item))
           status == IF e = None \/ e.status = "failure" THEN "failing"
                     ELSE IF e.age > q.maxAge THEN "warning" ELSE "passing"
<1>1. Check(q.key, status) \in reconcileEvidence(requirements, relevantEvidence(item))
  BY DEF reconcileEvidence
<1> HIDE DEF status
<1>2. status # "failing"
  BY <1>1 DEF StatusesOf, Check
<1> USE DEF status
<1>3. e # None /\ e.status # "failure"
  BY <1>2
<1>4. e = Newest(matching)
  BY DEF latestMatchingEvidence
<1>5. \A x \in matching : x \in relevantEvidence(item) /\ x \in item.evidence
  BY DEF relevantEvidence
<1>6. \A x \in matching : x.age \in Nat
  BY <1>5 DEF EvidenceRecord
<1> HIDE DEF e, matching
<1>7. e \in matching
  BY <1>3, <1>4, <1>6, NewestFound
<1>8. /\ e \in relevantEvidence(item) /\ e.key = q.key
      /\ q.digest # None => e.digest = q.digest
  BY <1>7 DEF matching
<1>9. e \in item.evidence /\ e.status = "success"
  BY <1>3, <1>5, <1>7 DEF EvidenceRecord
<1>10. \E n \in item.runs : n.id = e.run /\ n.verdict = "accepted" /\ n.sha = item.index.commit
  BY <1>8 DEF relevantEvidence, exactHeadEvidenceRuns
<1> QED BY <1>8, <1>9, <1>10 DEF Meets

(* What the enforced state requires of one inventory item: each evidence check *)
(* that does not fail has found its evidence, and the signature and the    *)
(* deployment found name the same digest (evaluateInventoryItem).          *)
LEMMA EnforcedFindsAll ==
  ASSUME NEW item, \A e \in item.evidence : EvidenceRecord(e),
         evaluateInventoryItem(item).state = "enforced"
  PROVE  LET config == readIndexedConfiguration(item)
             Has(key) == \E e : Meets(item, e) /\ e.key = key
         IN  /\ config # None /\ item.index.commit = item.repo.indexSha
             /\ config.semgrep => Has("semgrep") /\ Has("semgrep-import")
             /\ config.image => Has("image-trivy") /\ Has("sbom")
             /\ config.image /\ config.deployment =>
                   \E e, f : /\ Meets(item, e) /\ Meets(item, f)
                             /\ e.key = "signature" /\ f.key = "deployment" /\ e.digest = f.digest
<1> DEFINE config == readIndexedConfiguration(item)
           digest == signedImageDigest(item)
           requirements == buildEvidenceRequirements(config, digest)
           checks == reconcileEvidence(requirements, relevantEvidence(item))
<1>1. evaluateRepositoryMonitoring(item, config).state = "enforced"
  BY DEF evaluateInventoryItem
<1>2. config # None /\ "failing" \notin StatusesOf(checks)
  BY <1>1 DEF evaluateRepositoryMonitoring, classifyRepositoryInventoryState
<1>3. item.index.commit = item.repo.indexSha
  BY <1>2 DEF readIndexedConfiguration, CurrentIndex
<1> HIDE DEF config, digest
<1>4. ASSUME NEW q \in requirements
      PROVE  \E e : /\ Meets(item, e) /\ e \in relevantEvidence(item) /\ e.key = q.key
                    /\ q.digest # None => e.digest = q.digest
  BY <1>2, RequirementMet
<1>5. ASSUME NEW k, NEW age, NEW d, Requirement(k, age, d) \in requirements
      PROVE  \E e : /\ Meets(item, e) /\ e \in relevantEvidence(item) /\ e.key = k
                    /\ d # None => e.digest = d
  BY <1>4, <1>5 DEF Requirement
<1>6. config.semgrep => \A k \in {"semgrep", "semgrep-import"} :
                          Requirement(k, EvidenceMaxAge, None) \in requirements
  BY DEF buildEvidenceRequirements
<1>7. config.image => \A k \in {"image-trivy", "sbom"} :
                          Requirement(k, EvidenceMaxAge, None) \in requirements
  BY DEF buildEvidenceRequirements
<1>8. config.image /\ config.deployment =>
        /\ Requirement("signature", EvidenceMaxAge, digest) \in requirements
        /\ Requirement("deployment", EvidenceMaxAge, digest) \in requirements
  BY DEF buildEvidenceRequirements
<1> HIDE DEF requirements
<1>9. ASSUME config.image, config.deployment
      PROVE  \E e, f : /\ Meets(item, e) /\ Meets(item, f)
                       /\ e.key = "signature" /\ f.key = "deployment" /\ e.digest = f.digest
  <2>1. PICK e : /\ Meets(item, e) /\ e \in relevantEvidence(item) /\ e.key = "signature"
                 /\ digest # None => e.digest = digest
    BY <1>5, <1>8, <1>9
  <2>2. PICK f : /\ Meets(item, f) /\ f.key = "deployment"
                 /\ digest # None => f.digest = digest
    BY <1>5, <1>8, <1>9
  <2> DEFINE signed == {x \in relevantEvidence(item) : x.key = "signature" /\ x.digest # None}
  <2>3. \A x \in relevantEvidence(item) : EvidenceRecord(x)
    BY DEF relevantEvidence
  <2>4. e \in signed
    BY <2>1, <2>3 DEF EvidenceRecord
  <2>5. digest = Newest(signed).digest
    BY <2>4 DEF digest, signedImageDigest
  <2>6. Newest(signed) \in signed
    <3> DEFINE ages == {x.age : x \in signed}
    <3>1. ages \in SUBSET Nat /\ ages # {}
      BY <2>3, <2>4 DEF EvidenceRecord
    <3>2. \E i \in ages : \A j \in ages : i <= j
      BY <3>1, LeastOf
    <3>3. \E x \in signed : \A y \in signed : x.age <= y.age
      BY <3>2
    <3> HIDE DEF signed
    <3> QED BY <2>4, <3>3 DEF Newest
  <2>7. digest # None
    BY <2>5, <2>6
  <2> QED BY <2>1, <2>2, <2>7
<1>10. ASSUME config.semgrep PROVE \A k \in {"semgrep", "semgrep-import"} : \E e : Meets(item, e) /\ e.key = k
  BY <1>5, <1>6, <1>10
<1>11. ASSUME config.image PROVE \A k \in {"image-trivy", "sbom"} : \E e : Meets(item, e) /\ e.key = k
  BY <1>5, <1>7, <1>11
<1> QED BY <1>2, <1>3, <1>9, <1>10, <1>11 DEF config

Attested(stood, sha, e) ==
    /\ e \in stood.evidence
    /\ \E n \in stood.runs : n.id = e.run /\ n.sha = sha

Protects(config, stood, sha) ==
    LET Has(key) == \E e : Attested(stood, sha, e) /\ e.key = key
    IN  /\ config # None
        /\ config.semgrep => Has("semgrep") /\ Has("semgrep-import")
        /\ config.image => Has("image-trivy") /\ Has("sbom")
        /\ config.image /\ config.deployment =>
              \E e, f : /\ Attested(stood, sha, e) /\ Attested(stood, sha, f)
                        /\ e.key = "signature" /\ f.key = "deployment" /\ e.digest = f.digest

SavedProtects(s) ==
    \A r \in DOMAIN s.saved : s.saved[r].state = "enforced" =>
        Protects(s.saved[r].config, s.stood[r], s.saved[r].commit)

LEMMA ProtectedIs ==
  /\ EnforcedMeansProtected <=> \A p \in Procs : SavedProtects(sweep[p])
  /\ EnforcedMeansProtected' <=> \A p \in Procs : SavedProtects(sweep'[p])
BY DEF EnforcedMeansProtected, SavedProtects, Protects, Attested

(* What protects a commit still does when more stood.                      *)
LEMMA ProtectionLasts ==
  ASSUME NEW config, NEW old, NEW new, NEW sha, Protects(config, old, sha),
         old.runs \subseteq new.runs, old.evidence \subseteq new.evidence
  PROVE  Protects(config, new, sha)
<1>1. \A e : Attested(old, sha, e) => Attested(new, sha, e)
  BY DEF Attested
<1> QED BY <1>1 DEF Protects

(* What is saved as enforced rests on what the queries read, and that was on *)
(* record while the sweep went on, whatever changed between the queries.   *)
LEMMA EnforcedStep ==
  ASSUME SweepTyped, SweepTyped', ReadsStand, EnforcedMeansProtected, View
  PROVE  EnforcedMeansProtected'
<1>0. \A p \in Procs : SavedProtects(sweep[p]) /\ DOMAIN sweep[p].saved \subseteq Repos
  BY ProtectedIs DEF SweepTyped, SweepShape
<1> SUFFICES ASSUME NEW p \in Procs PROVE SavedProtects(sweep'[p])
  BY ProtectedIs
<1>1. CASE UNCHANGED sweepVars \/ SessionEnds
  BY <1>0, <1>1, Zenon DEF sweepVars, SessionEnds
<1>2. CASE ChangeOfRecords
  <2>1. sweep'[p].saved = sweep[p].saved /\ Grown(sweep[p], sweep'[p])
    BY <1>2 DEF ChangeOfRecords, ChangedAside
  <2> QED BY <1>0, <2>1, ProtectionLasts DEF SavedProtects, Grown
<1>3. ASSUME NEW x \in Procs, ReplicaStep(x) PROVE SavedProtects(sweep'[p])
  <2>1. CASE sweep'[p].saved = sweep[p].saved /\ sweep'[p].stood = sweep[p].stood
    BY <1>0, <2>1, Zenon DEF SavedProtects
  <2>2. CASE DOMAIN sweep'[p].saved = {}
    BY <2>2 DEF SavedProtects
  <2>3. CASE p = x /\ Saves(p)
    <3>1. PICK r, snapshot :
             /\ r \in Repos /\ snapshot = toPersistedSnapshot(InventoryItem(p, r))
             /\ Saved(sweep[p], r, snapshot, sweep'[p])
      BY <2>3 DEF Saves
    <3> DEFINE item == InventoryItem(p, r)
               stood == sweep[p].stood[r]
    <3>2. \A e \in item.evidence : EvidenceRecord(e) /\ EvidenceStood(e, stood)
      BY DEF InventoryItem, ReadsStand
    <3>3. \A n \in item.runs : RunStood(n, stood)
      BY DEF InventoryItem, ReadsStand
    <3>4. sweep'[p].saved = Put(sweep[p].saved, r, snapshot) /\ sweep'[p].stood = sweep[p].stood
      BY <3>1 DEF Saved
    <3> HIDE DEF item, stood
    <3>5. \A e : Meets(item, e) =>
            \E f : Attested(stood, item.index.commit, f) /\ f.key = e.key /\ f.digest = e.digest
      <4> SUFFICES ASSUME NEW e, Meets(item, e)
                   PROVE  \E f : Attested(stood, item.index.commit, f) /\ f.key = e.key /\ f.digest = e.digest
        OBVIOUS
      <4> DEFINE f == [key |-> e.key, run |-> e.run, digest |-> e.digest]
      <4>1. PICK n \in item.runs : n.id = e.run /\ n.verdict = "accepted" /\ n.sha = item.index.commit
        BY DEF Meets
      <4>2. [id |-> n.id, sha |-> n.sha] \in stood.runs
        BY <3>3, <4>1 DEF RunStood
      <4>3. f \in stood.evidence
        BY <3>2 DEF Meets, EvidenceStood
      <4>4. \E m \in stood.runs : m.id = f.run /\ m.sha = item.index.commit
        BY <4>1, <4>2
      <4>5. Attested(stood, item.index.commit, f) /\ f.key = e.key /\ f.digest = e.digest
        BY <4>3, <4>4 DEF Attested
      <4> QED BY <4>5
    <3>6. ASSUME evaluateInventoryItem(item).state = "enforced"
          PROVE  Protects(readIndexedConfiguration(item), stood, item.repo.indexSha)
      BY <3>2, <3>5, <3>6, EnforcedFindsAll DEF Protects
    <3>7. snapshot.state = "enforced" => Protects(snapshot.config, stood, snapshot.commit)
      BY <3>1, <3>6 DEF toPersistedSnapshot, item
    <3> QED BY <1>0, <3>4, <3>7 DEF Put, SavedProtects, stood
  <2>4. CASE p # x
    BY <1>3, <2>1, <2>4 DEF ReplicaStep, LeftAlone
  <2>5. CASE p = x /\ ~Saves(p)
    BY <1>3, <2>1, <2>2, <2>5 DEF ReplicaStep, Clears, Blank, Begins, Reads, Read, Resolves, Ends, Marked
  <2> QED BY <2>3, <2>4, <2>5
<1> QED BY <1>1, <1>2, <1>3 DEF View

-----------------------------------------------------------------------------
(* The theorems. *)

LEMMA SweepStep ==
  ASSUME MonitoringAssumption
  PROVE  SweepInv /\ [SweepNext]_sweepVars => SweepInv'
<1> SUFFICES ASSUME SweepInv, [SweepNext]_sweepVars PROVE SweepInv'
  OBVIOUS
<1>1. SweepTyped /\ SweepTyped' /\ View
  BY SweepTypedStep, StepView DEF SweepInv
<1> QED BY <1>1, OneSweepsStep, ReadsStandStep, SavedStandStep, GoneStayStep, AlertsStep, EnforcedStep
        DEF SweepInv

(* The invariant holds of every behaviour.                                 *)
THEOREM SweepInductive ==
  ASSUME MonitoringAssumption
  PROVE  SweepSpec => []SweepInv
BY SweepInitially, SweepStep, PTL DEF SweepSpec

(* The lock, the sweeps and their parts, and the statuses of the snapshots are *)
(* what the code keeps in them, for any replicas, repositories and records. *)
THEOREM SweepTypeCorrect ==
  ASSUME MonitoringAssumption
  PROVE  SweepSpec => []SweepTypeOK
<1>1. SweepInv => SweepTypeOK
  BY DEF SweepInv, SweepTyped, SweepShape, SweepTypeOK
<1> QED BY <1>1, SweepInductive, PTL

(* saveMonitoringSnapshot and resolveMonitoringAlertsForInactiveRepositories *)
(* keep the active alerts those of the latest snapshot, however many replicas *)
(* sweep, stop, fail or crash, unless a session that held the lock was lost. *)
THEOREM AlertsFollowLatestSnapshotTheorem ==
  ASSUME MonitoringAssumption
  PROVE  SweepSpec => []AlertsFollowLatestSnapshot
<1>1. SweepInv => AlertsFollowLatestSnapshot
  BY DEF SweepInv
<1> QED BY <1>1, SweepInductive, PTL

(* What a sweep saves as enforced was attested, for everything the configuration *)
(* turns on, by successes and accepted runs of the indexed commit that stood on *)
(* record while that sweep went on: each of the four queries of            *)
(* listMonitoringRepositoryInventory sees another moment, the upserts of verdicts *)
(* and evidence overwrite anything in between, and a sweep may have lost its *)
(* lock.                                                                   *)
THEOREM EnforcedMeansProtectedTheorem ==
  ASSUME MonitoringAssumption
  PROVE  SweepSpec => []EnforcedMeansProtected
<1>1. SweepInv => EnforcedMeansProtected
  BY DEF SweepInv
<1> QED BY <1>1, SweepInductive, PTL

(* A tally of snapshots m over the repositories of f.                      *)
Tallies(f, m, tally) ==
    LET states == {m[r].state : r \in DOMAIN f}
    IN  /\ tally.total = Cardinality(DOMAIN f)
        /\ DOMAIN tally.states = states
        /\ \A s \in states : tally.states[s] = Cardinality({r \in DOMAIN f : m[r].state = s})

(* buildWeeklyCoverageReport counts each snapshot by its state.            *)
LEMMA ReportCounts ==
  ASSUME NEW f, NEW m, \A r \in DOMAIN f : m[r] = f[r]
  PROVE  Tallies(f, m, buildWeeklyCoverageReport(f))
<1> DEFINE metrics == [r \in DOMAIN f |-> toWeeklyRepositoryMetrics(f[r])]
<1>1. DOMAIN metrics = DOMAIN f /\ \A r \in DOMAIN f : metrics[r].state = m[r].state
  BY DEF toWeeklyRepositoryMetrics
<1>2. /\ buildWeeklyCoverageReport(f).total = Cardinality(DOMAIN metrics)
      /\ buildWeeklyCoverageReport(f).states =
           [s \in {metrics[r].state : r \in DOMAIN metrics} |->
              Cardinality({r \in DOMAIN metrics : metrics[r].state = s})]
  BY DEF buildWeeklyCoverageReport
<1> HIDE DEF metrics
<1>3. {metrics[r].state : r \in DOMAIN metrics} = {m[r].state : r \in DOMAIN f}
  BY <1>1
<1>4. \A s : {r \in DOMAIN metrics : metrics[r].state = s} = {r \in DOMAIN f : m[r].state = s}
  BY <1>1
<1> QED BY <1>1, <1>2, <1>3, <1>4, Zenon DEF Tallies

(* performReconciliation publishes a report only when every repository it listed *)
(* was saved, and counts each by its latest snapshot: a cancelled or failed *)
(* sweep publishes nothing.                                                *)
THEOREM ReportIsOfACompleteSweepTheorem ==
  ASSUME MonitoringAssumption
  PROVE  SweepSpec => ReportIsOfACompleteSweep
<1> DEFINE Complete ==
      (report' # report /\ ~lost) =>
         \E p \in Procs :
            LET listed == DOMAIN sweep[p].rows
                states == {latest[r].state : r \in listed}
            IN  /\ sweep[p].pc = "each" /\ listed \subseteq DOMAIN latest
                /\ report'.total = Cardinality(listed)
                /\ DOMAIN report'.states = states
                /\ \A s \in states :
                     report'.states[s] = Cardinality({r \in listed : latest[r].state = s})
<1>1. ASSUME SweepInv, [SweepNext]_sweepVars PROVE Complete
  <2> SUFFICES ASSUME report' # report, ~lost PROVE Complete
    OBVIOUS
  <2>1. View
    BY <1>1, StepView DEF SweepInv
  <2>2. PICK p \in Procs : Ends(p)
    BY <2>1 DEF View, sweepVars, SessionEnds, ChangeOfRecords, ReplicaStep, Clears, Begins, Reads, Resolves,
                Saves, Marked
  <2>3. /\ sweep[p].pc = "each" /\ sweep[p].todo = {}
        /\ report' = buildWeeklyCoverageReport(sweep[p].saved)
    BY <2>2 DEF Ends
  <2>4. /\ DOMAIN sweep[p].saved = DOMAIN sweep[p].rows
        /\ \A r \in DOMAIN sweep[p].saved : r \in DOMAIN latest /\ latest[r] = sweep[p].saved[r]
    BY <1>1, <2>3 DEF SweepInv, SavedStand
  <2> DEFINE f == sweep[p].saved
             listed == DOMAIN sweep[p].rows
  <2>5. \A r \in DOMAIN f : latest[r] = f[r]
    BY <2>4
  <2> HIDE DEF f
  <2>6. Tallies(f, latest, buildWeeklyCoverageReport(f))
    BY <2>5, ReportCounts
  <2>7. DOMAIN f = listed /\ report' = buildWeeklyCoverageReport(f) /\ listed \subseteq DOMAIN latest
    BY <2>3, <2>4 DEF f
  <2> HIDE DEF listed
  <2>8. LET states == {latest[r].state : r \in listed}
        IN  /\ report'.total = Cardinality(listed)
            /\ DOMAIN report'.states = states
            /\ \A s \in states :
                 report'.states[s] = Cardinality({r \in listed : latest[r].state = s})
    BY <2>6, <2>7, Zenon DEF Tallies
  <2> QED BY <2>3, <2>7, <2>8, Zenon DEF listed
<1>2. SweepInv /\ [SweepNext]_sweepVars => [Complete]_sweepVars
  BY <1>1
<1>3. SweepSpec => [][Complete]_sweepVars
  BY <1>2, SweepInductive, PTL DEF SweepSpec
<1> QED BY <1>3 DEF ReportIsOfACompleteSweep

(* When a sweep ends well, a repository that was away from its start on has no *)
(* alert left, whenever the repository left and whatever another sweep saved. *)
THEOREM SweepClearsTheDepartedTheorem ==
  ASSUME MonitoringAssumption
  PROVE  SweepSpec => SweepClearsTheDeparted
<1> DEFINE Cleared ==
      \A p \in Procs :
         (sweep[p].pc = "release" /\ sweep'[p].pc = "idle" /\ sweep[p].outcome = "success" /\ ~lost)
           => \A r \in sweep[p].gone : alerts[r] = {}
<1>1. SweepInv => Cleared
  BY DEF SweepInv, GoneStay
<1>2. SweepInv /\ [SweepNext]_sweepVars => [Cleared]_sweepVars
  BY <1>1
<1>3. SweepSpec => [][Cleared]_sweepVars
  BY <1>2, SweepInductive, PTL DEF SweepSpec
<1> QED BY <1>3 DEF SweepClearsTheDeparted

-----------------------------------------------------------------------------
(***************************************************************************)
(* The rollout of the gate to the repository.                              *)
(***************************************************************************)
(* A sequence, whatever its elements are.                                  *)
Sequence(s) == s \in Seq({s[i] : i \in DOMAIN s})

(* The configuration and the caller are there together, with one pin.      *)
Coherent(files) == /\ files.config \in Configs \cup {None}
                   /\ files.workflow \in Workflows \cup {None}
                   /\ files.config = None <=> files.workflow = None
                   /\ files.config # None => files.config.pin = files.workflow.pin

(* Commits have ascending times, and a file that no commit touches stays.  *)
History ==
    /\ now \in Nat /\ Sequence(commits) /\ Len(commits) >= 1
    /\ \A i \in 1 .. Len(commits) :
         /\ DOMAIN commits[i] = Files \cup {"at"} /\ Coherent(commits[i])
         /\ commits[i].at \in Nat /\ commits[i].at <= now
    /\ \A i, j \in 1 .. Len(commits) : i < j => commits[i].at < commits[j].at
    /\ \A i, j \in 1 .. Len(commits) :
         (i <= j /\ \A k \in i + 1 .. j : k \notin Touching(commits, "config"))
           => commits[i].config = commits[j].config

(* A run starts while its head is the head of the branch, with a caller     *)
(* workflow; only its last attempt may be pending.                          *)
Execution(r) ==
    /\ DOMAIN r = {"event", "head", "attempts"}
    /\ r.event \in {"push", "workflow_dispatch", "schedule"}
    /\ r.head \in 1 .. Len(commits) /\ commits[r.head].workflow # None
    /\ Sequence(r.attempts) /\ Len(r.attempts) \in 1 .. counts.attempts
    /\ \A a \in 1 .. Len(r.attempts) :
         /\ r.attempts[a].at \in Nat /\ r.attempts[a].at <= now
         /\ commits[r.head].at < r.attempts[a].at
         /\ a < Len(r.attempts) => r.attempts[a].conclusion # "pending"
    /\ r.head < Len(commits) => r.attempts[1].at < commits[r.head + 1].at

Counted == /\ DOMAIN counts = {"attempts", "edits", "waits"}
           /\ counts.attempts \in 0 .. MaxAttempts

Executions == /\ Sequence(runs) /\ Len(runs) <= counts.attempts
              /\ \A i \in 1 .. Len(runs) : Execution(runs[i])

(* What the verifier of an attempt found stays true.                        *)
Checked(z) ==
    \/ z.checked = "nothing"
    \/ /\ z.checked \in {"provenance", "rulesets"} /\ z.at \in Nat /\ z.at <= now
       /\ \E x \in Attempts : Observed(x)
       /\ z.checked = "rulesets" => RequiredSince(z.at)

Vouched(r) == \A a \in 1 .. Len(r.attempts) : Checked(r.attempts[a])

Verification == \A i \in 1 .. Len(runs) : Vouched(runs[i])

(* A list of runs stays true of the attempts it saw.                       *)
Listing(l) ==
    /\ DOMAIN l \subseteq 1 .. Len(runs)
    /\ \A i \in DOMAIN l :
         /\ l[i].event = runs[i].event /\ l[i].head = runs[i].head
         /\ l[i].attempt \in 1 .. Len(runs[i].attempts)
         /\ l[i].at = runs[i].attempts[l[i].attempt].at
         /\ l[i].conclusion # "pending"
              => runs[i].attempts[l[i].attempt].conclusion # "pending"

(* A run that completed, and one of which some attempt passed its gate.    *)
GateHolds(i) == i \in 1 .. Len(runs) /\ runs[i].attempts[1].conclusion # "pending"

ObservationHolds(o) ==
    /\ o.run \in 1 .. Len(runs) /\ o.attempt \in 1 .. Len(runs[o.run].attempts)
    /\ o.head = runs[o.run].head
    /\ runs[o.run].attempts[o.attempt].conclusion # "pending"
    /\ runs[o.run].attempts[o.attempt].at = o.startedAt
    /\ \E b \in 1 .. Len(runs[o.run].attempts) : runs[o.run].attempts[b].gate = "success"
    /\ now - o.startedAt >= MinimumDays
    /\ isAlwaysSecurityEvent(runs[o.run].event)

(* A command began with a configuration; commits that its history does not  *)
(* show are younger; and t lies in the report-only stretch of that history. *)
Begun(c) == /\ c.of.began \in Nat /\ c.of.began <= now
            /\ c.of.config # None /\ c.of.config.mode \in {"report-only", "enforce"}

Seen(c, t) ==
    /\ c.seen \in 1 .. Len(commits)
    /\ \A k \in c.seen + 1 .. Len(commits) : commits[k].at > c.of.began
    /\ t \in Nat
    /\ \E m \in 1 .. c.seen :
         /\ commits[m].at <= t
         /\ c.of.config.mode = "report-only" =>
              \A k \in m .. c.seen : ModeAt(commits, k) = "report-only"
         /\ \A k \in m .. c.seen : ModeAt(commits, k) \in {"report-only", "enforce"}
         /\ \A e, k \in m .. c.seen :
              (e <= k /\ ModeAt(commits, e) = "enforce") => ModeAt(commits, k) = "enforce"

DraftHolds(c) == /\ GateHolds(c.gateRun) /\ ObservationHolds(c.proof)
                 /\ c.proof.attempt = 1 => ModeAt(commits, c.proof.head) = "report-only"

(* What a command has read and will use.                                   *)
CommandHolds(c) ==
    /\ c.step \in {"history", "changes", "gate", "baseline", "observation", "rules"} => Begun(c)
    /\ c.step = "changes" => {"step", "of", "seen", "since", "times", "awaited"} \subseteq DOMAIN c
    /\ c.step \in {"changes", "gate", "baseline", "observation"} => Seen(c, c.since)
    /\ c.step \in {"gate", "baseline", "observation"} => Listing(c.listed)
    /\ c.step \in {"baseline", "observation", "rules"} => GateHolds(c.gate.run)
    /\ c.step = "rules" => /\ ObservationHolds(c.period.proof)
                           /\ Seen(c, c.period.proof.startedAt)
                           /\ c.period.proof.startedAt < c.of.began
    /\ c.step = "draft" => DraftHolds(c)
    /\ c.step = "transition" => c.config # None

Proposals == \A p \in pulls : p.base \in 1 .. Len(commits) /\ Coherent(p.files)

Commands == CommandHolds(cli)

RolloutInv == History /\ Counted /\ Executions /\ Verification /\ Proposals /\ Commands

-----------------------------------------------------------------------------
(* Sequences.                                                              *)

LEMMA SequenceIs ==
    ASSUME NEW s, Sequence(s)
    PROVE  Len(s) \in Nat /\ DOMAIN s = 1 .. Len(s)
BY DEF Sequence

LEMMA SequenceGrows ==
    ASSUME NEW s, NEW e, Sequence(s)
    PROVE  /\ Sequence(Append(s, e))
           /\ Len(Append(s, e)) = Len(s) + 1
           /\ Append(s, e)[Len(s) + 1] = e
           /\ \A i \in 1 .. Len(s) : Append(s, e)[i] = s[i]
<1> DEFINE T == {s[i] : i \in DOMAIN s} \cup {e}
           a == Append(s, e)
<1>1. s \in Seq(T) /\ e \in T
  BY SeqMonotonic DEF Sequence
<1>2. /\ a \in Seq(T) /\ Len(a) = Len(s) + 1 /\ DOMAIN a = 1 .. Len(s) + 1
      /\ \A i \in 1 .. Len(s) : a[i] = s[i]
      /\ a[Len(s) + 1] = e
  BY <1>1, AppendProperties, LenProperties
<1>3. Sequence(a)
  <2> HIDE DEF a
  <2>1. a \in [1 .. Len(a) -> {a[i] : i \in DOMAIN a}] /\ Len(a) \in Nat
    BY <1>2, LenProperties
  <2> QED BY <2>1, IsASeq, SeqDef DEF Sequence
<1> QED BY <1>2, <1>3

LEMMA SequenceChanges ==
    ASSUME NEW s, NEW e, Sequence(s), NEW i \in DOMAIN s
    PROVE  /\ Sequence([s EXCEPT ![i] = e])
           /\ Len([s EXCEPT ![i] = e]) = Len(s)
           /\ [s EXCEPT ![i] = e][i] = e
           /\ \A j \in DOMAIN s \ {i} : [s EXCEPT ![i] = e][j] = s[j]
<1> DEFINE c == [s EXCEPT ![i] = e]
<1>1. Len(s) \in Nat /\ DOMAIN s = 1 .. Len(s)
  BY SequenceIs
<1>2. DOMAIN c = 1 .. Len(s) /\ c[i] = e /\ \A j \in DOMAIN s \ {i} : c[j] = s[j]
  BY <1>1
<1>3. c = [j \in 1 .. Len(s) |-> c[j]]
  BY <1>1
<1> HIDE DEF c
<1>4. c \in [1 .. Len(s) -> {c[j] : j \in DOMAIN c}]
  BY <1>2, <1>3
<1>5. c \in Seq({c[j] : j \in DOMAIN c})
  BY <1>4, <1>1, SeqDef
<1>6. Len(c) = Len(s)
  BY <1>5, <1>2, <1>1, LenProperties
<1>7. Sequence(c)
  BY <1>5 DEF Sequence
<1> QED BY <1>2, <1>6, <1>7 DEF c

LEMMA SequenceOfOne ==
    ASSUME NEW e
    PROVE  Sequence(<<e>>) /\ Len(<<e>>) = 1 /\ <<e>>[1] = e
<1>1. <<e>> \in Seq({e}) /\ DOMAIN <<e>> = 1 .. 1 /\ <<e>>[1] = e
  OBVIOUS
<1>2. {<<e>>[i] : i \in DOMAIN <<e>>} = {e}
  BY <1>1
<1> QED BY <1>1, <1>2 DEF Sequence

LEMMA SequenceOfNone == Sequence(<<>>) /\ Len(<<>>) = 0
<1>1. <<>> \in Seq({<<>>[i] : i \in DOMAIN <<>>})
  BY EmptySeq
<1> QED BY <1>1 DEF Sequence

-----------------------------------------------------------------------------
(* The kinds of steps.                                                     *)

CountsKept == DOMAIN counts' = DOMAIN counts /\ counts'.attempts = counts.attempts

(* The ruleset that was required since a time still was.                   *)
RulesLast == \A t \in Nat : t <= now /\ RequiredSince(t) => RequiredSince(t)'

(* A commit of coherent files; a merged pull request is gone.              *)
CommitStep == \E c :
    /\ DOMAIN c = Files \cup {"at"} /\ Coherent(c) /\ c.at = now + 1
    /\ commits' = Append(commits, c) /\ now' = now + 1
    /\ UNCHANGED <<runs, rules, cli>> /\ pulls' \subseteq pulls /\ CountsKept

(* A pull request of coherent files, or none.                              *)
PullStep ==
    /\ UNCHANGED <<now, commits, runs, rules>> /\ CountsKept /\ cli' \in {cli, NoCommand}
    /\ \A p \in pulls' \ pulls : p.base = Len(commits) /\ Coherent(p.files)

(* A command goes on with what it has read.                                *)
CommandStep == /\ UNCHANGED <<now, commits, runs, pulls, counts>> /\ RulesLast
               /\ \E c : CommandHolds(c) /\ cli' = c

(* What a run becomes: a new one, one with another attempt, or one whose    *)
(* pending attempt ends or has verified more.                               *)
Fresh(x, commit) == /\ x.at = now + 1 /\ x.checked = "nothing"
                    /\ GateMay(x, commit, x.checked)

RunBegins(r) == \E x : \E event \in {"push", "workflow_dispatch", "schedule"} :
    /\ Fresh(x, Len(commits)) /\ commits[Len(commits)].workflow # None
    /\ r = [event |-> event, head |-> Len(commits), attempts |-> <<x>>]
RunRepeats(q, r) == \E x :
    /\ Fresh(x, q.head)
    /\ q.attempts[Len(q.attempts)].conclusion # "pending"
    /\ r = [q EXCEPT !.attempts = Append(@, x)]
RunGoesOn(q, r) == \E x :
    /\ q.attempts[Len(q.attempts)].conclusion = "pending"
    /\ x.at = q.attempts[Len(q.attempts)].at
    /\ q.attempts[Len(q.attempts)].gate = "success" => x.gate = "success"
    /\ x.checked = q.attempts[Len(q.attempts)].checked \/ Checked(x)
    /\ GateMay(x, q.head, x.checked)
    /\ r = [q EXCEPT !.attempts[Len(q.attempts)] = x]

Attempted == /\ counts.attempts < MaxAttempts
             /\ counts' = [counts EXCEPT !["attempts"] = @ + 1] /\ now' = now + 1

RunStep ==
    /\ UNCHANGED <<commits, rules, pulls, cli>>
    /\ \/ \E r : RunBegins(r) /\ runs' = Append(runs, r) /\ Attempted
       \/ \E r : \E i \in DOMAIN runs :
            /\ runs' = [runs EXCEPT ![i] = r]
            /\ \/ RunRepeats(runs[i], r) /\ Attempted
               \/ RunGoesOn(runs[i], r) /\ UNCHANGED <<now, counts>>

QuietStep == /\ UNCHANGED <<commits, runs, pulls, cli>> /\ CountsKept /\ RulesLast
             /\ now' \in Nat /\ now <= now'

(* An attempt of a run, as a step leaves it.                               *)
Earned(r) ==
    LET z == r.attempts[Len(r.attempts)]
    IN  (z.gate = "success" /\ ModeAt(commits, r.head) = "enforce") => z.checked = "rulesets"

LEMMA RulesStay ==
    ASSUME UNCHANGED rules
    PROVE  RulesLast
BY DEF rules, RulesLast, RequiredSince

LEMMA TipIs ==
    ASSUME History
    PROVE  /\ Len(commits) \in Nat /\ Len(commits) >= 1 /\ DOMAIN commits = 1 .. Len(commits)
           /\ Tip = commits[Len(commits)] /\ Coherent(Tip)
           /\ DOMAIN Tip = Files \cup {"at"}
BY SequenceIs DEF History, Tip, Last

LEMMA CountKeeps ==
    ASSUME Counted, NEW bound
    PROVE  /\ Count("waits", bound) => CountsKept
           /\ \A kind : ByHand(kind) => CountsKept
BY DEF Counted, Count, ByHand, CountsKept

LEMMA CommitIs ==
    ASSUME NEW files, Coherent(files), Commit(files), UNCHANGED <<runs, rules, cli>>,
           pulls' \subseteq pulls, CountsKept
    PROVE  CommitStep
<1> DEFINE c == CommitOf(files, now + 1)
<1>1. DOMAIN c = Files \cup {"at"} /\ c.at = now + 1 /\ Coherent(c)
  BY DEF CommitOf, Files, Coherent
<1>2. commits' = Append(commits, c) /\ now' = now + 1
  BY DEF Commit
<1> HIDE DEF c
<1> QED BY <1>1, <1>2 DEF CommitStep

LEMMA MergedIsCoherent ==
    ASSUME RolloutAssumption, NEW base, NEW mine, NEW theirs,
           Coherent(base), Coherent(mine), Coherent(theirs),
           \A f \in Files : MergeableFile(f, base[f], mine[f], theirs[f])
    PROVE  Coherent([f \in Files |-> MergedFile(f, base[f], mine[f], theirs[f])])
<1> DEFINE c == MergedFile("config", base.config, mine.config, theirs.config)
           w == MergedFile("workflow", base.workflow, mine.workflow, theirs.workflow)
<1>1. /\ w = Merged(base.workflow, mine.workflow, theirs.workflow)
      /\ Mergeable(base.workflow, mine.workflow, theirs.workflow)
  BY DEF MergedFile, MergeableFile, ByLine, Files
<1>2. w \in Workflows \cup {None}
  BY <1>1 DEF Merged, Coherent
<1>3. CASE None \in {base.config, mine.config, theirs.config}
  <2>1. /\ c = Merged(base.config, mine.config, theirs.config)
        /\ Mergeable(base.config, mine.config, theirs.config)
    BY <1>3 DEF MergedFile, MergeableFile, ByLine, Files
  <2>2. c \in Configs \cup {None}
    BY <2>1 DEF Merged, Coherent
  <2>3. /\ c = None <=> w = None
        /\ c # None => c.pin = w.pin
    BY <1>1, <2>1, <1>3 DEF Merged, Mergeable, Coherent
  <2> QED BY <1>2, <2>2, <2>3 DEF Coherent, Files
<1>4. CASE None \notin {base.config, mine.config, theirs.config}
  <2>1. /\ c = [x \in ConfigFields |->
                   Merged(base.config[x], mine.config[x], theirs.config[x])]
        /\ \A x \in ConfigFields :
              Mergeable(base.config[x], mine.config[x], theirs.config[x])
    BY <1>4 DEF MergedFile, MergeableFile, ByLine, Files
  <2>2. base.config \in Configs /\ mine.config \in Configs /\ theirs.config \in Configs
    BY <1>4 DEF Coherent
  <2>3. c \in Configs
    BY <2>1, <2>2 DEF Configs, Merged, ConfigFields
  <2>4. /\ c.pin = Merged(base.config.pin, mine.config.pin, theirs.config.pin)
        /\ Mergeable(base.config.pin, mine.config.pin, theirs.config.pin)
    BY <2>1 DEF ConfigFields
  <2>5. w # None /\ c.pin = w.pin
    BY <1>1, <2>4, <1>4 DEF Merged, Mergeable, Coherent
  <2>6. c # None
    BY <2>3 DEF RolloutAssumption
  <2> QED BY <1>2, <2>3, <2>5, <2>6 DEF Coherent, Files
<1> QED BY <1>3, <1>4

LEMMA MergePullIs ==
    ASSUME RolloutAssumption, RolloutInv, NEW p, MergePull(p)
    PROVE  CommitStep
<1> DEFINE base == commits[p.base]
           files == [f \in Files |-> MergedFile(f, base[f], p.files[f], Tip[f])]
<1>1. p \in pulls /\ Coherent(base) /\ Coherent(p.files) /\ Coherent(Tip)
  BY TipIs DEF MergePull, RolloutInv, Proposals, History
<1>2. Coherent(files)
  <2>1. \A f \in Files : MergeableFile(f, base[f], p.files[f], Tip[f])
    BY DEF MergePull
  <2> HIDE DEF base
  <2> QED BY <1>1, <2>1, MergedIsCoherent
<1>3. Commit(files) /\ UNCHANGED <<runs, rules, cli, counts>> /\ pulls' = pulls \ {p}
  BY DEF MergePull
<1> HIDE DEF files
<1> QED BY <1>2, <1>3, CommitIs DEF CountsKept

LEMMA EditConfigIs ==
    ASSUME RolloutAssumption, RolloutInv, NEW mode \in ScannerModes, NEW broken \in Breakages,
           EditConfig(mode, broken)
    PROVE  CommitStep
<1> DEFINE config == [Tip.config EXCEPT !.mode = mode, !.broken = broken]
           files == [Tip EXCEPT !.config = config]
<1>1. Coherent(Tip) /\ DOMAIN Tip = Files \cup {"at"} /\ Tip.config # None
  BY TipIs DEF RolloutInv, EditConfig
<1>2. Tip.config \in Configs
  BY <1>1 DEF Coherent
<1>3. config \in Configs /\ config.pin = Tip.config.pin
  BY <1>2 DEF Configs
<1>4. Commit(files) /\ UNCHANGED <<runs, rules, pulls, cli>> /\ ByHand("config")
  BY DEF EditConfig
<1>5. Coherent(files)
  <2>1. files.config = config /\ files.workflow = Tip.workflow
    BY <1>1 DEF Files
  <2> HIDE DEF files, config
  <2>2. config # None
    BY <1>3 DEF RolloutAssumption
  <2> QED BY <1>1, <1>3, <2>1, <2>2 DEF Coherent
<1> HIDE DEF files
<1> QED BY <1>4, <1>5, CommitIs, CountKeeps DEF RolloutInv

LEMMA EditWorkflowIs ==
    ASSUME RolloutAssumption, RolloutInv, EditWorkflow
    PROVE  CommitStep
<1> DEFINE workflow == [Tip.workflow EXCEPT !.policyMode = "edited"]
           files == [Tip EXCEPT !.workflow = workflow]
<1>1. Coherent(Tip) /\ DOMAIN Tip = Files \cup {"at"} /\ Tip.workflow # None
  BY TipIs DEF RolloutInv, EditWorkflow
<1>2. Tip.workflow \in Workflows
  BY <1>1 DEF Coherent
<1>3. workflow \in Workflows /\ workflow.pin = Tip.workflow.pin
  BY <1>2 DEF Workflows
<1>4. Commit(files) /\ UNCHANGED <<runs, rules, pulls, cli>> /\ ByHand("workflow")
  BY DEF EditWorkflow
<1>5. Coherent(files)
  <2>1. files.workflow = workflow /\ files.config = Tip.config
    BY <1>1 DEF Files
  <2> HIDE DEF files, workflow
  <2>2. workflow # None
    BY <1>3 DEF RolloutAssumption
  <2> QED BY <1>1, <1>3, <2>1, <2>2 DEF Coherent
<1> HIDE DEF files
<1> QED BY <1>4, <1>5, CommitIs, CountKeeps DEF RolloutInv

LEMMA EditBaselineIs ==
    ASSUME RolloutInv, NEW document, EditBaseline(document)
    PROVE  CommitStep
<1> DEFINE files == [Tip EXCEPT !.baseline = document]
<1>1. Coherent(Tip) /\ DOMAIN Tip = Files \cup {"at"}
  BY TipIs DEF RolloutInv
<1>2. Commit(files) /\ UNCHANGED <<runs, rules, pulls, cli>> /\ ByHand("baseline")
  BY DEF EditBaseline
<1>3. files.workflow = Tip.workflow /\ files.config = Tip.config
  BY <1>1 DEF Files
<1> HIDE DEF files
<1>4. Coherent(files)
  BY <1>1, <1>3 DEF Coherent
<1> QED BY <1>2, <1>4, CommitIs, CountKeeps DEF RolloutInv

LEMMA OpenPullIs ==
    ASSUME NEW kind, NEW files, OpenPull(kind, files),
           UNCHANGED <<now, commits, runs, rules>>, CountsKept,
           cli' \in {cli, NoCommand},
           Coherent([f \in Files |-> IF f \in DOMAIN files THEN files[f] ELSE Tip[f]])
    PROVE  PullStep
BY DEF OpenPull, PullStep

LEMMA CallerIs ==
    ASSUME NEW pin \in Pins, NEW mode \in ScannerModes
    PROVE  /\ generateCallerWorkflow(pin, mode) \in Workflows
           /\ generateCallerWorkflow(pin, mode).pin = pin
BY DEF generateCallerWorkflow, Workflows

LEMMA OnboardIs ==
    ASSUME RolloutAssumption, RolloutInv, NEW pin \in Pins,
           NEW mode \in {"advisory", "report-only"}, onboard(mode, pin)
    PROVE  PullStep
<1> DEFINE files == [config |-> NewConfig(mode, pin), report |-> TRUE,
                     workflow |-> generateCallerWorkflow(pin, mode)]
<1>1. NewConfig(mode, pin) \in Configs /\ NewConfig(mode, pin).pin = pin
  BY DEF NewConfig, Configs, ScannerModes
<1>2. /\ generateCallerWorkflow(pin, mode) \in Workflows
      /\ generateCallerWorkflow(pin, mode).pin = pin
  BY CallerIs DEF ScannerModes
<1>3. Coherent([f \in Files |-> IF f \in DOMAIN files THEN files[f] ELSE Tip[f]])
  BY <1>1, <1>2 DEF Coherent, Files, RolloutAssumption
<1>4. /\ OpenPull("onboard", files)
      /\ UNCHANGED <<now, commits, runs, rules, cli, counts>>
  BY DEF onboard
<1> HIDE DEF files
<1> QED BY <1>3, <1>4, OpenPullIs DEF CountsKept

LEMMA UpgradeIs ==
    ASSUME RolloutAssumption, RolloutInv, NEW pin \in Pins, upgrade(pin)
    PROVE  PullStep
<1> DEFINE config == [Tip.config EXCEPT !.pin = pin]
           workflow == generateCallerWorkflow(pin, config.mode)
           files == [config |-> config, workflow |-> workflow]
<1>1. Coherent(Tip) /\ Tip.config # None
  BY TipIs DEF RolloutInv, upgrade
<1>2. Tip.config \in Configs
  BY <1>1 DEF Coherent
<1>3. config \in Configs /\ config.pin = pin /\ config.mode \in ScannerModes
  BY <1>2 DEF Configs
<1>4. /\ OpenPull("upgrade", files)
      /\ UNCHANGED <<now, commits, runs, rules, cli, counts>>
  BY DEF upgrade
<1> HIDE DEF config
<1>5. workflow \in Workflows /\ workflow.pin = pin
  BY <1>3, CallerIs
<1>6. Coherent([f \in Files |-> IF f \in DOMAIN files THEN files[f] ELSE Tip[f]])
  <2> HIDE DEF workflow
  <2> QED BY <1>3, <1>5 DEF Coherent, Files, RolloutAssumption
<1> HIDE DEF files
<1> QED BY <1>4, <1>6, OpenPullIs DEF CountsKept

LEMMA OffboardIs ==
    ASSUME RolloutInv, offboard
    PROVE  PullStep
<1> DEFINE files == [config |-> None, workflow |-> None]
<1>1. Coherent([f \in Files |-> IF f \in DOMAIN files THEN files[f] ELSE Tip[f]])
  BY DEF Coherent, Files
<1>2. /\ OpenPull("offboard", files) /\ ByHand("offboard")
      /\ UNCHANGED <<now, commits, runs, rules, cli>>
  BY DEF offboard
<1> HIDE DEF files
<1> QED BY <1>1, <1>2, OpenPullIs, CountKeeps DEF RolloutInv

LEMMA BaselineIs ==
    ASSUME RolloutInv, NEW a, baseline(a)
    PROVE  PullStep
<1> DEFINE document == buildBaselineDocument(runs, cli.gateRun, a, cli.proof)
           files == [baseline |-> document]
<1>1. Coherent(Tip)
  BY TipIs DEF RolloutInv
<1>2. Coherent([f \in Files |-> IF f \in DOMAIN files THEN files[f] ELSE Tip[f]])
  <2> HIDE DEF document
  <2> QED BY <1>1 DEF Coherent, Files
<1>3. /\ UNCHANGED pulls \/ OpenPull("baseline", files)
      /\ cli' = NoCommand /\ UNCHANGED <<now, commits, runs, rules, counts>>
  BY DEF baseline
<1> HIDE DEF files
<1> QED BY <1>2, <1>3, OpenPullIs DEF CountsKept, PullStep

LEMMA EnforceIs ==
    ASSUME RolloutAssumption, RolloutInv, enforce
    PROVE  PullStep
<1> DEFINE config == [cli.config EXCEPT !.mode = "enforce"]
           files == [config |-> config]
<1>1. Coherent(Tip) /\ cli.config # None
  BY TipIs DEF RolloutInv, Commands, CommandHolds, enforce
<1>2. /\ UNCHANGED pulls \/ (Tip.config = cli.config /\ OpenPull("enforce", files))
      /\ cli' = NoCommand /\ UNCHANGED <<now, commits, runs, rules, counts>>
  BY DEF enforce
<1>3. CASE Tip.config = cli.config /\ OpenPull("enforce", files)
  <2>1. cli.config \in Configs
    BY <1>1, <1>3 DEF Coherent
  <2>2. config \in Configs /\ config.pin = cli.config.pin
    BY <2>1 DEF Configs, ScannerModes
  <2> HIDE DEF config
  <2>3. Coherent([f \in Files |-> IF f \in DOMAIN files THEN files[f] ELSE Tip[f]])
    BY <1>1, <1>3, <2>2 DEF Coherent, Files, RolloutAssumption
  <2> HIDE DEF files
  <2> QED BY <1>2, <1>3, <2>3, OpenPullIs DEF CountsKept
<1>4. CASE UNCHANGED pulls
  BY <1>2, <1>4 DEF PullStep, CountsKept
<1> QED BY <1>2, <1>3, <1>4

LEMMA StartRunIs ==
    ASSUME RolloutAssumption, RolloutInv, NEW o \in Outcomes, StartRun(o)
    PROVE  RunStep
<1> DEFINE x == Attempt(o, now + 1, "nothing")
           r == [event |-> o.event, head |-> Len(commits), attempts |-> <<x>>]
<1>1. RunBegins(r)
  <2>1. Fresh(x, Len(commits))
    BY DEF StartRun, GateMay, Attempt, Fresh
  <2>2. commits[Len(commits)].workflow # None
    BY TipIs DEF RolloutInv, StartRun
  <2>3. o.event \in {"push", "workflow_dispatch", "schedule"}
    BY DEF RolloutAssumption
  <2> HIDE DEF x
  <2> QED BY <2>1, <2>2, <2>3 DEF RunBegins
<1>2. runs' = Append(runs, r) /\ UNCHANGED <<commits, rules, pulls, cli>>
  BY DEF StartRun
<1>3. Attempted
  BY DEF StartRun, Count, Attempted
<1> HIDE DEF r
<1> QED BY <1>1, <1>2, <1>3 DEF RunStep

LEMMA RerunIs ==
    ASSUME NEW i, NEW o \in Outcomes, Rerun(i, o)
    PROVE  RunStep
<1> DEFINE x == Attempt(o, now + 1, "nothing")
           r == [runs[i] EXCEPT !.attempts = Append(@, x)]
<1>1. RunRepeats(runs[i], r) /\ i \in DOMAIN runs
  <2>1. Fresh(x, runs[i].head)
    BY DEF Rerun, GateMay, Attempt, Fresh
  <2> HIDE DEF x
  <2> QED BY <2>1 DEF Rerun, RunRepeats, latestAttempt, Last
<1>2. runs' = [runs EXCEPT ![i] = r] /\ UNCHANGED <<commits, rules, pulls, cli>>
  BY DEF Rerun
<1>3. Attempted
  BY DEF Rerun, Count, Attempted
<1> HIDE DEF r
<1> QED BY <1>1, <1>2, <1>3 DEF RunStep

LEMMA FinishRunIs ==
    ASSUME NEW i, NEW o \in Outcomes, FinishRun(i, o)
    PROVE  RunStep
<1> DEFINE last == runs[i].attempts[Len(runs[i].attempts)]
           x == Attempt(o, last.at, last.checked)
           r == [runs[i] EXCEPT !.attempts[Len(runs[i].attempts)] = x]
<1>1. RunGoesOn(runs[i], r)
  <2>1. /\ last.conclusion = "pending" /\ x.at = last.at /\ x.checked = last.checked
        /\ last.gate = "success" => x.gate = "success"
        /\ GateMay(x, runs[i].head, x.checked)
    BY DEF FinishRun, latestAttempt, Last, Attempt, Undecided, GateMay
  <2> HIDE DEF x
  <2> QED BY <2>1 DEF RunGoesOn
<1>2. /\ runs' = [runs EXCEPT ![i] = r] /\ i \in DOMAIN runs
      /\ UNCHANGED <<now, commits, rules, pulls, cli, counts>>
  BY DEF FinishRun
<1> HIDE DEF r
<1> QED BY <1>1, <1>2 DEF RunStep

LEMMA VerifiesIs ==
    ASSUME NEW i, NEW before, NEW after, Verifies(i, before, after),
           NEW last, last = runs[i].attempts[Len(runs[i].attempts)],
           Checked(Attempt(last, last.at, after))
    PROVE  RunStep
<1> DEFINE x == Attempt(last, last.at, after)
           r == [runs[i] EXCEPT !.attempts[Len(runs[i].attempts)] = x]
<1>1. RunGoesOn(runs[i], r)
  <2>1. /\ last.conclusion = "pending" /\ x.at = last.at /\ Checked(x)
        /\ last.gate # "success" /\ x.gate # "success"
    BY DEF Verifies, latestAttempt, Last, Attempt, Undecided
  <2>2. GateMay(x, runs[i].head, x.checked)
    BY <2>1 DEF GateMay
  <2> HIDE DEF x
  <2> QED BY <2>1, <2>2 DEF RunGoesOn
<1>2. /\ runs' = [runs EXCEPT ![i] = r] /\ i \in DOMAIN runs
      /\ UNCHANGED <<now, commits, rules, pulls, cli, counts>>
  BY DEF Verifies
<1> HIDE DEF r
<1> QED BY <1>1, <1>2 DEF RunStep

LEMMA QuietIs ==
    ASSUME PolicyAssumption, RolloutInv,
           Wait \/ RequireCheck \/ \E ruleset, other : EditRules(ruleset, other)
    PROVE  QuietStep
<1>1. now \in Nat /\ MinimumDays \in Nat
  BY DEF RolloutInv, History, PolicyAssumption
<1>2. CASE Wait
  BY <1>1, <1>2, CountKeeps, RulesStay DEF Wait, QuietStep, RolloutInv
<1>3. CASE \E ruleset, other : EditRules(ruleset, other)
  <2>1. PICK ruleset, other : EditRules(ruleset, other)
    BY <1>3
  <2>2. RulesLast
    BY <2>1, <1>1 DEF EditRules, RulesLast, RequiredSince
  <2> QED BY <2>1, <2>2, <1>1, CountKeeps DEF EditRules, QuietStep, RolloutInv
<1>4. CASE RequireCheck
  <2>1. RulesLast
    BY <1>4 DEF RequireCheck, RulesLast, RequiredSince
  <2> QED BY <2>1, <1>1, <1>4, CountKeeps DEF RequireCheck, QuietStep, RolloutInv
<1> QED BY <1>2, <1>3, <1>4

-----------------------------------------------------------------------------
(* What no step undoes.                                                    *)

Later ==
    /\ now' \in Nat /\ now <= now'
    /\ Len(commits') \in Nat /\ Len(commits) <= Len(commits')
    /\ \A i \in 1 .. Len(commits) : commits'[i] = commits[i]
    /\ \A i \in Len(commits) + 1 .. Len(commits') : commits'[i].at \in Nat /\ commits'[i].at > now

(* What has ended, or passed its gate, stays so.                           *)
Lasts(x, y) == /\ y.at = x.at
               /\ x.conclusion # "pending" => y = x
               /\ x.gate = "success" => y.gate = "success"

RunsLast ==
    /\ Len(runs') \in Nat /\ Len(runs) <= Len(runs')
    /\ \A i \in 1 .. Len(runs) :
         /\ runs'[i].head = runs[i].head /\ runs'[i].event = runs[i].event
         /\ Len(runs'[i].attempts) \in Nat /\ Len(runs[i].attempts) <= Len(runs'[i].attempts)
         /\ \A a \in 1 .. Len(runs[i].attempts) :
              Lasts(runs[i].attempts[a], runs'[i].attempts[a])

LEMMA HistoryGrows ==
    ASSUME History, CommitStep
    PROVE  History' /\ Later
<1>1. PICK c : /\ DOMAIN c = Files \cup {"at"} /\ Coherent(c) /\ c.at = now + 1
               /\ commits' = Append(commits, c) /\ now' = now + 1
  BY DEF CommitStep
<1>2. /\ Sequence(commits) /\ Len(commits) \in Nat /\ Len(commits) >= 1 /\ now \in Nat
      /\ \A i \in 1 .. Len(commits) : commits[i].at \in Nat /\ commits[i].at <= now
  BY SequenceIs DEF History
<1>3. /\ Sequence(commits') /\ Len(commits') = Len(commits) + 1
      /\ commits'[Len(commits) + 1] = c
      /\ \A i \in 1 .. Len(commits) : commits'[i] = commits[i]
  BY <1>1, <1>2, SequenceGrows
<1>4. \A i \in 1 .. Len(commits') :
         /\ DOMAIN commits'[i] = Files \cup {"at"} /\ Coherent(commits'[i])
         /\ commits'[i].at \in Nat /\ commits'[i].at <= now'
  BY <1>1, <1>2, <1>3 DEF History
<1>5. \A i, j \in 1 .. Len(commits') : i < j => commits'[i].at < commits'[j].at
  BY <1>1, <1>2, <1>3 DEF History
<1>6. ASSUME NEW i \in 1 .. Len(commits'), NEW j \in 1 .. Len(commits'),
             i <= j, \A k \in i + 1 .. j : k \notin Touching(commits', "config")
      PROVE  commits'[i].config = commits'[j].config
  <2>1. \A k \in i + 1 .. j : commits'[k].config = commits'[k - 1].config
    BY <1>2, <1>3, <1>6 DEF Touching
  <2>2. ASSUME NEW m \in 1 .. Len(commits), i <= m, m <= j
        PROVE  commits[i].config = commits[m].config
    <3>1. \A k \in i + 1 .. m : k \notin Touching(commits, "config")
      <4> TAKE k \in i + 1 .. m
      <4>1. k \in 1 .. Len(commits) /\ k - 1 \in 1 .. Len(commits) /\ k \in i + 1 .. j
        BY <2>2, <1>2, <1>3
      <4>2. commits[k].config = commits[k - 1].config
        BY <4>1, <2>1, <1>3
      <4> QED BY <4>2 DEF Touching
    <3> QED BY <3>1, <2>2, <1>2, <1>3 DEF History
  <2>3. CASE j <= Len(commits)
    <3>1. i \in 1 .. Len(commits) /\ j \in 1 .. Len(commits)
      BY <2>3, <1>6, <1>2, <1>3
    <3>2. commits[i].config = commits[j].config
      BY <3>1, <2>2, <1>6
    <3> QED BY <3>1, <3>2, <1>3
  <2>4. CASE j = Len(commits) + 1 /\ i # j
    <3>1. commits'[j].config = commits'[Len(commits)].config
      BY <2>1, <2>4, <1>2, <1>3
    <3>2. commits[i].config = commits[Len(commits)].config
      BY <2>2, <2>4, <1>2, <1>3
    <3> QED BY <3>1, <3>2, <2>4, <1>2, <1>3
  <2> QED BY <2>3, <2>4, <1>2, <1>3
<1>7. History'
  BY <1>1, <1>2, <1>3, <1>4, <1>5, <1>6 DEF History, Coherent
<1>8. Later
  BY <1>1, <1>2, <1>3 DEF Later
<1> QED BY <1>7, <1>8

LEMMA StandingStill ==
    ASSUME History, now' \in Nat, now <= now', UNCHANGED commits
    PROVE  History' /\ Later
<1>1. Len(commits) \in Nat
  BY SequenceIs DEF History
<1>2. Later
  BY <1>1 DEF Later
<1>3. \A i \in 1 .. Len(commits) : commits[i].at \in Nat /\ commits[i].at <= now'
  BY DEF History
<1>4. History'
  BY <1>1, <1>3 DEF History, Coherent, Touching, Sequence
<1> QED BY <1>2, <1>4

LEMMA ExecutionLasts ==
    ASSUME History, Later, NEW r, Execution(r),
           counts.attempts \in Nat, counts'.attempts \in Nat, counts.attempts <= counts'.attempts
    PROVE  Execution(r)'
<1>1. /\ Len(commits) \in Nat /\ now \in Nat
      /\ \A i \in 1 .. Len(commits) : commits[i].at \in Nat
  BY SequenceIs DEF History
<1>2. /\ r.head \in 1 .. Len(commits') /\ commits'[r.head] = commits[r.head]
      /\ Len(r.attempts) \in Nat /\ Len(r.attempts) >= 1
  BY <1>1, SequenceIs DEF Execution, Later
<1>3. r.head < Len(commits') => r.attempts[1].at < commits'[r.head + 1].at
  <2>1. r.attempts[1].at \in Nat /\ r.attempts[1].at <= now
    BY <1>2 DEF Execution
  <2>2. CASE r.head < Len(commits)
    <3>1. PICK n \in 1 .. Len(commits) : n = r.head + 1
      BY <2>2, <1>1, <1>2 DEF Execution
    <3>2. commits'[n] = commits[n] /\ r.attempts[1].at < commits[n].at
      BY <2>2, <3>1 DEF Execution, Later
    <3> QED BY <3>1, <3>2
  <2>3. CASE r.head = Len(commits)
    <3>1. ASSUME r.head < Len(commits')
          PROVE  commits'[r.head + 1].at \in Nat /\ commits'[r.head + 1].at > now
      BY <3>1, <2>3, <1>1 DEF Later
    <3>2. ASSUME r.head < Len(commits') PROVE r.attempts[1].at < commits'[r.head + 1].at
      <4> DEFINE x == commits'[r.head + 1].at
      <4>1. x \in Nat /\ x > now
        BY <3>1, <3>2
      <4> HIDE DEF x
      <4>2. r.attempts[1].at < x
        BY <4>1, <2>1, <1>1
      <4> QED BY <4>2 DEF x
    <3> QED BY <3>2
  <2> QED BY <2>2, <2>3, <1>1, <1>2 DEF Execution
<1>4. \A a \in 1 .. Len(r.attempts) : r.attempts[a].at <= now'
  BY <1>1 DEF Execution, Later
<1> QED BY <1>2, <1>3, <1>4 DEF Execution, Sequence

LEMMA AttemptedIs ==
    ASSUME RolloutAssumption, History, Counted, Attempted, UNCHANGED commits
    PROVE  /\ Counted' /\ counts.attempts \in Nat /\ counts'.attempts = counts.attempts + 1
           /\ now \in Nat /\ now' = now + 1 /\ History' /\ Later
<1>1. now \in Nat /\ now' = now + 1
  BY DEF Attempted, History
<1>2. MaxAttempts \in Nat
  BY DEF RolloutAssumption
<1>3. counts.attempts \in Nat /\ counts'.attempts = counts.attempts + 1
      /\ DOMAIN counts' = DOMAIN counts
  BY <1>2 DEF Attempted, Counted
<1>4. Counted'
  BY <1>2, <1>3 DEF Attempted, Counted
<1> QED BY <1>1, <1>3, <1>4, StandingStill

LEMMA RunBeginsIs ==
    ASSUME RolloutAssumption, History, Counted, Attempted, UNCHANGED commits,
           NEW r, RunBegins(r)
    PROVE  Execution(r)' /\ Vouched(r) /\ Earned(r)
<1>1. PICK x : \E event \in {"push", "workflow_dispatch", "schedule"} :
         /\ Fresh(x, Len(commits)) /\ commits[Len(commits)].workflow # None
         /\ r = [event |-> event, head |-> Len(commits), attempts |-> <<x>>]
  BY DEF RunBegins
<1>2. x.at = now + 1
  BY <1>1 DEF Fresh
<1>3. /\ DOMAIN r = {"event", "head", "attempts"}
      /\ r.head = Len(commits) /\ r.attempts = <<x>>
  BY <1>1
<1>4. Sequence(r.attempts) /\ Len(r.attempts) = 1 /\ r.attempts[1] = x
  BY <1>3, SequenceOfOne
<1>5. /\ Len(commits) \in Nat /\ Len(commits) >= 1 /\ now \in Nat
      /\ commits[Len(commits)].at \in Nat /\ commits[Len(commits)].at <= now
  BY SequenceIs DEF History
<1>6. counts.attempts \in Nat /\ counts'.attempts = counts.attempts + 1 /\ now' = now + 1
  BY AttemptedIs
<1>7. r.event \in {"push", "workflow_dispatch", "schedule"}
  BY <1>1
<1>8. \A a \in 1 .. Len(r.attempts) :
         /\ r.attempts[a].at \in Nat /\ r.attempts[a].at <= now'
         /\ commits[r.head].at < r.attempts[a].at
         /\ a < Len(r.attempts) => r.attempts[a].conclusion # "pending"
  BY <1>2, <1>3, <1>4, <1>5, <1>6
<1>9. Len(r.attempts) \in 1 .. counts'.attempts
  BY <1>4, <1>6
<1>10. Execution(r)'
  BY <1>1, <1>3, <1>4, <1>5, <1>7, <1>8, <1>9 DEF Execution, Sequence
<1>11. Vouched(r) /\ Earned(r)
  BY <1>1, <1>3, <1>4 DEF Vouched, Earned, Checked, Fresh, GateMay
<1> QED BY <1>10, <1>11

(* The attempts that a run had stay, but for a pending one that ends.      *)
Continues(q, r) ==
    /\ r.head = q.head /\ r.event = q.event
    /\ Len(r.attempts) \in Nat /\ Len(q.attempts) <= Len(r.attempts)
    /\ \A a \in 1 .. Len(q.attempts) : Lasts(q.attempts[a], r.attempts[a])

LEMMA RunRepeatsIs ==
    ASSUME RolloutAssumption, History, Counted, Attempted, UNCHANGED commits,
           NEW q, NEW r, Execution(q), Vouched(q), RunRepeats(q, r)
    PROVE  Execution(r)' /\ Continues(q, r) /\ Vouched(r) /\ Earned(r)
<1>1. PICK x :
         /\ Fresh(x, q.head)
         /\ q.attempts[Len(q.attempts)].conclusion # "pending"
         /\ r = [q EXCEPT !.attempts = Append(@, x)]
  BY DEF RunRepeats
<1> DEFINE n == Len(q.attempts)
<1>2. x.at = now + 1
  BY <1>1 DEF Fresh
<1>3. /\ DOMAIN r = {"event", "head", "attempts"}
      /\ r.event = q.event /\ r.head = q.head /\ r.attempts = Append(q.attempts, x)
  BY <1>1 DEF Execution
<1>4. Sequence(q.attempts) /\ n \in Nat /\ n >= 1 /\ n <= counts.attempts
  BY SequenceIs DEF Execution, Counted
<1>5. /\ Sequence(r.attempts) /\ Len(r.attempts) = n + 1 /\ r.attempts[n + 1] = x
      /\ \A a \in 1 .. n : r.attempts[a] = q.attempts[a]
  BY <1>3, <1>4, SequenceGrows
<1>6. counts.attempts \in Nat /\ counts'.attempts = counts.attempts + 1
      /\ now \in Nat /\ now' = now + 1
  BY AttemptedIs
<1>7. /\ q.head \in 1 .. Len(commits) /\ Len(commits) \in Nat
      /\ commits[q.head].at \in Nat /\ commits[q.head].at <= now
  BY SequenceIs DEF Execution, History
<1>8. \A a \in 1 .. Len(r.attempts) :
         /\ r.attempts[a].at \in Nat /\ r.attempts[a].at <= now'
         /\ commits[r.head].at < r.attempts[a].at
         /\ a < Len(r.attempts) => r.attempts[a].conclusion # "pending"
  <2> SUFFICES ASSUME NEW a \in 1 .. n + 1
               PROVE  /\ r.attempts[a].at \in Nat /\ r.attempts[a].at <= now'
                      /\ commits[r.head].at < r.attempts[a].at
                      /\ a < n + 1 => r.attempts[a].conclusion # "pending"
    BY <1>5
  <2>1. CASE a = n + 1
    <3>1. r.attempts[a] = x
      BY <2>1, <1>5
    <3>2. commits[r.head].at < now + 1
      BY <1>3, <1>6, <1>7
    <3> QED BY <2>1, <3>1, <3>2, <1>2, <1>4, <1>6
  <2>2. CASE a \in 1 .. n
    <3>1. r.attempts[a] = q.attempts[a]
      BY <2>2, <1>5
    <3>2. /\ q.attempts[a].at \in Nat /\ q.attempts[a].at <= now
          /\ commits[q.head].at < q.attempts[a].at
          /\ a < n => q.attempts[a].conclusion # "pending"
      BY <2>2 DEF Execution
    <3>3. a = n \/ a < n
      BY <2>2, <1>4
    <3> HIDE DEF n
    <3> QED BY <3>1, <3>2, <3>3, <1>1, <1>3, <1>6 DEF n
  <2> QED BY <2>1, <2>2, <1>4
<1>9. Len(r.attempts) \in 1 .. counts'.attempts
  BY <1>4, <1>5, <1>6
<1>10. r.head < Len(commits) => r.attempts[1].at < commits[r.head + 1].at
  BY <1>3, <1>4, <1>5 DEF Execution
<1>11. Execution(r)'
  BY <1>3, <1>5, <1>8, <1>9, <1>10 DEF Execution, Sequence
<1>12. Continues(q, r)
  BY <1>3, <1>4, <1>5 DEF Continues, Lasts
<1>13. Earned(r)
  BY <1>1, <1>3, <1>5 DEF Earned, Fresh, GateMay
<1>14. Vouched(r)
  <2> SUFFICES ASSUME NEW a \in 1 .. n + 1 PROVE Checked(r.attempts[a])
    BY <1>5 DEF Vouched
  <2>1. CASE a = n + 1
    <3>1. r.attempts[a] = x
      BY <2>1, <1>5
    <3> QED BY <3>1, <1>1 DEF Checked, Fresh
  <2>2. CASE a \in 1 .. n
    <3>1. Checked(q.attempts[a]) /\ r.attempts[a] = q.attempts[a]
      BY <2>2, <1>5 DEF Vouched
    <3> QED BY <3>1
  <2> QED BY <2>1, <2>2, <1>4
<1> QED BY <1>11, <1>12, <1>13, <1>14

LEMMA RunGoesOnIs ==
    ASSUME History, Counted, UNCHANGED <<now, counts, commits>>,
           NEW q, NEW r, Execution(q), Vouched(q), RunGoesOn(q, r)
    PROVE  Execution(r)' /\ Continues(q, r) /\ Vouched(r) /\ Earned(r)
<1> DEFINE n == Len(q.attempts)
<1>1. PICK x :
         /\ q.attempts[n].conclusion = "pending" /\ x.at = q.attempts[n].at
         /\ q.attempts[n].gate = "success" => x.gate = "success"
         /\ x.checked = q.attempts[n].checked \/ Checked(x)
         /\ GateMay(x, q.head, x.checked)
         /\ r = [q EXCEPT !.attempts[n] = x]
  BY DEF RunGoesOn
<1>2. Sequence(q.attempts) /\ n \in Nat /\ n >= 1 /\ n \in DOMAIN q.attempts
      /\ DOMAIN q.attempts = 1 .. n
  BY SequenceIs DEF Execution, Counted
<1>3. /\ DOMAIN r = {"event", "head", "attempts"}
      /\ r.event = q.event /\ r.head = q.head /\ r.attempts = [q.attempts EXCEPT ![n] = x]
  BY <1>1, <1>2 DEF Execution
<1>4. /\ Sequence(r.attempts) /\ Len(r.attempts) = n /\ r.attempts[n] = x
      /\ \A a \in 1 .. n : a # n => r.attempts[a] = q.attempts[a]
  <2> HIDE DEF n
  <2> QED BY <1>2, <1>3, SequenceChanges
<1>5. \A a \in 1 .. Len(r.attempts) :
         /\ r.attempts[a].at = q.attempts[a].at
         /\ a < Len(r.attempts) => r.attempts[a].conclusion # "pending"
  BY <1>1, <1>2, <1>4 DEF Execution
<1>6. \A a \in 1 .. Len(r.attempts) :
         /\ r.attempts[a].at \in Nat /\ r.attempts[a].at <= now
         /\ commits[r.head].at < r.attempts[a].at
         /\ a < Len(r.attempts) => r.attempts[a].conclusion # "pending"
  BY <1>3, <1>4, <1>5 DEF Execution
<1>7. r.head < Len(commits) => r.attempts[1].at < commits[r.head + 1].at
  BY <1>3, <1>2, <1>4, <1>5 DEF Execution
<1>8. Execution(r)'
  <2> HIDE DEF n
  <2>1. Len(r.attempts) \in 1 .. counts.attempts
    BY <1>4 DEF Execution, n
  <2> QED BY <1>3, <1>4, <1>6, <1>7, <2>1 DEF Execution, Sequence
<1>9. Continues(q, r)
  BY <1>1, <1>3, <1>2, <1>4 DEF Continues, Lasts
<1>10. Earned(r)
  BY <1>1, <1>3, <1>4 DEF Earned, GateMay
<1>11. Checked(x)
  <2>1. Checked(q.attempts[n])
    BY <1>2 DEF Vouched
  <2> QED BY <2>1, <1>1 DEF Checked
<1>12. Vouched(r)
  <2> SUFFICES ASSUME NEW a \in 1 .. n PROVE Checked(r.attempts[a])
    BY <1>4 DEF Vouched
  <2>1. Checked(q.attempts[a])
    BY DEF Vouched
  <2> QED BY <2>1, <1>4, <1>11
<1> QED BY <1>8, <1>9, <1>10, <1>12

LEMMA RunsStay ==
    ASSUME Executions, UNCHANGED runs
    PROVE  RunsLast
<1>1. Len(runs) \in Nat
  BY SequenceIs DEF Executions
<1>2. \A i \in 1 .. Len(runs) : Len(runs[i].attempts) \in Nat
  BY SequenceIs DEF Executions, Execution
<1> QED BY <1>1, <1>2 DEF RunsLast, Lasts

LEMMA ExecutionsStay ==
    ASSUME History, Later, Counted, Executions, UNCHANGED runs, CountsKept
    PROVE  Counted' /\ Executions' /\ RunsLast
<1>1. Counted'
  BY DEF Counted, CountsKept
<1>2. counts.attempts \in Nat /\ counts'.attempts = counts.attempts
  BY DEF Counted, CountsKept
<1>3. \A i \in 1 .. Len(runs) : Execution(runs[i])'
  <2> SUFFICES ASSUME NEW i \in 1 .. Len(runs) PROVE Execution(runs[i])'
    OBVIOUS
  <2>1. PICK r : r = runs[i]
    OBVIOUS
  <2>2. Execution(r)'
    BY <2>1, <1>2, ExecutionLasts DEF Executions
  <2> QED BY <2>1, <2>2
<1>4. Executions'
  BY <1>2, <1>3 DEF Executions, Sequence
<1> QED BY <1>1, <1>4, RunsStay

LEMMA RunChanges ==
    ASSUME History, Later, Executions, Counted, Counted', counts.attempts <= counts'.attempts,
           NEW i \in DOMAIN runs, NEW r, runs' = [runs EXCEPT ![i] = r],
           Execution(r)', Continues(runs[i], r), Verification, Vouched(r)
    PROVE  /\ Executions' /\ RunsLast
           /\ \A j \in 1 .. Len(runs') : Vouched(runs'[j])
<1>1. /\ Sequence(runs) /\ Len(runs) \in Nat /\ DOMAIN runs = 1 .. Len(runs)
      /\ Len(runs) <= counts.attempts /\ counts.attempts \in Nat /\ counts'.attempts \in Nat
  BY SequenceIs DEF Executions, Counted
<1>2. /\ Sequence(runs') /\ Len(runs') = Len(runs) /\ runs'[i] = r
      /\ \A j \in DOMAIN runs \ {i} : runs'[j] = runs[j]
  BY <1>1, SequenceChanges
<1>3. \A j \in 1 .. Len(runs') : Execution(runs[j])'
  <2> SUFFICES ASSUME NEW j \in 1 .. Len(runs) PROVE Execution(runs[j])'
    BY <1>2
  <2>1. CASE j = i
    BY <2>1, <1>2
  <2>2. CASE j # i
    <3>1. PICK q : q = runs[j]
      OBVIOUS
    <3>2. Execution(q)'
      BY <3>1, <1>1, ExecutionLasts DEF Executions
    <3> QED BY <3>1, <3>2, <2>2, <1>1, <1>2
  <2> QED BY <2>1, <2>2
<1>4. Executions'
  <2>1. Sequence(runs)'
    BY <1>2 DEF Sequence
  <2>2. Len(runs') <= counts'.attempts
    BY <1>1, <1>2
  <2> QED BY <2>1, <2>2, <1>3 DEF Executions
<1>5. \A j \in 1 .. Len(runs) : Len(runs[j].attempts) \in Nat
  BY SequenceIs DEF Executions, Execution
<1>6. RunsLast
  BY <1>1, <1>2, <1>5 DEF RunsLast, Continues, Lasts
<1>7. \A j \in 1 .. Len(runs') : Vouched(runs'[j])
  BY <1>1, <1>2 DEF Verification
<1> QED BY <1>4, <1>6, <1>7

LEMMA RunsKeep ==
    ASSUME RolloutAssumption, History, Counted, Executions, Verification, RunStep
    PROVE  /\ History' /\ Later /\ Counted' /\ Executions' /\ RunsLast
           /\ \A j \in 1 .. Len(runs') : Vouched(runs'[j])
<1>1. /\ Sequence(runs) /\ Len(runs) \in Nat /\ DOMAIN runs = 1 .. Len(runs)
      /\ Len(runs) <= counts.attempts /\ counts.attempts \in Nat /\ UNCHANGED commits
  BY SequenceIs DEF Executions, Counted, RunStep
<1>2. ASSUME NEW r, RunBegins(r), runs' = Append(runs, r), Attempted
      PROVE  /\ History' /\ Later /\ Counted' /\ Executions' /\ RunsLast
             /\ \A j \in 1 .. Len(runs') : Vouched(runs'[j])
  <2>1. /\ Counted' /\ counts'.attempts = counts.attempts + 1 /\ History' /\ Later
        /\ Execution(r)' /\ Vouched(r)
    BY <1>1, <1>2, AttemptedIs, RunBeginsIs
  <2>2. /\ Sequence(runs') /\ Len(runs') = Len(runs) + 1 /\ runs'[Len(runs) + 1] = r
        /\ \A j \in 1 .. Len(runs) : runs'[j] = runs[j]
    BY <1>1, <1>2, SequenceGrows
  <2>3. \A j \in 1 .. Len(runs') : Execution(runs[j])'
    <3> SUFFICES ASSUME NEW j \in 1 .. Len(runs') PROVE Execution(runs[j])'
      OBVIOUS
    <3>1. CASE j = Len(runs) + 1
      BY <3>1, <2>1, <2>2
    <3>2. CASE j \in 1 .. Len(runs)
      <4>1. PICK q : q = runs[j]
        OBVIOUS
      <4>2. Execution(q)'
        BY <4>1, <3>2, <1>1, <2>1, ExecutionLasts DEF Executions
      <4> QED BY <4>1, <4>2, <3>2, <2>2
    <3> QED BY <3>1, <3>2, <1>1, <2>2
  <2>4. Executions'
    BY <1>1, <2>1, <2>2, <2>3 DEF Executions, Sequence
  <2>5. \A j \in 1 .. Len(runs) : Len(runs[j].attempts) \in Nat
    BY SequenceIs DEF Executions, Execution
  <2>6. RunsLast
    BY <1>1, <2>2, <2>5 DEF RunsLast, Lasts
  <2>7. \A j \in 1 .. Len(runs') : Vouched(runs'[j])
    BY <1>1, <2>1, <2>2 DEF Verification
  <2> QED BY <2>1, <2>4, <2>6, <2>7
<1>3. ASSUME NEW r, NEW i \in DOMAIN runs, runs' = [runs EXCEPT ![i] = r],
             RunRepeats(runs[i], r), Attempted
      PROVE  /\ History' /\ Later /\ Counted' /\ Executions' /\ RunsLast
             /\ \A j \in 1 .. Len(runs') : Vouched(runs'[j])
  <2>1. Counted' /\ counts'.attempts = counts.attempts + 1 /\ History' /\ Later
    BY <1>1, <1>3, AttemptedIs
  <2>2. PICK q : q = runs[i]
    OBVIOUS
  <2>3. Execution(r)' /\ Continues(q, r) /\ Vouched(r)
    BY <2>2, <1>1, <1>3, RunRepeatsIs DEF Executions, Verification
  <2>4. counts.attempts <= counts'.attempts
    BY <1>1, <2>1
  <2>5. Continues(runs[i], r)
    BY <2>2, <2>3
  <2>6. Executions' /\ RunsLast /\ \A j \in 1 .. Len(runs') : Vouched(runs'[j])
    BY <1>3, <2>1, <2>3, <2>4, <2>5, RunChanges
  <2> QED BY <2>1, <2>6
<1>4. ASSUME NEW r, NEW i \in DOMAIN runs, runs' = [runs EXCEPT ![i] = r],
             RunGoesOn(runs[i], r), UNCHANGED <<now, counts>>
      PROVE  /\ History' /\ Later /\ Counted' /\ Executions' /\ RunsLast
             /\ \A j \in 1 .. Len(runs') : Vouched(runs'[j])
  <2>1. Counted' /\ History' /\ Later
    <3>1. now' \in Nat /\ now <= now'
      BY <1>4 DEF History
    <3> QED BY <3>1, <1>1, <1>4, StandingStill DEF Counted
  <2>2. PICK q : q = runs[i]
    OBVIOUS
  <2>3. Execution(r)' /\ Continues(q, r) /\ Vouched(r)
    BY <2>2, <1>1, <1>4, RunGoesOnIs DEF Executions, Verification
  <2>4. counts.attempts <= counts'.attempts
    BY <1>1, <1>4
  <2> QED BY <2>1, <2>2, <2>3, <2>4, <1>1, <1>4, RunChanges
<1> QED BY <1>2, <1>3, <1>4 DEF RunStep

-----------------------------------------------------------------------------
(* What was read and verified stays true.                                  *)

LEMMA AttemptLasts ==
    ASSUME Executions, RunsLast, NEW i \in 1 .. Len(runs), NEW a \in 1 .. Len(runs[i].attempts)
    PROVE  /\ i \in 1 .. Len(runs') /\ a \in 1 .. Len(runs'[i].attempts)
           /\ runs'[i].head = runs[i].head /\ runs'[i].event = runs[i].event
           /\ Lasts(runs[i].attempts[a], runs'[i].attempts[a])
<1>1. Len(runs) \in Nat /\ Len(runs[i].attempts) \in Nat
  BY SequenceIs DEF Executions, Execution
<1>2. Len(runs') \in Nat /\ Len(runs) <= Len(runs')
  BY DEF RunsLast
<1>3. /\ Len(runs'[i].attempts) \in Nat /\ Len(runs[i].attempts) <= Len(runs'[i].attempts)
      /\ runs'[i].head = runs[i].head /\ runs'[i].event = runs[i].event
      /\ Lasts(runs[i].attempts[a], runs'[i].attempts[a])
  BY DEF RunsLast
<1> QED BY <1>1, <1>2, <1>3

LEMMA ObservedLasts ==
    ASSUME PolicyAssumption, History, Later, Executions, Executions', RunsLast,
           NEW x \in Attempts, Observed(x)
    PROVE  x \in Attempts' /\ Observed(x)'
<1>1. /\ x \in (1 .. MaxAttempts) \X (1 .. MaxAttempts)
      /\ x[1] \in DOMAIN runs /\ x[2] \in DOMAIN runs[x[1]].attempts
  BY DEF Attempts, KnownAttempt
<1>2. PICK i \in 1 .. Len(runs) : i = x[1]
  BY <1>1, SequenceIs DEF Executions
<1>3. PICK a \in 1 .. Len(runs[i].attempts) : a = x[2]
  BY <1>1, <1>2, SequenceIs DEF Executions, Execution
<1>4. /\ i \in 1 .. Len(runs') /\ a \in 1 .. Len(runs'[i].attempts)
      /\ runs'[i].head = runs[i].head /\ runs'[i].event = runs[i].event
      /\ Lasts(runs[i].attempts[a], runs'[i].attempts[a])
  BY AttemptLasts
<1>5. i \in DOMAIN runs' /\ a \in DOMAIN runs'[i].attempts
  <2>1. PICK r : r = runs'[i]
    OBVIOUS
  <2>2. DOMAIN runs' = 1 .. Len(runs') /\ Sequence(r.attempts)
    BY <1>4, <2>1, SequenceIs DEF Executions, Execution, Sequence
  <2> QED BY <1>4, <2>1, <2>2, SequenceIs
<1>6. x \in Attempts'
  BY <1>1, <1>2, <1>3, <1>5 DEF Attempts, KnownAttempt
<1>7. /\ runs[i].attempts[a].gate = "success" /\ runs[i].attempts[a].conclusion # "pending"
      /\ runs[i].event \in {"push", "workflow_dispatch"}
      /\ ModeAt(commits, runs[i].head) = "report-only"
      /\ now - runs[i].attempts[a].at >= MinimumDays
  BY <1>2, <1>3 DEF Observed, AttemptOf
<1>8. runs'[i].attempts[a] = runs[i].attempts[a]
  BY <1>4, <1>7 DEF Lasts
<1>9. ModeAt(commits', runs'[i].head) = "report-only"
  <2>1. runs[i].head \in 1 .. Len(commits)
    BY DEF Executions, Execution
  <2> QED BY <2>1, <1>4, <1>7 DEF ModeAt, Later
<1>10. now' - runs'[i].attempts[a].at >= MinimumDays
  <2>1. runs[i].attempts[a].at \in Nat /\ now \in Nat /\ MinimumDays \in Nat
    BY DEF Executions, Execution, History, PolicyAssumption
  <2> QED BY <2>1, <1>7, <1>8 DEF Later
<1>11. Observed(x)'
  BY <1>2, <1>3, <1>4, <1>7, <1>8, <1>9, <1>10 DEF Observed, AttemptOf
<1> QED BY <1>6, <1>11

LEMMA VerificationLasts ==
    ASSUME PolicyAssumption, History, Later, Executions, Executions', RunsLast, RulesLast,
           \A j \in 1 .. Len(runs') : Vouched(runs'[j])
    PROVE  Verification'
<1>1. ASSUME NEW z, Checked(z) PROVE Checked(z)'
  <2>1. CASE z.checked = "nothing"
    BY <2>1 DEF Checked
  <2>2. CASE z.checked # "nothing"
    <3>1. /\ z.checked \in {"provenance", "rulesets"} /\ z.at \in Nat /\ z.at <= now
          /\ \E x \in Attempts : Observed(x)
          /\ z.checked = "rulesets" => RequiredSince(z.at)
      BY <1>1, <2>2 DEF Checked
    <3>2. PICK x \in Attempts : Observed(x)
      BY <3>1
    <3>3. x \in Attempts' /\ Observed(x)'
      BY <3>2, ObservedLasts
    <3>4. PICK t \in Nat : t = z.at /\ t <= now
      BY <3>1
    <3>5. z.checked = "rulesets" => RequiredSince(t)'
      BY <3>1, <3>4 DEF RulesLast
    <3>6. z.at <= now'
      BY <3>1 DEF Later, History
    <3> QED BY <3>1, <3>3, <3>4, <3>5, <3>6 DEF Checked, RequiredSince
  <2> QED BY <2>1, <2>2
<1>2. ASSUME NEW j \in 1 .. Len(runs') PROVE Vouched(runs[j])'
  <2>1. \A a \in 1 .. Len(runs'[j].attempts) : Checked(runs'[j].attempts[a])
    BY DEF Vouched
  <2> SUFFICES ASSUME NEW a \in 1 .. Len(runs'[j].attempts)
               PROVE  Checked(runs[j].attempts[a])'
    BY DEF Vouched
  <2>2. PICK z : z = runs'[j].attempts[a]
    OBVIOUS
  <2>3. Checked(z)'
    BY <2>1, <2>2, <1>1
  <2> QED BY <2>2, <2>3
<1> QED BY <1>2 DEF Verification

LEMMA ListingLasts ==
    ASSUME Executions, RunsLast, NEW l, Listing(l)
    PROVE  Listing(l)'
<1>1. Len(runs) \in Nat /\ Len(runs') \in Nat /\ Len(runs) <= Len(runs')
  BY SequenceIs DEF Executions, RunsLast
<1>2. DOMAIN l \subseteq 1 .. Len(runs')
  BY <1>1 DEF Listing
<1>3. ASSUME NEW i \in DOMAIN l
      PROVE  /\ l[i].event = runs'[i].event /\ l[i].head = runs'[i].head
             /\ l[i].attempt \in 1 .. Len(runs'[i].attempts)
             /\ l[i].at = runs'[i].attempts[l[i].attempt].at
             /\ l[i].conclusion # "pending"
                  => runs'[i].attempts[l[i].attempt].conclusion # "pending"
  <2>1. i \in 1 .. Len(runs)
    BY DEF Listing
  <2>2. PICK a \in 1 .. Len(runs[i].attempts) : a = l[i].attempt
    BY DEF Listing
  <2>3. /\ a \in 1 .. Len(runs'[i].attempts)
        /\ runs'[i].head = runs[i].head /\ runs'[i].event = runs[i].event
        /\ Lasts(runs[i].attempts[a], runs'[i].attempts[a])
    BY <2>1, AttemptLasts
  <2> QED BY <2>2, <2>3 DEF Listing, Lasts
<1> QED BY <1>2, <1>3 DEF Listing

LEMMA GateLasts ==
    ASSUME Executions, RunsLast, NEW i, GateHolds(i)
    PROVE  GateHolds(i)'
<1>1. i \in 1 .. Len(runs) /\ 1 \in 1 .. Len(runs[i].attempts)
  BY SequenceIs DEF GateHolds, Executions, Execution
<1>2. i \in 1 .. Len(runs') /\ Lasts(runs[i].attempts[1], runs'[i].attempts[1])
  BY <1>1, AttemptLasts
<1> QED BY <1>2 DEF GateHolds, Lasts

LEMMA ObservationLasts ==
    ASSUME PolicyAssumption, History, Later, Executions, RunsLast, NEW o, ObservationHolds(o)
    PROVE  ObservationHolds(o)'
<1>1. PICK i \in 1 .. Len(runs) : i = o.run
  BY DEF ObservationHolds
<1>2. PICK a \in 1 .. Len(runs[i].attempts) : a = o.attempt
  BY <1>1 DEF ObservationHolds
<1>3. PICK b \in 1 .. Len(runs[i].attempts) : runs[i].attempts[b].gate = "success"
  BY <1>1 DEF ObservationHolds
<1>4. /\ i \in 1 .. Len(runs') /\ a \in 1 .. Len(runs'[i].attempts)
      /\ runs'[i].head = runs[i].head /\ runs'[i].event = runs[i].event
      /\ Lasts(runs[i].attempts[a], runs'[i].attempts[a])
  BY AttemptLasts
<1>5. b \in 1 .. Len(runs'[i].attempts) /\ runs'[i].attempts[b].gate = "success"
  BY <1>3, AttemptLasts DEF Lasts
<1>6. now' - o.startedAt >= MinimumDays
  <2>1. now - o.startedAt >= MinimumDays /\ o.startedAt \in Nat
    BY <1>1, <1>2 DEF ObservationHolds, Executions, Execution
  <2> QED BY <2>1 DEF Later, History, PolicyAssumption
<1>7. runs'[i].attempts[a] = runs[i].attempts[a]
  BY <1>1, <1>2, <1>4 DEF ObservationHolds, Lasts
<1> QED BY <1>1, <1>2, <1>4, <1>5, <1>6, <1>7 DEF ObservationHolds

LEMMA SeenLasts ==
    ASSUME History, Later, NEW c, NEW t, Begun(c), Seen(c, t)
    PROVE  Begun(c)' /\ Seen(c, t)'
<1>1. /\ Len(commits) \in Nat /\ Len(commits') \in Nat /\ Len(commits) <= Len(commits')
      /\ now \in Nat /\ now' \in Nat /\ now <= now'
      /\ c.of.began \in Nat /\ c.of.began <= now /\ c.seen \in 1 .. Len(commits)
  BY SequenceIs DEF History, Later, Begun, Seen
<1>2. \A k \in 1 .. c.seen : commits'[k] = commits[k] /\ ModeAt(commits', k) = ModeAt(commits, k)
  <2> SUFFICES ASSUME NEW k \in 1 .. c.seen PROVE commits'[k] = commits[k]
    BY DEF ModeAt
  <2>1. k \in 1 .. Len(commits)
    BY <1>1
  <2> QED BY <2>1 DEF Later
<1>3. ASSUME NEW k \in c.seen + 1 .. Len(commits') PROVE commits'[k].at > c.of.began
  <2>1. CASE k \in c.seen + 1 .. Len(commits)
    <3>1. k \in 1 .. Len(commits) /\ commits[k].at > c.of.began
      BY <2>1, <1>1 DEF Seen
    <3> QED BY <3>1 DEF Later
  <2>2. CASE k \in Len(commits) + 1 .. Len(commits')
    <3>1. commits'[k].at \in Nat /\ commits'[k].at > now
      BY <2>2 DEF Later
    <3>2. PICK x \in Nat : x = commits'[k].at /\ x > now
      BY <3>1
    <3> QED BY <3>2, <1>1
  <2> QED BY <2>1, <2>2, <1>1
<1>4. PICK m \in 1 .. c.seen :
         /\ t \in Nat /\ commits[m].at <= t
         /\ c.of.config.mode = "report-only" =>
              \A k \in m .. c.seen : ModeAt(commits, k) = "report-only"
         /\ \A k \in m .. c.seen : ModeAt(commits, k) \in {"report-only", "enforce"}
         /\ \A e, k \in m .. c.seen :
              (e <= k /\ ModeAt(commits, e) = "enforce") => ModeAt(commits, k) = "enforce"
  BY DEF Seen
<1>5. /\ commits'[m].at <= t
      /\ c.of.config.mode = "report-only" =>
           \A k \in m .. c.seen : ModeAt(commits', k) = "report-only"
      /\ \A k \in m .. c.seen : ModeAt(commits', k) \in {"report-only", "enforce"}
      /\ \A e, k \in m .. c.seen :
           (e <= k /\ ModeAt(commits', e) = "enforce") => ModeAt(commits', k) = "enforce"
  <2>1. \A k \in m .. c.seen : ModeAt(commits', k) = ModeAt(commits, k)
    BY <1>1, <1>2
  <2> QED BY <2>1, <1>2, <1>4
<1>6. c.seen \in 1 .. Len(commits') /\ c.of.began <= now'
  BY <1>1
<1>7. Seen(c, t)'
  BY <1>3, <1>4, <1>5, <1>6 DEF Seen
<1> QED BY <1>6, <1>7 DEF Begun

LEMMA CommandLasts ==
    ASSUME PolicyAssumption, History, Later, Executions, RunsLast, NEW c, CommandHolds(c)
    PROVE  CommandHolds(c)'
<1>1. ASSUME Begun(c) PROVE Begun(c)'
  <2>1. c.of.began <= now'
    BY <1>1 DEF Begun, Later, History
  <2> QED BY <1>1, <2>1 DEF Begun
<1>2. ASSUME NEW t, Begun(c), Seen(c, t) PROVE Seen(c, t)'
  BY <1>2, SeenLasts
<1>3. ASSUME DraftHolds(c) PROVE DraftHolds(c)'
  <2>1. GateHolds(c.gateRun)' /\ ObservationHolds(c.proof)'
    BY <1>3, GateLasts, ObservationLasts DEF DraftHolds
  <2>2. PICK i \in 1 .. Len(runs) : i = c.proof.run /\ c.proof.head = runs[i].head
    BY <1>3 DEF DraftHolds, ObservationHolds
  <2>3. c.proof.head \in 1 .. Len(commits)
    BY <2>2 DEF Executions, Execution
  <2>4. commits'[c.proof.head] = commits[c.proof.head]
    BY <2>3 DEF Later
  <2> QED BY <1>3, <2>1, <2>4 DEF DraftHolds, ModeAt
<1>4. /\ c.step \in {"history", "changes", "gate", "baseline", "observation", "rules"} => Begun(c)'
      /\ c.step \in {"changes", "gate", "baseline", "observation"} => Seen(c, c.since)'
  BY <1>1, <1>2 DEF CommandHolds
<1>5. /\ c.step \in {"gate", "baseline", "observation"} => Listing(c.listed)'
      /\ c.step \in {"baseline", "observation", "rules"} => GateHolds(c.gate.run)'
  BY ListingLasts, GateLasts DEF CommandHolds
<1>6. c.step = "rules" => /\ ObservationHolds(c.period.proof)'
                         /\ Seen(c, c.period.proof.startedAt)'
  BY <1>2, ObservationLasts DEF CommandHolds
<1>7. c.step = "draft" => DraftHolds(c)'
  BY <1>3 DEF CommandHolds
<1> QED BY <1>4, <1>5, <1>6, <1>7 DEF CommandHolds

LEMMA CommandsLast ==
    ASSUME PolicyAssumption, History, Later, Executions, RunsLast, Commands,
           cli' \in {cli, NoCommand}
    PROVE  Commands'
<1>1. PICK c : c = cli'
  OBVIOUS
<1>2. CommandHolds(c)
  BY <1>1 DEF Commands, CommandHolds, NoCommand
<1>3. CommandHolds(c)'
  BY <1>2, CommandLasts
<1> QED BY <1>1, <1>3 DEF Commands

LEMMA ProposalsLast ==
    ASSUME History, Later, Proposals, \A p \in pulls' \ pulls : p.base = Len(commits) /\ Coherent(p.files)
    PROVE  Proposals'
<1>1. Len(commits) \in Nat /\ Len(commits) >= 1
  BY SequenceIs DEF History
<1>2. \A p \in pulls' : p.base \in 1 .. Len(commits) /\ Coherent(p.files)
  BY <1>1 DEF Proposals
<1>3. \A p \in pulls' : p.base \in 1 .. Len(commits')
  BY <1>1, <1>2 DEF Later
<1> QED BY <1>2, <1>3 DEF Proposals, Coherent

(* Steps that leave the runs alone leave what was verified.                *)
LEMMA RunsUntouched ==
    ASSUME PolicyAssumption, History, Later, Counted, Executions, Verification,
           UNCHANGED runs, CountsKept, RulesLast
    PROVE  Counted' /\ Executions' /\ RunsLast /\ Verification'
<1>1. Counted' /\ Executions' /\ RunsLast
  BY ExecutionsStay
<1>2. \A j \in 1 .. Len(runs') : Vouched(runs'[j])
  BY DEF Verification
<1> QED BY <1>1, <1>2, VerificationLasts

LEMMA StepKeeps ==
    ASSUME RolloutAssumption, PolicyAssumption, RolloutInv,
           CommitStep \/ PullStep \/ CommandStep \/ RunStep \/ QuietStep
    PROVE  RolloutInv'
<1> USE DEF RolloutInv
<1>1. CASE CommitStep
  <2>1. UNCHANGED <<runs, rules, cli>> /\ CountsKept /\ \A p \in pulls' \ pulls : FALSE
    BY <1>1 DEF CommitStep
  <2>2. History' /\ Later
    BY <1>1, HistoryGrows
  <2> QED BY <2>1, <2>2, RulesStay, RunsUntouched, CommandsLast, ProposalsLast
<1>2. CASE PullStep
  <2>1. History' /\ Later
    <3>1. History /\ now' = now /\ commits' = commits
      BY <1>2 DEF PullStep
    <3>2. now \in Nat
      BY <3>1 DEF History
    <3>3. now' \in Nat /\ now <= now'
      BY <3>1, <3>2
    <3> QED BY <3>1, <3>3, StandingStill
  <2>2. /\ UNCHANGED <<runs, rules>> /\ CountsKept /\ cli' \in {cli, NoCommand}
        /\ \A p \in pulls' \ pulls : p.base = Len(commits) /\ Coherent(p.files)
    BY <1>2 DEF PullStep
  <2>3. Counted' /\ Executions' /\ RunsLast /\ Verification'
    BY <2>1, <2>2, RulesStay, RunsUntouched
  <2>4. Commands'
    BY <2>1, <2>2, <2>3, CommandsLast
  <2>5. Proposals'
    BY <2>1, <2>2, ProposalsLast
  <2> QED BY <2>1, <2>3, <2>4, <2>5
<1>3. CASE CommandStep
  <2>1. /\ now \in Nat /\ now' = now /\ UNCHANGED <<commits, runs, pulls>> /\ CountsKept
        /\ RulesLast
    BY <1>3 DEF CommandStep, History, CountsKept
  <2>2. History' /\ Later
    BY <2>1, StandingStill
  <2>3. Counted' /\ Executions' /\ RunsLast /\ Verification'
    BY <2>1, <2>2, RunsUntouched
  <2>4. PICK c : CommandHolds(c) /\ cli' = c
    BY <1>3 DEF CommandStep
  <2>5. CommandHolds(c)'
    BY <2>2, <2>3, <2>4, CommandLasts
  <2>6. Commands'
    BY <2>4, <2>5 DEF Commands
  <2> QED BY <2>1, <2>2, <2>3, <2>6, ProposalsLast
<1>4. CASE RunStep
  <2>1. UNCHANGED <<rules, pulls, cli>>
    BY <1>4 DEF RunStep
  <2>2. /\ History' /\ Later /\ Counted' /\ Executions' /\ RunsLast
        /\ \A j \in 1 .. Len(runs') : Vouched(runs'[j])
    BY <1>4, RunsKeep
  <2>3. Verification'
    BY <2>1, <2>2, RulesStay, VerificationLasts
  <2> QED BY <2>1, <2>2, <2>3, CommandsLast, ProposalsLast
<1>5. CASE QuietStep
  <2>1. History' /\ Later
    BY <1>5, StandingStill DEF QuietStep
  <2> QED BY <1>5, <2>1, RunsUntouched, CommandsLast, ProposalsLast DEF QuietStep
<1> QED BY <1>1, <1>2, <1>3, <1>4, <1>5

-----------------------------------------------------------------------------
(* What the doctor's diagnosis says of the history and the runs.           *)

(* A set of numbers with a bound has a greatest one.                       *)
LEMMA GreatestOf ==
  ASSUME NEW S \in SUBSET Nat, S # {}, NEW n \in Nat, \A i \in S : i <= n
  PROVE  Max(S) \in S /\ \A j \in S : j <= Max(S)
<1> DEFINE T == {k \in 0 .. n : n - k \in S}
<1>1. T \in SUBSET Nat
  OBVIOUS
<1>2. T # {}
  <2>1. PICK i \in S : TRUE
    OBVIOUS
  <2>2. n - i \in 0 .. n /\ n - (n - i) = i
    BY <2>1
  <2>3. n - i \in T
    BY <2>1, <2>2
  <2> QED BY <2>3
<1>3. PICK k \in T : \A j \in T : k <= j
  BY <1>1, <1>2, LeastOf
<1>4. n - k \in S
  OBVIOUS
<1>5. \A j \in S : j <= n - k
  <2> TAKE j \in S
  <2>1. n - j \in 0 .. n /\ n - (n - j) = j
    OBVIOUS
  <2>2. n - j \in T
    BY <2>1
  <2>3. k <= n - j
    BY <2>2, <1>3
  <2> QED BY <2>3, <2>1
<1>6. \E x \in S : \A y \in S : x >= y
  BY <1>4, <1>5
<1> QED BY <1>6 DEF Max

LEMMA LeastIs ==
  ASSUME NEW S \in SUBSET Nat, S # {}
  PROVE  Min(S) \in S /\ \A j \in S : Min(S) <= j
<1>1. \E x \in S : \A y \in S : x <= y
  BY LeastOf
<1> QED BY <1>1 DEF Min

LEMMA AttemptsOf ==
    ASSUME RolloutAssumption, History, Counted, Executions, NEW i \in 1 .. Len(runs)
    PROVE  /\ i \in 1 .. MaxAttempts /\ i \in DOMAIN runs
           /\ runs[i].event \in {"push", "workflow_dispatch", "schedule"}
           /\ runs[i].head \in 1 .. Len(commits) /\ commits[runs[i].head].workflow # None
           /\ Len(runs[i].attempts) \in Nat /\ Len(runs[i].attempts) >= 1
           /\ Len(runs[i].attempts) <= MaxAttempts
           /\ DOMAIN runs[i].attempts = 1 .. Len(runs[i].attempts)
           /\ latestAttempt(runs[i]) = runs[i].attempts[Len(runs[i].attempts)]
           /\ \A a \in 1 .. Len(runs[i].attempts) :
                /\ runs[i].attempts[a].at \in Nat /\ runs[i].attempts[a].at <= now
                /\ commits[runs[i].head].at < runs[i].attempts[a].at
<1>1. /\ DOMAIN runs = 1 .. Len(runs) /\ Len(runs) \in Nat /\ Len(runs) <= counts.attempts
      /\ counts.attempts \in Nat /\ counts.attempts <= MaxAttempts /\ MaxAttempts \in Nat
  BY SequenceIs DEF Executions, Counted, RolloutAssumption
<1>2. PICK r : r = runs[i]
  OBVIOUS
<1>3. Execution(r)
  BY <1>2 DEF Executions
<1>4. /\ Len(r.attempts) \in Nat /\ Len(r.attempts) >= 1 /\ Len(r.attempts) <= MaxAttempts
      /\ DOMAIN r.attempts = 1 .. Len(r.attempts)
  BY <1>1, <1>3, SequenceIs DEF Execution
<1>5. latestAttempt(r) = r.attempts[Len(r.attempts)]
  BY DEF latestAttempt, Last
<1> QED BY <1>1, <1>2, <1>3, <1>4, <1>5 DEF Execution

(* What a list shows of a run.                                             *)
LEMMA ListedIs ==
    ASSUME RolloutAssumption, History, Counted, Executions, NEW l, Listing(l), NEW i \in DOMAIN l
    PROVE  /\ i \in 1 .. Len(runs) /\ l[i].attempt \in 1 .. Len(runs[i].attempts)
           /\ l[i].at \in Nat /\ l[i].at <= now
<1>1. PICK j \in 1 .. Len(runs) : j = i
  BY DEF Listing
<1>2. PICK a \in 1 .. Len(runs[j].attempts) : a = l[i].attempt
  BY <1>1 DEF Listing
<1>3. runs[j].attempts[a].at \in Nat /\ runs[j].attempts[a].at <= now
  BY AttemptsOf
<1> QED BY <1>1, <1>2, <1>3 DEF Listing

LEMMA LoadIs ==
    ASSUME RolloutAssumption, PolicyAssumption, History, Counted, Executions
    PROVE  Listing(loadWorkflowRuns(runs))
<1> DEFINE l == loadWorkflowRuns(runs)
<1>1. DOMAIN runs = 1 .. Len(runs)
  BY SequenceIs DEF Executions
<1>2. DOMAIN l \subseteq 1 .. Len(runs)
  BY <1>1 DEF loadWorkflowRuns
<1>3. ASSUME NEW i \in DOMAIN l
      PROVE  /\ l[i].event = runs[i].event /\ l[i].head = runs[i].head
             /\ l[i].attempt \in 1 .. Len(runs[i].attempts)
             /\ l[i].at = runs[i].attempts[l[i].attempt].at
             /\ l[i].conclusion = runs[i].attempts[l[i].attempt].conclusion
  <2>1. l[i] = [event |-> runs[i].event, head |-> runs[i].head, attempt |-> Len(runs[i].attempts),
                at |-> latestAttempt(runs[i]).at, conclusion |-> latestAttempt(runs[i]).conclusion]
    BY DEF loadWorkflowRuns
  <2> HIDE DEF l
  <2>2. PICK j \in 1 .. Len(runs) : j = i
    BY <1>2
  <2>3. /\ Len(runs[j].attempts) \in 1 .. Len(runs[j].attempts)
        /\ latestAttempt(runs[j]) = runs[j].attempts[Len(runs[j].attempts)]
    BY AttemptsOf
  <2> QED BY <2>1, <2>2, <2>3
<1> HIDE DEF l
<1> QED BY <1>2, <1>3 DEF Listing, l

LEMMA NewestIs ==
    ASSUME RolloutAssumption, History, Counted, Executions, NEW l, Listing(l),
           NEW ids \in SUBSET (DOMAIN l), ids # {}
    PROVE  NewestRun(l, ids) \in ids
<1> DEFINE T == {l[i].at : i \in ids}
<1>1. \A i \in ids : l[i].at \in Nat /\ l[i].at <= now
  BY ListedIs
<1>2. T \in SUBSET Nat /\ T # {} /\ \A x \in T : x <= now
  BY <1>1
<1>3. now \in Nat
  BY DEF History
<1>4. Max(T) \in T /\ \A x \in T : x <= Max(T)
  <2> HIDE DEF T
  <2> QED BY <1>2, <1>3, GreatestOf
<1>5. \E i \in ids : \A j \in ids : l[j].at <= l[i].at
  <2>1. PICK i \in ids : Max(T) = l[i].at
    BY <1>4
  <2>2. \A j \in ids : l[j].at <= Max(T)
    BY <1>4
  <2> QED BY <2>1, <2>2
<1> QED BY <1>5 DEF NewestRun

LEMMA OldestIs ==
    ASSUME RolloutAssumption, History, Counted, Executions, NEW l, Listing(l),
           NEW ids \in SUBSET (DOMAIN l), ids # {}
    PROVE  OldestRun(l, ids) \in ids
<1> DEFINE T == {l[i].at : i \in ids}
<1>1. \A i \in ids : l[i].at \in Nat
  BY ListedIs
<1>2. T \in SUBSET Nat /\ T # {}
  BY <1>1
<1>3. PICK t \in T : \A x \in T : t <= x
  <2> HIDE DEF T
  <2> QED BY <1>2, LeastOf
<1>4. \E i \in ids : \A j \in ids : l[j].at >= l[i].at
  <2>1. PICK i \in ids : t = l[i].at
    OBVIOUS
  <2>2. \A j \in ids : t <= l[j].at
    BY <1>3
  <2> QED BY <2>1, <2>2, <1>1
<1> QED BY <1>4 DEF OldestRun

(* A run whose gate succeeded, by the jobs of all its attempts.            *)
LEMMA EvidenceIs ==
    ASSUME RolloutAssumption, History, Counted, Executions, NEW i \in 1 .. Len(runs),
           loadGateEvidenceForRun(runs[i]) = "success"
    PROVE  \E b \in 1 .. Len(runs[i].attempts) : runs[i].attempts[b].gate = "success"
<1>1. PICK r : r = runs[i]
  OBVIOUS
<1>2. DOMAIN r.attempts = 1 .. Len(r.attempts) /\ Len(r.attempts) \in Nat
  BY <1>1, AttemptsOf
<1> DEFINE Outside(states) == {a \in DOMAIN r.attempts : r.attempts[a].gate \notin states}
           pool == IF Outside({"none", "skipped"}) # {} THEN Outside({"none", "skipped"})
                   ELSE Outside({"none"})
<1>3. pool # {} /\ r.attempts[IF NewestJobFirst THEN Max(pool) ELSE Min(pool)].gate = "success"
  BY <1>1 DEF loadGateEvidenceForRun
<1>4. pool \in SUBSET (1 .. Len(r.attempts))
  BY <1>2
<1> HIDE DEF pool
<1>5. pool \in SUBSET Nat /\ \A a \in pool : a <= Len(r.attempts)
  BY <1>2, <1>4
<1>6. Max(pool) \in pool /\ Min(pool) \in pool
  BY <1>2, <1>3, <1>5, GreatestOf, LeastIs
<1> QED BY <1>1, <1>3, <1>4, <1>6

(* An attempt that completed, completed the first one.                     *)
LEMMA FirstEnded ==
    ASSUME RolloutAssumption, History, Counted, Executions, NEW i \in 1 .. Len(runs),
           NEW a \in 1 .. Len(runs[i].attempts), runs[i].attempts[a].conclusion # "pending"
    PROVE  GateHolds(i)
<1>1. PICK r : r = runs[i]
  OBVIOUS
<1>2. Execution(r) /\ Len(r.attempts) \in Nat
  BY <1>1, SequenceIs DEF Executions, Execution
<1>3. r.attempts[1].conclusion # "pending"
  <2>1. CASE a = 1
    BY <2>1, <1>1
  <2>2. CASE a # 1
    <3>1. 1 \in 1 .. Len(r.attempts) /\ 1 < Len(r.attempts)
      BY <2>2, <1>1, <1>2
    <3> QED BY <3>1, <1>2 DEF Execution
  <2> QED BY <2>1, <2>2
<1> QED BY <1>1, <1>3 DEF GateHolds

LEMMA GateIs ==
    ASSUME RolloutAssumption, History, Counted, Executions, NEW l, Listing(l),
           NEW changed, NEW t, NEW gate, gate = inspectGateCheck(l, runs, changed, t),
           gate.state = "ok"
    PROVE  /\ gate.run \in DOMAIN l /\ GateHolds(gate.run) /\ l[gate.run].at >= changed
           /\ \E b \in 1 .. Len(runs[gate.run].attempts) :
                runs[gate.run].attempts[b].gate = "success"
<1> DEFINE window == InWindow(l, changed, t)
           deciding == Deciding(l, runs, window)
           run == NewestRun(l, deciding)
<1>1. deciding \subseteq window /\ window \subseteq Completed(l) /\ Completed(l) \subseteq DOMAIN l
  BY DEF Deciding, InWindow, Completed
<1>2. deciding # {} /\ gate.run = run /\ loadGateEvidenceForRun(runs[run]) = "success"
  BY DEF inspectGateCheck
<1>3. run \in deciding
  <2>1. deciding \in SUBSET (DOMAIN l)
    BY <1>1
  <2> HIDE DEF deciding
  <2> QED BY <2>1, <1>2, NewestIs
<1>4. l[run].at >= changed /\ l[run].conclusion # "pending"
  BY <1>1, <1>3 DEF InWindow, Completed
<1> HIDE DEF window, deciding, run
<1>5. PICK i \in DOMAIN l : i = run
  BY <1>1, <1>3
<1>6. i \in 1 .. Len(runs) /\ l[i].attempt \in 1 .. Len(runs[i].attempts)
  BY ListedIs
<1>7. PICK a \in 1 .. Len(runs[i].attempts) : a = l[i].attempt
  BY <1>6
<1>8. runs[i].attempts[a].conclusion # "pending"
  BY <1>4, <1>5, <1>7 DEF Listing
<1>9. GateHolds(i)
  BY <1>6, <1>8, FirstEnded
<1>10. \E b \in 1 .. Len(runs[i].attempts) : runs[i].attempts[b].gate = "success"
  BY <1>2, <1>5, <1>6, EvidenceIs
<1> QED BY <1>2, <1>4, <1>5, <1>9, <1>10

LEMMA PeriodIs ==
    ASSUME RolloutAssumption, History, Counted, Executions, NEW l, Listing(l),
           NEW mode \in {"report-only", "enforce"}, NEW since, NEW period,
           period = inspectObservationPeriod(l, runs, mode, since, now), period.ok
    PROVE  ObservationHolds(period.proof) /\ period.proof.startedAt >= since
<1> DEFINE candidates == {i \in Passing(l, runs) : /\ isAlwaysSecurityEvent(l[i].event)
                                                   /\ l[i].at >= since}
           first == observationRun(l, runs, since)
<1>1. /\ first # None /\ now - l[first].at >= MinimumDays
      /\ period.proof = observationRunProof(l, first)
  BY DEF inspectObservationPeriod
<1>2. candidates # {} /\ first = OldestRun(l, candidates)
  BY <1>1 DEF observationRun
<1>3. candidates \in SUBSET (DOMAIN l)
  BY DEF Passing, Completed
<1>4. first \in candidates
  <2> HIDE DEF candidates
  <2> QED BY <1>2, <1>3, OldestIs
<1>5. /\ loadGateEvidenceForRun(runs[first]) = "success" /\ l[first].conclusion # "pending"
      /\ isAlwaysSecurityEvent(l[first].event) /\ l[first].at >= since
  BY <1>4 DEF Passing, Completed
<1>6. PICK i \in DOMAIN l : i = first
  BY <1>3, <1>4
<1> HIDE DEF first, candidates
<1>7. i \in 1 .. Len(runs) /\ l[i].attempt \in 1 .. Len(runs[i].attempts)
  BY ListedIs
<1>8. \E b \in 1 .. Len(runs[i].attempts) : runs[i].attempts[b].gate = "success"
  BY <1>5, <1>6, <1>7, EvidenceIs
<1>9. PICK o : o = period.proof
  OBVIOUS
<1>10. /\ o.run = i /\ o.attempt = l[i].attempt /\ o.head = l[i].head /\ o.startedAt = l[i].at
  BY <1>1, <1>6, <1>9 DEF observationRunProof
<1>11. ObservationHolds(o)
  <2>1. PICK a \in 1 .. Len(runs[i].attempts) : a = l[i].attempt
    BY <1>7
  <2>2. /\ runs[i].attempts[a].conclusion # "pending" /\ runs[i].attempts[a].at = l[i].at
        /\ l[i].head = runs[i].head /\ l[i].event = runs[i].event
    BY <1>5, <1>6, <2>1 DEF Listing
  <2> QED BY <1>1, <1>5, <1>6, <1>7, <1>8, <1>10, <2>1, <2>2 DEF ObservationHolds
<1> QED BY <1>5, <1>6, <1>9, <1>10, <1>11

(* The commit that gave the configuration what it says at commit k is the   *)
(* last that touched it.                                                    *)
LEMMA LastTouch ==
    ASSUME History, NEW k \in 1 .. Len(commits), NEW m \in Touching(commits, "config"), m <= k
    PROVE  \E g \in Touching(commits, "config") :
              m <= g /\ g <= k /\ commits[g].config = commits[k].config
<1> DEFINE S == {g \in Touching(commits, "config") : g <= k}
<1>1. Len(commits) \in Nat /\ \A g \in Touching(commits, "config") : g \in 2 .. Len(commits)
  BY SequenceIs DEF History, Touching
<1>2. S \in SUBSET Nat /\ m \in S /\ k \in Nat /\ \A g \in S : g <= k
  BY <1>1
<1>3. Max(S) \in S /\ \A g \in S : g <= Max(S)
  <2> HIDE DEF S
  <2> QED BY <1>2, GreatestOf
<1>4. PICK g \in S : g = Max(S)
  BY <1>3
<1>5. g \in 1 .. Len(commits) /\ g <= k /\ m <= g
  BY <1>1, <1>2, <1>3, <1>4
<1>6. \A j \in g + 1 .. k : j \notin Touching(commits, "config")
  <2> SUFFICES ASSUME NEW j \in g + 1 .. k, j \in S PROVE FALSE
    OBVIOUS
  <2>1. j <= g
    BY <1>3, <1>4
  <2> QED BY <2>1, <1>5
<1>7. commits[g].config = commits[k].config
  BY <1>5, <1>6 DEF History
<1> QED BY <1>5, <1>7

LEMMA Stretch ==
    ASSUME RolloutAssumption, History, NEW mode \in {"report-only", "enforce"},
           reportOnlyConfigurationStart(commits, mode) # None
    PROVE  \E m \in 1 .. Len(commits) :
             /\ reportOnlyConfigurationStart(commits, mode) = commits[m].at
             /\ mode = "report-only" =>
                  \A k \in m .. Len(commits) : ModeAt(commits, k) = "report-only"
             /\ \A k \in m .. Len(commits) : ModeAt(commits, k) \in {"report-only", "enforce"}
             /\ \A e, k \in m .. Len(commits) :
                  (e <= k /\ ModeAt(commits, e) = "enforce") => ModeAt(commits, k) = "enforce"
<1> DEFINE all == Touching(commits, "config")
           walked == IF mode = "report-only" THEN all
                     ELSE {i \in all : \E j \in all : j >= i /\ ModeAt(commits, j) # "enforce"}
           stretch == {i \in walked : \A j \in walked : j >= i => ModeAt(commits, j) = "report-only"}
           m == Min(stretch)
<1>1. stretch # {} /\ reportOnlyConfigurationStart(commits, mode) = commits[m].at
  BY DEF reportOnlyConfigurationStart
<1>2. Len(commits) \in Nat /\ \A g \in all : g \in 2 .. Len(commits)
  BY SequenceIs DEF History, Touching
<1>3. stretch \subseteq walked /\ walked \subseteq all
  OBVIOUS
<1>4. m \in stretch
  <2>1. stretch \in SUBSET Nat
    BY <1>2, <1>3
  <2> HIDE DEF stretch
  <2> QED BY <1>1, <2>1, LeastIs
<1>5. /\ m \in all /\ m \in 2 .. Len(commits)
      /\ \A j \in walked : j >= m => ModeAt(commits, j) = "report-only"
  BY <1>2, <1>3, <1>4
<1>6. mode = "report-only" => walked = all
  OBVIOUS
<1>7. \A g \in all : g \notin walked =>
         \A j \in all : j >= g => ModeAt(commits, j) = "enforce"
  OBVIOUS
<1> HIDE DEF stretch, walked, m
<1>8. \A k \in m .. Len(commits) : \E g \in all :
         m <= g /\ g <= k /\ commits[g].config = commits[k].config
  <2> TAKE k \in m .. Len(commits)
  <2>1. k \in 1 .. Len(commits) /\ m <= k
    BY <1>2, <1>5
  <2> QED BY <2>1, <1>5, LastTouch
<1>9. \A k \in m .. Len(commits) : \E g \in all :
         m <= g /\ g <= k /\ ModeAt(commits, g) = ModeAt(commits, k)
  BY <1>8 DEF ModeAt
<1> HIDE DEF all
<1>10. \A k \in m .. Len(commits) : ModeAt(commits, k) \in {"report-only", "enforce"}
  <2> TAKE k \in m .. Len(commits)
  <2>1. PICK g \in all : m <= g /\ g <= k /\ ModeAt(commits, g) = ModeAt(commits, k)
    BY <1>9
  <2>2. CASE g \in walked
    BY <2>1, <2>2, <1>2, <1>5
  <2>3. CASE g \notin walked
    BY <2>1, <2>3, <1>2, <1>7
  <2> QED BY <2>2, <2>3
<1>11. ASSUME mode = "report-only"
       PROVE  \A k \in m .. Len(commits) : ModeAt(commits, k) = "report-only"
  BY <1>2, <1>5, <1>6, <1>9, <1>11
<1>12. ASSUME NEW e \in m .. Len(commits), NEW k \in m .. Len(commits), e <= k,
              ModeAt(commits, e) = "enforce"
       PROVE  ModeAt(commits, k) = "enforce"
  <2>1. PICK g \in all : m <= g /\ g <= e /\ ModeAt(commits, g) = ModeAt(commits, e)
    BY <1>9
  <2>2. g \notin walked
    BY <2>1, <1>2, <1>5, <1>12
  <2>3. PICK q \in all : m <= q /\ q <= k /\ commits[q].config = commits[k].config /\ g <= q
    <3>1. k \in 1 .. Len(commits) /\ g <= k
      BY <2>1, <1>2, <1>5, <1>12
    <3>2. \E q \in all : g <= q /\ q <= k /\ commits[q].config = commits[k].config
      BY <3>1, LastTouch DEF all
    <3> QED BY <3>2, <2>1, <1>2, <1>5
  <2>4. ModeAt(commits, q) = ModeAt(commits, k)
    BY <2>3 DEF ModeAt
  <2> QED BY <2>2, <2>3, <2>4, <1>2, <1>7
<1>13. PICK n \in 1 .. Len(commits) : n = m
  BY <1>2, <1>5
<1>14. \A e, k \in n .. Len(commits) :
          (e <= k /\ ModeAt(commits, e) = "enforce") => ModeAt(commits, k) = "enforce"
  BY <1>12, <1>13
<1>15. /\ reportOnlyConfigurationStart(commits, mode) = commits[n].at
       /\ mode = "report-only" =>
            \A k \in n .. Len(commits) : ModeAt(commits, k) = "report-only"
       /\ \A k \in n .. Len(commits) : ModeAt(commits, k) \in {"report-only", "enforce"}
  BY <1>1, <1>10, <1>11, <1>13
<1> QED BY <1>14, <1>15

-----------------------------------------------------------------------------
(* The commands.                                                           *)

(* A command goes on with what holds, or ends.                             *)
LEMMA CommandGoesOn ==
    ASSUME NEW c, cli' \in {c, NoCommand}, CommandHolds(c),
           UNCHANGED <<now, commits, runs, rules, pulls, counts>>
    PROVE  CommandStep
<1>1. CommandHolds(NoCommand)
  BY DEF CommandHolds, NoCommand
<1>2. PICK d : d = cli' /\ CommandHolds(d)
  BY <1>1
<1> QED BY <1>2, RulesStay DEF CommandStep

LEMMA DoctorReadsFilesIs ==
    ASSUME RolloutAssumption, RolloutInv, NEW cmd, NEW target, NEW appAccess,
           doctorReadsFiles(cmd, target, appAccess)
    PROVE  CommandStep
<1>1. PICK c : c = [step |-> "history",
                    of |-> [cmd |-> cmd, began |-> now, config |-> Tip.config,
                            workflow |-> Tip.workflow, appAccess |-> appAccess]]
  OBVIOUS
<1>2. cli' = c /\ UNCHANGED <<now, commits, runs, rules, pulls, counts>>
  BY <1>1 DEF doctorReadsFiles
<1>3. Tip.config # None
  BY DEF doctorReadsFiles, fileChecks
<1>4. Tip.config \in Configs /\ Tip.config.mode # "advisory"
  BY <1>3, TipIs DEF RolloutInv, Coherent, doctorReadsFiles
<1>5. Tip.config.mode \in {"report-only", "enforce"}
  BY <1>4 DEF Configs, ScannerModes
<1>6. Begun(c) /\ c.step = "history"
  BY <1>1, <1>3, <1>5 DEF Begun, RolloutInv, History
<1>7. CommandHolds(c)
  BY <1>6 DEF CommandHolds
<1> QED BY <1>2, <1>7, CommandGoesOn

LEMMA DoctorReadsHistoryIs ==
    ASSUME RolloutAssumption, RolloutInv, doctorReadsHistory
    PROVE  CommandStep
<1> DEFINE since == reportOnlyConfigurationStart(commits, cli.of.config.mode)
<1>1. PICK c : c = [step |-> "changes", of |-> cli.of, seen |-> Len(commits), since |-> since,
                    times |-> [file \in {"config", "workflow"} |-> None],
                    awaited |-> {"config", "workflow"}]
  OBVIOUS
<1>2. /\ cli.step = "history" /\ UNCHANGED <<now, commits, runs, rules, pulls, counts>>
      /\ cli' = IF since = None THEN NoCommand ELSE c
  BY <1>1 DEF doctorReadsHistory, doctorReads
<1>3. Begun(cli)
  BY <1>2 DEF RolloutInv, Commands, CommandHolds
<1>4. CASE since = None
  BY <1>2, <1>4, RulesStay DEF CommandStep, CommandHolds, NoCommand
<1>5. CASE since # None
  <2>1. /\ c.step = "changes" /\ c.of = cli.of /\ c.seen = Len(commits) /\ c.since = since
        /\ DOMAIN c = {"step", "of", "seen", "since", "times", "awaited"}
    BY <1>1
  <2>2. PICK mode \in {"report-only", "enforce"} : mode = cli.of.config.mode
    BY <1>3 DEF Begun
  <2>3. PICK m \in 1 .. Len(commits) :
             /\ since = commits[m].at
             /\ mode = "report-only" =>
                  \A k \in m .. Len(commits) : ModeAt(commits, k) = "report-only"
             /\ \A k \in m .. Len(commits) : ModeAt(commits, k) \in {"report-only", "enforce"}
             /\ \A e, k \in m .. Len(commits) :
                  (e <= k /\ ModeAt(commits, e) = "enforce") => ModeAt(commits, k) = "enforce"
    BY <1>5, <2>2, Stretch DEF RolloutInv
  <2> HIDE DEF since
  <2>4. Len(commits) \in 1 .. Len(commits) /\ commits[m].at \in Nat /\ Len(commits) \in Nat
    BY TipIs DEF RolloutInv, History
  <2>5. Seen(c, c.since)
    BY <2>1, <2>2, <2>3, <2>4 DEF Seen
  <2>6. Begun(c)
    BY <1>3, <2>1 DEF Begun
  <2>7. CommandHolds(c)
    BY <2>1, <2>5, <2>6 DEF CommandHolds
  <2> QED BY <1>2, <1>5, <2>7, CommandGoesOn
<1> QED BY <1>4, <1>5

LEMMA DoctorReadsChangeIs ==
    ASSUME RolloutInv, NEW file, doctorReadsChange(file)
    PROVE  CommandStep
<1>1. PICK c : c = [cli EXCEPT !.times[file] = latestPathCommitTime(commits, file),
                               !.awaited = @ \ {file}]
  OBVIOUS
<1>2. /\ cli.step = "changes" /\ UNCHANGED <<now, commits, runs, rules, pulls, counts>>
      /\ cli' = c
  BY <1>1 DEF doctorReadsChange, doctorReads
<1>3. /\ Begun(cli) /\ Seen(cli, cli.since)
      /\ {"step", "of", "seen", "since", "times", "awaited"} \subseteq DOMAIN cli
  BY <1>2 DEF RolloutInv, Commands, CommandHolds
<1>4. /\ c.step = cli.step /\ c.of = cli.of /\ c.seen = cli.seen /\ c.since = cli.since
      /\ DOMAIN c = DOMAIN cli
  BY <1>1, <1>3
<1>5. Begun(c) /\ Seen(c, c.since)
  BY <1>3, <1>4 DEF Begun, Seen
<1>6. CommandHolds(c)
  BY <1>2, <1>3, <1>4, <1>5 DEF CommandHolds
<1> QED BY <1>2, <1>6, CommandGoesOn

LEMMA DoctorReadsRunsIs ==
    ASSUME RolloutAssumption, PolicyAssumption, RolloutInv, doctorReadsRuns
    PROVE  CommandStep
<1> DEFINE listed == loadWorkflowRuns(runs)
           changed == managedConfigurationChangedAt(cli.times)
<1>1. PICK c : c = [step |-> "gate", of |-> cli.of, seen |-> cli.seen, since |-> cli.since,
                    listed |-> listed, changed |-> changed]
  OBVIOUS
<1>2. /\ cli.step = "changes" /\ UNCHANGED <<now, commits, runs, rules, pulls, counts>>
      /\ cli' \in {c, NoCommand}
  BY <1>1 DEF doctorReadsRuns, doctorReads
<1>3. Begun(cli) /\ Seen(cli, cli.since)
  BY <1>2 DEF RolloutInv, Commands, CommandHolds
<1>4. Listing(listed)
  BY LoadIs DEF RolloutInv
<1> HIDE DEF listed, changed
<1>5. /\ c.step = "gate" /\ c.of = cli.of /\ c.seen = cli.seen /\ c.since = cli.since
      /\ c.listed = listed
  BY <1>1
<1>6. Begun(c) /\ Seen(c, c.since) /\ Listing(c.listed)
  BY <1>3, <1>4, <1>5 DEF Begun, Seen
<1>7. CommandHolds(c)
  BY <1>5, <1>6 DEF CommandHolds
<1> QED BY <1>2, <1>7, CommandGoesOn

LEMMA DoctorReadsGateIs ==
    ASSUME RolloutAssumption, RolloutInv, doctorReadsGate
    PROVE  CommandStep
<1>1. PICK gate : gate = inspectGateCheck(cli.listed, runs, cli.changed, now)
  OBVIOUS
<1>2. PICK c : c = [step |-> "baseline", of |-> cli.of, seen |-> cli.seen, since |-> cli.since,
                    listed |-> cli.listed, gate |-> gate]
  OBVIOUS
<1>3. /\ cli.step = "gate" /\ UNCHANGED <<now, commits, runs, rules, pulls, counts>>
      /\ cli' = IF gate.state # "ok" THEN NoCommand ELSE c
  BY <1>1, <1>2 DEF doctorReadsGate, doctorReads
<1>4. Begun(cli) /\ Seen(cli, cli.since) /\ Listing(cli.listed)
  BY <1>3 DEF RolloutInv, Commands, CommandHolds
<1>5. CASE gate.state # "ok"
  BY <1>3, <1>5, RulesStay DEF CommandStep, CommandHolds, NoCommand
<1>6. CASE gate.state = "ok"
  <2>1. PICK l : l = cli.listed
    OBVIOUS
  <2>2. GateHolds(gate.run)
    BY <2>1, <1>1, <1>4, <1>6, GateIs DEF RolloutInv
  <2>3. /\ c.step = "baseline" /\ c.of = cli.of /\ c.seen = cli.seen /\ c.since = cli.since
        /\ c.listed = cli.listed /\ c.gate = gate
    BY <1>2
  <2>4. Begun(c) /\ Seen(c, c.since) /\ Listing(c.listed) /\ GateHolds(c.gate.run)
    BY <1>4, <2>2, <2>3 DEF Begun, Seen
  <2>5. CommandHolds(c)
    BY <2>3, <2>4 DEF CommandHolds
  <2> QED BY <1>3, <1>6, <2>5, CommandGoesOn
<1> QED BY <1>5, <1>6

LEMMA DoctorReadsBaselineIs ==
    ASSUME RolloutInv, doctorReadsBaseline
    PROVE  CommandStep
<1> DEFINE ready == inspectBaseline(Tip.baseline, cli.of.config.mode)
<1>1. PICK c : c = [step |-> "observation", of |-> cli.of, seen |-> cli.seen, since |-> cli.since,
                    listed |-> cli.listed, gate |-> cli.gate, baselineReady |-> ready]
  OBVIOUS
<1>2. /\ cli.step = "baseline" /\ UNCHANGED <<now, commits, runs, rules, pulls, counts>>
      /\ cli' \in {c, NoCommand}
  BY <1>1 DEF doctorReadsBaseline, doctorReads
<1>3. Begun(cli) /\ Seen(cli, cli.since) /\ Listing(cli.listed) /\ GateHolds(cli.gate.run)
  BY <1>2 DEF RolloutInv, Commands, CommandHolds
<1> HIDE DEF ready
<1>4. /\ c.step = "observation" /\ c.of = cli.of /\ c.seen = cli.seen /\ c.since = cli.since
      /\ c.listed = cli.listed /\ c.gate = cli.gate
  BY <1>1
<1>5. Begun(c) /\ Seen(c, c.since) /\ Listing(c.listed) /\ GateHolds(c.gate.run)
  BY <1>3, <1>4 DEF Begun, Seen
<1>6. CommandHolds(c)
  BY <1>4, <1>5 DEF CommandHolds
<1> QED BY <1>2, <1>6, CommandGoesOn

(* A run that is a full period old began before the command did.           *)
LEMMA DoctorReadsObservationIs ==
    ASSUME RolloutAssumption, PolicyAssumption, RolloutInv, doctorReadsObservation
    PROVE  CommandStep
<1>1. PICK period :
        period = inspectObservationPeriod(cli.listed, runs, cli.of.config.mode, cli.since, now)
  OBVIOUS
<1>2. PICK c : c = [step |-> "rules", of |-> cli.of, seen |-> cli.seen, gate |-> cli.gate,
                    baselineReady |-> cli.baselineReady, period |-> period]
  OBVIOUS
<1>3. /\ cli.step = "observation" /\ UNCHANGED <<now, commits, runs, rules, pulls, counts>>
      /\ now - cli.of.began < MinimumDays
      /\ cli' = IF ~period.ok THEN NoCommand ELSE c
  BY <1>1, <1>2 DEF doctorReadsObservation, doctorReads
<1>4. Begun(cli) /\ Seen(cli, cli.since) /\ Listing(cli.listed) /\ GateHolds(cli.gate.run)
  BY <1>3 DEF RolloutInv, Commands, CommandHolds
<1>5. CASE ~period.ok
  BY <1>3, <1>5, RulesStay DEF CommandStep, CommandHolds, NoCommand
<1>6. CASE period.ok
  <2>1. PICK l, mode, since : l = cli.listed /\ mode = cli.of.config.mode /\ since = cli.since
    OBVIOUS
  <2>2. ObservationHolds(period.proof) /\ period.proof.startedAt >= since
    BY <2>1, <1>1, <1>4, <1>6, PeriodIs DEF RolloutInv, Begun
  <2>3. period.proof.startedAt \in Nat /\ now - period.proof.startedAt >= MinimumDays
    BY <2>2 DEF ObservationHolds, RolloutInv, Executions, Execution
  <2>4. PICK t \in Nat : t = period.proof.startedAt
    BY <2>3
  <2>5. t < cli.of.began /\ t >= since /\ since \in Nat
    <3>1. PICK began \in Nat : began = cli.of.began
      BY <1>4 DEF Begun
    <3>2. now \in Nat /\ MinimumDays \in Nat /\ now - began < MinimumDays /\ now - t >= MinimumDays
      BY <1>3, <2>3, <2>4, <3>1 DEF PolicyAssumption, RolloutInv, History
    <3>3. t < began
      BY <2>4, <3>1, <3>2
    <3>4. since \in Nat
      BY <1>4, <2>1 DEF Seen
    <3> QED BY <2>2, <2>4, <3>1, <3>3, <3>4
  <2>6. /\ c.step = "rules" /\ c.of = cli.of /\ c.seen = cli.seen /\ c.gate = cli.gate
        /\ c.period = period
    BY <1>2
  <2>7. Seen(c, t)
    <3>1. PICK m \in 1 .. cli.seen :
             /\ commits[m].at <= since
             /\ cli.of.config.mode = "report-only" =>
                  \A k \in m .. cli.seen : ModeAt(commits, k) = "report-only"
             /\ \A k \in m .. cli.seen : ModeAt(commits, k) \in {"report-only", "enforce"}
             /\ \A e, k \in m .. cli.seen :
                  (e <= k /\ ModeAt(commits, e) = "enforce") => ModeAt(commits, k) = "enforce"
      BY <1>4, <2>1 DEF Seen
    <3>2. commits[m].at \in Nat /\ commits[m].at <= t
      <4>1. cli.seen \in 1 .. Len(commits) /\ Len(commits) \in Nat
        BY <1>4, SequenceIs DEF Seen, RolloutInv, History
      <4>2. m \in 1 .. Len(commits)
        BY <4>1
      <4>3. commits[m].at \in Nat
        BY <4>2 DEF RolloutInv, History
      <4> QED BY <4>3, <3>1, <2>5
    <3> QED BY <1>4, <2>6, <3>1, <3>2 DEF Seen
  <2>8. Begun(c) /\ GateHolds(c.gate.run)
    BY <1>4, <2>6 DEF Begun
  <2>9. CommandHolds(c)
    BY <2>2, <2>4, <2>5, <2>6, <2>7, <2>8 DEF CommandHolds
  <2> QED BY <1>3, <1>6, <2>9, CommandGoesOn
<1> QED BY <1>5, <1>6

LEMMA DiagnosisIs ==
    ASSUME NEW d, d = Diagnosis, cli.of.config # None
    PROVE  d.mode = cli.of.config.mode /\ d.gateRun = cli.gate.run /\ d.proof = cli.period.proof
BY DEF Diagnosis, doctorInternal

(* A run that began after a commit has its head there or later.            *)
LEMMA HeadIs ==
    ASSUME RolloutAssumption, History, Counted, Executions, NEW i \in 1 .. Len(runs),
           NEW m \in 1 .. Len(commits), commits[m].at <= runs[i].attempts[1].at
    PROVE  runs[i].head \in m .. Len(commits)
<1>1. /\ Len(commits) \in Nat
      /\ \A k, q \in 1 .. Len(commits) : k < q => commits[k].at < commits[q].at
      /\ \A k \in 1 .. Len(commits) : commits[k].at \in Nat
  BY SequenceIs DEF History
<1>2. PICK g \in 1 .. Len(commits) : g = runs[i].head
  BY AttemptsOf
<1>3. PICK t \in Nat : t = runs[i].attempts[1].at
  BY AttemptsOf
<1>4. ASSUME g < m PROVE FALSE
  <2>1. PICK next \in 1 .. Len(commits) : next = g + 1 /\ next <= m
    BY <1>1, <1>4
  <2>2. t < commits[next].at
    <3>1. Execution(runs[i])
      BY DEF Executions
    <3>2. g < Len(commits) => t < commits[g + 1].at
      BY <3>1, <1>2, <1>3 DEF Execution
    <3> QED BY <3>2, <2>1, <1>1
  <2>3. PICK x \in Nat, y \in Nat : x = commits[next].at /\ y = commits[m].at
    BY <1>1
  <2>4. x <= y
    <3>1. CASE next = m
      BY <3>1, <2>3
    <3>2. CASE next < m
      <4>1. commits[next].at < commits[m].at
        BY <3>2, <1>1
      <4> QED BY <4>1, <2>3
    <3> QED BY <3>1, <3>2, <2>1, <1>1
  <2>5. t < x
    BY <2>2, <2>3
  <2>6. y <= t
    BY <2>3, <1>3
  <2>7. t < y
    BY <2>4, <2>5
  <2> QED BY <2>6, <2>7
<1> QED BY <1>1, <1>2, <1>4

LEMMA BaselineDiagnosedIs ==
    ASSUME RolloutAssumption, RolloutInv, baselineDiagnosed
    PROVE  CommandStep
<1>1. PICK d : /\ d = Diagnosis /\ cli.step = "rules"
               /\ cli' = IF ~baselinePrerequisites(d) THEN NoCommand
                         ELSE [step |-> "draft", gateRun |-> d.gateRun, proof |-> d.proof]
               /\ UNCHANGED <<now, commits, runs, rules, pulls, counts>>
  BY DEF baselineDiagnosed, doctorReads
<1>2. /\ Begun(cli) /\ GateHolds(cli.gate.run) /\ ObservationHolds(cli.period.proof)
      /\ Seen(cli, cli.period.proof.startedAt) /\ cli.period.proof.startedAt < cli.of.began
  BY <1>1 DEF RolloutInv, Commands, CommandHolds
<1>3. History /\ Counted /\ Executions
  BY DEF RolloutInv
<1>4. d.mode = cli.of.config.mode /\ d.gateRun = cli.gate.run /\ d.proof = cli.period.proof
  BY <1>1, <1>2, DiagnosisIs DEF Begun
<1>5. CASE ~baselinePrerequisites(d)
  BY <1>1, <1>5, RulesStay DEF CommandStep, CommandHolds, NoCommand
<1>6. CASE baselinePrerequisites(d)
  <2>1. cli.of.config.mode = "report-only"
    BY <1>4, <1>6 DEF baselinePrerequisites
  <2>2. PICK o : o = d.proof
    OBVIOUS
  <2>3. ASSUME o.attempt = 1 PROVE ModeAt(commits, o.head) = "report-only"
    <3>1. PICK i \in 1 .. Len(runs) : i = o.run
      BY <1>2, <1>4, <2>2 DEF ObservationHolds
    <3>2. PICK t \in Nat : t = o.startedAt /\ t = runs[i].attempts[1].at
      BY <1>2, <1>3, <1>4, <2>2, <2>3, <3>1, AttemptsOf DEF ObservationHolds
    <3>3. /\ cli.seen \in 1 .. Len(commits) /\ t < cli.of.began /\ cli.of.began \in Nat
          /\ \A k \in cli.seen + 1 .. Len(commits) : commits[k].at > cli.of.began
          /\ \E m \in 1 .. cli.seen :
               /\ commits[m].at <= t
               /\ \A k \in m .. cli.seen : ModeAt(commits, k) = "report-only"
      BY <1>2, <1>4, <2>1, <2>2, <3>2 DEF Seen, Begun
    <3>4. PICK m \in 1 .. cli.seen :
               /\ commits[m].at <= t
               /\ \A k \in m .. cli.seen : ModeAt(commits, k) = "report-only"
      BY <3>3
    <3>5. Len(commits) \in Nat /\ m \in 1 .. Len(commits)
      BY <1>3, <3>3, SequenceIs DEF History
    <3>6. runs[i].head \in m .. Len(commits)
      BY <1>3, <3>2, <3>4, <3>5, HeadIs
    <3>7. PICK g \in 1 .. Len(commits) : g = runs[i].head /\ m <= g
      BY <3>5, <3>6
    <3>8. commits[g].at < t /\ commits[g].at \in Nat
      <4>1. Execution(runs[i])
        BY <1>3 DEF Executions
      <4>2. 1 \in 1 .. Len(runs[i].attempts)
        BY <1>3, AttemptsOf
      <4>3. commits[runs[i].head].at < runs[i].attempts[1].at
        BY <4>1, <4>2 DEF Execution
      <4> QED BY <4>3, <1>3, <3>2, <3>7 DEF History
    <3>9. g <= cli.seen
      <4>1. SUFFICES ASSUME g > cli.seen PROVE FALSE
        BY <3>3, <3>5
      <4>2. g \in cli.seen + 1 .. Len(commits)
        BY <4>1, <3>3, <3>5
      <4>3. commits[g].at > cli.of.began
        BY <4>2, <3>3
      <4>4. PICK x \in Nat, b \in Nat : x = commits[g].at /\ b = cli.of.began
        BY <3>3, <3>8
      <4>5. x < t /\ t < b
        BY <4>4, <3>3, <3>8
      <4>6. x > b
        BY <4>3, <4>4
      <4> QED BY <4>5, <4>6
    <3>10. ModeAt(commits, g) = "report-only"
      BY <3>3, <3>4, <3>5, <3>7, <3>9
    <3>11. o.head = g
      BY <1>2, <1>4, <2>2, <3>1, <3>7 DEF ObservationHolds
    <3> QED BY <3>10, <3>11
  <2>4. PICK c : c = [step |-> "draft", gateRun |-> d.gateRun, proof |-> d.proof]
    OBVIOUS
  <2>5. c.step = "draft" /\ c.gateRun = cli.gate.run /\ c.proof = o /\ cli' = c
    BY <1>1, <1>4, <1>6, <2>2, <2>4
  <2>6. DraftHolds(c)
    BY <1>2, <1>4, <2>2, <2>3, <2>5 DEF DraftHolds
  <2>7. CommandHolds(c)
    BY <2>5, <2>6 DEF CommandHolds
  <2> QED BY <1>1, <2>5, <2>7, CommandGoesOn
<1> QED BY <1>5, <1>6

LEMMA OtherCommandsAre ==
    ASSUME RolloutInv, enforceDiagnosed \/ enforceRuleset \/ commandFails
    PROVE  CommandStep
<1>1. CASE enforceDiagnosed
  <2>1. PICK c : c = [step |-> "enforce", rulesetReady |-> Diagnosis.rules.ready]
    OBVIOUS
  <2>2. cli' \in {c, NoCommand} /\ UNCHANGED <<now, commits, runs, rules, pulls, counts>>
    BY <1>1, <2>1 DEF enforceDiagnosed, doctorReads
  <2>3. CommandHolds(c)
    BY <2>1 DEF CommandHolds
  <2> QED BY <2>2, <2>3, CommandGoesOn
<1>2. CASE enforceRuleset
  <2>1. PICK c : c = cli' /\ c \in {NoCommand, [step |-> "transition", config |-> Tip.config]}
    BY <1>2 DEF enforceRuleset
  <2>2. c # NoCommand => Tip.config # None
    BY <1>2, <2>1 DEF enforceRuleset
  <2>3. CommandHolds(c)
    BY <2>1, <2>2 DEF CommandHolds, NoCommand
  <2>4. /\ UNCHANGED <<now, commits, runs, pulls, counts, lastReady>>
        /\ owned' \in {owned, "ready"}
    BY <1>2 DEF enforceRuleset
  <2>5. RulesLast
    BY <2>4 DEF RulesLast, RequiredSince
  <2> QED BY <2>1, <2>3, <2>4, <2>5 DEF CommandStep
<1>3. CASE commandFails
  <2>1. cli' = NoCommand /\ UNCHANGED <<now, commits, runs, rules, pulls, counts>>
    BY <1>3 DEF commandFails
  <2> QED BY <2>1, RulesStay DEF CommandStep, CommandHolds, NoCommand
<1> QED BY <1>1, <1>2, <1>3

-----------------------------------------------------------------------------
(* The gate of an enforce-mode attempt.                                    *)

LEMMA AttemptNamed ==
    ASSUME RolloutAssumption, History, Counted, Executions,
           NEW i \in 1 .. Len(runs), NEW a \in 1 .. Len(runs[i].attempts)
    PROVE  \E x \in Attempts : x[1] = i /\ x[2] = a
<1>1. /\ i \in 1 .. MaxAttempts /\ i \in DOMAIN runs /\ a \in DOMAIN runs[i].attempts
      /\ Len(runs[i].attempts) \in Nat /\ Len(runs[i].attempts) <= MaxAttempts
      /\ MaxAttempts \in Nat
  BY AttemptsOf DEF RolloutAssumption
<1>2. a \in 1 .. MaxAttempts
  BY <1>1
<1> DEFINE x == <<i, a>>
<1>3. x \in (1 .. MaxAttempts) \X (1 .. MaxAttempts) /\ x[1] = i /\ x[2] = a
  BY <1>1, <1>2
<1> HIDE DEF x
<1>4. KnownAttempt(runs, [run |-> x[1], attempt |-> x[2]])
  BY <1>1, <1>3 DEF KnownAttempt
<1> QED BY <1>3, <1>4 DEF Attempts

(* What the verifier has seen once the provenance holds.                   *)
LEMMA ProvenanceHoldsIs ==
    ASSUME RolloutAssumption, History, Counted, Executions, NEW tip,
           provenanceHolds(commits, tip, runs, now)
    PROVE  \E x \in Attempts : Observed(x)
<1> DEFINE o == commits[tip].baseline.observation
<1>1. gateProvenance(commits, runs, o) /\ observationIsOldEnough(runs, o, now)
  BY DEF provenanceHolds
<1> HIDE DEF o
<1>2. /\ o.run \in DOMAIN runs /\ o.attempt \in DOMAIN runs[o.run].attempts
      /\ runs[o.run].head = o.head /\ runs[o.run].attempts[o.attempt].gate = "success"
      /\ runs[o.run].attempts[o.attempt].conclusion # "pending"
      /\ runs[o.run].event \in {"push", "workflow_dispatch"}
      /\ ModeAt(commits, o.head) = "report-only"
      /\ now - runs[o.run].attempts[o.attempt].at >= MinimumDays
  BY <1>1 DEF gateProvenance, assertGateRunIdentity, KnownAttempt, isAlwaysSecurityEvent,
     assertDeterministicScannerJob, validateGateConfigFields, observationIsOldEnough
<1>3. DOMAIN runs = 1 .. Len(runs)
  BY SequenceIs DEF Executions
<1>4. PICK i \in 1 .. Len(runs) : i = o.run
  BY <1>2, <1>3
<1>5. PICK a \in 1 .. Len(runs[i].attempts) : a = o.attempt
  BY <1>2, <1>4, AttemptsOf
<1>6. PICK x \in Attempts : x[1] = i /\ x[2] = a
  BY AttemptNamed
<1> QED BY <1>2, <1>4, <1>5, <1>6 DEF Observed, AttemptOf

LEMMA VerifyingIs ==
    ASSUME RolloutAssumption, RolloutInv, NEW i, verifyProvenance(i) \/ verifyRulesets(i)
    PROVE  RunStep
<1>1. History /\ Counted /\ Executions /\ Verification
  BY DEF RolloutInv
<1>2. i \in 1 .. Len(runs)
  BY <1>1, SequenceIs DEF verifyProvenance, verifyRulesets, Verifies, Executions
<1>3. PICK last : last = runs[i].attempts[Len(runs[i].attempts)]
  OBVIOUS
<1>4. last.at \in Nat /\ last.at <= now /\ last = latestAttempt(runs[i])
  BY <1>1, <1>2, <1>3, AttemptsOf
<1>5. Checked(last)
  <2>1. PICK n \in 1 .. Len(runs[i].attempts) : n = Len(runs[i].attempts)
    BY <1>1, <1>2, AttemptsOf
  <2>2. Vouched(runs[i])
    BY <1>1, <1>2 DEF Verification
  <2>3. Checked(runs[i].attempts[n])
    BY <2>2 DEF Vouched
  <2> QED BY <2>1, <2>3, <1>3
<1>6. CASE verifyProvenance(i)
  <2>1. PICK x : x = Attempt(last, last.at, "provenance")
    OBVIOUS
  <2>2. x.checked = "provenance" /\ x.at = last.at
    BY <2>1 DEF Attempt
  <2>3. \E y \in Attempts : Observed(y)
    BY <1>1, <1>6, ProvenanceHoldsIs DEF verifyProvenance
  <2>4. Checked(x)
    BY <1>4, <2>2, <2>3 DEF Checked
  <2> QED BY <1>3, <1>6, <2>1, <2>4, VerifiesIs DEF verifyProvenance
<1>7. CASE verifyRulesets(i)
  <2>1. PICK x : x = Attempt(last, last.at, "rulesets")
    OBVIOUS
  <2>2. x.checked = "rulesets" /\ x.at = last.at
    BY <2>1 DEF Attempt
  <2>3. last.checked = "provenance" /\ owned = "ready"
    BY <1>4, <1>7 DEF verifyRulesets, Verifies, guardianRulesetIsReady
  <2>4. \E y \in Attempts : Observed(y)
    BY <1>5, <2>3 DEF Checked
  <2>5. Checked(x)
    BY <1>4, <2>2, <2>3, <2>4 DEF Checked, RequiredSince
  <2> QED BY <1>3, <1>7, <2>1, <2>5, VerifiesIs DEF verifyRulesets
<1> QED BY <1>6, <1>7

LEMMA NextIs ==
    ASSUME RolloutAssumption, PolicyAssumption, RolloutInv, RolloutNext
    PROVE  CommitStep \/ PullStep \/ CommandStep \/ RunStep \/ QuietStep
BY MergePullIs, OnboardIs, UpgradeIs, OffboardIs, DoctorReadsFilesIs, DoctorReadsHistoryIs,
   DoctorReadsChangeIs, DoctorReadsRunsIs, DoctorReadsGateIs, DoctorReadsBaselineIs,
   DoctorReadsObservationIs, OtherCommandsAre, BaselineDiagnosedIs, BaselineIs, EnforceIs,
   StartRunIs, RerunIs, FinishRunIs, VerifyingIs, EditConfigIs, EditWorkflowIs,
   EditBaselineIs, QuietIs DEF RolloutNext

(* The inductive invariant of a rollout: the history, its runs, the pull    *)
(* requests and the draft under way hold together.                         *)
THEOREM RolloutInductive ==
    ASSUME RolloutAssumption, PolicyAssumption
    PROVE  RolloutSpec => []RolloutInv
<1>1. RolloutInit => RolloutInv
  <2> SUFFICES ASSUME RolloutInit PROVE RolloutInv
    OBVIOUS
  <2> DEFINE c == [config |-> None, workflow |-> None, baseline |-> None,
                   report |-> None, at |-> 1]
  <2>1. /\ now = 1 /\ commits = <<c>> /\ runs = <<>> /\ pulls = {} /\ cli = NoCommand
        /\ counts = [attempts |-> 0, edits |-> {}, waits |-> 0]
    BY DEF RolloutInit
  <2>2. DOMAIN c = Files \cup {"at"} /\ Coherent(c) /\ c.at = 1
    BY DEF Files, Coherent
  <2> HIDE DEF c
  <2>3. Sequence(commits) /\ Len(commits) = 1 /\ commits[1] = c
    BY <2>1, SequenceOfOne
  <2>4. History
    BY <2>1, <2>2, <2>3 DEF History
  <2>5. Counted
    BY <2>1 DEF Counted, RolloutAssumption
  <2>6. Executions
    BY <2>1, SequenceOfNone DEF Executions
  <2>7. Proposals /\ Commands
    BY <2>1 DEF Proposals, Commands, CommandHolds, NoCommand
  <2>8. Verification
    BY <2>1, SequenceOfNone DEF Verification
  <2> QED BY <2>4, <2>5, <2>6, <2>7, <2>8 DEF RolloutInv
<1>2. RolloutInv /\ [RolloutNext]_rolloutVars => RolloutInv'
  <2> SUFFICES ASSUME RolloutInv, [RolloutNext]_rolloutVars PROVE RolloutInv'
    OBVIOUS
  <2>1. CASE RolloutNext
    BY <2>1, NextIs, StepKeeps
  <2>2. CASE UNCHANGED rolloutVars
    <3>1. QuietStep
      BY <2>2, RulesStay DEF rolloutVars, rules, QuietStep, CountsKept, RolloutInv, History
    <3> QED BY <3>1, StepKeeps
  <2> QED BY <2>1, <2>2
<1> QED BY <1>1, <1>2, PTL DEF RolloutSpec

-----------------------------------------------------------------------------
(* The theorems.                                                           *)

LEMMA EarnedIs ==
    ASSUME NEW r, Vouched(r), Earned(r), Len(r.attempts) \in Nat, Len(r.attempts) >= 1,
           Last(r.attempts).gate = "success", ModeAt(commits, r.head) = "enforce"
    PROVE  RequiredSince(Last(r.attempts).at) /\ \E x \in Attempts : Observed(x)
<1>1. PICK z : z = r.attempts[Len(r.attempts)]
  OBVIOUS
<1>2. z = Last(r.attempts) /\ z.checked = "rulesets"
  BY <1>1 DEF Earned, Last
<1>3. Checked(z)
  BY <1>1 DEF Vouched
<1> QED BY <1>2, <1>3 DEF Checked

LEMMA RunStepIsEarned ==
    ASSUME RolloutAssumption, History, Counted, Executions, Verification, RunStep,
           NEW i \in DOMAIN runs', i \notin DOMAIN runs \/ runs'[i] # runs[i],
           Last(runs'[i].attempts).gate = "success", ModeAt(commits, runs'[i].head) = "enforce"
    PROVE  RequiredSince(Last(runs'[i].attempts).at) /\ \E x \in Attempts : Observed(x)
<1>1. /\ Sequence(runs) /\ Len(runs) \in Nat /\ DOMAIN runs = 1 .. Len(runs)
      /\ UNCHANGED commits
  BY SequenceIs DEF Executions, RunStep
<1>2. ASSUME NEW r, RunBegins(r), runs' = Append(runs, r), Attempted
      PROVE  runs'[i] = r /\ Vouched(r) /\ Earned(r) /\ Execution(r)'
  <2>1. /\ DOMAIN runs' = 1 .. Len(runs) + 1 /\ runs'[Len(runs) + 1] = r
        /\ \A j \in 1 .. Len(runs) : runs'[j] = runs[j]
    <3>1. Sequence(runs') /\ Len(runs') = Len(runs) + 1
      BY <1>1, <1>2, SequenceGrows
    <3> QED BY <3>1, <1>1, <1>2, SequenceGrows, SequenceIs
  <2>2. runs'[i] = r
    BY <2>1, <1>1
  <2> QED BY <2>2, <1>1, <1>2, RunBeginsIs
<1>3. ASSUME NEW r, NEW j \in DOMAIN runs, runs' = [runs EXCEPT ![j] = r],
             \/ RunRepeats(runs[j], r) /\ Attempted
             \/ RunGoesOn(runs[j], r) /\ UNCHANGED <<now, counts>>
      PROVE  runs'[i] = r /\ Vouched(r) /\ Earned(r) /\ Execution(r)'
  <2>1. i = j /\ runs'[i] = r
    BY <1>3
  <2>2. PICK q : q = runs[j]
    OBVIOUS
  <2>3. Execution(q) /\ Vouched(q)
    BY <2>2, <1>1 DEF Executions, Verification
  <2>4. CASE RunRepeats(runs[j], r) /\ Attempted
    BY <2>1, <2>2, <2>3, <2>4, <1>1, RunRepeatsIs
  <2>5. CASE RunGoesOn(runs[j], r) /\ UNCHANGED <<now, counts>>
    BY <2>1, <2>2, <2>3, <2>5, <1>1, RunGoesOnIs
  <2> QED BY <1>3, <2>4, <2>5
<1>4. PICK r : runs'[i] = r /\ Vouched(r) /\ Earned(r) /\ Execution(r)'
  BY <1>2, <1>3 DEF RunStep
<1>5. Len(r.attempts) \in Nat /\ Len(r.attempts) >= 1
  <2>1. Sequence(r.attempts) /\ Len(r.attempts) \in 1 .. counts'.attempts
    BY <1>4 DEF Execution, Sequence
  <2>2. Len(r.attempts) \in Nat
    BY <2>1, SequenceIs
  <2> QED BY <2>1, <2>2
<1> QED BY <1>4, <1>5, EarnedIs

(* A gate passes in enforce mode only if a report-only run had been         *)
(* observed for a period and the ruleset required the check at some moment  *)
(* since the attempt began, when verify-enforcement-readiness ran: for any  *)
(* history, any pins, any ends of runs and any number of edits.            *)
THEOREM EnforcementIsEarnedTheorem ==
    ASSUME RolloutAssumption, PolicyAssumption
    PROVE  RolloutSpec => EnforcementIsEarned
<1> DEFINE Deserved ==
      \A i \in DOMAIN runs' :
         (/\ i \notin DOMAIN runs \/ runs'[i] # runs[i]
          /\ Last(runs'[i].attempts).gate = "success"
          /\ ModeAt(commits, runs'[i].head) = "enforce")
         => /\ RequiredSince(Last(runs'[i].attempts).at)
            /\ \E x \in Attempts : Observed(x)
<1>1. ASSUME RolloutInv, RolloutNext PROVE Deserved
  <2>1. CASE RunStep
    BY <2>1, <1>1, RunStepIsEarned DEF RolloutInv
  <2>2. CASE UNCHANGED runs
    BY <2>2
  <2> QED BY <2>1, <2>2, <1>1, NextIs DEF CommitStep, PullStep, CommandStep, QuietStep
<1>2. RolloutInv /\ [RolloutNext]_rolloutVars => [Deserved]_rolloutVars
  BY <1>1
<1>3. RolloutSpec => [][Deserved]_rolloutVars
  BY <1>2, RolloutInductive, PTL DEF RolloutSpec
<1> QED BY <1>3 DEF EnforcementIsEarned

(* The time of the last touch of the managed files is no earlier than that  *)
(* of any touch of the configuration.                                      *)
LEMMA ChangedIs ==
    ASSUME PolicyAssumption, History, NEW k \in Touching(commits, "config")
    PROVE  /\ managedConfigurationChangedAt(ChangeTimes(commits)) \in Nat
           /\ commits[k].at <= managedConfigurationChangedAt(ChangeTimes(commits))
<1> DEFINE times == {latestPathCommitTime(commits, "config"),
                     latestPathCommitTime(commits, "workflow")} \ {None}
           last(f) == Max(Touching(commits, f))
<1>1. /\ Len(commits) \in Nat /\ now \in Nat
      /\ \A i \in 1 .. Len(commits) : commits[i].at \in Nat /\ commits[i].at <= now
      /\ \A i, j \in 1 .. Len(commits) : i < j => commits[i].at < commits[j].at
  BY SequenceIs DEF History
<1>2. ASSUME NEW f, Touching(commits, f) # {}
      PROVE  last(f) \in 1 .. Len(commits) /\ \A j \in Touching(commits, f) : j <= last(f)
  <2>1. /\ Touching(commits, f) \in SUBSET Nat
        /\ \A i \in Touching(commits, f) : i \in 1 .. Len(commits) /\ i <= Len(commits)
    BY <1>1 DEF Touching
  <2> QED BY <1>1, <1>2, <2>1, GreatestOf
<1>3. \A f : latestPathCommitTime(commits, f) # None =>
        latestPathCommitTime(commits, f) \in Nat /\ latestPathCommitTime(commits, f) <= now
  BY <1>1, <1>2 DEF latestPathCommitTime
<1>4. /\ latestPathCommitTime(commits, "config") \in Nat
      /\ commits[k].at <= latestPathCommitTime(commits, "config")
  <2>1. Touching(commits, "config") # {}
    OBVIOUS
  <2>2. PICK m \in 1 .. Len(commits) : m = last("config") /\ k <= m
    BY <1>2, <2>1
  <2>3. k \in 1 .. Len(commits)
    BY <1>1 DEF Touching
  <2>4. commits[k].at <= commits[m].at /\ commits[m].at \in Nat
    BY <1>1, <2>2, <2>3
  <2>5. latestPathCommitTime(commits, "config") = commits[m].at
    BY <2>1, <2>2 DEF latestPathCommitTime
  <2> QED BY <2>4, <2>5
<1>5. /\ times \in SUBSET Nat /\ \A t \in times : t <= now
      /\ latestPathCommitTime(commits, "config") \in times
  BY <1>3, <1>4 DEF PolicyAssumption
<1>6. times # {} /\ managedConfigurationChangedAt(ChangeTimes(commits)) = Max(times)
  BY <1>5 DEF managedConfigurationChangedAt, ChangeTimes
<1> HIDE DEF times
<1>7. Max(times) \in times /\ \A t \in times : t <= Max(times)
  BY <1>1, <1>5, <1>6, GreatestOf
<1>8. Max(times) \in Nat /\ latestPathCommitTime(commits, "config") <= Max(times)
  BY <1>5, <1>7
<1> QED BY <1>1, <1>4, <1>6, <1>8 DEF Touching

(* A repository that has the status enforced passes every check.           *)
LEMMA EnforcedStatus ==
    ASSUME NEW d, classifyInventory(d, TRUE) = "enforced", d.configuredAny = TRUE
    PROVE  d.mode = "enforce" /\ "security-gate-check" \notin d.failing
<1>1. Blocking(d) \ RunCodes = {} /\ Blocking(d) = {} /\ d.mode = "enforce"
  BY DEF classifyInventory
<1>2. Blocking(d) = d.failing
  BY <1>1 DEF Blocking
<1> QED BY <1>1, <1>2

LEMMA EnforcedIsVerified ==
    ASSUME RolloutAssumption, PolicyAssumption, RolloutInv,
           \A i \in DOMAIN runs : Len(runs[i].attempts) = 1,
           Tip.config # None, Tip.config.mode = "enforce", InventoryStatus = "enforced"
    PROVE  \E x \in Attempts : /\ AttemptOf(x).gate = "success"
                               /\ ModeAt(commits, runs[x[1]].head) = "enforce"
<1> DEFINE changed == managedConfigurationChangedAt(ChangeTimes(commits))
           l == loadWorkflowRuns(runs)
           gate == inspectGateCheck(l, runs, changed, now)
<1>1. History /\ Counted /\ Executions
  BY DEF RolloutInv
<1>2. Tip.workflow # None
  BY <1>1, TipIs DEF Coherent
<1>3. PICK files, run, ready, period :
         classifyInventory(doctorInternal(Tip.config, Tip.workflow,
             inspectAppAccess(setting.installations), files, run, gate, ready, period,
             inspectRulesets(owned, protected)), TRUE) = "enforced"
  <2>1. /\ (Tip.config # None \/ Tip.workflow # None) = TRUE
        /\ None \notin {Tip.config, Tip.workflow}
    BY <1>2
  <2> QED BY <2>1 DEF InventoryStatus
<1> HIDE DEF gate
<1>4. PICK d : /\ d = doctorInternal(Tip.config, Tip.workflow,
                         inspectAppAccess(setting.installations), files, run, gate, ready, period,
                         inspectRulesets(owned, protected))
               /\ classifyInventory(d, TRUE) = "enforced"
  BY <1>3
<1>5. d.configuredAny = TRUE
  BY <1>4 DEF doctorInternal
<1>6. gate.state = "ok"
  <2>1. "security-gate-check" \notin d.failing
    BY <1>4, <1>5, EnforcedStatus
  <2> QED BY <2>1, <1>4 DEF doctorInternal
<1>7. /\ gate.run \in DOMAIN l /\ gate.run \in 1 .. Len(runs) /\ l[gate.run].at >= changed
      /\ \E b \in 1 .. Len(runs[gate.run].attempts) :
           runs[gate.run].attempts[b].gate = "success"
  <2>1. Listing(l)
    BY <1>1, LoadIs
  <2>2. PICK list, other : list = l /\ other = changed
    OBVIOUS
  <2>3. gate = inspectGateCheck(list, runs, other, now)
    BY <2>2 DEF gate
  <2> QED BY <2>1, <2>2, <2>3, <1>1, <1>6, GateIs DEF GateHolds
<1>8. PICK i \in 1 .. Len(runs) : i = gate.run
  BY <1>7
<1>9. PICK g \in 1 .. Len(commits) : g = runs[i].head
  BY <1>1, AttemptsOf
<1>10. /\ Len(runs[i].attempts) = 1
       /\ runs[i].attempts[1].gate = "success" /\ runs[i].attempts[1].at \in Nat
       /\ runs[i].attempts[1].at >= changed
  <2>1. /\ Len(runs[i].attempts) = 1 /\ latestAttempt(runs[i]) = runs[i].attempts[1]
        /\ runs[i].attempts[1].at \in Nat
    <3>1. Len(runs[i].attempts) = 1
      BY <1>1, AttemptsOf
    <3>2. PICK n \in 1 .. Len(runs[i].attempts) : n = 1
      BY <3>1
    <3>3. runs[i].attempts[n].at \in Nat
      BY <1>1, AttemptsOf
    <3>4. latestAttempt(runs[i]) = runs[i].attempts[Len(runs[i].attempts)]
      BY <1>1, AttemptsOf
    <3> QED BY <3>1, <3>2, <3>3, <3>4
  <2>2. l[i].at = latestAttempt(runs[i]).at
    BY <1>7, <1>8 DEF loadWorkflowRuns
  <2>3. runs[i].attempts[1].gate = "success" /\ l[i].at >= changed
    <3> HIDE DEF l
    <3>1. PICK b \in 1 .. Len(runs[i].attempts) : runs[i].attempts[b].gate = "success"
      BY <1>7, <1>8
    <3>2. b = 1
      BY <2>1, <3>1
    <3>3. l[i].at >= changed
      BY <1>7, <1>8
    <3> QED BY <3>1, <3>2, <3>3
  <2> QED BY <2>1, <2>2, <2>3
<1> HIDE DEF l
<1>11. /\ Len(commits) \in Nat /\ Len(commits) \in 1 .. Len(commits)
       /\ Tip = commits[Len(commits)]
       /\ \A k \in 1 .. Len(commits) : commits[k].at \in Nat
       /\ \A k, q \in 1 .. Len(commits) : k < q => commits[k].at < commits[q].at
  <2>1. /\ Len(commits) \in Nat /\ Len(commits) >= 1
        /\ Tip = commits[Len(commits)]
    BY <1>1, TipIs
  <2>2. \A k \in 1 .. Len(commits) : commits[k].at \in Nat
    BY <1>1 DEF History
  <2>3. \A k, q \in 1 .. Len(commits) : k < q => commits[k].at < commits[q].at
    BY <1>1 DEF History
  <2>4. Len(commits) \in 1 .. Len(commits)
    BY <2>1
  <2> QED BY <2>1, <2>2, <2>3, <2>4, Zenon
<1>12. \A k \in g + 1 .. Len(commits) : k \notin Touching(commits, "config")
  <2> SUFFICES ASSUME NEW k \in g + 1 .. Len(commits), k \in Touching(commits, "config")
               PROVE  FALSE
    OBVIOUS
  <2>1. changed \in Nat /\ commits[k].at <= changed
    BY <1>1, ChangedIs
  <2>2. PICK next \in 1 .. Len(commits) : next = g + 1
    BY <1>11
  <2>3. runs[i].attempts[1].at < commits[next].at
    <3>1. Execution(runs[i])
      BY <1>1 DEF Executions
    <3>2. g < Len(commits) => runs[i].attempts[1].at < commits[g + 1].at
      BY <3>1, <1>9 DEF Execution
    <3> QED BY <3>2, <1>11, <2>2
  <2>4. commits[next].at <= commits[k].at /\ commits[k].at \in Nat /\ commits[next].at \in Nat
    <3>1. PICK q \in 1 .. Len(commits) : q = k
      BY <1>11
    <3>2. next = q \/ next < q
      BY <1>11, <2>2, <3>1
    <3>3. commits[next].at \in Nat /\ commits[q].at \in Nat
      BY <1>11
    <3>4. CASE next < q
      <4>1. commits[next].at < commits[q].at
        BY <1>11, <3>4
      <4>2. \A m, n \in Nat : m < n => m <= n
        OBVIOUS
      <4>3. commits[next].at <= commits[q].at
        BY <4>1, <4>2, <3>3
      <4> QED BY <4>3, <3>1, <3>3
    <3>5. CASE next = q
      BY <3>1, <3>3, <3>5
    <3> QED BY <3>2, <3>4, <3>5
  <2> HIDE DEF changed
  <2>5. PICK x \in Nat, y \in Nat, t \in Nat, u \in Nat :
           x = commits[next].at /\ y = commits[k].at /\ t = runs[i].attempts[1].at /\ u = changed
    BY <2>1, <2>4, <1>10
  <2>6. x <= y /\ y <= u /\ u <= t /\ t < x
    BY <2>1, <2>3, <2>4, <2>5, <1>10
  <2> QED BY <2>6
<1>13. commits[g].config = Tip.config
  <2>1. g <= Len(commits)
    BY <1>11
  <2> QED BY <1>1, <1>11, <1>12, <2>1 DEF History
<1>14. ModeAt(commits, g) = "enforce"
  BY <1>13 DEF ModeAt
<1>15. PICK x \in Attempts : x[1] = i /\ x[2] = 1
  BY <1>1, <1>10, AttemptNamed
<1> QED BY <1>9, <1>10, <1>14, <1>15 DEF AttemptOf

(* The inventory calls a repository enforced only when a gate has passed in  *)
(* enforce mode, for any history in which no run was repeated.             *)
THEOREM EnforcedRowIsVerifiedTheorem ==
    ASSUME RolloutAssumption, PolicyAssumption
    PROVE  RolloutSpec => []EnforcedRowIsVerified
<1>1. RolloutInv => EnforcedRowIsVerified
  BY EnforcedIsVerified DEF EnforcedRowIsVerified
<1> QED BY <1>1, RolloutInductive, PTL

(* The greatest commit no later than a time that follows some commit.      *)
LEMMA InForceIs ==
    ASSUME History, NEW t \in Nat, NEW m \in 1 .. Len(commits), commits[m].at <= t
    PROVE  InForce(t) \in m .. Len(commits) /\ commits[InForce(t)].at <= t
<1> DEFINE S == {k \in DOMAIN commits : commits[k].at <= t}
<1>1. Len(commits) \in Nat /\ DOMAIN commits = 1 .. Len(commits)
  BY SequenceIs DEF History
<1>2. S \in SUBSET Nat /\ m \in S /\ \A k \in S : k <= Len(commits)
  BY <1>1
<1>3. Max(S) \in S /\ \A k \in S : k <= Max(S)
  <2> HIDE DEF S
  <2> QED BY <1>1, <1>2, GreatestOf
<1>4. Max(S) \in 1 .. Len(commits) /\ m <= Max(S) /\ commits[Max(S)].at <= t
  BY <1>1, <1>2, <1>3
<1>5. InForce(t) = Max(S)
  BY DEF InForce
<1> HIDE DEF S
<1> QED BY <1>1, <1>4, <1>5

(* From the commit in force at a time on, the history that was read was      *)
(* report-only, or report-only and then enforce.                            *)
LEMMA SeenIs ==
    ASSUME RolloutAssumption, History, NEW c, c = cli, NEW t \in Nat, Seen(c, t), Begun(c),
           t < c.of.began
    PROVE  ReportOnlySince(t)
<1>1. PICK m \in 1 .. c.seen :
         /\ commits[m].at <= t
         /\ c.of.config.mode = "report-only" =>
              \A k \in m .. c.seen : ModeAt(commits, k) = "report-only"
         /\ \A k \in m .. c.seen : ModeAt(commits, k) \in {"report-only", "enforce"}
         /\ \A e, k \in m .. c.seen :
              (e <= k /\ ModeAt(commits, e) = "enforce") => ModeAt(commits, k) = "enforce"
  BY DEF Seen
<1>2. /\ Len(commits) \in Nat /\ c.seen \in 1 .. Len(commits) /\ m \in 1 .. Len(commits)
      /\ DOMAIN commits = 1 .. Len(commits)
  BY SequenceIs DEF Seen, History
<1>3. PICK f \in m .. Len(commits) : f = InForce(t) /\ commits[f].at <= t
  BY <1>1, <1>2, InForceIs
<1>4. f <= c.seen
  <2>1. SUFFICES ASSUME f > c.seen PROVE FALSE
    BY <1>2, <1>3
  <2>2. f \in c.seen + 1 .. Len(commits) /\ f \in 1 .. Len(commits)
    BY <2>1, <1>2, <1>3
  <2>3. commits[f].at > c.of.began
    BY <2>2 DEF Seen
  <2>4. PICK x \in Nat, b \in Nat : x = commits[f].at /\ b = c.of.began
    BY <2>2 DEF History, Begun
  <2>5. x <= t /\ t < b
    BY <2>4, <1>3
  <2>6. x > b
    BY <2>3, <2>4
  <2> QED BY <2>5, <2>6
<1>5. PICK s \in 1 .. Len(commits) : s = c.seen
  BY <1>2
<1>6. m \in Nat /\ f \in Nat /\ m <= f /\ f <= s /\ s \in Nat
  BY <1>2, <1>3, <1>4, <1>5
<1> DEFINE S == {k \in f .. s : ModeAt(commits, k) = "enforce"}
<1>7. CASE S = {}
  <2>1. \A k \in f .. s : ModeAt(commits, k) = "report-only"
    BY <1>7, <1>1, <1>5, <1>6
  <2>2. s \in f - 1 .. s
    BY <1>6
  <2> QED BY <2>1, <2>2, <1>3, <1>5, <1>6 DEF ReportOnlySince
<1>8. CASE S # {}
  <2>1. S \in SUBSET Nat
    BY <1>6
  <2>2. PICK e \in S : \A k \in S : e <= k
    <3> HIDE DEF S
    <3> QED BY <1>8, <2>1, LeastOf
  <2>3. e \in f .. s /\ e \in m .. s /\ ModeAt(commits, e) = "enforce"
    BY <1>6
  <2>4. \A k \in f .. e - 1 : ModeAt(commits, k) = "report-only"
    <3> TAKE k \in f .. e - 1
    <3>1. k \in f .. s /\ k \in m .. s /\ ~(e <= k)
      BY <2>3, <1>6
    <3>2. k \notin S
      BY <3>1, <2>2
    <3>3. ModeAt(commits, k) # "enforce"
      BY <3>1, <3>2
    <3> QED BY <3>1, <3>3, <1>1, <1>5
  <2>5. \A k \in e .. s : ModeAt(commits, k) = "enforce"
    <3> TAKE k \in e .. s
    <3>1. k \in m .. s /\ e <= k
      BY <2>3, <1>6
    <3> QED BY <3>1, <2>3, <1>1, <1>5
  <2>6. PICK last \in f - 1 .. s : last = e - 1
    BY <2>3, <1>6
  <2>7. last + 1 = e
    BY <2>3, <2>6, <1>6
  <2>8. c.of.config.mode # "report-only"
    BY <2>3, <1>1, <1>5
  <2> HIDE DEF S
  <2> QED BY <2>4, <2>5, <2>6, <2>7, <2>8, <1>3, <1>5, <1>6 DEF ReportOnlySince
<1> QED BY <1>7, <1>8

LEMMA DiagnosisRests ==
    ASSUME RolloutAssumption, RolloutInv, cli.step = "rules"
    PROVE  \E x, y \in Attempts : /\ x[1] = y[1] /\ AttemptOf(y).gate = "success"
                                  /\ AttemptOf(x).conclusion # "pending"
                                  /\ now - AttemptOf(x).at >= MinimumDays
                                  /\ ReportOnlySince(AttemptOf(x).at)
<1>1. History /\ Counted /\ Executions
  BY DEF RolloutInv
<1>2. PICK o, c : o = cli.period.proof /\ c = cli
  OBVIOUS
<1>3. /\ Begun(c) /\ Seen(c, o.startedAt) /\ o.startedAt < c.of.began
      /\ ObservationHolds(o)
  BY <1>2 DEF RolloutInv, Commands, CommandHolds
<1>4. PICK i \in 1 .. Len(runs) : i = o.run
  BY <1>3 DEF ObservationHolds
<1>5. PICK a \in 1 .. Len(runs[i].attempts), b \in 1 .. Len(runs[i].attempts) :
         a = o.attempt /\ runs[i].attempts[b].gate = "success"
  BY <1>3, <1>4 DEF ObservationHolds
<1>6. PICK t \in Nat : t = o.startedAt
  BY <1>3 DEF Seen
<1>7. /\ runs[i].attempts[a].at = t /\ runs[i].attempts[a].conclusion # "pending"
      /\ now - t >= MinimumDays
  BY <1>3, <1>4, <1>5, <1>6 DEF ObservationHolds
<1>8. ReportOnlySince(t)
  <2>1. Seen(c, t) /\ t < c.of.began /\ c = cli
    BY <1>2, <1>3, <1>6
  <2> HIDE DEF ReportOnlySince
  <2> QED BY <1>1, <1>3, <2>1, SeenIs
<1>9. PICK x \in Attempts : x[1] = i /\ x[2] = a
  BY <1>1, AttemptNamed
<1>10. PICK y \in Attempts : y[1] = i /\ y[2] = b
  <2>1. b \in 1 .. Len(runs[i].attempts)
    OBVIOUS
  <2> HIDE DEF Attempts
  <2> QED BY <1>1, <2>1, AttemptNamed
<1> QED BY <1>5, <1>7, <1>8, <1>9, <1>10 DEF AttemptOf

(* A diagnosis of doctorInternal that lets a command through is honest      *)
(* about the history up to its reading of it, for any history and whatever  *)
(* changes between any two of its requests.                                *)
THEOREM DiagnosisIsHonestTheorem ==
    ASSUME RolloutAssumption, PolicyAssumption
    PROVE  RolloutSpec => DiagnosisIsHonest
<1> DEFINE Honest ==
      Diagnosed => \E x, y \in Attempts : /\ x[1] = y[1] /\ AttemptOf(y).gate = "success"
                                          /\ AttemptOf(x).conclusion # "pending"
                                          /\ now - AttemptOf(x).at >= MinimumDays
                                          /\ ReportOnlySince(AttemptOf(x).at)
<1>1. RolloutInv => Honest
  BY DiagnosisRests DEF Diagnosed
<1>2. RolloutInv /\ [RolloutNext]_rolloutVars => [Honest]_rolloutVars
  BY <1>1
<1>3. RolloutSpec => [][Honest]_rolloutVars
  BY <1>2, RolloutInductive, PTL DEF RolloutSpec
<1> QED BY <1>3 DEF DiagnosisIsHonest

(* The pull requests of a baseline come from a draft.                      *)
LEMMA BaselinePullIs ==
    ASSUME RolloutAssumption, PolicyAssumption, RolloutInv, RolloutNext,
           NEW p \in pulls' \ pulls, p.kind = "baseline"
    PROVE  \E a \in 1 .. MaxAttempts :
             /\ baseline(a)
             /\ p.files.baseline = buildBaselineDocument(runs, cli.gateRun, a, cli.proof)
<1>1. /\ \A q : ~MergePull(q)
      /\ \A mode, pin : ~onboard(mode, pin)
      /\ \A pin : ~upgrade(pin)
      /\ ~offboard /\ ~enforce
  BY DEF MergePull, onboard, upgrade, offboard, enforce, OpenPull
<1>2. /\ \A cmd, target, appAccess : ~doctorReadsFiles(cmd, target, appAccess)
      /\ ~doctorReadsHistory /\ \A file : ~doctorReadsChange(file)
      /\ ~doctorReadsRuns /\ ~doctorReadsGate /\ ~doctorReadsBaseline
      /\ ~doctorReadsObservation
      /\ ~baselineDiagnosed /\ ~enforceDiagnosed /\ ~enforceRuleset /\ ~commandFails
  BY DEF doctorReadsFiles, doctorReadsHistory, doctorReadsChange, doctorReadsRuns,
     doctorReadsGate, doctorReadsBaseline, doctorReadsObservation, baselineDiagnosed,
     enforceDiagnosed, doctorReads, enforceRuleset, commandFails
<1>3. \A i, o : /\ ~StartRun(o) /\ ~Rerun(i, o) /\ ~FinishRun(i, o)
                /\ ~verifyProvenance(i) /\ ~verifyRulesets(i)
  BY DEF StartRun, Rerun, FinishRun, verifyProvenance, verifyRulesets, Verifies
<1>4. /\ \A mode, broken : ~EditConfig(mode, broken)
      /\ ~EditWorkflow /\ \A document : ~EditBaseline(document)
      /\ \A ruleset, other : ~EditRules(ruleset, other)
      /\ ~RequireCheck /\ ~Wait
  BY DEF EditConfig, EditWorkflow, EditBaseline, EditRules, RequireCheck, Wait
<1>5. PICK a \in 1 .. MaxAttempts : baseline(a)
  BY <1>1, <1>2, <1>3, <1>4 DEF RolloutNext
<1> DEFINE document == buildBaselineDocument(runs, cli.gateRun, a, cli.proof)
<1>6. OpenPull("baseline", [baseline |-> document])
  BY <1>5 DEF baseline
<1> HIDE DEF document
<1>7. p.files = [f \in Files |-> IF f \in {"baseline"} THEN document ELSE Tip[f]]
  BY <1>6 DEF OpenPull
<1>8. p.files.baseline = document
  BY <1>7 DEF Files
<1> QED BY <1>5, <1>8 DEF document

(* At a head that a run started on, a report-only configuration and the     *)
(* caller name one pin.                                                    *)
LEMMA ProvenanceIs ==
    ASSUME RolloutAssumption, History, Counted, Executions, NEW id,
           NEW i \in 1 .. Len(runs), id.run = i, id.attempt = 1, id.head = runs[i].head,
           runs[i].attempts[1].gate = "success", runs[i].attempts[1].conclusion # "pending",
           runs[i].event # "schedule", ModeAt(commits, runs[i].head) = "report-only"
    PROVE  gateProvenance(commits, runs, id)
<1>1. PICK g \in 1 .. Len(commits) : g = runs[i].head
  BY AttemptsOf
<1>2. commits[g].workflow # None /\ Coherent(commits[g])
  BY <1>1, AttemptsOf DEF History
<1>3. commits[g].workflow.pin = commits[g].config.pin
  BY <1>2 DEF Coherent
<1>4. 1 \in DOMAIN runs[i].attempts /\ i \in DOMAIN runs
  BY AttemptsOf
<1>5. isAlwaysSecurityEvent(runs[i].event)
  BY AttemptsOf DEF isAlwaysSecurityEvent
<1> QED BY <1>1, <1>2, <1>3, <1>4, <1>5 DEF gateProvenance, assertGateRunIdentity, KnownAttempt,
    assertDeterministicScannerJob, validateGateConfigFields, assertReferencedReusableSecurity

LEMMA DraftIs ==
    ASSUME RolloutAssumption, PolicyAssumption, RolloutInv, NEW a, baseline(a),
           NEW document, document = buildBaselineDocument(runs, cli.gateRun, a, cli.proof),
           Len(runs[document.source.run].attempts) = 1,
           Len(runs[document.observation.run].attempts) = 1,
           runs[document.source.run].event # "schedule"
    PROVE  /\ gateProvenance(commits, runs, document.source)
           /\ gateProvenance(commits, runs, document.observation)
           /\ observationIsOldEnough(runs, document.observation, now)
<1>1. History /\ Counted /\ Executions
  BY DEF RolloutInv
<1>2. DraftHolds(cli) /\ parseGateForBaseline(commits, runs, cli.gateRun, a)
  BY DEF RolloutInv, Commands, CommandHolds, baseline
<1> DEFINE source == document.source
           o == document.observation
<1>3. /\ o = cli.proof /\ source.run = cli.gateRun /\ source.attempt = a
      /\ source.head = runs[cli.gateRun].head
  BY DEF buildBaselineDocument
<1>4. PICK i \in 1 .. Len(runs) : i = cli.gateRun
  BY <1>2 DEF DraftHolds, GateHolds
<1>5. /\ runs[i].attempts[1].gate = "success" /\ runs[i].attempts[1].conclusion # "pending"
      /\ ModeAt(commits, runs[i].head) = "report-only" /\ runs[i].event # "schedule"
      /\ source.run = i /\ source.attempt = 1 /\ source.head = runs[i].head
  <2>1. DOMAIN runs[i].attempts = 1 .. 1
    BY <1>1, <1>3, <1>4, AttemptsOf
  <2>2. a = 1
    BY <2>1, <1>4 DEF baseline
  <2> QED BY <2>2, <1>2, <1>3, <1>4 DEF DraftHolds, GateHolds, parseGateForBaseline
<1>6. ObservationHolds(o)
  BY <1>2, <1>3 DEF DraftHolds
<1> HIDE DEF source, o
<1>7. gateProvenance(commits, runs, source)
  BY <1>1, <1>5, ProvenanceIs
<1>8. PICK j \in 1 .. Len(runs) : j = o.run
  BY <1>6 DEF ObservationHolds
<1>9. /\ runs[j].attempts[1].gate = "success" /\ runs[j].attempts[1].conclusion # "pending"
      /\ ModeAt(commits, runs[j].head) = "report-only" /\ o.head = runs[j].head
      /\ runs[j].event # "schedule" /\ o.attempt = 1
  <2>1. Len(runs[j].attempts) = 1
    BY <1>3, <1>8 DEF o
  <2>2. o.attempt = 1 /\ runs[j].attempts[1].gate = "success"
    <3>1. PICK n : n = Len(runs[j].attempts)
      OBVIOUS
    <3>2. o.attempt \in 1 .. n /\ \E b \in 1 .. n : runs[j].attempts[b].gate = "success"
      BY <3>1, <1>6, <1>8 DEF ObservationHolds
    <3>3. n = 1
      BY <3>1, <2>1
    <3> QED BY <3>2, <3>3
  <2>3. ModeAt(commits, o.head) = "report-only"
    BY <2>2, <1>2, <1>3 DEF DraftHolds
  <2>4. /\ runs[j].attempts[1].conclusion # "pending" /\ o.head = runs[j].head
        /\ runs[j].event # "schedule"
    BY <2>2, <1>6, <1>8 DEF ObservationHolds, isAlwaysSecurityEvent
  <2> QED BY <2>2, <2>3, <2>4
<1>10. gateProvenance(commits, runs, o)
  BY <1>1, <1>8, <1>9, ProvenanceIs
<1>11. observationIsOldEnough(runs, o, now)
  BY <1>6 DEF ObservationHolds, observationIsOldEnough
<1> QED BY <1>7, <1>10, <1>11 DEF source, o

(* What guardianctl drafts from runs not repeated satisfies the verifier.      *)
THEOREM DraftIsVerifiableTheorem ==
    ASSUME RolloutAssumption, PolicyAssumption
    PROVE  RolloutSpec => DraftIsVerifiable
<1> DEFINE Verifiable ==
      \A p \in pulls' \ pulls :
         (/\ p.kind = "baseline"
          /\ Len(runs[p.files.baseline.source.run].attempts) = 1
          /\ Len(runs[p.files.baseline.observation.run].attempts) = 1
          /\ runs[p.files.baseline.source.run].event # "schedule")
         => /\ gateProvenance(commits, runs, p.files.baseline.source)
            /\ gateProvenance(commits, runs, p.files.baseline.observation)
            /\ observationIsOldEnough(runs, p.files.baseline.observation, now)
<1>1. ASSUME RolloutInv, RolloutNext PROVE Verifiable
  <2> SUFFICES ASSUME NEW p \in pulls' \ pulls, p.kind = "baseline",
                      Len(runs[p.files.baseline.source.run].attempts) = 1,
                      Len(runs[p.files.baseline.observation.run].attempts) = 1,
                      runs[p.files.baseline.source.run].event # "schedule"
               PROVE  /\ gateProvenance(commits, runs, p.files.baseline.source)
                      /\ gateProvenance(commits, runs, p.files.baseline.observation)
                      /\ observationIsOldEnough(runs, p.files.baseline.observation, now)
    OBVIOUS
  <2>1. PICK a \in 1 .. MaxAttempts :
          /\ baseline(a)
          /\ p.files.baseline = buildBaselineDocument(runs, cli.gateRun, a, cli.proof)
    BY <1>1, BaselinePullIs
  <2>2. PICK document : document = p.files.baseline
    OBVIOUS
  <2> QED BY <2>1, <2>2, <1>1, DraftIs
<1>2. RolloutInv /\ [RolloutNext]_rolloutVars => [Verifiable]_rolloutVars
  BY <1>1
<1>3. RolloutSpec => [][Verifiable]_rolloutVars
  BY <1>2, RolloutInductive, PTL DEF RolloutSpec
<1> QED BY <1>3 DEF DraftIsVerifiable

=============================================================================
