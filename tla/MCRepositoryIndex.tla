------------------------- MODULE MCRepositoryIndex -------------------------
(* A small history: c2 follows c1, c3 replaces it (both have c1 as parent). *)
EXTENDS RepositoryIndex, TLC

CONSTANTS c1, c2, c3, p1, p2, p3, a, b, m, n1, n2, x1, x2

\* Two handlers of one process and one of another; the first two are
\* interchangeable.
MCProcessOf == (p1 :> x1) @@ (p2 :> x1) @@ (p3 :> x2)
MCSymmetry == Permutations({p1, p2})
MCAncestors == (c1 :> {c1}) @@ (c2 :> {c1, c2}) @@ (c3 :> {c1, c3})
MCSupported == <<"config", "src", "test">>

\* c2 drops a file, so that the cap admits one the comparison does not name;
\* in the second history c2 changes a page's worth of paths.
MCTrees == {
    (c1 :> ("config" :> a @@ "src" :> a @@ "test" :> b)) @@
    (c2 :> ("src" :> b @@ "test" :> b)) @@
    (c3 :> ("config" :> b @@ "src" :> a @@ "test" :> b)),
    (c1 :> ("config" :> a @@ "src" :> b)) @@
    (c2 :> ("config" :> b @@ "src" :> a @@ "test" :> a)) @@
    (c3 :> ("config" :> a @@ "src" :> b @@ "test" :> m)) }

MCBudgets == {[events |-> 2, moves |-> 1, faults |-> 1, sweeps |-> 0],
              [events |-> 2, moves |-> 2, faults |-> 0, sweeps |-> 1]}

MCOneMove == {[events |-> 2, moves |-> 0, faults |-> 0, sweeps |-> 0]}

MCBytes == (a :> 1) @@ (b :> 2) @@ (m :> 1)
MCMode == (a :> "report-only") @@ (b :> "enforced") @@ (m :> "not-configured")
=============================================================================
