----------------------------- MODULE MCMigration -----------------------------
(***************************************************************************)
(* Small databases and callers for TLC.  The table is plain at first; the  *)
(* script "widen" adds a column to a plain table, "broken" never runs.     *)
(***************************************************************************)
EXTENDS Migration, TLC

CONSTANTS plain, wide, dropped, widen, broken,
          f1, f2, c1, c2, p1, p2, n1, n2

Succeeds(shape) == [ok |-> TRUE, shape |-> shape]
Fails(shape) == [ok |-> FALSE, shape |-> shape]
MCShapes == {plain, wide, dropped}
Widening == plain :> Succeeds(wide) @@ wide :> Fails(wide) @@ dropped :> Fails(dropped)
Breaking == [shape \in MCShapes |-> Fails(shape)]

AtomicEffect == widen :> Widening @@ broken :> Breaking
WidenEffect == widen :> Widening
AtomicSources == {widen, broken}
OnlyWiden == {widen}

OneFile == {f1}
TwoFiles == {f1, f2}
OneCaller == {c1}
TwoCallers == {c1, c2}
OnePermit == {p1}
TwoPermits == {p1, p2}
OneNonce == {n1}
TwoNonces == {n1, n2}
Untrusting == {FALSE}
Trusting == {TRUE}

Symmetry == Permutations(TwoCallers) \union Permutations(TwoFiles)
            \union Permutations(TwoPermits) \union Permutations(TwoNonces)
=============================================================================
