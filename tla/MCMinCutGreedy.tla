---------------------------- MODULE MCMinCutGreedy ----------------------------
(****************************************************************************)
(* MinCutGreedy with the minimum cuts that ford_fulkerson_multi computes    *)
(* for STs of two waypoint sets (run ford_fulkerson).                       *)
(****************************************************************************)
EXTENDS MinCutGreedy, SourceSideCut

MCLocalCuts(w, E, st) == {SourceSide(w, E, st)}

\* The minimum cuts have no redundant edge, as theorem NoRedundantEdge assumes.
ASSUME MCMinimalLocalCuts == MinimalLocalCuts

\* assert(mode == Mode::Replace) where cuts repeat: once cuts only grow, they
\* never come back to what they were after an earlier round.
LoopAssert == pc # "abort"

Unit == [f \in Edge |-> 1]

\* Sequences of STs {a},{b} as optimize_sts leaves them: sorted, every sink
\* reached, no two that could be joined.
SimpleSTs(E, m) ==
    {[j \in 1..m |-> <<{a[j]}, {b[j]}>>] :
        <<a, b>> \in {p \in [1..m -> Node] \X [1..m -> Node] :
            /\ \A j, l \in 1..m : j < l => p[1][j] < p[1][l] /\ p[2][j] # p[2][l]
            /\ \A j \in 1..m : p[2][j] \in Reach(E, {p[1][j]})}}

\* The cycle 0 -> 2 -> 1 -> 3 -> 0 with at most one other edge, and three
\* STs.  Cuts of {0},{3}; {2},{0} and {3},{2} chase each other around the cycle
\* until the loop is detected.
Cycle == {<<0, 2>>, <<2, 1>>, <<1, 3>>, <<3, 0>>}

Chords == {{}} \cup {{f} : f \in {h \in Edge : h[1] \in {0, 3} /\ h[1] # h[2]} \ Cycle}

Cycles ==
    UNION {{[E |-> Cycle \cup D, w |-> Unit, sts |-> s] : s \in SimpleSTs(Cycle \cup D, 3)} :
              D \in Chords}

\* Here Augment mode returns to cuts that Replace mode had before.
Return ==
    [E |-> {<<0, 1>>, <<1, 3>>, <<2, 1>>, <<3, 0>>, <<3, 2>>}, w |-> Unit,
     sts |-> << <<{0, 3}, {3}>>, <<{1}, {0}>>, <<{2, 3}, {1}>> >>]

ReturnInputs == {Return}

MCInputs == {Return} \cup Cycles

=============================================================================
