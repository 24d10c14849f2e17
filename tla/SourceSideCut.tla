---------------------------- MODULE SourceSideCut ----------------------------
(****************************************************************************)
(* A reference for what ford_fulkerson_multi returns for an ST of two       *)
(* waypoint sets: among the cuts of least weight, the one closest to the    *)
(* sources.  It is defined over all source sides R instead of by flow.      *)
(****************************************************************************)
EXTENDS Waypoints, FiniteSetsExt

\* The edges on which a walk that has stayed in R leaves it or enters T.
Boundary(E, T, R) == {f \in E : f[1] \in R /\ (f[2] \in T \/ f[2] \notin R)}

WeightOf(w, C) == MapThenSumSet(LAMBDA f : w[f], C)

SourceSide(w, E, st) ==
    LET Sides == {R \in SUBSET Node : st[1] \subseteq R}
        cost == [R \in Sides |-> WeightOf(w, Boundary(E, st[2], R))]
        least == Min({cost[R] : R \in Sides})
    IN  Boundary(E, st[2],
                 {u \in Node : \A R \in Sides : cost[R] = least => u \in R})

=============================================================================
