----------------------------- MODULE MCCheckCut -----------------------------
(****************************************************************************)
(* All cuts of the complete graph over three nodes with one self-loop, for *)
(* pairs and triples of representative waypoint sets, the empty set and     *)
(* overlapping sets included.                                               *)
(****************************************************************************)
EXTENDS CheckCut

Graph == {e \in Edge : e[1] # e[2] \/ e[1] = 1}

Pairs   == {<<a, b>> : a, b \in SUBSET Node}
Triples == {<<a, b, c>> : a, b, c \in {{1}, {2}, {1, 3}}}

MCInputs == {[G |-> Graph, cut |-> c, st |-> st] :
                 c \in SUBSET Graph, st \in Pairs \cup Triples}

=============================================================================
