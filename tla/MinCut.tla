-------------------------------- MODULE MinCut --------------------------------
(****************************************************************************)
(* What MitigatePass expects of a min-cut algorithm (MinCutBase): run()     *)
(* sets cut_edges once, to edges of the graph without which no ST has a     *)
(* walk, or the compiler aborts with no cut at all.                         *)
(****************************************************************************)
EXTENDS Waypoints

CONSTANT Inputs  \* records [E |-> edges, sts |-> sequence of STs, ...]

VARIABLES in, status, cut_edges

vars == <<in, status, cut_edges>>

Init == in \in Inputs /\ status = "running" /\ cut_edges = {}

\* C is a cut of all STs of input i.
IsCut(i, C) ==
    /\ C \subseteq i.E
    /\ \A j \in DOMAIN i.sts : Separated(i.E \ C, i.sts[j])

Cut ==
    /\ status = "running"
    /\ cut_edges' \in SUBSET Edge
    /\ IsCut(in, cut_edges')
    /\ status' = "done"
    /\ UNCHANGED in

Abort ==
    /\ status = "running"
    /\ status' = "abort"
    /\ UNCHANGED <<in, cut_edges>>

Next == Cut \/ Abort

Spec == Init /\ [][Next]_vars

=============================================================================
