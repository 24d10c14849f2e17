--------------------------- MODULE MCFordFulkerson ---------------------------
(****************************************************************************)
(* All graphs over three nodes: with unit weights and STs of three waypoint *)
(* sets, as {sources}, {access}, {transmitters} is before and after it is   *)
(* joined with others; with weights up to 2 and STs of two sets.  The sets  *)
(* overlap or not.                                                          *)
(****************************************************************************)
EXTENDS FordFulkerson

\* All graphs without self-loops whose edges have weights from ws (0: absent).
Graphs(ws) ==
    LET Proper == {f \in Edge : f[1] # f[2]}
    IN  {[f \in Edge |-> IF f \in Proper THEN w[f] ELSE 0] : w \in [Proper -> ws]}

\* What the theorems about weights and minimum cuts assume of the inputs.
ASSUME MCWeightsFit == WeightsFit

TwoSets ==
    {[w |-> w, st |-> <<a, b>>] :
        w \in Graphs(0..2), a \in {{0}, {2}, {0, 1}}, b \in {{0}, {1}, {1, 2}}}

ThreeSets ==
    {[w |-> w, st |-> <<a, b, c>>] :
        w \in Graphs(0..1), a \in {{0}, {0, 1}, {1, 2}},
        b \in {{0}, {1}, {0, 2}, {1, 2}}, c \in {{0}, {1}, {2}, {1, 2}}}

MCInputs == TwoSets \cup ThreeSets

=============================================================================
