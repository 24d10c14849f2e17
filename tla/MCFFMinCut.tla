------------------------------ MODULE MCFFMinCut ------------------------------
(* One graph, unit weights: two branches, 1 and 3, that close loops through *)
(* each other, and an ST that optimize_sts leaves as it is.                 *)
EXTENDS MCFordFulkerson

BranchLoops == {<<0, 3>>, <<1, 2>>, <<1, 3>>, <<2, 1>>, <<3, 0>>, <<3, 1>>}

FFMinCutInputs ==
    {[w  |-> [f \in Edge |-> IF f \in BranchLoops THEN 1 ELSE 0],
      st |-> <<{1, 3}, {2, 3}, {0, 3}>>]}

=============================================================================
