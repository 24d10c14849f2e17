------------------------------ MODULE ControlFlow ------------------------------
(****************************************************************************)
(* Control flow as a set of edges: the searches with a stack of             *)
(* MitigatePass::runOnFunction.  Instructions and FencePlacement take it    *)
(* from here.                                                               *)
(****************************************************************************)
EXTENDS Integers, FiniteSets

StepsFrom(E, S) == {e[2] : e \in {d \in E : d[1] \in S}}

\* One step or more along E from S.
Reach(E, S) ==
    LET to[n \in 0..Cardinality(E)] ==
            IF n = 0 THEN StepsFrom(E, S) ELSE UNION {{i} \cup StepsFrom(E, {i}) : i \in to[n - 1]}
    IN  to[Cardinality(E)]

=============================================================================
