------------------------------ MODULE OptimizeSTs ------------------------------
(****************************************************************************)
(* MinCutGreedy::optimize_sts: the STs are joined, thinned out and dropped  *)
(* until nothing changes any more, before cuts are computed for what is     *)
(* left.  Nothing checks afterwards that the cuts also cut the STs that     *)
(* were given, apart from MitigatePass's own checkCut.                      *)
(*                                                                          *)
(* The vector of STs is a set here: no optimization looks at the order, and *)
(* optimize_sts_remove_duplicates removes what a set does not have.  Nodes  *)
(* are the indices 0..Size-1.                                               *)
(****************************************************************************)
EXTENDS Waypoints, FiniteSets

CONSTANTS Size,   \* number of nodes of the graph
          Inputs  \* records [E |-> edges, sts |-> set of STs]

IsInput(i) ==
    /\ i.E \subseteq Edge
    /\ IsFiniteSet(i.sts) /\ \A st \in i.sts : IsST(st)

SizeAssumption == Size \in Nat /\ Node = 0..(Size - 1)
InputsAssumption == \A i \in Inputs : IsInput(i)

VARIABLES in,       \* the arguments
          sts,      \* the STs, or those already optimized in this round
          todo,     \* STs still to be optimized in this round
          st, pos,  \* the ST that is being optimized, and where
          pc,
          changed

vars == <<in, sts, todo, st, pos, pc, changed>>

E == in.E

Init ==
    /\ in \in Inputs
    /\ sts = in.sts
    /\ todo = {}
    /\ st = <<>> /\ pos = 0
    /\ pc = "join"
    /\ changed = FALSE

-----------------------------------------------------------------------------
(* optimize_sts_join: STs of the same length that differ in one column only *)
(* become one, with the union of that column; one column after the other.   *)

\* Mutant: only the columns already joined are compared.
JoinColumn_Prefix(pool, i) ==
    LET Similar(x) == {y \in pool : \A j \in 1..(i - 1) : y[j] = x[j]}
    IN  {[x EXCEPT ![i] = UNION {y[i] : y \in Similar(x)}] : x \in pool}

JoinColumn(pool, i) ==
    LET Similar(x) ==
            {y \in pool : Len(y) = Len(x) /\ \A j \in DOMAIN x \ {i} : y[j] = x[j]}
    IN  {[x EXCEPT ![i] = UNION {y[i] : y \in Similar(x)}] : x \in pool}

JoinPool(pool, m) ==
    LET joined[i \in 0..m] == IF i = 0 THEN pool ELSE JoinColumn(joined[i - 1], i)
    IN  joined[m]

Joined(T) == UNION {JoinPool({x \in T : Len(x) = m}, m) : m \in {Len(x) : x \in T}}

\* Mutant: the size is taken after the STs have been moved to the pools.
Join_SizeOfEmpty ==
    /\ pc = "join"
    /\ todo' = Joined(sts)
    /\ sts' = {}
    /\ changed' = (Cardinality(sts') # Cardinality(todo'))
    /\ pc' = "pick"
    /\ UNCHANGED <<in, st, pos>>

\* Top of the loop.
Join ==
    /\ pc = "join"
    /\ todo' = Joined(sts)
    /\ sts' = {}
    /\ changed' = (Cardinality(sts) # Cardinality(todo'))
    /\ pc' = "pick"
    /\ UNCHANGED <<in, st, pos>>

-----------------------------------------------------------------------------
(* The optimizations of a single ST.                                        *)

Pick(x) ==
    /\ pc = "pick" /\ x \in todo
    /\ todo' = todo \ {x}
    /\ st' = x
    /\ pos' = 1
    /\ pc' = "cull_unreachables"
    /\ UNCHANGED <<in, sts, changed>>

Continue(next, start) ==
    IF pos + 1 < Len(st) THEN pos' = pos + 1 /\ UNCHANGED pc
                         ELSE pos' = start /\ pc' = next

\* optimize_sts_cull_unreachables: a waypoint not reached from the set before.
CullUnreachables ==
    /\ pc = "cull_unreachables"
    /\ st' = [st EXCEPT ![pos + 1] = @ \cap Reach(E, st[pos])]
    /\ changed' = (changed \/ st' # st)
    /\ Continue("cull_sources", 1)
    /\ UNCHANGED <<in, sts, todo>>

\* Mutant: the test for a source comes before the test for a sink.
Needed_SourceFirst(S, T, s) == T \cap Reach({f \in E : f[2] \notin S}, {s}) # {}

\* A search from s that stops at T and does not go through S meets T.
Needed(S, T, s) == T \cap Reach({f \in E : f[2] \in T \/ f[2] \notin S}, {s}) # {}

\* The sources that are left: they are looked at in ascending order, each with
\* the ones before already erased.
Sources(S, T) ==
    LET left[x \in 0..Size] ==
            IF x = 0 THEN S
            ELSE IF x - 1 \in S /\ ~Needed(left[x - 1], T, x - 1)
                 THEN left[x - 1] \ {x - 1} ELSE left[x - 1]
    IN  left[Size]

\* optimize_sts_cull_sources: a source that gets to the next set only through
\* other sources.
CullSources ==
    /\ pc = "cull_sources"
    /\ st' = [st EXCEPT ![pos] = Sources(st[pos], st[pos + 1])]
    /\ changed' = (changed \/ st' # st)
    /\ Continue("remove_internal", 2)
    /\ UNCHANGED <<in, sts, todo>>

\* optimize_sts_remove_redundant_internal_st: a set that no walk from the set
\* before to the set after can avoid.
RemoveInternal ==
    LET A == st[pos - 1]  B == st[pos]  C == st[pos + 1]
        redundant == C \cap Reach({f \in E : f[2] \notin B}, A) = {}
    IN  /\ pc = "remove_internal" /\ pos < Len(st)
        /\ st' = IF redundant THEN SubSeq(st, 1, pos - 1) \o SubSeq(st, pos + 1, Len(st))
                              ELSE st
        /\ pos' = IF redundant THEN pos ELSE pos + 1
        /\ changed' = (changed \/ redundant)
        /\ UNCHANGED <<in, sts, todo, pc>>

Store ==
    /\ pc = "remove_internal" /\ pos >= Len(st)
    /\ sts' = sts \cup {st}
    /\ st' = <<>> /\ pos' = 0
    /\ pc' = "pick"
    /\ UNCHANGED <<in, todo, changed>>

-----------------------------------------------------------------------------
(* The end of a round.                                                      *)

HasEmptySet(x) == \E i \in DOMAIN x : x[i] = {}

\* optimize_sts_remove_emptyset, optimize_sts_remove_duplicates and the loop
\* condition.
EndRound ==
    /\ pc = "pick" /\ todo = {}
    /\ sts' = {x \in sts : ~HasEmptySet(x)}
    /\ changed' = (changed \/ sts' # sts)
    /\ pc' = IF changed' THEN "join" ELSE "done"
    /\ UNCHANGED <<in, todo, st, pos>>

Done == pc = "done" /\ UNCHANGED vars

Next ==
    \/ Join
    \/ \E x \in todo : Pick(x)
    \/ CullUnreachables
    \/ CullSources
    \/ RemoveInternal
    \/ Store
    \/ EndRound
    \/ Done

Spec == Init /\ [][Next]_vars

-----------------------------------------------------------------------------
(* Properties.                                                              *)

\* The STs at any point of a round.
Current == sts \cup todo \cup (IF st = <<>> THEN {} ELSE {st})

\* No walk is forgotten: at every point of every round, edges that cut the STs
\* that are left also cut all the STs optimize_sts was given.
Covers ==
    \A C \in SUBSET E :
        (\A x \in Current : Separated(E \ C, x)) => (\A x \in in.sts : Separated(E \ C, x))

\* No cut is asked for in vain: edges that cut the given STs cut what is left of
\* them.  That is so as long as no internal set shares a node with a later one:
\* a set B is also removed when it meets C, although a walk from A that ends in B
\* has not gone on to C yet.
Overlap == \E x \in in.sts : \E i, j \in 2..Len(x) : i < j /\ x[i] \cap x[j] # {}

NothingAdded ==
    Overlap \/
    \A C \in SUBSET E :
        (\A x \in in.sts : Separated(E \ C, x)) => (\A x \in Current : Separated(E \ C, x))

=============================================================================
