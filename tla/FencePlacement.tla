----------------------------- MODULE FencePlacement -----------------------------
(****************************************************************************)
(* The last part of MitigatePass: the graph that is handed to the min-cut,  *)
(* and the fences that are put into the function for the edges of the cut.  *)
(* A cut is a set of pairs of instructions, and a fence is an instruction,  *)
(* so an edge has to be turned into a place: before `dst` if that has only  *)
(* one predecessor, and into a split edge otherwise.                        *)
(*                                                                          *)
(* A function is its instructions 1..n.  succ[i] is the sequence of the     *)
(* successors of i (successors_inst): the next instruction of the block, or *)
(* the first instruction of every successor of a terminator, one per slot,  *)
(* so that a switch may name the same block twice.  Kinds:                  *)
(*   "phi"; "call" (mayLowerToFunctionCall); "invoke", which is a call and  *)
(*   a terminator; "ret"; "term", the other terminators; "fence"; "inst".   *)
(* New instructions get new numbers.  The unconditional branches that the   *)
(* splitting of blocks adds have no number: nothing is ever asked of them.  *)
(****************************************************************************)
EXTENDS ControlFlow, Sequences, FiniteSetsExt

CONSTANTS Functions,  \* records [kind, succ, first]
          MaxCut      \* the largest number of edges of a cut

Kinds == {"inst", "phi", "call", "invoke", "term", "ret", "fence"}

VARIABLES F,          \* the function
          F0,         \* the function before the pass: the instructions of the cut
          cut_edges,  \* the result of the min-cut
          todo        \* the edges of it that have no fence yet

vars == <<F, F0, cut_edges, todo>>

-----------------------------------------------------------------------------
(* The graph.                                                               *)

Instr(f) == DOMAIN f.kind
Of(f, kinds) == {i \in Instr(f) : f.kind[i] \in kinds}
Succ(f, i) == {f.succ[i][s] : s \in DOMAIN f.succ[i]}

CFG(f) == {e \in Instr(f) \X Instr(f) : e[2] \in Succ(f, e[1])}

\* Control may leave the function at its exits and come back at any entry: a
\* caller or a callee may call the function again.
Exits(f) == Of(f, {"ret", "call", "invoke"})
Entries(f) == {f.first} \cup UNION {Succ(f, c) : c \in Of(f, {"call"})}
BackEdges(f) == {e \in Exits(f) \X Entries(f) : e[1] # e[2]}

G(f) == CFG(f) \cup BackEdges(f)

\* The successor slots that lead to dst: llvm::predecessors, with repetitions.
predecessors(f, dst) ==
    UNION {{<<i, s>> : s \in {t \in DOMAIN f.succ[i] : f.succ[i][t] = dst}} : i \in Instr(f)}

shouldCutEdge(f, dst) == \E a, b \in predecessors(f, dst) : a # b

\* Instructions are numbered along the blocks: one within a block has one
\* successor, the next, and that has no other predecessor.  No block goes on at the
\* entry, an invoke returns or unwinds, and a return goes nowhere.
IsFunction(f) ==
    /\ f.kind \in Seq(Kinds)
    /\ f.succ \in [DOMAIN f.kind -> Seq(DOMAIN f.kind)]
    /\ f.first \in DOMAIN f.kind /\ predecessors(f, f.first) = {}
    /\ \A i \in Of(f, {"inst", "phi", "call", "fence"}) :
          f.succ[i] = <<i + 1>> /\ predecessors(f, i + 1) = {<<i, 1>>}
    /\ \A i \in Of(f, {"invoke"}) : Len(f.succ[i]) = 2
    /\ \A i \in Of(f, {"ret"}) : Len(f.succ[i]) = 0

FunctionsAssumption == \A f \in Functions : IsFunction(f)
MaxCutAssumption == MaxCut \in Nat

-----------------------------------------------------------------------------
(* Changes of the function.                                                 *)

New(f) == Len(f.kind) + 1

\* A new fence that goes on to `next`, on the slots of `slots`.
InsertFence(f, slots, next) ==
    [kind  |-> Append(f.kind, "fence"),
     succ  |-> [i \in Instr(f) \cup {New(f)} |->
                   IF i = New(f) THEN <<next>>
                   ELSE [s \in DOMAIN f.succ[i] |->
                            IF <<i, s>> \in slots THEN New(f) ELSE f.succ[i][s]]],
     first |-> IF f.first = next /\ slots = predecessors(f, next) THEN New(f) ELSE f.first]

\* CreateMitigation skips the phis that its place starts with.
NonPhi(f, i) ==
    LET skip[j \in Instr(f)] == IF f.kind[j] = "phi" THEN skip[f.succ[j][1]] ELSE j
    IN  skip[i]

CreateMitigation(f, i) ==
    InsertFence(f, predecessors(f, NonPhi(f, i)), NonPhi(f, i))

\* A plausible mistake, not part of the specification: always the first
\* successor of src.
SplitCriticalEdge_FirstSuccessor(f, src, dst) == InsertFence(f, {<<src, 1>>}, f.succ[src][1])

\* SplitEdge gives the first slot that leads from src to dst a block of its own.
SplitCriticalEdge(f, src, dst) ==
    LET slots == {s \in DOMAIN f.succ[src] : f.succ[src][s] = dst}
        first == CHOOSE s \in slots : \A t \in slots : s <= t
    IN  InsertFence(f, {<<src, first>>}, dst)

-----------------------------------------------------------------------------
(* The loop over the edges of the cut, in the order the min-cut left them   *)
(* in: any order.                                                           *)

Init ==
    /\ F0 \in Functions
    /\ F = F0
    /\ cut_edges \in UNION {kSubset(k, G(F0)) : k \in 1..MaxCut}
    /\ todo = cut_edges

\* One predecessor, or none: before dst.
MitigateBefore(src, dst) ==
    /\ <<src, dst>> \in todo
    /\ ~shouldCutEdge(F, dst)
    /\ F' = CreateMitigation(F, dst)
    /\ todo' = todo \ {<<src, dst>>}
    /\ UNCHANGED <<F0, cut_edges>>

\* Many predecessors, and src has many successors: on the edge.
MitigateCritical(src, dst) ==
    /\ <<src, dst>> \in todo
    /\ shouldCutEdge(F, dst) /\ Len(F.succ[src]) > 1
    /\ F' = SplitCriticalEdge(F, src, dst)
    /\ todo' = todo \ {<<src, dst>>}
    /\ UNCHANGED <<F0, cut_edges>>

\* Many predecessors, and src has no other successor: SplitEdge splits the block
\* of src before src.
MitigateSource(src, dst) ==
    /\ <<src, dst>> \in todo
    /\ shouldCutEdge(F, dst) /\ Len(F.succ[src]) = 1
    /\ F' = CreateMitigation(F, src)
    /\ todo' = todo \ {<<src, dst>>}
    /\ UNCHANGED <<F0, cut_edges>>

Done == todo = {} /\ UNCHANGED vars

Next ==
    \/ \E src, dst \in Instr(F0) : MitigateBefore(src, dst)
    \/ \E src, dst \in Instr(F0) : MitigateCritical(src, dst)
    \/ \E src, dst \in Instr(F0) : MitigateSource(src, dst)
    \/ Done

Spec == Init /\ [][Next]_vars

-----------------------------------------------------------------------------
(* Properties.                                                              *)

Unfenced(f) == {e \in G(f) : f.kind[e[1]] # "fence" /\ f.kind[e[2]] # "fence"}

\* The instructions an ST may name.  A fence for the edge from an unconditional
\* branch is before the branch, and one for an edge to a phi is after the phi.
Source(i) == ~(F0.kind[i] = "term" /\ Len(F0.succ[i]) = 1)
Sink(i) == F0.kind[i] # "phi"

\* "make sure that no source can reach its sink": with all fences in place, no
\* control path without a fence leads where the cut promised that none would.
FenceOnEveryPath ==
    todo = {} =>
        \A src, dst \in Instr(F0) :
            Source(src) /\ Sink(dst) /\ dst \in Reach(Unfenced(F), {src})
                => dst \in Reach(G(F0) \ cut_edges, {src})

\* The edges of the cut are pairs of instructions, and one fence stands for one
\* slot of a terminator.
DistinctSlots ==
    \A i \in Instr(F0) : \A s, t \in DOMAIN F0.succ[i] :
        F0.succ[i][s] = F0.succ[i][t] => s = t

\* In whatever order the fences are put in, and however the first ones move the
\* places of the later ones, they do what the cut does, for paths that leave the
\* function and come back too -- if no terminator names a block twice.
FencesRealiseCut == DistinctSlots => FenceOnEveryPath

=============================================================================
