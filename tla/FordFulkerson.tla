---------------------------- MODULE FordFulkerson ----------------------------
(****************************************************************************)
(* ford_fulkerson_multi (FordFulkerson.cc): a cut of the walks that visit   *)
(* the waypoint sets of one ST in order.                                    *)
(*                                                                          *)
(* The graph is copied once per waypoint set (DupGraph).  An edge u -> v of *)
(* copy i that enters waypoint set i+1 is redirected to v in copy i+1, so   *)
(* that a path from copy 1 to the last waypoints in copy n has visited them *)
(* all.  Paths are augmented in the residual graph ResG until none is left; *)
(* the cut consists of the edges that leave what the sources still reach.   *)
(*                                                                          *)
(* A node of copy l is <<l, v>>, the code's v + nodes() * (l - 1); the      *)
(* order of these numbers is the lexicographic order of the pairs.  Weights *)
(* are unsigned integers of Width bits, 0 is "no edge".                     *)
(****************************************************************************)
EXTENDS SourceSideCut

CONSTANTS Width,   \* bits of an unsigned weight
          Inputs,  \* records [w |-> weights of the edges, st |-> ST]
          None     \* no parent (-1)

MaxWeight == 2^Width - 1
Weight == 0..MaxWeight

IsInput(i) ==
    /\ i.w \in [Edge -> Weight]
    /\ IsST(i.st)

ASSUME NodeAssumption == Node \subseteq Nat /\ IsFiniteSet(Node)
ASSUME WidthAssumption == Width \in Nat /\ MaxWeight \in Nat \ {0}
ASSUME InputsAssumption == \A i \in Inputs : IsInput(i)
ASSUME NoneAssumption == None \notin Nat \X Node

\* Weights for which the code leaves room: those of an edge and its reverse add
\* up to less than the greatest unsigned number.
WeightsFit ==
    \A i \in Inputs : \A x, y \in Node : i.w[<<x, y>>] + i.w[<<y, x>>] < MaxWeight

VARIABLES in,         \* the arguments
          G,          \* the layered graph ModG
          ResG,       \* the residual graph
          pc,
          S,          \* the sources of the next search
          reached,    \* waypoints_reached: the sources of every search
          parents,    \* one parent map per search; visited = has a parent
          stack,      \* the stack of a search, as a sequence of batches
          v, k,       \* the node and the search of the path's rebuilding
          path,       \* the augmenting path
          path_flow,
          e,          \* the edge of the path that is augmented next
          reach,      \* what the sources reach in the final residual graph
          results     \* the cut, in terms of the original nodes

search  == <<S, reached, parents>>
rebuild == <<v, k>>
augment == <<path_flow, e>>
vars == <<in, G, ResG, pc, search, stack, rebuild, path, augment, reach, results>>

n == Len(in.st)
LNodes(m) == (1..m) \X Node
LNode == LNodes(n)

\* waypoints_mod
Way(st, l) == {<<l, u>> : u \in st[l]}

-----------------------------------------------------------------------------
(* Plausible mistakes in this code, for showing that the properties notice  *)
(* them.  None is part of the specification.                                *)

\* Entries of weight 0 of the sparse graph count as edges.
Adj_AnyEntry(W, m, a) == {b \in LNodes(m) : W[<<a, b>>] >= 0}

\* One search too many.
StartStage_TooMany ==
    /\ pc = "stage" /\ Len(parents) <= n - 1
    /\ reached' = Append(reached, S)
    /\ parents' = Append(parents, [a \in LNode |-> None])
    /\ stack' = IF S = {} THEN <<>> ELSE <<S>>
    /\ pc' = "search"
    /\ UNCHANGED <<in, G, ResG, S, rebuild, path, augment, reach, results>>

\* All waypoints of the next set become sources, visited or not.
EndStage_AllWaypoints ==
    /\ pc = "search" /\ stack = <<>>
    /\ S' = Way(in.st, Len(parents) + 1)
    /\ pc' = "stage"
    /\ UNCHANGED <<in, G, ResG, reached, parents, stack, rebuild, path,
                   augment, reach, results>>

\* The greatest instead of the least weight along the path.
PathFlow_Greatest ==
    LET p == <<v>> \o path
        W == {ResG[<<p[i], p[i + 1]>>] : i \in 1..(Len(p) - 1)}
    IN  /\ pc = "rebuild" /\ k = 0
        /\ path' = p
        /\ path_flow' \in W /\ \A w \in W : path_flow' >= w
        /\ e' = 1
        /\ pc' = "augment"
        /\ UNCHANGED <<in, G, ResG, search, stack, rebuild, reach, results>>

\* No residual capacity is given to the reverse edge.
AugmentEdge_NoReverse ==
    /\ pc = "augment" /\ e < Len(path)
    /\ ResG' = [ResG EXCEPT ![<<path[e], path[e + 1]>>] =
                               (@ - path_flow) % (2^Width)]
    /\ e' = e + 1
    /\ UNCHANGED <<in, G, pc, search, stack, rebuild, path, path_flow, reach, results>>

\* The residual graph is made anew for every path.
EndAugment_FreshResidual ==
    /\ pc = "augment" /\ e >= Len(path)
    /\ path' = <<>>
    /\ S' = Way(in.st, 1) /\ reached' = <<>> /\ parents' = <<>>
    /\ ResG' = G
    /\ pc' = "stage"
    /\ UNCHANGED <<in, G, stack, rebuild, augment, reach, results>>

\* The edges that leave `reach` are looked for in the residual graph.
Results_Residual ==
    /\ pc = "reach" /\ stack = <<>>
    /\ results' = {<<f[1][2], f[2][2]>> :
                      f \in {h \in DOMAIN ResG :
                                ResG[h] > 0 /\ h[1] \in reach /\ h[2] \notin reach}}
    /\ pc' = "done"
    /\ UNCHANGED <<in, G, ResG, search, stack, rebuild, path, augment, reach>>

-----------------------------------------------------------------------------
(* The layered graph.                                                       *)

\* The edges of a weighted graph, and the neighbours of a in m copies.
Edges(w) == {f \in DOMAIN w : w[f] > 0}
Adj(W, m, a) == {b \in LNodes(m) : W[<<a, b>>] > 0}

\* The copies of the graph with the level-up edges (DupGraph, and ModG made
\* from it): u -> w climbs from copy l to copy l+1 iff w is in waypoint set
\* l+1, and stays in copy l otherwise.
Layered(i) ==
    LET top == Len(i.st)
        Climbs(a, b) == a[1] < top /\ b[2] \in i.st[a[1] + 1]
    IN  [p \in LNodes(top) \X LNodes(top) |->
            LET a == p[1]  b == p[2]
            IN  IF b[1] = (IF Climbs(a, b) THEN a[1] + 1 ELSE a[1])
                  THEN i.w[<<a[2], b[2]>>] ELSE 0]

\* The order of the node numbers.
Before(a, b) == a[1] < b[1] \/ (a[1] = b[1] /\ a[2] < b[2])

(****************************************************************************)
(* A stack is filled by loops that push an ascending batch of nodes, so it  *)
(* is kept as the sequence of what is left of the batches: the top is the   *)
(* greatest node of the last one.                                           *)
(****************************************************************************)
Push(stk, batch) == IF batch = {} THEN stk ELSE Append(stk, batch)

IsTop(stk, a) ==
    /\ stk # <<>>
    /\ a \in stk[Len(stk)]
    /\ \A b \in stk[Len(stk)] : b = a \/ Before(b, a)

Popped(stk, a) == Push(SubSeq(stk, 1, Len(stk) - 1), stk[Len(stk)] \ {a})

Init ==
    /\ in \in Inputs
    /\ G = Layered(in)
    /\ ResG = G
    /\ pc = "stage"
    /\ S = Way(in.st, 1)
    /\ reached = <<>> /\ parents = <<>>
    /\ stack = <<>>
    /\ v = None /\ k = 0 /\ path = <<>>
    /\ path_flow = 0 /\ e = 0
    /\ reach = {} /\ results = {}

-----------------------------------------------------------------------------
(* find_st_path_multi: one search per waypoint set after the first.         *)

StartStage ==
    /\ pc = "stage" /\ Len(parents) < n - 1
    /\ reached' = Append(reached, S)
    /\ parents' = Append(parents, [a \in LNode |-> None])
    /\ stack' = Push(<<>>, S)
    /\ pc' = "search"
    /\ UNCHANGED <<in, G, ResG, S, rebuild, path, augment, reach, results>>

\* Pop u; its unvisited neighbours are pushed and get u as their parent.
Visit(u) ==
    LET m == Len(parents)
        new == {b \in Adj(ResG, n, u) : parents[m][b] = None}
    IN  /\ pc = "search" /\ IsTop(stack, u)
        /\ stack' = Push(Popped(stack, u), new)
        /\ parents' = [parents EXCEPT ![m] =
                          [b \in LNode |-> IF b \in new THEN u ELSE @[b]]]
        /\ UNCHANGED <<in, G, ResG, pc, S, reached, rebuild, path, augment,
                       reach, results>>

\* The visited nodes of the waypoint set are the next sources.
EndStage ==
    LET m == Len(parents)
    IN  /\ pc = "search" /\ stack = <<>>
        /\ S' = {a \in Way(in.st, m + 1) : parents[m][a] # None}
        /\ pc' = "stage"
        /\ UNCHANGED <<in, G, ResG, reached, parents, stack, rebuild, path,
                       augment, reach, results>>

\* No path: the loop of ford_fulkerson_multi_impl is left, and
\* find_reachable_multi starts from the first waypoint set.
NoPath ==
    /\ pc = "stage" /\ Len(parents) = n - 1
    /\ S = {}
    /\ reached' = Append(reached, S)
    /\ stack' = Push(<<>>, Way(in.st, 1))
    /\ pc' = "reach"
    /\ UNCHANGED <<in, G, ResG, S, parents, rebuild, path, augment, reach, results>>

\* The path ends in the least waypoint reached.
PathFound(t) ==
    /\ pc = "stage" /\ Len(parents) = n - 1
    /\ t \in S /\ \A a \in S : a = t \/ Before(t, a)
    /\ reached' = Append(reached, S)
    /\ v' = t /\ k' = n - 1
    /\ pc' = "rebuild"
    /\ UNCHANGED <<in, G, ResG, S, parents, stack, path, augment, reach, results>>

\* Walk back through the parents of search k to one of its sources.
StepBack ==
    LET u == parents[k][v]
    IN  /\ pc = "rebuild" /\ k > 0
        /\ path' = <<v>> \o path
        /\ v' = u
        /\ k' = IF u \in reached[k] THEN k - 1 ELSE k
        /\ UNCHANGED <<in, G, ResG, pc, search, stack, augment, reach, results>>

-----------------------------------------------------------------------------
(* ford_fulkerson_multi_impl: augment the path.                             *)

\* The path is complete; path_flow is the least residual weight along it.
PathFlow ==
    LET p == <<v>> \o path
        W == {ResG[<<p[i], p[i + 1]>>] : i \in 1..(Len(p) - 1)}
    IN  /\ pc = "rebuild" /\ k = 0
        /\ path' = p
        /\ path_flow' \in W /\ \A w \in W : path_flow' <= w
        /\ e' = 1
        /\ pc' = "augment"
        /\ UNCHANGED <<in, G, ResG, search, stack, rebuild, reach, results>>

\* One edge of the path: its weight less path_flow, and the reverse edge's
\* weight plus path_flow, both unsigned.
AugmentEdge ==
    LET f == <<path[e], path[e + 1]>>
        b == <<path[e + 1], path[e]>>
    IN  /\ pc = "augment" /\ e < Len(path)
        /\ ResG' = [ResG EXCEPT ![f] = (@ - path_flow) % (MaxWeight + 1),
                                ![b] = (@ + path_flow) % (MaxWeight + 1)]
        /\ e' = e + 1
        /\ UNCHANGED <<in, G, pc, search, stack, rebuild, path, path_flow,
                       reach, results>>

\* path.clear(), and the next call of find_st_path_multi.
EndAugment ==
    /\ pc = "augment" /\ e >= Len(path)
    /\ path' = <<>>
    /\ S' = Way(in.st, 1) /\ reached' = <<>> /\ parents' = <<>>
    /\ pc' = "stage"
    /\ UNCHANGED <<in, G, ResG, stack, rebuild, augment, reach, results>>

-----------------------------------------------------------------------------
(* find_reachable_multi, and the cut.                                       *)

ReachVisit(u) ==
    /\ pc = "reach" /\ IsTop(stack, u)
    /\ reach' = reach \cup {u}
    /\ stack' = IF u \in reach THEN Popped(stack, u)
                ELSE Push(Popped(stack, u), Adj(ResG, n, u))
    /\ UNCHANGED <<in, G, ResG, pc, search, rebuild, path, augment, results>>

\* The edges of the layered graph that leave `reach`, projected to the
\* original graph (get_first_level_node), without duplicates.
Results ==
    /\ pc = "reach" /\ stack = <<>>
    /\ results' = {<<f[1][2], f[2][2]>> :
                      f \in {h \in Edges(G) : h[1] \in reach /\ h[2] \notin reach}}
    /\ pc' = "done"
    /\ UNCHANGED <<in, G, ResG, search, stack, rebuild, path, augment, reach>>

Done == pc = "done" /\ UNCHANGED vars

Next ==
    \/ StartStage
    \/ \E u \in LNode : Visit(u)
    \/ EndStage
    \/ NoPath
    \/ \E t \in LNode : PathFound(t)
    \/ StepBack
    \/ PathFlow
    \/ AugmentEdge
    \/ EndAugment
    \/ \E u \in LNode : ReachVisit(u)
    \/ Results
    \/ Done

Spec == Init /\ [][Next]_vars

\* A sequential function: it keeps running.
FairSpec == Spec /\ WF_vars(Next)

-----------------------------------------------------------------------------
(* Properties.                                                              *)

ParentMap == [LNode -> LNode \cup {None}]

\* Every variable of ford_fulkerson_multi keeps its type; the residual weights
\* stay unsigned integers of Width bits.
TypeOK ==
    /\ IsInput(in)
    /\ G \in [LNode \X LNode -> Weight] /\ ResG \in [LNode \X LNode -> Weight]
    /\ pc \in {"stage", "search", "rebuild", "augment", "reach", "done"}
    /\ S \in SUBSET LNode
    /\ reached \in Seq(SUBSET LNode)
    /\ parents \in Seq(ParentMap) /\ Len(parents) <= n - 1
    /\ stack \in Seq(SUBSET LNode)
    /\ v \in LNode \cup {None} /\ k \in 0..(n - 1)
    /\ path \in Seq(LNode)
    /\ path_flow \in Weight /\ e \in Nat
    /\ reach \in SUBSET LNode
    /\ results \in SUBSET Edge

\* What MinCutGreedy relies on.  The result is made of edges of the graph and
\* cuts all walks through the waypoints; if there are none, nothing is cut.
Contract ==
    pc = "done" =>
        /\ results \subseteq Edges(in.w)
        /\ Separated(Edges(in.w) \ results, in.st)
        /\ Separated(Edges(in.w), in.st) => results = {}

\* assert(v >= 0) in find_st_path_multi: walking back through the parents of a
\* search always meets one of its sources before a node without a parent.
ParentPresent == pc = "rebuild" /\ k > 0 => parents[k][v] # None

\* assert(path_flow > 0 && path_flow < max): every edge of the rebuilt path has
\* residual weight, and no weight has wrapped around to the maximum.
FlowAssert == pc = "augment" => path_flow > 0 /\ path_flow < MaxWeight

\* Between two searches the residual weights of an edge and of its reverse add
\* up to the weights they started with: flow moves, none is made or lost by
\* unsigned arithmetic.  With more than two waypoint sets a path may use an edge
\* twice, and then it is lost.
ResidualBalance ==
    pc = "stage" /\ n = 2 =>
        \A a, b \in LNode : a # b =>
            ResG[<<a, b>>] + ResG[<<b, a>>] = G[<<a, b>>] + G[<<b, a>>]

\* "Perform the optimal min cut": no cut of the ST weighs less than the one
\* that ford_fulkerson_multi returns.
LocalMinCut ==
    pc = "done" =>
        \A C \in SUBSET Edges(in.w) :
            Separated(Edges(in.w) \ C, in.st) => WeightOf(in.w, results) <= WeightOf(in.w, C)

\* Which of several minimum cuts it is does not depend on the augmenting paths:
\* for two waypoint sets, ford_fulkerson_multi returns the one closest to the
\* sources.
SourceSideResult ==
    pc = "done" /\ n = 2 => results = SourceSide(in.w, Edges(in.w), in.st)

\* ford_fulkerson_multi returns: no sequence of augmentations goes on forever.
Terminates == <>(pc = "done")

=============================================================================
