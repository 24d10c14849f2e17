------------------------------ MODULE Waypoints ------------------------------
(****************************************************************************)
(* The vocabulary of the min-cut engine: a speculative control-flow graph   *)
(* is a set of edges over Node, and an ST (MinCutBase<Node,Weight>::ST) is  *)
(* a sequence of at least two waypoint sets.  A walk realises an ST if it   *)
(* starts in the first set and then visits, in this order and with at least *)
(* one step in between, a node of every later set.  A set of edges is a cut *)
(* of the ST if the graph without those edges has no such walk.             *)
(****************************************************************************)
EXTENDS Integers, Sequences

CONSTANT Node

Edge == Node \X Node

\* Waypoint sequences: add_st is only ever called with two or three sets.
IsST(st) == st \in Seq(SUBSET Node) /\ Len(st) >= 2

\* The nodes one step away from S.
Succ(E, S) == {v \in Node : \E u \in S : <<u, v>> \in E}

Closed(E, R) == Succ(E, R) \subseteq R

\* The nodes at least one step away from S.  A node of S is in it only if it
\* lies on a cycle: the searches of this code mark the successors of their
\* sources, never the sources themselves.
Reach(E, S) ==
    {v \in Node : \A R \in SUBSET Node :
                     Succ(E, S) \subseteq R /\ Closed(E, R) => v \in R}

(****************************************************************************)
(* No walk of E realises st.  Stated by a certificate instead of by walks:  *)
(* B[i] over-approximates what a walk that has visited waypoints 1..i can   *)
(* reach next.  The run "check_cut" compares it with walks.                 *)
(****************************************************************************)
IsCertificate(E, st, B) ==
    /\ \A i \in 1..(Len(st) - 1) : Closed(E, B[i])
    /\ Succ(E, st[1]) \subseteq B[1]
    /\ \A i \in 2..(Len(st) - 1) : Succ(E, st[i] \cap B[i - 1]) \subseteq B[i]
    /\ st[Len(st)] \cap B[Len(st) - 1] = {}

Separated(E, st) ==
    \E B \in [1..(Len(st) - 1) -> SUBSET Node] : IsCertificate(E, st, B)

=============================================================================
