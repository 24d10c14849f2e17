------------------------------- MODULE CheckCut -------------------------------
(****************************************************************************)
(* checkCutST: the self-check of a cut.  MitigatePass.cc runs it on every   *)
(* ST of a function when CHECKCUT is set; MinCutGreedy.h has the same code  *)
(* on index graphs (compiled in, called when CHECK_CUTS is 1).  One search  *)
(* per waypoint set, in which `reach` collects the nodes found from the     *)
(* surviving particles S and parent[v] remembers from where.  If particles  *)
(* survive the last set, a path is rebuilt from the parents, printed, and   *)
(* the compiler aborts.                                                     *)
(*                                                                          *)
(* The order in which the stack `todo` is emptied depends on the order of   *)
(* instruction addresses, so the model takes nodes from it in any order.    *)
(****************************************************************************)
EXTENDS Waypoints

CONSTANTS Inputs,  \* records [G |-> edges, cut |-> edges, st |-> ST]
          None,    \* no parent
          MaxWalk  \* how long the walks are that AcceptedHasNoWalk looks for

IsInput(i) == i.G \subseteq Edge /\ i.cut \subseteq Edge /\ IsST(i.st)

ASSUME InputsAssumption == \A i \in Inputs : IsInput(i)
ASSUME NoneAssumption == None \notin Node

VARIABLES in,         \* the arguments
          pc,
          S,          \* the particles that got this far
          particles,  \* S at the start of every search
          parents,    \* one parent map per search
          todo, reach,
          v,          \* report: the current node
          k,          \* report: the search whose parents are followed
          path        \* report: the path, from its end

vars == <<in, pc, S, particles, parents, todo, reach, v, k, path>>

\* `succs` of the code: the edges of the graph that the cut leaves.
E == in.G \ in.cut

n == Len(in.st)

Init ==
    /\ in \in Inputs
    /\ pc = "stage"
    /\ S = in.st[1]
    /\ particles = <<>> /\ parents = <<>>
    /\ todo = {} /\ reach = {}
    /\ v = None /\ k = 0 /\ path = <<>>

-----------------------------------------------------------------------------
(* Plausible mistakes in this code, for showing that the properties notice  *)
(* them.  None is part of the specification.                                *)

\* One search too many.
StartStage_TooMany ==
    /\ pc = "stage" /\ Len(parents) <= n - 1
    /\ particles' = Append(particles, S)
    /\ parents' = Append(parents, [u \in Node |-> None])
    /\ todo' = S
    /\ reach' = {}
    /\ pc' = "search"
    /\ UNCHANGED <<in, S, v, k, path>>

\* `reach` is declared outside the loop.
StartStage_StaleReach ==
    /\ pc = "stage" /\ Len(parents) < n - 1
    /\ particles' = Append(particles, S)
    /\ parents' = Append(parents, [u \in Node |-> None])
    /\ todo' = S
    /\ pc' = "search"
    /\ UNCHANGED <<in, S, reach, v, k, path>>

\* The sources count as reached.
StartStage_SourcesReached ==
    /\ pc = "stage" /\ Len(parents) < n - 1
    /\ particles' = Append(particles, S)
    /\ parents' = Append(parents, [u \in Node |-> None])
    /\ todo' = S
    /\ reach' = S
    /\ pc' = "search"
    /\ UNCHANGED <<in, S, v, k, path>>

\* New nodes are marked but not pushed.
Pop_NoPush(u) ==
    LET new == Succ(E, {u}) \ reach
    IN  /\ pc = "search" /\ u \in todo
        /\ todo' = todo \ {u}
        /\ reach' = reach \cup new
        /\ parents' = [parents EXCEPT ![Len(parents)] =
                          [w \in Node |-> IF w \in new THEN u ELSE @[w]]]
        /\ UNCHANGED <<in, pc, S, particles, v, k, path>>

\* The report moves on to the search before after one step.
StepBack_OneStep ==
    /\ pc = "report" /\ k > 0
    /\ path' = Append(path, v)
    /\ v' = parents[k][v]
    /\ k' = k - 1
    /\ UNCHANGED <<in, pc, S, particles, parents, todo, reach>>

-----------------------------------------------------------------------------
(* The check.                                                               *)

\* Top of the loop over the sets after the first: push the sources.
StartStage ==
    /\ pc = "stage" /\ Len(parents) < n - 1
    /\ particles' = Append(particles, S)
    /\ parents' = Append(parents, [u \in Node |-> None])
    /\ todo' = S
    /\ reach' = {}
    /\ pc' = "search"
    /\ UNCHANGED <<in, S, v, k, path>>

\* One iteration of the search: successors seen for the first time get u as
\* their parent and are pushed.
Pop(u) ==
    LET new == Succ(E, {u}) \ reach
    IN  /\ pc = "search" /\ u \in todo
        /\ todo' = (todo \ {u}) \cup new
        /\ reach' = reach \cup new
        /\ parents' = [parents EXCEPT ![Len(parents)] =
                          [w \in Node |-> IF w \in new THEN u ELSE @[w]]]
        /\ UNCHANGED <<in, pc, S, particles, v, k, path>>

\* End of the search: the particles of the next stage.
EndStage ==
    /\ pc = "search" /\ todo = {}
    /\ S' = in.st[Len(parents) + 1] \cap reach
    /\ pc' = "stage"
    /\ UNCHANGED <<in, particles, parents, todo, reach, v, k, path>>

\* After the loop: no particle survived, the cut is accepted.
Accept ==
    /\ pc = "stage" /\ Len(parents) = n - 1
    /\ S = {}
    /\ particles' = Append(particles, S)
    /\ pc' = "ok"
    /\ UNCHANGED <<in, S, parents, todo, reach, v, k, path>>

\* Or some did: a path is rebuilt from one of them.
Reject ==
    /\ pc = "stage" /\ Len(parents) = n - 1
    /\ v' \in S
    /\ particles' = Append(particles, S)
    /\ k' = n - 1
    /\ pc' = "report"
    /\ UNCHANGED <<in, S, parents, todo, reach, path>>

\* path.push_back(v); v = parent.at(v); until v is a particle of the search.
StepBack ==
    LET u == parents[k][v]
    IN  /\ pc = "report" /\ k > 0
        /\ path' = Append(path, v)
        /\ v' = u
        /\ k' = IF u \in particles[k] THEN k - 1 ELSE k
        /\ UNCHANGED <<in, pc, S, particles, parents, todo, reach>>

Abort ==
    /\ pc = "report" /\ k = 0
    /\ path' = Append(path, v)
    /\ pc' = "abort"
    /\ UNCHANGED <<in, S, particles, parents, todo, reach, v, k>>

Done == pc \in {"ok", "abort"} /\ UNCHANGED vars

Next ==
    \/ StartStage
    \/ \E u \in Node : Pop(u)
    \/ EndStage
    \/ Accept
    \/ Reject
    \/ StepBack
    \/ Abort
    \/ Done

Spec == Init /\ [][Next]_vars

-----------------------------------------------------------------------------
(* Properties.                                                              *)

ParentMap == [Node -> Node \cup {None}]

\* Every variable of checkCutST keeps its type; at most one particle set and
\* one parent map per stage.
TypeOK ==
    /\ IsInput(in)
    /\ pc \in {"stage", "search", "report", "ok", "abort"}
    /\ S \in SUBSET Node
    /\ particles \in Seq(SUBSET Node)
    /\ parents \in Seq(ParentMap) /\ Len(parents) <= n - 1
    /\ todo \in SUBSET Node /\ reach \in SUBSET Node
    /\ v \in Node \cup {None}
    /\ k \in 0..n
    /\ path \in Seq(Node)

\* A cut that checkCutST lets pass really separates the ST: whatever the order
\* of the searches, no walk through the waypoints is left.
AcceptsOnlyCuts == pc = "ok" => Separated(E, in.st)

\* The abort of the compiler is justified: a cut that is rejected is no cut.
RejectsOnlyNonCuts == pc = "report" => ~Separated(E, in.st)

\* parent.at(v) in the rebuilding of the path never throws: every node met
\* walking back was found by the search whose parents are followed.
ParentPresent == pc = "report" /\ k > 0 => parents[k][v] # None

IsWalk(F, w) == \A i \in 1..(Len(w) - 1) : <<w[i], w[i + 1]>> \in F

\* The walk w visits the waypoint sets in order, and starts and ends in the
\* first and the last.
Realises(w) ==
    \E p \in [1..n -> 1..Len(w)] :
        /\ p[1] = 1 /\ p[n] = Len(w)
        /\ \A i \in 1..n : w[p[i]] \in in.st[i]
        /\ \A i \in 1..(n - 1) : p[i] < p[i + 1]

\* The certificate behind Separated and the cut accepted by checkCutST mean
\* what they should: no walk of up to MaxWalk nodes realises the ST.
AcceptedHasNoWalk ==
    pc = "ok" =>
        LET F == E
        IN  \A m \in 2..MaxWalk :
                \A w \in [1..m -> Node] : ~(IsWalk(F, w) /\ Realises(w))

\* The path printed before the abort is a walk of the graph that avoids the
\* cut and visits the waypoints in order.
ReportedPathIsReal ==
    pc = "abort" =>
        LET w == [i \in 1..Len(path) |-> path[Len(path) + 1 - i]]
        IN  IsWalk(E, w) /\ Realises(w)

=============================================================================
