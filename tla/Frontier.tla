-------------------------------- MODULE Frontier --------------------------------
(****************************************************************************)
(* The frontiers of Frontier.cc, and what StackInitAnalysis does with them  *)
(* for one load of the stack that may leak: the frontier of the stores that *)
(* must alias it, on the way from the function's entry to the load; and if  *)
(* there is a way without such a store, the reverse frontier of the         *)
(* instructions that may write there.                                       *)
(*                                                                          *)
(* A function is its entry and its control-flow edges E.  The order of the  *)
(* searches is the order of a queue; here it is any order.                  *)
(****************************************************************************)
EXTENDS Integers

CONSTANTS Instr,
          Inputs  \* records [E, entry, LI, must, may]

\* must: the stores that must alias the load LI; may: what may write there.
IsInput(i) ==
    /\ i.E \subseteq Instr \X Instr
    /\ i.entry \in Instr /\ i.LI \in Instr
    /\ \A e \in i.E : e[2] # i.entry
    /\ i.must \subseteq i.may /\ i.may \subseteq Instr

InputsAssumption == \A i \in Inputs : IsInput(i)

VARIABLES in,
          stage,     \* "must", "may": which frontier is computed
          pc,
          todo, seen,
          subgraph,  \* reachable_predecessors of the load
          frontier,
          result,    \* of forward_frontier or reverse_frontier
          stores     \* what StackInitAnalysis records for the load

vars == <<in, stage, pc, todo, seen, subgraph, frontier, result, stores>>

successors(i) == {e[2] : e \in {d \in in.E : d[1] = i}}
predecessors(i) == {e[1] : e \in {d \in in.E : d[2] = i}}

Init ==
    /\ in \in Inputs
    /\ stage = "must" /\ pc = "preds"
    /\ todo = {in.LI} /\ seen = {}
    /\ subgraph = {} /\ frontier = {} /\ result = TRUE
    /\ stores = {}

-----------------------------------------------------------------------------
(* reachable_predecessors                                                   *)

PopPredecessor(i) ==
    /\ pc = "preds" /\ i \in todo
    /\ todo' = IF i \in seen THEN todo \ {i} ELSE (todo \ {i}) \cup predecessors(i)
    /\ seen' = seen \cup {i}
    /\ UNCHANGED <<in, stage, pc, subgraph, frontier, result, stores>>

EndPredecessors ==
    /\ pc = "preds" /\ todo = {}
    /\ subgraph' = seen
    /\ todo' = {in.entry} /\ seen' = {}
    /\ pc' = "walk"
    /\ UNCHANGED <<in, stage, frontier, result, stores>>

-----------------------------------------------------------------------------
(* frontier_impl: the walk from the entry.                                  *)

In == subgraph \cap (IF stage = "must" THEN in.must ELSE in.may)
nexts(i) == IF stage = "must" THEN successors(i) ELSE predecessors(i)

\* A plausible mistake, not part of the specification: the frontier does not
\* stop the walk.
Pop_Through(i) ==
    /\ pc = "walk" /\ i \in todo
    /\ seen' = seen \cup {i}
    /\ result' = (result /\ i # in.LI)
    /\ frontier' = IF i \in In \ seen /\ i # in.LI THEN frontier \cup {i} ELSE frontier
    /\ todo' = (todo \ {i}) \cup (IF i \in seen THEN {} ELSE nexts(i))
    /\ UNCHANGED <<in, stage, pc, subgraph, stores>>

Pop(i) ==
    /\ pc = "walk" /\ i \in todo
    /\ seen' = seen \cup {i}
    /\ \/ /\ i \in seen
          /\ todo' = todo \ {i} /\ UNCHANGED <<frontier, result>>
       \/ /\ i \notin seen /\ i = in.LI
          /\ todo' = todo \ {i} /\ result' = FALSE /\ UNCHANGED frontier
       \/ /\ i \notin seen /\ i # in.LI /\ i \in In
          /\ todo' = todo \ {i} /\ frontier' = frontier \cup {i} /\ UNCHANGED result
       \/ /\ i \notin seen /\ i # in.LI /\ i \notin In
          /\ todo' = (todo \ {i}) \cup nexts(i) /\ UNCHANGED <<frontier, result>>
    /\ UNCHANGED <<in, stage, pc, subgraph, stores>>

-----------------------------------------------------------------------------
(* StackInitAnalysis                                                        *)

\* All ways to the load meet a store: those are recorded.
Record ==
    /\ pc = "walk" /\ todo = {} /\ stage = "must" /\ result
    /\ stores' = frontier
    /\ pc' = "done"
    /\ UNCHANGED <<in, stage, todo, seen, subgraph, frontier, result>>

\* The fallback: the other frontier, from the beginning.
Fallback ==
    /\ pc = "walk" /\ todo = {} /\ stage = "must" /\ ~result
    /\ stage' = "may" /\ pc' = "preds"
    /\ todo' = {in.LI} /\ seen' = {} /\ frontier' = {} /\ result' = TRUE
    /\ UNCHANGED <<in, subgraph, stores>>

\* assert(!may_alias_frontier.empty())
AbortFallback ==
    /\ pc = "walk" /\ todo = {} /\ stage = "may" /\ frontier = {}
    /\ pc' = "abort"
    /\ UNCHANGED <<in, stage, todo, seen, subgraph, frontier, result, stores>>

\* One write, or else the instructions before the load.
RecordFallback ==
    /\ pc = "walk" /\ todo = {} /\ stage = "may" /\ frontier # {}
    /\ stores' = IF result /\ (\E i \in Instr : frontier = {i}) THEN frontier ELSE predecessors(in.LI)
    /\ pc' = "done"
    /\ UNCHANGED <<in, stage, todo, seen, subgraph, frontier, result>>

Done == pc \in {"done", "abort"} /\ UNCHANGED vars

Next ==
    \/ \E i \in Instr : PopPredecessor(i) \/ Pop(i)
    \/ EndPredecessors \/ Record \/ Fallback \/ AbortFallback \/ RecordFallback \/ Done

Spec == Init /\ [][Next]_vars

-----------------------------------------------------------------------------
(* Properties.                                                              *)

\* What control reaches from the entry if it does not get past S.
ReachUpTo(S) ==
    {i \in Instr : \A R \in SUBSET Instr :
        in.entry \in R /\ (\A j \in R \ S : successors(j) \subseteq R) => i \in R}

\* Whatever way control takes, round any loop, it does not get to the load without one
\* of the writes that are recorded as the ones that initialise the stack slot; they are
\* must-alias stores, each of them the first on some way to the load, whenever there
\* are enough of these.
InitialisedByStores ==
    pc = "done" =>
        /\ in.LI \notin ReachUpTo(stores) /\ stores \subseteq in.may
        /\ stage = "must" => stores \subseteq in.must
        /\ stage = "must" => \A s \in stores : s \in ReachUpTo(in.must)

\* The fallback is only for loads that control gets to without a must-alias store.  Its
\* reverse walk begins at the entry, before which there is nothing: the assertion that
\* it has found a write holds only if the entry is one, and fails for all other functions.
FallbackFindsEntry ==
    pc \in {"done", "abort"} /\ stage = "may" =>
        /\ in.LI \in ReachUpTo(in.must \ {in.LI})
        /\ pc = "done" <=> in.entry \in in.may \ {in.LI}

\* StackInitAnalysis takes a slot to be initialised only by what control has to pass on
\* its way to the load, and its fallback gets no further than the assertion for all
\* functions that do not begin with a write.
InitialisedOnAllPaths ==
    /\ InitialisedByStores
    /\ FallbackFindsEntry

=============================================================================
