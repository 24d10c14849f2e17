----------------------------- MODULE MinCutGreedy -----------------------------
(****************************************************************************)
(* MinCutGreedy::run() after optimize_sts: one cut for all STs, from local  *)
(* cuts computed one ST at a time.                                          *)
(*                                                                          *)
(* A round visits the STs in order.  In Replace mode the ST's old cut is    *)
(* put back into G, a new local cut is computed there and taken out of G    *)
(* again; the cuts of the other STs stay removed.  The algorithm ends with  *)
(* a round that changes no cut.  As a cut that changes makes others stale,  *)
(* it may cycle: when the cuts repeat, or on a timeout, it switches to      *)
(* Augment mode, where cuts only grow.                                      *)
(*                                                                          *)
(* The index graph has the same edges and weights as the input graph, and   *)
(* an edge that is put back gets its weight from OrigG, so G is the set of  *)
(* the edges that are left.  Assertions are always compiled in (-UNDEBUG).  *)
(****************************************************************************)
EXTENDS Waypoints

CONSTANTS
    Inputs,            \* records [E |-> edges, w |-> weights, sts |-> STs]
    Timeout,           \* option -clou-mitigation-pass-timeout; 0: none
    LocalCuts(_, _, _) \* LocalCuts(w, E, st): what ford_fulkerson_multi may
                       \* return for the edges E with weights w

IsInput(i) ==
    /\ i.E \subseteq Edge
    /\ i.sts \in Seq(Seq(SUBSET Node)) /\ \A j \in DOMAIN i.sts : IsST(i.sts[j])

\* The contract of ford_fulkerson_multi (FordFulkerson!Contract).
LocalCut(E, st, c) ==
    /\ c \subseteq E
    /\ Separated(E \ c, st)
    /\ Separated(E, st) => c = {}

ASSUME TimeoutAssumption == Timeout \in Nat
ASSUME InputsAssumption == \A i \in Inputs : IsInput(i)
ASSUME LocalCutsAssumption ==
    \A i \in Inputs : \A E \in SUBSET i.E : \A j \in DOMAIN i.sts :
        \A c \in LocalCuts(i.w, E, i.sts[j]) : LocalCut(E, i.sts[j], c)

\* What is more for STs of two waypoint sets, whose cuts are minimum cuts: a
\* local cut has no redundant edge.
MinimalLocalCuts ==
    \A i \in Inputs : \A E \in SUBSET i.E : \A j \in DOMAIN i.sts :
        \A c \in LocalCuts(i.w, E, i.sts[j]) : \A f \in c :
            ~Separated((E \ c) \cup {f}, i.sts[j])

VARIABLES in,         \* the graph OrigG and the optimized STs
          G,          \* OrigG without the edges of the cuts
          cuts,       \* one cut per ST
          mode,
          cuts_hist,  \* the cuts at the end of every round that changed one
          changed,    \* a cut changed in this round
          next,       \* the ST that is cut next
          pc,
          cut_edges   \* the result

vars == <<in, G, cuts, mode, cuts_hist, changed, next, pc, cut_edges>>

STs == DOMAIN in.sts

Init ==
    /\ in \in Inputs
    /\ G = in.E
    /\ cuts = [j \in DOMAIN in.sts |-> {}]
    /\ mode = "Replace"
    /\ cuts_hist = {}
    /\ changed = FALSE
    /\ next = 1
    /\ pc = "round"
    /\ cut_edges = {}

-----------------------------------------------------------------------------
(* Plausible mistakes in this code, for showing that the properties notice  *)
(* them.  None is part of the specification.                                *)

\* The old cut is never put back.
Restored_Never == G

\* `changed` only tells of the last ST.
CutST_LastChange ==
    /\ pc = "round" /\ next \in STs
    /\ LET Put == IF mode = "Replace" THEN G \cup cuts[next] ELSE G
       IN  \E c \in LocalCuts(in.w, Put, in.sts[next]) :
              LET newcut == IF mode = "Augment" THEN c \cup cuts[next] ELSE c
              IN  /\ G' = Put \ newcut
                  /\ changed' = (cuts[next] # newcut)
                  /\ cuts' = [cuts EXCEPT ![next] = newcut]
    /\ next' = next + 1
    /\ UNCHANGED <<in, mode, cuts_hist, pc, cut_edges>>

\* The old cut is added to the new one in Replace mode too.
CutST_Accumulate ==
    /\ pc = "round" /\ next \in STs
    /\ \E c \in LocalCuts(in.w, G, in.sts[next]) :
          /\ G' = G \ c
          /\ changed' = (changed \/ c # {})
          /\ cuts' = [cuts EXCEPT ![next] = @ \cup c]
    /\ next' = next + 1
    /\ UNCHANGED <<in, mode, cuts_hist, pc, cut_edges>>

\* The old cut is replaced in Augment mode too.
CutST_AlwaysReplace ==
    /\ pc = "round" /\ next \in STs
    /\ \E c \in LocalCuts(in.w, G \cup cuts[next], in.sts[next]) :
          /\ G' = (G \cup cuts[next]) \ c
          /\ changed' = (changed \/ cuts[next] # c)
          /\ cuts' = [cuts EXCEPT ![next] = c]
    /\ next' = next + 1
    /\ UNCHANGED <<in, mode, cuts_hist, pc, cut_edges>>

\* The next round starts one before the first ST.
NextRound_FromZero ==
    changed' = FALSE /\ next' = 0 /\ UNCHANGED <<in, G, cuts, pc, cut_edges>>

\* The loop is detected, and nothing is done about it.
Loop_StayReplace ==
    /\ pc = "round" /\ next \notin STs /\ changed
    /\ cuts \in cuts_hist
    /\ mode = "Replace"
    /\ changed' = FALSE /\ next' = 1
    /\ UNCHANGED <<in, G, cuts, mode, cuts_hist, pc, cut_edges>>

-----------------------------------------------------------------------------
(* The algorithm.                                                           *)

\* The graph in which the next ST is cut: its old cut is back in.
Restored == IF mode = "Replace" THEN G \cup cuts[next] ELSE G

\* The body of the loop over the STs.
CutST ==
    /\ pc = "round" /\ next \in STs
    /\ \E c \in LocalCuts(in.w, Restored, in.sts[next]) :
          LET oldcut == cuts[next]
              newcut == IF mode = "Augment" THEN c \cup oldcut ELSE c
          IN  /\ G' = Restored \ newcut
              /\ changed' = (changed \/ oldcut # newcut)
              /\ cuts' = [cuts EXCEPT ![next] = newcut]
    /\ next' = next + 1
    /\ UNCHANGED <<in, mode, cuts_hist, pc, cut_edges>>

EndOfRound == pc = "round" /\ next \notin STs

NextRound == changed' = FALSE /\ next' = 1 /\ UNCHANGED <<in, G, cuts, pc, cut_edges>>

\* The cuts are new; if the timeout has expired, go on in Augment mode.
Record ==
    /\ EndOfRound /\ changed
    /\ cuts \notin cuts_hist
    /\ cuts_hist' = cuts_hist \cup {cuts}
    /\ mode' \in {mode} \cup (IF Timeout > 0 THEN {"Augment"} ELSE {})
    /\ NextRound

\* "detected loop in min-cut algorithm"
Loop ==
    /\ EndOfRound /\ changed
    /\ cuts \in cuts_hist
    /\ mode = "Replace"
    /\ mode' = "Augment"
    /\ NextRound /\ UNCHANGED cuts_hist

\* assert(mode == Mode::Replace) fails.
Abort ==
    /\ EndOfRound /\ changed
    /\ cuts \in cuts_hist
    /\ mode # "Replace"
    /\ pc' = "abort"
    /\ UNCHANGED <<in, G, cuts, mode, cuts_hist, changed, next, cut_edges>>

\* A round without change: the cut edges are the result.
Finish ==
    /\ EndOfRound /\ ~changed
    /\ cut_edges' = UNION {cuts[j] : j \in STs}
    /\ pc' = "done"
    /\ UNCHANGED <<in, G, cuts, mode, cuts_hist, changed, next>>

Stopped == pc \in {"done", "abort"} /\ UNCHANGED vars

Next == CutST \/ Record \/ Loop \/ Abort \/ Finish \/ Stopped

Spec == Init /\ [][Next]_vars

\* A sequential function: it keeps running.
FairSpec == Spec /\ WF_vars(Next)

-----------------------------------------------------------------------------
(* Properties.                                                              *)

\* Every variable of run() keeps its type.
TypeOK ==
    /\ IsInput(in)
    /\ G \subseteq in.E
    /\ cuts \in [STs -> SUBSET in.E]
    /\ mode \in {"Replace", "Augment"}
    /\ cuts_hist \subseteq [STs -> SUBSET in.E]
    /\ changed \in BOOLEAN
    /\ next \in 1..(Len(in.sts) + 1)
    /\ pc \in {"round", "done", "abort"}
    /\ cut_edges \subseteq in.E

\* "Cut edge still in graph G!", assert(erased > 0) and "no redundant edges":
\* G is OrigG without the cuts and no edge belongs to two cuts, whichever cuts
\* were replaced or augmented in between.
GraphExact ==
    /\ G = in.E \ UNION {cuts[j] : j \in STs}
    /\ \A j, l \in STs : j # l => cuts[j] \cap cuts[l] = {}

\* A round that has changed nothing so far leaves every ST it has visited cut
\* by the graph as it is now, so that the last round proves the whole result.
UnchangedIsCut ==
    pc # "abort" /\ ~changed => \A j \in 1..(next - 1) : Separated(G, in.sts[j])

\* The result cuts every ST: a run that ends never leaves a walk to a
\* transmitter unfenced, in whatever mode it ends.
CutSeparates ==
    pc = "done" =>
        /\ cut_edges = in.E \ G
        /\ \A j \in STs : Separated(in.E \ cut_edges, in.sts[j])

\* Fences are costly.  A result reached without giving up on replacing cuts
\* has no redundant edge: putting back any edge of an ST's cut gives that ST a
\* walk, with all the other cuts in place.
Irredundant ==
    pc = "done" /\ mode = "Replace" =>
        \A j \in STs : \A f \in cuts[j] : ~Separated(G \cup {f}, in.sts[j])

\* From the moment it stops replacing cuts, run() only ever adds edges.
AugmentOnlyGrows ==
    [][mode = "Augment" => G' \subseteq G /\ \A j \in STs : cuts[j] \subseteq cuts'[j]]_vars

\* run() returns (or its assertion fails): cuts cannot be replaced for ever,
\* since a repetition or the timeout ends Replace mode, and not grow for ever.
Terminates == <>(pc \in {"done", "abort"})

Abstract ==
    INSTANCE MinCut WITH status <- IF pc = "round" THEN "running" ELSE pc

\* run() implements what MitigatePass expects of a min-cut algorithm.
ImplementsMinCut == Abstract!Spec

=============================================================================
