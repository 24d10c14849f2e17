-------------------------- MODULE MinCutGreedyProofs --------------------------
(****************************************************************************)
(* MinCutGreedy::run() returns a cut of every ST, for every graph, sequence *)
(* of STs and timeout, and for every way to choose local cuts that fulfils  *)
(* the contract of ford_fulkerson_multi.                                    *)
(****************************************************************************)
EXTENDS MinCutGreedy, TLAPS

\* run() has no result until it is done, and then it has visited every ST in a
\* round without change.
ResultInv ==
    /\ pc # "done" => cut_edges = {}
    /\ pc = "done" =>
          /\ ~changed /\ next = Len(in.sts) + 1
          /\ cut_edges = UNION {cuts[j] : j \in STs}

IInv ==
    /\ in \in Inputs
    /\ TypeOK
    /\ GraphExact
    /\ UnchangedIsCut
    /\ ResultInv

-----------------------------------------------------------------------------

LEMMA Domain == ASSUME IsInput(in) PROVE STs = 1..Len(in.sts) /\ Len(in.sts) \in Nat
BY DEF IsInput, STs

LEMMA InitInv == Init => IInv
<1> SUFFICES ASSUME Init PROVE IInv
    OBVIOUS
<1>1. IsInput(in)
    BY InputsAssumption DEF Init
<1>2. STs = 1..Len(in.sts) /\ Len(in.sts) \in Nat
    BY <1>1, Domain
<1>3. \A j \in STs : cuts[j] = {}
    BY DEF Init, STs
<1>4. TypeOK
    <2>1. cuts \in [STs -> SUBSET in.E]
        BY DEF Init, STs
    <2>2. changed \in BOOLEAN
        BY Zenon DEF Init
    <2>3. next \in 1..(Len(in.sts) + 1)
        BY <1>2 DEF Init
    <2> QED
        BY <1>1, <2>1, <2>2, <2>3 DEF Init, TypeOK
<1>5. GraphExact
    BY <1>3 DEF Init, GraphExact
<1>6. UnchangedIsCut /\ ResultInv
    BY DEF Init, UnchangedIsCut, ResultInv
<1> QED
    BY <1>4, <1>5, <1>6 DEF Init, IInv

\* What the body of the loop over the STs does, apart from the choice of c:
\* newcut is a cut of the ST in the graph where its old cut is back in.
LEMMA CutSTEffect ==
    ASSUME IInv, CutST
    PROVE  \E newcut \in SUBSET in.E :
              /\ G' = (G \cup cuts[next]) \ newcut
              /\ newcut \subseteq G \cup cuts[next]
              /\ Separated(G', in.sts[next])
              /\ changed' = (changed \/ cuts[next] # newcut)
              /\ cuts' = [cuts EXCEPT ![next] = newcut]
<1>1. next \in STs /\ cuts[next] \subseteq in.E /\ G \subseteq in.E
    BY DEF CutST, IInv, TypeOK
<1>2. Restored \in SUBSET in.E
    BY <1>1 DEF Restored
<1>3. PICK c \in LocalCuts(in.w, Restored, in.sts[next]) :
          LET newcut == IF mode = "Augment" THEN c \cup cuts[next] ELSE c
          IN  /\ G' = Restored \ newcut
              /\ changed' = (changed \/ cuts[next] # newcut)
              /\ cuts' = [cuts EXCEPT ![next] = newcut]
    BY DEF CutST
<1>4. LocalCut(Restored, in.sts[next], c)
    BY <1>1, <1>2, <1>3, LocalCutsAssumption DEF IInv, STs
<1>5. G \cap cuts[next] = {}
    BY <1>1 DEF IInv, GraphExact
<1>6. CASE mode = "Augment"
    <2>1. Restored = G
        BY <1>6 DEF Restored
    <2>2. G \ (c \cup cuts[next]) = G \ c
        BY <1>5
    <2>3. G' = G \ (c \cup cuts[next])
        BY <1>3, <1>6, <2>1
    <2>4. Separated(G', in.sts[next]) /\ c \subseteq G
        BY <1>4, <2>1, <2>2, <2>3 DEF LocalCut
    <2>5. G' = (G \cup cuts[next]) \ (c \cup cuts[next])
        BY <2>3
    <2> QED
        BY <1>1, <1>3, <1>6, <2>4, <2>5
<1>7. CASE mode = "Replace"
    <2>1. Restored = G \cup cuts[next]
        BY <1>7 DEF Restored
    <2>2. Separated(Restored \ c, in.sts[next]) /\ c \subseteq Restored
        BY <1>4 DEF LocalCut
    <2> QED
        BY <1>1, <1>2, <1>3, <1>7, <2>1, <2>2
<1> QED
    BY <1>6, <1>7 DEF IInv, TypeOK

LEMMA CutSTInv == ASSUME IInv, CutST PROVE IInv'
<1>1. PICK newcut \in SUBSET in.E :
          /\ G' = (G \cup cuts[next]) \ newcut
          /\ newcut \subseteq G \cup cuts[next]
          /\ Separated(G', in.sts[next])
          /\ changed' = (changed \/ cuts[next] # newcut)
          /\ cuts' = [cuts EXCEPT ![next] = newcut]
    BY CutSTEffect
<1>2. /\ next \in STs /\ next' = next + 1 /\ pc = "round"
      /\ UNCHANGED <<in, mode, cuts_hist, pc, cut_edges>>
    BY DEF CutST
<1>3. STs' = STs /\ STs = 1..Len(in.sts) /\ Len(in.sts) \in Nat
    BY <1>2, Domain DEF IInv, TypeOK, STs
<1>4. /\ cuts \in [STs -> SUBSET in.E]
      /\ \A j \in STs : cuts'[j] = IF j = next THEN newcut ELSE cuts[j]
    BY <1>1 DEF IInv, TypeOK
<1>5. TypeOK'
    BY <1>1, <1>2, <1>3, <1>4 DEF IInv, TypeOK, IsInput
<1>6. /\ G = in.E \ UNION {cuts[j] : j \in STs}
      /\ \A j, l \in STs : j # l => cuts[j] \cap cuts[l] = {}
    BY DEF IInv, GraphExact
<1>7. GraphExact'
    <2>1. G' = in.E \ UNION {cuts'[j] : j \in STs}
        BY <1>1, <1>2, <1>4, <1>6
    <2>2. ASSUME NEW j \in STs, NEW l \in STs, j # l PROVE cuts'[j] \cap cuts'[l] = {}
        BY <1>1, <1>2, <1>4, <1>6, <2>2
    <2> QED
        BY <1>2, <1>3, <2>1, <2>2 DEF GraphExact
<1>8. UnchangedIsCut'
    <2> SUFFICES ASSUME ~changed', NEW j \in 1..next PROVE Separated(G', in.sts[j])
        BY <1>2, <1>3 DEF UnchangedIsCut
    <2>1. ~changed /\ newcut = cuts[next]
        BY <1>1
    <2>2. G' = G
        BY <1>1, <1>2, <1>6, <2>1
    <2>3. CASE j = next
        BY <1>1, <2>3
    <2>4. CASE j \in 1..(next - 1)
        BY <1>2, <2>1, <2>2, <2>4 DEF IInv, UnchangedIsCut
    <2> QED
        BY <1>2, <1>3, <2>3, <2>4
<1>9. ResultInv'
    BY <1>2 DEF IInv, ResultInv
<1> QED
    BY <1>2, <1>5, <1>7, <1>8, <1>9 DEF IInv

\* The end of a round changes neither the graph nor the cuts.
LEMMA EndOfRoundInv ==
    ASSUME IInv, Record \/ Loop \/ Abort \/ Finish
    PROVE  IInv'
<1>1. /\ STs = 1..Len(in.sts) /\ Len(in.sts) \in Nat
      /\ UNCHANGED <<in, G, cuts>> /\ STs' = STs
    BY Domain DEF IInv, TypeOK, STs, Record, Loop, Abort, Finish, NextRound
<1>2. next = Len(in.sts) + 1 /\ pc = "round"
    BY <1>1 DEF IInv, TypeOK, Record, Loop, Abort, Finish, EndOfRound
<1>3. GraphExact'
    BY <1>1 DEF IInv, GraphExact
<1>4. CASE Record \/ Loop
    <2>1. changed' = FALSE /\ next' = 1 /\ UNCHANGED <<pc, cut_edges>>
        BY <1>4 DEF Record, Loop, NextRound
    <2>2. mode' \in {"Replace", "Augment"}
        BY <1>4 DEF IInv, TypeOK, Record, Loop
    <2>3. cuts_hist' \subseteq [STs -> SUBSET in.E]
        BY <1>4 DEF IInv, TypeOK, Record, Loop
    <2>4. TypeOK'
        <3>1. changed' \in BOOLEAN
            BY <2>1, Zenon
        <3>2. next' \in 1..(Len(in.sts) + 1)
            BY <1>1, <2>1
        <3> QED
            BY <1>1, <2>1, <2>2, <2>3, <3>1, <3>2 DEF IInv, TypeOK, IsInput
    <2>5. UnchangedIsCut' /\ ResultInv'
        BY <1>2, <2>1 DEF IInv, UnchangedIsCut, ResultInv
    <2> QED
        BY <1>1, <1>3, <2>4, <2>5 DEF IInv
<1>5. CASE Abort
    <2>1. TypeOK'
        BY <1>1, <1>5 DEF IInv, TypeOK, IsInput, Abort
    <2>2. UnchangedIsCut' /\ ResultInv'
        BY <1>2, <1>5 DEF IInv, UnchangedIsCut, ResultInv, Abort
    <2> QED
        BY <1>1, <1>3, <2>1, <2>2 DEF IInv
<1>6. CASE Finish
    <2>1. cut_edges' \subseteq in.E
        BY <1>6 DEF IInv, TypeOK, Finish
    <2>2. TypeOK'
        BY <1>1, <1>6, <2>1 DEF IInv, TypeOK, IsInput, Finish
    <2>3. UnchangedIsCut'
        BY <1>1, <1>2, <1>6 DEF IInv, UnchangedIsCut, Finish
    <2>4. ResultInv'
        BY <1>1, <1>2, <1>6 DEF ResultInv, Finish
    <2> QED
        BY <1>1, <1>3, <2>2, <2>3, <2>4 DEF IInv
<1> QED
    BY <1>4, <1>5, <1>6

LEMMA NextInv == IInv /\ [Next]_vars => IInv'
<1> SUFFICES ASSUME IInv, [Next]_vars PROVE IInv'
    OBVIOUS
<1>1. CASE UNCHANGED vars
    BY <1>1 DEF IInv, TypeOK, GraphExact, UnchangedIsCut, ResultInv, STs, IsInput, vars
<1>2. CASE Stopped
    BY <1>1, <1>2 DEF Stopped
<1> QED
    BY <1>1, <1>2, CutSTInv, EndOfRoundInv DEF Next

LEMMA Invariance == Spec => []IInv
BY InitInv, NextInv, PTL DEF Spec

-----------------------------------------------------------------------------

\* run() of MinCutGreedy never leaves the types of its variables.
THEOREM TypeCorrect == Spec => []TypeOK
<1>1. IInv => TypeOK
    BY DEF IInv
<1> QED
    BY <1>1, Invariance, PTL

\* The three assertions about cut edges in run() never fail, in any mode.
THEOREM AssertionsHold == Spec => []GraphExact
<1>1. IInv => GraphExact
    BY DEF IInv
<1> QED
    BY <1>1, Invariance, PTL

LEMMA ResultIsCut ==
    ASSUME IInv, pc = "done"
    PROVE  /\ cut_edges = in.E \ G
           /\ in.E \ cut_edges = G
           /\ \A j \in STs : Separated(G, in.sts[j])
<1>1. STs = 1..Len(in.sts) /\ Len(in.sts) \in Nat
    BY Domain DEF IInv, TypeOK
<1>2. next - 1 = Len(in.sts)
    BY <1>1 DEF IInv, ResultInv
<1>3. \A j \in STs : Separated(G, in.sts[j])
    BY <1>1, <1>2 DEF IInv, ResultInv, UnchangedIsCut
<1>4. cut_edges = in.E \ G /\ in.E \ cut_edges = G
    BY DEF IInv, TypeOK, ResultInv, GraphExact
<1> QED
    BY <1>3, <1>4

\* When run() returns, its cut edges cut every ST.
THEOREM Correct == Spec => []CutSeparates
<1>1. IInv => CutSeparates
    BY ResultIsCut DEF CutSeparates
<1> QED
    BY <1>1, Invariance, PTL

\* Once run() is in Augment mode, no edge is put back into the graph.
THEOREM Growth == Spec => AugmentOnlyGrows
<1>1. ASSUME IInv, [Next]_vars
      PROVE  [mode = "Augment" => G' \subseteq G /\ \A j \in STs : cuts[j] \subseteq cuts'[j]]_vars
    <2> SUFFICES ASSUME mode = "Augment", Next
                 PROVE  G' \subseteq G /\ \A j \in STs : cuts[j] \subseteq cuts'[j]
        BY <1>1
    <2>1. CASE CutST
        <3>1. PICK c : /\ G' = G \ (c \cup cuts[next])
                       /\ cuts' = [cuts EXCEPT ![next] = c \cup cuts[next]]
            BY <2>1 DEF CutST, Restored
        <3> QED
            BY <1>1, <3>1 DEF IInv, TypeOK
    <2>2. CASE UNCHANGED <<G, cuts>>
        BY <2>2
    <2> QED
        BY <2>1, <2>2 DEF Next, Record, Loop, Abort, Finish, NextRound, Stopped, vars
<1> QED
    BY <1>1, Invariance, PTL DEF Spec, AugmentOnlyGrows

\* As long as no cut has changed in a round in Replace mode, the cuts it has
\* visited have no redundant edge in the graph as it is now.
MinimalInv ==
    mode = "Replace" /\ ~changed =>
        \A j \in 1..(next - 1) : \A f \in cuts[j] : ~Separated(G \cup {f}, in.sts[j])

LEMMA CutSTMinimal ==
    ASSUME MinimalLocalCuts, IInv, MinimalInv, CutST
    PROVE  MinimalInv'
<1> SUFFICES ASSUME mode = "Replace", ~changed', NEW j \in 1..(next' - 1), NEW f \in cuts'[j]
             PROVE  ~Separated(G' \cup {f}, in.sts[j])
    BY DEF MinimalInv, CutST
<1>1. /\ next \in STs /\ cuts[next] \subseteq in.E /\ G \subseteq in.E /\ in \in Inputs
      /\ next' = next + 1 /\ STs = 1..Len(in.sts) /\ Len(in.sts) \in Nat
    BY Domain DEF CutST, IInv, TypeOK
<1>2. PICK c \in LocalCuts(in.w, G \cup cuts[next], in.sts[next]) :
          /\ G' = (G \cup cuts[next]) \ c
          /\ ~changed /\ c = cuts[next]
          /\ cuts' = [cuts EXCEPT ![next] = c]
    BY DEF CutST, Restored
<1>3. cuts' = cuts /\ G' = G
    <2>1. cuts' = cuts
        BY <1>1, <1>2 DEF IInv, TypeOK
    <2>2. G \cap cuts[next] = {}
        BY <1>1 DEF IInv, GraphExact
    <2> QED
        BY <1>2, <2>1, <2>2
<1>4. CASE j = next
    <2>1. G \cup cuts[next] \in SUBSET in.E
        BY <1>1
    <2>2. ~Separated(((G \cup cuts[next]) \ c) \cup {f}, in.sts[next])
        BY <1>1, <1>2, <1>3, <1>4, <2>1 DEF MinimalLocalCuts, STs
    <2> QED
        BY <1>2, <1>4, <2>2
<1>5. CASE j \in 1..(next - 1)
    BY <1>2, <1>3, <1>5 DEF MinimalInv
<1> QED
    BY <1>1, <1>4, <1>5

\* If the local cuts have no redundant edge, as those of STs of two waypoint
\* sets have, then neither has the result for all STs, unless run() had to give
\* up on replacing cuts.
THEOREM NoRedundantEdge == MinimalLocalCuts => (Spec => []Irredundant)
<1> SUFFICES ASSUME MinimalLocalCuts PROVE Spec => []Irredundant
    OBVIOUS
<1>1. Init => MinimalInv
    BY DEF Init, MinimalInv
<1>2. ASSUME IInv, MinimalInv, [Next]_vars PROVE MinimalInv'
    <2>1. CASE CutST
        BY <1>2, <2>1, CutSTMinimal
    <2>2. CASE Record \/ Loop
        BY <2>2 DEF Record, Loop, NextRound, MinimalInv
    <2>3. CASE UNCHANGED <<in, G, cuts, mode, changed, next>>
        BY <1>2, <2>3 DEF MinimalInv
    <2> QED
        BY <1>2, <2>1, <2>2, <2>3 DEF Next, Abort, Finish, Stopped, vars
<1>3. IInv /\ MinimalInv => Irredundant
    <2> SUFFICES ASSUME IInv, MinimalInv, pc = "done", mode = "Replace"
                 PROVE  \A j \in STs : \A f \in cuts[j] : ~Separated(G \cup {f}, in.sts[j])
        BY DEF Irredundant
    <2>1. STs = 1..Len(in.sts) /\ Len(in.sts) \in Nat
        BY Domain DEF IInv, TypeOK
    <2>2. ~changed /\ next - 1 = Len(in.sts)
        BY <2>1 DEF IInv, ResultInv
    <2> QED
        BY <2>1, <2>2 DEF MinimalInv
<1> QED
    BY <1>1, <1>2, <1>3, Invariance, PTL DEF Spec

LEMMA SameVocabulary ==
    /\ Abstract!Edge = Edge
    /\ \A E, st : Abstract!Separated(E, st) = Separated(E, st)
BY DEF Abstract!Edge, Edge, Abstract!Separated, Separated, Abstract!IsCertificate,
       IsCertificate, Abstract!Closed, Closed, Abstract!Succ, Succ

\* run() implements the specification of a min-cut algorithm.
THEOREM Implementation == Spec => ImplementsMinCut
<1>1. Init => Abstract!Init
    BY DEF Init, Abstract!Init
<1>2. ASSUME IInv, IInv', [Next]_vars
      PROVE  [Abstract!Next]_(Abstract!vars)
    <2>1. CASE Finish
        <3>1. pc = "round" /\ pc' = "done" /\ UNCHANGED <<in, G>>
            BY <2>1 DEF Finish, EndOfRound
        <3>2. cut_edges' = in.E \ G /\ cut_edges' \subseteq in.E
            BY <2>1, <1>2 DEF Finish, IInv, TypeOK, GraphExact
        <3>3. \A j \in DOMAIN in.sts : Separated(in.E \ cut_edges', in.sts[j])
            <4>1. STs = 1..Len(in.sts) /\ Len(in.sts) \in Nat
                BY <1>2, Domain DEF IInv, TypeOK
            <4>2. next - 1 = Len(in.sts) /\ ~changed
                BY <1>2, <2>1, <4>1 DEF Finish, EndOfRound, IInv, TypeOK
            <4>3. \A j \in STs : Separated(G, in.sts[j])
                BY <1>2, <3>1, <4>1, <4>2 DEF IInv, UnchangedIsCut
            <4>4. in.E \ cut_edges' = G
                BY <1>2, <3>2 DEF IInv, TypeOK
            <4> QED
                BY <4>3, <4>4 DEF STs
        <3>4. cut_edges' \in SUBSET Edge
            BY <1>2, <3>2 DEF IInv, TypeOK, IsInput
        <3> QED
            BY <3>1, <3>2, <3>3, <3>4, SameVocabulary
            DEF Abstract!Next, Abstract!Cut, Abstract!IsCut
    <2>2. CASE Abort
        BY <2>2 DEF Abort, EndOfRound, Abstract!Next, Abstract!Abort
    <2>3. CASE UNCHANGED <<in, pc, cut_edges>>
        BY <2>3 DEF Abstract!vars
    <2> QED
        BY <1>2, <2>1, <2>2, <2>3
        DEF Next, CutST, Record, Loop, NextRound, Stopped, vars
<1> QED
    BY <1>1, <1>2, Invariance, PTL DEF Spec, ImplementsMinCut, Abstract!Spec

=============================================================================
