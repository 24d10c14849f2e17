------------------------------ MODULE PassesProofs ------------------------------
(****************************************************************************)
(* What the passes of module Passes do for every input: the search for      *)
(* stores that initialise a slot, inlining, and the stacks of functions.    *)
(****************************************************************************)
EXTENDS Passes, WellFoundedInduction, TLAPS

-----------------------------------------------------------------------------
(* Frontier.  x1 is the stage, x2 what is seen, x3 the subgraph, x4 the     *)
(* frontier, x5 the result, x6 the stores that are recorded.                *)

\* Until a store of the frontier, the walk stays on the ways that are in question:
\* what it sees of the subgraph control reaches without a store before, since the
\* predecessors of the subgraph are in it.  The reverse walk of the fallback sees nothing
\* but the entry.
FrontierInv ==
    /\ in \in FrontierInputs
    /\ x1 \in {"must", "may"} /\ pc \in {"preds", "walk", "done", "abort"} /\ x5 \in BOOLEAN
    /\ todo \subseteq FrontierInstr /\ x2 \subseteq FrontierInstr
    /\ x1 = "may" => in.LI \in Initialises!ReachUpTo(in.must \ {in.LI})
    /\ pc = "preds" =>
          /\ x4 = {} /\ x5
          /\ in.LI \in x2 \cup todo
          /\ \A i \in x2 : Initialises!predecessors(i) \subseteq x2 \cup todo
    /\ pc = "walk" =>
          /\ in.LI \in x3
          /\ \A i \in x3 : Initialises!predecessors(i) \subseteq x3
    /\ pc = "walk" /\ x1 = "must" =>
          /\ in.entry \in x2 \cup todo
          /\ \A i \in x2 \cup todo : i \in x3 => i \in Initialises!ReachUpTo(in.must)
          /\ x4 \subseteq in.must \cap x3 \cap x2
          /\ x5 <=> in.LI \notin x2
          /\ \A i \in x2 \ x4 : i # in.LI => Initialises!successors(i) \subseteq x2 \cup todo
    /\ pc = "walk" /\ x1 = "may" =>
          /\ x2 \subseteq {in.entry} /\ x2 \cup todo = {in.entry}
          /\ x4 = x2 \cap (in.may \ {in.LI})
          /\ x5 <=> in.LI \notin x2
    /\ pc = "done" => in.LI \notin Initialises!ReachUpTo(x6) /\ x6 \subseteq in.may
    /\ pc = "done" /\ x1 = "must" =>
          /\ x6 \subseteq in.must
          /\ \A s \in x6 : s \in Initialises!ReachUpTo(in.must)
    /\ pc = "done" /\ x1 = "may" => in.entry \in in.may \ {in.LI}
    /\ pc = "abort" /\ x1 = "may" => in.entry \notin in.may \ {in.LI}

LEMMA FrontierInput ==
    ASSUME in \in FrontierInputs
    PROVE  /\ in.entry \in FrontierInstr /\ in.LI \in FrontierInstr
           /\ in.must \subseteq in.may /\ in.may \subseteq FrontierInstr
           /\ Initialises!predecessors(in.entry) = {}
           /\ \A i : /\ Initialises!successors(i) \subseteq FrontierInstr
                     /\ Initialises!predecessors(i) \subseteq FrontierInstr
<1>1. Initialises!IsInput(in)
    BY InputsAssumption DEF Initialises!InputsAssumption
<1> QED
    BY <1>1 DEF Initialises!IsInput, Initialises!successors, Initialises!predecessors

\* These only depend on the input.
LEMMA FrontierUnchanged ==
    ASSUME in' = in
    PROVE  /\ \A i : Initialises!successors(i)' = Initialises!successors(i)
           /\ \A i : Initialises!predecessors(i)' = Initialises!predecessors(i)
           /\ \A S : Initialises!ReachUpTo(S)' = Initialises!ReachUpTo(S)
BY DEF Initialises!successors, Initialises!predecessors, Initialises!ReachUpTo

\* Control goes on, except from S.
LEMMA ReachUpToClosed ==
    ASSUME in \in FrontierInputs, NEW S
    PROVE  /\ in.entry \in Initialises!ReachUpTo(S)
           /\ \A i \in Initialises!ReachUpTo(S) \ S :
                 Initialises!successors(i) \subseteq Initialises!ReachUpTo(S)
BY FrontierInput DEF Initialises!ReachUpTo

\* What control gets to has the entry among the instructions before it.
LEMMA EntryBefore ==
    ASSUME in \in FrontierInputs, NEW S, NEW i \in Initialises!ReachUpTo(S), NEW P, i \in P,
           \A j \in P : Initialises!predecessors(j) \subseteq P
    PROVE  in.entry \in P
<1> DEFINE R == FrontierInstr \ P
<1> SUFFICES ASSUME in.entry \notin P PROVE FALSE
    OBVIOUS
<1>1. R \in SUBSET FrontierInstr /\ in.entry \in R
    BY FrontierInput
<1>2. ASSUME NEW j \in R PROVE Initialises!successors(j) \subseteq R
    <2>1. \A n \in Initialises!successors(j) : j \in Initialises!predecessors(n)
        BY DEF Initialises!successors, Initialises!predecessors
    <2> QED
        BY <2>1, FrontierInput
<1> HIDE DEF R
<1>3. i \in R
    BY <1>1, <1>2 DEF Initialises!ReachUpTo
<1> QED
    BY <1>3 DEF R

\* Nothing is reached past the entry.
LEMMA EntryStops ==
    ASSUME in \in FrontierInputs, NEW i \in Initialises!ReachUpTo({in.entry})
    PROVE  i = in.entry
<1>1. {in.entry} \in SUBSET FrontierInstr
    BY FrontierInput
<1> QED
    BY <1>1 DEF Initialises!ReachUpTo

LEMMA FrontierInit == ASSUME Initialises!Init PROVE FrontierInv
<1>1. in \in FrontierInputs /\ x1 = "must" /\ pc = "preds" /\ todo = {in.LI} /\ x2 = {} /\ x4 = {} /\ x5 = TRUE
    BY DEF Initialises!Init
<1>2. todo \subseteq FrontierInstr
    BY <1>1, FrontierInput
<1> QED
    BY <1>1, <1>2 DEF FrontierInv

LEMMA FrontierPopPredecessor ==
    ASSUME FrontierInv, NEW i \in FrontierInstr, Initialises!PopPredecessor(i)
    PROVE  FrontierInv'
<1>1. /\ pc = "preds" /\ i \in todo /\ x2' = x2 \cup {i}
      /\ in' = in /\ x1' = x1 /\ pc' = pc /\ x3' = x3 /\ x4' = x4 /\ x5' = x5 /\ x6' = x6
      /\ todo' = IF i \in x2 THEN todo \ {i} ELSE (todo \ {i}) \cup Initialises!predecessors(i)
    BY DEF Initialises!PopPredecessor
<1>2. /\ \A j : Initialises!predecessors(j)' = Initialises!predecessors(j)
      /\ \A S : Initialises!ReachUpTo(S)' = Initialises!ReachUpTo(S)
    BY <1>1, FrontierUnchanged
<1>3. todo' \subseteq FrontierInstr /\ x2' \subseteq FrontierInstr
    BY <1>1, FrontierInput DEF FrontierInv
<1>4. x1' = "may" => in'.LI \in Initialises!ReachUpTo(in.must \ {in.LI})'
    BY <1>1, <1>2 DEF FrontierInv
<1>5. in'.LI \in x2' \cup todo' /\ \A j \in x2' : Initialises!predecessors(j)' \subseteq x2' \cup todo'
    BY <1>1, <1>2 DEF FrontierInv
<1> QED
    BY <1>1, <1>3, <1>4, <1>5 DEF FrontierInv

LEMMA FrontierEndPredecessors ==
    ASSUME FrontierInv, Initialises!EndPredecessors
    PROVE  FrontierInv'
<1>1. /\ pc = "preds" /\ todo = {} /\ x3' = x2 /\ todo' = {in.entry} /\ x2' = {} /\ pc' = "walk"
      /\ in' = in /\ x1' = x1 /\ x4' = x4 /\ x5' = x5 /\ x6' = x6
    BY DEF Initialises!EndPredecessors
<1>2. /\ \A j : Initialises!predecessors(j)' = Initialises!predecessors(j)
      /\ \A S : Initialises!ReachUpTo(S)' = Initialises!ReachUpTo(S)
    BY <1>1, FrontierUnchanged
<1>3. todo' \subseteq FrontierInstr /\ x2' \subseteq FrontierInstr
    BY <1>1, FrontierInput DEF FrontierInv
<1>4. x1' = "may" => in'.LI \in Initialises!ReachUpTo(in.must \ {in.LI})'
    BY <1>1, <1>2 DEF FrontierInv
<1>5. in'.LI \in x3' /\ \A j \in x3' : Initialises!predecessors(j)' \subseteq x3'
    BY <1>1, <1>2 DEF FrontierInv
<1>6. \A j \in x2' \cup todo' : j \in Initialises!ReachUpTo(in.must)'
    BY <1>1, <1>2, ReachUpToClosed DEF FrontierInv
<1>7. todo' = {in'.entry} /\ x4' = {} /\ x5' = TRUE
    BY <1>1 DEF FrontierInv
<1> QED
    BY <1>1, <1>3, <1>4, <1>5, <1>6, <1>7 DEF FrontierInv

\* The walk goes on from i.
LEMMA FrontierNexts ==
    ASSUME FrontierInv, pc = "walk", x1 = "must", NEW i \in todo, i \notin Initialises!In,
           NEW j \in Initialises!successors(i), j \in x3
    PROVE  j \in Initialises!ReachUpTo(in.must)
<1>1. i \in Initialises!predecessors(j)
    BY DEF Initialises!successors, Initialises!predecessors
<1>2. i \in x3 /\ i \notin in.must
    BY <1>1 DEF FrontierInv, Initialises!In
<1>3. i \in Initialises!ReachUpTo(in.must)
    BY <1>2 DEF FrontierInv
<1> QED
    BY <1>2, <1>3, ReachUpToClosed DEF FrontierInv

LEMMA FrontierPop ==
    ASSUME FrontierInv, NEW i \in FrontierInstr, Initialises!Pop(i)
    PROVE  FrontierInv'
<1>1. /\ pc = "walk" /\ i \in todo /\ x2' = x2 \cup {i}
      /\ in' = in /\ x1' = x1 /\ pc' = pc /\ x3' = x3 /\ x6' = x6
    BY DEF Initialises!Pop
<1>2. /\ \A j : Initialises!predecessors(j)' = Initialises!predecessors(j)
      /\ \A j : Initialises!successors(j)' = Initialises!successors(j)
      /\ \A S : Initialises!ReachUpTo(S)' = Initialises!ReachUpTo(S)
    BY <1>1, FrontierUnchanged
<1>3. CASE i \in x2 \/ i = in.LI \/ i \in Initialises!In
    <2>1. todo' = todo \ {i}
        BY <1>3 DEF Initialises!Pop
    <2>2. CASE i \in x2
        <3>1. x4' = x4 /\ x5' = x5
            BY <2>2 DEF Initialises!Pop
        <3> QED
            BY <1>1, <1>2, <2>1, <2>2, <3>1 DEF FrontierInv
    <2>3. CASE i \notin x2 /\ i = in.LI
        <3>1. x4' = x4 /\ x5' = FALSE
            BY <2>3 DEF Initialises!Pop
        <3> QED
            BY <1>1, <1>2, <2>1, <2>3, <3>1 DEF FrontierInv
    <2>4. CASE i \notin x2 /\ i # in.LI
        <3>1. x4' = x4 \cup {i} /\ x5' = x5 /\ i \in Initialises!In
            BY <1>3, <2>4 DEF Initialises!Pop
        <3>2. x1 = "must" => i \in in.must \cap x3
            BY <3>1 DEF Initialises!In
        <3>3. x1 = "may" => i \in in.may \ {in.LI}
            BY <2>4, <3>1 DEF Initialises!In
        <3> QED
            BY <1>1, <1>2, <2>1, <2>4, <3>1, <3>2, <3>3 DEF FrontierInv
    <2> QED
        BY <2>2, <2>3, <2>4
<1>4. CASE i \notin x2 /\ i # in.LI /\ i \notin Initialises!In
    <2>1. todo' = (todo \ {i}) \cup Initialises!nexts(i) /\ x4' = x4 /\ x5' = x5
        BY <1>4 DEF Initialises!Pop
    <2>2. todo' \subseteq FrontierInstr /\ x2' \subseteq FrontierInstr
        BY <1>1, <2>1, FrontierInput DEF FrontierInv, Initialises!nexts
    <2>3. ASSUME x1 = "must" PROVE Initialises!nexts(i) = Initialises!successors(i)
        BY <2>3 DEF Initialises!nexts
    <2>4. ASSUME x1 = "must", NEW j \in x2' \cup todo', j \in x3
          PROVE  j \in Initialises!ReachUpTo(in.must)
        BY <1>1, <1>4, <2>1, <2>3, <2>4, FrontierNexts DEF FrontierInv
    <2>5. ASSUME x1 = "may"
          PROVE  i = in.entry /\ Initialises!nexts(i) = {} /\ i \notin in.may
        <3>1. in.LI \in x3 /\ \A j \in x3 : Initialises!predecessors(j) \subseteq x3
            BY <1>1 DEF FrontierInv
        <3>2. in.entry \in x3
            BY <2>5, <3>1, EntryBefore DEF FrontierInv
        <3>3. i = in.entry
            BY <1>1, <2>5 DEF FrontierInv
        <3>4. Initialises!nexts(i) = {}
            BY <2>5, <3>3, FrontierInput DEF FrontierInv, Initialises!nexts
        <3> QED
            BY <1>4, <2>5, <3>2, <3>3, <3>4 DEF Initialises!In
    <2> QED
        BY <1>1, <1>2, <1>4, <2>1, <2>2, <2>3, <2>4, <2>5 DEF FrontierInv
<1> QED
    BY <1>3, <1>4

LEMMA FrontierRecord == ASSUME FrontierInv, Initialises!Record PROVE FrontierInv'
<1>1. /\ pc = "walk" /\ todo = {} /\ x1 = "must" /\ x5 /\ x6' = x4 /\ pc' = "done"
      /\ in' = in /\ x1' = x1 /\ todo' = todo /\ x2' = x2 /\ x5' = x5
    BY DEF Initialises!Record
<1>2. \A S : Initialises!ReachUpTo(S)' = Initialises!ReachUpTo(S)
    BY <1>1, FrontierUnchanged
<1>3. in.LI \notin Initialises!ReachUpTo(x4)
    <2>1. /\ x2 \in SUBSET FrontierInstr /\ in.entry \in x2 /\ in.LI \notin x2
          /\ \A j \in x2 \ x4 : Initialises!successors(j) \subseteq x2
        BY <1>1 DEF FrontierInv
    <2> QED
        BY <2>1 DEF Initialises!ReachUpTo
<1>4. in'.LI \notin Initialises!ReachUpTo(x6)'
    BY <1>1, <1>3, FrontierUnchanged DEF Initialises!ReachUpTo, Initialises!successors
<1>5. x6' \subseteq in'.must /\ \A s \in x6' : s \in Initialises!ReachUpTo(in.must)'
    BY <1>1, <1>2 DEF FrontierInv
<1>6. x6' \subseteq in'.may
    BY <1>1, FrontierInput DEF FrontierInv
<1> QED
    BY <1>1, <1>4, <1>5, <1>6 DEF FrontierInv

LEMMA FrontierFallback == ASSUME FrontierInv, Initialises!Fallback PROVE FrontierInv'
<1>1. /\ pc = "walk" /\ todo = {} /\ x1 = "must" /\ ~x5
      /\ x1' = "may" /\ pc' = "preds" /\ todo' = {in.LI} /\ x2' = {} /\ x4' = {} /\ x5' = TRUE
      /\ in' = in
    BY DEF Initialises!Fallback
<1>2. in.LI \in Initialises!ReachUpTo(in.must)
    BY <1>1 DEF FrontierInv
<1>3. in.LI \in Initialises!ReachUpTo(in.must \ {in.LI})
    BY <1>2 DEF Initialises!ReachUpTo
<1>4. in'.LI \in Initialises!ReachUpTo(in.must \ {in.LI})'
    BY <1>1, <1>3, FrontierUnchanged
<1>5. todo' \subseteq FrontierInstr
    BY <1>1, FrontierInput DEF FrontierInv
<1> QED
    BY <1>1, <1>4, <1>5 DEF FrontierInv

LEMMA FrontierAbortFallback == ASSUME FrontierInv, Initialises!AbortFallback PROVE FrontierInv'
<1>1. /\ x1 = "may" /\ pc = "walk" /\ todo = {} /\ x4 = {} /\ pc' = "abort"
      /\ in' = in /\ x1' = x1 /\ todo' = todo /\ x2' = x2 /\ x5' = x5
    BY DEF Initialises!AbortFallback
<1>2. in'.LI \in Initialises!ReachUpTo(in.must \ {in.LI})'
    BY <1>1, FrontierUnchanged DEF FrontierInv
<1>3. in.entry \notin in.may \ {in.LI}
    BY <1>1 DEF FrontierInv
<1> QED
    BY <1>1, <1>2, <1>3 DEF FrontierInv

\* The only write that the reverse walk finds is the entry, which is before the load.
LEMMA FrontierRecordFallback == ASSUME FrontierInv, Initialises!RecordFallback PROVE FrontierInv'
<1>1. /\ x1 = "may" /\ pc = "walk" /\ todo = {} /\ x4 # {} /\ pc' = "done"
      /\ in' = in /\ x1' = x1 /\ todo' = todo /\ x2' = x2 /\ x5' = x5
    BY DEF Initialises!RecordFallback
<1>2. in'.LI \in Initialises!ReachUpTo(in.must \ {in.LI})'
    BY <1>1, FrontierUnchanged DEF FrontierInv
<1>3. x4 = {in.entry} /\ in.entry \in in.may \ {in.LI} /\ x5
    BY <1>1 DEF FrontierInv
<1>4. x6' = {in.entry}
    <2>1. in.entry \in FrontierInstr
        BY FrontierInput DEF FrontierInv
    <2>2. x5 /\ \E i \in FrontierInstr : x4 = {i}
        BY <1>3, <2>1
    <2> QED
        BY <1>3, <2>2, Zenon DEF Initialises!RecordFallback
<1>5. in.LI \notin Initialises!ReachUpTo({in.entry})
    BY <1>3, EntryStops DEF FrontierInv
<1>6. in'.LI \notin Initialises!ReachUpTo(x6)'
    BY <1>1, <1>4, <1>5, FrontierUnchanged DEF Initialises!ReachUpTo, Initialises!successors
<1> QED
    BY <1>1, <1>2, <1>3, <1>4, <1>6 DEF FrontierInv

LEMMA FrontierStutter ==
    ASSUME FrontierInv, UNCHANGED <<in, todo, pc, x1, x2, x3, x4, x5, x6>>
    PROVE  FrontierInv'
<1>1. /\ \A j : Initialises!predecessors(j)' = Initialises!predecessors(j)
      /\ \A j : Initialises!successors(j)' = Initialises!successors(j)
    BY FrontierUnchanged
<1>2. /\ Initialises!ReachUpTo(in.must)' = Initialises!ReachUpTo(in.must)
      /\ Initialises!ReachUpTo(in.must \ {in.LI})' = Initialises!ReachUpTo(in.must \ {in.LI})
      /\ Initialises!ReachUpTo(x6)' = Initialises!ReachUpTo(x6)
    BY DEF Initialises!ReachUpTo, Initialises!successors
<1> QED
    BY <1>1, <1>2 DEF FrontierInv

LEMMA FrontierInvariant == Spec => [](pass = "frontier" => FrontierInv)
<1>1. Init => (pass = "frontier" => FrontierInv)
    BY FrontierInit DEF Init
<1>2. ASSUME pass = "frontier" => FrontierInv, [Next]_vars PROVE (pass = "frontier" => FrontierInv)'
    <2>1. pass' = pass
        BY <1>2 DEF Next, vars
    <2>2. ASSUME pass = "frontier", Next PROVE FrontierInv'
        <3>1. Initialises!Next
            BY <2>2 DEF Next
        <3>2. CASE Initialises!Done
            BY <1>2, <2>2, <3>2, FrontierStutter DEF Initialises!Done, Initialises!vars
        <3> QED
            BY <1>2, <2>2, <3>1, <3>2, FrontierPopPredecessor, FrontierPop, FrontierEndPredecessors,
               FrontierRecord, FrontierFallback, FrontierAbortFallback, FrontierRecordFallback DEF Initialises!Next
    <2>3. ASSUME pass = "frontier", UNCHANGED vars PROVE FrontierInv'
        BY <1>2, <2>3, FrontierStutter DEF vars
    <2> QED
        BY <1>2, <2>1, <2>2, <2>3
<1> QED
    BY <1>1, <1>2, PTL DEF Spec

\* StackInitAnalysis, for every control-flow graph and every set of stores: of what it
\* records as the writes that initialise a slot, control meets one before the load
\* whatever way it takes; must-alias stores are recorded whenever there are enough of
\* them, each the first on some way; and the assertion of the fallback holds for exactly
\* the functions that begin with such a write.
THEOREM StoresInitialise == Spec => []InitialisedOnAllPaths
<1>1. FrontierInv => Initialises!InitialisedOnAllPaths
    <2> SUFFICES ASSUME FrontierInv PROVE Initialises!InitialisedOnAllPaths
        OBVIOUS
    <2>1. Initialises!InitialisedByStores
        BY DEF FrontierInv, Initialises!InitialisedByStores
    <2>2. Initialises!FallbackFindsEntry
        BY DEF FrontierInv, Initialises!FallbackFindsEntry
    <2> QED
        BY <2>1, <2>2 DEF Initialises!InitialisedOnAllPaths
<1> QED
    BY <1>1, FrontierInvariant, PTL DEF InitialisedOnAllPaths

-----------------------------------------------------------------------------
(* Induction, for sets of numbers, and recursion.                           *)

LEMMA LeastNatural ==
    ASSUME NEW T \in SUBSET Nat, T # {}
    PROVE  \E x \in T : \A y \in T : x <= y
<1> DEFINE Less == OpToRel(<, Nat)
<1>1. \A x, y \in Nat : y < x => <<y, x>> \in Less
    BY DEF OpToRel
<1>2. IsWellFoundedOn(Less, Nat)
    BY NatLessThanWellFounded
<1> HIDE DEF Less
<1>3. PICK x \in T : \A y \in T : ~(<<y, x>> \in Less)
    BY <1>2, WFMin
<1>4. ASSUME NEW y \in T PROVE x <= y
    <2>1. x \in Nat /\ y \in Nat
        OBVIOUS
    <2>2. ~(y < x)
        BY <1>1, <1>3, <2>1
    <2> QED
        BY <2>1, <2>2
<1> QED
    BY <1>4

LEMMA SetInduction ==
    ASSUME NEW T, 0 \in T, \A m \in Nat : m \in T => m + 1 \in T
    PROVE  \A m \in Nat : m \in T
<1> DEFINE Out == {m \in Nat : m \notin T}
<1> SUFFICES ASSUME Out # {} PROVE FALSE
    OBVIOUS
<1>1. PICK x \in Out : \A y \in Out : x <= y
    BY LeastNatural
<1>2. x # 0 /\ x - 1 \in Nat /\ x - 1 \notin Out
    BY <1>1
<1> QED
    BY <1>2

\* Functions that are defined by recursion over 1..m.
Iterates(to, m, W, base, step) ==
    /\ to \in [0..m -> W]
    /\ to[0] = base
    /\ \A k \in 1..m : to[k] = step[<<k, to[k - 1]>>]

\* The recursive definition has a solution.
LEMMA Recursion ==
    ASSUME NEW W, NEW base \in W, NEW step \in [Nat \X W -> W], NEW m \in Nat
    PROVE  \E to : Iterates(to, m, W, base, step)
<1> USE DEF Iterates
<1> DEFINE Is(to, n) == Iterates(to, n, W, base, step)
           T == {n \in Nat : \E to : Is(to, n)}
<1>1. 0 \in T
    <2> DEFINE to == [k \in 0..0 |-> base]
    <2>1. Is(to, 0)
        OBVIOUS
    <2> QED
        BY <2>1
<1>2. ASSUME NEW n \in Nat, n \in T PROVE n + 1 \in T
    <2>1. PICK g : Is(g, n)
        BY <1>2
    <2> DEFINE to == [k \in 0..(n + 1) |-> IF k <= n THEN g[k] ELSE step[<<n + 1, g[n]>>]]
    <2>2. step[<<n + 1, g[n]>>] \in W
        <3>1. g[n] \in W /\ n + 1 \in Nat
            BY <2>1
        <3> QED
            BY <3>1
    <2>3. to \in [0..(n + 1) -> W] /\ to[0] = base
        BY <2>1, <2>2
    <2>4. ASSUME NEW k \in 1..(n + 1) PROVE to[k] = step[<<k, to[k - 1]>>]
        <3>1. CASE k <= n
            <4>1. k \in 1..n /\ k \in 0..(n + 1) /\ k - 1 \in 0..(n + 1) /\ k - 1 <= n
                BY <3>1
            <4>2. to[k] = g[k] /\ to[k - 1] = g[k - 1]
                BY <3>1, <4>1
            <4> HIDE DEF to
            <4> QED
                BY <2>1, <4>1, <4>2
        <3>2. CASE k = n + 1
            <4>1. k \in 0..(n + 1) /\ ~(k <= n) /\ k - 1 = n /\ n \in 0..(n + 1) /\ n <= n
                BY <3>2
            <4>2. to[k] = step[<<n + 1, g[n]>>] /\ to[k - 1] = g[n]
                BY <4>1
            <4> HIDE DEF to
            <4> QED
                BY <3>2, <4>2
        <3> QED
            BY <3>1, <3>2
    <2> HIDE DEF to
    <2> QED
        BY <2>3, <2>4
<1> HIDE DEF T
<1>3. m \in T
    BY <1>1, <1>2, SetInduction
<1> QED
    BY <1>3 DEF T

-----------------------------------------------------------------------------
(* Inlining.  x1 is body, x2 is F, x3 inline_counts, x4 inlined.            *)

\* Where a search for calls goes from j, and the search in its n-th round.
Onward(b, analysed, j) ==
    {j} \cup (IF Inlines!Stops(b[j], analysed) THEN {} ELSE Inlines!Succ(b, j))

IsSearch(to, N, b, i, analysed) ==
    to = [m \in 0..N |-> IF m = 0 THEN {i}
                          ELSE UNION {Onward(b, analysed, j) : j \in to[m - 1]}]

\* The recursive definition has a solution.
LEMMA SearchExists ==
    ASSUME NEW b, NEW i, NEW analysed, NEW N \in Nat
    PROVE  \E to : IsSearch(to, N, b, i, analysed)
<1> DEFINE T == {m \in Nat : \E to : IsSearch(to, m, b, i, analysed)}
<1>1. 0 \in T
    <2> DEFINE to == [m \in 0..0 |-> {i}]
    <2>1. IsSearch(to, 0, b, i, analysed)
        BY DEF IsSearch
    <2> QED
        BY <2>1
<1>2. ASSUME NEW n \in Nat, n \in T PROVE n + 1 \in T
    <2>1. PICK g : IsSearch(g, n, b, i, analysed)
        BY <1>2
    <2> DEFINE to == [m \in 0..(n + 1) |->
                        IF m <= n THEN g[m] ELSE UNION {Onward(b, analysed, j) : j \in g[n]}]
    <2>2. ASSUME NEW m \in 0..(n + 1)
          PROVE  to[m] = IF m = 0 THEN {i} ELSE UNION {Onward(b, analysed, j) : j \in to[m - 1]}
        <3>1. CASE m = 0
            <4>1. g[0] = {i}
                BY <2>1 DEF IsSearch
            <4> QED
                BY <3>1, <4>1
        <3>2. CASE m # 0 /\ m <= n
            <4>1. m \in 0..n /\ m - 1 \in 0..(n + 1) /\ m - 1 <= n
                BY <3>2
            <4>2. g[m] = UNION {Onward(b, analysed, j) : j \in g[m - 1]}
                BY <2>1, <3>2, <4>1 DEF IsSearch
            <4>3. to[m] = g[m] /\ to[m - 1] = g[m - 1]
                BY <3>2, <4>1
            <4> HIDE DEF to
            <4> QED
                BY <3>2, <4>2, <4>3
        <3>3. CASE m = n + 1
            <4>1. m - 1 = n /\ n \in 0..(n + 1) /\ ~(m <= n) /\ m # 0
                BY <3>3
            <4>2. to[m] = UNION {Onward(b, analysed, j) : j \in g[n]} /\ to[n] = g[n]
                BY <4>1
            <4> HIDE DEF to
            <4> QED
                BY <4>1, <4>2
        <3> QED
            BY <3>1, <3>2, <3>3
    <2>3. to = [m \in 0..(n + 1) |-> to[m]]
        OBVIOUS
    <2> HIDE DEF to
    <2>4. IsSearch(to, n + 1, b, i, analysed)
        BY <2>2, <2>3 DEF IsSearch
    <2> QED
        BY <2>4
<1> HIDE DEF T
<1>3. N \in T
    BY <1>1, <1>2, SetInduction
<1> QED
    BY <1>3 DEF T

LEMMA ReachFromSearch ==
    ASSUME NEW b, NEW i, NEW analysed, Len(b) \in Nat
    PROVE  \E to : IsSearch(to, Len(b), b, i, analysed) /\ Inlines!ReachFrom(b, i, analysed) = to[Len(b)]
<1>1. PICK g : IsSearch(g, Len(b), b, i, analysed)
    BY SearchExists
<1> QED
    BY <1>1 DEF Inlines!ReachFrom, IsSearch, Onward

\* Who stops less and has more successors reaches more.
LEMMA ReachFromMonotone ==
    ASSUME NEW b, NEW c, Len(b) \in Nat, DOMAIN b = 1..Len(b), Len(c) = Len(b), NEW i \in DOMAIN b,
           NEW x, NEW y, \A j \in DOMAIN b : Onward(b, x, j) \subseteq Onward(c, y, j)
    PROVE  Inlines!ReachFrom(b, i, x) \subseteq Inlines!ReachFrom(c, i, y) \cap DOMAIN b
<1>1. PICK f : IsSearch(f, Len(b), b, i, x) /\ Inlines!ReachFrom(b, i, x) = f[Len(b)]
    BY ReachFromSearch
<1>2. PICK g : IsSearch(g, Len(c), c, i, y) /\ Inlines!ReachFrom(c, i, y) = g[Len(c)]
    BY ReachFromSearch
<1> DEFINE T == {m \in Nat : m \in 0..Len(b) => f[m] \subseteq g[m] \cap DOMAIN b}
<1>3. 0 \in T
    BY <1>1, <1>2 DEF IsSearch
<1>4. ASSUME NEW m \in Nat, m \in T PROVE m + 1 \in T
    <2> SUFFICES ASSUME m + 1 \in 0..Len(b) PROVE f[m + 1] \subseteq g[m + 1] \cap DOMAIN b
        OBVIOUS
    <2>1. m \in 0..Len(b) /\ (m + 1) - 1 = m /\ m + 1 # 0
        OBVIOUS
    <2>2. f[m] \subseteq g[m] \cap DOMAIN b
        BY <1>4, <2>1
    <2>3. f[m + 1] = UNION {Onward(b, x, j) : j \in f[m]}
        BY <1>1, <2>1 DEF IsSearch
    <2>4. g[m + 1] = UNION {Onward(c, y, j) : j \in g[m]}
        BY <1>2, <2>1 DEF IsSearch
    <2>5. \A j \in DOMAIN b : Onward(b, x, j) \subseteq DOMAIN b
        BY DEF Onward, Inlines!Succ
    <2> QED
        BY <2>2, <2>3, <2>4, <2>5
<1> HIDE DEF T
<1>5. Len(b) \in T
    BY <1>3, <1>4, SetInduction
<1> QED
    BY <1>1, <1>2, <1>5 DEF T

InlineInv ==
    /\ todo \subseteq Inlines!Function /\ x2 \in {0} \cup todo
    /\ x1 \in [Inlines!Function -> Seq(Inlines!Instruction)]
    /\ x3 \in [Inlines!Function -> Nat] /\ x4 \in Nat
    /\ x4 <= InlineLimit
    /\ x2 # 0 => x4 <= x3[x2]
    /\ Inlines!SecretStoresHandled

LEMMA InlineInput ==
    /\ NumFunctions \in Nat /\ InlineLimit \in Nat
    /\ Inlines!Function \subseteq Nat \ {0}
    /\ \A q \in InlinePrograms : q \in [Inlines!Function -> Seq(Inlines!Instruction)]
BY InputsAssumption DEF Inlines!NumFunctionsAssumption, Inlines!InlineLimitAssumption,
   Inlines!ProgramsAssumption, Inlines!Function

LEMMA InlineInit == ASSUME Inlines!Init PROVE InlineInv
<1>1. /\ todo = Inlines!Function /\ x2 = 0 /\ x4 = 0
      /\ x3 \in [Inlines!Function -> Nat] /\ x1 \in [Inlines!Function -> Seq(Inlines!Instruction)]
    BY InlineInput DEF Inlines!Init
<1>2. Inlines!SecretStoresHandled
    BY <1>1 DEF Inlines!SecretStoresHandled
<1> QED
    BY <1>1, <1>2, InlineInput DEF InlineInv

\* Bodies stay bodies.
LEMMA InlineFunctionType ==
    ASSUME NEW b \in Seq(Inlines!Instruction), NEW c \in Seq(Inlines!Instruction), NEW i \in DOMAIN b
    PROVE  Inlines!InlineFunction(b, i, c) \in Seq(Inlines!Instruction)
<1> DEFINE At(j) == IF j <= i THEN j ELSE j + Len(c) - 1
           Moved(j) == [b[j] EXCEPT !.dist = At(j + @) - At(j)]
<1>1. i \in 1..Len(b) /\ Len(b) \in Nat /\ Len(c) \in Nat /\ DOMAIN c = 1..Len(c)
    OBVIOUS
<1>2. \A j \in Int : At(j) \in Int
    BY <1>1
<1> HIDE DEF At
<1>3. ASSUME NEW j \in 1..Len(b) PROVE Moved(j) \in Inlines!Instruction
    <2>1. b[j] \in Inlines!Instruction
        BY <1>1
    <2>2. b[j].dist \in Int /\ j \in Int
        BY <2>1 DEF Inlines!Instruction
    <2>3. At(j + b[j].dist) \in Int /\ At(j) \in Int
        <3>1. j + b[j].dist \in Int
            BY <2>2
        <3> QED
            BY <1>2, <2>2, <3>1
    <2>4. At(j + b[j].dist) - At(j) \in Int
        BY <2>3
    <2> QED
        BY <2>1, <2>4 DEF Inlines!Instruction
<1> HIDE DEF Moved
<1>4. [k \in 1..(i - 1) |-> Moved(k)] \in Seq(Inlines!Instruction)
    BY <1>1, <1>3
<1>5. [k \in 1..Len(c) |-> Inlines!Copied(c[k])] \in Seq(Inlines!Instruction)
    <2>1. ASSUME NEW k \in 1..Len(c) PROVE Inlines!Copied(c[k]) \in Inlines!Instruction
        <3>1. c[k] \in Inlines!Instruction
            BY <1>1
        <3> QED
            BY <3>1 DEF Inlines!Copied, Inlines!Instruction
    <2> QED
        BY <1>1, <2>1
<1>6. [k \in 1..(Len(b) - i) |-> Moved(i + k)] \in Seq(Inlines!Instruction)
    <2>1. \A k \in 1..(Len(b) - i) : i + k \in 1..Len(b)
        BY <1>1
    <2>2. Len(b) - i \in Nat
        BY <1>1
    <2> QED
        BY <1>3, <2>1, <2>2
<1>7. Inlines!InlineFunction(b, i, c) =
        [k \in 1..(i - 1) |-> Moved(k)] \o [k \in 1..Len(c) |-> Inlines!Copied(c[k])]
            \o [k \in 1..(Len(b) - i) |-> Moved(i + k)]
    BY <1>1 DEF Inlines!InlineFunction, Moved, At
<1> QED
    BY <1>4, <1>5, <1>6, <1>7

\* What SecretStoresHandled says of one function.
BodyHandled(b) ==
    \A i \in DOMAIN b : b[i].kind = "store" /\ b[i].secret =>
        \A j \in Inlines!ReachFrom(b, i, FALSE) : b[j].kind = "call" => b[j].callee = 0 \/ b[j].skip

LEMMA AllHandled ==
    /\ Inlines!SecretStoresHandled <=>
          \A g \in Inlines!Function \ (todo \cup {x2}) : x3[g] < InlineLimit => BodyHandled(x1[g])
    /\ Inlines!SecretStoresHandled' <=>
          \A g \in Inlines!Function \ (todo' \cup {x2'}) : x3'[g] < InlineLimit => BodyHandled(x1'[g])
BY DEF Inlines!SecretStoresHandled, BodyHandled

LEMMA InlineStart ==
    ASSUME InlineInv, NEW f \in Inlines!Function, Inlines!Start(f)
    PROVE  InlineInv'
<1>1. x2 = 0 /\ f \in todo /\ x2' = f /\ x4' = 0 /\ x1' = x1 /\ todo' = todo /\ x3' = x3
    BY DEF Inlines!Start
<1>2. Inlines!SecretStoresHandled'
    <2>1. Inlines!Function \ (todo' \cup {x2'}) \subseteq Inlines!Function \ (todo \cup {x2})
        BY <1>1 DEF Inlines!Function
    <2> QED
        BY <1>1, <2>1, AllHandled DEF InlineInv
<1>3. x3[f] \in Nat /\ x4' = 0 /\ 0 <= x3[f] /\ 0 <= InlineLimit
    BY <1>1, InlineInput DEF InlineInv
<1> QED
    BY <1>1, <1>2, <1>3 DEF InlineInv

\* Only the function that is run on changes.
LEMMA InlineOthers ==
    ASSUME InlineInv, x2 # 0, x2' = x2, todo' = todo,
           \A g \in Inlines!Function \ {x2} : x1'[g] = x1[g] /\ x3'[g] = x3[g]
    PROVE  Inlines!SecretStoresHandled'
BY AllHandled DEF InlineInv

LEMMA InlineInline ==
    ASSUME InlineInv, NEW i, Inlines!Inline(i)
    PROVE  InlineInv'
<1> DEFINE b == x1[x2]
           g == b[i].callee
<1>1. /\ x2 # 0 /\ i \in Inlines!getCallToInline(b) /\ x3[x2] < InlineLimit
      /\ x1' = [x1 EXCEPT ![x2] = Inlines!InlineFunction(b, i, x1[g])]
      /\ x3' = [x3 EXCEPT ![x2] = @ + x3[g] + 1]
      /\ x4' = x4 + 1 /\ todo' = todo /\ x2' = x2
    BY DEF Inlines!Inline, InlineInv
<1>2. x2 \in Inlines!Function /\ b \in Seq(Inlines!Instruction)
    BY <1>1 DEF InlineInv
<1>3. i \in DOMAIN b /\ g # 0
    BY <1>1 DEF Inlines!getCallToInline, Inlines!Calls
<1>4. b[i] \in Inlines!Instruction
    BY <1>2, <1>3
<1>5. g \in Inlines!Function
    BY <1>3, <1>4, InlineInput DEF Inlines!Instruction, Inlines!Function
<1>6. x1' \in [Inlines!Function -> Seq(Inlines!Instruction)]
    <2>1. x1[g] \in Seq(Inlines!Instruction)
        BY <1>5 DEF InlineInv
    <2>2. Inlines!InlineFunction(b, i, x1[g]) \in Seq(Inlines!Instruction)
        BY <1>2, <1>3, <2>1, InlineFunctionType
    <2> QED
        BY <1>1, <2>2 DEF InlineInv
<1>7. x3[x2] \in Nat /\ x3[g] \in Nat
    BY <1>2, <1>5 DEF InlineInv
<1>8. x3' \in [Inlines!Function -> Nat] /\ x3'[x2] = x3[x2] + x3[g] + 1
    <2> HIDE DEF g
    <2> QED
        BY <1>1, <1>2, <1>7 DEF InlineInv
<1>9. x4' \in Nat /\ x4' <= InlineLimit /\ x4' <= x3'[x2]
    <2>1. x4 \in Nat /\ x4 <= x3[x2] /\ InlineLimit \in Nat
        BY <1>1, InlineInput DEF InlineInv
    <2> HIDE DEF g
    <2> QED
        BY <1>1, <1>7, <1>8, <2>1
<1>10. \A h \in Inlines!Function \ {x2} : x1'[h] = x1[h] /\ x3'[h] = x3[h]
    BY <1>1 DEF InlineInv
<1>11. Inlines!SecretStoresHandled'
    BY <1>1, <1>10, InlineOthers
<1> QED
    BY <1>1, <1>6, <1>8, <1>9, <1>11 DEF InlineInv

LEMMA InlineGiveUp ==
    ASSUME InlineInv, NEW i, Inlines!GiveUp(i)
    PROVE  InlineInv'
<1> DEFINE b == x1[x2]
<1>1. /\ x2 # 0 /\ i \in Inlines!getCallToInline(b)
      /\ x1' = [x1 EXCEPT ![x2] = [b EXCEPT ![i].skip = TRUE]]
      /\ todo' = todo /\ x2' = x2 /\ x3' = x3 /\ x4' = x4
    BY DEF Inlines!GiveUp, InlineInv
<1>2. x2 \in Inlines!Function /\ b \in Seq(Inlines!Instruction)
    BY <1>1 DEF InlineInv
<1>3. i \in DOMAIN b
    BY <1>1 DEF Inlines!getCallToInline, Inlines!Calls
<1>4. b[i] \in Inlines!Instruction
    BY <1>2, <1>3
<1>5. [b[i] EXCEPT !.skip = TRUE] \in Inlines!Instruction
    BY <1>4 DEF Inlines!Instruction
<1>6. [b EXCEPT ![i].skip = TRUE] \in Seq(Inlines!Instruction)
    BY <1>2, <1>3, <1>5
<1>7. x1' \in [Inlines!Function -> Seq(Inlines!Instruction)]
    BY <1>1, <1>2, <1>6 DEF InlineInv
<1>8. \A h \in Inlines!Function \ {x2} : x1'[h] = x1[h] /\ x3'[h] = x3[h]
    BY <1>1 DEF InlineInv
<1>9. Inlines!SecretStoresHandled'
    BY <1>1, <1>8, InlineOthers
<1> QED
    BY <1>1, <1>7, <1>9 DEF InlineInv

\* The search as it is made finds what the search with real labels would: analyses
\* that know nothing of inlined instructions err on the safe side.
LEMMA InlineFinish == ASSUME InlineInv, Inlines!Finish PROVE InlineInv'
<1> DEFINE b == x1[x2]
           Unfenced(i) == IF b[i].kind = "fence" THEN [b[i] EXCEPT !.kind = "other"] ELSE b[i]
           c == [i \in DOMAIN b |-> Unfenced(i)]
<1>1. /\ x2 # 0
      /\ Inlines!getCallToInline(b) = {} \/ x3[x2] >= InlineLimit
      /\ x1' = [x1 EXCEPT ![x2] = c]
      /\ todo' = todo \ {x2} /\ x2' = 0 /\ x3' = x3 /\ x4' = x4
    BY DEF Inlines!Finish, InlineInv
<1>2. x2 \in Inlines!Function /\ b \in Seq(Inlines!Instruction)
    BY <1>1 DEF InlineInv
<1>3. ASSUME NEW i \in DOMAIN b
      PROVE  /\ b[i] \in Inlines!Instruction /\ Unfenced(i) \in Inlines!Instruction
             /\ Unfenced(i).kind \in {b[i].kind, "other"}
             /\ Unfenced(i).kind \in {"store", "load", "call", "jump"} => Unfenced(i) = b[i]
             /\ b[i].kind # "fence" => Unfenced(i) = b[i]
    <2>1. b[i] \in Inlines!Instruction
        BY <1>2
    <2>2. CASE b[i].kind = "fence"
        BY <2>1, <2>2 DEF Inlines!Instruction
    <2>3. CASE b[i].kind # "fence"
        BY <2>1, <2>3
    <2> QED
        BY <2>2, <2>3, <2>1
<1> HIDE DEF Unfenced
<1>4. Len(b) \in Nat /\ DOMAIN b = 1..Len(b) /\ DOMAIN c = DOMAIN b /\ Len(c) = Len(b)
    BY <1>2
<1>5. c \in Seq(Inlines!Instruction)
    BY <1>3, <1>4
<1>6. \A i \in DOMAIN b : c[i] = Unfenced(i)
    OBVIOUS
<1> HIDE DEF c
<1>7. ASSUME NEW j \in DOMAIN c PROVE Onward(c, FALSE, j) \subseteq Onward(b, TRUE, j)
    <2>1. j \in DOMAIN b /\ c[j] = Unfenced(j)
        BY <1>4, <1>6
    <2>2. Inlines!Succ(c, j) = Inlines!Succ(b, j)
        BY <1>3, <1>4, <2>1 DEF Inlines!Succ
    <2>3. Inlines!Stops(b[j], TRUE) => Inlines!Stops(c[j], FALSE)
        BY <1>3, <2>1 DEF Inlines!Stops, Inlines!LooksPublicLeak
    <2> QED
        BY <2>2, <2>3 DEF Onward
<1>8. ASSUME x3[x2] < InlineLimit, NEW i \in DOMAIN c, c[i].kind = "store", c[i].secret,
             NEW j \in Inlines!ReachFrom(c, i, FALSE), c[j].kind = "call"
      PROVE  c[j].callee = 0 \/ c[j].skip
    <2>1. j \in Inlines!ReachFrom(b, i, TRUE) /\ j \in DOMAIN b
        BY <1>4, <1>7, <1>8, ReachFromMonotone
    <2>2. b[i] = c[i] /\ b[j] = c[j]
        BY <1>3, <1>4, <1>6, <1>8, <2>1
    <2>3. i \in {k \in DOMAIN b : Inlines!LooksSecret(b[k])}
        BY <1>4, <1>8, <2>2 DEF Inlines!LooksSecret
    <2>4. j \in Inlines!Calls(b)
        BY <1>8, <2>1, <2>2 DEF Inlines!Calls
    <2>5. Inlines!getCallToInline(b) = {}
        <3>1. x3[x2] \in Nat /\ InlineLimit \in Nat
            BY <1>2, InlineInput DEF InlineInv
        <3> QED
            BY <1>1, <1>8, <3>1
    <2>6. j \notin Inlines!getCallToInline(b)
        BY <2>5
    <2> QED
        BY <2>1, <2>2, <2>3, <2>4, <2>6 DEF Inlines!getCallToInline
<1>9. x1' \in [Inlines!Function -> Seq(Inlines!Instruction)] /\ x1'[x2] = c
      /\ \A h \in Inlines!Function \ {x2} : x1'[h] = x1[h]
    BY <1>1, <1>2, <1>5 DEF InlineInv
<1>10. Inlines!SecretStoresHandled'
    <2> SUFFICES ASSUME NEW f \in Inlines!Function, f \notin todo \ {x2}, x3[f] < InlineLimit,
                        NEW i \in DOMAIN x1'[f], x1'[f][i].kind = "store", x1'[f][i].secret,
                        NEW j \in Inlines!ReachFrom(x1'[f], i, FALSE), x1'[f][j].kind = "call"
                 PROVE  x1'[f][j].callee = 0 \/ x1'[f][j].skip
        BY <1>1 DEF Inlines!SecretStoresHandled
    <2>1. CASE f = x2
        BY <1>8, <1>9, <2>1
    <2>2. CASE f # x2
        <3>1. x1'[f] = x1[f] /\ f \notin todo \cup {x2}
            BY <1>9, <2>2
        <3> QED
            BY <3>1 DEF InlineInv, Inlines!SecretStoresHandled
    <2> QED
        BY <2>1, <2>2
<1> QED
    BY <1>1, <1>9, <1>10 DEF InlineInv

LEMMA InlineStutter == ASSUME InlineInv, UNCHANGED <<todo, x1, x2, x3, x4>> PROVE InlineInv'
<1>1. Inlines!SecretStoresHandled'
    BY AllHandled DEF InlineInv
<1> QED
    BY <1>1 DEF InlineInv

LEMMA InlineInvariant == Spec => [](pass = "inline" => InlineInv)
<1>1. Init => (pass = "inline" => InlineInv)
    BY InlineInit DEF Init
<1>2. ASSUME pass = "inline" => InlineInv, [Next]_vars PROVE (pass = "inline" => InlineInv)'
    <2>1. pass' = pass
        BY <1>2 DEF Next, vars
    <2>2. ASSUME pass = "inline", Next PROVE InlineInv'
        <3>1. Inlines!Next
            BY <2>2 DEF Next
        <3>2. CASE Inlines!Done
            BY <1>2, <2>2, <3>2, InlineStutter DEF Inlines!Done, Inlines!vars
        <3> QED
            BY <1>2, <2>2, <3>1, <3>2, InlineStart, InlineInline, InlineGiveUp, InlineFinish
            DEF Inlines!Next
    <2>3. ASSUME pass = "inline", UNCHANGED vars PROVE InlineInv'
        BY <1>2, <2>3, InlineStutter DEF vars
    <2> QED
        BY <1>2, <2>1, <2>2, <2>3
<1> QED
    BY <1>1, <1>2, PTL DEF Spec

\* InlinePass, for every module, recursive ones included, and every limit: no more
\* calls than the limit are inlined into a function.
THEOREM InliningIsBounded == Spec => []InlineBounded
<1>1. InlineInv => Inlines!InlineBounded
    BY DEF InlineInv, Inlines!InlineBounded
<1> QED
    BY <1>1, InlineInvariant, PTL DEF InlineBounded

\* InlinePass, for every module and every limit: although the analyses are not run
\* again after an inlining, no secret store of a function that was run on and has
\* not met the limit reaches a call that could have been inlined.
THEOREM InliningHandlesSecretStores == Spec => []SecretStoresHandled
<1>1. InlineInv => Inlines!SecretStoresHandled
    BY DEF InlineInv
<1> QED
    BY <1>1, InlineInvariant, PTL DEF SecretStoresHandled

-----------------------------------------------------------------------------
(* FunctionStacks.  in is the program, x1 is sp, x2 is live, x3 unwound.    *)

\* A function of which the pass saves and restores the stack pointer.
Restores(f) == f \in Stacks!Function \ in.decl /\ Stacks!shouldRestoreOldSP(f)

Activation == [f : Stacks!Function, rsp : Int, OldSP : Int]

StackType ==
    /\ in \in StackPrograms /\ \A f \in in.norecurse : f \notin Stacks!CallsFrom(in, f)
    /\ x1 \in [Stacks!Function -> Int] /\ x2 \in Seq(Activation) /\ x3 \in BOOLEAN

\* Each activation has been called, at once or in the end, from those before.
CallsInv ==
    \A j \in DOMAIN x2 : \A i \in 1..(j - 1) : x2[j].f \in Stacks!CallsFrom(in, x2[i].f)

\* Of one function, each frame is below the frames of the activations before, and
\* what will be restored is not below them either.
FramesInv ==
    \A f \in Stacks!Function : Restores(f) =>
        /\ x1[f] <= StackSize
        /\ \A j \in DOMAIN x2 : x2[j].f = f =>
              /\ x2[j].rsp = x2[j].OldSP - 1 /\ x2[j].OldSP <= StackSize
              /\ x1[f] <= x2[j].rsp
              /\ \A i \in 1..(j - 1) : x2[i].f = f => x2[j].OldSP <= x2[i].rsp

\* v is where the newest frame of f among the first k activations of s is.
Newest(s, f, k, v) ==
    \/ v = StackSize /\ \A i \in 1..k : s[i].f # f
    \/ \E i \in 1..k : s[i].f = f /\ v = s[i].rsp /\ \A m \in (i + 1)..k : s[m].f # f

\* Without unwinding, what will be restored is the frame before.
ExactInv ==
    ~x3 => \A f \in Stacks!Function : Restores(f) =>
        /\ Newest(x2, f, Len(x2), x1[f])
        /\ \A j \in DOMAIN x2 : x2[j].f = f => Newest(x2, f, j - 1, x2[j].OldSP)

StackInv == StackType /\ CallsInv /\ FramesInv /\ ExactInv

LEMMA StackInput ==
    /\ StackSize \in Nat /\ MaxDepth \in Nat /\ NumFunctions \in Nat
    /\ Stacks!Function \subseteq Nat \ {0}
    /\ \A p \in StackPrograms : Stacks!IsProgram(p)
BY InputsAssumption DEF Stacks!ConstantsAssumption, Stacks!ProgramsAssumption, Stacks!Function

\* These only depend on the program.
LEMMA StackUnchanged ==
    ASSUME in' = in
    PROVE  /\ \A f : Stacks!doesNotRecurse(f)' = Stacks!doesNotRecurse(f)
           /\ \A f : Restores(f)' = Restores(f)
           /\ \A f : Stacks!shouldSaveNewSP(f)' = Stacks!shouldSaveNewSP(f)
<1> USE DEF Stacks!doesNotRecurse, Stacks!Sites, Stacks!Callee
<1>1. \A f : Stacks!doesNotRecurse(f)' = Stacks!doesNotRecurse(f)
    OBVIOUS
<1> QED
    BY <1>1 DEF Restores, Stacks!shouldRestoreOldSP, Stacks!shouldSaveNewSP

LEMMA CalleesType ==
    ASSUME in \in StackPrograms, NEW f \in Stacks!Function
    PROVE  Stacks!Callees(in, f) \subseteq Stacks!Function
<1>1. in.calls[f] \in Seq({Stacks!Indirect} \cup Stacks!Function)
    BY StackInput DEF Stacks!IsProgram
<1> QED
    BY <1>1 DEF Stacks!Callees

LEMMA CallsFromClosed ==
    ASSUME in \in StackPrograms, NEW f \in Stacks!Function
    PROVE  /\ Stacks!CallsFrom(in, f) \subseteq Stacks!Function
           /\ Stacks!Callees(in, f) \subseteq Stacks!CallsFrom(in, f)
           /\ \A g \in Stacks!CallsFrom(in, f) :
                 /\ Stacks!Callees(in, g) \subseteq Stacks!CallsFrom(in, f)
                 /\ Stacks!CallsFrom(in, g) \subseteq Stacks!CallsFrom(in, f)
<1>1. Stacks!CallsFrom(in, f) \subseteq Stacks!Function
    BY DEF Stacks!CallsFrom
<1>2. Stacks!Callees(in, f) \subseteq Stacks!CallsFrom(in, f)
    BY CalleesType DEF Stacks!CallsFrom
<1>3. ASSUME NEW g \in Stacks!CallsFrom(in, f)
      PROVE  Stacks!Callees(in, g) \subseteq Stacks!CallsFrom(in, f)
    BY <1>1, CalleesType DEF Stacks!CallsFrom
<1>4. ASSUME NEW g \in Stacks!CallsFrom(in, f)
      PROVE  Stacks!CallsFrom(in, g) \subseteq Stacks!CallsFrom(in, f)
    <2> DEFINE R == Stacks!CallsFrom(in, f)
    <2>1. R \in SUBSET Stacks!Function /\ Stacks!Callees(in, g) \subseteq R
          /\ \A h \in R : Stacks!Callees(in, h) \subseteq R
        BY <1>1, <1>3
    <2> HIDE DEF R
    <2>2. Stacks!CallsFrom(in, g) \subseteq R
        BY <2>1 DEF Stacks!CallsFrom
    <2> QED
        BY <2>2 DEF R
<1> QED
    BY <1>1, <1>2, <1>3, <1>4

\* util::doesNotRecurse is right: it sees all that may be called, except for what
\* functions may call that are known not to recurse, and these would be called
\* again from there before f is.
LEMMA DoesNotRecurse ==
    ASSUME in \in StackPrograms, \A g \in in.norecurse : g \notin Stacks!CallsFrom(in, g),
           NEW f \in Stacks!Function, Stacks!doesNotRecurse(f)
    PROVE  f \notin Stacks!CallsFrom(in, f)
<1> SUFFICES ASSUME f \notin in.norecurse, f \in Stacks!CallsFrom(in, f) PROVE FALSE
    OBVIOUS
<1> DEFINE From(g) == Stacks!CallsFrom(in, g)
<1>1. PICK seen \in SUBSET Stacks!Function :
        /\ f \in seen /\ seen \cap in.decl \subseteq in.norecurse
        /\ \A c \in Stacks!Sites(seen) : Stacks!Callee(c) \in seen \ {f}
    BY DEF Stacks!doesNotRecurse
<1>2. ASSUME NEW g \in seen \ in.norecurse
      PROVE  Stacks!Callees(in, g) \subseteq seen \ {f}
    <2>1. \A i \in DOMAIN in.calls[g] : in.calls[g][i] \in seen \ {f}
        <3> TAKE i \in DOMAIN in.calls[g]
        <3>1. <<g, i>> \in Stacks!Sites(seen)
            BY DEF Stacks!Sites
        <3>2. Stacks!Callee(<<g, i>>) = in.calls[g][i]
            BY DEF Stacks!Callee
        <3> QED
            BY <1>1, <3>1, <3>2
    <2>2. g \notin in.decl
        BY <1>1
    <2>3. \A i \in DOMAIN in.calls[g] : in.calls[g][i] # Stacks!Indirect
        BY <2>1, StackInput DEF Stacks!Indirect
    <2> QED
        BY <2>1, <2>2, <2>3 DEF Stacks!Callees
<1> DEFINE Ends == seen \cap in.norecurse \cap From(f)
           Q == ((seen \ {f}) \cap From(f)) \cup UNION {From(g) : g \in Ends}
<1>3. Q \in SUBSET Stacks!Function
    BY CallsFromClosed
<1>4. Stacks!Callees(in, f) \subseteq Q
    BY <1>1, <1>2, CallsFromClosed
<1>5. ASSUME NEW h \in Q PROVE Stacks!Callees(in, h) \subseteq Q
    <2>1. CASE h \in (seen \ {f}) \cap From(f) /\ h \notin in.norecurse
        <3>1. Stacks!Callees(in, h) \subseteq seen \ {f}
            BY <1>2, <2>1
        <3>2. Stacks!Callees(in, h) \subseteq From(f)
            BY <2>1, CallsFromClosed
        <3> QED
            BY <3>1, <3>2
    <2>2. CASE h \in Ends
        <3>1. Stacks!Callees(in, h) \subseteq From(h)
            BY <2>2, CallsFromClosed
        <3> QED
            BY <2>2, <3>1
    <2>3. CASE h \in UNION {From(g) : g \in Ends}
        <3>1. PICK g \in Ends : h \in From(g)
            BY <2>3
        <3>2. Stacks!Callees(in, h) \subseteq From(g)
            BY <3>1, CallsFromClosed
        <3> QED
            BY <3>2
    <2> QED
        BY <2>1, <2>2, <2>3
<1>6. f \in Q
    <2> HIDE DEF Q
    <2> QED
        BY <1>3, <1>4, <1>5 DEF Stacks!CallsFrom
<1>7. PICK g \in Ends : f \in From(g)
    BY <1>6
<1>8. g \in From(f) /\ g \in Stacks!Function /\ g \in in.norecurse
    OBVIOUS
<1>9. From(f) \subseteq From(g)
    BY <1>7, <1>8, CallsFromClosed
<1> QED
    BY <1>8, <1>9

\* A function without calls is taken not to recurse.
LEMMA RestoresSaves ==
    ASSUME in \in StackPrograms, NEW f, Restores(f)
    PROVE  Stacks!Instrumented(f) /\ Stacks!shouldSaveNewSP(f)
<1>1. f \in Stacks!Function /\ f \notin in.decl /\ ~Stacks!doesNotRecurse(f)
    BY DEF Restores, Stacks!shouldRestoreOldSP
<1>2. ASSUME in.calls[f] = <<>> PROVE FALSE
    <2>1. Stacks!Sites({f}) = {}
        BY <1>2 DEF Stacks!Sites
    <2>2. {f} \in SUBSET Stacks!Function
        BY <1>1
    <2>3. Stacks!doesNotRecurse(f)
        BY <1>1, <2>1, <2>2 DEF Stacks!doesNotRecurse
    <2> QED
        BY <1>1, <2>3
<1> QED
    BY <1>1, <1>2 DEF Stacks!Instrumented, Stacks!shouldSaveNewSP

LEMMA NewestSame ==
    ASSUME NEW s, NEW t, NEW n \in Nat, \A i \in 1..n : t[i] = s[i],
           NEW f, NEW v, NEW k \in 0..n, Newest(s, f, k, v)
    PROVE  Newest(t, f, k, v)
<1>1. \A i \in 1..k : t[i] = s[i]
    OBVIOUS
<1>2. CASE v = StackSize /\ \A i \in 1..k : s[i].f # f
    BY <1>1, <1>2 DEF Newest
<1>3. CASE \E i \in 1..k : s[i].f = f /\ v = s[i].rsp /\ \A m \in (i + 1)..k : s[m].f # f
    <2>1. PICK i \in 1..k : s[i].f = f /\ v = s[i].rsp /\ \A m \in (i + 1)..k : s[m].f # f
        BY <1>3
    <2>2. t[i].f = f /\ v = t[i].rsp /\ \A m \in (i + 1)..k : t[m].f # f
        BY <1>1, <2>1
    <2> QED
        BY <2>2 DEF Newest
<1> QED
    BY <1>2, <1>3 DEF Newest

\* Activations of other functions do not matter.
LEMMA NewestOther ==
    ASSUME NEW s, NEW f, NEW v, NEW k \in Nat, s[k + 1].f # f
    PROVE  Newest(s, f, k, v) <=> Newest(s, f, k + 1, v)
<1>1. 1..(k + 1) = 1..k \cup {k + 1} /\ \A i \in 1..k : (i + 1)..(k + 1) = (i + 1)..k \cup {k + 1}
    OBVIOUS
<1>2. ASSUME NEW i \in 1..k
      PROVE  (\A m \in (i + 1)..k : s[m].f # f) <=> (\A m \in (i + 1)..(k + 1) : s[m].f # f)
    BY <1>1
<1> QED
    BY <1>1, <1>2 DEF Newest

LEMMA StackInit == ASSUME Stacks!Init PROVE StackInv
<1>1. StackType
    <2>1. x1 \in [Stacks!Function -> Int]
        BY StackInput DEF Stacks!Init
    <2>2. x2 \in Seq(Activation)
        <3>1. << >> \in Seq(Activation)
            OBVIOUS
        <3> QED
            BY <3>1 DEF Stacks!Init
    <2>3. x3 \in BOOLEAN
        BY DEF Stacks!Init
    <2>4. in \in StackPrograms /\ \A f \in in.norecurse : f \notin Stacks!CallsFrom(in, f)
        BY DEF Stacks!Init
    <2> QED
        BY <2>1, <2>2, <2>3, <2>4 DEF StackType
<1>2. CallsInv /\ FramesInv
    BY StackInput DEF Stacks!Init, CallsInv, FramesInv
<1>3. ExactInv
    BY StackInput DEF Stacks!Init, ExactInv, Newest
<1> QED
    BY <1>1, <1>2, <1>3 DEF StackInv

LEMMA StackEnter ==
    ASSUME StackInv, NEW g \in Stacks!Function, Stacks!Enter(g)
    PROVE  StackInv'
<1> DEFINE n == Len(x2)
           a == [f |-> g, rsp |-> Stacks!Start(g) - 1, OldSP |-> x1[g]]
<1> USE StackInput
<1>1. /\ x2 # <<>> => g \in Stacks!Callees(in, x2[n].f)
      /\ x2' = Append(x2, a)
      /\ x1' = IF Stacks!Instrumented(g) /\ Stacks!shouldSaveNewSP(g)
                 THEN [x1 EXCEPT ![g] = Stacks!Start(g) - 1] ELSE x1
      /\ in' = in /\ x3' = x3
    BY DEF Stacks!Enter, Stacks!Last
<1>2. /\ in \in StackPrograms /\ \A f \in in.norecurse : f \notin Stacks!CallsFrom(in, f)
      /\ x1 \in [Stacks!Function -> Int] /\ x2 \in Seq(Activation) /\ x3 \in BOOLEAN
    BY DEF StackInv, StackType
<1>3. Stacks!Start(g) \in Int /\ (Restores(g) => Stacks!Start(g) = x1[g])
    BY <1>2 DEF Stacks!Start, Restores
<1>4. a \in Activation
    BY <1>2, <1>3 DEF Activation
<1> HIDE DEF a
<1>5. /\ n \in Nat /\ Len(x2') = n + 1 /\ DOMAIN x2 = 1..n /\ DOMAIN x2' = 1..(n + 1)
      /\ x2' \in Seq(Activation)
      /\ x2'[n + 1] = a /\ \A i \in 1..n : x2'[i] = x2[i] /\ x2[i] \in Activation
    BY <1>1, <1>2, <1>4
<1>6. a.f = g /\ a.rsp = Stacks!Start(g) - 1 /\ a.OldSP = x1[g]
    BY DEF a
<1>7. x1' \in [Stacks!Function -> Int] /\ \A f \in Stacks!Function : f # g => x1'[f] = x1[f]
    BY <1>1, <1>2, <1>3
<1>8. ASSUME Restores(g) PROVE x1'[g] = x1[g] - 1
    BY <1>1, <1>2, <1>3, <1>8, RestoresSaves
<1>9. \A f : Restores(f)' = Restores(f)
    BY <1>1, StackUnchanged
<1> HIDE DEF n
<1>10. StackType'
    BY <1>1, <1>2, <1>5, <1>7 DEF StackType
<1>11. CallsInv'
    <2>1. ASSUME NEW i \in 1..n PROVE g \in Stacks!CallsFrom(in, x2[i].f)
        <3>1. n \in 1..n /\ x2 # <<>>
            BY <1>5
        <3>2. x2[i].f \in Stacks!Function /\ x2[n].f \in Stacks!Function
            BY <1>5, <3>1 DEF Activation
        <3>3. g \in Stacks!Callees(in, x2[n].f)
            BY <1>1, <3>1
        <3>4. CASE i = n
            BY <1>2, <3>2, <3>3, <3>4, CallsFromClosed
        <3>5. CASE i # n
            <4>1. i \in 1..(n - 1) /\ n \in DOMAIN x2
                BY <1>5, <3>1, <3>5
            <4>2. x2[n].f \in Stacks!CallsFrom(in, x2[i].f)
                BY <4>1 DEF StackInv, CallsInv
            <4> QED
                BY <1>2, <3>2, <3>3, <4>2, CallsFromClosed
        <3> QED
            BY <3>4, <3>5
    <2>2. ASSUME NEW j \in 1..(n + 1), NEW i \in 1..(j - 1)
          PROVE  x2'[j].f \in Stacks!CallsFrom(in, x2'[i].f)
        <3>1. CASE j = n + 1
            <4>1. i \in 1..n /\ x2'[i] = x2[i]
                BY <1>5, <3>1
            <4> QED
                BY <1>5, <1>6, <2>1, <3>1, <4>1
        <3>2. CASE j # n + 1
            <4>1. j \in DOMAIN x2 /\ i \in 1..n /\ x2'[j] = x2[j] /\ x2'[i] = x2[i]
                BY <1>5, <3>2
            <4> QED
                BY <4>1 DEF StackInv, CallsInv
        <3> QED
            BY <3>1, <3>2
    <2> QED
        BY <1>1, <1>5, <2>2 DEF CallsInv
<1>12. FramesInv'
    <2> SUFFICES ASSUME NEW f \in Stacks!Function, Restores(f)
                 PROVE  /\ x1'[f] <= StackSize
                        /\ \A j \in 1..(n + 1) : x2'[j].f = f =>
                              /\ x2'[j].rsp = x2'[j].OldSP - 1 /\ x2'[j].OldSP <= StackSize
                              /\ x1'[f] <= x2'[j].rsp
                              /\ \A i \in 1..(j - 1) : x2'[i].f = f => x2'[j].OldSP <= x2'[i].rsp
        BY <1>5, <1>9 DEF FramesInv
    <2>1. /\ x1[f] \in Int /\ x1'[f] \in Int
          /\ \A j \in 1..n : x2[j].rsp \in Int /\ x2[j].OldSP \in Int
        BY <1>2, <1>5, <1>7 DEF Activation
    <2>2. /\ x1[f] <= StackSize
          /\ \A j \in 1..n : x2[j].f = f =>
                /\ x2[j].rsp = x2[j].OldSP - 1 /\ x2[j].OldSP <= StackSize
                /\ x1[f] <= x2[j].rsp
                /\ \A i \in 1..(j - 1) : x2[i].f = f => x2[j].OldSP <= x2[i].rsp
        BY <1>5 DEF StackInv, FramesInv
    <2>3. x1'[f] = IF f = g THEN x1[f] - 1 ELSE x1[f]
        BY <1>7, <1>8
    <2>4. ASSUME NEW j \in 1..(n + 1), x2'[j].f = f
          PROVE  /\ x2'[j].rsp = x2'[j].OldSP - 1 /\ x2'[j].OldSP <= StackSize
                 /\ x1'[f] <= x2'[j].rsp
                 /\ \A i \in 1..(j - 1) : x2'[i].f = f => x2'[j].OldSP <= x2'[i].rsp
        <3>1. CASE j = n + 1
            <4>1. f = g /\ x2'[j].rsp = x1[f] - 1 /\ x2'[j].OldSP = x1[f]
                BY <1>3, <1>5, <1>6, <2>4, <3>1
            <4>2. ASSUME NEW i \in 1..(j - 1), x2'[i].f = f PROVE x1[f] <= x2'[i].rsp
                <5>1. i \in 1..n /\ x2'[i] = x2[i]
                    BY <1>5, <3>1
                <5> QED
                    BY <2>2, <4>2, <5>1
            <4> QED
                BY <2>1, <2>2, <2>3, <4>1, <4>2
        <3>2. CASE j # n + 1
            <4>1. j \in 1..n /\ x2'[j] = x2[j] /\ \A i \in 1..(j - 1) : i \in 1..n /\ x2'[i] = x2[i]
                BY <1>5, <3>2
            <4>2. x1'[f] <= x1[f]
                BY <2>1, <2>3
            <4> QED
                BY <2>1, <2>2, <2>4, <4>1, <4>2
        <3> QED
            BY <3>1, <3>2
    <2>5. x1'[f] <= StackSize
        BY <2>1, <2>2, <2>3
    <2> QED
        BY <2>4, <2>5
<1>13. ExactInv'
    <2> SUFFICES ASSUME ~x3, NEW f \in Stacks!Function, Restores(f)
                 PROVE  /\ Newest(x2', f, n + 1, x1'[f])
                        /\ \A j \in 1..(n + 1) : x2'[j].f = f => Newest(x2', f, j - 1, x2'[j].OldSP)
        BY <1>1, <1>5, <1>9 DEF ExactInv
    <2>1. /\ Newest(x2, f, n, x1[f])
          /\ \A j \in 1..n : x2[j].f = f => Newest(x2, f, j - 1, x2[j].OldSP)
        BY <1>5 DEF StackInv, ExactInv, n
    <2>2. Newest(x2', f, n, x1[f])
        <3>1. n \in 0..n
            BY <1>5
        <3> QED
            BY <1>5, <2>1, <3>1, NewestSame
    <2>3. Newest(x2', f, n + 1, x1'[f])
        <3>1. CASE f = g
            <4>1. n + 1 \in 1..(n + 1) /\ ((n + 1) + 1)..(n + 1) = {}
                BY <1>5
            <4>2. x2'[n + 1].f = f /\ x1'[f] = x2'[n + 1].rsp
                BY <1>3, <1>5, <1>6, <1>8, <3>1
            <4>3. \A m \in ((n + 1) + 1)..(n + 1) : x2'[m].f # f
                BY <4>1
            <4> QED
                BY <4>1, <4>2, <4>3 DEF Newest
        <3>2. CASE f # g
            <4>1. x2'[n + 1].f # f /\ x1'[f] = x1[f]
                BY <1>5, <1>6, <1>7, <3>2
            <4> QED
                BY <1>5, <2>2, <4>1, NewestOther
        <3> QED
            BY <3>1, <3>2
    <2>4. ASSUME NEW j \in 1..(n + 1), x2'[j].f = f
          PROVE  Newest(x2', f, j - 1, x2'[j].OldSP)
        <3>1. CASE j = n + 1
            <4>1. j - 1 = n /\ f = g /\ x2'[j].OldSP = x1[f]
                BY <1>5, <1>6, <2>4, <3>1
            <4> QED
                BY <2>2, <4>1
        <3>2. CASE j # n + 1
            <4>1. j \in 1..n /\ x2'[j] = x2[j] /\ j - 1 \in 0..n
                BY <1>5, <3>2
            <4>2. Newest(x2, f, j - 1, x2[j].OldSP)
                BY <2>1, <2>4, <4>1
            <4> QED
                BY <1>5, <4>1, <4>2, NewestSame
        <3> QED
            BY <3>1, <3>2
    <2> QED
        BY <2>3, <2>4
<1> QED
    BY <1>10, <1>11, <1>12, <1>13 DEF StackInv

\* What remains when the activations after the first k are gone.
LEMMA StackPrefix ==
    ASSUME StackInv, NEW k \in 0..Len(x2), x2' = SubSeq(x2, 1, k), in' = in
    PROVE  /\ k \in Nat /\ DOMAIN x2 = 1..Len(x2)
           /\ x2' \in Seq(Activation) /\ Len(x2') = k /\ DOMAIN x2' = 1..k
           /\ \A i \in 1..k : i \in 1..Len(x2) /\ x2'[i] = x2[i] /\ x2[i] \in Activation
           /\ \A f : Restores(f)' = Restores(f)
           /\ CallsInv'
<1>1. x2 \in Seq(Activation)
    BY DEF StackInv, StackType
<1>2. /\ k \in Nat /\ DOMAIN x2 = 1..Len(x2)
      /\ x2' \in Seq(Activation) /\ Len(x2') = k /\ DOMAIN x2' = 1..k
      /\ \A i \in 1..k : i \in 1..Len(x2) /\ x2'[i] = x2[i] /\ x2[i] \in Activation
    BY <1>1
<1>3. \A f : Restores(f)' = Restores(f)
    BY StackUnchanged
<1>4. CallsInv'
    <2>1. ASSUME NEW j \in 1..k, NEW i \in 1..(j - 1)
          PROVE  x2'[j].f \in Stacks!CallsFrom(in, x2'[i].f)
        <3>1. j \in DOMAIN x2 /\ i \in 1..k /\ x2'[j] = x2[j] /\ x2'[i] = x2[i]
            BY <1>2
        <3> QED
            BY <3>1 DEF StackInv, CallsInv
    <2> QED
        BY <1>2, <2>1 DEF CallsInv
<1> QED
    BY <1>2, <1>3, <1>4

LEMMA StackReturn == ASSUME StackInv, Stacks!Return PROVE StackInv'
<1> DEFINE n == Len(x2)
           a == x2[n]
<1> USE StackInput
<1>1. /\ in \in StackPrograms /\ \A f \in in.norecurse : f \notin Stacks!CallsFrom(in, f)
      /\ x1 \in [Stacks!Function -> Int] /\ x2 \in Seq(Activation) /\ x3 \in BOOLEAN
    BY DEF StackInv, StackType
<1>2. /\ x2 # <<>> /\ x2' = SubSeq(x2, 1, n - 1) /\ in' = in /\ x3' = x3
      /\ x1' = IF Stacks!Instrumented(a.f) /\ Stacks!shouldRestoreOldSP(a.f)
                 THEN [x1 EXCEPT ![a.f] = Stacks!Smaller(StackSize, a.OldSP)] ELSE x1
    BY DEF Stacks!Return, Stacks!Last, Stacks!Front
<1>3. n \in Nat \ {0} /\ n \in 1..n /\ a \in Activation
    BY <1>1, <1>2
<1>4. n - 1 \in 0..Len(x2)
    BY <1>3
<1>5. /\ n - 1 \in Nat /\ DOMAIN x2 = 1..n
      /\ x2' \in Seq(Activation) /\ Len(x2') = n - 1 /\ DOMAIN x2' = 1..(n - 1)
      /\ \A i \in 1..(n - 1) : i \in 1..n /\ x2'[i] = x2[i] /\ x2[i] \in Activation
      /\ \A f : Restores(f)' = Restores(f)
      /\ CallsInv'
    BY <1>2, <1>4, StackPrefix
<1> HIDE DEF n
<1>6. a.f \in Stacks!Function /\ a.rsp \in Int /\ a.OldSP \in Int
    BY <1>3 DEF Activation
<1>7. \A f \in Stacks!Function : f # a.f => x1'[f] = x1[f]
    BY <1>1, <1>2
<1>8. ASSUME Restores(a.f) PROVE x1'[a.f] = a.OldSP /\ a.OldSP <= StackSize
    <2>1. a.OldSP <= StackSize
        BY <1>3, <1>5, <1>6, <1>8 DEF StackInv, FramesInv
    <2>2. Stacks!Smaller(StackSize, a.OldSP) = a.OldSP
        BY <1>6, <2>1 DEF Stacks!Smaller
    <2>3. Stacks!Instrumented(a.f) /\ Stacks!shouldRestoreOldSP(a.f)
        BY <1>8 DEF Restores, Stacks!Instrumented
    <2> QED
        BY <1>1, <1>2, <1>6, <2>1, <2>2, <2>3
<1>9. StackType'
    <2>1. Stacks!Smaller(StackSize, a.OldSP) \in Int
        BY <1>6 DEF Stacks!Smaller
    <2>2. x1' \in [Stacks!Function -> Int]
        BY <1>1, <1>2, <1>6, <2>1
    <2> QED
        BY <1>1, <1>2, <1>5, <2>2 DEF StackType
<1>10. FramesInv'
    <2> SUFFICES ASSUME NEW f \in Stacks!Function, Restores(f)
                 PROVE  /\ x1'[f] <= StackSize
                        /\ \A j \in 1..(n - 1) : x2'[j].f = f =>
                              /\ x2'[j].rsp = x2'[j].OldSP - 1 /\ x2'[j].OldSP <= StackSize
                              /\ x1'[f] <= x2'[j].rsp
                              /\ \A i \in 1..(j - 1) : x2'[i].f = f => x2'[j].OldSP <= x2'[i].rsp
        BY <1>5 DEF FramesInv
    <2>1. /\ x1[f] <= StackSize
          /\ \A j \in 1..n : x2[j].f = f =>
                /\ x2[j].rsp = x2[j].OldSP - 1 /\ x2[j].OldSP <= StackSize
                /\ x1[f] <= x2[j].rsp
                /\ \A i \in 1..(j - 1) : x2[i].f = f => x2[j].OldSP <= x2[i].rsp
        BY <1>5 DEF StackInv, FramesInv
    <2>2. x1'[f] <= StackSize
        BY <1>7, <1>8, <2>1
    <2>3. ASSUME NEW j \in 1..(n - 1), x2'[j].f = f
          PROVE  x1'[f] <= x2'[j].rsp
        <3>1. j \in 1..n /\ x2'[j] = x2[j]
            BY <1>5
        <3>2. CASE f = a.f
            BY <1>3, <1>8, <2>1, <2>3, <3>1, <3>2
        <3>3. CASE f # a.f
            BY <1>7, <2>1, <2>3, <3>1, <3>3
        <3> QED
            BY <3>2, <3>3
    <2>4. ASSUME NEW j \in 1..(n - 1), x2'[j].f = f
          PROVE  /\ x2'[j].rsp = x2'[j].OldSP - 1 /\ x2'[j].OldSP <= StackSize
                 /\ \A i \in 1..(j - 1) : x2'[i].f = f => x2'[j].OldSP <= x2'[i].rsp
        <3>1. j \in 1..n /\ x2'[j] = x2[j] /\ \A i \in 1..(j - 1) : x2'[i] = x2[i]
            BY <1>5
        <3> QED
            BY <2>1, <2>4, <3>1
    <2> QED
        BY <2>2, <2>3, <2>4
<1>11. ExactInv'
    <2> SUFFICES ASSUME ~x3, NEW f \in Stacks!Function, Restores(f)
                 PROVE  /\ Newest(x2', f, n - 1, x1'[f])
                        /\ \A j \in 1..(n - 1) : x2'[j].f = f => Newest(x2', f, j - 1, x2'[j].OldSP)
        BY <1>2, <1>5 DEF ExactInv
    <2>1. /\ Newest(x2, f, n, x1[f])
          /\ \A j \in 1..n : x2[j].f = f => Newest(x2, f, j - 1, x2[j].OldSP)
        BY <1>5 DEF StackInv, ExactInv, n
    <2>2. Newest(x2, f, n - 1, x1'[f])
        <3>1. CASE f = a.f
            BY <1>3, <1>8, <2>1, <3>1
        <3>2. CASE f # a.f
            <4>1. x1'[f] = x1[f] /\ (n - 1) + 1 = n /\ x2[(n - 1) + 1].f # f
                BY <1>3, <1>7, <3>2
            <4> HIDE DEF a
            <4>2. Newest(x2, f, n - 1, x1[f]) <=> Newest(x2, f, (n - 1) + 1, x1[f])
                BY <1>5, <4>1, NewestOther
            <4> QED
                BY <2>1, <4>1, <4>2
        <3> QED
            BY <3>1, <3>2
    <2>3. ASSUME NEW k \in 0..(n - 1), NEW v, Newest(x2, f, k, v) PROVE Newest(x2', f, k, v)
        BY <1>5, <2>3, NewestSame
    <2>4. ASSUME NEW j \in 1..(n - 1), x2'[j].f = f
          PROVE  Newest(x2', f, j - 1, x2'[j].OldSP)
        <3>1. j \in 1..n /\ x2'[j] = x2[j] /\ j - 1 \in 0..(n - 1)
            BY <1>5
        <3> QED
            BY <2>1, <2>3, <2>4, <3>1
    <2>5. n - 1 \in 0..(n - 1)
        BY <1>5
    <2> QED
        BY <2>2, <2>3, <2>4, <2>5
<1> QED
    BY <1>5, <1>9, <1>10, <1>11 DEF StackInv

LEMMA StackUnwind ==
    ASSUME StackInv, NEW k \in 1..MaxDepth, Stacks!Unwind(k)
    PROVE  StackInv'
<1> USE StackInput
<1>1. k < Len(x2) /\ x2' = SubSeq(x2, 1, k) /\ x3' = TRUE /\ in' = in /\ x1' = x1
    BY DEF Stacks!Unwind
<1>2. /\ in \in StackPrograms /\ \A f \in in.norecurse : f \notin Stacks!CallsFrom(in, f)
      /\ x1 \in [Stacks!Function -> Int] /\ x2 \in Seq(Activation) /\ x3 \in BOOLEAN
    BY DEF StackInv, StackType
<1>3. k \in 0..Len(x2)
    BY <1>1, <1>2
<1>4. /\ k \in Nat /\ DOMAIN x2 = 1..Len(x2)
      /\ x2' \in Seq(Activation) /\ Len(x2') = k /\ DOMAIN x2' = 1..k
      /\ \A i \in 1..k : i \in 1..Len(x2) /\ x2'[i] = x2[i] /\ x2[i] \in Activation
      /\ \A f : Restores(f)' = Restores(f)
      /\ CallsInv'
    BY <1>1, <1>3, StackPrefix
<1>5. StackType'
    BY <1>1, <1>2, <1>4 DEF StackType
<1>6. FramesInv'
    <2> SUFFICES ASSUME NEW f \in Stacks!Function, Restores(f)'
                 PROVE  (/\ x1[f] <= StackSize
                         /\ \A j \in DOMAIN x2 : x2[j].f = f =>
                               /\ x2[j].rsp = x2[j].OldSP - 1 /\ x2[j].OldSP <= StackSize
                               /\ x1[f] <= x2[j].rsp
                               /\ \A i \in 1..(j - 1) : x2[i].f = f => x2[j].OldSP <= x2[i].rsp)'
        BY DEF FramesInv
    <2>a. Restores(f)
        BY <1>4
    <2>1. /\ x1[f] <= StackSize
          /\ \A j \in DOMAIN x2 : x2[j].f = f =>
                /\ x2[j].rsp = x2[j].OldSP - 1 /\ x2[j].OldSP <= StackSize
                /\ x1[f] <= x2[j].rsp
                /\ \A i \in 1..(j - 1) : x2[i].f = f => x2[j].OldSP <= x2[i].rsp
        BY <2>a DEF StackInv, FramesInv
    <2>2. ASSUME NEW j \in 1..k
          PROVE  /\ j \in DOMAIN x2 /\ x2'[j] = x2[j] /\ \A i \in 1..(j - 1) : x2'[i] = x2[i]
        BY <1>4
    <2> QED
        BY <1>1, <1>4, <2>1, <2>2
<1>7. ExactInv'
    BY <1>1 DEF ExactInv
<1> QED
    BY <1>4, <1>5, <1>6, <1>7 DEF StackInv

LEMMA StackStutter ==
    ASSUME StackInv, UNCHANGED <<in, x1, x2, x3>> PROVE StackInv'
<1>1. \A f : Restores(f)' = Restores(f)
    BY StackUnchanged
<1>2. StackType' /\ CallsInv'
    BY DEF StackInv, StackType, CallsInv
<1>3. FramesInv'
    BY <1>1 DEF StackInv, FramesInv
<1>4. ExactInv'
    BY <1>1 DEF StackInv, ExactInv
<1> QED
    BY <1>2, <1>3, <1>4 DEF StackInv

LEMMA StackInvariant == Spec => [](pass = "stacks" => StackInv)
<1>1. Init => (pass = "stacks" => StackInv)
    BY StackInit DEF Init
<1>2. ASSUME pass = "stacks" => StackInv, [Next]_vars PROVE (pass = "stacks" => StackInv)'
    <2>1. pass' = pass
        BY <1>2 DEF Next, vars
    <2>2. ASSUME pass = "stacks", Next PROVE StackInv'
        <3>1. Stacks!Next
            BY <2>2 DEF Next
        <3> QED
            BY <1>2, <2>2, <3>1, StackEnter, StackReturn, StackUnwind DEF Stacks!Next
    <2>3. ASSUME pass = "stacks", UNCHANGED vars PROVE StackInv'
        BY <1>2, <2>3, StackStutter DEF vars
    <2> QED
        BY <1>2, <2>1, <2>2, <2>3
<1> QED
    BY <1>1, <1>2, PTL DEF Spec

\* FunctionLocalStacks, for every module and every size of the stacks: a function that
\* is taken not to recurse, of which the one frame and the global variables of
\* FramePromotion rely on it, is never entered twice; the frames of the others do not
\* overlap, whatever is called and however activations are left.
THEOREM FramesDoNotOverlap == Spec => []FramesDisjoint
<1>1. ASSUME StackInv, NEW f \in Stacks!Function \ in.decl,
             NEW j \in DOMAIN x2, NEW i \in 1..(j - 1), x2[i].f = f, x2[j].f = f
      PROVE  ~Stacks!Promoted(f) /\ x2[i].rsp # x2[j].rsp
    <2>1. /\ in \in StackPrograms /\ \A g \in in.norecurse : g \notin Stacks!CallsFrom(in, g)
          /\ x2 \in Seq(Activation)
        BY <1>1 DEF StackInv, StackType
    <2>2. f \in Stacks!CallsFrom(in, f)
        BY <1>1 DEF StackInv, CallsInv
    <2>3. ~Stacks!doesNotRecurse(f)
        BY <2>1, <2>2, DoesNotRecurse
    <2>4. x2[j].rsp = x2[j].OldSP - 1 /\ x2[j].OldSP <= x2[i].rsp
        BY <1>1, <2>3 DEF StackInv, FramesInv, Restores, Stacks!shouldRestoreOldSP
    <2>5. i \in DOMAIN x2
        BY <2>1
    <2>6. x2[i].rsp \in Int /\ x2[j].OldSP \in Int
        <3>1. x2[i] \in Activation /\ x2[j] \in Activation
            BY <2>1, <2>5
        <3> QED
            BY <3>1 DEF Activation
    <2> QED
        BY <2>3, <2>4, <2>6 DEF Stacks!Promoted
<1>2. StackInv => Stacks!FramesDisjoint
    <2> SUFFICES ASSUME StackInv, NEW f \in Stacks!Function \ in.decl,
                        NEW i \in Stacks!Activations(f), NEW j \in Stacks!Activations(f), i # j
                 PROVE  ~Stacks!Promoted(f) /\ x2[i].rsp # x2[j].rsp
        BY DEF Stacks!FramesDisjoint
    <2>1. i \in DOMAIN x2 /\ j \in DOMAIN x2 /\ x2[i].f = f /\ x2[j].f = f
        BY DEF Stacks!Activations
    <2>2. x2 \in Seq(Activation)
        BY DEF StackInv, StackType
    <2>3. i \in 1..(j - 1) \/ j \in 1..(i - 1)
        BY <2>1, <2>2
    <2> QED
        BY <1>1, <2>1, <2>3
<1> QED
    BY <1>2, StackInvariant, PTL DEF FramesDisjoint

\* If a function has an activation, it has a newest one.
LEMMA NewestExists ==
    ASSUME x2 \in Seq(Activation), NEW f, Stacks!Activations(f) # {}
    PROVE  \E i \in Stacks!Activations(f) : \A j \in Stacks!Activations(f) : j <= i
<1> DEFINE n == Len(x2)
           A == Stacks!Activations(f)
           S == {n - i : i \in A}
<1>1. n \in Nat /\ A \subseteq 1..n
    BY DEF Stacks!Activations
<1> HIDE DEF n, A
<1>2. S \subseteq Nat /\ S # {}
    BY <1>1 DEF A
<1>3. PICK d \in S : \A e \in S : d <= e
    BY <1>2, LeastNatural
<1>4. PICK i \in A : d = n - i
    OBVIOUS
<1>5. ASSUME NEW j \in A PROVE j <= i
    <2>1. n - i <= n - j
        BY <1>3, <1>4
    <2> QED
        BY <1>1, <2>1
<1> QED
    BY <1>5 DEF A

\* FunctionLocalStacks, for every module and every size of the stacks: the stack pointer
\* of a function that saves it is at its newest frame, or below if activations were
\* left without a return.
THEOREM StackPointersAreRight == Spec => []SPTracksFrames
<1>1. StackInv => Stacks!SPTracksFrames
    <2> SUFFICES ASSUME StackInv, NEW f \in Stacks!Function, Restores(f)
                 PROVE  x1[f] <= Stacks!Free(f) /\ (~x3 => x1[f] = Stacks!Free(f))
        BY DEF Stacks!SPTracksFrames, Restores
    <2> DEFINE A == Stacks!Activations(f)
    <2>1. x2 \in Seq(Activation) /\ DOMAIN x2 = 1..Len(x2) /\ Len(x2) \in Nat
        BY DEF StackInv, StackType
    <2>2. \A i : i \in A <=> i \in 1..Len(x2) /\ x2[i].f = f
        BY <2>1 DEF Stacks!Activations
    <2>3. ~x3 => Newest(x2, f, Len(x2), x1[f])
        BY DEF StackInv, ExactInv
    <2>4. x1[f] <= StackSize /\ \A i \in A : x1[f] <= x2[i].rsp
        BY <2>1, <2>2 DEF StackInv, FramesInv
    <2>5. CASE A = {}
        <3>1. Stacks!Free(f) = StackSize
            BY <2>5 DEF Stacks!Free
        <3>2. ~x3 => x1[f] = StackSize
            BY <2>2, <2>3, <2>5 DEF Newest
        <3> QED
            BY <2>4, <3>1, <3>2
    <2>6. CASE A # {}
        <3> DEFINE newest == CHOOSE i \in A : \A j \in A : j <= i
        <3>1. newest \in A /\ \A j \in A : j <= newest
            BY <2>1, <2>6, NewestExists
        <3>2. Stacks!Free(f) = x2[newest].rsp
            BY <2>6 DEF Stacks!Free
        <3> HIDE DEF newest, A
        <3>3. ASSUME ~x3 PROVE x1[f] = x2[newest].rsp
            <4>1. PICK i \in 1..Len(x2) : x2[i].f = f /\ x1[f] = x2[i].rsp
                                         /\ \A m \in (i + 1)..Len(x2) : x2[m].f # f
                BY <2>2, <2>3, <3>1, <3>3 DEF Newest
            <4>2. newest \in 1..Len(x2) /\ x2[newest].f = f /\ i <= newest
                BY <2>2, <3>1, <4>1
            <4>3. newest \notin (i + 1)..Len(x2)
                BY <4>1, <4>2
            <4>4. newest = i
                BY <2>1, <4>2, <4>3
            <4> QED
                BY <4>1, <4>4
        <3> QED
            BY <2>4, <3>1, <3>2, <3>3
    <2> QED
        BY <2>5, <2>6
<1> QED
    BY <1>1, StackInvariant, PTL DEF SPTracksFrames

=============================================================================
