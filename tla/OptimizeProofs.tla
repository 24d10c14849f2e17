------------------------------ MODULE OptimizeProofs ------------------------------
(****************************************************************************)
(* The proofs about module OptimizeSTs, for graphs of any size and any STs: *)
(* optimize_sts neither forgets a walk nor asks for an edge in vain.  in.E  *)
(* is the graph, x1 is sts, x2 st, x3 pos and x4 changed.                   *)
(*                                                                          *)
(* Each optimization is looked at by itself: edges D of the graph, those    *)
(* that a cut leaves, separate the ST before it if they separate the ST     *)
(* after it, and, where internal sets do not meet later ones, the other way *)
(* round.  A certificate of the one is made from a certificate of the       *)
(* other; Regions is a certificate in the form that is easiest to change.   *)
(****************************************************************************)
EXTENDS PassesProofs

GraphNode == 0..(OptimizeSize - 1)

\* R[i]: where a walk may be that has visited the sets before x[i] and gone on.
Regions(D, x, R) ==
    /\ R \in [1..Len(x) -> SUBSET GraphNode]
    /\ R[1] = GraphNode
    /\ \A i \in 1..Len(x) : Optimize!Closed(D, R[i])
    /\ \A i \in 1..(Len(x) - 1) : Optimize!Succ(D, x[i] \cap R[i]) \subseteq R[i + 1]
    /\ x[Len(x)] \cap R[Len(x)] = {}

LEMMA SuccFacts ==
    ASSUME NEW D
    PROVE  /\ \A S : Optimize!Succ(D, S) \subseteq GraphNode
           /\ \A S, v : v \in Optimize!Succ(D, S) <=> v \in GraphNode /\ \E u \in S : <<u, v>> \in D
BY DEF Optimize!Succ, GraphNode

LEMMA ClosedFacts ==
    ASSUME NEW D, NEW R
    PROVE  Optimize!Closed(D, R) <=> \A u \in R, v \in GraphNode : <<u, v>> \in D => v \in R
BY SuccFacts DEF Optimize!Closed

LEMMA ReachFacts ==
    ASSUME NEW D, NEW S
    PROVE  /\ Optimize!Reach(D, S) \subseteq GraphNode
           /\ \A u \in S \cup Optimize!Reach(D, S), v \in GraphNode :
                 <<u, v>> \in D => v \in Optimize!Reach(D, S)
<1> DEFINE M == Optimize!Reach(D, S)
<1>1. M = {v \in GraphNode : \A R \in SUBSET GraphNode :
                Optimize!Succ(D, S) \subseteq R /\ Optimize!Closed(D, R) => v \in R}
    BY DEF Optimize!Reach, GraphNode
<1> HIDE DEF M
<1>2. ASSUME NEW u \in S, NEW v \in GraphNode, <<u, v>> \in D PROVE v \in M
    <2>1. v \in Optimize!Succ(D, S)
        BY <1>2, SuccFacts
    <2> QED
        BY <1>1, <2>1
<1>3. ASSUME NEW u \in M, NEW v \in GraphNode, <<u, v>> \in D PROVE v \in M
    <2> SUFFICES ASSUME NEW R \in SUBSET GraphNode,
                        Optimize!Succ(D, S) \subseteq R, Optimize!Closed(D, R)
                 PROVE  v \in R
        BY <1>1
    <2>1. u \in R
        BY <1>1
    <2> QED
        BY <1>3, <2>1, ClosedFacts
<1> QED
    BY <1>1, <1>2, <1>3 DEF M

LEMMA STFacts ==
    ASSUME NEW x, Optimize!IsST(x)
    PROVE  /\ Len(x) \in Nat /\ Len(x) >= 2 /\ DOMAIN x = 1..Len(x)
           /\ x = [i \in 1..Len(x) |-> x[i]]
           /\ \A i \in 1..Len(x) : x[i] \subseteq GraphNode
<1>1. x \in Seq(SUBSET GraphNode) /\ Len(x) >= 2
    BY DEF Optimize!IsST, GraphNode
<1>2. Len(x) \in Nat /\ DOMAIN x = 1..Len(x) /\ x = [i \in 1..Len(x) |-> x[i]]
    BY <1>1
<1>3. \A i \in 1..Len(x) : x[i] \in SUBSET GraphNode
    BY <1>1
<1> QED
    BY <1>1, <1>2, <1>3

\* Sequences as functions.
LEMMA IsSTFromFunction ==
    ASSUME NEW n \in Nat, n >= 2, NEW f \in [1..n -> SUBSET GraphNode]
    PROVE  Optimize!IsST(f) /\ Len(f) = n
<1>1. f \in Seq(SUBSET GraphNode) /\ Len(f) = n
    OBVIOUS
<1> QED
    BY <1>1 DEF Optimize!IsST, GraphNode

LEMMA SeparatedRegions ==
    ASSUME NEW D, NEW x, Optimize!IsST(x)
    PROVE  Optimize!Separated(D, x) <=> \E R : Regions(D, x, R)
<1> DEFINE n == Len(x)
<1>1. n \in Nat /\ n >= 2 /\ DOMAIN x = 1..n /\ \A i \in 1..n : x[i] \subseteq GraphNode
    BY STFacts
<1>2. Optimize!Separated(D, x) <=>
        \E B \in [1..(n - 1) -> SUBSET GraphNode] : Optimize!IsCertificate(D, x, B)
    BY DEF Optimize!Separated, GraphNode
<1>3. \A B : Optimize!IsCertificate(D, x, B) <=>
        /\ \A i \in 1..(n - 1) : Optimize!Closed(D, B[i])
        /\ Optimize!Succ(D, x[1]) \subseteq B[1]
        /\ \A i \in 2..(n - 1) : Optimize!Succ(D, x[i] \cap B[i - 1]) \subseteq B[i]
        /\ x[n] \cap B[n - 1] = {}
    BY DEF Optimize!IsCertificate
<1> HIDE DEF n
<1>4. ASSUME NEW B \in [1..(n - 1) -> SUBSET GraphNode], Optimize!IsCertificate(D, x, B)
      PROVE  \E R : Regions(D, x, R)
    <2> DEFINE R == [i \in 1..n |-> IF i = 1 THEN GraphNode ELSE B[i - 1]]
    <2>1. \A i \in 2..n : i - 1 \in 1..(n - 1)
        BY <1>1
    <2>2. R \in [1..n -> SUBSET GraphNode]
        BY <1>1, <2>1
    <2>3. R[1] = GraphNode /\ \A i \in 2..n : R[i] = B[i - 1]
        BY <1>1
    <2> HIDE DEF R
    <2>4. \A i \in 1..n : Optimize!Closed(D, R[i])
        <3>1. Optimize!Closed(D, R[1])
            BY <2>3, ClosedFacts
        <3>2. ASSUME NEW i \in 2..n PROVE Optimize!Closed(D, R[i])
            BY <1>3, <1>4, <2>1, <2>3
        <3>3. 1..n = {1} \cup 2..n
            BY <1>1
        <3> QED
            BY <3>1, <3>2, <3>3
    <2>5. \A i \in 1..(n - 1) : Optimize!Succ(D, x[i] \cap R[i]) \subseteq R[i + 1]
        <3>1. Optimize!Succ(D, x[1] \cap R[1]) \subseteq R[2]
            <4>1. R[2] = B[1] /\ x[1] \cap R[1] = x[1]
                BY <1>1, <2>3
            <4> QED
                BY <1>3, <1>4, <4>1
        <3>2. ASSUME NEW i \in 2..(n - 1) PROVE Optimize!Succ(D, x[i] \cap R[i]) \subseteq R[i + 1]
            <4>1. R[i] = B[i - 1] /\ R[i + 1] = B[i]
                BY <1>1, <2>3
            <4> QED
                BY <1>3, <1>4, <4>1
        <3>3. 1..(n - 1) = {1} \cup 2..(n - 1) /\ 1 + 1 = 2
            BY <1>1
        <3> QED
            BY <3>1, <3>2, <3>3
    <2>6. x[n] \cap R[n] = {}
        BY <1>1, <1>3, <1>4, <2>3
    <2> QED
        BY <2>2, <2>3, <2>4, <2>5, <2>6 DEF Regions, n
<1>5. ASSUME NEW R, Regions(D, x, R)
      PROVE  \E B \in [1..(n - 1) -> SUBSET GraphNode] : Optimize!IsCertificate(D, x, B)
    <2> DEFINE B == [i \in 1..(n - 1) |-> R[i + 1]]
    <2>1. /\ R \in [1..n -> SUBSET GraphNode] /\ R[1] = GraphNode
          /\ \A i \in 1..n : Optimize!Closed(D, R[i])
          /\ \A i \in 1..(n - 1) : Optimize!Succ(D, x[i] \cap R[i]) \subseteq R[i + 1]
          /\ x[n] \cap R[n] = {}
        BY <1>5 DEF Regions, n
    <2>2. \A i \in 1..(n - 1) : i + 1 \in 1..n
        BY <1>1
    <2>3. B \in [1..(n - 1) -> SUBSET GraphNode]
        BY <2>1, <2>2
    <2>4. \A i \in 1..(n - 1) : B[i] = R[i + 1]
        OBVIOUS
    <2> HIDE DEF B
    <2>5. \A i \in 1..(n - 1) : Optimize!Closed(D, B[i])
        BY <2>1, <2>2, <2>4
    <2>6. Optimize!Succ(D, x[1]) \subseteq B[1]
        <3>1. 1 \in 1..(n - 1) /\ x[1] \cap R[1] = x[1]
            BY <1>1, <2>1
        <3> QED
            BY <2>1, <2>4, <3>1
    <2>7. ASSUME NEW i \in 2..(n - 1) PROVE Optimize!Succ(D, x[i] \cap B[i - 1]) \subseteq B[i]
        <3>1. i \in 1..(n - 1) /\ i - 1 \in 1..(n - 1) /\ (i - 1) + 1 = i
            BY <1>1
        <3>2. B[i - 1] = R[i] /\ B[i] = R[i + 1]
            BY <2>4, <3>1
        <3> QED
            BY <2>1, <3>1, <3>2
    <2>8. x[n] \cap B[n - 1] = {}
        <3>1. n - 1 \in 1..(n - 1) /\ (n - 1) + 1 = n
            BY <1>1
        <3>2. B[n - 1] = R[n]
            BY <2>4, <3>1
        <3> QED
            BY <2>1, <3>2
    <2> QED
        BY <1>3, <2>3, <2>5, <2>6, <2>7, <2>8
<1> QED
    BY <1>2, <1>4, <1>5

LEMMA SuccWithin ==
    ASSUME NEW D, NEW S, NEW W
    PROVE  Optimize!Succ(D, S) \subseteq W <=>
             \A u \in S, v \in GraphNode : <<u, v>> \in D => v \in W
BY SuccFacts

LEMMA SuccMonotone ==
    ASSUME NEW D, NEW S, NEW T, S \subseteq T
    PROVE  Optimize!Succ(D, S) \subseteq Optimize!Succ(D, T)
BY SuccFacts

-----------------------------------------------------------------------------
(* The optimizations of one ST.                                             *)

\* Smaller sets have fewer walks.
LEMMA SmallerSets ==
    ASSUME NEW D, NEW x, NEW y, Optimize!IsST(x), Optimize!IsST(y), Len(x) = Len(y),
           \A i \in 1..Len(x) : x[i] \subseteq y[i], Optimize!Separated(D, y)
    PROVE  Optimize!Separated(D, x)
<1>1. PICK R : Regions(D, y, R)
    BY SeparatedRegions
<1>2. Len(x) \in Nat /\ Len(x) >= 2
    BY STFacts
<1>3. ASSUME NEW i \in 1..(Len(x) - 1) PROVE Optimize!Succ(D, x[i] \cap R[i]) \subseteq R[i + 1]
    <2>1. Optimize!Succ(D, x[i] \cap R[i]) \subseteq Optimize!Succ(D, y[i] \cap R[i])
        <3>1. x[i] \cap R[i] \subseteq y[i] \cap R[i]
            BY <1>2
        <3> QED
            BY <3>1, SuccMonotone
    <2>2. Optimize!Succ(D, y[i] \cap R[i]) \subseteq R[i + 1]
        BY <1>1 DEF Regions
    <2> QED
        BY <2>1, <2>2
<1>4. x[Len(x)] \cap R[Len(x)] = {}
    <2>1. Len(x) \in 1..Len(x)
        BY <1>2
    <2> QED
        BY <1>1, <2>1 DEF Regions
<1>5. Regions(D, x, R)
    BY <1>1, <1>3, <1>4 DEF Regions
<1> QED
    BY <1>5, SeparatedRegions

\* An ST with an empty set has no walks.
LEMMA EmptySets ==
    ASSUME NEW D, NEW x, Optimize!IsST(x), Optimize!HasEmptySet(x)
    PROVE  Optimize!Separated(D, x)
<1> DEFINE n == Len(x)
<1>1. n \in Nat /\ n >= 2 /\ DOMAIN x = 1..n
    BY STFacts
<1>2. PICK k \in 1..n : x[k] = {}
    BY <1>1 DEF Optimize!HasEmptySet
<1> DEFINE R == [i \in 1..n |-> IF i <= k THEN GraphNode ELSE {}]
<1>3. R \in [1..n -> SUBSET GraphNode] /\ R[1] = GraphNode
    BY <1>1, <1>2
<1>4. \A i \in 1..n : Optimize!Closed(D, R[i])
    BY ClosedFacts
<1>5. ASSUME NEW i \in 1..(n - 1) PROVE Optimize!Succ(D, x[i] \cap R[i]) \subseteq R[i + 1]
    <2>1. i \in 1..n /\ i + 1 \in 1..n
        BY <1>1
    <2>2. CASE i + 1 <= k
        <3>1. R[i + 1] = GraphNode
            BY <2>1, <2>2
        <3>2. Optimize!Succ(D, x[i] \cap R[i]) \subseteq GraphNode
            BY SuccFacts
        <3> QED
            BY <3>1, <3>2
    <2>3. CASE ~(i + 1 <= k)
        <3>1. x[i] \cap R[i] = {}
            BY <1>2, <2>1, <2>3
        <3> HIDE DEF R
        <3> QED
            BY <3>1, SuccFacts
    <2> QED
        BY <2>2, <2>3
<1>6. x[n] \cap R[n] = {}
    BY <1>1, <1>2
<1> HIDE DEF R
<1>7. Regions(D, x, R)
    BY <1>3, <1>4, <1>5, <1>6 DEF Regions
<1> QED
    BY <1>7, SeparatedRegions

\* No internal set meets a later one.
NoOverlap(x) == \A i, j \in 2..Len(x) : i < j => x[i] \cap x[j] = {}

\* An ST of which sets have become smaller.
With(x, k, S) == [x EXCEPT ![k] = S]

LEMMA Shrunk ==
    ASSUME NEW x, Optimize!IsST(x), NEW k \in 1..Len(x), NEW S \in SUBSET x[k]
    PROVE  /\ Optimize!IsST(With(x, k, S)) /\ Len(With(x, k, S)) = Len(x)
           /\ With(x, k, S)[k] = S
           /\ \A i \in 1..Len(x) : i # k => With(x, k, S)[i] = x[i]
           /\ NoOverlap(x) => NoOverlap(With(x, k, S))
           /\ \A D : Optimize!Separated(D, x) => Optimize!Separated(D, With(x, k, S))
<1> DEFINE n == Len(x)
           y == With(x, k, S)
<1>1. n \in Nat /\ n >= 2 /\ DOMAIN x = 1..n /\ x = [i \in 1..n |-> x[i]]
      /\ \A i \in 1..n : x[i] \subseteq GraphNode
    BY STFacts
<1> HIDE DEF n
<1>2. y = [i \in 1..n |-> IF i = k THEN S ELSE x[i]]
    BY <1>1 DEF With
<1> HIDE DEF y
<1>3. y[k] = S /\ \A i \in 1..n : i # k => y[i] = x[i]
    BY <1>2 DEF n
<1>4. \A i \in 1..n : y[i] \subseteq x[i]
    BY <1>3
<1>5. y \in [1..n -> SUBSET GraphNode]
    BY <1>1, <1>2, <1>4
<1>6. Optimize!IsST(y) /\ Len(y) = n
    BY <1>1, <1>5, IsSTFromFunction
<1>7. ASSUME NoOverlap(x) PROVE NoOverlap(y)
    <2>1. \A i \in 2..n : i \in 1..n
        OBVIOUS
    <2>2. ASSUME NEW i \in 2..n, NEW j \in 2..n, i < j PROVE y[i] \cap y[j] = {}
        <3>1. x[i] \cap x[j] = {}
            BY <1>7, <2>2 DEF NoOverlap, n
        <3> QED
            BY <1>4, <2>1, <3>1
    <2> QED
        BY <1>6, <2>2 DEF NoOverlap
<1>8. ASSUME NEW D, Optimize!Separated(D, x) PROVE Optimize!Separated(D, y)
    BY <1>4, <1>6, <1>8, SmallerSets DEF n
<1> QED
    BY <1>3, <1>6, <1>7, <1>8 DEF n, y

CullUnreachable(G, x, p) == With(x, p + 1, x[p + 1] \cap Optimize!Reach(G, x[p]))

LEMMA CullUnreachableFacts ==
    ASSUME NEW G, NEW x, Optimize!IsST(x), NEW p \in 1..(Len(x) - 1)
    PROVE  /\ Optimize!IsST(CullUnreachable(G, x, p)) /\ Len(CullUnreachable(G, x, p)) = Len(x)
           /\ CullUnreachable(G, x, p)[p + 1] = x[p + 1] \cap Optimize!Reach(G, x[p])
           /\ \A i \in 1..Len(x) : i # p + 1 => CullUnreachable(G, x, p)[i] = x[i]
           /\ NoOverlap(x) => NoOverlap(CullUnreachable(G, x, p))
           /\ \A D : Optimize!Separated(D, x) => Optimize!Separated(D, CullUnreachable(G, x, p))
<1>1. /\ p + 1 \in 1..Len(x)
      /\ x[p + 1] \cap Optimize!Reach(G, x[p]) \in SUBSET x[p + 1]
    BY STFacts
<1> QED
    BY <1>1, Shrunk DEF CullUnreachable

\* optimize_sts_cull_unreachables: no walk of the graph gets to what is taken away.
LEMMA UnreachableCulled ==
    ASSUME NEW G, NEW D \in SUBSET G, NEW x, Optimize!IsST(x), NEW p \in 1..(Len(x) - 1),
           Optimize!Separated(D, CullUnreachable(G, x, p))
    PROVE  Optimize!Separated(D, x)
<1> DEFINE n == Len(x)
           M == Optimize!Reach(G, x[p])
           y == CullUnreachable(G, x, p)
<1>1. n \in Nat /\ n >= 2 /\ p \in 1..n /\ p + 1 \in 1..n
    BY STFacts
<1>a. /\ Optimize!IsST(y) /\ Len(y) = n
      /\ y[p + 1] = x[p + 1] \cap M /\ \A i \in 1..n : i # p + 1 => y[i] = x[i]
    BY CullUnreachableFacts, SMTT(30)
<1> HIDE DEF y
<1>2. PICK Q : Regions(D, y, Q)
    BY <1>a, SeparatedRegions DEF y
<1>3. /\ Q \in [1..n -> SUBSET GraphNode] /\ Q[1] = GraphNode
      /\ \A i \in 1..n : Optimize!Closed(D, Q[i])
      /\ \A i \in 1..(n - 1) : Optimize!Succ(D, y[i] \cap Q[i]) \subseteq Q[i + 1]
      /\ y[n] \cap Q[n] = {}
    BY <1>a, <1>2 DEF Regions
<1>4. \A u \in x[p] \cup M, v \in GraphNode : <<u, v>> \in D => v \in M
    BY ReachFacts
<1> HIDE DEF n, M
<1> DEFINE R == [i \in 1..n |-> IF i = p + 1 THEN Q[i] \cap M ELSE Q[i]]
<1>5. R \in [1..n -> SUBSET GraphNode] /\ R[1] = GraphNode
    BY <1>1, <1>3
<1>6. R[p + 1] = Q[p + 1] \cap M /\ \A i \in 1..n : i # p + 1 => R[i] = Q[i]
    BY <1>1
<1> HIDE DEF R
<1>7. \A i \in 1..n : Optimize!Closed(D, R[i])
    <2>1. Optimize!Closed(D, Q[p + 1] \cap M)
        BY <1>1, <1>3, <1>4, ClosedFacts
    <2> QED
        BY <1>3, <1>6, <2>1
<1>8. \A i \in 1..n : x[i] \cap R[i] \subseteq y[i] \cap Q[i]
    BY <1>a, <1>6
<1>9. ASSUME NEW i \in 1..(n - 1) PROVE Optimize!Succ(D, x[i] \cap R[i]) \subseteq R[i + 1]
    <2>1. i \in 1..n /\ i + 1 \in 1..n
        BY <1>1
    <2>2. Optimize!Succ(D, x[i] \cap R[i]) \subseteq Q[i + 1]
        <3>1. Optimize!Succ(D, x[i] \cap R[i]) \subseteq Optimize!Succ(D, y[i] \cap Q[i])
            BY <1>8, <2>1, SuccMonotone
        <3> QED
            BY <1>3, <3>1
    <2>3. CASE i = p
        <3>1. \A u \in x[i] \cap R[i], v \in GraphNode : <<u, v>> \in D => v \in M
            BY <1>4, <2>3
        <3>2. Optimize!Succ(D, x[i] \cap R[i]) \subseteq M
            BY <3>1, SuccWithin
        <3> QED
            BY <1>6, <2>2, <2>3, <3>2
    <2>4. CASE i # p
        <3>1. R[i + 1] = Q[i + 1]
            BY <1>1, <1>6, <2>1, <2>4
        <3> QED
            BY <2>2, <3>1
    <2> QED
        BY <2>3, <2>4
<1>10. x[n] \cap R[n] = {}
    BY <1>1, <1>3, <1>8
<1>11. Regions(D, x, R)
    BY <1>5, <1>7, <1>9, <1>10 DEF Regions, n
<1> QED
    BY <1>11, SeparatedRegions

\* optimize_sts_cull_sources, one source s: a walk from s to the next set has another
\* source on its way, from which it might have begun.
LEMMA SourceCulled ==
    ASSUME NEW G, NEW D \in SUBSET G, NEW x, Optimize!IsST(x), NEW p \in 1..(Len(x) - 1), NEW s,
           ~Optimize!Needed(x[p], x[p + 1], s),
           Optimize!E = G,
           NEW y, Optimize!IsST(y), Len(y) = Len(x), y[p] = x[p] \ {s},
           \A i \in 1..Len(x) : i # p => y[i] = x[i],
           Optimize!Separated(D, y)
    PROVE  Optimize!Separated(D, x)
<1> DEFINE n == Len(x)
           S == x[p]
           T == x[p + 1]
           F == {f \in G : f[2] \in T \/ f[2] \notin S}
           M == Optimize!Reach(F, {s})
<1>1. /\ n \in Nat /\ n >= 2 /\ p \in 1..n /\ p + 1 \in 1..n
      /\ S \subseteq GraphNode /\ T \subseteq GraphNode
    BY STFacts
<1>2. PICK Q : Regions(D, y, Q)
    BY SeparatedRegions
<1>3. /\ Q \in [1..n -> SUBSET GraphNode] /\ Q[1] = GraphNode
      /\ \A i \in 1..n : Optimize!Closed(D, Q[i])
      /\ \A i \in 1..(n - 1) : Optimize!Succ(D, y[i] \cap Q[i]) \subseteq Q[i + 1]
      /\ y[n] \cap Q[n] = {}
    BY <1>2 DEF Regions
<1>4. T \cap M = {}
    BY DEF Optimize!Needed
<1>5. M \subseteq GraphNode
      /\ \A u \in {s} \cup M, v \in GraphNode : <<u, v>> \in D => v \in M \/ v \in S \ T
    <2>1. /\ M \subseteq GraphNode
          /\ \A u \in {s} \cup M, v \in GraphNode : <<u, v>> \in F => v \in M
        BY ReachFacts
    <2>2. ASSUME NEW u, NEW v, <<u, v>> \in D, v \notin S \ T PROVE <<u, v>> \in F
        BY <2>2
    <2> HIDE DEF F, M, S, T
    <2> QED
        BY <2>1, <2>2
<1> HIDE DEF n, M, F
<1> DEFINE More == (M \cup (S \ T)) \cap Q[p]
           R == [i \in 1..n |-> IF i = p + 1 THEN Q[i] \cup More ELSE Q[i]]
<1>6. More \subseteq GraphNode
    BY <1>1, <1>5
<1>7. R \in [1..n -> SUBSET GraphNode] /\ R[1] = GraphNode
    BY <1>1, <1>3, <1>6
<1>8. R[p + 1] = Q[p + 1] \cup More /\ \A i \in 1..n : i # p + 1 => R[i] = Q[i]
    BY <1>1
<1> HIDE DEF R
<1>9. \A u \in (S \ {s}) \cap Q[p], v \in GraphNode : <<u, v>> \in D => v \in Q[p + 1]
    <2>1. p \in 1..(n - 1) /\ y[p] = S \ {s}
        BY DEF n
    <2> DEFINE A == y[p] \cap Q[p]
               W == Q[p + 1]
    <2>2. Optimize!Succ(D, A) \subseteq W
        BY <1>3, <2>1
    <2> HIDE DEF A, W
    <2>3. \A u \in A, v \in GraphNode : <<u, v>> \in D => v \in W
        BY <2>2, SuccWithin
    <2> QED
        BY <2>1, <2>3 DEF A, W
<1>10. \A u \in Q[p], v \in GraphNode : <<u, v>> \in D => v \in Q[p]
    BY <1>1, <1>3, ClosedFacts
<1>11. \A u \in (S \cup M) \cap Q[p], v \in GraphNode : <<u, v>> \in D => v \in Q[p + 1] \cup More
    <2> SUFFICES ASSUME NEW u \in (S \cup M) \cap Q[p], NEW v \in GraphNode, <<u, v>> \in D
                 PROVE  v \in Q[p + 1] \cup More
        OBVIOUS
    <2>1. CASE u \in S \ {s}
        BY <1>9, <2>1
    <2>2. CASE u \in {s} \cup M
        BY <1>5, <1>10, <2>2
    <2> QED
        BY <2>1, <2>2
<1>12. \A i \in 1..n : Optimize!Closed(D, R[i])
    <2>1. \A u \in Q[p + 1], v \in GraphNode : <<u, v>> \in D => v \in Q[p + 1]
        BY <1>1, <1>3, ClosedFacts
    <2>2. \A u \in Q[p + 1] \cup More, v \in GraphNode :
            <<u, v>> \in D => v \in Q[p + 1] \cup More
        BY <1>11, <2>1
    <2> HIDE DEF More
    <2>3. Optimize!Closed(D, Q[p + 1] \cup More)
        BY <2>2, ClosedFacts
    <2> QED
        BY <1>3, <1>8, <2>3
<1>13. ASSUME NEW i \in 1..(n - 1) PROVE Optimize!Succ(D, x[i] \cap R[i]) \subseteq R[i + 1]
    <2>1. i \in 1..n /\ i + 1 \in 1..n
        BY <1>1
    <2>2. CASE i = p
        <3>1. R[i] = Q[p] /\ R[i + 1] = Q[p + 1] \cup More /\ x[i] = S
            BY <1>1, <1>8, <2>2
        <3> DEFINE A == x[i] \cap R[i]
                   W == R[i + 1]
        <3>2. \A u \in A, v \in GraphNode : <<u, v>> \in D => v \in W
            BY <1>11, <3>1
        <3> HIDE DEF A, W
        <3>3. Optimize!Succ(D, A) \subseteq W
            BY <3>2, SuccWithin
        <3> QED
            BY <3>3 DEF A, W
    <2>3. CASE i = p + 1
        <3>1. x[i] \cap R[i] = y[i] \cap Q[i] /\ R[i + 1] = Q[i + 1]
            BY <1>1, <1>4, <1>8, <2>1, <2>3 DEF n
        <3> QED
            BY <1>3, <3>1
    <2>4. CASE i # p /\ i # p + 1
        <3>1. x[i] = y[i] /\ R[i] = Q[i] /\ R[i + 1] = Q[i + 1]
            BY <1>1, <1>8, <2>1, <2>4 DEF n
        <3> QED
            BY <1>3, <3>1
    <2> QED
        BY <2>2, <2>3, <2>4
<1>14. x[n] \cap R[n] = {}
    <2>1. n \in 1..n /\ n # p
        BY <1>1 DEF n
    <2>2. x[n] \cap R[n] \subseteq y[n] \cap Q[n]
        <3>1. CASE n = p + 1
            <4>1. R[n] = Q[n] \cup More /\ x[n] = T /\ y[n] = x[n]
                BY <1>1, <1>8, <2>1, <3>1 DEF n
            <4> QED
                BY <1>4, <4>1
        <3>2. CASE n # p + 1
            BY <1>8, <2>1, <3>2 DEF n
        <3> QED
            BY <3>1, <3>2
    <2> QED
        BY <1>3, <2>2
<1>15. Regions(D, x, R)
    BY <1>7, <1>12, <1>13, <1>14 DEF Regions, n
<1> QED
    BY <1>15, SeparatedRegions

Without(x, p) == SubSeq(x, 1, p - 1) \o SubSeq(x, p + 1, Len(x))

LEMMA ConcatFacts ==
    ASSUME NEW S, NEW a \in Seq(S), NEW b \in Seq(S)
    PROVE  /\ a \o b \in Seq(S) /\ Len(a \o b) = Len(a) + Len(b)
           /\ \A i \in 1..Len(a) : (a \o b)[i] = a[i]
           /\ \A i \in 1..Len(a \o b) : i > Len(a) => (a \o b)[i] = b[i - Len(a)]
OBVIOUS

LEMMA WithoutFacts ==
    ASSUME NEW x, Optimize!IsST(x), NEW p \in 2..(Len(x) - 1)
    PROVE  /\ Optimize!IsST(Without(x, p)) /\ Len(Without(x, p)) = Len(x) - 1
           /\ \A i \in 1..(p - 1) : Without(x, p)[i] = x[i]
           /\ \A i \in p..(Len(x) - 1) : Without(x, p)[i] = x[i + 1]
<1> DEFINE n == Len(x)
           a == SubSeq(x, 1, p - 1)
           b == SubSeq(x, p + 1, n)
<1>1. n \in Nat /\ x \in Seq(SUBSET GraphNode) /\ p \in 2..(n - 1)
    BY DEF Optimize!IsST, GraphNode
<1>2. a \in Seq(SUBSET GraphNode) /\ Len(a) = p - 1 /\ \A i \in 1..(p - 1) : a[i] = x[i]
    BY <1>1
<1>3. b \in Seq(SUBSET GraphNode) /\ Len(b) = n - p /\ \A i \in 1..(n - p) : b[i] = x[p + i]
    <2>1. b \in Seq(SUBSET GraphNode) /\ Len(b) = n - p
        BY <1>1
    <2>2. ASSUME NEW i \in 1..(n - p) PROVE b[i] = x[p + i]
        <3>1. b[i] = x[(p + 1) + i - 1]
            BY <1>1
        <3>2. (p + 1) + i - 1 = p + i
            BY <1>1
        <3> QED
            BY <3>1, <3>2
    <2> QED
        BY <2>1, <2>2
<1> HIDE DEF n, a, b
<1>4. a \o b \in Seq(SUBSET GraphNode) /\ Len(a \o b) = n - 1
    <2>1. a \o b \in Seq(SUBSET GraphNode) /\ Len(a \o b) = Len(a) + Len(b)
        BY <1>2, <1>3, ConcatFacts
    <2> QED
        BY <1>1, <1>2, <1>3, <2>1
<1>5. \A i \in 1..(p - 1) : (a \o b)[i] = x[i]
    BY <1>2, <1>3, ConcatFacts
<1>6. ASSUME NEW i \in p..(n - 1) PROVE (a \o b)[i] = x[i + 1]
    <2>1. i - (p - 1) \in 1..(n - p) /\ p + (i - (p - 1)) = i + 1 /\ i \in 1..(n - 1) /\ i > p - 1
        BY <1>1
    <2>2. (a \o b)[i] = b[i - (p - 1)]
        BY <1>2, <1>3, <1>4, <2>1, ConcatFacts
    <2> QED
        BY <1>3, <2>1, <2>2
<1>7. Optimize!IsST(a \o b)
    BY <1>1, <1>4 DEF Optimize!IsST, GraphNode
<1>8. Without(x, p) = a \o b
    BY DEF Without, a, b, n
<1> QED
    BY <1>4, <1>5, <1>6, <1>7, <1>8 DEF n

\* A walk that visits all the sets visits all the sets but one.
LEMMA InternalRemoved ==
    ASSUME NEW D, NEW x, Optimize!IsST(x), NEW p \in 2..(Len(x) - 1),
           Optimize!Separated(D, Without(x, p))
    PROVE  Optimize!Separated(D, x)
<1> DEFINE n == Len(x)
           y == Without(x, p)
<1>1. n \in Nat /\ p \in 2..(n - 1)
    BY STFacts
<1>2. /\ Optimize!IsST(y) /\ Len(y) = n - 1
      /\ \A i \in 1..(p - 1) : y[i] = x[i]
      /\ \A i \in p..(n - 1) : y[i] = x[i + 1]
    BY WithoutFacts
<1> HIDE DEF y
<1>3. PICK Q : Regions(D, y, Q)
    BY <1>2, SeparatedRegions DEF y
<1> HIDE DEF n
<1>4. /\ Q \in [1..(n - 1) -> SUBSET GraphNode] /\ Q[1] = GraphNode
      /\ \A i \in 1..(n - 1) : Optimize!Closed(D, Q[i])
      /\ \A i \in 1..(n - 2) : Optimize!Succ(D, y[i] \cap Q[i]) \subseteq Q[i + 1]
      /\ y[n - 1] \cap Q[n - 1] = {}
    <2>1. (n - 1) - 1 = n - 2
        BY <1>1
    <2> QED
        BY <1>2, <1>3, <2>1 DEF Regions
<1> DEFINE R == [i \in 1..n |-> IF i <= p THEN Q[i] ELSE Q[i - 1]]
<1>5. R \in [1..n -> SUBSET GraphNode] /\ R[1] = GraphNode
    <2>1. \A i \in 1..n : (i <= p => i \in 1..(n - 1)) /\ (~(i <= p) => i - 1 \in 1..(n - 1))
        BY <1>1
    <2> QED
        BY <1>1, <1>4, <2>1
<1>6. (\A i \in 1..p : R[i] = Q[i]) /\ \A i \in (p + 1)..n : R[i] = Q[i - 1]
    BY <1>1
<1> HIDE DEF R
<1>7. ASSUME NEW i \in 1..n PROVE Optimize!Closed(D, R[i])
    <2>1. CASE i <= p
        <3>1. i \in 1..p /\ i \in 1..(n - 1)
            BY <1>1, <2>1
        <3> QED
            BY <1>4, <1>6, <3>1
    <2>2. CASE ~(i <= p)
        <3>1. i \in (p + 1)..n /\ i - 1 \in 1..(n - 1)
            BY <1>1, <2>2
        <3> QED
            BY <1>4, <1>6, <3>1
    <2> QED
        BY <2>1, <2>2
<1>8. ASSUME NEW i \in 1..(n - 1) PROVE Optimize!Succ(D, x[i] \cap R[i]) \subseteq R[i + 1]
    <2>1. CASE i < p
        <3>1. i \in 1..p /\ i + 1 \in 1..p /\ i \in 1..(p - 1) /\ i \in 1..(n - 2)
            BY <1>1, <2>1
        <3>2. R[i] = Q[i] /\ R[i + 1] = Q[i + 1] /\ x[i] = y[i]
            BY <1>2, <1>6, <3>1
        <3> QED
            BY <1>4, <3>1, <3>2
    <2>2. CASE i = p
        <3>1. R[i] = Q[p] /\ R[i + 1] = Q[p] /\ p \in 1..(n - 1)
            <4>1. p \in 1..p /\ p + 1 \in (p + 1)..n /\ (p + 1) - 1 = p
                BY <1>1
            <4> QED
                BY <1>1, <1>6, <2>2, <4>1
        <3>2. \A u \in Q[p], v \in GraphNode : <<u, v>> \in D => v \in Q[p]
            BY <1>4, <3>1, ClosedFacts
        <3> DEFINE A == x[i] \cap R[i]
                   W == R[i + 1]
        <3>3. \A u \in A, v \in GraphNode : <<u, v>> \in D => v \in W
            BY <3>1, <3>2
        <3> HIDE DEF A, W
        <3>4. Optimize!Succ(D, A) \subseteq W
            BY <3>3, SuccWithin
        <3> QED
            BY <3>4 DEF A, W
    <2>3. CASE i > p
        <3> DEFINE j == i - 1
        <3>1. /\ i \in (p + 1)..n /\ i + 1 \in (p + 1)..n /\ (i + 1) - 1 = j + 1
              /\ j \in p..(n - 1) /\ j + 1 = i /\ j \in 1..(n - 2)
            BY <1>1, <2>3
        <3>2. R[i] = Q[j] /\ R[i + 1] = Q[j + 1]
            BY <1>6, <3>1
        <3>3. x[i] = y[j]
            BY <1>2, <3>1
        <3> HIDE DEF j
        <3>4. Optimize!Succ(D, y[j] \cap Q[j]) \subseteq Q[j + 1]
            BY <1>4, <3>1
        <3> QED
            BY <3>2, <3>3, <3>4
    <2>4. i < p \/ i = p \/ i > p
        BY <1>1
    <2> QED
        BY <2>1, <2>2, <2>3, <2>4
<1>9. x[n] \cap R[n] = {}
    <2>1. n - 1 \in p..(n - 1) /\ n \in (p + 1)..n /\ (n - 1) + 1 = n
        BY <1>1
    <2>2. R[n] = Q[n - 1] /\ x[n] = y[n - 1]
        BY <1>2, <1>6, <2>1
    <2> QED
        BY <1>4, <2>2
<1>10. Regions(D, x, R)
    BY <1>5, <1>7, <1>8, <1>9 DEF Regions, n
<1> QED
    BY <1>10, SeparatedRegions

\* optimize_sts_remove_redundant_internal_st: if a walk from the set before to the set
\* after cannot but go through the set, then it visits that as well, provided that it
\* is there before the end.
LEMMA InternalRedundant ==
    ASSUME NEW G, NEW D \in SUBSET G, NEW x, Optimize!IsST(x), NEW p \in 2..(Len(x) - 1),
           x[p + 1] \cap Optimize!Reach({f \in G : f[2] \notin x[p]}, x[p - 1]) = {},
           x[p] \cap x[p + 1] = {},
           Optimize!Separated(D, x)
    PROVE  Optimize!Separated(D, Without(x, p))
<1> DEFINE n == Len(x)
           y == Without(x, p)
           F == {f \in G : f[2] \notin x[p]}
           M == Optimize!Reach(F, x[p - 1])
<1>1. n \in Nat /\ p \in 2..(n - 1) /\ \A i \in 1..n : x[i] \subseteq GraphNode
    BY STFacts
<1>2. /\ Optimize!IsST(y) /\ Len(y) = n - 1
      /\ \A i \in 1..(p - 1) : y[i] = x[i]
      /\ \A i \in p..(n - 1) : y[i] = x[i + 1]
    BY WithoutFacts
<1>3. PICK Q : Regions(D, x, Q)
    BY SeparatedRegions
<1>4. /\ M \subseteq GraphNode
      /\ \A u \in x[p - 1] \cup M, v \in GraphNode : <<u, v>> \in D => v \in M \cup x[p]
    <2>1. /\ M \subseteq GraphNode
          /\ \A u \in x[p - 1] \cup M, v \in GraphNode : <<u, v>> \in F => v \in M
        BY ReachFacts
    <2>2. ASSUME NEW u, NEW v, <<u, v>> \in D, v \notin x[p] PROVE <<u, v>> \in F
        BY <2>2
    <2> HIDE DEF F, M
    <2> QED
        BY <2>1, <2>2
<1>5. x[p + 1] \cap (M \cup x[p]) = {}
    OBVIOUS
<1> HIDE DEF y, n, M
<1>6. /\ Q \in [1..n -> SUBSET GraphNode] /\ Q[1] = GraphNode
      /\ \A i \in 1..n : Optimize!Closed(D, Q[i])
      /\ \A i \in 1..(n - 1) : Optimize!Succ(D, x[i] \cap Q[i]) \subseteq Q[i + 1]
      /\ x[n] \cap Q[n] = {}
    BY <1>3 DEF Regions, n
<1> DEFINE Mid == Q[p] \cap (M \cup x[p] \cup Q[p + 1])
           R == [i \in 1..(n - 1) |->
                   IF i < p THEN Q[i] ELSE IF i = p THEN Mid ELSE Q[i + 1]]
<1>7. p \in 1..n /\ p + 1 \in 1..n /\ Mid \subseteq GraphNode
    BY <1>1, <1>4, <1>6
<1> HIDE DEF Mid
<1>8. R \in [1..(n - 1) -> SUBSET GraphNode] /\ R[1] = GraphNode
    BY <1>1, <1>6, <1>7
<1>9. /\ \A i \in 1..(p - 1) : R[i] = Q[i]
      /\ R[p] = Mid
      /\ \A i \in (p + 1)..(n - 1) : R[i] = Q[i + 1]
    BY <1>1
<1> HIDE DEF R
<1>10. \A u \in Q[p], v \in GraphNode : <<u, v>> \in D => v \in Q[p]
    BY <1>6, <1>7, ClosedFacts
<1>11. \A u \in Q[p + 1], v \in GraphNode : <<u, v>> \in D => v \in Q[p + 1]
    BY <1>6, <1>7, ClosedFacts
<1>12. \A u \in x[p] \cap Q[p], v \in GraphNode : <<u, v>> \in D => v \in Q[p + 1]
    <2> DEFINE A == x[p] \cap Q[p]
    <2>1. Optimize!Succ(D, A) \subseteq Q[p + 1]
        BY <1>1, <1>6
    <2> HIDE DEF A
    <2>2. \A u \in A, v \in GraphNode : <<u, v>> \in D => v \in Q[p + 1]
        BY <2>1, SuccWithin
    <2> QED
        BY <2>2 DEF A
<1>13. Optimize!Closed(D, Mid)
    <2> SUFFICES ASSUME NEW u \in Mid, NEW v \in GraphNode, <<u, v>> \in D PROVE v \in Mid
        BY ClosedFacts
    <2>1. v \in Q[p]
        BY <1>10 DEF Mid
    <2>2. v \in M \cup x[p] \cup Q[p + 1]
        BY <1>4, <1>11, <1>12 DEF Mid
    <2> QED
        BY <2>1, <2>2 DEF Mid
<1>14. x[p + 1] \cap Mid \subseteq x[p + 1] \cap Q[p + 1]
    BY <1>5 DEF Mid
<1>15. ASSUME NEW i \in 1..(n - 1) PROVE Optimize!Closed(D, R[i])
    <2>1. CASE i < p
        <3>1. i \in 1..(p - 1) /\ i \in 1..n
            BY <1>1, <2>1
        <3> QED
            BY <1>6, <1>9, <3>1
    <2>2. CASE i = p
        BY <1>9, <1>13, <2>2
    <2>3. CASE i > p
        <3>1. i \in (p + 1)..(n - 1) /\ i + 1 \in 1..n
            BY <1>1, <2>3
        <3> QED
            BY <1>6, <1>9, <3>1
    <2> QED
        BY <1>1, <2>1, <2>2, <2>3
<1>16. ASSUME NEW i \in 1..(n - 2) PROVE Optimize!Succ(D, y[i] \cap R[i]) \subseteq R[i + 1]
    <2>1. CASE i + 1 < p
        <3>1. i \in 1..(p - 1) /\ i + 1 \in 1..(p - 1) /\ i \in 1..(n - 1)
            BY <1>1, <2>1
        <3>2. R[i] = Q[i] /\ R[i + 1] = Q[i + 1] /\ y[i] = x[i]
            BY <1>2, <1>9, <3>1
        <3> QED
            BY <1>6, <3>1, <3>2
    <2>2. CASE i + 1 = p
        <3>1. i = p - 1 /\ i \in 1..(p - 1) /\ i \in 1..(n - 1)
            BY <1>1, <2>2
        <3>2. R[i] = Q[i] /\ R[i + 1] = Mid /\ y[i] = x[p - 1]
            BY <1>2, <1>9, <2>2, <3>1
        <3> DEFINE A == x[p - 1] \cap Q[i]
        <3>3. Optimize!Succ(D, A) \subseteq Q[p]
            BY <1>6, <2>2, <3>1
        <3>4. \A u \in A, v \in GraphNode : <<u, v>> \in D => v \in M \cup x[p]
            BY <1>4
        <3> HIDE DEF A
        <3>5. \A u \in A, v \in GraphNode : <<u, v>> \in D => v \in Mid
            <4>1. \A u \in A, v \in GraphNode : <<u, v>> \in D => v \in Q[p]
                BY <3>3, SuccWithin
            <4> QED
                BY <3>4, <4>1 DEF Mid
        <3>6. Optimize!Succ(D, A) \subseteq Mid
            BY <3>5, SuccWithin
        <3> QED
            BY <3>2, <3>6 DEF A
    <2>3. CASE i = p
        <3>1. /\ i \in p..(n - 1) /\ i + 1 \in (p + 1)..(n - 1) /\ i + 1 \in 1..(n - 1)
              /\ (i + 1) + 1 = p + 2
            BY <1>1, <2>3
        <3>2. R[i] = Mid /\ R[i + 1] = Q[(p + 1) + 1] /\ y[i] = x[p + 1]
            BY <1>2, <1>9, <2>3, <3>1
        <3>3. Optimize!Succ(D, x[p + 1] \cap Q[p + 1]) \subseteq Q[(p + 1) + 1]
            BY <1>6, <2>3, <3>1
        <3>4. Optimize!Succ(D, x[p + 1] \cap Mid) \subseteq Optimize!Succ(D, x[p + 1] \cap Q[p + 1])
            BY <1>14, SuccMonotone
        <3> QED
            BY <3>2, <3>3, <3>4
    <2>4. CASE i > p
        <3> DEFINE j == i + 1
        <3>1. /\ i \in p..(n - 1) /\ i \in (p + 1)..(n - 1) /\ j \in (p + 1)..(n - 1)
              /\ j \in 1..(n - 1)
            BY <1>1, <2>4
        <3>2. R[i] = Q[j] /\ R[j] = Q[j + 1] /\ y[i] = x[j]
            BY <1>2, <1>9, <3>1
        <3>3. Optimize!Succ(D, x[j] \cap Q[j]) \subseteq Q[j + 1]
            BY <1>6, <3>1
        <3> QED
            BY <3>2, <3>3
    <2>5. i + 1 < p \/ i + 1 = p \/ i = p \/ i > p
        BY <1>1
    <2> QED
        BY <2>1, <2>2, <2>3, <2>4, <2>5
<1>17. y[n - 1] \cap R[n - 1] = {}
    <2>1. n - 1 \in p..(n - 1) /\ (n - 1) + 1 = n
        BY <1>1
    <2>2. y[n - 1] = x[n]
        BY <1>2, <2>1
    <2>3. CASE n - 1 = p
        BY <1>1, <1>6, <1>9, <1>14, <2>1, <2>2, <2>3
    <2>4. CASE n - 1 # p
        <3>1. n - 1 \in (p + 1)..(n - 1)
            BY <1>1, <2>4
        <3>2. R[n - 1] = Q[n]
            BY <1>9, <2>1, <3>1
        <3> QED
            BY <1>6, <2>2, <3>2
    <2> QED
        BY <2>3, <2>4
<1>18. Regions(D, y, R)
    <2>1. (n - 1) - 1 = n - 2
        BY <1>1
    <2> QED
        BY <1>2, <1>8, <1>15, <1>16, <1>17, <2>1 DEF Regions
<1> QED
    BY <1>2, <1>18, SeparatedRegions DEF y

\* The sources that are left after those below x have been looked at.
Erasing(S, T, left, x) ==
    IF x = 0 THEN S
    ELSE IF x - 1 \in S /\ ~Optimize!Needed(left[x - 1], T, x - 1)
           THEN left[x - 1] \ {x - 1} ELSE left[x - 1]

LEMMA SourcesUnfold ==
    ASSUME NEW S \in SUBSET GraphNode, NEW T, OptimizeSize \in Nat
    PROVE  \E left \in [0..OptimizeSize -> SUBSET GraphNode] :
              /\ \A x \in 0..OptimizeSize : left[x] = Erasing(S, T, left, x)
              /\ Optimize!Sources(S, T) = left[OptimizeSize]
<1> DEFINE W == SUBSET GraphNode
           step == [e \in Nat \X W |->
                      IF e[1] - 1 \in S /\ ~Optimize!Needed(e[2], T, e[1] - 1)
                        THEN e[2] \ {e[1] - 1} ELSE e[2]]
<1>1. step \in [Nat \X W -> W]
    <2>1. ASSUME NEW e \in Nat \X W
          PROVE  (IF e[1] - 1 \in S /\ ~Optimize!Needed(e[2], T, e[1] - 1)
                    THEN e[2] \ {e[1] - 1} ELSE e[2]) \in W
        OBVIOUS
    <2> QED
        BY <2>1
<1>2. \A x \in Nat, L \in W :
        step[<<x, L>>] = IF x - 1 \in S /\ ~Optimize!Needed(L, T, x - 1)
                           THEN L \ {x - 1} ELSE L
    OBVIOUS
<1> HIDE DEF step, W
<1>3. PICK g : /\ g \in [0..OptimizeSize -> W] /\ g[0] = S
               /\ \A x \in 1..OptimizeSize : g[x] = step[<<x, g[x - 1]>>]
    <2>1. S \in W
        BY DEF W
    <2>2. \E g : Iterates(g, OptimizeSize, W, S, step)
        BY <1>1, <2>1, Recursion
    <2> QED
        BY <2>2 DEF Iterates
<1>4. ASSUME NEW x \in 0..OptimizeSize PROVE g[x] = Erasing(S, T, g, x)
    <2>1. CASE x = 0
        BY <1>3, <2>1 DEF Erasing
    <2>2. CASE x # 0
        <3>1. x \in 1..OptimizeSize /\ x \in Nat /\ g[x - 1] \in W
            BY <1>3, <2>2
        <3>2. g[x] = step[<<x, g[x - 1]>>]
            BY <1>3, <3>1
        <3> QED
            BY <1>2, <2>2, <3>1, <3>2 DEF Erasing
    <2> QED
        BY <2>1, <2>2
<1>5. g = [x \in 0..OptimizeSize |-> Erasing(S, T, g, x)]
    BY <1>3, <1>4
<1> DEFINE left == CHOOSE h : h = [x \in 0..OptimizeSize |-> Erasing(S, T, h, x)]
<1>6. left = [x \in 0..OptimizeSize |-> Erasing(S, T, left, x)]
    BY <1>5
<1>7. Optimize!Sources(S, T) = left[OptimizeSize]
    BY DEF Optimize!Sources, Erasing
<1> HIDE DEF left
<1> DEFINE P == {x \in Nat : x \in 0..OptimizeSize => left[x] \in W}
<1>8. 0 \in P
    BY <1>6 DEF Erasing, W
<1>9. ASSUME NEW x \in Nat, x \in P PROVE x + 1 \in P
    <2> SUFFICES ASSUME x + 1 \in 0..OptimizeSize PROVE left[x + 1] \in W
        OBVIOUS
    <2>1. x \in 0..OptimizeSize /\ (x + 1) - 1 = x /\ x + 1 # 0
        OBVIOUS
    <2>2. left[x] \in W
        BY <1>9, <2>1
    <2>3. left[x + 1] = Erasing(S, T, left, x + 1)
        BY <1>6
    <2>4. left[x + 1] \subseteq left[x]
        BY <2>1, <2>3 DEF Erasing
    <2> QED
        BY <2>2, <2>4 DEF W
<1> HIDE DEF P
<1>10. \A x \in 0..OptimizeSize : left[x] \in W
    <2>1. ASSUME NEW x \in 0..OptimizeSize PROVE x \in P
        BY <1>8, <1>9, SetInduction
    <2> QED
        BY <2>1 DEF P
<1>11. left \in [0..OptimizeSize -> W] /\ \A x \in 0..OptimizeSize : left[x] = Erasing(S, T, left, x)
    BY <1>6, <1>10
<1> QED
    BY <1>7, <1>11 DEF W

CullSource(x, p) == With(x, p, Optimize!Sources(x[p], x[p + 1]))

\* optimize_sts_cull_sources, all sources one after the other.
LEMMA SourcesCulled ==
    ASSUME NEW D \in SUBSET Optimize!E, OptimizeSize \in Nat,
           NEW x, Optimize!IsST(x), NEW p \in 1..(Len(x) - 1),
           Optimize!Separated(D, CullSource(x, p))
    PROVE  Optimize!Separated(D, x)
<1> DEFINE n == Len(x)
           At(L) == [x EXCEPT ![p] = L]
<1>1. n \in Nat /\ n >= 2 /\ p \in 1..n /\ p + 1 \in 1..n /\ p + 1 # p
      /\ x \in [1..n -> SUBSET GraphNode]
    BY STFacts
<1>2. PICK left \in [0..OptimizeSize -> SUBSET GraphNode] :
        /\ \A k \in 0..OptimizeSize : left[k] = Erasing(x[p], x[p + 1], left, k)
        /\ Optimize!Sources(x[p], x[p + 1]) = left[OptimizeSize]
    <2>1. x[p] \in SUBSET GraphNode
        BY <1>1
    <2> QED
        BY <2>1, SourcesUnfold
<1>3. ASSUME NEW L \in SUBSET GraphNode
      PROVE  /\ Optimize!IsST(At(L)) /\ Len(At(L)) = n /\ At(L)[p] = L
             /\ \A i \in 1..n : i # p => At(L)[i] = x[i]
    <2>1. At(L) \in [1..n -> SUBSET GraphNode] /\ At(L)[p] = L
          /\ \A i \in 1..n : i # p => At(L)[i] = x[i]
        BY <1>1
    <2> HIDE DEF At, n
    <2> QED
        BY <1>1, <2>1, IsSTFromFunction
<1>4. ASSUME NEW L \in SUBSET GraphNode, NEW s, ~Optimize!Needed(L, x[p + 1], s),
             Optimize!Separated(D, At(L \ {s}))
      PROVE  Optimize!Separated(D, At(L))
    <2> DEFINE y == At(L \ {s})
               z == At(L)
    <2>1. /\ Optimize!IsST(z) /\ Len(z) = n /\ z[p] = L
          /\ \A i \in 1..n : i # p => z[i] = x[i]
        BY <1>3
    <2>2. /\ Optimize!IsST(y) /\ Len(y) = n /\ y[p] = L \ {s}
          /\ \A i \in 1..n : i # p => y[i] = x[i]
        BY <1>3
    <2>3. ~Optimize!Needed(z[p], z[p + 1], s) /\ \A i \in 1..n : i # p => y[i] = z[i]
        BY <1>1, <1>4, <2>1, <2>2
    <2>4. p \in 1..(Len(z) - 1) /\ Optimize!Separated(D, y) /\ y[p] = z[p] \ {s}
          /\ Len(y) = Len(z) /\ \A i \in 1..Len(z) : i # p => y[i] = z[i]
        BY <1>4, <2>1, <2>2, <2>3
    <2> HIDE DEF y, z
    <2>5. Optimize!Separated(D, z)
        BY <2>1, <2>2, <2>3, <2>4, SourceCulled
    <2> QED
        BY <2>5 DEF z
<1> DEFINE T == {k \in Nat : k \in 0..OptimizeSize =>
                   (Optimize!Separated(D, At(left[k])) => Optimize!Separated(D, x))}
<1>5. 0 \in T
    <2>1. left[0] = x[p]
        BY <1>2 DEF Erasing
    <2>2. At(x[p]) = x
        BY <1>1
    <2> QED
        BY <2>1, <2>2
<1>6. ASSUME NEW k \in Nat, k \in T PROVE k + 1 \in T
    <2> SUFFICES ASSUME k + 1 \in 0..OptimizeSize, Optimize!Separated(D, At(left[k + 1]))
                 PROVE  Optimize!Separated(D, x)
        OBVIOUS
    <2>1. k \in 0..OptimizeSize /\ (k + 1) - 1 = k /\ k + 1 # 0
        OBVIOUS
    <2>2. left[k] \in SUBSET GraphNode
        BY <1>2, <2>1
    <2>3. left[k + 1] = Erasing(x[p], x[p + 1], left, k + 1)
        BY <1>2
    <2>4. \/ left[k + 1] = left[k]
          \/ ~Optimize!Needed(left[k], x[p + 1], k) /\ left[k + 1] = left[k] \ {k}
        BY <2>1, <2>3 DEF Erasing
    <2> HIDE DEF At
    <2>5. Optimize!Separated(D, At(left[k]))
        BY <1>4, <2>2, <2>4
    <2> QED
        BY <1>6, <2>1, <2>5
<1> HIDE DEF T
<1>7. OptimizeSize \in T
    BY <1>5, <1>6, SetInduction
<1> QED
    BY <1>2, <1>7 DEF T, CullSource, With

LEMMA SourcesWithin ==
    ASSUME NEW S \in SUBSET GraphNode, NEW T, OptimizeSize \in Nat
    PROVE  Optimize!Sources(S, T) \subseteq S
<1>1. PICK left \in [0..OptimizeSize -> SUBSET GraphNode] :
        /\ \A k \in 0..OptimizeSize : left[k] = Erasing(S, T, left, k)
        /\ Optimize!Sources(S, T) = left[OptimizeSize]
    BY SourcesUnfold
<1> DEFINE P == {k \in Nat : k \in 0..OptimizeSize => left[k] \subseteq S}
<1>2. 0 \in P
    BY <1>1 DEF Erasing
<1>3. ASSUME NEW k \in Nat, k \in P PROVE k + 1 \in P
    <2> SUFFICES ASSUME k + 1 \in 0..OptimizeSize PROVE left[k + 1] \subseteq S
        OBVIOUS
    <2>1. k \in 0..OptimizeSize /\ (k + 1) - 1 = k /\ k + 1 # 0
        OBVIOUS
    <2>2. left[k + 1] \subseteq left[k]
        BY <1>1, <2>1 DEF Erasing
    <2> QED
        BY <1>3, <2>1, <2>2
<1> HIDE DEF P
<1>4. OptimizeSize \in P
    BY <1>2, <1>3, SetInduction
<1> QED
    BY <1>1, <1>4 DEF P

-----------------------------------------------------------------------------
(* optimize_sts_join.                                                       *)

\* STs of one length.
Pool(m) == [1..m -> SUBSET GraphNode]

LEMMA PoolFacts ==
    ASSUME NEW m \in Nat, m >= 2, NEW x \in Pool(m)
    PROVE  Optimize!IsST(x) /\ Len(x) = m /\ DOMAIN x = 1..m /\ \A i \in 1..m : x[i] \subseteq GraphNode
BY IsSTFromFunction DEF Pool

Similar(pool, x, i, m) == {z \in pool : \A j \in 1..m : j # i => z[j] = x[j]}

JoinWith(pool, x, i, m) == [x EXCEPT ![i] = UNION {z[i] : z \in Similar(pool, x, i, m)}]

LEMMA JoinedColumn ==
    ASSUME NEW m \in Nat, m >= 2, NEW pool \in SUBSET Pool(m), NEW i
    PROVE  /\ \A y \in Optimize!JoinColumn(pool, i) :
                 \E x \in pool : y = JoinWith(pool, x, i, m)
           /\ \A x \in pool :
                 JoinWith(pool, x, i, m)
                     \in Optimize!JoinColumn(pool, i)
<1>1. ASSUME NEW x \in pool
      PROVE  {y \in pool : Len(y) = Len(x) /\ \A j \in DOMAIN x \ {i} : y[j] = x[j]}
                = Similar(pool, x, i, m)
    BY PoolFacts DEF Similar
<1> QED
    BY <1>1 DEF Optimize!JoinColumn, JoinWith

\* The joined ST in its column and in the others.
LEMMA JoinedST ==
    ASSUME NEW m \in Nat, m >= 2, NEW pool \in SUBSET Pool(m), NEW i \in 1..m, NEW x \in pool,
           NEW y, y = JoinWith(pool, x, i, m)
    PROVE  /\ y \in Pool(m)
           /\ \A j \in 1..m : j # i => y[j] = x[j]
           /\ \A v : v \in y[i] <=> \E z \in Similar(pool, x, i, m) : v \in z[i]
           /\ x \in Similar(pool, x, i, m)
<1> DEFINE U == UNION {z[i] : z \in Similar(pool, x, i, m)}
<1>1. Similar(pool, x, i, m) \subseteq Pool(m) /\ x \in Pool(m) /\ x \in Similar(pool, x, i, m)
    BY DEF Similar
<1>2. \A z \in Similar(pool, x, i, m) : z[i] \subseteq GraphNode
    BY <1>1 DEF Pool
<1>3. U \in SUBSET GraphNode
    BY <1>2
<1>4. \A v : v \in U <=> \E z \in Similar(pool, x, i, m) : v \in z[i]
    OBVIOUS
<1> HIDE DEF U
<1>5. y = [x EXCEPT ![i] = U]
    BY DEF U, JoinWith
<1>6. y \in Pool(m) /\ y[i] = U /\ \A j \in 1..m : j # i => y[j] = x[j]
    BY <1>1, <1>3, <1>5 DEF Pool
<1> QED
    BY <1>1, <1>4, <1>6

\* What separates STs that differ in one column only separates the joined ST.
LEMMA JoinedSeparated ==
    ASSUME NEW D, NEW m \in Nat, m >= 2, NEW pool \in SUBSET Pool(m), NEW i \in 1..m, NEW x \in pool,
           NEW y, y = JoinWith(pool, x, i, m),
           \A z \in pool : Optimize!Separated(D, z)
    PROVE  Optimize!Separated(D, y)
<1> DEFINE Sim == Similar(pool, x, i, m)
           Q == [z \in Sim |-> CHOOSE R : Regions(D, z, R)]
<1>1. /\ y \in Pool(m) /\ \A j \in 1..m : j # i => y[j] = x[j]
      /\ \A v : v \in y[i] <=> \E z \in Sim : v \in z[i]
      /\ x \in Sim
    <2> HIDE DEF Q
    <2>1. y \in Pool(m)
        BY JoinedST
    <2>2. \A j \in 1..m : j # i => y[j] = x[j]
        BY DEF JoinWith, Pool
    <2>3. \A v : v \in y[i] <=> \E z \in Sim : v \in z[i]
        BY JoinedST, ZenonT(40)
    <2>4. x \in Sim
        BY JoinedST
    <2> QED
        BY <2>1, <2>2, <2>3, <2>4
<1>2. /\ \A z \in Sim : z \in pool /\ \A j \in 1..m : j # i => z[j] = x[j]
    BY DEF Similar
<1> HIDE DEF Sim
<1>3. ASSUME NEW z \in Sim
      PROVE  /\ Q[z] \in [1..m -> SUBSET GraphNode] /\ Q[z][1] = GraphNode
             /\ \A k \in 1..m : Optimize!Closed(D, Q[z][k])
             /\ \A k \in 1..(m - 1) : Optimize!Succ(D, z[k] \cap Q[z][k]) \subseteq Q[z][k + 1]
             /\ z[m] \cap Q[z][m] = {}
    <2>1. Optimize!IsST(z) /\ Len(z) = m
        BY <1>2, PoolFacts
    <2>2. \E R : Regions(D, z, R)
        BY <1>2, <2>1, SeparatedRegions
    <2>3. Regions(D, z, Q[z])
        BY <2>2
    <2> HIDE DEF Q
    <2> QED
        BY <2>1, <2>3 DEF Regions
<1> HIDE DEF Q
<1> DEFINE R == [k \in 1..m |-> IF k <= i THEN {v \in GraphNode : \A z \in Sim : v \in Q[z][k]}
                                          ELSE {v \in GraphNode : \E z \in Sim : v \in Q[z][k]}]
<1>4. R \in [1..m -> SUBSET GraphNode]
    OBVIOUS
<1>5. R[1] = GraphNode
    <2>1. 1 \in 1..m /\ 1 <= i
        OBVIOUS
    <2> QED
        BY <1>3, <2>1
<1>6. \A k \in 1..m : \A v : k <= i => (v \in R[k] <=> v \in GraphNode /\ \A z \in Sim : v \in Q[z][k])
    OBVIOUS
<1>7. \A k \in 1..m : \A v : ~(k <= i) => (v \in R[k] <=> v \in GraphNode /\ \E z \in Sim : v \in Q[z][k])
    OBVIOUS
<1> HIDE DEF R
<1>8. \A z \in Sim, k \in 1..m : \A u \in Q[z][k], v \in GraphNode : <<u, v>> \in D => v \in Q[z][k]
    BY <1>3, ClosedFacts
<1>9. ASSUME NEW k \in 1..m PROVE Optimize!Closed(D, R[k])
    <2>1. \A u \in R[k], v \in GraphNode : <<u, v>> \in D => v \in R[k]
        <3>1. CASE k <= i
            BY <1>6, <1>8, <3>1
        <3>2. CASE ~(k <= i)
            BY <1>7, <1>8, <3>2
        <3> QED
            BY <3>1, <3>2
    <2> QED
        BY <2>1, ClosedFacts
<1>10. ASSUME NEW z \in Sim, NEW k \in 1..(m - 1),
              NEW u, u \in z[k], u \in Q[z][k], NEW v \in GraphNode, <<u, v>> \in D
       PROVE  v \in Q[z][k + 1]
    <2> DEFINE A == z[k] \cap Q[z][k]
               W == Q[z][k + 1]
    <2>1. Optimize!Succ(D, A) \subseteq W
        BY <1>3
    <2>2. u \in A
        BY <1>10
    <2> HIDE DEF A, W
    <2>3. v \in W
        BY <1>10, <2>1, <2>2, SuccWithin
    <2> QED
        BY <2>3 DEF W
<1>11. ASSUME NEW k \in 1..(m - 1) PROVE Optimize!Succ(D, y[k] \cap R[k]) \subseteq R[k + 1]
    <2>1. k \in 1..m /\ k + 1 \in 1..m
        OBVIOUS
    <2>2. ASSUME NEW u, u \in y[k], u \in R[k], NEW v \in GraphNode, <<u, v>> \in D
          PROVE  v \in R[k + 1]
        <3>1. CASE k < i
            <4>1. k <= i /\ k + 1 <= i /\ k # i
                BY <3>1
            <4>2. \A z \in Sim : u \in z[k] /\ u \in Q[z][k]
                BY <1>1, <1>2, <1>6, <2>1, <2>2, <4>1
            <4>3. \A z \in Sim : v \in Q[z][k + 1]
                BY <1>10, <2>2, <4>2
            <4> QED
                BY <1>6, <2>1, <4>1, <4>3
        <3>2. CASE k = i
            <4>1. k <= i /\ ~(k + 1 <= i)
                BY <3>2
            <4>2. PICK z \in Sim : u \in z[k]
                BY <1>1, <2>2, <3>2
            <4>3. u \in Q[z][k]
                BY <1>6, <2>1, <2>2, <4>1
            <4>4. v \in Q[z][k + 1]
                BY <1>10, <2>2, <4>2, <4>3
            <4> QED
                BY <1>7, <2>1, <4>1, <4>4
        <3>3. CASE k > i
            <4>1. ~(k <= i) /\ ~(k + 1 <= i) /\ k # i
                BY <3>3
            <4>2. PICK z \in Sim : u \in Q[z][k]
                BY <1>7, <2>1, <2>2, <4>1
            <4>3. u \in z[k]
                BY <1>1, <1>2, <2>1, <2>2, <4>1
            <4>4. v \in Q[z][k + 1]
                BY <1>10, <2>2, <4>2, <4>3
            <4> QED
                BY <1>7, <2>1, <4>1, <4>4
        <3>4. k < i \/ k = i \/ k > i
            OBVIOUS
        <3> QED
            BY <3>1, <3>2, <3>3, <3>4
    <2> DEFINE A == y[k] \cap R[k]
               W == R[k + 1]
    <2>3. \A u \in A, v \in GraphNode : <<u, v>> \in D => v \in W
        BY <2>2
    <2> HIDE DEF A, W
    <2>4. Optimize!Succ(D, A) \subseteq W
        BY <2>3, SuccWithin
    <2> QED
        BY <2>4 DEF A, W
<1>12. y[m] \cap R[m] = {}
    <2> SUFFICES ASSUME NEW u, u \in y[m], u \in R[m] PROVE FALSE
        OBVIOUS
    <2>1. m \in 1..m
        OBVIOUS
    <2>2. CASE m = i
        <3>1. PICK z \in Sim : u \in z[m]
            BY <1>1, <2>2
        <3>2. u \in Q[z][m]
            BY <1>6, <2>1, <2>2
        <3> QED
            BY <1>3, <3>1, <3>2
    <2>3. CASE m # i
        <3>1. ~(m <= i)
            BY <2>3
        <3>2. PICK z \in Sim : u \in Q[z][m]
            BY <1>7, <2>1, <3>1
        <3>3. u \in z[m]
            BY <1>1, <1>2, <2>1, <2>3
        <3> QED
            BY <1>3, <3>2, <3>3
    <2> QED
        BY <2>2, <2>3
<1>13. Optimize!IsST(y) /\ Len(y) = m
    BY <1>1, PoolFacts
<1>14. Regions(D, y, R)
    BY <1>4, <1>5, <1>9, <1>11, <1>12, <1>13 DEF Regions
<1> QED
    BY <1>13, <1>14, SeparatedRegions

\* What joining must keep: the walks, and that internal sets do not meet later ones.
Joins(D, P, Q) ==
    /\ (\A y \in Q : Optimize!Separated(D, y)) <=> (\A x \in P : Optimize!Separated(D, x))
    /\ (\A x \in P : NoOverlap(x)) => \A y \in Q : NoOverlap(y)

LEMMA ColumnJoins ==
    ASSUME NEW D, NEW m \in Nat, m >= 2, NEW pool \in SUBSET Pool(m), NEW i \in 1..m
    PROVE  /\ Optimize!JoinColumn(pool, i) \subseteq Pool(m)
           /\ Joins(D, pool, Optimize!JoinColumn(pool, i))
<1> DEFINE Q == Optimize!JoinColumn(pool, i)
           J(x) == JoinWith(pool, x, i, m)
<1>1. (\A y \in Q : \E x \in pool : y = J(x)) /\ \A x \in pool : J(x) \in Q
    BY JoinedColumn
<1>2. ASSUME NEW x \in pool
      PROVE  /\ J(x) \in Pool(m)
             /\ \A j \in 1..m : j # i => J(x)[j] = x[j]
             /\ \A v : v \in J(x)[i] <=> \E z \in Similar(pool, x, i, m) : v \in z[i]
             /\ x \in Similar(pool, x, i, m)
    BY JoinedST
<1>3. ASSUME NEW x \in pool, \A z \in pool : Optimize!Separated(D, z)
      PROVE  Optimize!Separated(D, J(x))
    BY <1>3, JoinedSeparated
<1> HIDE DEF Q, J
<1>4. Q \subseteq Pool(m)
    BY <1>1, <1>2
<1>5. (\A x \in pool : Optimize!Separated(D, x)) => (\A y \in Q : Optimize!Separated(D, y))
    BY <1>1, <1>3
<1>6. ASSUME \A y \in Q : Optimize!Separated(D, y), NEW x \in pool PROVE Optimize!Separated(D, x)
    <2>1. \A j \in 1..m : x[j] \subseteq J(x)[j]
        BY <1>2
    <2>2. Optimize!Separated(D, J(x)) /\ J(x) \in Pool(m) /\ x \in Pool(m)
        BY <1>1, <1>2, <1>6
    <2>3. Optimize!IsST(x) /\ Len(x) = m /\ Optimize!IsST(J(x)) /\ Len(J(x)) = m
        BY <2>2, PoolFacts
    <2> QED
        BY <2>1, <2>2, <2>3, SmallerSets
<1>7. ASSUME \A x \in pool : NoOverlap(x), NEW y \in Q PROVE NoOverlap(y)
    <2>1. PICK x \in pool : y = J(x)
        BY <1>1
    <2>2. Len(y) = m
        BY <1>2, <2>1, PoolFacts
    <2>3. \A z \in pool : \A j, k \in 2..m : j < k => z[j] \cap z[k] = {}
        BY <1>7, PoolFacts DEF NoOverlap
    <2>4. \A z \in Similar(pool, x, i, m) : z \in pool /\ \A j \in 1..m : j # i => z[j] = x[j]
        BY DEF Similar
    <2>5. \A j \in 2..m : j \in 1..m
        OBVIOUS
    <2>6. ASSUME NEW j \in 2..m, NEW k \in 2..m, j < k, NEW v, v \in y[j], v \in y[k] PROVE FALSE
        <3>1. CASE j = i
            <4>1. PICK z \in Similar(pool, x, i, m) : v \in z[j]
                BY <1>2, <2>1, <2>6, <3>1
            <4>2. v \in z[k]
                BY <1>2, <2>1, <2>4, <2>5, <2>6, <3>1
            <4> QED
                BY <2>3, <2>4, <2>6, <4>1, <4>2
        <3>2. CASE k = i
            <4>1. PICK z \in Similar(pool, x, i, m) : v \in z[k]
                BY <1>2, <2>1, <2>6, <3>2
            <4>2. v \in z[j]
                BY <1>2, <2>1, <2>4, <2>5, <2>6, <3>2
            <4> QED
                BY <2>3, <2>4, <2>6, <4>1, <4>2
        <3>3. CASE j # i /\ k # i
            <4>1. y[j] = x[j] /\ y[k] = x[k]
                BY <1>2, <2>1, <2>5, <3>3
            <4> QED
                BY <2>3, <2>6, <4>1
        <3> QED
            BY <3>1, <3>2, <3>3
    <2> QED
        BY <2>2, <2>6 DEF NoOverlap
<1> QED
    BY <1>4, <1>5, <1>6, <1>7 DEF Joins, Q

LEMMA PoolUnfold ==
    ASSUME NEW m \in Nat, m >= 2, NEW pool \in SUBSET Pool(m)
    PROVE  \E joined :
              /\ joined[0] = pool
              /\ \A i \in 1..m : joined[i] = Optimize!JoinColumn(joined[i - 1], i)
              /\ Optimize!JoinPool(pool, m) = joined[m]
<1> DEFINE W == SUBSET Pool(m)
           step == [e \in Nat \X W |-> IF e[1] \in 1..m THEN Optimize!JoinColumn(e[2], e[1]) ELSE e[2]]
           Is(h) == h = [i \in 0..m |-> IF i = 0 THEN pool ELSE Optimize!JoinColumn(h[i - 1], i)]
<1>1. step \in [Nat \X W -> W]
    <2>1. ASSUME NEW e \in Nat \X W, e[1] \in 1..m PROVE Optimize!JoinColumn(e[2], e[1]) \in W
        <3>1. e[2] \in SUBSET Pool(m)
            OBVIOUS
        <3>2. Optimize!JoinColumn(e[2], e[1]) \subseteq Pool(m)
            BY <2>1, <3>1, ColumnJoins
        <3> QED
            BY <3>2
    <2> QED
        BY <2>1
<1>2. \A i \in 1..m, L \in W : step[<<i, L>>] = Optimize!JoinColumn(L, i)
    OBVIOUS
<1> HIDE DEF step
<1>3. PICK g : /\ g \in [0..m -> W] /\ g[0] = pool
               /\ \A i \in 1..m : g[i] = step[<<i, g[i - 1]>>]
    <2>1. pool \in W
        OBVIOUS
    <2> HIDE DEF W
    <2>2. \E g : Iterates(g, m, W, pool, step)
        BY <1>1, <2>1, Recursion
    <2> QED
        BY <2>2 DEF Iterates
<1> HIDE DEF W
<1>4. ASSUME NEW i \in 0..m
      PROVE  g[i] = IF i = 0 THEN pool ELSE Optimize!JoinColumn(g[i - 1], i)
    <2>1. CASE i = 0
        BY <1>3, <2>1
    <2>2. CASE i # 0
        <3>1. i \in 1..m /\ g[i - 1] \in W
            BY <1>3, <2>2
        <3> QED
            BY <1>2, <1>3, <2>2, <3>1
    <2> QED
        BY <2>1, <2>2
<1>5. Is(g)
    BY <1>3, <1>4
<1> DEFINE joined == CHOOSE h : Is(h)
<1>6. Is(joined)
    BY <1>5
<1>7. Optimize!JoinPool(pool, m) = joined[m]
    BY DEF Optimize!JoinPool
<1> HIDE DEF joined
<1>8. joined[0] = pool /\ \A i \in 1..m : joined[i] = Optimize!JoinColumn(joined[i - 1], i)
    <2>1. joined[0] = pool
        BY <1>6
    <2>2. ASSUME NEW i \in 1..m PROVE joined[i] = Optimize!JoinColumn(joined[i - 1], i)
        <3>1. i \in 0..m /\ i # 0
            OBVIOUS
        <3> QED
            BY <1>6, <3>1
    <2> QED
        BY <2>1, <2>2
<1> QED
    BY <1>7, <1>8

LEMMA PoolJoins ==
    ASSUME NEW D, NEW m \in Nat, m >= 2, NEW pool \in SUBSET Pool(m)
    PROVE  /\ Optimize!JoinPool(pool, m) \subseteq Pool(m)
           /\ Joins(D, pool, Optimize!JoinPool(pool, m))
<1>1. PICK joined :
        /\ joined[0] = pool
        /\ \A i \in 1..m : joined[i] = Optimize!JoinColumn(joined[i - 1], i)
        /\ Optimize!JoinPool(pool, m) = joined[m]
    BY PoolUnfold
<1> DEFINE T == {k \in Nat : k \in 0..m => joined[k] \subseteq Pool(m) /\ Joins(D, pool, joined[k])}
<1>2. 0 \in T
    BY <1>1 DEF Joins
<1>3. ASSUME NEW k \in Nat, k \in T PROVE k + 1 \in T
    <2> SUFFICES ASSUME k + 1 \in 0..m
                 PROVE  joined[k + 1] \subseteq Pool(m) /\ Joins(D, pool, joined[k + 1])
        OBVIOUS
    <2>1. k \in 0..m /\ k + 1 \in 1..m /\ (k + 1) - 1 = k
        OBVIOUS
    <2>2. joined[k] \in SUBSET Pool(m) /\ Joins(D, pool, joined[k])
        BY <1>3, <2>1
    <2>3. joined[k + 1] = Optimize!JoinColumn(joined[k], k + 1)
        BY <1>1, <2>1
    <2>4. joined[k + 1] \subseteq Pool(m) /\ Joins(D, joined[k], joined[k + 1])
        BY <2>1, <2>2, <2>3, ColumnJoins
    <2> QED
        BY <2>2, <2>4 DEF Joins
<1> HIDE DEF T
<1>4. m \in T
    BY <1>2, <1>3, SetInduction
<1> QED
    BY <1>1, <1>4 DEF T

LEMMA AllJoins ==
    ASSUME NEW D, NEW T, \A x \in T : Optimize!IsST(x)
    PROVE  /\ \A y \in Optimize!Joined(T) : Optimize!IsST(y)
           /\ Joins(D, T, Optimize!Joined(T))
<1> DEFINE Of(m) == {x \in T : Len(x) = m}
           Q(m) == Optimize!JoinPool(Of(m), m)
<1>1. ASSUME NEW x \in T PROVE Len(x) \in Nat /\ Len(x) >= 2 /\ x \in Pool(Len(x))
    <2>1. /\ Len(x) \in Nat /\ Len(x) >= 2
          /\ x = [i \in 1..Len(x) |-> x[i]] /\ \A i \in 1..Len(x) : x[i] \subseteq GraphNode
        BY STFacts
    <2> QED
        BY <2>1 DEF Pool
<1>2. \A y : y \in Optimize!Joined(T) <=> \E x \in T : y \in Q(Len(x))
    BY DEF Optimize!Joined
<1>3. ASSUME NEW w \in T
      PROVE  Q(Len(w)) \subseteq Pool(Len(w)) /\ Joins(D, Of(Len(w)), Q(Len(w)))
    <2> DEFINE m == Len(w)
    <2>1. m \in Nat /\ m >= 2
        BY <1>1
    <2>2. Of(m) \in SUBSET Pool(m)
        BY <1>1
    <2> HIDE DEF m, Of
    <2>3. Q(m) \subseteq Pool(m) /\ Joins(D, Of(m), Q(m))
        BY <2>1, <2>2, PoolJoins
    <2> QED
        BY <2>3 DEF m
<1>4. \A x \in T : x \in Of(Len(x)) /\ \A m : Of(m) \subseteq T
    OBVIOUS
<1> HIDE DEF Q, Of
<1>5. ASSUME NEW y \in Optimize!Joined(T) PROVE Optimize!IsST(y)
    <2>1. PICK w \in T : y \in Q(Len(w))
        BY <1>2
    <2>2. y \in Pool(Len(w))
        BY <1>3, <2>1
    <2> QED
        BY <1>1, <2>2, PoolFacts
<1>6. ASSUME \A y \in Optimize!Joined(T) : Optimize!Separated(D, y), NEW x \in T
      PROVE  Optimize!Separated(D, x)
    <2>1. \A y \in Q(Len(x)) : Optimize!Separated(D, y)
        BY <1>2, <1>6
    <2> QED
        BY <1>3, <1>4, <2>1 DEF Joins
<1>7. ASSUME \A x \in T : Optimize!Separated(D, x), NEW y \in Optimize!Joined(T)
      PROVE  Optimize!Separated(D, y)
    <2>1. PICK w \in T : y \in Q(Len(w))
        BY <1>2
    <2>2. \A x \in Of(Len(w)) : Optimize!Separated(D, x)
        BY <1>4, <1>7
    <2> QED
        BY <1>3, <2>1, <2>2 DEF Joins
<1>8. ASSUME \A x \in T : NoOverlap(x), NEW y \in Optimize!Joined(T)
      PROVE  NoOverlap(y)
    <2>1. PICK w \in T : y \in Q(Len(w))
        BY <1>2
    <2>2. \A x \in Of(Len(w)) : NoOverlap(x)
        BY <1>4, <1>8
    <2> QED
        BY <1>3, <2>1, <2>2 DEF Joins
<1> QED
    BY <1>5, <1>6, <1>7, <1>8 DEF Joins

-----------------------------------------------------------------------------
(* The invariant.                                                           *)

\* The working ST is there while it is being optimized, at a place it has.
OptimizeType ==
    /\ in \in OptimizeInputs
    /\ \A x \in x1 \cup todo : Optimize!IsST(x)
    /\ pc \in {"join", "pick", "cull_unreachables", "cull_sources", "remove_internal", "done"}
    /\ pc \in {"join", "pick", "done"} => x2 = <<>>
    /\ pc = "join" => todo = {}
    /\ pc \in {"cull_unreachables", "cull_sources"} =>
          Optimize!IsST(x2) /\ x3 \in 1..(Len(x2) - 1)
    /\ pc = "remove_internal" => Optimize!IsST(x2) /\ x3 \in 2..Len(x2)

\* What edges C separate.
Cut(C, T) == \A x \in T : Optimize!Separated(Optimize!E \ C, x)

CoverInv == \A C \in SUBSET Optimize!E : Cut(C, Optimize!Current) => Cut(C, in.sts)

InVainInv ==
    Optimize!Overlap \/
    /\ \A x \in Optimize!Current : NoOverlap(x)
    /\ \A C \in SUBSET Optimize!E : Cut(C, in.sts) => Cut(C, Optimize!Current)

OptimizeInv == OptimizeType /\ CoverInv /\ InVainInv

LEMMA OptimizeInput ==
    /\ OptimizeSize \in Nat
    /\ \A i \in OptimizeInputs : i.E \subseteq GraphNode \X GraphNode /\ \A x \in i.sts : Optimize!IsST(x)
BY InputsAssumption
   DEF Optimize!SizeAssumption, Optimize!InputsAssumption, Optimize!IsInput, Optimize!Edge, GraphNode

\* A step keeps the invariant if it neither loses nor adds anything.
Keeps(old, new) ==
    /\ \A C \in SUBSET Optimize!E : Cut(C, new) => Cut(C, old)
    /\ (\A x \in old : NoOverlap(x)) =>
          /\ \A x \in new : NoOverlap(x)
          /\ \A C \in SUBSET Optimize!E : Cut(C, old) => Cut(C, new)

LEMMA KeepsInv ==
    ASSUME OptimizeInv, in' = in, OptimizeType', Keeps(Optimize!Current, Optimize!Current')
    PROVE  OptimizeInv'
<1> DEFINE old == Optimize!Current
           new == Optimize!Current'
<1>1. Optimize!E' = Optimize!E /\ Optimize!Overlap' = Optimize!Overlap
    BY DEF Optimize!E, Optimize!Overlap
<1>2. \A C : (Cut(C, in.sts)' <=> Cut(C, in.sts)) /\ (Cut(C, Optimize!Current)' <=> Cut(C, new))
    BY <1>1 DEF Cut
<1>3. CoverInv'
    BY <1>1, <1>2 DEF OptimizeInv, CoverInv, Keeps
<1>4. InVainInv'
    BY <1>1, <1>2 DEF OptimizeInv, InVainInv, Keeps
<1> QED
    BY <1>3, <1>4 DEF OptimizeInv

LEMMA KeepsOne ==
    ASSUME NEW A, NEW x, NEW y,
           \A C \in SUBSET Optimize!E :
              Optimize!Separated(Optimize!E \ C, y) => Optimize!Separated(Optimize!E \ C, x),
           NoOverlap(x) =>
              /\ NoOverlap(y)
              /\ \A C \in SUBSET Optimize!E :
                    Optimize!Separated(Optimize!E \ C, x) => Optimize!Separated(Optimize!E \ C, y)
    PROVE  Keeps(A \cup {x}, A \cup {y})
<1>1. ASSUME NEW C \in SUBSET Optimize!E, Cut(C, A \cup {y}) PROVE Cut(C, A \cup {x})
    BY <1>1 DEF Cut
<1>2. ASSUME NEW C \in SUBSET Optimize!E, NoOverlap(x), Cut(C, A \cup {x})
      PROVE  Cut(C, A \cup {y})
    BY <1>2 DEF Cut
<1> QED
    BY <1>1, <1>2 DEF Keeps

LEMMA CurrentST ==
    ASSUME Optimize!IsST(x2)
    PROVE  Optimize!Current = (x1 \cup todo) \cup {x2}
<1>1. x2 # <<>>
    BY STFacts
<1> QED
    BY <1>1 DEF Optimize!Current

LEMMA CurrentNone ==
    ASSUME x2 = <<>>
    PROVE  Optimize!Current = x1 \cup todo
BY DEF Optimize!Current

LEMMA OptimizeInit == ASSUME Optimize!Init PROVE OptimizeInv
<1>1. /\ in \in OptimizeInputs /\ x1 = in.sts /\ todo = {} /\ x2 = <<>> /\ pc = "join"
    BY DEF Optimize!Init
<1>2. OptimizeType
    BY <1>1, OptimizeInput DEF OptimizeType
<1>3. Optimize!Current = in.sts
    BY <1>1, CurrentNone
<1>4. CoverInv
    BY <1>3 DEF CoverInv
<1>5. ASSUME ~Optimize!Overlap, NEW x \in in.sts PROVE NoOverlap(x)
    BY <1>5 DEF Optimize!Overlap, NoOverlap
<1>6. InVainInv
    BY <1>3, <1>5 DEF InVainInv
<1> QED
    BY <1>2, <1>4, <1>6 DEF OptimizeInv

LEMMA OptimizeJoin == ASSUME OptimizeInv, Optimize!Join PROVE OptimizeInv'
<1>1. /\ pc = "join" /\ todo' = Optimize!Joined(x1) /\ x1' = {} /\ pc' = "pick"
      /\ in' = in /\ x2' = x2
    BY DEF Optimize!Join
<1>2. in \in OptimizeInputs /\ todo = {} /\ x2 = <<>> /\ \A x \in x1 : Optimize!IsST(x)
    BY <1>1 DEF OptimizeInv, OptimizeType
<1>3. ASSUME NEW D
      PROVE  /\ \A y \in Optimize!Joined(x1) : Optimize!IsST(y)
             /\ Joins(D, x1, Optimize!Joined(x1))
    BY <1>2, AllJoins
<1>4. OptimizeType'
    BY <1>1, <1>2, <1>3 DEF OptimizeType
<1>5. Optimize!Current = x1 /\ Optimize!Current' = Optimize!Joined(x1)
    BY <1>1, <1>2 DEF Optimize!Current
<1>6. Keeps(x1, Optimize!Joined(x1))
    BY <1>3 DEF Keeps, Joins, Cut
<1> QED
    BY <1>1, <1>4, <1>5, <1>6, KeepsInv

LEMMA OptimizePick == ASSUME OptimizeInv, NEW x \in todo, Optimize!Pick(x) PROVE OptimizeInv'
<1>1. /\ pc = "pick" /\ todo' = todo \ {x} /\ x2' = x /\ x3' = 1
      /\ pc' = "cull_unreachables" /\ in' = in /\ x1' = x1
    BY DEF Optimize!Pick
<1>2. /\ in \in OptimizeInputs /\ x2 = <<>> /\ \A y \in x1 \cup todo : Optimize!IsST(y)
    BY <1>1 DEF OptimizeInv, OptimizeType
<1>3. Optimize!IsST(x) /\ 1 \in 1..(Len(x) - 1)
    BY <1>2, STFacts
<1>4. OptimizeType'
    BY <1>1, <1>2, <1>3 DEF OptimizeType
<1>5. x # <<>>
    BY <1>3
<1>6. Optimize!Current = x1 \cup todo /\ Optimize!Current' = x1 \cup todo
    BY <1>1, <1>2, <1>5 DEF Optimize!Current
<1>7. Keeps(x1 \cup todo, x1 \cup todo)
    BY DEF Keeps
<1> QED
    BY <1>1, <1>4, <1>6, <1>7, KeepsInv

LEMMA OptimizeCullUnreachables == ASSUME OptimizeInv, Optimize!CullUnreachables PROVE OptimizeInv'
<1> DEFINE y == CullUnreachable(Optimize!E, x2, x3)
<1>1. /\ pc = "cull_unreachables" /\ x2' = y
      /\ IF x3 + 1 < Len(x2) THEN x3' = x3 + 1 /\ pc' = pc ELSE x3' = 1 /\ pc' = "cull_sources"
      /\ in' = in /\ x1' = x1 /\ todo' = todo
    BY DEF Optimize!CullUnreachables, Optimize!Continue, CullUnreachable, With
<1>2. /\ in \in OptimizeInputs /\ \A z \in x1 \cup todo : Optimize!IsST(z)
      /\ Optimize!IsST(x2) /\ x3 \in 1..(Len(x2) - 1)
    BY <1>1 DEF OptimizeInv, OptimizeType
<1>3. Len(x2) \in Nat /\ Len(x2) >= 2 /\ x3 + 1 \in 1..Len(x2)
    BY <1>2, STFacts
<1>4. /\ Optimize!IsST(y) /\ Len(y) = Len(x2)
      /\ NoOverlap(x2) => NoOverlap(y)
      /\ \A D \in SUBSET Optimize!E : Optimize!Separated(D, x2) <=> Optimize!Separated(D, y)
    BY <1>2, CullUnreachableFacts, UnreachableCulled, ZenonT(40)
<1>5. \A C \in SUBSET Optimize!E :
        Optimize!Separated(Optimize!E \ C, x2) <=> Optimize!Separated(Optimize!E \ C, y)
    BY <1>4
<1>6. OptimizeType'
    <2>1. CASE x3 + 1 < Len(x2)
        <3>1. x3' \in 1..(Len(x2') - 1)
            BY <1>1, <1>2, <1>3, <1>4, <2>1
        <3> QED
            BY <1>1, <1>2, <1>4, <2>1, <3>1 DEF OptimizeType
    <2>2. CASE ~(x3 + 1 < Len(x2))
        <3>1. x3' \in 1..(Len(x2') - 1)
            BY <1>1, <1>2, <1>3, <1>4, <2>2
        <3> QED
            BY <1>1, <1>2, <1>4, <2>2, <3>1 DEF OptimizeType
    <2> QED
        BY <2>1, <2>2
<1>7. Optimize!Current = (x1 \cup todo) \cup {x2} /\ Optimize!Current' = (x1 \cup todo) \cup {y}
    <2>1. x2' # <<>>
        BY <1>1, <1>4, STFacts
    <2> QED
        BY <1>1, <1>2, <2>1, CurrentST DEF Optimize!Current
<1>8. Keeps((x1 \cup todo) \cup {x2}, (x1 \cup todo) \cup {y})
    <2> HIDE DEF y
    <2> QED
        BY <1>4, <1>5, KeepsOne
<1> QED
    BY <1>1, <1>6, <1>7, <1>8, KeepsInv

LEMMA CullSourceFacts ==
    ASSUME NEW x, Optimize!IsST(x), NEW p \in 1..(Len(x) - 1)
    PROVE  /\ Optimize!IsST(CullSource(x, p)) /\ Len(CullSource(x, p)) = Len(x)
           /\ NoOverlap(x) => NoOverlap(CullSource(x, p))
           /\ \A D : Optimize!Separated(D, x) => Optimize!Separated(D, CullSource(x, p))
<1>1. p \in 1..Len(x) /\ x[p] \in SUBSET GraphNode
    BY STFacts
<1>2. Optimize!Sources(x[p], x[p + 1]) \in SUBSET x[p]
    BY <1>1, OptimizeInput, SourcesWithin
<1> QED
    BY <1>1, <1>2, Shrunk DEF CullSource

LEMMA OptimizeCullSources == ASSUME OptimizeInv, Optimize!CullSources PROVE OptimizeInv'
<1> DEFINE y == CullSource(x2, x3)
<1>1. /\ pc = "cull_sources" /\ x2' = y
      /\ IF x3 + 1 < Len(x2) THEN x3' = x3 + 1 /\ pc' = pc ELSE x3' = 2 /\ pc' = "remove_internal"
      /\ in' = in /\ x1' = x1 /\ todo' = todo
    BY DEF Optimize!CullSources, Optimize!Continue, CullSource, With
<1>2. /\ in \in OptimizeInputs /\ \A z \in x1 \cup todo : Optimize!IsST(z)
      /\ Optimize!IsST(x2) /\ x3 \in 1..(Len(x2) - 1)
    BY <1>1 DEF OptimizeInv, OptimizeType
<1>3. Len(x2) \in Nat /\ Len(x2) >= 2
    BY <1>2, STFacts
<1>4. /\ Optimize!IsST(y) /\ Len(y) = Len(x2)
      /\ NoOverlap(x2) => NoOverlap(y)
      /\ \A D : Optimize!Separated(D, x2) => Optimize!Separated(D, y)
    BY <1>2, CullSourceFacts
<1>5. ASSUME NEW C \in SUBSET Optimize!E, Optimize!Separated(Optimize!E \ C, y)
      PROVE  Optimize!Separated(Optimize!E \ C, x2)
    <2>1. Optimize!E \ C \in SUBSET Optimize!E
        OBVIOUS
    <2> QED
        BY <1>2, <1>5, <2>1, OptimizeInput, SourcesCulled
<1> HIDE DEF y
<1>6. OptimizeType'
    <2>1. CASE x3 + 1 < Len(x2)
        <3>1. x3' \in 1..(Len(x2') - 1)
            BY <1>1, <1>2, <1>3, <1>4, <2>1
        <3> QED
            BY <1>1, <1>2, <1>4, <2>1, <3>1 DEF OptimizeType
    <2>2. CASE ~(x3 + 1 < Len(x2))
        <3>1. x3' \in 2..Len(x2')
            BY <1>1, <1>2, <1>3, <1>4, <2>2
        <3> QED
            BY <1>1, <1>2, <1>4, <2>2, <3>1 DEF OptimizeType
    <2> QED
        BY <2>1, <2>2
<1>7. Optimize!Current = (x1 \cup todo) \cup {x2} /\ Optimize!Current' = (x1 \cup todo) \cup {y}
    <2>1. x2' # <<>>
        BY <1>1, <1>4, STFacts
    <2> QED
        BY <1>1, <1>2, <2>1, CurrentST DEF Optimize!Current
<1>8. Keeps((x1 \cup todo) \cup {x2}, (x1 \cup todo) \cup {y})
    BY <1>4, <1>5, KeepsOne
<1> QED
    BY <1>1, <1>6, <1>7, <1>8, KeepsInv

LEMMA WithoutOverlap ==
    ASSUME NEW x, Optimize!IsST(x), NEW p \in 2..(Len(x) - 1), NoOverlap(x)
    PROVE  NoOverlap(Without(x, p))
<1> DEFINE n == Len(x)
           y == Without(x, p)
           At(i) == IF i < p THEN i ELSE i + 1
<1>1. n \in Nat /\ p \in 2..(n - 1) /\ Len(y) = n - 1
    BY STFacts, WithoutFacts
<1>2. (\A i \in 1..(p - 1) : y[i] = x[i]) /\ \A i \in p..(n - 1) : y[i] = x[i + 1]
    BY WithoutFacts
<1>3. \A i, j \in 2..n : i < j => x[i] \cap x[j] = {}
    BY DEF NoOverlap
<1> HIDE DEF n, y
<1>4. ASSUME NEW i \in 2..(n - 1) PROVE At(i) \in 2..n /\ y[i] = x[At(i)]
    <2>1. CASE i < p
        <3>1. i \in 1..(p - 1) /\ At(i) = i
            BY <1>1, <2>1
        <3> QED
            BY <1>1, <1>2, <3>1
    <2>2. CASE ~(i < p)
        <3>1. i \in p..(n - 1) /\ At(i) = i + 1
            BY <1>1, <2>2
        <3> QED
            BY <1>1, <1>2, <3>1
    <2> QED
        BY <2>1, <2>2
<1>5. ASSUME NEW i \in 2..(n - 1), NEW j \in 2..(n - 1), i < j PROVE y[i] \cap y[j] = {}
    <2>1. At(i) < At(j)
        BY <1>1, <1>5
    <2> HIDE DEF At
    <2> QED
        BY <1>3, <1>4, <2>1
<1> QED
    BY <1>1, <1>5 DEF NoOverlap, y

LEMMA OptimizeRemoveInternal == ASSUME OptimizeInv, Optimize!RemoveInternal PROVE OptimizeInv'
<1> DEFINE redundant == x2[x3 + 1] \cap
               Optimize!Reach({f \in Optimize!E : f[2] \notin x2[x3]}, x2[x3 - 1]) = {}
           y == Without(x2, x3)
<1>1. /\ pc = "remove_internal" /\ x3 < Len(x2)
      /\ x2' = IF redundant THEN y ELSE x2
      /\ x3' = IF redundant THEN x3 ELSE x3 + 1
      /\ in' = in /\ x1' = x1 /\ todo' = todo /\ pc' = pc
    BY DEF Optimize!RemoveInternal, Without
<1>2. /\ in \in OptimizeInputs /\ \A z \in x1 \cup todo : Optimize!IsST(z)
      /\ Optimize!IsST(x2) /\ x3 \in 2..Len(x2)
    BY <1>1 DEF OptimizeInv, OptimizeType
<1>3. Len(x2) \in Nat /\ x3 \in 2..(Len(x2) - 1)
    BY <1>1, <1>2, STFacts
<1>4. Optimize!IsST(y) /\ Len(y) = Len(x2) - 1
    BY <1>2, <1>3, WithoutFacts
<1>5. ASSUME NEW D, Optimize!Separated(D, y) PROVE Optimize!Separated(D, x2)
    BY <1>2, <1>3, <1>5, InternalRemoved
<1>6. ASSUME redundant, NoOverlap(x2), NEW D \in SUBSET Optimize!E, Optimize!Separated(D, x2)
      PROVE  Optimize!Separated(D, y)
    <2>1. x2[x3] \cap x2[x3 + 1] = {}
        <3>1. x3 \in 2..Len(x2) /\ x3 + 1 \in 2..Len(x2) /\ x3 < x3 + 1
            BY <1>3
        <3> QED
            BY <1>6, <3>1 DEF NoOverlap
    <2> QED
        BY <1>2, <1>3, <1>6, <2>1, InternalRedundant
<1>7. NoOverlap(x2) => NoOverlap(y)
    BY <1>2, <1>3, WithoutOverlap
<1> HIDE DEF redundant, y
<1>8. Optimize!IsST(x2') /\ x3' \in 2..Len(x2')
    BY <1>1, <1>2, <1>3, <1>4
<1>9. OptimizeType'
    BY <1>1, <1>2, <1>8 DEF OptimizeType
<1>10. Optimize!Current = (x1 \cup todo) \cup {x2} /\ Optimize!Current' = (x1 \cup todo) \cup {x2'}
    <2>1. x2' # <<>>
        BY <1>8, STFacts
    <2> QED
        BY <1>1, <1>2, <2>1, CurrentST DEF Optimize!Current
<1>11. Keeps((x1 \cup todo) \cup {x2}, (x1 \cup todo) \cup {x2'})
    <2>1. CASE redundant
        <3>1. x2' = y
            BY <1>1, <2>1
        <3>2. \A C \in SUBSET Optimize!E : Optimize!E \ C \in SUBSET Optimize!E
            OBVIOUS
        <3>3. Keeps((x1 \cup todo) \cup {x2}, (x1 \cup todo) \cup {y})
            BY <1>5, <1>6, <1>7, <2>1, <3>2, KeepsOne
        <3> QED
            BY <3>1, <3>3
    <2>2. CASE ~redundant
        <3>1. x2' = x2
            BY <1>1, <2>2
        <3> QED
            BY <3>1 DEF Keeps
    <2> QED
        BY <2>1, <2>2
<1> QED
    BY <1>1, <1>9, <1>10, <1>11, KeepsInv

LEMMA OptimizeStore == ASSUME OptimizeInv, Optimize!Store PROVE OptimizeInv'
<1>1. /\ pc = "remove_internal" /\ x1' = x1 \cup {x2} /\ x2' = <<>> /\ pc' = "pick"
      /\ in' = in /\ todo' = todo
    BY DEF Optimize!Store
<1>2. /\ in \in OptimizeInputs /\ \A z \in x1 \cup todo : Optimize!IsST(z)
      /\ Optimize!IsST(x2)
    BY <1>1 DEF OptimizeInv, OptimizeType
<1>3. OptimizeType'
    BY <1>1, <1>2 DEF OptimizeType
<1>4. Optimize!Current = (x1 \cup todo) \cup {x2}
    BY <1>1, CurrentST DEF OptimizeInv, OptimizeType
<1>5. Optimize!Current' = (x1 \cup todo) \cup {x2}
    BY <1>1 DEF Optimize!Current
<1>6. Keeps((x1 \cup todo) \cup {x2}, (x1 \cup todo) \cup {x2})
    BY DEF Keeps
<1> QED
    BY <1>1, <1>3, <1>4, <1>5, <1>6, KeepsInv

LEMMA OptimizeEndRound == ASSUME OptimizeInv, Optimize!EndRound PROVE OptimizeInv'
<1> DEFINE kept == {x \in x1 : ~Optimize!HasEmptySet(x)}
<1>1. /\ pc = "pick" /\ todo = {} /\ x1' = kept /\ pc' \in {"join", "done"}
      /\ in' = in /\ todo' = todo /\ x2' = x2
    BY DEF Optimize!EndRound
<1>2. /\ in \in OptimizeInputs /\ \A x \in x1 : Optimize!IsST(x)
      /\ x2 = <<>>
    BY <1>1 DEF OptimizeInv, OptimizeType
<1>3. OptimizeType'
    BY <1>1, <1>2 DEF OptimizeType
<1>4. Optimize!Current = x1 /\ Optimize!Current' = kept
    BY <1>1, <1>2 DEF Optimize!Current
<1>5. ASSUME NEW D, NEW x \in x1 \ kept PROVE Optimize!Separated(D, x)
    BY <1>2, EmptySets
<1>6. Keeps(x1, kept)
    BY <1>5 DEF Keeps, Cut
<1> QED
    BY <1>1, <1>3, <1>4, <1>6, KeepsInv

LEMMA OptimizeStutter ==
    ASSUME OptimizeInv, UNCHANGED <<in, todo, pc, x1, x2, x3>> PROVE OptimizeInv'
<1>1. OptimizeType'
    BY DEF OptimizeInv, OptimizeType
<1>2. Optimize!Current' = Optimize!Current
    BY DEF Optimize!Current
<1>3. Keeps(Optimize!Current, Optimize!Current)
    BY DEF Keeps
<1> QED
    BY <1>1, <1>2, <1>3, KeepsInv

LEMMA OptimizeInvariant == Spec => [](pass = "optimize" => OptimizeInv)
<1>1. Init => (pass = "optimize" => OptimizeInv)
    BY OptimizeInit DEF Init
<1>2. ASSUME pass = "optimize" => OptimizeInv, [Next]_vars
      PROVE  (pass = "optimize" => OptimizeInv)'
    <2>1. pass' = pass
        BY <1>2 DEF Next, vars
    <2>2. ASSUME pass = "optimize", Next PROVE OptimizeInv'
        <3>1. Optimize!Next
            BY <2>2 DEF Next
        <3>2. CASE Optimize!Done
            BY <1>2, <2>2, <3>2, OptimizeStutter DEF Optimize!Done, Optimize!vars
        <3> QED
            BY <1>2, <2>2, <3>1, <3>2, OptimizeJoin, OptimizePick, OptimizeCullUnreachables,
               OptimizeCullSources, OptimizeRemoveInternal, OptimizeStore, OptimizeEndRound
            DEF Optimize!Next
    <2>3. ASSUME pass = "optimize", UNCHANGED vars PROVE OptimizeInv'
        BY <1>2, <2>3, OptimizeStutter DEF vars
    <2> QED
        BY <1>2, <2>1, <2>2, <2>3
<1> QED
    BY <1>1, <1>2, PTL DEF Spec

\* optimize_sts, for every graph and all STs: at every point of every round, edges that
\* cut the STs that are left also cut all the STs it was given.
THEOREM OptimizationForgetsNothing == Spec => []Covers
<1>1. OptimizeInv => Optimize!Covers
    BY DEF OptimizeInv, CoverInv, Cut, Optimize!Covers
<1> QED
    BY <1>1, OptimizeInvariant, PTL DEF Covers

\* optimize_sts, for every graph and all STs of which no internal set meets a later one:
\* edges that cut the STs it was given cut those that are left.
THEOREM OptimizationAddsNothing == Spec => []NothingAdded
<1>1. OptimizeInv => Optimize!NothingAdded
    BY DEF OptimizeInv, InVainInv, Cut, Optimize!NothingAdded
<1> QED
    BY <1>1, OptimizeInvariant, PTL DEF NothingAdded

=============================================================================
