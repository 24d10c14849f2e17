---------------------------- MODULE MitigationProofs ----------------------------
(****************************************************************************)
(* MitigatePass, for every function.  The STs that it makes ask for enough, *)
(* with all options: edges that cut each of them leave no walk that is a    *)
(* leak.  The fences that it puts in for the edges of a cut, in any order,  *)
(* do what the cut does.  So when it ends every leak is behind a fence.     *)
(****************************************************************************)
EXTENDS PassesProofs, ControlFlow, FiniteSetTheorems, SequenceTheorems

-----------------------------------------------------------------------------
(* ControlFlow: Reach(E, S) is the least set that contains what is a step   *)
(* away from S and is closed under E.                                       *)

\* Reach of the instances is Reach.
LEMMA SameReach ==
    /\ \A E, S : Generate!Reach(E, S) = Reach(E, S)
    /\ \A E, S : Fences!Reach(E, S) = Reach(E, S)
<1>1. \A E, S : Generate!Reach(E, S) = Reach(E, S)
    BY Zenon DEF Generate!Reach, Generate!StepsFrom, Generate!Cardinality,
                 Reach, StepsFrom, Cardinality
<1>2. \A E, S : Fences!Reach(E, S) = Reach(E, S)
    BY Zenon DEF Fences!Reach, Fences!StepsFrom, Fences!Cardinality,
                 Reach, StepsFrom, Cardinality
<1> QED
    BY <1>1, <1>2

Heads(E) == {e[2] : e \in E}

\* The rounds of the search; in each it has what is a step further away.
LEMMA ReachUnfold ==
    ASSUME NEW E, NEW S, Cardinality(E) \in Nat
    PROVE  \E to \in [0..Cardinality(E) -> SUBSET Heads(E)] :
              /\ to[0] = StepsFrom(E, S)
              /\ \A n \in 1..Cardinality(E) : to[n] = to[n - 1] \cup StepsFrom(E, to[n - 1])
              /\ Reach(E, S) = to[Cardinality(E)]
<1> DEFINE N == Cardinality(E)
           W == SUBSET Heads(E)
           step == [x \in Nat \X W |-> x[2] \cup StepsFrom(E, x[2])]
           Body(h, n) == IF n = 0 THEN StepsFrom(E, S)
                         ELSE UNION {{i} \cup StepsFrom(E, {i}) : i \in h[n - 1]}
<1>1. \A I : StepsFrom(E, I) \in W
    BY DEF StepsFrom, Heads
<1>2. step \in [Nat \X W -> W]
    <2>1. ASSUME NEW x \in Nat \X W PROVE x[2] \cup StepsFrom(E, x[2]) \in W
        <3>1. x[2] \in W
            OBVIOUS
        <3> QED
            BY <1>1, <3>1
    <2> QED
        BY <2>1
<1>3. \A n \in Nat, L \in W : step[<<n, L>>] = L \cup StepsFrom(E, L)
    OBVIOUS
<1> HIDE DEF step, W
<1>4. PICK g : /\ g \in [0..N -> W] /\ g[0] = StepsFrom(E, S)
               /\ \A n \in 1..N : g[n] = step[<<n, g[n - 1]>>]
    <2>1. \E g : Iterates(g, N, W, StepsFrom(E, S), step)
        BY <1>1, <1>2, Recursion
    <2> QED
        BY <2>1 DEF Iterates
<1>u. ASSUME NEW I PROVE UNION {{i} \cup StepsFrom(E, {i}) : i \in I} = I \cup StepsFrom(E, I)
    BY DEF StepsFrom
<1>5. ASSUME NEW n \in 0..N PROVE g[n] = Body(g, n)
    <2>1. CASE n = 0
        BY <1>4, <2>1
    <2>2. CASE n # 0
        <3>1. n \in 1..N /\ n \in Nat /\ g[n - 1] \in W
            BY <1>4, <2>2
        <3>2. g[n] = g[n - 1] \cup StepsFrom(E, g[n - 1])
            BY <1>3, <1>4, <3>1
        <3> QED
            BY <1>u, <2>2, <3>2
    <2> QED
        BY <2>1, <2>2
<1>6. g = [n \in 0..N |-> Body(g, n)]
    BY <1>4, <1>5
<1> DEFINE to == CHOOSE h : h = [n \in 0..N |-> Body(h, n)]
<1>7. to = [n \in 0..N |-> Body(to, n)]
    BY <1>6
<1>8. Reach(E, S) = to[N]
    BY DEF Reach
<1> HIDE DEF to
<1>9. /\ to[0] = StepsFrom(E, S)
      /\ \A n \in 1..N : to[n] = to[n - 1] \cup StepsFrom(E, to[n - 1])
    <2>1. to[0] = Body(to, 0)
        <3>1. 0 \in 0..N
            OBVIOUS
        <3> HIDE DEF Body
        <3> QED
            BY <1>7, <3>1
    <2>2. ASSUME NEW n \in 1..N PROVE to[n] = to[n - 1] \cup StepsFrom(E, to[n - 1])
        <3>1. n \in 0..N /\ n # 0
            OBVIOUS
        <3>2. to[n] = Body(to, n)
            <4> HIDE DEF Body
            <4> QED
                BY <1>7, <3>1
        <3> QED
            BY <1>u, <3>1, <3>2
    <2> QED
        BY <2>1, <2>2
<1> DEFINE P == {n \in Nat : n \in 0..N => to[n] \in W}
<1>10. 0 \in P
    BY <1>1, <1>9
<1>11. ASSUME NEW n \in Nat, n \in P PROVE n + 1 \in P
    <2> SUFFICES ASSUME n + 1 \in 0..N PROVE to[n + 1] \in W
        OBVIOUS
    <2>1. n \in 0..N /\ n + 1 \in 1..N /\ (n + 1) - 1 = n
        OBVIOUS
    <2>2. to[n] \in W /\ StepsFrom(E, to[n]) \in W
        BY <1>1, <1>11, <2>1
    <2>3. to[n + 1] = to[n] \cup StepsFrom(E, to[n])
        BY <1>9, <2>1
    <2> QED
        BY <2>2, <2>3 DEF W
<1> HIDE DEF P
<1>12. \A n \in 0..N : to[n] \in W
    <2>1. ASSUME NEW n \in 0..N PROVE n \in P
        BY <1>10, <1>11, SetInduction
    <2> QED
        BY <2>1 DEF P
<1>13. to \in [0..N -> W]
    BY <1>7, <1>12
<1> QED
    BY <1>8, <1>9, <1>13 DEF W

LEMMA HeadsFinite ==
    ASSUME NEW E, IsFiniteSet(E)
    PROVE  IsFiniteSet(Heads(E)) /\ Cardinality(Heads(E)) <= Cardinality(E)
<1> DEFINE f == [e \in E |-> e[2]]
<1>1. f \in Surjection(E, Heads(E))
    BY DEF Surjection, Heads
<1> QED
    BY <1>1, FS_Surjection

\* After as many rounds as there are edges nothing new is found.
LEMMA ReachClosed ==
    ASSUME NEW E, IsFiniteSet(E), NEW S
    PROVE  /\ Reach(E, S) \subseteq Heads(E)
           /\ \A e \in E : e[1] \in S \cup Reach(E, S) => e[2] \in Reach(E, S)
<1> DEFINE N == Cardinality(E)
<1>1. N \in Nat
    BY FS_CardinalityType
<1>2. PICK to \in [0..N -> SUBSET Heads(E)] :
          /\ to[0] = StepsFrom(E, S)
          /\ \A n \in 1..N : to[n] = to[n - 1] \cup StepsFrom(E, to[n - 1])
          /\ Reach(E, S) = to[N]
    BY <1>1, ReachUnfold
<1>3. ASSUME NEW n \in 0..N
      PROVE  IsFiniteSet(to[n]) /\ Cardinality(to[n]) \in Nat /\ Cardinality(to[n]) <= N
    <2>1. to[n] \in SUBSET Heads(E)
        BY <1>2
    <2>2. /\ IsFiniteSet(Heads(E)) /\ Cardinality(Heads(E)) <= N
          /\ Cardinality(Heads(E)) \in Nat
        BY HeadsFinite, FS_CardinalityType
    <2>3. IsFiniteSet(to[n]) /\ Cardinality(to[n]) <= Cardinality(Heads(E))
        BY <2>1, <2>2, FS_Subset
    <2>4. Cardinality(to[n]) \in Nat
        BY <2>3, FS_CardinalityType
    <2> QED
        BY <1>1, <2>2, <2>3, <2>4
\* As long as a round finds something new, the set has grown in all rounds before.
<1> DEFINE Grows(n) == StepsFrom(E, to[n]) \subseteq to[n] \/ Cardinality(to[n]) >= n + 1
           P == {n \in Nat : n \in 0..N => Grows(n)}
<1>4. 0 \in P
    <2> SUFFICES ASSUME ~(Cardinality(to[0]) >= 0 + 1) PROVE StepsFrom(E, to[0]) \subseteq to[0]
        OBVIOUS
    <2>1. 0 \in 0..N
        BY <1>1
    <2>2. IsFiniteSet(to[0]) /\ Cardinality(to[0]) = 0
        BY <1>3, <2>1
    <2>3. to[0] = {}
        BY <2>2, FS_EmptySet
    <2> QED
        BY <2>3 DEF StepsFrom
<1>5. ASSUME NEW n \in Nat, n \in P PROVE n + 1 \in P
    <2> SUFFICES ASSUME n + 1 \in 0..N PROVE Grows(n + 1)
        OBVIOUS
    <2>1. n \in 0..N /\ n + 1 \in 1..N /\ (n + 1) - 1 = n
        BY <1>1
    <2>2. to[n + 1] = to[n] \cup StepsFrom(E, to[n])
        BY <1>2, <2>1
    <2>3. Grows(n)
        BY <1>5, <2>1
    <2>4. CASE StepsFrom(E, to[n]) \subseteq to[n]
        <3>1. to[n + 1] = to[n]
            BY <2>2, <2>4
        <3> QED
            BY <2>4, <3>1
    <2>5. CASE ~(StepsFrom(E, to[n]) \subseteq to[n])
        <3>1. Cardinality(to[n]) >= n + 1
            BY <2>3, <2>5
        <3>2. /\ IsFiniteSet(to[n + 1]) /\ to[n] \in SUBSET to[n + 1] /\ to[n + 1] # to[n]
            BY <1>3, <2>2, <2>5
        <3>3. /\ Cardinality(to[n]) <= Cardinality(to[n + 1])
              /\ Cardinality(to[n + 1]) # Cardinality(to[n])
            BY <3>2, FS_Subset
        <3>4. Cardinality(to[n]) \in Nat /\ Cardinality(to[n + 1]) \in Nat
            BY <1>3, <2>1
        <3>5. Cardinality(to[n + 1]) >= (n + 1) + 1
            BY <3>1, <3>3, <3>4
        <3> QED
            BY <3>5
    <2> QED
        BY <2>4, <2>5
<1>6. N \in P
    <2> HIDE DEF P
    <2> QED
        BY <1>1, <1>4, <1>5, SetInduction
<1>7. N \in 0..N /\ Cardinality(to[N]) \in Nat /\ Cardinality(to[N]) <= N
    BY <1>1, <1>3
<1>8. StepsFrom(E, to[N]) \subseteq to[N]
    BY <1>1, <1>6, <1>7
<1> DEFINE Q == {n \in Nat : n \in 0..N => StepsFrom(E, S) \subseteq to[n]}
<1>9. 0 \in Q
    BY <1>2
<1>10. ASSUME NEW n \in Nat, n \in Q PROVE n + 1 \in Q
    <2> SUFFICES ASSUME n + 1 \in 0..N PROVE StepsFrom(E, S) \subseteq to[n + 1]
        OBVIOUS
    <2>1. n \in 0..N /\ n + 1 \in 1..N /\ (n + 1) - 1 = n
        BY <1>1
    <2>2. to[n + 1] = to[n] \cup StepsFrom(E, to[n])
        BY <1>2, <2>1
    <2> QED
        BY <1>10, <2>1, <2>2
<1>11. N \in Q
    <2> HIDE DEF Q
    <2> QED
        BY <1>1, <1>9, <1>10, SetInduction
<1>12. StepsFrom(E, S) \subseteq to[N]
    BY <1>7, <1>11
<1>13. to[N] \in SUBSET Heads(E)
    BY <1>2, <1>7
<1> HIDE DEF N, P, Q
<1> QED
    BY <1>2, <1>8, <1>12, <1>13 DEF StepsFrom

\* Reach(E, S) is in every set that is closed under E and a step away from S.
LEMMA ReachLeast ==
    ASSUME NEW E, IsFiniteSet(E), NEW S, NEW W, \A e \in E : e[1] \in S \cup W => e[2] \in W
    PROVE  Reach(E, S) \subseteq W
<1> DEFINE N == Cardinality(E)
<1>1. N \in Nat
    BY FS_CardinalityType
<1>2. PICK to \in [0..N -> SUBSET Heads(E)] :
          /\ to[0] = StepsFrom(E, S)
          /\ \A n \in 1..N : to[n] = to[n - 1] \cup StepsFrom(E, to[n - 1])
          /\ Reach(E, S) = to[N]
    BY <1>1, ReachUnfold
<1> DEFINE P == {n \in Nat : n \in 0..N => to[n] \subseteq W}
<1>3. 0 \in P
    BY <1>2 DEF StepsFrom
<1>4. ASSUME NEW n \in Nat, n \in P PROVE n + 1 \in P
    <2> SUFFICES ASSUME n + 1 \in 0..N PROVE to[n + 1] \subseteq W
        OBVIOUS
    <2>1. n \in 0..N /\ n + 1 \in 1..N /\ (n + 1) - 1 = n
        BY <1>1
    <2>2. to[n + 1] = to[n] \cup StepsFrom(E, to[n])
        BY <1>2, <2>1
    <2>3. to[n] \subseteq W
        BY <1>4, <2>1
    <2>4. StepsFrom(E, to[n]) \subseteq W
        BY <2>3 DEF StepsFrom
    <2> QED
        BY <2>2, <2>3, <2>4
<1> HIDE DEF P
<1>5. N \in P
    BY <1>1, <1>3, <1>4, SetInduction
<1> QED
    BY <1>1, <1>2, <1>5 DEF P

LEMMA ReachMonotone ==
    ASSUME NEW E, IsFiniteSet(E), NEW D \in SUBSET E, NEW T, NEW S \in SUBSET T
    PROVE  Reach(D, S) \subseteq Reach(E, T)
<1>1. IsFiniteSet(D)
    BY FS_Subset
<1>2. \A e \in E : e[1] \in T \cup Reach(E, T) => e[2] \in Reach(E, T)
    BY ReachClosed
<1> DEFINE W == Reach(E, T)
<1>3. \A e \in D : e[1] \in S \cup W => e[2] \in W
    BY <1>2
<1> HIDE DEF W
<1>4. Reach(D, S) \subseteq W
    BY <1>1, <1>3, ReachLeast
<1> QED
    BY <1>4 DEF W

\* What is reached from what S reaches is reached from S.
LEMMA ReachTransitive ==
    ASSUME NEW E, IsFiniteSet(E), NEW S, NEW x \in Reach(E, S)
    PROVE  Reach(E, {x}) \subseteq Reach(E, S)
<1> DEFINE W == Reach(E, S)
<1>1. \A e \in E : e[1] \in S \cup W => e[2] \in W
    BY ReachClosed
<1>2. \A e \in E : e[1] \in {x} \cup W => e[2] \in W
    BY <1>1
<1> HIDE DEF W
<1>3. Reach(E, {x}) \subseteq W
    BY <1>2, ReachLeast
<1> QED
    BY <1>3 DEF W

\* What is reached from a set is reached from one of its members.
LEMMA ReachFromMember ==
    ASSUME NEW E, IsFiniteSet(E), NEW S, NEW y \in Reach(E, S)
    PROVE  \E x \in S : y \in Reach(E, {x})
<1> DEFINE W == {z \in Heads(E) : \E x \in S : z \in Reach(E, {x})}
<1>1. ASSUME NEW e \in E, e[1] \in S \cup W PROVE e[2] \in W
    <2>1. PICK x \in S : e[1] = x \/ e[1] \in Reach(E, {x})
        BY <1>1
    <2>2. e[2] \in Reach(E, {x})
        BY <2>1, ReachClosed
    <2> QED
        BY <2>2 DEF Heads
<1> HIDE DEF W
<1>2. y \in W
    BY <1>1, ReachLeast
<1> QED
    BY <1>2 DEF W

\* Searching backwards finds what is reached from, going forwards.
LEMMA ReachReversed ==
    ASSUME NEW I, NEW E \in SUBSET (I \X I), IsFiniteSet(I), NEW x, NEW y
    PROVE  /\ y \in Reach(E, {x}) => x \in Reach(Generate!Reversed(E), {y})
           /\ x \in Reach(Generate!Reversed(E), {y}) => y \in Reach(E, {x})
<1> DEFINE R == Generate!Reversed(E)
<1>1. R \in SUBSET (I \X I) /\ (\A u, v \in I : <<u, v>> \in E <=> <<v, u>> \in R)
    BY DEF Generate!Reversed
<1> HIDE DEF R
<1>2. IsFiniteSet(E) /\ IsFiniteSet(R)
    BY <1>1, FS_Product, FS_Subset
<1>3. ASSUME NEW C \in SUBSET (I \X I), NEW D \in SUBSET (I \X I), IsFiniteSet(C), IsFiniteSet(D),
             \A u, v \in I : <<u, v>> \in C => <<v, u>> \in D,
             NEW a, NEW b, b \in Reach(C, {a})
      PROVE  a \in Reach(D, {b})
    <2> DEFINE W == {z \in I : a \in Reach(D, {z})}
    <2>1. ASSUME NEW e \in C, e[1] \in {a} \cup W PROVE e[2] \in W
        <3>1. e[1] \in I /\ e[2] \in I /\ e = <<e[1], e[2]>>
            OBVIOUS
        <3>2. <<e[2], e[1]>> \in D
            BY <1>3, <3>1
        <3>3. e[1] \in Reach(D, {e[2]})
            BY <1>3, <3>2, ReachClosed
        <3>4. CASE e[1] = a
            BY <3>1, <3>3, <3>4
        <3>5. CASE e[1] \in W
            <4>1. a \in Reach(D, {e[1]})
                BY <3>5
            <4>2. Reach(D, {e[1]}) \subseteq Reach(D, {e[2]})
                BY <1>3, <3>3, ReachTransitive
            <4> QED
                BY <3>1, <4>1, <4>2
        <3> QED
            BY <2>1, <3>4, <3>5
    <2> HIDE DEF W
    <2>2. Reach(C, {a}) \subseteq W
        BY <1>3, <2>1, ReachLeast
    <2> QED
        BY <1>3, <2>2 DEF W
<1> QED
    BY <1>1, <1>2, <1>3 DEF R

-----------------------------------------------------------------------------
(* GenerateSTs: what values are computed from.                              *)

GLoads(g, V) == Generate!get_incoming_loads(g, V)

OperandsIn(g, U) == \A v \in U : ~Generate!Leaf(g, v) => Generate!Operands(g, v) \subseteq U

With(g, v) == {v} \cup (IF Generate!Leaf(g, v) THEN {} ELSE Generate!Operands(g, v))

\* from is what get_incoming_loads computes, one round after the other.
Rounds(from, g, V, U) ==
    /\ from \in [0..Len(g.kind) -> SUBSET U]
    /\ from[0] = V
    /\ \A n \in 1..Len(g.kind) : from[n] = UNION {With(g, v) : v \in from[n - 1]}
    /\ GLoads(g, V) = {v \in from[Len(g.kind)] : Generate!Leaf(g, v)}

\* The recursive definition has a solution.
LEMMA LoadsUnfold ==
    ASSUME NEW g, Len(g.kind) \in Nat, NEW V, NEW U, V \subseteq U, OperandsIn(g, U)
    PROVE  \E from : Rounds(from, g, V, U)
<1> DEFINE N == Len(g.kind)
           W == SUBSET U
           Next1(L) == UNION {With(g, v) : v \in L}
           step == [x \in Nat \X W |-> Next1(x[2])]
           Body(h, n) == IF n = 0 THEN V ELSE Next1(h[n - 1])
<1>1. \A L \in W : Next1(L) \in W
    <2>1. ASSUME NEW v \in U PROVE With(g, v) \subseteq U
        BY DEF OperandsIn, With
    <2> QED
        BY <2>1
<1>2. step \in [Nat \X W -> W]
    <2>1. ASSUME NEW x \in Nat \X W PROVE Next1(x[2]) \in W
        <3>1. x[2] \in W
            OBVIOUS
        <3> HIDE DEF Next1, W
        <3> QED
            BY <1>1, <3>1
    <2> HIDE DEF Next1
    <2> QED
        BY <2>1
<1> HIDE DEF Next1
<1>3. \A n \in Nat, L \in W : step[<<n, L>>] = Next1(L)
    OBVIOUS
<1>v. V \in W
    OBVIOUS
<1> HIDE DEF step, W
<1>4. PICK h : /\ h \in [0..N -> W] /\ h[0] = V
               /\ \A n \in 1..N : h[n] = step[<<n, h[n - 1]>>]
    <2>1. \E h : Iterates(h, N, W, V, step)
        BY <1>v, <1>2, Recursion
    <2> QED
        BY <2>1 DEF Iterates
<1>5. ASSUME NEW n \in 0..N PROVE h[n] = Body(h, n)
    <2>1. CASE n = 0
        BY <1>4, <2>1
    <2>2. CASE n # 0
        <3>1. n \in 1..N /\ n \in Nat /\ h[n - 1] \in W
            BY <1>4, <2>2
        <3> QED
            BY <1>3, <1>4, <2>2, <3>1
    <2> QED
        BY <2>1, <2>2
<1>6. h = [n \in 0..N |-> Body(h, n)]
    BY <1>4, <1>5
<1> DEFINE from == CHOOSE t : t = [n \in 0..N |-> Body(t, n)]
<1>7. from = [n \in 0..N |-> Body(from, n)]
    BY <1>6
<1>8. GLoads(g, V) = {v \in from[N] : Generate!Leaf(g, v)}
    BY Zenon DEF GLoads, Generate!get_incoming_loads, Next1, With
<1> HIDE DEF from
<1>9. from[0] = V /\ \A n \in 1..N : from[n] = Next1(from[n - 1])
    <2>1. from[0] = Body(from, 0)
        <3>1. 0 \in 0..N
            OBVIOUS
        <3> HIDE DEF Body
        <3> QED
            BY <1>7, <3>1
    <2>2. ASSUME NEW n \in 1..N PROVE from[n] = Next1(from[n - 1])
        <3>1. n \in 0..N /\ n # 0
            OBVIOUS
        <3>2. from[n] = Body(from, n)
            <4> HIDE DEF Body
            <4> QED
                BY <1>7, <3>1
        <3> QED
            BY <3>1, <3>2
    <2> QED
        BY <2>1, <2>2
<1> DEFINE P == {n \in Nat : n \in 0..N => from[n] \in W}
<1>10. 0 \in P
    BY <1>v, <1>9
<1>11. ASSUME NEW n \in Nat, n \in P PROVE n + 1 \in P
    <2> SUFFICES ASSUME n + 1 \in 0..N PROVE from[n + 1] \in W
        OBVIOUS
    <2>1. n \in 0..N /\ n + 1 \in 1..N /\ (n + 1) - 1 = n
        OBVIOUS
    <2>2. from[n] \in W
        BY <1>11, <2>1
    <2>3. from[n + 1] = Next1(from[n])
        BY <1>9, <2>1
    <2> QED
        BY <1>1, <2>2, <2>3
<1> HIDE DEF P
<1>12. \A n \in 0..N : from[n] \in W
    <2>1. ASSUME NEW n \in 0..N PROVE n \in P
        BY <1>10, <1>11, SetInduction
    <2> QED
        BY <2>1 DEF P
<1>13. from \in [0..N -> W]
    BY <1>7, <1>12
<1> QED
    BY <1>8, <1>9, <1>13, Zenon DEF W, Next1, Rounds

\* Whatever set V is in, and its members' operands with it, has the loads.
LEMMA LoadsLeast ==
    ASSUME NEW g, Len(g.kind) \in Nat, NEW V, NEW U, V \subseteq U, OperandsIn(g, U)
    PROVE  \A v \in GLoads(g, V) : v \in U /\ Generate!Leaf(g, v)
<1> DEFINE N == Len(g.kind)
<1>1. PICK from : Rounds(from, g, V, U)
    BY LoadsUnfold
<1>2. N \in 0..N
    OBVIOUS
<1> QED
    BY <1>1, <1>2 DEF Rounds


-----------------------------------------------------------------------------
(* GenerateSTs: walks that realise an ST.                                   *)

\* at[n] is where the walks of E that have visited the first n - 1 sets of st are.
Visits(at, E, st, m) ==
    /\ at[1] = st[1]
    /\ \A n \in 2..m : at[n] = Reach(E, at[n - 1]) \cap st[n]

\* The recursive definition has a solution.
LEMMA RealisedUnfold ==
    ASSUME NEW E, NEW m \in Nat \ {0}, NEW st, DOMAIN st = 1..m, Len(st) = m
    PROVE  \E at : Visits(at, E, st, m) /\ (Generate!Realised(E, st) <=> at[m] # {})
<1> DEFINE W == SUBSET UNION {st[n] : n \in 1..m}
           step == [x \in Nat \X W |->
                      IF x[1] + 1 \in 1..m THEN Reach(E, x[2]) \cap st[x[1] + 1] ELSE {}]
           Body(h, n) == IF n = 1 THEN st[1] ELSE Generate!Reach(E, h[n - 1]) \cap st[n]
<1>1. step \in [Nat \X W -> W]
    <2>1. ASSUME NEW x \in Nat \X W, x[1] + 1 \in 1..m PROVE Reach(E, x[2]) \cap st[x[1] + 1] \in W
        BY <2>1
    <2>2. {} \in W
        OBVIOUS
    <2> HIDE DEF W
    <2> QED
        BY <2>1, <2>2
<1>2. st[1] \in W
    <2>1. 1 \in 1..m
        OBVIOUS
    <2> QED
        BY <2>1
<1>3. \A k \in Nat, L \in W : k + 1 \in 1..m => step[<<k, L>>] = Reach(E, L) \cap st[k + 1]
    <2> HIDE DEF W
    <2> QED
        OBVIOUS
<1> HIDE DEF step, W
<1>4. PICK to : Iterates(to, m - 1, W, st[1], step)
    <2>1. m - 1 \in Nat
        OBVIOUS
    <2> QED
        BY <1>1, <1>2, <2>1, Recursion
<1> DEFINE h == [n \in 1..m |-> to[n - 1]]
<1>5. ASSUME NEW n \in 1..m PROVE h[n] = Body(h, n)
    <2>1. CASE n = 1
        BY <1>4, <2>1 DEF Iterates
    <2>2. CASE n # 1
        <3>1. n - 1 \in 1..(m - 1) /\ n - 1 \in Nat /\ (n - 1) + 1 = n /\ n - 1 \in 1..m
              /\ (n - 1) - 1 \in 0..(m - 1)
            BY <2>2
        <3>2. to[(n - 1) - 1] \in W /\ to[n - 1] = step[<<n - 1, to[(n - 1) - 1]>>]
            BY <1>4, <3>1 DEF Iterates
        <3>3. to[n - 1] = Reach(E, to[(n - 1) - 1]) \cap st[n]
            BY <1>3, <3>1, <3>2
        <3>4. h[n] = to[n - 1] /\ h[n - 1] = to[(n - 1) - 1]
            BY <3>1
        <3> HIDE DEF h
        <3> QED
            BY <2>2, <3>3, <3>4, SameReach
    <2> QED
        BY <2>1, <2>2
<1>6. h = [n \in 1..m |-> Body(h, n)]
    BY <1>5
<1> HIDE DEF h
<1> DEFINE at == CHOOSE g : g = [n \in 1..m |-> Body(g, n)]
<1>7. at = [n \in 1..m |-> Body(at, n)]
    BY <1>6
<1>8. Generate!Realised(E, st) <=> at[m] # {}
    BY Zenon DEF Generate!Realised
<1> HIDE DEF at
<1>9. ASSUME NEW n \in 1..m PROVE at[n] = Body(at, n)
    <2> HIDE DEF Body
    <2> QED
        BY <1>7
<1>10. at[1] = st[1]
    <2>1. 1 \in 1..m
        OBVIOUS
    <2> QED
        BY <1>9, <2>1
<1>11. ASSUME NEW n \in 2..m PROVE at[n] = Reach(E, at[n - 1]) \cap st[n]
    <2>1. n \in 1..m /\ n # 1
        OBVIOUS
    <2> QED
        BY <1>9, <2>1, SameReach
<1> QED
    BY <1>8, <1>10, <1>11 DEF Visits

\* To be reached from a set is to be reached from one of its members.
LEMMA ReachSet ==
    ASSUME NEW E, IsFiniteSet(E), NEW S, NEW y
    PROVE  y \in Reach(E, S) <=> \E x \in S : y \in Reach(E, {x})
<1>1. ASSUME NEW x \in S, y \in Reach(E, {x}) PROVE y \in Reach(E, S)
    <2>1. {x} \in SUBSET S /\ E \in SUBSET E
        OBVIOUS
    <2> QED
        BY <1>1, <2>1, ReachMonotone
<1> QED
    BY <1>1, ReachFromMember

\* STs of two, three and four sets.
LEMMA RealisedPair ==
    ASSUME NEW E, IsFiniteSet(E), NEW A, NEW B
    PROVE  Generate!Realised(E, <<A, B>>) <=> \E a \in A, b \in B : b \in Reach(E, {a})
<1> DEFINE st == <<A, B>>
<1>1. DOMAIN st = 1..2 /\ Len(st) = 2 /\ st[1] = A /\ st[2] = B
    OBVIOUS
<1> HIDE DEF st
<1>2. PICK at : Visits(at, E, st, 2) /\ (Generate!Realised(E, st) <=> at[2] # {})
    <2>1. 2 \in Nat \ {0}
        OBVIOUS
    <2> QED
        BY <1>1, <2>1, RealisedUnfold
<1>3. at[2] = Reach(E, A) \cap B
    BY <1>1, <1>2 DEF Visits
<1>4. at[2] # {} <=> \E b \in B : b \in Reach(E, A)
    BY <1>3
<1>5. Generate!Realised(E, st) <=> \E a \in A, b \in B : b \in Reach(E, {a})
    BY <1>2, <1>4, ReachSet
<1> QED
    BY <1>5 DEF st

Walk3(E, A, B, C) ==
    \E a \in A, b \in B, c \in C : b \in Reach(E, {a}) /\ c \in Reach(E, {b})

Walk4(E, A, B, C, D) ==
    \E a \in A, b \in B, c \in C, d \in D :
        b \in Reach(E, {a}) /\ c \in Reach(E, {b}) /\ d \in Reach(E, {c})

LEMMA RealisedTriple ==
    ASSUME NEW E, IsFiniteSet(E), NEW A, NEW B, NEW C
    PROVE  Generate!Realised(E, <<A, B, C>>) <=> Walk3(E, A, B, C)
<1> DEFINE st == <<A, B, C>>
<1>1. DOMAIN st = 1..3 /\ Len(st) = 3 /\ st[1] = A /\ st[2] = B /\ st[3] = C
    OBVIOUS
<1> HIDE DEF st
<1>2. PICK at : Visits(at, E, st, 3) /\ (Generate!Realised(E, st) <=> at[3] # {})
    <2>1. 3 \in Nat \ {0}
        OBVIOUS
    <2> QED
        BY <1>1, <2>1, RealisedUnfold
<1>3. at[2] = Reach(E, A) \cap B /\ at[3] = Reach(E, at[2]) \cap C
    BY <1>1, <1>2 DEF Visits
<1>a. at[3] # {} <=> \E c \in C : c \in Reach(E, at[2])
    BY <1>3
<1>b. \A c : c \in Reach(E, at[2]) <=> \E b \in at[2] : c \in Reach(E, {b})
    BY ReachSet
<1>4. at[3] # {} <=> \E b \in at[2], c \in C : c \in Reach(E, {b})
    BY <1>a, <1>b
<1>5. \A b : b \in at[2] <=> b \in B /\ \E a \in A : b \in Reach(E, {a})
    BY <1>3, ReachSet
<1>6. Generate!Realised(E, st) <=>
          \E a \in A, b \in B, c \in C : b \in Reach(E, {a}) /\ c \in Reach(E, {b})
    BY <1>2, <1>4, <1>5
<1> QED
    BY <1>6 DEF st, Walk3

LEMMA RealisedQuadruple ==
    ASSUME NEW E, IsFiniteSet(E), NEW A, NEW B, NEW C, NEW D
    PROVE  Generate!Realised(E, <<A, B, C, D>>) <=> Walk4(E, A, B, C, D)
<1> DEFINE st == <<A, B, C, D>>
<1>1. DOMAIN st = 1..4 /\ Len(st) = 4 /\ st[1] = A /\ st[2] = B /\ st[3] = C /\ st[4] = D
    OBVIOUS
<1> HIDE DEF st
<1>2. PICK at : Visits(at, E, st, 4) /\ (Generate!Realised(E, st) <=> at[4] # {})
    <2>1. 4 \in Nat \ {0}
        OBVIOUS
    <2> QED
        BY <1>1, <2>1, RealisedUnfold
<1>3. at[2] = Reach(E, A) \cap B /\ at[3] = Reach(E, at[2]) \cap C /\ at[4] = Reach(E, at[3]) \cap D
    BY <1>1, <1>2 DEF Visits
<1>a. at[4] # {} <=> \E d \in D : d \in Reach(E, at[3])
    BY <1>3
<1>b. \A d : d \in Reach(E, at[3]) <=> \E c \in at[3] : d \in Reach(E, {c})
    BY ReachSet
<1>4. at[4] # {} <=> \E c \in at[3], d \in D : d \in Reach(E, {c})
    BY <1>a, <1>b
<1>5. \A c : c \in at[3] <=> c \in C /\ \E b \in at[2] : c \in Reach(E, {b})
    BY <1>3, ReachSet
<1>6. \A b : b \in at[2] <=> b \in B /\ \E a \in A : b \in Reach(E, {a})
    BY <1>3, ReachSet
<1>7. Generate!Realised(E, st) <=>
          \E a \in A, b \in B, c \in C, d \in D :
             b \in Reach(E, {a}) /\ c \in Reach(E, {b}) /\ d \in Reach(E, {c})
    <2>1. at[4] # {} <=> \E b \in at[2], c \in C, d \in D : c \in Reach(E, {b}) /\ d \in Reach(E, {c})
        BY <1>4, <1>5
    <2> QED
        BY <1>2, <1>6, <2>1
<1> QED
    BY <1>7 DEF st, Walk4

-----------------------------------------------------------------------------
(* GenerateSTs: the sources of an access.                                   *)

GValues(g) ==
    {Generate!Arg} \cup Generate!Of(g, {"load", "call", "intr"} \cup Generate!Computing)
GAccesses(g) == Generate!Of(g, {"load", "store"}) \ g.ca
GAddress(g, i) == GLoads(g, g.ptr[i])

\* What IsFunction says, in terms of Reach.
GWellFormed(g) ==
    /\ DOMAIN g = {"kind", "succ", "ops", "ptr", "ca", "glob", "direct", "secret", "taints"}
    /\ g.kind \in Seq(Generate!Kinds) /\ 1 \in DOMAIN g.kind
    /\ g.succ \in [DOMAIN g.kind -> SUBSET (DOMAIN g.kind)]
    /\ g.ops \in [DOMAIN g.kind -> SUBSET ((DOMAIN g.kind) \cup {Generate!Arg})]
    /\ g.ptr \in [DOMAIN g.kind -> SUBSET ((DOMAIN g.kind) \cup {Generate!Arg})]
    /\ g.ca \subseteq Generate!Of(g, {"load", "store"})
    /\ g.glob \subseteq Generate!Of(g, {"store"}) /\ g.direct \subseteq Generate!Of(g, {"call"})
    /\ g.secret \subseteq DOMAIN g.kind
    /\ g.taints \in [DOMAIN g.kind -> SUBSET (Generate!Of(g, {"load"}) \ g.ca)]
    /\ DOMAIN g.kind \subseteq {1} \cup Reach(Generate!CFG(g), {1})
    /\ \A i \in DOMAIN g.kind : \A y, z \in g.succ[i] :
          y = z \/ i \in Generate!Of(g, {"call", "term"})
    /\ \A i \in DOMAIN g.kind : Generate!Operands(g, i) \subseteq GValues(g)
    /\ \A s \in Generate!Of(g, {"store"}) : \A v, w \in g.ops[s] : v = w
    /\ \A l \in Generate!Of(g, {"load"}) \ g.ca : l \in g.taints[l]
    /\ \A i \in Generate!Of(g, Generate!Computing) :
          \A v \in Generate!Operands(g, i) \ {Generate!Arg} : g.taints[v] \subseteq g.taints[i]

LEMMA GSameFunctions == \A g : Generate!IsFunction(g) <=> GWellFormed(g)
BY SameReach, Zenon DEF Generate!IsFunction, GWellFormed, GValues, GAccesses, GAddress, GLoads

LEMMA GCFG ==
    ASSUME NEW g, Generate!IsFunction(g)
    PROVE  /\ Len(g.kind) \in Nat /\ DOMAIN g.kind = 1..Len(g.kind)
           /\ IsFiniteSet(DOMAIN g.kind) /\ IsFiniteSet(Generate!CFG(g))
           /\ Generate!CFG(g) \in SUBSET ((DOMAIN g.kind) \X (DOMAIN g.kind))
           /\ \A i \in DOMAIN g.kind : \A y \in g.succ[i] : <<i, y>> \in Generate!CFG(g)
<1>1. g.kind \in Seq(Generate!Kinds) /\ g.succ \in [DOMAIN g.kind -> SUBSET (DOMAIN g.kind)]
    BY GSameFunctions DEF GWellFormed
<1>2. Len(g.kind) \in Nat /\ DOMAIN g.kind = 1..Len(g.kind)
    BY <1>1
<1>3. IsFiniteSet(DOMAIN g.kind)
    BY <1>2, FS_Interval
<1>4. /\ Generate!CFG(g) \in SUBSET ((DOMAIN g.kind) \X (DOMAIN g.kind))
      /\ \A i \in DOMAIN g.kind : \A y \in g.succ[i] : <<i, y>> \in Generate!CFG(g)
    BY <1>1 DEF Generate!CFG
<1>5. IsFiniteSet((DOMAIN g.kind) \X (DOMAIN g.kind))
    BY <1>3, FS_Product
<1>6. IsFiniteSet(Generate!CFG(g))
    BY <1>4, <1>5, FS_Subset
<1> QED
    BY <1>2, <1>3, <1>4, <1>6

Avoiding(E, A) == {e \in E : e[1] \notin A}

\* A walk to i that avoids the members of A, which i is reached from, leaves A alone.
LEMMA ReachAvoiding ==
    ASSUME NEW E, IsFiniteSet(E), NEW x, NEW i \in Reach(E, {x}), NEW A,
           \A a \in A : i \notin Reach(E, {a})
    PROVE  i \in Reach(Avoiding(E, A), {x})
<1> DEFINE C == Avoiding(E, A)
           R == Reach(C, {x})
           W == {y \in Heads(E) : (y = i \/ i \in Reach(E, {y})) => y \in R}
<1>0. C \in SUBSET E
    BY DEF Avoiding
<1>1. C \in SUBSET E /\ IsFiniteSet(C)
    BY <1>0, FS_Subset
<1>2. \A e \in E : e[1] \notin A => e \in C
    BY DEF Avoiding
<1> HIDE DEF C
<1>3. \A e \in C : e[1] \in {x} \cup R => e[2] \in R
    BY <1>1, ReachClosed
<1> HIDE DEF R
<1>4. ASSUME NEW e \in E, e[1] \in {x} \cup W PROVE e[2] \in W
    <2> SUFFICES ASSUME e[2] = i \/ i \in Reach(E, {e[2]}) PROVE e[2] \in R
        BY DEF Heads
    <2>1. e[2] \in Reach(E, {e[1]})
        BY ReachClosed
    <2>2. Reach(E, {e[2]}) \subseteq Reach(E, {e[1]})
        BY <2>1, ReachTransitive
    <2>3. i \in Reach(E, {e[1]})
        BY <2>1, <2>2
    <2>4. e \in C
        BY <1>2, <2>3
    <2>5. e[1] \in {x} \cup R
        BY <1>4, <2>3
    <2> QED
        BY <1>3, <2>4, <2>5
<1>5. Reach(E, {x}) \subseteq W
    <2> HIDE DEF W
    <2> QED
        BY <1>4, ReachLeast
<1>6. i \in R
    BY <1>5
<1> QED
    BY <1>6 DEF R, C

\* On every walk to an access from where speculation may have gone wrong there is one
\* of the sources of the access.
LEMMA SourceOnTheWay ==
    ASSUME NEW g, Generate!IsFunction(g), NEW i \in GAccesses(g),
           NEW D \in SUBSET Generate!CFG(g), NEW x \in DOMAIN g.kind, i \in Reach(D, {x}),
           \/ /\ x = 1
              /\ \/ Generate!Arg \in GAddress(g, i)
                 \/ i \notin Reach(Avoiding(Generate!CFG(g), GAddress(g, i)), {1})
           \/ x \in Generate!Calls(g)
           \/ \E y, z \in g.succ[x] : /\ i = y \/ i \in Reach(Generate!CFG(g), {y})
                                      /\ i # z /\ i \notin Reach(Generate!CFG(g), {z})
    PROVE  \E s \in Generate!getSourcesForNCAAccess(g, i) : i \in Reach(D, {s})
<1> DEFINE E == Generate!CFG(g)
           I == DOMAIN g.kind
           back == Reach(Generate!Reversed(E), {i})
           address == GAddress(g, i)
           sources == Generate!getSourcesForNCAAccess(g, i)
<1>1. IsFiniteSet(I) /\ IsFiniteSet(E) /\ E \in SUBSET (I \X I)
    BY GCFG
<1>2. IsFiniteSet(D)
    BY <1>1, FS_Subset
<1>3. sources = back \cap ((address \ {Generate!Arg})
                             \cup (IF Generate!Arg \in address THEN {1} ELSE {})
                             \cup Generate!Guards(g, back) \cup Generate!Calls(g))
    BY SameReach, Zenon DEF Generate!getSourcesForNCAAccess, GAddress, GLoads
<1> HIDE DEF sources, address
<1>4. \A y : y \in back <=> i \in Reach(E, {y})
    BY <1>1, ReachReversed, Zenon
<1>5. \A y : i \in Reach(D, {y}) => y \in back
    <2>1. \A y : Reach(D, {y}) \subseteq Reach(E, {y})
        <3> TAKE y
        <3>1. {y} \in SUBSET {y} /\ D \in SUBSET E
            OBVIOUS
        <3> QED
            BY <1>1, <3>1, ReachMonotone
    <2> QED
        BY <1>4, <2>1
<1>6. x \in back
    BY <1>5
<1> HIDE DEF back
<1>7. CASE x \in Generate!Calls(g)
    <2>1. x \in sources
        BY <1>3, <1>6, <1>7
    <2> QED
        BY <2>1 DEF sources
<1>8. CASE \E y, z \in g.succ[x] : /\ i = y \/ i \in Reach(E, {y})
                                   /\ i # z /\ i \notin Reach(E, {z})
    <2>1. PICK y \in g.succ[x], z \in g.succ[x] : y # z /\ i \notin Reach(E, {z})
        BY <1>8
    <2>2. x \in Generate!Of(g, {"call", "term"})
        BY <2>1, GSameFunctions DEF GWellFormed
    <2>3. CASE x \in Generate!Of(g, {"term"})
        <3>1. z \notin back
            BY <1>4, <2>1
        <3>2. x \in Generate!Guards(g, back)
            BY <1>6, <2>1, <2>3, <3>1 DEF Generate!Guards
        <3>3. x \in sources
            BY <1>3, <1>6, <3>2
        <3> QED
            BY <3>3 DEF sources
    <2>4. CASE x \notin Generate!Of(g, {"term"})
        <3>1. x \in Generate!Calls(g)
            BY <2>2, <2>4 DEF Generate!Of, Generate!Calls
        <3> QED
            BY <1>7, <3>1
    <2> QED
        BY <2>3, <2>4
<1>9. CASE /\ x = 1
           /\ Generate!Arg \in address \/ i \notin Reach(Avoiding(E, address), {1})
    <2>1. CASE Generate!Arg \in address
        <3>1. x \in sources
            BY <1>3, <1>6, <1>9, <2>1
        <3> QED
            BY <3>1 DEF sources
    <2>2. CASE Generate!Arg \notin address
        <3> SUFFICES ASSUME \A a \in address : i \notin Reach(D, {a}) PROVE FALSE
            <4>1. ASSUME NEW a \in address, i \in Reach(D, {a}) PROVE a \in sources
                BY <1>3, <1>5, <2>2, <4>1
            <4> QED
                BY <4>1 DEF sources
        <3>1. i \in Reach(Avoiding(D, address), {1})
            <4>1. i \in Reach(D, {1})
                BY <1>9
            <4> QED
                BY <1>2, <4>1, ReachAvoiding
        <3> DEFINE C == Avoiding(E, address)
        <3>2. i \notin Reach(C, {1})
            BY <1>9, <2>2
        <3>3. Avoiding(D, address) \in SUBSET C /\ IsFiniteSet(C) /\ {1} \in SUBSET {1}
            <4>1. C \in SUBSET E /\ Avoiding(D, address) \in SUBSET C
                BY DEF Avoiding
            <4> QED
                BY <1>1, <4>1, FS_Subset
        <3>4. Reach(Avoiding(D, address), {1}) \subseteq Reach(C, {1})
            <4> HIDE DEF C
            <4> QED
                BY <3>3, ReachMonotone
        <3> QED
            BY <3>1, <3>2, <3>4
    <2> QED
        BY <2>1, <2>2
<1> QED
    BY <1>7, <1>8, <1>9 DEF address

\* What is marked along the operands is marked where a value that is computed from
\* it is used.
LEMMA FlowsUp ==
    ASSUME NEW g, Generate!IsFunction(g), NEW V \in SUBSET GValues(g), NEW T,
           \A i \in Generate!Of(g, Generate!Computing) :
              \A v \in Generate!Operands(g, i) : v \in T => i \in T,
           NEW u \in GLoads(g, V), u \in T
    PROVE  \E w \in V : w \in T
<1> DEFINE U == GValues(g) \ T
<1> SUFFICES ASSUME V \subseteq U PROVE FALSE
    OBVIOUS
<1>1. OperandsIn(g, U)
    <2> SUFFICES ASSUME NEW v \in U, ~Generate!Leaf(g, v) PROVE Generate!Operands(g, v) \subseteq U
        BY DEF OperandsIn
    <2>1. v \in Generate!Of(g, Generate!Computing) /\ v \in DOMAIN g.kind
        BY DEF GValues, Generate!Leaf, Generate!Of
    <2>2. Generate!Operands(g, v) \subseteq GValues(g)
        BY <2>1, GSameFunctions DEF GWellFormed
    <2> QED
        BY <2>1, <2>2
<1>2. Len(g.kind) \in Nat
    BY GCFG
<1> HIDE DEF U
<1>3. u \in U
    BY <1>1, <1>2, LoadsLeast
<1> QED
    BY <1>3 DEF U

\* Loads, calls and arguments are values; from nothing, nothing is computed.
LEMMA LoadsAreValues ==
    ASSUME NEW g, Generate!IsFunction(g), NEW V \in SUBSET GValues(g)
    PROVE  /\ GLoads(g, V) \subseteq GValues(g)
           /\ V = {} => GLoads(g, V) = {}
           /\ V = {Generate!Arg} => GLoads(g, V) \subseteq {Generate!Arg}
<1>1. Len(g.kind) \in Nat
    BY GCFG
<1>2. OperandsIn(g, GValues(g))
    <2> SUFFICES ASSUME NEW v \in GValues(g), ~Generate!Leaf(g, v)
                 PROVE  Generate!Operands(g, v) \subseteq GValues(g)
        BY DEF OperandsIn
    <2>1. v \in DOMAIN g.kind
        BY DEF GValues, Generate!Leaf, Generate!Of
    <2> QED
        BY <2>1, GSameFunctions DEF GWellFormed
<1>3. OperandsIn(g, {}) /\ OperandsIn(g, {Generate!Arg})
    BY DEF OperandsIn, Generate!Leaf
<1>4. GLoads(g, V) \subseteq GValues(g)
    BY <1>1, <1>2, LoadsLeast
<1>5. ASSUME V = {} PROVE GLoads(g, V) = {}
    <2>1. V \subseteq {}
        BY <1>5
    <2> QED
        BY <1>1, <1>3, <2>1, LoadsLeast
<1>6. ASSUME V = {Generate!Arg} PROVE GLoads(g, V) \subseteq {Generate!Arg}
    <2>1. V \subseteq {Generate!Arg}
        BY <1>6
    <2> QED
        BY <1>1, <1>3, <2>1, LoadsLeast
<1> QED
    BY <1>4, <1>5, <1>6

\* What is tainted goes on being tainted.
LEMMA TaintsUp ==
    ASSUME NEW g, Generate!IsFunction(g), NEW V \in SUBSET GValues(g),
           NEW u \in GLoads(g, V), Generate!ST_secret(g, u)
    PROVE  \E w \in V : Generate!ST_secret(g, w)
<1> DEFINE T == {w \in GValues(g) : Generate!ST_secret(g, w)}
<1>1. u \in T
    BY LoadsAreValues
<1>2. ASSUME NEW i \in Generate!Of(g, Generate!Computing), NEW w \in Generate!Operands(g, i), w \in T
      PROVE  i \in T
    <2>1. w # Generate!Arg /\ g.taints[w] # {}
        BY <1>2 DEF Generate!ST_secret
    <2>2. g.taints[w] \subseteq g.taints[i]
        BY <2>1, GSameFunctions DEF GWellFormed
    <2>3. i # Generate!Arg /\ i \in GValues(g)
        <3>1. i \in 1..Len(g.kind)
            BY GCFG DEF Generate!Of
        <3> QED
            BY <3>1 DEF Generate!Arg, GValues, Generate!Of
    <2> QED
        BY <2>1, <2>2, <2>3 DEF Generate!ST_secret
<1> HIDE DEF T
<1>3. \E w \in V : w \in T
    BY <1>1, <1>2, FlowsUp
<1> QED
    BY <1>3 DEF T

\* Every write of a secret to what may be a wrong address that the pass does not warn
\* of is among the stores that STs are made for.
LEMMA OverwritesAreStores ==
    ASSUME Generate!IsFunction(x1), NEW s \in Generate!Overwrites
    PROVE  s \in Generate!ncas
<1> DEFINE ops == x1.ops[s]
           from == Generate!Incoming(x1, s)
<1>1. CASE s \in Generate!Of(x1, {"memcpy"})
    BY <1>1 DEF Generate!ncas
<1>2. CASE s \notin Generate!Of(x1, {"memcpy"})
    <2>1. /\ s \in Generate!Of(x1, {"store"}) \ x1.ca /\ s \notin Generate!Warned
          /\ \E v \in from : v \in x1.secret \/ Generate!ST_secret(x1, v)
        BY <1>2, Zenon DEF Generate!Overwrites
    <2>2. s \in DOMAIN x1.kind
        BY <2>1 DEF Generate!Of
    <2>3. ops \in SUBSET GValues(x1)
        <3>1. Generate!Operands(x1, s) \subseteq GValues(x1)
            BY <2>2, GSameFunctions DEF GWellFormed
        <3> QED
            BY <3>1 DEF Generate!Operands
    <2>4. from \subseteq GLoads(x1, ops)
        BY Zenon DEF Generate!Incoming, GLoads
    <2> HIDE DEF from
    <2>5. ops # {} /\ (ops = {Generate!Arg} => from \subseteq {Generate!Arg})
        BY <2>1, <2>3, <2>4, LoadsAreValues
    <2>6. Generate!Arg \notin x1.secret /\ ~Generate!ST_secret(x1, Generate!Arg)
        <3>1. x1.secret \subseteq 1..Len(x1.kind)
            BY GSameFunctions, GCFG DEF GWellFormed
        <3> QED
            BY <3>1 DEF Generate!ST_secret, Generate!Arg
    <2>7. s \in Generate!NCAStores(x1) /\ ops # {Generate!Arg}
        BY <2>1, <2>5, <2>6 DEF Generate!NCAStores
    <2>8. CASE "ncas_all" \in x5
        BY <2>7, <2>8 DEF Generate!ncas
    <2>9. CASE "ncas_all" \notin x5
        <3>1. s \notin Generate!Mismatched(x1)
            BY <2>1, <2>9 DEF Generate!Warned
        <3>2. CASE from \cap x1.secret # {}
            BY <2>7, <3>1, <3>2 DEF from, Generate!SecretStores, Generate!ncas
        <3>3. CASE from \cap x1.secret = {}
            <4>1. PICK v \in from : Generate!ST_secret(x1, v)
                BY <2>1, <3>3
            <4>2. \E w \in ops : Generate!ST_secret(x1, w)
                BY <2>3, <2>4, <4>1, TaintsUp
            <4>3. \A w \in ops : Generate!ST_secret(x1, w)
                <5>1. \A v1, w \in ops : v1 = w
                    BY <2>1, GSameFunctions DEF GWellFormed
                <5> QED
                    BY <4>2, <5>1
            <4> QED
                BY <2>7, <3>1, <3>3, <4>1, <4>3 DEF from, Generate!SecretStores, Generate!ncas
        <3> QED
            BY <3>2, <3>3
    <2> QED
        BY <2>8, <2>9
<1> QED
    BY <1>1, <1>2

\* Concatenations of short walks.
LEMMA ConcatenatedElements ==
    ASSUME NEW T, NEW s \in Seq(T), NEW t \in Seq(T), NEW r \in Seq(T), Len(r) = Len(s) + Len(t),
           \A i \in 1..Len(s) : r[i] = s[i], \A i \in 1..Len(t) : r[Len(s) + i] = t[i]
    PROVE  s \o t = r
<1>1. /\ s \o t \in Seq(T) /\ Len(s \o t) = Len(s) + Len(t)
      /\ \A i \in 1..(Len(s) + Len(t)) : (s \o t)[i] =
            IF i <= Len(s) THEN s[i] ELSE t[i - Len(s)]
    BY ConcatProperties
<1>2. ASSUME NEW i \in 1..(Len(s) + Len(t)) PROVE (s \o t)[i] = r[i]
    <2>1. CASE i <= Len(s)
        BY <1>1, <2>1
    <2>2. CASE ~(i <= Len(s))
        <3>1. i - Len(s) \in 1..Len(t) /\ Len(s) + (i - Len(s)) = i
            BY <2>2
        <3> QED
            BY <1>1, <2>2, <3>1
    <2> QED
        BY <2>1, <2>2
<1> QED
    BY <1>1, <1>2, SeqEqual

LEMMA Concatenated1 ==
    ASSUME NEW a, NEW b
    PROVE  <<a>> \o <<b>> = <<a, b>>
<1> DEFINE T == {a, b}
           s == <<a>>
           t == <<b>>
           r == <<a, b>>
<1>1. s \in Seq(T) /\ t \in Seq(T) /\ r \in Seq(T) /\ Len(s) = 1 /\ Len(t) = 1 /\ Len(r) = 2
    OBVIOUS
<1>2. \A i \in 1..1 : r[i] = s[i]
    <2>1. \A i \in 1..1 : i = 1
        OBVIOUS
    <2> QED
        BY <2>1
<1>3. \A i \in 1..1 : r[1 + i] = t[i]
    <2>1. \A i \in 1..1 : i = 1
        OBVIOUS
    <2> QED
        BY <2>1
<1> HIDE DEF s, t, r
<1>4. s \o t = r
    <2>1. Len(r) = Len(s) + Len(t)
        BY <1>1
    <2>2. \A i \in 1..Len(s) : r[i] = s[i]
        BY <1>1, <1>2
    <2>3. \A i \in 1..Len(t) : r[Len(s) + i] = t[i]
        BY <1>1, <1>3
    <2> HIDE DEF T
    <2> QED
        BY <1>1, <2>1, <2>2, <2>3, ConcatenatedElements
<1> QED
    BY <1>4 DEF s, t, r

LEMMA Concatenated2 ==
    ASSUME NEW a, NEW b, NEW c
    PROVE  <<a, b>> \o <<c>> = <<a, b, c>>
<1> DEFINE T == {a, b, c}
           s == <<a, b>>
           t == <<c>>
           r == <<a, b, c>>
<1>1. s \in Seq(T) /\ t \in Seq(T) /\ r \in Seq(T) /\ Len(s) = 2 /\ Len(t) = 1 /\ Len(r) = 3
    OBVIOUS
<1>2. \A i \in 1..2 : r[i] = s[i]
    <2>1. \A i \in 1..2 : i = 1 \/ i = 2
        OBVIOUS
    <2> QED
        BY <2>1
<1>3. \A i \in 1..1 : r[2 + i] = t[i]
    <2>1. \A i \in 1..1 : i = 1
        OBVIOUS
    <2> QED
        BY <2>1
<1> HIDE DEF s, t, r
<1>4. s \o t = r
    <2>1. Len(r) = Len(s) + Len(t)
        BY <1>1
    <2>2. \A i \in 1..Len(s) : r[i] = s[i]
        BY <1>1, <1>2
    <2>3. \A i \in 1..Len(t) : r[Len(s) + i] = t[i]
        BY <1>1, <1>3
    <2> HIDE DEF T
    <2> QED
        BY <1>1, <2>1, <2>2, <2>3, ConcatenatedElements
<1> QED
    BY <1>4 DEF s, t, r

LEMMA Concatenated3 ==
    ASSUME NEW a, NEW b, NEW c
    PROVE  <<a>> \o <<b, c>> = <<a, b, c>>
<1> DEFINE T == {a, b, c}
           s == <<a>>
           t == <<b, c>>
           r == <<a, b, c>>
<1>1. s \in Seq(T) /\ t \in Seq(T) /\ r \in Seq(T) /\ Len(s) = 1 /\ Len(t) = 2 /\ Len(r) = 3
    OBVIOUS
<1>2. \A i \in 1..1 : r[i] = s[i]
    <2>1. \A i \in 1..1 : i = 1
        OBVIOUS
    <2> QED
        BY <2>1
<1>3. \A i \in 1..2 : r[1 + i] = t[i]
    <2>1. \A i \in 1..2 : i = 1 \/ i = 2
        OBVIOUS
    <2> QED
        BY <2>1
<1> HIDE DEF s, t, r
<1>4. s \o t = r
    <2>1. Len(r) = Len(s) + Len(t)
        BY <1>1
    <2>2. \A i \in 1..Len(s) : r[i] = s[i]
        BY <1>1, <1>2
    <2>3. \A i \in 1..Len(t) : r[Len(s) + i] = t[i]
        BY <1>1, <1>3
    <2> HIDE DEF T
    <2> QED
        BY <1>1, <2>1, <2>2, <2>3, ConcatenatedElements
<1> QED
    BY <1>4 DEF s, t, r

LEMMA Concatenated4 ==
    ASSUME NEW a, NEW b, NEW c, NEW d
    PROVE  <<a, b>> \o <<c, d>> = <<a, b, c, d>>
<1> DEFINE T == {a, b, c, d}
           s == <<a, b>>
           t == <<c, d>>
           r == <<a, b, c, d>>
<1>1. s \in Seq(T) /\ t \in Seq(T) /\ r \in Seq(T) /\ Len(s) = 2 /\ Len(t) = 2 /\ Len(r) = 4
    OBVIOUS
<1>2. \A i \in 1..2 : r[i] = s[i]
    <2>1. \A i \in 1..2 : i = 1 \/ i = 2
        OBVIOUS
    <2> QED
        BY <2>1
<1>3. \A i \in 1..2 : r[2 + i] = t[i]
    <2>1. \A i \in 1..2 : i = 1 \/ i = 2
        OBVIOUS
    <2> QED
        BY <2>1
<1> HIDE DEF s, t, r
<1>4. s \o t = r
    <2>1. Len(r) = Len(s) + Len(t)
        BY <1>1
    <2>2. \A i \in 1..Len(s) : r[i] = s[i]
        BY <1>1, <1>2
    <2>3. \A i \in 1..Len(t) : r[Len(s) + i] = t[i]
        BY <1>1, <1>3
    <2> HIDE DEF T
    <2> QED
        BY <1>1, <2>1, <2>2, <2>3, ConcatenatedElements
<1> QED
    BY <1>4 DEF s, t, r

\* Walks through single instructions.
LEMMA WalkPair ==
    ASSUME NEW E, IsFiniteSet(E), NEW a, NEW b, Generate!Realised(E, <<{a}, {b}>>)
    PROVE  b \in Reach(E, {a})
<1> DEFINE A == {a}
           B == {b}
<1>1. \E y \in A, z \in B : z \in Reach(E, {y})
    <2>1. Generate!Realised(E, <<A, B>>)
        OBVIOUS
    <2> HIDE DEF A, B
    <2> QED
        BY <2>1, RealisedPair
<1> QED
    BY <1>1

LEMMA WalkTriple ==
    ASSUME NEW E, IsFiniteSet(E), NEW a, NEW b, NEW c, Generate!Realised(E, <<{a}, {b}, {c}>>)
    PROVE  b \in Reach(E, {a}) /\ c \in Reach(E, {b})
<1>1. Walk3(E, {a}, {b}, {c})
    BY RealisedTriple
<1> QED
    BY <1>1 DEF Walk3

LEMMA WalkQuadruple ==
    ASSUME NEW E, IsFiniteSet(E), NEW a, NEW b, NEW c, NEW d,
           Generate!Realised(E, <<{a}, {b}, {c}, {d}>>)
    PROVE  b \in Reach(E, {a}) /\ c \in Reach(E, {b}) /\ d \in Reach(E, {c})
<1>1. Walk4(E, {a}, {b}, {c}, {d})
    BY RealisedQuadruple
<1> QED
    BY <1>1 DEF Walk4

\* What NcasXmit and NcalXmit add.
GSeen(s) == {s} \cup Reach(Generate!CFG(x1), {s})
GLeaked(t) ==
    GLoads(x1, Generate!get_transmitter_sensitive_operands(x1, t)) \cap Generate!Of(x1, {"load"})
GNcasST(s) ==
    LET xmits == {t \in GSeen(s) : GLeaked(t) \cap GSeen(s) # {}}
    IN  IF "expand" \in x5 THEN <<Generate!getSourcesForNCAAccess(x1, s), {s}, xmits>>
        ELSE <<{s}, xmits>>
GNcalST(l, t) ==
    IF "expand" \in x5 /\ l # 1 THEN <<Generate!getSourcesForNCAAccess(x1, l), {l}, {t}>>
    ELSE <<{l}, {t}>>

GMadeNcas(s) == GNcasST(s) \in x2 /\ ("expand" \in x5 => ~Generate!SourcesFail(s))

\* The NCALs of a transmitter are loads from addresses that are not constant.
LEMMA NcalIsLoad ==
    ASSUME Generate!IsFunction(x1), NEW t \in DOMAIN x1.kind, NEW l \in Generate!TransmitterNCALs(x1, t)
    PROVE  l \in Generate!Of(x1, {"load"}) \ x1.ca /\ l \in GAccesses(x1)
<1>1. PICK o \in Generate!get_transmitter_sensitive_operands(x1, t) \ {Generate!Arg} : l \in x1.taints[o]
    BY DEF Generate!TransmitterNCALs
<1>2. /\ x1.ops[t] \subseteq (DOMAIN x1.kind) \cup {Generate!Arg}
      /\ x1.ptr[t] \subseteq (DOMAIN x1.kind) \cup {Generate!Arg}
    BY GSameFunctions DEF GWellFormed
<1>3. Generate!get_transmitter_sensitive_operands(x1, t) \subseteq x1.ops[t] \cup x1.ptr[t]
    BY DEF Generate!get_transmitter_sensitive_operands
<1>4. o \in DOMAIN x1.kind
    BY <1>1, <1>2, <1>3
<1>5. x1.taints[o] \subseteq Generate!Of(x1, {"load"}) \ x1.ca
    BY <1>4, GSameFunctions DEF GWellFormed
<1> QED
    BY <1>1, <1>5 DEF GAccesses, Generate!Of

\* A walk that goes wrong on the way to access i, and one that begins at a source of it.
LEMMA WrongFromSource ==
    ASSUME Generate!IsFunction(x1), NEW D \in SUBSET Generate!CFG(x1), NEW i \in GAccesses(x1),
           NEW x \in Generate!Starts(i), i \in Reach(D, {x})
    PROVE  \E s \in Generate!getSourcesForNCAAccess(x1, i) : i \in Reach(D, {s})
<1>1. /\ x \in DOMAIN x1.kind
      /\ \/ /\ x = 1
            /\ \/ Generate!Arg \in GAddress(x1, i)
               \/ i \notin Reach(Avoiding(Generate!CFG(x1), GAddress(x1, i)), {1})
         \/ x \in Generate!Calls(x1)
         \/ \E y, z \in x1.succ[x] : /\ i = y \/ i \in Reach(Generate!CFG(x1), {y})
                                     /\ i # z /\ i \notin Reach(Generate!CFG(x1), {z})
    BY SameReach, Zenon DEF Generate!Starts, Generate!ConstantOnSomeWay, GAddress, GLoads, Avoiding
<1> QED
    BY <1>1, SourceOnTheWay

LEMMA CutFinite ==
    ASSUME Generate!IsFunction(x1), NEW D \in SUBSET Generate!CFG(x1)
    PROVE  IsFiniteSet(D) /\ IsFiniteSet(Generate!CFG(x1))
BY GCFG, FS_Subset

\* The ST of an NCAL and a transmitter is realised with each of their leaks.
LEMMA NcalStopped ==
    ASSUME Generate!IsFunction(x1), NEW D \in SUBSET Generate!CFG(x1),
           NEW t \in DOMAIN x1.kind, NEW l \in Generate!TransmitterNCALs(x1, t),
           NEW w \in Generate!Wrong(l), Generate!Realised(D, w \o <<{t}>>)
    PROVE  Generate!Realised(D, GNcalST(l, t))
<1>1. IsFiniteSet(D) /\ l \in GAccesses(x1)
    BY CutFinite, NcalIsLoad
<1>2. CASE "expand" \in x5 /\ l # 1
    <2> DEFINE src == Generate!getSourcesForNCAAccess(x1, l)
    <2>1. PICK x \in Generate!Starts(l) : w = <<{x}, {l}>>
        BY <1>2 DEF Generate!Wrong
    <2>2. Generate!Realised(D, <<{x}, {l}, {t}>>)
        BY <2>1, Concatenated2
    <2>3. l \in Reach(D, {x}) /\ t \in Reach(D, {l})
        BY <1>1, <2>2, WalkTriple
    <2>4. \E s \in src : l \in Reach(D, {s})
        BY <1>1, <2>3, WrongFromSource
    <2> HIDE DEF src
    <2>5. Generate!Realised(D, <<src, {l}, {t}>>)
        BY <1>1, <2>3, <2>4, RealisedTriple DEF Walk3
    <2> QED
        BY <1>2, <2>5 DEF GNcalST, src
<1>3. CASE ~("expand" \in x5 /\ l # 1)
    <2>1. w = <<{l}>>
        BY <1>3 DEF Generate!Wrong
    <2>2. Generate!Realised(D, <<{l}, {t}>>)
        BY <2>1, Concatenated1
    <2> QED
        BY <1>3, <2>2 DEF GNcalST
<1> QED
    BY <1>2, <1>3

\* The ST of a store is realised with each of its leaks that goes on at a load.
LEMMA NcasStopped ==
    ASSUME Generate!IsFunction(x1), NEW D \in SUBSET Generate!CFG(x1),
           NEW s \in Generate!Overwrites, "expand" \in x5 => ~Generate!SourcesFail(s),
           NEW t \in DOMAIN x1.kind, NEW l \in GLeaked(t),
           NEW w \in Generate!Wrong(s), Generate!Realised(D, w \o <<{l}, {t}>>)
    PROVE  Generate!Realised(D, GNcasST(s))
<1> DEFINE seen == GSeen(s)
           xmits == {u \in seen : GLeaked(u) \cap seen # {}}
<1>1. IsFiniteSet(D) /\ IsFiniteSet(Generate!CFG(x1))
    BY CutFinite
<1>2. ASSUME l \in Reach(D, {s}), t \in Reach(D, {l}) PROVE t \in xmits /\ t \in Reach(D, {s})
    <2>1. t \in Reach(D, {s})
        BY <1>1, <1>2, ReachTransitive
    <2>2. {s} \in SUBSET {s}
        OBVIOUS
    <2>3. Reach(D, {s}) \subseteq Reach(Generate!CFG(x1), {s})
        BY <1>1, <2>2, ReachMonotone
    <2>4. l \in seen /\ t \in seen
        BY <1>2, <2>1, <2>3 DEF GSeen
    <2> HIDE DEF seen
    <2> QED
        BY <2>1, <2>4
<1> HIDE DEF xmits
<1>3. CASE "expand" \in x5
    <2> DEFINE src == Generate!getSourcesForNCAAccess(x1, s)
    <2>1. s # 1 /\ s \in GAccesses(x1)
        <3>1. s # 1 /\ x1.kind[s] # "memcpy"
            BY <1>3 DEF Generate!SourcesFail
        <3>2. s \in Generate!Of(x1, {"store"}) \ x1.ca
            BY <3>1, Zenon DEF Generate!Overwrites, Generate!Of
        <3> QED
            BY <3>1, <3>2 DEF GAccesses, Generate!Of
    <2>2. PICK x \in Generate!Starts(s) : w = <<{x}, {s}>>
        BY <1>3, <2>1 DEF Generate!Wrong
    <2>3. Generate!Realised(D, <<{x}, {s}, {l}, {t}>>)
        BY <2>2, Concatenated4
    <2>4. s \in Reach(D, {x}) /\ l \in Reach(D, {s}) /\ t \in Reach(D, {l})
        BY <1>1, <2>3, WalkQuadruple
    <2>5. \E y \in src : s \in Reach(D, {y})
        BY <2>1, <2>4, WrongFromSource
    <2> HIDE DEF src
    <2>6. t \in xmits /\ t \in Reach(D, {s})
        BY <1>2, <2>4
    <2>7. Generate!Realised(D, <<src, {s}, xmits>>)
        BY <1>1, <2>5, <2>6, RealisedTriple DEF Walk3
    <2> QED
        BY <1>3, <2>7 DEF GNcasST, src, xmits
<1>4. CASE "expand" \notin x5
    <2>1. w = <<{s}>>
        BY <1>4 DEF Generate!Wrong
    <2>2. Generate!Realised(D, <<{s}, {l}, {t}>>)
        BY <2>1, Concatenated3
    <2>3. l \in Reach(D, {s}) /\ t \in Reach(D, {l})
        BY <1>1, <2>2, WalkTriple
    <2>4. t \in xmits /\ t \in Reach(D, {s})
        BY <1>2, <2>3
    <2>5. Generate!Realised(D, <<{s}, xmits>>)
        BY <1>1, <2>4, RealisedPair
    <2> QED
        BY <1>4, <2>5 DEF GNcasST, xmits
<1> QED
    BY <1>3, <1>4

\* The ST of all stores is realised with each leak that ends at a call or return.
LEMMA CtrlStopped ==
    ASSUME Generate!IsFunction(x1), NEW D \in SUBSET Generate!CFG(x1),
           NEW s \in Generate!Overwrites, NEW c \in Generate!ctrls(x1),
           Generate!Realised(D, <<{s}, {c}>>)
    PROVE  Generate!Realised(D, <<Generate!ncas, Generate!ctrls(x1)>>)
<1>1. IsFiniteSet(D) /\ s \in Generate!ncas
    BY CutFinite, OverwritesAreStores
<1>2. c \in Reach(D, {s})
    BY <1>1, WalkPair
<1> QED
    BY <1>1, <1>2, RealisedPair

GMade ==
    /\ "ncas_xmit" \in x5 => \A s \in Generate!ncas : GMadeNcas(s)
    /\ "ncas_ctrl" \in x5 => <<Generate!ncas, Generate!ctrls(x1)>> \in x2
    /\ "ncal_xmit" \in x5 =>
          \A t \in DOMAIN x1.kind : \A l \in Generate!TransmitterNCALs(x1, t) : GNcalST(l, t) \in x2

\* The STs of these kinds have two or three sets.
GShape(st) == (\E A, B : st = <<A, B>>) \/ (\E A, B, C : st = <<A, B, C>>)

LEMMA GShapes ==
    /\ \A s : GShape(GNcasST(s))
    /\ \A l, t : GShape(GNcalST(l, t))
    /\ GShape(<<Generate!ncas, Generate!ctrls(x1)>>)
BY DEF GShape, GNcasST, GNcalST

\* What a leak is made of.
LEMMA LeakKinds ==
    ASSUME NEW leak \in Generate!Leaks
    PROVE  \/ /\ "ncal_xmit" \in x5
              /\ \E t \in DOMAIN x1.kind : \E l \in Generate!TransmitterNCALs(x1, t) :
                    \E w \in Generate!Wrong(l) : leak = w \o <<{t}>>
           \/ /\ "ncas_xmit" \in x5
              /\ \E t \in DOMAIN x1.kind : \E l \in GLeaked(t) : \E s \in Generate!Overwrites :
                    \E w \in Generate!Wrong(s) : leak = w \o <<{l}, {t}>>
           \/ /\ "ncas_ctrl" \in x5
              /\ \E s \in Generate!Overwrites, c \in Generate!ctrls(x1) : leak = <<{s}, {c}>>
<1>1. \A t : GLeaked(t) = Generate!LoadsGivenAway(t)
    BY DEF GLeaked, GLoads, Generate!LoadsGivenAway
<1>2. \/ "ncal_xmit" \in x5 /\ leak \in Generate!NcalLeaks
      \/ "ncas_xmit" \in x5 /\ leak \in Generate!NcasLeaks
      \/ "ncas_ctrl" \in x5 /\ leak \in Generate!CtrlLeaks
    BY DEF Generate!Leaks
<1>3. ASSUME leak \in Generate!NcalLeaks
      PROVE  \E t \in DOMAIN x1.kind : \E l \in Generate!TransmitterNCALs(x1, t) :
                \E w \in Generate!Wrong(l) : leak = w \o <<{t}>>
    BY <1>3 DEF Generate!NcalLeaks
<1>4. ASSUME leak \in Generate!NcasLeaks
      PROVE  \E t \in DOMAIN x1.kind : \E l \in GLeaked(t) : \E s \in Generate!Overwrites :
                \E w \in Generate!Wrong(s) : leak = w \o <<{l}, {t}>>
    <2> DEFINE ws == UNION {Generate!Wrong(s) : s \in Generate!Overwrites}
               of(t) == UNION {{w \o <<{l}, {t}>> : w \in ws} : l \in Generate!LoadsGivenAway(t)}
    <2>1. PICK t \in DOMAIN x1.kind : leak \in of(t)
        BY <1>4 DEF Generate!NcasLeaks
    <2>2. PICK l \in Generate!LoadsGivenAway(t), w \in ws : leak = w \o <<{l}, {t}>>
        BY <2>1
    <2> QED
        BY <1>1, <2>2
<1>5. ASSUME leak \in Generate!CtrlLeaks
      PROVE  \E s \in Generate!Overwrites, c \in Generate!ctrls(x1) : leak = <<{s}, {c}>>
    BY <1>5 DEF Generate!CtrlLeaks
<1> QED
    BY <1>2, <1>3, <1>4, <1>5

\* With these STs no leak is left.
LEMMA MadeStops ==
    ASSUME Generate!IsFunction(x1), GMade, NEW cut \in SUBSET Generate!CFG(x1),
           \A st \in x2 : GShape(st) => ~Generate!Realised(Generate!CFG(x1) \ cut, st),
           NEW leak \in Generate!Leaks
    PROVE  ~Generate!Realised(Generate!CFG(x1) \ cut, leak)
<1> DEFINE D == Generate!CFG(x1) \ cut
<1>1. D \in SUBSET Generate!CFG(x1) /\ \A st \in x2 : GShape(st) => ~Generate!Realised(D, st)
    OBVIOUS
<1> HIDE DEF D
<1> SUFFICES ASSUME Generate!Realised(D, leak) PROVE FALSE
    BY DEF D
<1>2. CASE /\ "ncal_xmit" \in x5
           /\ \E t \in DOMAIN x1.kind : \E l \in Generate!TransmitterNCALs(x1, t) :
                 \E w \in Generate!Wrong(l) : leak = w \o <<{t}>>
    BY <1>1, <1>2, NcalStopped, GShapes DEF GMade
<1>3. CASE /\ "ncas_xmit" \in x5
           /\ \E t \in DOMAIN x1.kind : \E l \in GLeaked(t) : \E s \in Generate!Overwrites :
                 \E w \in Generate!Wrong(s) : leak = w \o <<{l}, {t}>>
    BY <1>1, <1>3, NcasStopped, OverwritesAreStores, GShapes DEF GMade, GMadeNcas
<1>4. CASE /\ "ncas_ctrl" \in x5
           /\ \E s \in Generate!Overwrites, c \in Generate!ctrls(x1) : leak = <<{s}, {c}>>
    BY <1>1, <1>4, CtrlStopped, GShapes DEF GMade
<1> QED
    BY <1>2, <1>3, <1>4, LeakKinds

-----------------------------------------------------------------------------
(* GenerateSTs: the invariant.                                              *)

\* The STs of the loops that have ended, and of the instructions that the loop at
\* hand has visited.
GMadeSoFar ==
    /\ x3 >= 1 /\ "ncas_xmit" \in x5 =>
          \A s \in Generate!ncas : x3 > 1 \/ s \notin todo => GMadeNcas(s)
    /\ x3 >= 2 /\ "ncas_ctrl" \in x5 =>
          (x3 > 2 \/ 1 \notin todo => <<Generate!ncas, Generate!ctrls(x1)>> \in x2)
    /\ x3 >= 3 /\ "ncal_xmit" \in x5 =>
          \A t \in DOMAIN x1.kind : x3 > 3 \/ t \notin todo =>
             \A l \in Generate!TransmitterNCALs(x1, t) : GNcalST(l, t) \in x2

GenerateInv ==
    /\ Generate!IsFunction(x1) /\ x3 \in Nat
    /\ x3 = 0 => todo \subseteq Generate!Of(x1, {"memcpy_n", "memcpy"})
    /\ GMadeSoFar

LEMMA GKinds ==
    /\ Len(Generate!STKinds) = 7 /\ DOMAIN Generate!STKinds = 1..7
    /\ Generate!STKinds[1] = "ncas_xmit" /\ Generate!STKinds[2] = "ncas_ctrl"
    /\ Generate!STKinds[3] = "ncal_xmit" /\ Generate!STKinds[4] = "ncal_glob"
    /\ Generate!STKinds[5] = "entry_xmit" /\ Generate!STKinds[6] = "load_xmit"
    /\ Generate!STKinds[7] = "call_xmit"
BY DEF Generate!STKinds

LEMMA GKindAt ==
    ASSUME NEW kind, Generate!At(kind)
    PROVE  /\ x3 \in 1..7 /\ kind \in x5
           /\ kind = "ncas_xmit" => x3 = 1
           /\ kind = "ncas_ctrl" => x3 = 2
           /\ kind = "ncal_xmit" => x3 = 3
           /\ kind \notin {"ncas_xmit", "ncas_ctrl", "ncal_xmit"} => x3 > 3
<1>1. x3 \in 1..7 /\ Generate!STKinds[x3] = kind /\ kind \in x5
    BY GKinds DEF Generate!At
<1>2. x3 = 1 \/ x3 = 2 \/ x3 = 3 \/ x3 = 4 \/ x3 = 5 \/ x3 = 6 \/ x3 = 7
    BY <1>1
<1> QED
    BY <1>1, <1>2, GKinds

\* The STs are made of the function and the options.
LEMMA GUnchanged ==
    ASSUME x1' = x1, x5' = x5
    PROVE  /\ Generate!ncas' = Generate!ncas
           /\ \A s : GNcasST(s)' = GNcasST(s) /\ Generate!SourcesFail(s)' = Generate!SourcesFail(s)
           /\ \A l, t : GNcalST(l, t)' = GNcalST(l, t)
<1>1. Generate!ncas' = Generate!ncas
    BY Zenon DEF Generate!ncas
<1>2. \A s : GNcasST(s)' = GNcasST(s)
    BY DEF GNcasST, GSeen, GLeaked
<1>3. \A s : Generate!SourcesFail(s)' = Generate!SourcesFail(s)
    BY DEF Generate!SourcesFail
<1>4. \A l, t : GNcalST(l, t)' = GNcalST(l, t)
    BY DEF GNcalST
<1> QED
    BY <1>1, <1>2, <1>3, <1>4

\* A visit of a loop leaves nothing out.
LEMMA GAdd ==
    ASSUME GenerateInv, x3 \in 1..7, x1' = x1, x5' = x5, x3' = x3, x2 \subseteq x2',
           NEW i, todo' = todo \ {i},
           x3 = 1 => GNcasST(i) \in x2' /\ ("expand" \in x5 => ~Generate!SourcesFail(i)),
           x3 = 2 => <<Generate!ncas, Generate!ctrls(x1)>> \in x2',
           x3 = 3 => \A l \in Generate!TransmitterNCALs(x1, i) : GNcalST(l, i) \in x2'
    PROVE  GenerateInv'
<1>1. /\ "ncas_xmit" \in x5 =>
            \A s \in Generate!ncas : x3 > 1 \/ s \notin todo => GMadeNcas(s)
      /\ x3 >= 2 /\ "ncas_ctrl" \in x5 =>
            (x3 > 2 \/ 1 \notin todo => <<Generate!ncas, Generate!ctrls(x1)>> \in x2)
      /\ x3 >= 3 /\ "ncal_xmit" \in x5 =>
            \A t \in DOMAIN x1.kind : x3 > 3 \/ t \notin todo =>
               \A l \in Generate!TransmitterNCALs(x1, t) : GNcalST(l, t) \in x2
    BY DEF GenerateInv, GMadeSoFar
<1>2. ASSUME "ncas_xmit" \in x5, NEW s \in Generate!ncas, x3 > 1 \/ s \notin todo'
      PROVE  GMadeNcas(s)'
    <2>1. GNcasST(s) \in x2' /\ ("expand" \in x5 => ~Generate!SourcesFail(s))
        <3>1. CASE x3 > 1 \/ s \notin todo
            BY <1>1, <1>2, <3>1 DEF GMadeNcas
        <3>2. CASE ~(x3 > 1 \/ s \notin todo)
            <4>1. x3 = 1 /\ s = i
                BY <1>2, <3>2
            <4> QED
                BY <4>1
        <3> QED
            BY <3>1, <3>2
    <2> QED
        BY <2>1, GUnchanged DEF GMadeNcas
<1>3. ASSUME x3 >= 2, "ncas_ctrl" \in x5, x3 > 2 \/ 1 \notin todo'
      PROVE  <<Generate!ncas, Generate!ctrls(x1)>> \in x2'
    <2>1. CASE x3 = 2
        BY <2>1
    <2>2. CASE x3 > 2
        BY <1>1, <1>3, <2>2
    <2> QED
        BY <1>3, <2>1, <2>2
<1>4. ASSUME x3 >= 3, "ncal_xmit" \in x5, NEW t \in DOMAIN x1.kind, x3 > 3 \/ t \notin todo',
             NEW l \in Generate!TransmitterNCALs(x1, t)
      PROVE  GNcalST(l, t) \in x2'
    <2>1. CASE x3 > 3 \/ t \notin todo
        BY <1>1, <1>4, <2>1
    <2>2. CASE ~(x3 > 3 \/ t \notin todo)
        <3>1. x3 = 3 /\ t = i
            BY <1>4, <2>2
        <3> QED
            BY <1>4, <3>1
    <2> QED
        BY <2>1, <2>2
<1>5. GMadeSoFar'
    <2>1. (x3 >= 1 /\ "ncas_xmit" \in x5 =>
             \A s \in Generate!ncas : x3 > 1 \/ s \notin todo => GMadeNcas(s))'
        BY <1>2, GUnchanged
    <2>2. (x3 >= 2 /\ "ncas_ctrl" \in x5 =>
             (x3 > 2 \/ 1 \notin todo => <<Generate!ncas, Generate!ctrls(x1)>> \in x2))'
        BY <1>3, GUnchanged
    <2>3. (x3 >= 3 /\ "ncal_xmit" \in x5 =>
             \A t \in DOMAIN x1.kind : x3 > 3 \/ t \notin todo =>
                \A l \in Generate!TransmitterNCALs(x1, t) : GNcalST(l, t) \in x2)'
        BY <1>4, GUnchanged
    <2> QED
        BY <2>1, <2>2, <2>3 DEF GMadeSoFar
<1> QED
    BY <1>5 DEF GenerateInv

\* A loop that ends has visited what it has to.
LEMMA GNextKind ==
    ASSUME GenerateInv, Generate!NextKind
    PROVE  GenerateInv'
<1>1. /\ x3 \in 0..7 /\ x3' = x3 + 1 /\ x1' = x1 /\ x5' = x5 /\ x2' = x2
      /\ todo = {} \/ (x3 # 0 /\ Generate!STKinds[x3] \notin x5)
      /\ todo' = IF x3' \in 1..7 THEN Generate!Loop(Generate!STKinds[x3']) ELSE {}
    BY GKinds DEF Generate!NextKind
<1>2. /\ x3 >= 1 /\ "ncas_xmit" \in x5 =>
            \A s \in Generate!ncas : x3 > 1 \/ s \notin todo => GMadeNcas(s)
      /\ x3 >= 2 /\ "ncas_ctrl" \in x5 =>
            (x3 > 2 \/ 1 \notin todo => <<Generate!ncas, Generate!ctrls(x1)>> \in x2)
      /\ x3 >= 3 /\ "ncal_xmit" \in x5 =>
            \A t \in DOMAIN x1.kind : x3 > 3 \/ t \notin todo =>
               \A l \in Generate!TransmitterNCALs(x1, t) : GNcalST(l, t) \in x2
    BY DEF GenerateInv, GMadeSoFar
<1>3. ASSUME "ncas_xmit" \in x5, NEW s \in Generate!ncas, x3' > 1 \/ s \notin todo'
      PROVE  GMadeNcas(s)'
    <2>1. CASE x3 = 0
        <3>1. todo' = Generate!Loop("ncas_xmit")
            BY <1>1, <2>1, GKinds
        <3>2. todo' = Generate!ncas
            BY <3>1 DEF Generate!Loop
        <3> QED
            BY <1>1, <1>3, <2>1, <3>2
    <2>2. CASE x3 # 0
        <3>1. x3 > 1 \/ (x3 = 1 /\ s \notin todo)
            BY <1>1, <1>3, <2>2, GKinds
        <3>2. GMadeNcas(s)
            BY <1>1, <1>2, <1>3, <3>1
        <3> QED
            BY <1>1, <3>2, GUnchanged DEF GMadeNcas
    <2> QED
        BY <2>1, <2>2
<1>4. ASSUME x3' >= 2, "ncas_ctrl" \in x5, x3' > 2 \/ 1 \notin todo'
      PROVE  <<Generate!ncas, Generate!ctrls(x1)>> \in x2'
    <2>1. CASE x3 = 1
        <3>1. todo' = Generate!Loop("ncas_ctrl")
            BY <1>1, <2>1, GKinds
        <3>2. todo' = {1}
            BY <3>1 DEF Generate!Loop
        <3> QED
            BY <1>1, <1>4, <2>1, <3>2
    <2>2. CASE x3 # 1
        <3>1. x3 > 2 \/ (x3 = 2 /\ 1 \notin todo)
            BY <1>1, <1>4, <2>2, GKinds
        <3> QED
            BY <1>1, <1>2, <1>4, <3>1
    <2> QED
        BY <2>1, <2>2
<1>5. ASSUME x3' >= 3, "ncal_xmit" \in x5, NEW t \in DOMAIN x1.kind, x3' > 3 \/ t \notin todo',
             NEW l \in Generate!TransmitterNCALs(x1, t)
      PROVE  GNcalST(l, t) \in x2'
    <2>1. CASE x3 = 2
        <3>1. todo' = Generate!Loop("ncal_xmit")
            BY <1>1, <2>1, GKinds
        <3>2. t \in todo'
            BY <1>5, <3>1 DEF Generate!Loop
        <3> QED
            BY <1>1, <1>5, <2>1, <3>2
    <2>2. CASE x3 # 2
        <3>1. x3 > 3 \/ (x3 = 3 /\ t \notin todo)
            BY <1>1, <1>5, <2>2, GKinds
        <3> QED
            BY <1>1, <1>2, <1>5, <3>1
    <2> QED
        BY <2>1, <2>2
<1>6. GMadeSoFar'
    <2>1. (x3 >= 1 /\ "ncas_xmit" \in x5 =>
             \A s \in Generate!ncas : x3 > 1 \/ s \notin todo => GMadeNcas(s))'
        BY <1>1, <1>3, GUnchanged
    <2>2. (x3 >= 2 /\ "ncas_ctrl" \in x5 =>
             (x3 > 2 \/ 1 \notin todo => <<Generate!ncas, Generate!ctrls(x1)>> \in x2))'
        BY <1>1, <1>4, GUnchanged
    <2>3. (x3 >= 3 /\ "ncal_xmit" \in x5 =>
             \A t \in DOMAIN x1.kind : x3 > 3 \/ t \notin todo =>
                \A l \in Generate!TransmitterNCALs(x1, t) : GNcalST(l, t) \in x2)'
        BY <1>1, <1>5, GUnchanged
    <2> QED
        BY <2>1, <2>2, <2>3 DEF GMadeSoFar
<1> QED
    BY <1>1, <1>6 DEF GenerateInv

\* Only which copies are calls changes.
GInlined(g, i) == [g EXCEPT !.kind[i] = "memcpy"]

LEMMA GSameFields ==
    ASSUME NEW g, GWellFormed(g), NEW i
    PROVE  LET h == GInlined(g, i) IN
           /\ DOMAIN h = DOMAIN g /\ h.kind = [g.kind EXCEPT ![i] = "memcpy"] /\ h.succ = g.succ
           /\ h.ops = g.ops /\ h.ptr = g.ptr /\ h.ca = g.ca /\ h.glob = g.glob
           /\ h.direct = g.direct /\ h.secret = g.secret /\ h.taints = g.taints
<1>1. DOMAIN g = {"kind", "succ", "ops", "ptr", "ca", "glob", "direct", "secret", "taints"}
    BY DEF GWellFormed
<1> QED
    BY <1>1 DEF GInlined

\* The kind of one copy changes, and no other.
GOneKind(g, h, i) ==
    /\ h.kind \in Seq(Generate!Kinds) /\ DOMAIN h.kind = DOMAIN g.kind
    /\ Len(h.kind) = Len(g.kind)
    /\ \A K : K \cap {"memcpy_n", "memcpy"} = {} => Generate!Of(h, K) = Generate!Of(g, K)
    /\ \A j \in DOMAIN g.kind : j # i => h.kind[j] = g.kind[j]
    /\ h.kind[i] = "memcpy" /\ g.kind[i] \in {"memcpy_n", "memcpy"} /\ i \in DOMAIN g.kind
    /\ Generate!Of(g, {"memcpy_n", "memcpy"}) = Generate!Of(h, {"memcpy_n", "memcpy"})

LEMMA GSameKinds ==
    ASSUME NEW g, NEW h, g.kind \in Seq(Generate!Kinds),
           NEW i \in Generate!Of(g, {"memcpy_n", "memcpy"}), h.kind = [g.kind EXCEPT ![i] = "memcpy"]
    PROVE  GOneKind(g, h, i)
<1>1. i \in DOMAIN g.kind /\ g.kind[i] \in {"memcpy_n", "memcpy"} /\ "memcpy" \in Generate!Kinds
    BY DEF Generate!Of, Generate!Kinds
<1>2. h.kind \in Seq(Generate!Kinds) /\ DOMAIN h.kind = DOMAIN g.kind /\ Len(h.kind) = Len(g.kind)
    BY <1>1
<1>3. (\A j \in DOMAIN g.kind : j # i => h.kind[j] = g.kind[j]) /\ h.kind[i] = "memcpy"
    BY <1>1
<1>4. ASSUME NEW K, K \cap {"memcpy_n", "memcpy"} = {} PROVE Generate!Of(h, K) = Generate!Of(g, K)
    <2>1. \A j \in DOMAIN g.kind : h.kind[j] \in K <=> g.kind[j] \in K
        BY <1>1, <1>3, <1>4
    <2> QED
        BY <1>2, <2>1 DEF Generate!Of
<1>5. Generate!Of(g, {"memcpy_n", "memcpy"}) = Generate!Of(h, {"memcpy_n", "memcpy"})
    <2>1. \A j \in DOMAIN g.kind : h.kind[j] \in {"memcpy_n", "memcpy"}
                                     <=> g.kind[j] \in {"memcpy_n", "memcpy"}
        BY <1>1, <1>3
    <2> QED
        BY <1>2, <2>1 DEF Generate!Of
<1> QED
    BY <1>1, <1>2, <1>3, <1>4, <1>5 DEF GOneKind

\* MemIntrinsicPass leaves a function.
LEMMA GInlinedFunction ==
    ASSUME NEW g, Generate!IsFunction(g), NEW i \in Generate!Of(g, {"memcpy_n", "memcpy"})
    PROVE  Generate!IsFunction(GInlined(g, i))
<1> DEFINE h == GInlined(g, i)
<1>1. GWellFormed(g)
    BY GSameFunctions
<1>2. /\ DOMAIN h = DOMAIN g /\ h.kind = [g.kind EXCEPT ![i] = "memcpy"] /\ h.succ = g.succ
      /\ h.ops = g.ops /\ h.ptr = g.ptr /\ h.ca = g.ca /\ h.glob = g.glob
      /\ h.direct = g.direct /\ h.secret = g.secret /\ h.taints = g.taints
    BY <1>1, GSameFields
<1> HIDE DEF h
<1>3. /\ h.kind \in Seq(Generate!Kinds) /\ DOMAIN h.kind = DOMAIN g.kind
      /\ Len(h.kind) = Len(g.kind)
      /\ \A K : K \cap {"memcpy_n", "memcpy"} = {} => Generate!Of(h, K) = Generate!Of(g, K)
    <2>1. g.kind \in Seq(Generate!Kinds)
        BY <1>1 DEF GWellFormed
    <2>2. GOneKind(g, h, i)
        BY <1>2, <2>1, GSameKinds
    <2> QED
        BY <2>2 DEF GOneKind
<1>4. /\ Generate!CFG(h) = Generate!CFG(g)
      /\ \A j : Generate!Operands(h, j) = Generate!Operands(g, j)
    BY <1>2, <1>3 DEF Generate!CFG, Generate!Operands
<1>5. /\ Generate!Of(h, {"load", "store"}) = Generate!Of(g, {"load", "store"})
      /\ Generate!Of(h, {"store"}) = Generate!Of(g, {"store"})
      /\ Generate!Of(h, {"call"}) = Generate!Of(g, {"call"})
      /\ Generate!Of(h, {"load"}) = Generate!Of(g, {"load"})
      /\ Generate!Of(h, Generate!Computing) = Generate!Of(g, Generate!Computing)
      /\ Generate!Of(h, {"call", "term"}) = Generate!Of(g, {"call", "term"})
      /\ Generate!Of(h, {"load", "call", "intr"} \cup Generate!Computing)
            = Generate!Of(g, {"load", "call", "intr"} \cup Generate!Computing)
    <2>1. \A K : K \cap {"memcpy_n", "memcpy"} = {} => Generate!Of(h, K) = Generate!Of(g, K)
        BY <1>3
    <2> QED
        BY <2>1 DEF Generate!Computing
<1>6. GValues(h) = GValues(g) /\ GAccesses(h) = GAccesses(g)
    BY <1>2, <1>5 DEF GValues, GAccesses
<1>7. GWellFormed(h)
    <2>1. /\ DOMAIN h = {"kind", "succ", "ops", "ptr", "ca", "glob", "direct", "secret", "taints"}
          /\ h.kind \in Seq(Generate!Kinds) /\ 1 \in DOMAIN h.kind
          /\ h.succ \in [DOMAIN h.kind -> SUBSET (DOMAIN h.kind)]
          /\ h.ops \in [DOMAIN h.kind -> SUBSET ((DOMAIN h.kind) \cup {Generate!Arg})]
          /\ h.ptr \in [DOMAIN h.kind -> SUBSET ((DOMAIN h.kind) \cup {Generate!Arg})]
          /\ h.ca \subseteq Generate!Of(h, {"load", "store"})
          /\ h.glob \subseteq Generate!Of(h, {"store"}) /\ h.direct \subseteq Generate!Of(h, {"call"})
          /\ h.secret \subseteq DOMAIN h.kind
        BY <1>1, <1>2, <1>3, <1>5 DEF GWellFormed
    <2>2. /\ h.taints \in [DOMAIN h.kind -> SUBSET (Generate!Of(h, {"load"}) \ h.ca)]
          /\ DOMAIN h.kind \subseteq {1} \cup Reach(Generate!CFG(h), {1})
        BY <1>1, <1>2, <1>3, <1>4, <1>5 DEF GWellFormed
    <2>3. /\ \A j \in DOMAIN h.kind : \A y, z \in h.succ[j] :
                y = z \/ j \in Generate!Of(h, {"call", "term"})
          /\ \A j \in DOMAIN h.kind : Generate!Operands(h, j) \subseteq GValues(h)
        BY <1>1, <1>2, <1>3, <1>4, <1>5, <1>6 DEF GWellFormed
    <2>4. /\ \A s \in Generate!Of(h, {"store"}) : \A v, w \in h.ops[s] : v = w
          /\ \A l \in Generate!Of(h, {"load"}) \ h.ca : l \in h.taints[l]
        BY <1>1, <1>2, <1>5 DEF GWellFormed
    <2>5. \A j \in Generate!Of(h, Generate!Computing) :
             \A v \in Generate!Operands(h, j) \ {Generate!Arg} : h.taints[v] \subseteq h.taints[j]
        BY <1>1, <1>2, <1>4, <1>5 DEF GWellFormed
    <2> QED
        BY <2>1, <2>2, <2>3, <2>4, <2>5 DEF GWellFormed
<1> QED
    BY <1>7, GSameFunctions DEF h

LEMMA GHandle ==
    ASSUME GenerateInv, NEW i, Generate!handleMemIntrinsic(i)
    PROVE  GenerateInv'
<1>1. x3 = 0 /\ i \in todo /\ x1' = GInlined(x1, i) /\ todo' = todo \ {i} /\ x3' = x3
    BY DEF Generate!handleMemIntrinsic, GInlined
<1>2. Generate!IsFunction(x1) /\ i \in Generate!Of(x1, {"memcpy_n", "memcpy"})
      /\ todo \subseteq Generate!Of(x1, {"memcpy_n", "memcpy"})
    BY <1>1 DEF GenerateInv
<1>3. Generate!IsFunction(x1')
    BY <1>1, <1>2, GInlinedFunction
<1>4. Generate!Of(x1', {"memcpy_n", "memcpy"}) = Generate!Of(x1, {"memcpy_n", "memcpy"})
    <2>1. GWellFormed(x1) /\ x1.kind \in Seq(Generate!Kinds)
        BY <1>2, GSameFunctions DEF GWellFormed
    <2>2. (GInlined(x1, i)).kind = [x1.kind EXCEPT ![i] = "memcpy"]
        BY <2>1, GSameFields
    <2> QED
        BY <1>1, <1>2, <2>1, <2>2, GSameKinds DEF GOneKind
<1>5. GMadeSoFar'
    BY <1>1 DEF GMadeSoFar
<1> QED
    BY <1>1, <1>2, <1>3, <1>4, <1>5 DEF GenerateInv

LEMMA GenerateInit == ASSUME InputsAssumption, Generate!Init PROVE GenerateInv
<1>1. Generate!IsFunction(x1)
    BY DEF InputsAssumption, Generate!FunctionsAssumption, Generate!Init
<1>2. x3 = 0
    BY DEF Generate!Init
<1>3. todo \subseteq Generate!Of(x1, {"memcpy_n", "memcpy"})
    BY DEF Generate!Init
<1>4. GMadeSoFar
    BY <1>2 DEF GMadeSoFar
<1> QED
    BY <1>1, <1>2, <1>3, <1>4 DEF GenerateInv

\* The kinds of STs.
LEMMA GNcasXmit ==
    ASSUME GenerateInv, NEW s, Generate!NcasXmit(s)
    PROVE  GenerateInv'
<1>1. Generate!At("ncas_xmit")
    BY DEF Generate!NcasXmit
<1>2. x3 = 1 /\ x3 \in 1..7
    BY <1>1, GKindAt
<1>3. Generate!Add(s, {GNcasST(s)})
    <2>1. \A E, S : Generate!Reach(E, S) = Reach(E, S)
        BY SameReach
    <2>2. {s} \cup Generate!Reach(Generate!CFG(x1), {s}) = GSeen(s)
        BY <2>1 DEF GSeen
    <2>3. {t \in GSeen(s) : Generate!get_incoming_loads(x1, Generate!get_transmitter_sensitive_operands(x1, t))
                            \cap Generate!Of(x1, {"load"}) \cap GSeen(s) # {}}
            = {t \in GSeen(s) : GLeaked(t) \cap GSeen(s) # {}}
        BY DEF GLeaked, GLoads
    <2> QED
        BY <2>2, <2>3 DEF Generate!NcasXmit, GNcasST
<1>4. "expand" \in x5 => ~Generate!SourcesFail(s)
    BY DEF Generate!NcasXmit
<1>5. /\ x1' = x1 /\ x5' = x5 /\ x3' = x3 /\ x2' = x2 \cup {GNcasST(s)} /\ todo' = todo \ {s}
    BY <1>3 DEF Generate!Add
<1>6. GNcasST(s) \in x2' /\ x2 \subseteq x2'
    BY <1>5
<1> QED
    BY <1>2, <1>4, <1>5, <1>6, GAdd

LEMMA GNcasCtrl ==
    ASSUME GenerateInv, NEW i, Generate!NcasCtrl(i)
    PROVE  GenerateInv'
<1>1. x3 = 2 /\ x3 \in 1..7
    BY GKindAt DEF Generate!NcasCtrl
<1>2. /\ x1' = x1 /\ x5' = x5 /\ x3' = x3 /\ todo' = todo \ {i}
      /\ x2' = x2 \cup {<<Generate!ncas, Generate!ctrls(x1)>>}
    BY DEF Generate!NcasCtrl, Generate!Add
<1>3. x2 \subseteq x2' /\ <<Generate!ncas, Generate!ctrls(x1)>> \in x2'
    BY <1>2
<1> QED
    BY <1>1, <1>2, <1>3, GAdd

LEMMA GNcalXmit ==
    ASSUME GenerateInv, NEW t, Generate!NcalXmit(t)
    PROVE  GenerateInv'
<1>1. x3 = 3 /\ x3 \in 1..7
    BY GKindAt DEF Generate!NcalXmit
<1>2. /\ x1' = x1 /\ x5' = x5 /\ x3' = x3 /\ todo' = todo \ {t}
      /\ x2' = x2 \cup {GNcalST(l, t) : l \in Generate!TransmitterNCALs(x1, t)}
    BY DEF Generate!NcalXmit, Generate!Add, GNcalST
<1>3. x2 \subseteq x2' /\ \A l \in Generate!TransmitterNCALs(x1, t) : GNcalST(l, t) \in x2'
    BY <1>2
<1> QED
    BY <1>1, <1>2, <1>3, GAdd

LEMMA GOthers ==
    ASSUME GenerateInv, NEW i,
           \/ Generate!NcalGlob(i) \/ Generate!EntryXmit(i)
           \/ Generate!LoadXmit(i) \/ Generate!CallXmit(i)
    PROVE  GenerateInv'
<1>1. \E kind \in {"ncal_glob", "entry_xmit", "load_xmit", "call_xmit"} : Generate!At(kind)
    BY DEF Generate!NcalGlob, Generate!EntryXmit, Generate!LoadXmit, Generate!CallXmit
<1>2. x3 > 3 /\ x3 \in 1..7
    <2>1. PICK kind \in {"ncal_glob", "entry_xmit", "load_xmit", "call_xmit"} : Generate!At(kind)
        BY <1>1
    <2>2. kind \notin {"ncas_xmit", "ncas_ctrl", "ncal_xmit"}
        BY <2>1
    <2> QED
        BY <2>1, <2>2, GKindAt
<1>3. \E new : Generate!Add(i, new)
    BY DEF Generate!NcalGlob, Generate!EntryXmit, Generate!LoadXmit, Generate!CallXmit
<1>4. x1' = x1 /\ x5' = x5 /\ x3' = x3 /\ x2 \subseteq x2' /\ todo' = todo \ {i}
    BY <1>3 DEF Generate!Add
<1> QED
    BY <1>2, <1>4, GAdd

LEMMA GStutter == ASSUME GenerateInv, UNCHANGED <<x5, todo, x1, x2, x3>> PROVE GenerateInv'
<1>1. GMadeSoFar'
    <2>1. (x3 >= 1 /\ "ncas_xmit" \in x5 =>
             \A s \in Generate!ncas : x3 > 1 \/ s \notin todo => GMadeNcas(s))'
        BY GUnchanged DEF GenerateInv, GMadeSoFar, GMadeNcas
    <2>2. (x3 >= 2 /\ "ncas_ctrl" \in x5 =>
             (x3 > 2 \/ 1 \notin todo => <<Generate!ncas, Generate!ctrls(x1)>> \in x2))'
        BY GUnchanged DEF GenerateInv, GMadeSoFar
    <2>3. (x3 >= 3 /\ "ncal_xmit" \in x5 =>
             \A t \in DOMAIN x1.kind : x3 > 3 \/ t \notin todo =>
                \A l \in Generate!TransmitterNCALs(x1, t) : GNcalST(l, t) \in x2)'
        BY GUnchanged DEF GenerateInv, GMadeSoFar
    <2> QED
        BY <2>1, <2>2, <2>3 DEF GMadeSoFar
<1> QED
    BY <1>1 DEF GenerateInv

LEMMA GenerateStep == ASSUME GenerateInv, Generate!Next PROVE GenerateInv'
<1>1. ASSUME NEW i, Generate!NcasXmitFails(i) PROVE GenerateInv'
    BY <1>1, GStutter DEF Generate!NcasXmitFails
<1>2. ASSUME Generate!Done PROVE GenerateInv'
    BY <1>2, GStutter DEF Generate!Done, Generate!vars
<1> QED
    BY <1>1, <1>2, GHandle, GNcasXmit, GNcasCtrl, GNcalXmit, GOthers, GNextKind DEF Generate!Next

LEMMA GenerateInvariant == Spec => [](pass = "generate" => GenerateInv)
<1>1. Init => (pass = "generate" => GenerateInv)
    BY GenerateInit, InputsAssumption DEF Init
<1>2. ASSUME pass = "generate" => GenerateInv, [Next]_vars PROVE (pass = "generate" => GenerateInv)'
    <2>1. pass' = pass
        BY <1>2 DEF Next, vars
    <2>2. ASSUME pass = "generate", Next PROVE GenerateInv'
        <3>1. Generate!Next
            BY <2>2 DEF Next
        <3> QED
            BY <1>2, <2>2, <3>1, GenerateStep
    <2>3. ASSUME pass = "generate", UNCHANGED vars PROVE GenerateInv'
        BY <1>2, <2>3, GStutter DEF vars
    <2> QED
        BY <1>2, <2>1, <2>2, <2>3
<1> QED
    BY <1>1, <1>2, PTL DEF Spec

\* After the last loop all STs are made.
LEMMA MadeAtEnd == ASSUME GenerateInv, x3 > Len(Generate!STKinds) PROVE GMade
<1>1. x3 > 7 /\ x3 \in Nat
    BY GKinds DEF GenerateInv
<1>2. x3 >= 1 /\ x3 > 1 /\ x3 >= 2 /\ x3 > 2 /\ x3 >= 3 /\ x3 > 3
    BY <1>1
<1> QED
    BY <1>2 DEF GenerateInv, GMadeSoFar, GMade

\* MitigatePass::runOnFunction, for every function, all options and every way to cut the
\* STs: no load from a wrong address whose value is given away afterwards, and no store
\* of a secret to a wrong address before a load that is given away, a call or a return,
\* is left without an edge of the cut on the way.
THEOREM GeneratedSTsSuffice == Spec => []CutsStopLeaks
<1>1. GenerateInv => Generate!CutsStopLeaks
    BY MadeAtEnd, MadeStops DEF GenerateInv, Generate!CutsStopLeaks
<1> QED
    BY <1>1, GenerateInvariant, PTL DEF CutsStopLeaks

-----------------------------------------------------------------------------
(* FencePlacement.  in is F0, x7 is F, x6 is cut_edges.                     *)

\* What IsFunction says, a part at a time.
LEMMA FenceFunction ==
    ASSUME NEW f0, Fences!IsFunction(f0)
    PROVE  /\ f0.kind \in Seq(Fences!Kinds) /\ Len(f0.kind) \in Nat /\ DOMAIN f0.kind = 1..Len(f0.kind)
           /\ f0.succ \in [DOMAIN f0.kind -> Seq(DOMAIN f0.kind)]
           /\ f0.first \in DOMAIN f0.kind /\ Fences!predecessors(f0, f0.first) = {}
           /\ \A i \in DOMAIN f0.kind : f0.kind[i] \in {"inst", "phi", "call", "fence"} =>
                 /\ f0.succ[i] = <<i + 1>> /\ i + 1 \in DOMAIN f0.kind
                 /\ Fences!predecessors(f0, i + 1) = {<<i, 1>>}
           /\ \A i \in DOMAIN f0.kind : f0.kind[i] = "invoke" => Len(f0.succ[i]) = 2
           /\ \A i \in DOMAIN f0.kind : f0.kind[i] = "ret" => Len(f0.succ[i]) = 0
<1>1. f0.kind \in Seq(Fences!Kinds) /\ f0.succ \in [DOMAIN f0.kind -> Seq(DOMAIN f0.kind)]
    BY DEF Fences!IsFunction
<1>2. Len(f0.kind) \in Nat /\ DOMAIN f0.kind = 1..Len(f0.kind)
    BY <1>1
<1>3. f0.first \in DOMAIN f0.kind /\ Fences!predecessors(f0, f0.first) = {}
    BY DEF Fences!IsFunction
<1>4. ASSUME NEW i \in DOMAIN f0.kind, f0.kind[i] \in {"inst", "phi", "call", "fence"}
      PROVE  /\ f0.succ[i] = <<i + 1>> /\ i + 1 \in DOMAIN f0.kind
             /\ Fences!predecessors(f0, i + 1) = {<<i, 1>>}
    <2>1. f0.succ[i] = <<i + 1>> /\ Fences!predecessors(f0, i + 1) = {<<i, 1>>}
        BY <1>4 DEF Fences!IsFunction, Fences!Of, Fences!Instr
    <2>2. f0.succ[i] \in Seq(DOMAIN f0.kind)
        BY <1>1
    <2>3. Len(<<i + 1>>) = 1 /\ <<i + 1>>[1] = i + 1
        OBVIOUS
    <2>4. f0.succ[i][1] \in DOMAIN f0.kind
        BY <2>1, <2>2, <2>3, 1 \in 1..1
    <2> QED
        BY <2>1, <2>3, <2>4
<1>5. \A i \in DOMAIN f0.kind : f0.kind[i] = "invoke" => Len(f0.succ[i]) = 2
    BY DEF Fences!IsFunction, Fences!Of, Fences!Instr
<1>6. \A i \in DOMAIN f0.kind : f0.kind[i] = "ret" => Len(f0.succ[i]) = 0
    BY DEF Fences!IsFunction, Fences!Of, Fences!Instr
<1> QED
    BY <1>1, <1>2, <1>3, <1>4, <1>5, <1>6

\* f is f0 with some slots led over new fences.
Grown(f, f0) ==
    LET N == Len(f0.kind) IN
    /\ f.kind \in Seq(Fences!Kinds) /\ Len(f.kind) \in Nat /\ DOMAIN f.kind = 1..Len(f.kind)
    /\ N \in Nat /\ N <= Len(f.kind) /\ DOMAIN f0.kind = 1..N
    /\ \A i \in 1..N : f.kind[i] = f0.kind[i]
    /\ \A i \in 1..Len(f.kind) : i > N => f.kind[i] = "fence"
    /\ DOMAIN f.succ = DOMAIN f.kind
    /\ \A i \in 1..N : f.succ[i] \in Seq(DOMAIN f.kind) /\ Len(f.succ[i]) = Len(f0.succ[i])
                       /\ DOMAIN f.succ[i] = DOMAIN f0.succ[i]
    /\ \A i \in 1..N : \A s \in DOMAIN f0.succ[i] : f.succ[i][s] = f0.succ[i][s] \/ f.succ[i][s] > N
    /\ f.first \in DOMAIN f.kind /\ (f.first = f0.first \/ f.first > N)

LEMMA GrownInit ==
    ASSUME NEW f0, Fences!IsFunction(f0)
    PROVE  Grown(f0, f0)
BY FenceFunction DEF Grown

\* The places of the slots of f that lead to b.
LEMMA Slots ==
    ASSUME NEW f, NEW b, NEW i, NEW s
    PROVE  <<i, s>> \in Fences!predecessors(f, b) <=>
              i \in DOMAIN f.kind /\ s \in DOMAIN f.succ[i] /\ f.succ[i][s] = b
BY DEF Fences!predecessors, Fences!Instr

LEMMA SlotsArePairs ==
    ASSUME NEW f, NEW b, NEW p \in Fences!predecessors(f, b)
    PROVE  \E i \in DOMAIN f.kind : \E s \in DOMAIN f.succ[i] : p = <<i, s>> /\ f.succ[i][s] = b
BY DEF Fences!predecessors, Fences!Instr

\* What a new fence changes.
Inserted(f, slots, next, g) ==
    LET n == Len(f.kind) + 1 IN
    /\ g.kind \in Seq(Fences!Kinds) /\ Len(g.kind) = n /\ DOMAIN g.kind = 1..n
    /\ \A i \in 1..Len(f.kind) : g.kind[i] = f.kind[i]
    /\ g.kind[n] = "fence"
    /\ DOMAIN g.succ = 1..n
    /\ g.succ[n] = <<next>>
    /\ \A i \in 1..Len(f.kind) : DOMAIN g.succ[i] = DOMAIN f.succ[i]
    /\ \A i \in 1..Len(f.kind) : \A s \in DOMAIN f.succ[i] :
          g.succ[i][s] = IF <<i, s>> \in slots THEN n ELSE f.succ[i][s]
    /\ \A i \in 1..Len(f.kind) : g.succ[i] = [s \in DOMAIN f.succ[i] |-> g.succ[i][s]]
    /\ g.first = IF f.first = next /\ slots = Fences!predecessors(f, next) THEN n ELSE f.first

LEMMA FenceInserted ==
    ASSUME NEW f, NEW slots, NEW next, f.kind \in Seq(Fences!Kinds), Len(f.kind) \in Nat,
           DOMAIN f.kind = 1..Len(f.kind)
    PROVE  Inserted(f, slots, next, Fences!InsertFence(f, slots, next))
<1> DEFINE g == Fences!InsertFence(f, slots, next)
           n == Len(f.kind) + 1
<1>1. /\ g.kind = Append(f.kind, "fence")
      /\ g.succ = [i \in Fences!Instr(f) \cup {Fences!New(f)} |->
                     IF i = Fences!New(f) THEN <<next>>
                     ELSE [s \in DOMAIN f.succ[i] |->
                              IF <<i, s>> \in slots THEN Fences!New(f) ELSE f.succ[i][s]]]
      /\ g.first = IF f.first = next /\ slots = Fences!predecessors(f, next)
                     THEN Fences!New(f) ELSE f.first
    BY DEF Fences!InsertFence
<1>2. Fences!New(f) = n /\ Fences!Instr(f) = 1..Len(f.kind) /\ (1..Len(f.kind)) \cup {n} = 1..n
    BY DEF Fences!New, Fences!Instr
<1> HIDE DEF g
<1>3. "fence" \in Fences!Kinds
    BY DEF Fences!Kinds
<1>4. /\ g.kind \in Seq(Fences!Kinds) /\ Len(g.kind) = n /\ DOMAIN g.kind = 1..n
      /\ (\A i \in 1..Len(f.kind) : g.kind[i] = f.kind[i]) /\ g.kind[n] = "fence"
    BY <1>1, <1>3
<1>5. g.succ = [i \in 1..n |->
                  IF i = n THEN <<next>>
                  ELSE [s \in DOMAIN f.succ[i] |-> IF <<i, s>> \in slots THEN n ELSE f.succ[i][s]]]
    BY <1>1, <1>2
<1>6. DOMAIN g.succ = 1..n /\ g.succ[n] = <<next>>
    BY <1>5
<1>7. ASSUME NEW i \in 1..Len(f.kind)
      PROVE  g.succ[i] = [s \in DOMAIN f.succ[i] |-> IF <<i, s>> \in slots THEN n ELSE f.succ[i][s]]
    <2>1. i \in 1..n /\ i # n
        OBVIOUS
    <2> QED
        BY <1>5, <2>1
<1>8. \A i \in 1..Len(f.kind) : DOMAIN g.succ[i] = DOMAIN f.succ[i]
    BY <1>7
<1>9. \A i \in 1..Len(f.kind) : \A s \in DOMAIN f.succ[i] :
          g.succ[i][s] = IF <<i, s>> \in slots THEN n ELSE f.succ[i][s]
    BY <1>7
<1>10. \A i \in 1..Len(f.kind) : g.succ[i] = [s \in DOMAIN f.succ[i] |-> g.succ[i][s]]
    BY <1>7, <1>9
<1>11. g.first = IF f.first = next /\ slots = Fences!predecessors(f, next) THEN n ELSE f.first
    BY <1>1, <1>2
<1> QED
    BY <1>4, <1>6, <1>8, <1>9, <1>10, <1>11 DEF Inserted, g

\* The function goes on growing.
LEMMA InsertedGrown ==
    ASSUME NEW f0, NEW f, Grown(f, f0), NEW slots, NEW next, NEW g, Inserted(f, slots, next, g)
    PROVE  Grown(g, f0)
<1> DEFINE N == Len(f0.kind)
           M == Len(f.kind)
<1>1. M \in Nat /\ N \in Nat /\ N <= M /\ DOMAIN f.kind = 1..M
    BY DEF Grown
<1>m. \A i \in 1..M : i > N => f.kind[i] = "fence"
    BY DEF Grown
<1>2. /\ g.kind \in Seq(Fences!Kinds) /\ Len(g.kind) = M + 1 /\ DOMAIN g.kind = 1..(M + 1)
      /\ DOMAIN g.succ = 1..(M + 1)
    BY DEF Inserted
<1>3. ASSUME NEW i \in 1..N PROVE g.kind[i] = f0.kind[i]
    <2>1. i \in 1..M
        BY <1>1
    <2> QED
        BY <2>1 DEF Grown, Inserted
<1>4. ASSUME NEW i \in 1..(M + 1), i > N PROVE g.kind[i] = "fence"
    <2>1. i \in 1..M \/ i = M + 1
        BY <1>1
    <2>2. CASE i \in 1..M
        BY <1>4, <1>m, <2>2 DEF Inserted
    <2>3. CASE i = M + 1
        BY <2>3 DEF Inserted
    <2> QED
        BY <2>1, <2>2, <2>3
<1>5. ASSUME NEW i \in 1..N
      PROVE  /\ g.succ[i] \in Seq(1..(M + 1)) /\ Len(g.succ[i]) = Len(f0.succ[i])
             /\ DOMAIN g.succ[i] = DOMAIN f0.succ[i]
             /\ \A s \in DOMAIN f0.succ[i] : g.succ[i][s] = f0.succ[i][s] \/ g.succ[i][s] > N
    <2>1. i \in 1..M /\ M + 1 > N /\ M + 1 \in 1..(M + 1) /\ 1..M \subseteq 1..(M + 1)
        BY <1>1
    <2>2. /\ f.succ[i] \in Seq(1..M) /\ Len(f.succ[i]) = Len(f0.succ[i])
          /\ DOMAIN f.succ[i] = DOMAIN f0.succ[i]
          /\ \A s \in DOMAIN f0.succ[i] : f.succ[i][s] = f0.succ[i][s] \/ f.succ[i][s] > N
        BY <1>1 DEF Grown
    <2>3. /\ DOMAIN g.succ[i] = DOMAIN f.succ[i]
          /\ \A s \in DOMAIN f.succ[i] :
                g.succ[i][s] = IF <<i, s>> \in slots THEN M + 1 ELSE f.succ[i][s]
          /\ g.succ[i] = [s \in DOMAIN f.succ[i] |-> g.succ[i][s]]
        BY <2>1 DEF Inserted
    <2>4. Len(f.succ[i]) \in Nat /\ DOMAIN f.succ[i] = 1..Len(f.succ[i])
        BY <2>2
    <2>5. ASSUME NEW s \in 1..Len(f.succ[i]) PROVE g.succ[i][s] \in 1..(M + 1)
        <3>1. f.succ[i][s] \in 1..M
            BY <2>2
        <3> QED
            BY <2>1, <2>3, <2>4, <3>1
    <2>6. g.succ[i] \in [1..Len(f.succ[i]) -> 1..(M + 1)]
        BY <2>3, <2>4, <2>5
    <2>7. g.succ[i] \in Seq(1..(M + 1)) /\ Len(g.succ[i]) = Len(f.succ[i])
        BY <2>4, <2>6
    <2>8. \A s \in DOMAIN f0.succ[i] : g.succ[i][s] = f0.succ[i][s] \/ g.succ[i][s] > N
        BY <2>1, <2>2, <2>3
    <2> QED
        BY <2>2, <2>3, <2>7, <2>8
<1>6. g.first \in 1..(M + 1) /\ (g.first = f0.first \/ g.first > N)
    <2>1. g.first = M + 1 \/ g.first = f.first
        BY DEF Inserted
    <2>2. f.first \in 1..M /\ (f.first = f0.first \/ f.first > N)
        BY <1>1 DEF Grown
    <2> QED
        BY <1>1, <2>1, <2>2
<1>7. Len(g.kind) \in Nat /\ N <= Len(g.kind)
    BY <1>1, <1>2
<1> QED
    BY <1>1, <1>2, <1>3, <1>4, <1>5, <1>6, <1>7 DEF Grown

\* What of a grown function was there before is what it was.
LEMMA GrownSame ==
    ASSUME NEW f0, NEW f, Grown(f, f0)
    PROVE  /\ DOMAIN f.kind = 1..Len(f.kind) /\ Len(f.kind) \in Nat
           /\ 1..Len(f0.kind) \subseteq DOMAIN f.kind /\ DOMAIN f0.kind = 1..Len(f0.kind)
           /\ \A i \in DOMAIN f.kind : f.kind[i] # "fence" => i \in 1..Len(f0.kind)
           /\ \A i \in 1..Len(f0.kind) : f.kind[i] = f0.kind[i]
           /\ \A i, b \in 1..Len(f0.kind) : b \in Fences!Succ(f, i) => b \in Fences!Succ(f0, i)
<1> DEFINE N == Len(f0.kind)
           M == Len(f.kind)
<1>1. /\ DOMAIN f.kind = 1..M /\ M \in Nat /\ N \in Nat /\ N <= M /\ DOMAIN f0.kind = 1..N
      /\ \A i \in 1..M : i > N => f.kind[i] = "fence"
      /\ \A i \in 1..N : f.kind[i] = f0.kind[i]
    BY DEF Grown
<1>2. 1..N \subseteq 1..M /\ \A i \in 1..M : i \in 1..N \/ i > N
    BY <1>1
<1>3. ASSUME NEW i \in 1..N, NEW b \in 1..N, b \in Fences!Succ(f, i) PROVE b \in Fences!Succ(f0, i)
    <2>1. PICK s \in DOMAIN f.succ[i] : f.succ[i][s] = b
        BY <1>3 DEF Fences!Succ
    <2>2. s \in DOMAIN f0.succ[i] /\ (f.succ[i][s] = f0.succ[i][s] \/ f.succ[i][s] > N)
        BY <2>1 DEF Grown
    <2>3. f0.succ[i][s] = b
        BY <1>1, <2>1, <2>2
    <2> QED
        BY <2>2, <2>3 DEF Fences!Succ
<1> QED
    BY <1>1, <1>2, <1>3

\* Entries are instructions, and new entries are fences.
LEMMA GrownEntries ==
    ASSUME NEW f0, NEW f, Grown(f, f0)
    PROVE  /\ Fences!Entries(f) \subseteq DOMAIN f.kind
           /\ Fences!Entries(f) \cap (1..Len(f0.kind)) \subseteq Fences!Entries(f0)
<1> DEFINE N == Len(f0.kind)
<1>1. f.first \in DOMAIN f.kind /\ (f.first = f0.first \/ f.first > N) /\ N \in Nat
    BY DEF Grown
<1>2. ASSUME NEW c \in Fences!Of(f, {"call"})
      PROVE  c \in 1..N /\ c \in Fences!Of(f0, {"call"})
    <2>1. c \in DOMAIN f.kind /\ f.kind[c] = "call"
        BY DEF Fences!Of, Fences!Instr
    <2>2. c \in 1..N /\ f0.kind[c] = "call"
        BY <2>1, GrownSame
    <2> QED
        BY <2>2, GrownSame DEF Fences!Of, Fences!Instr
<1>3. ASSUME NEW b \in Fences!Entries(f), b # f.first
      PROVE  \E c \in Fences!Of(f, {"call"}) : b \in Fences!Succ(f, c)
    BY <1>3 DEF Fences!Entries
<1>4. ASSUME NEW b \in Fences!Entries(f) PROVE b \in DOMAIN f.kind
    <2>1. CASE b = f.first
        BY <1>1, <2>1
    <2>2. CASE b # f.first
        <3>1. PICK c \in 1..N : b \in Fences!Succ(f, c)
            BY <1>2, <1>3, <2>2
        <3>2. PICK s \in DOMAIN f.succ[c] : b = f.succ[c][s]
            BY <3>1 DEF Fences!Succ
        <3>3. f.succ[c] \in Seq(DOMAIN f.kind)
            BY DEF Grown
        <3> QED
            BY <3>2, <3>3
    <2> QED
        BY <2>1, <2>2
<1>5. ASSUME NEW b \in Fences!Entries(f), b \in 1..N PROVE b \in Fences!Entries(f0)
    <2>1. CASE b = f.first
        <3>1. b = f0.first
            BY <1>1, <1>5, <2>1
        <3> QED
            BY <3>1 DEF Fences!Entries
    <2>2. CASE b # f.first
        <3>1. PICK c \in Fences!Of(f, {"call"}) : b \in Fences!Succ(f, c)
            BY <1>3, <2>2
        <3>2. c \in 1..N /\ c \in Fences!Of(f0, {"call"})
            BY <1>2
        <3>3. b \in Fences!Succ(f0, c)
            BY <1>5, <3>1, <3>2, GrownSame
        <3> QED
            BY <3>2, <3>3 DEF Fences!Entries
    <2> QED
        BY <2>1, <2>2
<1> QED
    BY <1>4, <1>5

\* The steps that a new fence leaves without a fence were there before.
LEMMA InsertedUnfenced ==
    ASSUME NEW f0, NEW f, Grown(f, f0), NEW slots, NEW next, NEW g, Inserted(f, slots, next, g)
    PROVE  Fences!Unfenced(g) \subseteq Fences!Unfenced(f)
<1> DEFINE M == Len(f.kind)
<1>1. M \in Nat /\ DOMAIN f.kind = 1..M /\ DOMAIN g.kind = 1..(M + 1)
    BY DEF Grown, Inserted
<1>2. ASSUME NEW i \in DOMAIN g.kind, g.kind[i] # "fence"
      PROVE  i \in DOMAIN f.kind /\ i # M + 1 /\ g.kind[i] = f.kind[i]
    <2>1. i # M + 1
        BY <1>2 DEF Inserted
    <2>2. i \in 1..M
        BY <1>1, <2>1
    <2> QED
        BY <1>1, <2>1, <2>2 DEF Inserted
<1>3. ASSUME NEW i \in DOMAIN f.kind, NEW b, b # M + 1, b \in Fences!Succ(g, i)
      PROVE  b \in Fences!Succ(f, i)
    <2>1. PICK s \in DOMAIN g.succ[i] : g.succ[i][s] = b
        BY <1>3 DEF Fences!Succ
    <2>2. s \in DOMAIN f.succ[i] /\ f.succ[i][s] = b
        BY <1>1, <1>3, <2>1 DEF Inserted
    <2> QED
        BY <2>2 DEF Fences!Succ
<1>4. ASSUME NEW e \in Fences!CFG(g), g.kind[e[1]] # "fence", g.kind[e[2]] # "fence"
      PROVE  e \in Fences!CFG(f)
    <2>1. PICK a, b \in DOMAIN g.kind : e = <<a, b>> /\ b \in Fences!Succ(g, a)
        BY DEF Fences!CFG, Fences!Instr
    <2>2. a \in DOMAIN f.kind /\ b \in DOMAIN f.kind /\ b # M + 1
        BY <1>2, <1>4, <2>1
    <2>3. b \in Fences!Succ(f, a)
        BY <1>3, <2>1, <2>2
    <2> QED
        BY <2>1, <2>2, <2>3 DEF Fences!CFG, Fences!Instr
<1>5. ASSUME NEW i \in Fences!Exits(g), g.kind[i] # "fence" PROVE i \in Fences!Exits(f)
    BY <1>2, <1>5 DEF Fences!Exits, Fences!Of, Fences!Instr
<1>6. ASSUME NEW i \in Fences!Entries(g), i \in DOMAIN g.kind, g.kind[i] # "fence"
      PROVE  i \in Fences!Entries(f)
    <2>0. i # M + 1
        BY <1>2, <1>6
    <2>1. i = g.first \/ \E c \in Fences!Of(g, {"call"}) : i \in Fences!Succ(g, c)
        BY <1>6 DEF Fences!Entries
    <2>2. CASE i = g.first
        <3>1. i = f.first
            BY <2>0, <2>2 DEF Inserted
        <3> QED
            BY <3>1 DEF Fences!Entries
    <2>3. ASSUME NEW c \in Fences!Of(g, {"call"}), i \in Fences!Succ(g, c) PROVE i \in Fences!Entries(f)
        <3>1. c \in DOMAIN g.kind /\ g.kind[c] = "call"
            BY DEF Fences!Of, Fences!Instr
        <3>2. c \in DOMAIN f.kind /\ f.kind[c] = "call"
            BY <1>2, <3>1
        <3>3. i \in Fences!Succ(f, c)
            BY <1>3, <2>0, <2>3, <3>2
        <3>4. c \in Fences!Of(f, {"call"})
            BY <3>2 DEF Fences!Of, Fences!Instr
        <3> QED
            BY <3>3, <3>4 DEF Fences!Entries
    <2> QED
        BY <2>1, <2>2, <2>3
<1>7. ASSUME NEW e \in Fences!BackEdges(g), g.kind[e[1]] # "fence", g.kind[e[2]] # "fence",
             e[2] \in DOMAIN g.kind
      PROVE  e \in Fences!BackEdges(f)
    <2>1. /\ e = <<e[1], e[2]>> /\ e[1] \in Fences!Exits(g) /\ e[2] \in Fences!Entries(g)
          /\ e[1] # e[2]
        BY DEF Fences!BackEdges
    <2>2. e[1] \in Fences!Exits(f) /\ e[2] \in Fences!Entries(f)
        BY <1>5, <1>6, <1>7, <2>1
    <2> QED
        BY <2>1, <2>2 DEF Fences!BackEdges
<1>8. Grown(g, f0)
    BY InsertedGrown
<1>9. ASSUME NEW e \in Fences!BackEdges(g) PROVE e[2] \in DOMAIN g.kind
    BY <1>8, GrownEntries DEF Fences!BackEdges
<1>10. ASSUME NEW e \in Fences!Unfenced(g) PROVE e \in Fences!Unfenced(f)
    <2>1. e \in Fences!G(g) /\ g.kind[e[1]] # "fence" /\ g.kind[e[2]] # "fence"
        BY DEF Fences!Unfenced
    <2>2. e[1] \in DOMAIN g.kind /\ e[2] \in DOMAIN g.kind
        BY <1>9, <2>1 DEF Fences!G, Fences!CFG, Fences!BackEdges, Fences!Exits, Fences!Of, Fences!Instr
    <2>3. e \in Fences!G(f)
        BY <1>4, <1>7, <2>1, <2>2 DEF Fences!G
    <2>4. f.kind[e[1]] # "fence" /\ f.kind[e[2]] # "fence"
        BY <1>2, <2>1, <2>2
    <2> QED
        BY <2>3, <2>4 DEF Fences!Unfenced
<1> QED
    BY <1>10

\* The slots that lead to an instruction, after a fence is put before `next`.
LEMMA InsertedSlots ==
    ASSUME NEW f0, NEW f, Grown(f, f0), NEW next, NEW slots \in SUBSET Fences!predecessors(f, next),
           NEW g, Inserted(f, slots, next, g), NEW b \in 1..Len(f.kind)
    PROVE  /\ b # next => Fences!predecessors(g, b) = Fences!predecessors(f, b)
           /\ b = next => Fences!predecessors(g, b)
                             = (Fences!predecessors(f, b) \ slots) \cup {<<Len(f.kind) + 1, 1>>}
<1> DEFINE M == Len(f.kind)
           P == Fences!predecessors(f, b)
           Q == Fences!predecessors(g, b)
<1>1. M \in Nat /\ DOMAIN f.kind = 1..M /\ DOMAIN g.kind = 1..(M + 1) /\ b # M + 1
    BY GrownSame DEF Inserted
<1>2. \A i \in 1..(M + 1) : i \in 1..M \/ i = M + 1
    BY <1>1
<1>3. /\ g.succ[M + 1] = <<next>>
      /\ \A i \in 1..M : DOMAIN g.succ[i] = DOMAIN f.succ[i]
      /\ \A i \in 1..M : \A s \in DOMAIN f.succ[i] :
            g.succ[i][s] = IF <<i, s>> \in slots THEN M + 1 ELSE f.succ[i][s]
    BY DEF Inserted
<1>4. DOMAIN <<next>> = {1} /\ <<next>>[1] = next
    OBVIOUS
<1>5. ASSUME NEW p \in Q PROVE (p \in P /\ p \notin slots) \/ (p = <<M + 1, 1>> /\ b = next)
    <2>1. PICK i, s : i \in DOMAIN g.kind /\ s \in DOMAIN g.succ[i] /\ p = <<i, s>> /\ g.succ[i][s] = b
        BY SlotsArePairs
    <2>2. CASE i \in 1..M
        <3>1. s \in DOMAIN f.succ[i] /\ p \notin slots /\ f.succ[i][s] = b
            BY <1>1, <1>3, <2>1, <2>2
        <3> QED
            BY <1>1, <2>1, <2>2, <3>1, Slots
    <2>3. CASE i = M + 1
        BY <1>3, <1>4, <2>1, <2>3
    <2> QED
        BY <1>1, <1>2, <2>1, <2>2, <2>3
<1>6. ASSUME NEW p \in P, p \notin slots PROVE p \in Q
    <2>1. PICK i, s : i \in DOMAIN f.kind /\ s \in DOMAIN f.succ[i] /\ p = <<i, s>> /\ f.succ[i][s] = b
        BY SlotsArePairs
    <2>2. i \in 1..M /\ i \in DOMAIN g.kind /\ s \in DOMAIN g.succ[i] /\ g.succ[i][s] = b
        BY <1>1, <1>3, <1>6, <2>1
    <2> QED
        BY <2>1, <2>2, Slots
<1>7. b = next => <<M + 1, 1>> \in Q
    <2>1. M + 1 \in DOMAIN g.kind /\ 1 \in DOMAIN g.succ[M + 1] /\ g.succ[M + 1][1] = next
        BY <1>1, <1>3, <1>4
    <2> QED
        BY <2>1, Slots
<1>8. b # next => P \cap slots = {}
    <2> SUFFICES ASSUME NEW p \in P, p \in slots PROVE b = next
        OBVIOUS
    <2>1. PICK i, s : i \in DOMAIN f.kind /\ s \in DOMAIN f.succ[i] /\ p = <<i, s>> /\ f.succ[i][s] = b
        BY SlotsArePairs
    <2>2. p \in Fences!predecessors(f, next)
        OBVIOUS
    <2> QED
        BY <2>1, <2>2, Slots
<1> HIDE DEF P, Q
<1>9. b # next => Q = P
    BY <1>5, <1>6, <1>8
<1>10. b = next => Q = (P \ slots) \cup {<<M + 1, 1>>}
    BY <1>5, <1>6, <1>7
<1> QED
    BY <1>9, <1>10 DEF P, Q

\* No instruction gets a second predecessor.
LEMMA InsertedWays ==
    ASSUME NEW f0, NEW f, Grown(f, f0), NEW next, NEW slots \in SUBSET Fences!predecessors(f, next),
           NEW g, Inserted(f, slots, next, g), NEW b \in 1..Len(f.kind),
           Fences!shouldCutEdge(g, b)
    PROVE  /\ Fences!shouldCutEdge(f, b) \/ b = next
           /\ slots = Fences!predecessors(f, next) => b # next
<1>1. PICK p, q \in Fences!predecessors(g, b) : p # q
    BY DEF Fences!shouldCutEdge
<1>2. CASE b # next
    BY <1>1, <1>2, InsertedSlots DEF Fences!shouldCutEdge
<1>3. CASE b = next
    BY <1>1, <1>3, InsertedSlots
<1> QED
    BY <1>2, <1>3

\* Steps that the fence is not put on stay.
LEMMA InsertedStays ==
    ASSUME NEW f0, NEW f, Grown(f, f0), NEW slots, NEW next, NEW g, Inserted(f, slots, next, g),
           NEW e \in Fences!CFG(f), \A s : <<e[1], s>> \in slots => f.succ[e[1]][s] # e[2]
    PROVE  e \in Fences!CFG(g)
<1> DEFINE M == Len(f.kind)
<1>1. M \in Nat /\ DOMAIN f.kind = 1..M /\ DOMAIN g.kind = 1..(M + 1)
    BY GrownSame DEF Inserted
<1>2. PICK a, b \in DOMAIN f.kind : e = <<a, b>> /\ b \in Fences!Succ(f, a)
    BY DEF Fences!CFG, Fences!Instr
<1>3. PICK s \in DOMAIN f.succ[a] : f.succ[a][s] = b
    BY <1>2 DEF Fences!Succ
<1>4. <<a, s>> \notin slots
    BY <1>2, <1>3
<1>5. s \in DOMAIN g.succ[a] /\ g.succ[a][s] = b
    BY <1>1, <1>2, <1>3, <1>4 DEF Inserted
<1>6. a \in DOMAIN g.kind /\ b \in DOMAIN g.kind
    BY <1>1, <1>2
<1> QED
    BY <1>2, <1>5, <1>6 DEF Fences!CFG, Fences!Instr, Fences!Succ

\* A fence on all the slots is on every way to `next`.
LEMMA NoneEnters ==
    ASSUME NEW f0, NEW f, Grown(f, f0), NEW next, NEW g,
           Inserted(f, Fences!predecessors(f, next), next, g), NEW d \in Fences!Unfenced(g)
    PROVE  d[2] # next
<1> DEFINE M == Len(f.kind)
<1>1. M \in Nat /\ DOMAIN f.kind = 1..M /\ DOMAIN g.kind = 1..(M + 1) /\ g.kind[M + 1] = "fence"
    BY GrownSame DEF Inserted
<1>2. d \in Fences!G(g) /\ g.kind[d[1]] # "fence" /\ g.kind[d[2]] # "fence"
    BY DEF Fences!Unfenced
<1>3. ASSUME NEW i \in DOMAIN g.kind, g.kind[i] # "fence", NEW b, b # M + 1, b \in Fences!Succ(g, i)
      PROVE  b # next
    <2>1. i \in 1..M
        BY <1>1, <1>3
    <2>2. PICK s \in DOMAIN g.succ[i] : g.succ[i][s] = b
        BY <1>3 DEF Fences!Succ
    <2>3. /\ s \in DOMAIN f.succ[i] /\ f.succ[i][s] = b
          /\ <<i, s>> \notin Fences!predecessors(f, next)
        BY <1>3, <2>1, <2>2 DEF Inserted
    <2> QED
        BY <1>1, <2>1, <2>3, Slots
<1>4. d[2] # M + 1
    BY <1>1, <1>2
<1>5. CASE d \in Fences!CFG(g)
    <2>1. PICK a, b \in DOMAIN g.kind : d = <<a, b>> /\ b \in Fences!Succ(g, a)
        BY <1>5 DEF Fences!CFG, Fences!Instr
    <2> QED
        BY <1>2, <1>3, <1>4, <2>1
<1>6. CASE d \in Fences!BackEdges(g)
    <2>1. d[2] = g.first \/ \E c \in Fences!Of(g, {"call"}) : d[2] \in Fences!Succ(g, c)
        BY <1>6 DEF Fences!BackEdges, Fences!Entries
    <2>2. CASE d[2] = g.first
        <3>1. f.first # next
            BY <1>4, <2>2 DEF Inserted
        <3> QED
            BY <1>4, <2>2, <3>1 DEF Inserted
    <2>3. ASSUME NEW c \in Fences!Of(g, {"call"}), d[2] \in Fences!Succ(g, c) PROVE d[2] # next
        <3>1. c \in DOMAIN g.kind /\ g.kind[c] # "fence"
            BY DEF Fences!Of, Fences!Instr
        <3> QED
            BY <1>3, <1>4, <2>3, <3>1
    <2> QED
        BY <2>1, <2>2, <2>3
<1> QED
    BY <1>2, <1>5, <1>6 DEF Fences!G

\* The search for the first instruction that is no phi comes to an end: a phi goes on to
\* the next instruction or to a fence.
LEMMA NonPhiStep ==
    ASSUME NEW f0, Fences!IsFunction(f0), NEW f, Grown(f, f0), NEW i \in DOMAIN f.kind
    PROVE  /\ f.kind[i] # "phi" => Fences!NonPhi(f, i) = i
           /\ f.kind[i] = "phi" => /\ f.succ[i][1] \in DOMAIN f.kind
                                   /\ Fences!NonPhi(f, i) = Fences!NonPhi(f, f.succ[i][1])
<1> DEFINE N == Len(f0.kind)
           M == Len(f.kind)
           Body(h, j) == IF f.kind[j] = "phi" THEN h[f.succ[j][1]] ELSE j
           Ends(j) == {e \in Nat : e \in j..N /\ (f.kind[e] # "phi" \/ f.succ[e][1] # e + 1)}
           End(j) == CHOOSE e \in Ends(j) : \A d \in Ends(j) : e <= d
           Solution(j) == IF j > N THEN j
                          ELSE IF f.kind[End(j)] # "phi" THEN End(j) ELSE f.succ[End(j)][1]
           sol == [j \in DOMAIN f.kind |-> Solution(j)]
<1>1. /\ N \in Nat /\ M \in Nat /\ N <= M /\ DOMAIN f.kind = 1..M
      /\ \A j \in 1..M : j > N => f.kind[j] = "fence"
      /\ \A j \in 1..N : f.kind[j] = f0.kind[j]
    BY DEF Grown
<1>2. ASSUME NEW j \in 1..M, f.kind[j] = "phi"
      PROVE  /\ j \in 1..N /\ j + 1 \in 1..N
             /\ f.succ[j][1] \in 1..M /\ (f.succ[j][1] = j + 1 \/ f.succ[j][1] > N)
    <2>1. j \in 1..N /\ f0.kind[j] = "phi"
        BY <1>1, <1>2
    <2>2. f0.succ[j] = <<j + 1>> /\ j + 1 \in DOMAIN f0.kind /\ DOMAIN f0.kind = 1..N
        BY <2>1, FenceFunction
    <2>3. 1 \in DOMAIN f0.succ[j] /\ f0.succ[j][1] = j + 1
        BY <2>2
    <2>4. f.succ[j] \in Seq(1..M) /\ 1 \in DOMAIN f.succ[j]
        BY <1>1, <2>1, <2>3 DEF Grown
    <2>5. f.succ[j][1] = j + 1 \/ f.succ[j][1] > N
        BY <2>1, <2>3 DEF Grown
    <2> QED
        BY <2>1, <2>2, <2>4, <2>5
<1>3. ASSUME NEW j \in 1..N PROVE End(j) \in Ends(j) /\ \A d \in Ends(j) : End(j) <= d
    <2>1. N \in Ends(j)
        <3>1. f.kind[N] # "phi"
            BY <1>1, <1>2
        <3> QED
            BY <1>1, <3>1
    <2>2. Ends(j) \subseteq Nat
        OBVIOUS
    <2> HIDE DEF Ends
    <2>3. \E e \in Ends(j) : \A d \in Ends(j) : e <= d
        BY <2>1, <2>2, LeastNatural
    <2> QED
        BY <2>3
<1>4. ASSUME NEW j \in 1..N, f.kind[j] # "phi" \/ f.succ[j][1] # j + 1 PROVE End(j) = j
    <2>1. j \in Ends(j)
        BY <1>1, <1>4
    <2>2. \A d \in Ends(j) : d >= j /\ d \in Nat
        OBVIOUS
    <2> HIDE DEF Ends, End
    <2> QED
        BY <1>3, <2>1, <2>2
<1>5. ASSUME NEW j \in 1..N, f.kind[j] = "phi", f.succ[j][1] = j + 1 PROVE End(j) = End(j + 1)
    <2>1. Ends(j) = Ends(j + 1)
        BY <1>1, <1>5
    <2> HIDE DEF Ends
    <2> QED
        BY <2>1
<1> HIDE DEF End
<1>6. ASSUME NEW j \in DOMAIN f.kind PROVE sol[j] = Body(sol, j)
    <2>1. CASE f.kind[j] # "phi"
        <3>1. j > N \/ j \in 1..N
            BY <1>1
        <3> QED
            BY <1>1, <1>4, <2>1, <3>1
    <2>2. CASE f.kind[j] = "phi" /\ f.succ[j][1] = j + 1
        <3>1. j \in 1..N /\ j + 1 \in 1..N /\ j + 1 \in DOMAIN f.kind /\ ~(j > N) /\ ~(j + 1 > N)
            BY <1>1, <1>2, <2>2
        <3>2. End(j) = End(j + 1)
            BY <1>5, <2>2, <3>1
        <3>3. Solution(j) = Solution(j + 1)
            BY <3>1, <3>2
        <3> HIDE DEF Solution
        <3> QED
            BY <2>2, <3>1, <3>3
    <2>3. CASE f.kind[j] = "phi" /\ f.succ[j][1] # j + 1
        <3>1. j \in 1..N /\ f.succ[j][1] \in DOMAIN f.kind /\ f.succ[j][1] > N /\ ~(j > N)
            BY <1>1, <1>2, <2>3
        <3>2. End(j) = j
            BY <1>4, <2>3, <3>1
        <3>3. Solution(j) = f.succ[j][1] /\ Solution(f.succ[j][1]) = f.succ[j][1]
            BY <2>3, <3>1, <3>2
        <3> HIDE DEF Solution
        <3> QED
            BY <2>3, <3>1, <3>3
    <2> QED
        BY <2>1, <2>2, <2>3
<1>7. sol = [j \in DOMAIN f.kind |-> Body(sol, j)]
    <2> HIDE DEF Body, Solution
    <2> QED
        BY <1>6
<1> DEFINE skip == CHOOSE h : h = [j \in DOMAIN f.kind |-> Body(h, j)]
<1> HIDE DEF sol
<1>8. skip = [j \in DOMAIN f.kind |-> Body(skip, j)]
    BY <1>7
<1>9. \A j : Fences!NonPhi(f, j) = skip[j]
    BY Zenon DEF Fences!NonPhi, Fences!Instr
<1> HIDE DEF skip
<1>10. skip[i] = Body(skip, i)
    <2> HIDE DEF Body
    <2> QED
        BY <1>8
<1>11. f.kind[i] = "phi" => f.succ[i][1] \in DOMAIN f.kind
    BY <1>1, <1>2
<1> QED
    BY <1>9, <1>10, <1>11

\* An edge of the cut that has its fence: control does not step along it, or only to phis
\* that it does not get out of, or from a branch that control does not get to.
Handled(f, f0, e) ==
    \/ e \notin Fences!Unfenced(f)
    \/ \E T \in SUBSET Fences!Of(f0, {"phi"}) :
          e[2] \in T /\ \A d \in Fences!Unfenced(f) : d[1] \in T => d[2] \in T
    \/ /\ f0.kind[e[1]] = "term" /\ Len(f0.succ[e[1]]) = 1
       /\ f.first # e[1] /\ \A d \in Fences!Unfenced(f) : d[2] # e[1]

LEMMA HandledStays ==
    ASSUME NEW f0, NEW f, NEW g, Fences!Unfenced(g) \subseteq Fences!Unfenced(f),
           NEW e, g.first = f.first \/ g.first # e[1], Handled(f, f0, e)
    PROVE  Handled(g, f0, e)
<1>1. CASE e \notin Fences!Unfenced(f)
    BY <1>1 DEF Handled
<1>2. CASE \E T \in SUBSET Fences!Of(f0, {"phi"}) :
              e[2] \in T /\ \A d \in Fences!Unfenced(f) : d[1] \in T => d[2] \in T
    <2>1. PICK T \in SUBSET Fences!Of(f0, {"phi"}) :
              e[2] \in T /\ \A d \in Fences!Unfenced(f) : d[1] \in T => d[2] \in T
        BY <1>2
    <2>2. \A d \in Fences!Unfenced(g) : d[1] \in T => d[2] \in T
        BY <2>1
    <2> QED
        BY <2>1, <2>2 DEF Handled
<1>3. CASE /\ f0.kind[e[1]] = "term" /\ Len(f0.succ[e[1]]) = 1
           /\ f.first # e[1] /\ \A d \in Fences!Unfenced(f) : d[2] # e[1]
    <2>1. g.first # e[1] /\ \A d \in Fences!Unfenced(g) : d[2] # e[1]
        BY <1>3
    <2> QED
        BY <1>3, <2>1 DEF Handled
<1> QED
    BY <1>1, <1>2, <1>3 DEF Handled

\* MitigateBefore: the fence is before dst, or after the phis that start with dst.
LEMMA HandledBefore ==
    ASSUME NEW f0, Fences!IsFunction(f0), NEW f, Grown(f, f0), NEW src, NEW dst \in DOMAIN f.kind,
           NEW g, Inserted(f, Fences!predecessors(f, Fences!NonPhi(f, dst)), Fences!NonPhi(f, dst), g)
    PROVE  Handled(g, f0, <<src, dst>>)
<1> DEFINE q == Fences!NonPhi(f, dst)
           M == Len(f.kind)
<1>1. \A d \in Fences!Unfenced(g) : d[2] # q
    BY NoneEnters
<1>2. CASE f.kind[dst] # "phi"
    <2>1. q = dst
        BY <1>2, NonPhiStep
    <2>2. <<src, dst>> \notin Fences!Unfenced(g)
        BY <1>1, <2>1
    <2> QED
        BY <2>2 DEF Handled
<1>3. CASE f.kind[dst] = "phi"
    <2> DEFINE T == {p \in Fences!Of(f, {"phi"}) : Fences!NonPhi(f, p) = q}
    <2>1. dst \in T
        BY <1>3 DEF Fences!Of, Fences!Instr
    <2>2. T \subseteq Fences!Of(f0, {"phi"})
        <3>1. ASSUME NEW p \in DOMAIN f.kind, f.kind[p] = "phi"
              PROVE  p \in DOMAIN f0.kind /\ f0.kind[p] = "phi"
            BY <3>1, GrownSame
        <3> QED
            BY <3>1 DEF Fences!Of, Fences!Instr
    <2>3. ASSUME NEW d \in Fences!Unfenced(g), d[1] \in T PROVE d[2] \in T
        <3>1. d \in Fences!Unfenced(f)
            BY InsertedUnfenced
        <3>2. /\ d \in Fences!CFG(f) \/ d \in Fences!BackEdges(f)
              /\ f.kind[d[2]] # "fence"
            BY <3>1 DEF Fences!Unfenced, Fences!G
        <3>3. d[1] \in DOMAIN f.kind /\ f.kind[d[1]] = "phi" /\ Fences!NonPhi(f, d[1]) = q
            BY <2>3 DEF Fences!Of, Fences!Instr
        <3>4. d \in Fences!CFG(f)
            <4>1. d \in Fences!BackEdges(f) => f.kind[d[1]] \in {"ret", "call", "invoke"}
                BY DEF Fences!BackEdges, Fences!Exits, Fences!Of
            <4> QED
                BY <3>2, <3>3, <4>1
        <3>5. d[2] \in DOMAIN f.kind /\ d[2] \in Fences!Succ(f, d[1])
            BY <3>4 DEF Fences!CFG, Fences!Instr
        <3>6. DOMAIN f.succ[d[1]] = {1}
            <4>1. d[1] \in 1..Len(f0.kind) /\ f0.kind[d[1]] = "phi" /\ d[1] \in DOMAIN f0.kind
                BY <3>3, GrownSame
            <4>2. f0.succ[d[1]] = <<d[1] + 1>>
                BY <4>1, FenceFunction
            <4>3. DOMAIN f.succ[d[1]] = DOMAIN f0.succ[d[1]]
                BY <4>1 DEF Grown
            <4> QED
                BY <4>2, <4>3
        <3>7. d[2] = f.succ[d[1]][1]
            BY <3>5, <3>6 DEF Fences!Succ
        <3>8. Fences!NonPhi(f, d[2]) = q
            BY <3>3, <3>7, NonPhiStep
        <3>9. f.kind[d[2]] = "phi"
            BY <1>1, <3>5, <3>8, NonPhiStep
        <3> QED
            BY <3>5, <3>8, <3>9 DEF Fences!Of, Fences!Instr
    <2> HIDE DEF T
    <2>4. <<src, dst>>[2] = dst
        OBVIOUS
    <2> QED
        BY <2>1, <2>2, <2>3, <2>4 DEF Handled
<1> QED
    BY <1>2, <1>3

\* What many ways lead to is no entry, and what steps there is a terminator.
LEMMA ManyWays ==
    ASSUME NEW f0, Fences!IsFunction(f0), NEW b \in DOMAIN f0.kind, Fences!shouldCutEdge(f0, b)
    PROVE  /\ b \notin Fences!Entries(f0)
           /\ \A a \in DOMAIN f0.kind : b \in Fences!Succ(f0, a) => f0.kind[a] \in {"term", "invoke"}
<1>1. PICK p, q \in Fences!predecessors(f0, b) : p # q
    BY DEF Fences!shouldCutEdge
<1>2. \A i : Fences!predecessors(f0, b) # {<<i, 1>>}
    BY <1>1
<1>3. ASSUME NEW a \in DOMAIN f0.kind, f0.kind[a] \in {"inst", "phi", "call", "fence"}
      PROVE  b \notin Fences!Succ(f0, a)
    <2>1. f0.succ[a] = <<a + 1>> /\ Fences!predecessors(f0, a + 1) = {<<a, 1>>}
        BY <1>3, FenceFunction
    <2>2. b # a + 1
        BY <1>2, <2>1
    <2>3. Fences!Succ(f0, a) = {a + 1}
        BY <2>1 DEF Fences!Succ
    <2> QED
        BY <2>2, <2>3
<1>4. b # f0.first
    BY <1>1, FenceFunction
<1>5. b \notin Fences!Entries(f0)
    BY <1>3, <1>4 DEF Fences!Entries, Fences!Of, Fences!Instr
<1>6. ASSUME NEW a \in DOMAIN f0.kind, b \in Fences!Succ(f0, a) PROVE f0.kind[a] \in {"term", "invoke"}
    <2>1. f0.kind[a] \in Fences!Kinds
        BY FenceFunction
    <2>2. f0.kind[a] # "ret"
        <3> SUFFICES ASSUME f0.kind[a] = "ret" PROVE FALSE
            OBVIOUS
        <3>1. Len(f0.succ[a]) = 0 /\ f0.succ[a] \in Seq(DOMAIN f0.kind)
            BY FenceFunction
        <3>2. DOMAIN f0.succ[a] = {}
            BY <3>1
        <3> QED
            BY <1>6, <3>2 DEF Fences!Succ
    <2> QED
        BY <1>3, <1>6, <2>1, <2>2 DEF Fences!Kinds
<1> QED
    BY <1>5, <1>6

\* MitigateSource: src is a branch, and the fence is before it.
LEMMA HandledSource ==
    ASSUME NEW f0, Fences!IsFunction(f0), NEW f, Grown(f, f0),
           NEW src \in DOMAIN f0.kind, NEW dst \in DOMAIN f0.kind,
           Fences!shouldCutEdge(f0, dst), <<src, dst>> \in Fences!CFG(f), Len(f.succ[src]) = 1,
           NEW g, Inserted(f, Fences!predecessors(f, Fences!NonPhi(f, src)), Fences!NonPhi(f, src), g)
    PROVE  Handled(g, f0, <<src, dst>>)
<1>1. src \in DOMAIN f.kind /\ f.kind[src] = f0.kind[src]
    BY GrownSame
<1>2. dst \in Fences!Succ(f0, src)
    <2>1. dst \in Fences!Succ(f, src)
        BY DEF Fences!CFG
    <2> QED
        BY <2>1, GrownSame
<1>3. f0.kind[src] \in {"term", "invoke"}
    BY <1>2, ManyWays
<1>4. Len(f0.succ[src]) = 1
    BY GrownSame DEF Grown
<1>5. f0.kind[src] = "term"
    <2>1. f0.kind[src] = "invoke" => Len(f0.succ[src]) = 2
        BY FenceFunction
    <2> QED
        BY <1>3, <1>4, <2>1
<1>6. Fences!NonPhi(f, src) = src
    BY <1>1, <1>5, NonPhiStep
<1>7. \A d \in Fences!Unfenced(g) : d[2] # src
    BY <1>6, NoneEnters
<1>8. g.first # src
    <2>1. src # Len(f.kind) + 1
        BY <1>1, GrownSame
    <2> QED
        BY <1>6, <2>1 DEF Inserted
<1>9. <<src, dst>>[1] = src
    OBVIOUS
<1> QED
    BY <1>4, <1>5, <1>7, <1>8, <1>9 DEF Handled

\* MitigateCritical: the fence is on the slot that leads from src to dst, and there is no
\* other.
LEMMA HandledCritical ==
    ASSUME NEW f0, Fences!IsFunction(f0), NEW f, Grown(f, f0),
           NEW src \in DOMAIN f0.kind, NEW dst \in DOMAIN f0.kind, Fences!shouldCutEdge(f0, dst),
           NEW s \in DOMAIN f.succ[src], f.succ[src][s] = dst,
           \A t, u \in DOMAIN f0.succ[src] : f0.succ[src][t] = f0.succ[src][u] => t = u,
           NEW g, Inserted(f, {<<src, s>>}, dst, g), Grown(g, f0)
    PROVE  Handled(g, f0, <<src, dst>>)
<1> DEFINE N == Len(f0.kind)
           M == Len(f.kind)
<1>1. /\ N \in Nat /\ M \in Nat /\ N <= M /\ DOMAIN f0.kind = 1..N /\ DOMAIN f.kind = 1..M
      /\ DOMAIN f.succ[src] = DOMAIN f0.succ[src]
      /\ \A t \in DOMAIN f0.succ[src] : f.succ[src][t] = f0.succ[src][t] \/ f.succ[src][t] > N
    BY DEF Grown
<1>2. ASSUME NEW t \in DOMAIN f.succ[src], f.succ[src][t] = dst PROVE t = s
    <2>1. f0.succ[src][t] = dst /\ f0.succ[src][s] = dst
        BY <1>1, <1>2
    <2> QED
        BY <1>1, <2>1
<1>3. dst \notin Fences!Succ(g, src)
    <2> SUFFICES ASSUME NEW t \in DOMAIN g.succ[src], g.succ[src][t] = dst PROVE FALSE
        BY DEF Fences!Succ
    <2>1. src \in 1..M /\ dst # M + 1
        BY <1>1
    <2>2. t \in DOMAIN f.succ[src] /\ g.succ[src][t] = IF <<src, t>> \in {<<src, s>>} THEN M + 1 ELSE f.succ[src][t]
        BY <2>1 DEF Inserted
    <2> QED
        BY <1>2, <2>1, <2>2
<1>4. dst \notin Fences!Entries(g)
    BY GrownEntries, ManyWays, <1>1
<1>5. <<src, dst>> \notin Fences!G(g)
    BY <1>3, <1>4 DEF Fences!G, Fences!CFG, Fences!BackEdges
<1> QED
    BY <1>5 DEF Handled, Fences!Unfenced

\* The function is the given one with fences; of its ways without a fence none is new, no
\* instruction has more predecessors than before, and the edges that wait are there.
FenceInv ==
    /\ Fences!IsFunction(in)
    /\ x6 \subseteq Fences!G(in) /\ todo \subseteq x6
    /\ Grown(x7, in)
    /\ Fences!Unfenced(x7) \subseteq Fences!G(in)
    /\ \A b \in DOMAIN in.kind : Fences!shouldCutEdge(x7, b) => Fences!shouldCutEdge(in, b)
    /\ \A e \in todo : Fences!shouldCutEdge(x7, e[2]) => e \in Fences!CFG(x7)
    /\ Fences!DistinctSlots => \A e \in x6 \ todo : Handled(x7, in, e)

LEMMA EdgesOfFunction ==
    ASSUME NEW f0, Fences!IsFunction(f0), NEW e \in Fences!G(f0)
    PROVE  e[1] \in DOMAIN f0.kind /\ e[2] \in DOMAIN f0.kind /\ e = <<e[1], e[2]>>
<1>1. Grown(f0, f0)
    BY GrownInit
<1>2. CASE e \in Fences!CFG(f0)
    <2>1. PICK a, b \in DOMAIN f0.kind : e = <<a, b>>
        BY <1>2 DEF Fences!CFG, Fences!Instr
    <2> QED
        BY <2>1
<1>3. CASE e \in Fences!BackEdges(f0)
    <2>1. Fences!Entries(f0) \subseteq DOMAIN f0.kind
        BY <1>1, GrownEntries
    <2>2. PICK a \in Fences!Exits(f0), b \in Fences!Entries(f0) : e = <<a, b>>
        BY <1>3 DEF Fences!BackEdges
    <2>3. a \in DOMAIN f0.kind
        BY DEF Fences!Exits, Fences!Of, Fences!Instr
    <2> QED
        BY <2>1, <2>2, <2>3
<1> QED
    BY <1>2, <1>3 DEF Fences!G

LEMMA EdgesFinite ==
    ASSUME NEW f0, Fences!IsFunction(f0)
    PROVE  IsFiniteSet(Fences!G(f0))
<1> DEFINE D == DOMAIN f0.kind
<1>1. D = 1..Len(f0.kind) /\ Len(f0.kind) \in Nat
    BY FenceFunction
<1>2. IsFiniteSet(D)
    <2>1. ASSUME NEW n \in Nat PROVE IsFiniteSet(1..n)
        BY FS_Interval
    <2> QED
        BY <1>1, <2>1
<1>3. ASSUME NEW e \in Fences!G(f0) PROVE e[1] \in D /\ e[2] \in D /\ e = <<e[1], e[2]>>
    BY EdgesOfFunction
<1> HIDE DEF D
<1>4. Fences!G(f0) \subseteq D \X D
    BY <1>3
<1>5. IsFiniteSet(D \X D)
    BY <1>2, FS_Product
<1> QED
    BY <1>4, <1>5, FS_Subset

LEMMA FenceStart ==
    ASSUME Fences!IsFunction(in), x7 = in, todo = x6, x6 \subseteq Fences!G(in)
    PROVE  FenceInv
<1>1. x7 = in /\ todo = x6
    OBVIOUS
<1>2. x6 \subseteq Fences!G(in)
    OBVIOUS
<1>3. Fences!IsFunction(in)
    OBVIOUS
<1>4. Grown(x7, in)
    BY <1>1, <1>3, GrownInit
<1>5. Fences!Unfenced(x7) \subseteq Fences!G(in)
    BY <1>1 DEF Fences!Unfenced
<1>6. ASSUME NEW e \in todo, Fences!shouldCutEdge(x7, e[2]) PROVE e \in Fences!CFG(x7)
    <2>1. e \in Fences!G(in) /\ e[2] \in DOMAIN in.kind
        BY <1>1, <1>2, <1>3, EdgesOfFunction
    <2>2. e[2] \notin Fences!Entries(in)
        BY <1>1, <1>3, <1>6, <2>1, ManyWays
    <2> QED
        BY <1>1, <2>1, <2>2 DEF Fences!G, Fences!BackEdges
<1> QED
    BY <1>1, <1>2, <1>3, <1>4, <1>5, <1>6 DEF FenceInv

LEMMA FenceInit == ASSUME InputsAssumption, Fences!Init PROVE FenceInv
<1>1. in \in FenceFunctions /\ x7 = in /\ todo = x6
    BY DEF Fences!Init
<1>2. x6 \subseteq Fences!G(in)
    BY DEF Fences!Init, Fences!kSubset
<1>3. Fences!IsFunction(in)
    BY <1>1, InputsAssumption DEF InputsAssumption, Fences!FunctionsAssumption
<1> QED
    BY <1>1, <1>2, <1>3, FenceStart

LEMMA FenceStutter == ASSUME FenceInv, UNCHANGED <<in, todo, x7, x6>> PROVE FenceInv'
<1>1. in' = in /\ todo' = todo /\ x7' = x7 /\ x6' = x6
    OBVIOUS
<1>2. Fences!DistinctSlots' = Fences!DistinctSlots
    BY <1>1 DEF Fences!DistinctSlots, Fences!Instr
<1> QED
    BY <1>1, <1>2 DEF FenceInv

\* What the three ways to put in a fence have in common.
LEMMA FencePut ==
    ASSUME FenceInv, in' = in, x6' = x6, NEW src, NEW dst, todo' = todo \ {<<src, dst>>},
           NEW next, NEW slots \in SUBSET Fences!predecessors(x7, next),
           Inserted(x7, slots, next, x7'),
           \/ slots = Fences!predecessors(x7, next)
           \/ next = dst /\ Fences!shouldCutEdge(x7, dst) /\ \A p \in slots : p[1] = src,
           Fences!DistinctSlots => Handled(x7', in, <<src, dst>>)
    PROVE  FenceInv'
<1> DEFINE g == x7'
<1>0. Fences!IsFunction(in) /\ Grown(x7, in)
    BY DEF FenceInv
<1>1. Grown(g, in)
    BY <1>0, InsertedGrown
<1>2. Fences!Unfenced(g) \subseteq Fences!Unfenced(x7)
    BY <1>0, InsertedUnfenced
<1>3. DOMAIN in.kind \subseteq 1..Len(x7.kind)
    BY <1>0, GrownSame
<1>4. ASSUME NEW b \in DOMAIN in.kind, Fences!shouldCutEdge(g, b) PROVE Fences!shouldCutEdge(x7, b)
    BY <1>0, <1>3, <1>4, InsertedWays
<1>5. ASSUME NEW e \in todo', Fences!shouldCutEdge(g, e[2]) PROVE e \in Fences!CFG(g)
    <2>1. e \in todo /\ e # <<src, dst>> /\ e \in Fences!G(in)
        BY DEF FenceInv
    <2>2. e[2] \in DOMAIN in.kind /\ e = <<e[1], e[2]>>
        BY <1>0, <2>1, EdgesOfFunction
    <2>3. e \in Fences!CFG(x7)
        BY <1>4, <1>5, <2>1, <2>2 DEF FenceInv
    <2>4. ASSUME NEW s, <<e[1], s>> \in slots PROVE x7.succ[e[1]][s] # e[2]
        <3>1. x7.succ[e[1]][s] = next
            BY <2>4, Slots
        <3>2. CASE slots = Fences!predecessors(x7, next)
            <4>1. e[2] # next
                BY <1>0, <1>3, <1>5, <2>2, <3>2, InsertedWays
            <4> QED
                BY <3>1, <4>1
        <3>3. CASE next = dst /\ \A p \in slots : p[1] = src
            <4>1. e[1] = src
                BY <2>4, <3>3
            <4> QED
                BY <2>1, <2>2, <3>1, <3>3, <4>1
        <3> QED
            BY <3>2, <3>3
    <2> QED
        BY <1>0, <2>3, <2>4, InsertedStays
<1>6. Fences!DistinctSlots' = Fences!DistinctSlots
    BY DEF Fences!DistinctSlots, Fences!Instr
<1>7. ASSUME Fences!DistinctSlots, NEW e \in x6 \ todo' PROVE Handled(g, in, e)
    <2>1. CASE e = <<src, dst>>
        BY <1>7, <2>1
    <2>2. CASE e \in x6 \ todo
        <3>1. Handled(x7, in, e)
            BY <1>7, <2>2 DEF FenceInv
        <3>2. e[1] \in DOMAIN in.kind
            BY <1>0, <2>2, EdgesOfFunction DEF FenceInv
        <3>3. e[1] # Len(x7.kind) + 1 /\ (g.first = x7.first \/ g.first = Len(x7.kind) + 1)
            BY <1>0, <1>3, <3>2, GrownSame DEF Inserted
        <3> QED
            BY <1>2, <3>1, <3>3, HandledStays
    <2> QED
        BY <2>1, <2>2
<1>8. /\ Fences!IsFunction(in) /\ x6 \subseteq Fences!G(in) /\ todo' \subseteq x6
      /\ Fences!Unfenced(g) \subseteq Fences!G(in)
    BY <1>2 DEF FenceInv
<1>9. \A b \in DOMAIN in.kind : Fences!shouldCutEdge(g, b) => Fences!shouldCutEdge(in, b)
    BY <1>4 DEF FenceInv
<1> HIDE DEF g
<1> QED
    BY <1>1, <1>5, <1>6, <1>7, <1>8, <1>9 DEF FenceInv, g

LEMMA FenceMitigateBefore ==
    ASSUME FenceInv, NEW src \in Fences!Instr(in), NEW dst \in Fences!Instr(in),
           Fences!MitigateBefore(src, dst)
    PROVE  FenceInv'
<1> DEFINE next == Fences!NonPhi(x7, dst)
           slots == Fences!predecessors(x7, next)
<1>1. /\ x7' = Fences!InsertFence(x7, slots, next) /\ todo' = todo \ {<<src, dst>>}
      /\ in' = in /\ x6' = x6
    BY DEF Fences!MitigateBefore, Fences!CreateMitigation
<1>2. Fences!IsFunction(in) /\ Grown(x7, in)
    BY DEF FenceInv
<1>3. Inserted(x7, slots, next, x7')
    BY <1>1, <1>2, FenceInserted DEF Grown
<1>4. dst \in DOMAIN x7.kind
    BY <1>2, GrownSame DEF Fences!Instr
<1>5. Handled(x7', in, <<src, dst>>)
    BY <1>2, <1>3, <1>4, HandledBefore
<1> QED
    BY <1>1, <1>3, <1>5, FencePut

LEMMA FenceMitigateSource ==
    ASSUME FenceInv, NEW src \in Fences!Instr(in), NEW dst \in Fences!Instr(in),
           Fences!MitigateSource(src, dst)
    PROVE  FenceInv'
<1> DEFINE next == Fences!NonPhi(x7, src)
           slots == Fences!predecessors(x7, next)
<1>1. /\ x7' = Fences!InsertFence(x7, slots, next) /\ todo' = todo \ {<<src, dst>>}
      /\ in' = in /\ x6' = x6
      /\ <<src, dst>> \in todo /\ Fences!shouldCutEdge(x7, dst) /\ Len(x7.succ[src]) = 1
    BY DEF Fences!MitigateSource, Fences!CreateMitigation
<1>2. Fences!IsFunction(in) /\ Grown(x7, in)
    BY DEF FenceInv
<1>3. Inserted(x7, slots, next, x7')
    BY <1>1, <1>2, FenceInserted DEF Grown
<1>4. src \in DOMAIN in.kind /\ dst \in DOMAIN in.kind
    BY DEF Fences!Instr
<1>5. Fences!shouldCutEdge(in, dst) /\ <<src, dst>> \in Fences!CFG(x7)
    BY <1>1, <1>4 DEF FenceInv
<1>6. Handled(x7', in, <<src, dst>>)
    BY <1>1, <1>2, <1>3, <1>4, <1>5, HandledSource
<1> QED
    BY <1>1, <1>3, <1>6, FencePut

LEMMA FenceMitigateCritical ==
    ASSUME FenceInv, NEW src \in Fences!Instr(in), NEW dst \in Fences!Instr(in),
           Fences!MitigateCritical(src, dst)
    PROVE  FenceInv'
<1> DEFINE Slot == {s \in DOMAIN x7.succ[src] : x7.succ[src][s] = dst}
           first == CHOOSE s \in Slot : \A t \in Slot : s <= t
<1>1. /\ x7' = Fences!InsertFence(x7, {<<src, first>>}, dst) /\ todo' = todo \ {<<src, dst>>}
      /\ in' = in /\ x6' = x6
      /\ <<src, dst>> \in todo /\ Fences!shouldCutEdge(x7, dst)
    BY DEF Fences!MitigateCritical, Fences!SplitCriticalEdge
<1>2. Fences!IsFunction(in) /\ Grown(x7, in)
    BY DEF FenceInv
<1>3. src \in DOMAIN in.kind /\ dst \in DOMAIN in.kind /\ src \in DOMAIN x7.kind
    BY <1>2, GrownSame DEF Fences!Instr
<1>4. Fences!shouldCutEdge(in, dst) /\ <<src, dst>> \in Fences!CFG(x7)
    BY <1>1, <1>3 DEF FenceInv
<1>5. first \in Slot
    <2>1. Slot # {}
        BY <1>4 DEF Fences!CFG, Fences!Succ
    <2>2. x7.succ[src] \in Seq(DOMAIN x7.kind)
        BY <1>2, <1>3 DEF Grown
    <2>3. Slot \in SUBSET Nat
        BY <2>2
    <2> HIDE DEF Slot
    <2>4. \E s \in Slot : \A t \in Slot : s <= t
        BY <2>1, <2>3, LeastNatural
    <2> QED
        BY <2>4
<1> HIDE DEF first
<1>6. first \in DOMAIN x7.succ[src] /\ x7.succ[src][first] = dst
    BY <1>5
<1>7. Inserted(x7, {<<src, first>>}, dst, x7')
    BY <1>1, <1>2, FenceInserted DEF Grown
<1>8. {<<src, first>>} \subseteq Fences!predecessors(x7, dst)
    BY <1>3, <1>6, Slots
<1>9. Grown(x7', in)
    BY <1>2, <1>7, InsertedGrown
<1>10. ASSUME Fences!DistinctSlots PROVE Handled(x7', in, <<src, dst>>)
    <2>1. \A t, u \in DOMAIN in.succ[src] : in.succ[src][t] = in.succ[src][u] => t = u
        BY <1>10, <1>3 DEF Fences!DistinctSlots, Fences!Instr
    <2> QED
        BY <1>2, <1>3, <1>4, <1>6, <1>7, <1>9, <2>1, HandledCritical
<1>11. \A p \in {<<src, first>>} : p[1] = src
    OBVIOUS
<1> QED
    BY <1>1, <1>7, <1>8, <1>10, <1>11, FencePut

LEMMA FenceStep == ASSUME FenceInv, Fences!Next PROVE FenceInv'
<1>1. ASSUME Fences!Done PROVE FenceInv'
    BY <1>1, FenceStutter DEF Fences!Done, Fences!vars
<1> QED
    BY <1>1, FenceMitigateBefore, FenceMitigateCritical, FenceMitigateSource DEF Fences!Next

LEMMA FenceInvariant == Spec => [](pass = "fences" => FenceInv)
<1>1. Init => (pass = "fences" => FenceInv)
    BY FenceInit, InputsAssumption DEF Init
<1>2. ASSUME pass = "fences" => FenceInv, [Next]_vars PROVE (pass = "fences" => FenceInv)'
    <2>1. pass' = pass
        BY <1>2 DEF Next, vars
    <2>2. ASSUME pass = "fences", Next PROVE FenceInv'
        <3>1. Fences!Next
            BY <2>2 DEF Next
        <3> QED
            BY <1>2, <2>2, <3>1, FenceStep
    <2>3. ASSUME pass = "fences", UNCHANGED vars PROVE FenceInv'
        BY <1>2, <2>3, FenceStutter DEF vars
    <2> QED
        BY <1>2, <2>1, <2>2, <2>3
<1> QED
    BY <1>1, <1>2, PTL DEF Spec

\* With all fences in, a way from s to dst that meets none is a way without an edge of
\* the cut; E are the ways that count, and a way that begins at the entry now begins where
\* the function does.
Begins(s, o) == (s = o /\ Fences!Source(o)) \/ (s = x7.first /\ o = in.first)

LEMMA FenceWays ==
    ASSUME FenceInv, Fences!DistinctSlots, todo = {},
           NEW E \in SUBSET Fences!G(in), NEW U \in SUBSET Fences!Unfenced(x7), U \subseteq E,
           NEW o, NEW s, Begins(s, o),
           NEW dst \in DOMAIN in.kind, Fences!Sink(dst), dst \in Reach(U, {s})
    PROVE  dst \in Reach(E \ x6, {o})
<1> DEFINE H == E \ x6
           Trapped == {y \in Fences!Of(in, {"phi"}) :
                          \E T \in SUBSET Fences!Of(in, {"phi"}) :
                             y \in T /\ \A d \in U : d[1] \in T => d[2] \in T}
           Freely == {y \in Reach(H, {o}) : \E d \in U : d[2] = y}
           W == Freely \cup Trapped
<1>1. Fences!IsFunction(in) /\ Grown(x7, in) /\ \A e \in x6 : Handled(x7, in, e)
    BY DEF FenceInv
<1>2. IsFiniteSet(Fences!G(in))
    BY <1>1, EdgesFinite
<1>3. IsFiniteSet(U) /\ IsFiniteSet(H)
    BY <1>2, FS_Subset
<1>4. ASSUME NEW e \in U, e[1] \in Trapped PROVE e[2] \in Trapped
    BY <1>4
<1>5. ASSUME NEW e \in U, e[1] = s
      PROVE  e[1] = o /\ (Fences!Source(o) \/ x7.first = e[1])
    <2>1. CASE s = o /\ Fences!Source(o)
        BY <1>5, <2>1
    <2>2. CASE s = x7.first /\ o = in.first
        <3>1. x7.first = in.first \/ x7.first > Len(in.kind)
            BY <1>1 DEF Grown
        <3>2. x7.kind[s] # "fence"
            BY <1>5 DEF Fences!Unfenced
        <3>3. x7.first \in 1..Len(x7.kind)
            BY <1>1 DEF Grown
        <3>4. x7.first = in.first
            BY <1>1, <2>2, <3>1, <3>2, <3>3 DEF Grown
        <3> QED
            BY <1>5, <2>2, <3>4
    <2> QED
        BY <2>1, <2>2 DEF Begins
<1>6. ASSUME NEW e \in U, e[1] = s \/ e[1] \in Freely PROVE e[2] \in W
    <2>1. e[1] \in {o} \cup Reach(H, {o})
        BY <1>5, <1>6
    <2>2. CASE e \notin x6
        <3>1. e \in H
            BY <2>2
        <3>2. e[2] \in Reach(H, {o})
            BY <1>3, <2>1, <3>1, ReachClosed
        <3> QED
            BY <3>2
    <2>3. CASE e \in x6
        <3>1. Handled(x7, in, e)
            BY <1>1, <2>3
        <3>2. CASE \E T \in SUBSET Fences!Of(in, {"phi"}) :
                      e[2] \in T /\ \A d \in Fences!Unfenced(x7) : d[1] \in T => d[2] \in T
            BY <3>2
        <3>3. CASE /\ in.kind[e[1]] = "term" /\ Len(in.succ[e[1]]) = 1
                   /\ x7.first # e[1] /\ \A d \in Fences!Unfenced(x7) : d[2] # e[1]
            <4>1. e[1] = s
                BY <1>6, <3>3
            <4> QED
                BY <1>5, <3>3, <4>1 DEF Fences!Source
        <3> QED
            BY <3>1, <3>2, <3>3 DEF Handled
    <2> QED
        BY <2>2, <2>3
<1>7. \A e \in U : e[1] \in {s} \cup W => e[2] \in W
    BY <1>4, <1>6
<1> HIDE DEF W
<1>8. Reach(U, {s}) \subseteq W
    BY <1>3, <1>7, ReachLeast
<1>9. dst \notin Trapped
    BY DEF Fences!Sink, Fences!Of
<1> QED
    BY <1>8, <1>9 DEF W

\* The loop over the edges of the cut at the end of MitigatePass::runOnFunction, for every
\* function whose terminators name no block twice, every cut and every order: without a
\* fence control gets from no source of an ST to a sink unless it gets there without an
\* edge of the cut.
THEOREM FencesDoWhatTheCutDoes == Spec => []FencesRealiseCut
<1>1. FenceInv => Fences!FencesRealiseCut
    <2> SUFFICES ASSUME FenceInv, Fences!DistinctSlots, todo = {},
                        NEW src \in Fences!Instr(in), NEW dst \in Fences!Instr(in),
                        Fences!Source(src), Fences!Sink(dst),
                        dst \in Fences!Reach(Fences!Unfenced(x7), {src})
                 PROVE  dst \in Fences!Reach(Fences!G(in) \ x6, {src})
        BY DEF Fences!FencesRealiseCut, Fences!FenceOnEveryPath
    <2>1. Fences!Unfenced(x7) \subseteq Fences!G(in)
        BY DEF FenceInv
    <2>2. dst \in Reach(Fences!Unfenced(x7), {src}) /\ dst \in DOMAIN in.kind
        BY SameReach DEF Fences!Instr
    <2>3. dst \in Reach(Fences!G(in) \ x6, {src})
        <3> DEFINE E == Fences!G(in)
                   U == Fences!Unfenced(x7)
        <3>1. E \in SUBSET Fences!G(in) /\ U \in SUBSET Fences!Unfenced(x7) /\ U \subseteq E
            BY <2>1
        <3>2. dst \in Reach(U, {src})
            BY <2>2
        <3> HIDE DEF E, U
        <3>3. Begins(src, src)
            BY DEF Begins
        <3>4. dst \in Reach(E \ x6, {src})
            BY <2>2, <3>1, <3>2, <3>3, FenceWays
        <3> QED
            BY <3>4 DEF E
    <2> QED
        BY <2>3, SameReach
<1> QED
    BY <1>1, FenceInvariant, PTL DEF FencesRealiseCut

-----------------------------------------------------------------------------
(* runOnFunction as a whole: a cut, as the min-cut promises it, between the *)
(* STs and the fences.                                                      *)

MNode == 1..MitigateSize

\* Sets that certify a cut are not left.
LEMMA CertifiedStep ==
    ASSUME NEW E \in SUBSET (MNode \X MNode), NEW D \in SUBSET E, IsFiniteSet(D), NEW W,
           Cuts!Closed(E, W), NEW S, Cuts!Succ(E, S) \subseteq W, NEW a \in S
    PROVE  Reach(D, {a}) \subseteq W
<1>1. ASSUME NEW e \in D, e[1] \in {a} \cup W PROVE e[2] \in W
    <2>1. e[2] \in MNode /\ <<e[1], e[2]>> \in E
        BY <1>1
    <2>2. CASE e[1] = a
        BY <2>1, <2>2 DEF Cuts!Succ, MNode
    <2>3. CASE e[1] \in W
        BY <2>1, <2>3 DEF Cuts!Succ, Cuts!Closed, MNode
    <2> QED
        BY <1>1, <2>2, <2>3
<1> QED
    BY <1>1, ReachLeast

\* Edges that are a cut of an ST leave no walk that realises it.
LEMMA SeparatedStops ==
    ASSUME NEW E \in SUBSET (MNode \X MNode), NEW D \in SUBSET E, IsFiniteSet(D),
           NEW st, GShape(st), Cuts!Separated(E, st)
    PROVE  ~Generate!Realised(D, st)
<1>1. CASE \E A, B : st = <<A, B>>
    <2>1. PICK A, B : st = <<A, B>>
        BY <1>1
    <2>2. Len(st) - 1 = 1 /\ Len(st) = 2 /\ st[1] = A /\ st[2] = B
        BY <2>1
    <2>3. PICK V : Cuts!IsCertificate(E, st, V)
        BY DEF Cuts!Separated
    <2>4. Cuts!Closed(E, V[1]) /\ Cuts!Succ(E, A) \subseteq V[1] /\ B \cap V[1] = {}
        BY <2>2, <2>3 DEF Cuts!IsCertificate
    <2>5. ASSUME NEW a \in A, NEW b \in B, b \in Reach(D, {a}) PROVE FALSE
        <3>1. Reach(D, {a}) \subseteq V[1]
            BY <2>4, CertifiedStep
        <3> QED
            BY <2>4, <2>5, <3>1
    <2>6. ~Generate!Realised(D, <<A, B>>)
        BY <2>5, RealisedPair
    <2> QED
        BY <2>1, <2>6
<1>2. CASE \E A, B, C : st = <<A, B, C>>
    <2>1. PICK A, B, C : st = <<A, B, C>>
        BY <1>2
    <2>2. Len(st) - 1 = 2 /\ Len(st) = 3 /\ st[1] = A /\ st[2] = B /\ st[3] = C
        BY <2>1
    <2>3. PICK V : Cuts!IsCertificate(E, st, V)
        BY DEF Cuts!Separated
    <2>4. /\ Cuts!Closed(E, V[1]) /\ Cuts!Succ(E, A) \subseteq V[1]
          /\ Cuts!Closed(E, V[2]) /\ Cuts!Succ(E, B \cap V[1]) \subseteq V[2] /\ C \cap V[2] = {}
        <3>1. 1 \in 1..(Len(st) - 1) /\ 2 \in 1..(Len(st) - 1) /\ 2 \in 2..(Len(st) - 1) /\ 2 - 1 = 1
            BY <2>2
        <3>2. /\ \A i \in 1..(Len(st) - 1) : Cuts!Closed(E, V[i])
              /\ Cuts!Succ(E, st[1]) \subseteq V[1]
              /\ \A i \in 2..(Len(st) - 1) : Cuts!Succ(E, st[i] \cap V[i - 1]) \subseteq V[i]
              /\ st[Len(st)] \cap V[Len(st) - 1] = {}
            BY <2>3 DEF Cuts!IsCertificate
        <3>3. Cuts!Succ(E, st[2] \cap V[2 - 1]) \subseteq V[2]
            BY <3>1, <3>2
        <3> QED
            BY <2>2, <3>1, <3>2, <3>3
    <2>5. ASSUME NEW a \in A, NEW b \in B, NEW c \in C, b \in Reach(D, {a}), c \in Reach(D, {b})
          PROVE  FALSE
        <3>1. Reach(D, {a}) \subseteq V[1]
            BY <2>4, CertifiedStep
        <3>2. b \in B \cap V[1]
            BY <2>5, <3>1
        <3>3. Reach(D, {b}) \subseteq V[2]
            BY <2>4, <3>2, CertifiedStep
        <3> QED
            BY <2>4, <2>5, <3>3
    <2>6. ~Walk3(D, A, B, C)
        BY <2>5 DEF Walk3
    <2>7. ~Generate!Realised(D, <<A, B, C>>)
        BY <2>6, RealisedTriple
    <2> QED
        BY <2>1, <2>7
<1> QED
    BY <1>1, <1>2 DEF GShape

\* The two views of a function while the STs are made: a copy that has been inlined is
\* still what it was for the fences.
Views(g, f0) ==
    /\ Fences!IsFunction(f0)
    /\ f0.first = 1 /\ DOMAIN f0.kind = DOMAIN g.kind /\ DOMAIN g.kind \subseteq MNode
    /\ \A i \in DOMAIN g.kind : Fences!Succ(f0, i) = g.succ[i]
    /\ \A i \in DOMAIN g.kind :
          f0.kind[i] \in IF g.kind[i] = "memcpy" THEN {"call", "inst"} ELSE FenceKinds(g.kind[i])

\* And when they are cut.
Matches(g, f0) ==
    /\ Fences!IsFunction(f0) /\ DOMAIN g.kind \subseteq MNode
    /\ SameFunction(g, f0)

LEMMA ViewsInit == ASSUME NEW m, IsMitigateInput(m) PROVE Views(m.f, m.F0)
<1>1. ASSUME NEW i \in DOMAIN m.f.kind
      PROVE  m.F0.kind[i] \in IF m.f.kind[i] = "memcpy" THEN {"call", "inst"}
                              ELSE FenceKinds(m.f.kind[i])
    <2>1. m.F0.kind[i] \in FenceKinds(m.f.kind[i])
        BY DEF IsMitigateInput, SameFunction
    <2>2. FenceKinds("memcpy") \subseteq {"call", "inst"}
        BY DEF FenceKinds
    <2> QED
        BY <2>1, <2>2
<1>2. /\ Fences!IsFunction(m.F0) /\ DOMAIN m.f.kind \subseteq MNode
      /\ m.F0.first = 1 /\ DOMAIN m.F0.kind = DOMAIN m.f.kind
      /\ \A i \in DOMAIN m.f.kind : Fences!Succ(m.F0, i) = m.f.succ[i]
    BY DEF IsMitigateInput, SameFunction, MNode
<1> QED
    BY <1>1, <1>2 DEF Views

LEMMA ViewsInlined ==
    ASSUME NEW g, Generate!IsFunction(g), NEW f0, Views(g, f0),
           NEW i \in Generate!Of(g, {"memcpy_n", "memcpy"})
    PROVE  Views(GInlined(g, i), f0)
<1> DEFINE h == GInlined(g, i)
<1>1. GWellFormed(g) /\ g.kind \in Seq(Generate!Kinds)
    BY GSameFunctions DEF GWellFormed
<1>2. h.kind = [g.kind EXCEPT ![i] = "memcpy"] /\ h.succ = g.succ
    BY <1>1, GSameFields
<1> HIDE DEF h
<1>3. GOneKind(g, h, i)
    BY <1>1, <1>2, GSameKinds
<1>4. ASSUME NEW j \in DOMAIN g.kind
      PROVE  f0.kind[j] \in IF h.kind[j] = "memcpy" THEN {"call", "inst"} ELSE FenceKinds(h.kind[j])
    <2>1. f0.kind[j] \in IF g.kind[j] = "memcpy" THEN {"call", "inst"} ELSE FenceKinds(g.kind[j])
        BY DEF Views
    <2>2. CASE j # i
        BY <1>3, <2>1, <2>2 DEF GOneKind
    <2>3. CASE j = i
        <3>1. FenceKinds("memcpy_n") \subseteq {"call", "inst"}
            BY DEF FenceKinds
        <3>2. g.kind[j] \in {"memcpy_n", "memcpy"} /\ h.kind[j] = "memcpy"
            BY <1>3, <2>3 DEF GOneKind
        <3> QED
            BY <2>1, <3>1, <3>2
    <2> QED
        BY <2>2, <2>3
<1>5. DOMAIN h.kind = DOMAIN g.kind
    BY <1>3 DEF GOneKind
<1> QED
    BY <1>2, <1>4, <1>5 DEF Views, h

\* The function that the fences are put into.
LEMMA ViewsMatch ==
    ASSUME NEW g, NEW f0, Views(g, f0)
    PROVE  Matches(g, CopiesInlined(f0, g))
<1> DEFINE h == CopiesInlined(f0, g)
           I == DOMAIN f0.kind
<1>1. Fences!IsFunction(f0) /\ I = DOMAIN g.kind /\ f0.first = 1
    BY DEF Views
<1>2. /\ h.kind = [i \in I |-> IF g.kind[i] = "memcpy" THEN "inst" ELSE f0.kind[i]]
      /\ h.succ = f0.succ /\ h.first = f0.first
    BY DEF CopiesInlined
<1> HIDE DEF h
<1>3. f0.kind \in Seq(Fences!Kinds) /\ I = 1..Len(f0.kind) /\ Len(f0.kind) \in Nat
    BY <1>1, FenceFunction
<1>4. \A i \in I : f0.kind[i] \in IF g.kind[i] = "memcpy" THEN {"call", "inst"}
                                  ELSE FenceKinds(g.kind[i])
    BY DEF Views
<1>5. \A i \in I : \/ g.kind[i] = "memcpy" /\ h.kind[i] = "inst" /\ f0.kind[i] \in {"call", "inst"}
                   \/ g.kind[i] # "memcpy" /\ h.kind[i] = f0.kind[i]
    BY <1>2, <1>4
<1>6. h.kind \in Seq(Fences!Kinds) /\ DOMAIN h.kind = I
    <2>1. \A i \in I : f0.kind[i] \in Fences!Kinds
        BY <1>3
    <2>2. "inst" \in Fences!Kinds
        BY DEF Fences!Kinds
    <2>3. h.kind \in [1..Len(f0.kind) -> Fences!Kinds]
        BY <1>2, <1>3, <2>1, <2>2
    <2> QED
        BY <1>3, <2>3
<1>7. \A b : Fences!predecessors(h, b) = Fences!predecessors(f0, b)
    BY <1>2, <1>6 DEF Fences!predecessors, Fences!Instr
<1>8. Fences!IsFunction(h)
    <2>1. h.succ \in [DOMAIN h.kind -> Seq(DOMAIN h.kind)]
        BY <1>1, <1>2, <1>6, FenceFunction
    <2>2. h.first \in DOMAIN h.kind /\ Fences!predecessors(h, h.first) = {}
        BY <1>1, <1>2, <1>6, <1>7, FenceFunction
    <2>3. ASSUME NEW i \in Fences!Of(h, {"inst", "phi", "call", "fence"})
          PROVE  h.succ[i] = <<i + 1>> /\ Fences!predecessors(h, i + 1) = {<<i, 1>>}
        <3>1. i \in I /\ f0.kind[i] \in {"inst", "phi", "call", "fence"}
            BY <1>5, <1>6 DEF Fences!Of, Fences!Instr
        <3> QED
            BY <1>1, <1>2, <1>7, <3>1, FenceFunction
    <2>4. ASSUME NEW i \in Fences!Of(h, {"invoke"}) PROVE Len(h.succ[i]) = 2
        <3>1. i \in I /\ f0.kind[i] = "invoke"
            BY <1>5, <1>6 DEF Fences!Of, Fences!Instr
        <3> QED
            BY <1>1, <1>2, <3>1, FenceFunction
    <2>5. ASSUME NEW i \in Fences!Of(h, {"ret"}) PROVE Len(h.succ[i]) = 0
        <3>1. i \in I /\ f0.kind[i] = "ret"
            BY <1>5, <1>6 DEF Fences!Of, Fences!Instr
        <3> QED
            BY <1>1, <1>2, <3>1, FenceFunction
    <2> QED
        BY <1>6, <2>1, <2>2, <2>3, <2>4, <2>5 DEF Fences!IsFunction
<1>9. SameFunction(g, h)
    <2>1. "inst" \in FenceKinds("memcpy")
        BY DEF FenceKinds
    <2>2. \A i \in I : h.kind[i] \in FenceKinds(g.kind[i])
        BY <1>4, <1>5, <2>1
    <2>3. \A i \in I : Fences!Succ(h, i) = g.succ[i]
        BY <1>1, <1>2 DEF Views, Fences!Succ
    <2> QED
        BY <1>1, <1>2, <1>6, <2>2, <2>3 DEF SameFunction
<1> QED
    BY <1>8, <1>9 DEF Matches, Views, h

LEMMA MatchesCFG ==
    ASSUME NEW g, NEW f0, Matches(g, f0)
    PROVE  Fences!CFG(f0) = Generate!CFG(g)
BY DEF Matches, SameFunction, Fences!CFG, Fences!Instr, Generate!CFG

\* Where a leak begins, what it goes on at, and where it ends.
LBegin(i) ==
    /\ i \in DOMAIN x1.kind
    /\ \/ i = 1
       \/ i \in Generate!Of(x1, {"load", "store", "memcpy"})
       \/ i \in Generate!Calls(x1)
       \/ \E y, z \in x1.succ[i] : y # z
LMiddle(i) == i \in Generate!Of(x1, {"load", "store", "memcpy"})
LEnd(i) == i \in DOMAIN x1.kind /\ x1.kind[i] # "op"

LForm(leak) ==
    \/ \E a, b : LBegin(a) /\ LEnd(b) /\ leak = <<{a}, {b}>>
    \/ \E a, b, c : LBegin(a) /\ LMiddle(b) /\ LEnd(c) /\ leak = <<{a}, {b}, {c}>>
    \/ \E a, b, c, d : /\ LBegin(a) /\ LMiddle(b) /\ LMiddle(c) /\ LEnd(d)
                       /\ leak = <<{a}, {b}, {c}, {d}>>

LEMMA LeakForms ==
    ASSUME Generate!IsFunction(x1), NEW leak \in Generate!Leaks
    PROVE  LForm(leak)
<1>1. ASSUME NEW i \in Generate!Of(x1, {"load", "store", "memcpy"}) PROVE LBegin(i) /\ LMiddle(i)
    BY DEF LBegin, LMiddle, Generate!Of
<1>2. ASSUME NEW i, NEW x \in Generate!Starts(i) PROVE LBegin(x)
    BY Zenon DEF LBegin, Generate!Starts
<1>3. ASSUME NEW t \in DOMAIN x1.kind, Generate!get_transmitter_sensitive_operands(x1, t) # {}
      PROVE  LEnd(t)
    BY <1>3 DEF LEnd, Generate!get_transmitter_sensitive_operands
<1>4. ASSUME NEW i \in Generate!Of(x1, {"load", "store", "memcpy"}), NEW w \in Generate!Wrong(i)
      PROVE  w = <<{i}>> \/ \E x \in Generate!Starts(i) : w = <<{x}, {i}>>
    BY DEF Generate!Wrong
<1>5. ASSUME NEW s \in Generate!Overwrites PROVE s \in Generate!Of(x1, {"load", "store", "memcpy"})
    BY Zenon DEF Generate!Overwrites, Generate!Of
<1>6. CASE \E t \in DOMAIN x1.kind : \E l \in Generate!TransmitterNCALs(x1, t) :
              \E w \in Generate!Wrong(l) : leak = w \o <<{t}>>
    <2>t. PICK t \in DOMAIN x1.kind : \E l \in Generate!TransmitterNCALs(x1, t) :
              \E w \in Generate!Wrong(l) : leak = w \o <<{t}>>
        BY <1>6
    <2>l. PICK l \in Generate!TransmitterNCALs(x1, t) :
              \E w \in Generate!Wrong(l) : leak = w \o <<{t}>>
        BY <2>t
    <2>1. PICK w \in Generate!Wrong(l) : leak = w \o <<{t}>>
        BY <2>l
    <2>2. l \in Generate!Of(x1, {"load", "store", "memcpy"})
        BY <2>1, NcalIsLoad DEF Generate!Of
    <2>3. LEnd(t)
        BY <1>3 DEF Generate!TransmitterNCALs
    <2>4. CASE w = <<{l}>>
        <3>1. leak = <<{l}, {t}>>
            BY <2>1, <2>4, Concatenated1
        <3> QED
            BY <1>1, <2>2, <2>3, <3>1 DEF LForm
    <2>5. CASE \E x \in Generate!Starts(l) : w = <<{x}, {l}>>
        <3>1. PICK x \in Generate!Starts(l) : w = <<{x}, {l}>>
            BY <2>5
        <3>2. leak = <<{x}, {l}, {t}>>
            BY <2>1, <3>1, Concatenated2
        <3> QED
            BY <1>1, <1>2, <2>2, <2>3, <3>2 DEF LForm
    <2> QED
        BY <1>4, <2>2, <2>4, <2>5
<1>7. CASE \E t \in DOMAIN x1.kind : \E l \in GLeaked(t) : \E s \in Generate!Overwrites :
              \E w \in Generate!Wrong(s) : leak = w \o <<{l}, {t}>>
    <2>t. PICK t \in DOMAIN x1.kind : \E l \in GLeaked(t) : \E s \in Generate!Overwrites :
              \E w \in Generate!Wrong(s) : leak = w \o <<{l}, {t}>>
        BY <1>7
    <2>l. PICK l \in GLeaked(t), s \in Generate!Overwrites :
              \E w \in Generate!Wrong(s) : leak = w \o <<{l}, {t}>>
        BY <2>t
    <2>1. PICK w \in Generate!Wrong(s) : leak = w \o <<{l}, {t}>>
        BY <2>l
    <2>2. LMiddle(l) /\ LMiddle(s) /\ LBegin(s)
        BY <1>1, <1>5 DEF GLeaked, Generate!Of, LMiddle
    <2>3. LEnd(t)
        <3>1. Generate!get_transmitter_sensitive_operands(x1, t) # {}
            <4>1. {} \in SUBSET GValues(x1)
                OBVIOUS
            <4>2. GLoads(x1, {}) = {}
                BY <4>1, LoadsAreValues
            <4> QED
                BY <2>1, <4>2 DEF GLeaked
        <3> QED
            BY <1>3, <3>1
    <2>4. CASE w = <<{s}>>
        <3>1. leak = <<{s}, {l}, {t}>>
            BY <2>1, <2>4, Concatenated3
        <3> QED
            BY <2>2, <2>3, <3>1 DEF LForm
    <2>5. CASE \E x \in Generate!Starts(s) : w = <<{x}, {s}>>
        <3>1. PICK x \in Generate!Starts(s) : w = <<{x}, {s}>>
            BY <2>5
        <3>2. leak = <<{x}, {s}, {l}, {t}>>
            BY <2>1, <3>1, Concatenated4
        <3> QED
            BY <1>2, <2>2, <2>3, <3>2 DEF LForm
    <2> QED
        BY <1>4, <1>5, <2>4, <2>5
<1>8. CASE \E s \in Generate!Overwrites, c \in Generate!ctrls(x1) : leak = <<{s}, {c}>>
    <2>1. PICK s \in Generate!Overwrites, c \in Generate!ctrls(x1) : leak = <<{s}, {c}>>
        BY <1>8
    <2>2. LEnd(c)
        BY DEF Generate!ctrls, Generate!Calls, Generate!Of, LEnd
    <2> QED
        BY <1>1, <1>5, <2>1, <2>2 DEF LForm
<1> QED
    BY <1>6, <1>7, <1>8, LeakKinds

\* The steps of the function that meet no fence are steps of the function before.
LEMMA UnfencedSteps ==
    ASSUME FenceInv
    PROVE  Fences!CFG(x7) \cap Fences!Unfenced(x7) \subseteq Fences!CFG(in)
<1>1. Grown(x7, in) /\ DOMAIN in.kind = 1..Len(in.kind)
    BY GrownSame DEF FenceInv
<1>2. ASSUME NEW e \in Fences!CFG(x7), e \in Fences!Unfenced(x7) PROVE e \in Fences!CFG(in)
    <2>1. /\ e \in (DOMAIN x7.kind) \X (DOMAIN x7.kind) /\ e[2] \in Fences!Succ(x7, e[1])
          /\ x7.kind[e[1]] # "fence" /\ x7.kind[e[2]] # "fence"
        BY <1>2 DEF Fences!CFG, Fences!Instr, Fences!Unfenced
    <2>2. e[1] \in 1..Len(in.kind) /\ e[2] \in 1..Len(in.kind) /\ e = <<e[1], e[2]>>
        BY <1>1, <2>1, GrownSame
    <2>3. e[2] \in Fences!Succ(in, e[1])
        BY <1>1, <2>1, <2>2, GrownSame
    <2> QED
        BY <1>1, <2>2, <2>3 DEF Fences!CFG, Fences!Instr
<1> QED
    BY <1>2

MBegin(i) == IF Fences!Source(i) THEN i ELSE x7.first

\* Where leaks begin, go on and end, fences can be put in.
LEMMA LeaksAtPlaces ==
    ASSUME Matches(x1, in)
    PROVE  /\ \A i : LBegin(i) => Begins(MBegin(i), i)
           /\ \A i : LMiddle(i) => i \in DOMAIN in.kind /\ Begins(i, i) /\ Fences!Sink(i)
           /\ \A i : LEnd(i) => i \in DOMAIN in.kind /\ Fences!Sink(i)
<1>1. /\ in.first = 1 /\ DOMAIN in.kind = DOMAIN x1.kind
      /\ \A i \in DOMAIN x1.kind : Fences!Succ(in, i) = x1.succ[i]
      /\ \A i \in DOMAIN x1.kind : in.kind[i] \in FenceKinds(x1.kind[i])
    BY DEF Matches, SameFunction
<1>2. ASSUME NEW i \in DOMAIN x1.kind, ~Fences!Source(i)
      PROVE  /\ x1.kind[i] \notin {"load", "store", "memcpy", "memcpy_n", "call"}
             /\ \A y, z \in x1.succ[i] : y = z
    <2>1. in.kind[i] = "term" /\ Len(in.succ[i]) = 1
        BY <1>2 DEF Fences!Source
    <2>2. in.succ[i] \in Seq(DOMAIN in.kind)
        BY <1>1, FenceFunction DEF Matches
    <2>3. DOMAIN in.succ[i] = {1}
        BY <2>1, <2>2
    <2>4. \A y \in x1.succ[i] : y = in.succ[i][1]
        BY <1>1, <2>3 DEF Fences!Succ
    <2>5. "term" \in FenceKinds(x1.kind[i])
        BY <1>1, <2>1
    <2>6. x1.kind[i] \notin {"load", "store", "memcpy", "memcpy_n", "call"}
        BY <2>5 DEF FenceKinds
    <2> QED
        BY <2>4, <2>6
<1>3. ASSUME NEW i, LBegin(i) PROVE Begins(MBegin(i), i)
    <2>1. CASE Fences!Source(i)
        BY <2>1 DEF Begins, MBegin
    <2>2. CASE ~Fences!Source(i)
        <3>1. i = 1
            BY <1>2, <1>3, <2>2 DEF LBegin, Generate!Of, Generate!Calls
        <3> QED
            BY <1>1, <2>2, <3>1 DEF Begins, MBegin
    <2> QED
        BY <2>1, <2>2
<1>4. ASSUME NEW i, LMiddle(i) PROVE i \in DOMAIN in.kind /\ Begins(i, i) /\ Fences!Sink(i)
    <2>1. i \in DOMAIN x1.kind /\ x1.kind[i] \in {"load", "store", "memcpy"}
        BY <1>4 DEF LMiddle, Generate!Of
    <2>2. Fences!Source(i)
        BY <1>2, <2>1
    <2>3. in.kind[i] \in FenceKinds(x1.kind[i])
        BY <1>1, <2>1
    <2>4. in.kind[i] # "phi"
        BY <2>1, <2>3 DEF FenceKinds
    <2> QED
        BY <1>1, <2>1, <2>2, <2>4 DEF Begins, Fences!Sink
<1>5. ASSUME NEW i, LEnd(i) PROVE i \in DOMAIN in.kind /\ Fences!Sink(i)
    <2>1. i \in DOMAIN x1.kind /\ x1.kind[i] # "op"
        BY <1>5 DEF LEnd
    <2>2. in.kind[i] \in FenceKinds(x1.kind[i])
        BY <1>1, <2>1
    <2>3. in.kind[i] # "phi"
        <3>1. "phi" \in FenceKinds(x1.kind[i]) => x1.kind[i] \in {"op", "term", "ret"}
            BY DEF FenceKinds
        <3>2. x1.kind[i] \in {"term", "ret"} => FenceKinds(x1.kind[i]) = {x1.kind[i]}
            BY DEF FenceKinds
        <3> QED
            BY <2>1, <2>2, <3>1, <3>2
    <2> QED
        BY <1>1, <2>1, <2>3 DEF Fences!Sink
<1> QED
    BY <1>3, <1>4, <1>5

\* If no way along the edges that are left after the cut is a leak, no way without a fence is.
LEMMA LeaksFenced ==
    ASSUME FenceInv, Fences!DistinctSlots, todo = {}, Generate!IsFunction(x1), Matches(x1, in),
           NEW leak \in Generate!Leaks, ~Generate!Realised(Fences!CFG(in) \ x6, leak)
    PROVE  ~Generate!Realised(Fences!CFG(x7) \cap Fences!Unfenced(x7),
                              [leak EXCEPT ![1] = {MBegin(i) : i \in @}])
<1> DEFINE E == Fences!CFG(in)
           U == Fences!CFG(x7) \cap Fences!Unfenced(x7)
           H == E \ x6
           Led(l) == [l EXCEPT ![1] = {MBegin(i) : i \in @}]
<1>1. E \in SUBSET Fences!G(in) /\ U \in SUBSET Fences!Unfenced(x7) /\ U \subseteq E
    BY UnfencedSteps DEF Fences!G
<1>2. IsFiniteSet(E) /\ IsFiniteSet(U) /\ IsFiniteSet(H)
    <2>1. IsFiniteSet(Fences!G(in))
        BY EdgesFinite DEF FenceInv
    <2> QED
        BY <1>1, <2>1, FS_Subset
<1>3. ~Generate!Realised(H, leak)
    OBVIOUS
<1> HIDE DEF E, U
<1>4. ASSUME NEW s, NEW o, Begins(s, o), NEW d \in DOMAIN in.kind, Fences!Sink(d),
             d \in Reach(U, {s})
      PROVE  d \in Reach(H, {o})
    BY <1>1, <1>4, FenceWays
<1> HIDE DEF H
<1> SUFFICES ASSUME Generate!Realised(U, Led(leak)) PROVE FALSE
    BY DEF U
<1>5. CASE \E a, b : LBegin(a) /\ LEnd(b) /\ leak = <<{a}, {b}>>
    <2>1. PICK a, b : LBegin(a) /\ LEnd(b) /\ leak = <<{a}, {b}>>
        BY <1>5
    <2>2. Led(leak) = <<{MBegin(a)}, {b}>>
        BY <2>1
    <2>3. b \in Reach(U, {MBegin(a)})
        BY <1>2, <2>2, WalkPair
    <2>4. b \in Reach(H, {a})
        BY <1>4, <2>1, <2>3, LeaksAtPlaces
    <2> QED
        BY <1>2, <1>3, <2>1, <2>4, RealisedPair
<1>6. CASE \E a, b, c : LBegin(a) /\ LMiddle(b) /\ LEnd(c) /\ leak = <<{a}, {b}, {c}>>
    <2>1. PICK a, b, c : LBegin(a) /\ LMiddle(b) /\ LEnd(c) /\ leak = <<{a}, {b}, {c}>>
        BY <1>6
    <2>2. Led(leak) = <<{MBegin(a)}, {b}, {c}>>
        BY <2>1
    <2>3. b \in Reach(U, {MBegin(a)}) /\ c \in Reach(U, {b})
        BY <1>2, <2>2, WalkTriple
    <2>4. b \in Reach(H, {a})
        BY <1>4, <2>1, <2>3, LeaksAtPlaces
    <2>5. c \in Reach(H, {b})
        BY <1>4, <2>1, <2>3, LeaksAtPlaces
    <2>6. Walk3(H, {a}, {b}, {c})
        BY <2>4, <2>5 DEF Walk3
    <2> QED
        BY <1>2, <1>3, <2>1, <2>6, RealisedTriple
<1>7. CASE \E a, b, c, d : /\ LBegin(a) /\ LMiddle(b) /\ LMiddle(c) /\ LEnd(d)
                           /\ leak = <<{a}, {b}, {c}, {d}>>
    <2>1. PICK a, b, c, d : /\ LBegin(a) /\ LMiddle(b) /\ LMiddle(c) /\ LEnd(d)
                            /\ leak = <<{a}, {b}, {c}, {d}>>
        BY <1>7
    <2>2. Led(leak) = <<{MBegin(a)}, {b}, {c}, {d}>>
        BY <2>1
    <2>3. b \in Reach(U, {MBegin(a)}) /\ c \in Reach(U, {b}) /\ d \in Reach(U, {c})
        <3>1. Generate!Realised(U, <<{MBegin(a)}, {b}, {c}, {d}>>)
            BY <2>2
        <3> QED
            BY <1>2, <3>1, WalkQuadruple
    <2>4. b \in Reach(H, {a})
        BY <1>4, <2>1, <2>3, LeaksAtPlaces
    <2>5. c \in Reach(H, {b})
        BY <1>4, <2>1, <2>3, LeaksAtPlaces
    <2>6. d \in Reach(H, {c})
        BY <1>4, <2>1, <2>3, LeaksAtPlaces
    <2>7. Walk4(H, {a}, {b}, {c}, {d})
        BY <2>4, <2>5, <2>6 DEF Walk4
    <2> QED
        BY <1>2, <1>3, <2>1, <2>7, RealisedQuadruple
<1> QED
    BY <1>5, <1>6, <1>7, LeakForms DEF LForm

\* All of MitigatePass::runOnFunction: the STs that are made of one view of the function, the
\* edges that the cut leaves, and the fences.
MitigateInv ==
    /\ pc \in {"generate", "fences", "abort"}
    /\ pc = "generate" => GenerateInv /\ Views(x1, in)
    /\ pc = "fences" =>
          /\ Generate!IsFunction(x1) /\ Matches(x1, in) /\ FenceInv
          /\ \A leak \in Generate!Leaks : ~Generate!Realised(Fences!CFG(in) \ x6, leak)

LEMMA MitigateInit == ASSUME InputsAssumption, InitMitigate PROVE MitigateInv
<1>1. PICK m \in MitigateInputs :
          /\ x1 = m.f /\ in = m.F0 /\ x3 = 0 /\ pc = "generate"
          /\ todo = IF "mem_intrinsic" \in x5 THEN Generate!Of(x1, {"memcpy_n", "memcpy"}) ELSE {}
    BY DEF InitMitigate
<1>2. IsMitigateInput(m)
    BY DEF InputsAssumption
<1>3. Views(x1, in)
    BY <1>1, <1>2, ViewsInit
<1>4. Generate!IsFunction(x1)
    BY <1>1, <1>2 DEF IsMitigateInput
<1>5. GMadeSoFar
    BY <1>1 DEF GMadeSoFar
<1>6. todo \subseteq Generate!Of(x1, {"memcpy_n", "memcpy"})
    BY <1>1
<1>7. GenerateInv
    BY <1>1, <1>4, <1>5, <1>6 DEF GenerateInv
<1> QED
    BY <1>1, <1>3, <1>7 DEF MitigateInv

\* The function changes only where copies are inlined.
LEMMA GenerateChanges ==
    ASSUME GenerateInv, Generate!Next
    PROVE  x1' = x1 \/ \E i \in Generate!Of(x1, {"memcpy_n", "memcpy"}) : x1' = GInlined(x1, i)
<1>1. ASSUME NEW i, Generate!handleMemIntrinsic(i)
      PROVE  i \in Generate!Of(x1, {"memcpy_n", "memcpy"}) /\ x1' = GInlined(x1, i)
    BY <1>1 DEF Generate!handleMemIntrinsic, GInlined, GenerateInv
<1>2. ASSUME NEW i,
             \/ Generate!NcasXmit(i) \/ Generate!NcasXmitFails(i) \/ Generate!NcasCtrl(i)
             \/ Generate!NcalXmit(i) \/ Generate!NcalGlob(i) \/ Generate!EntryXmit(i)
             \/ Generate!LoadXmit(i) \/ Generate!CallXmit(i)
      PROVE  x1' = x1
    <2>1. Generate!NcasXmitFails(i) \/ \E new : Generate!Add(i, new)
        BY <1>2 DEF Generate!NcasXmit, Generate!NcasCtrl, Generate!NcalXmit,
                    Generate!NcalGlob, Generate!EntryXmit, Generate!LoadXmit, Generate!CallXmit
    <2> QED
        BY <2>1 DEF Generate!NcasXmitFails, Generate!Add
<1>3. ASSUME Generate!NextKind PROVE x1' = x1
    BY <1>3 DEF Generate!NextKind
<1>4. ASSUME Generate!Done PROVE x1' = x1
    BY <1>4 DEF Generate!Done, Generate!vars
<1> QED
    BY <1>1, <1>2, <1>3, <1>4 DEF Generate!Next

LEMMA SameLeaks == ASSUME x1' = x1, x5' = x5 PROVE Generate!Leaks' = Generate!Leaks
BY SMT DEF Generate!Leaks, Generate!NcalLeaks, Generate!NcasLeaks, Generate!CtrlLeaks,
           Generate!Overwrites, Generate!Warned, Generate!LoadsGivenAway, Generate!Wrong, Generate!Starts,
           Generate!ConstantOnSomeWay

FencesStart == Fences!IsFunction(in) /\ x7 = in /\ todo = x6 /\ x6 \subseteq Fences!G(in)

LEMMA FenceStartNext == FencesStart' => FenceInv'
<1>1. FencesStart => FenceInv
    BY FenceStart DEF FencesStart
<1> QED
    BY <1>1, PTL

\* The cut is one of the STs that have been made, in the graph that the fences are for.
LEMMA MitigateCut == ASSUME MitigateInv, RunMinCut PROVE MitigateInv'
<1>1. /\ pc = "generate" /\ x4 = 0 /\ x3 > Len(Generate!STKinds)
      /\ in' = CopiesInlined(in, x1) /\ x7' = in' /\ todo' = x6' /\ pc' = "fences"
      /\ x1' = x1 /\ x2' = x2 /\ x5' = x5
      /\ Cuts!IsCut([E |-> Fences!G(in'), sts |-> [st \in x2 |-> st]], x6')
    BY DEF RunMinCut, Generated
<1>2. GenerateInv /\ Views(x1, in) /\ Generate!IsFunction(x1)
    BY <1>1 DEF MitigateInv, GenerateInv
<1>3. Matches(x1, in') /\ Fences!IsFunction(in')
    BY <1>1, <1>2, ViewsMatch DEF Matches
<1>4. /\ x6' \subseteq Fences!G(in')
      /\ \A st \in x2 : Cuts!Separated(Fences!G(in') \ x6', st)
    BY <1>1 DEF Cuts!IsCut
<1>5. FenceInv'
    <2>1. FencesStart'
        BY <1>1, <1>3, <1>4 DEF FencesStart
    <2> QED
        BY <2>1, FenceStartNext
<1>6. ASSUME NEW leak \in Generate!Leaks PROVE ~Generate!Realised(Fences!CFG(in') \ x6', leak)
    <2> DEFINE E == Fences!G(in') \ x6'
               D == Generate!CFG(x1) \ x6'
               cut == x6' \cap Generate!CFG(x1)
    <2>1. Fences!CFG(in') = Generate!CFG(x1)
        BY <1>3, MatchesCFG
    <2>2. D \in SUBSET E
        BY <2>1 DEF Fences!G
    <2>3. E \in SUBSET (MNode \X MNode)
        <3>1. DOMAIN in'.kind \subseteq MNode
            BY <1>3 DEF Matches, SameFunction
        <3>2. \A e \in Fences!G(in') : e \in MNode \X MNode
            BY <1>3, <3>1, EdgesOfFunction
        <3> QED
            BY <3>2
    <2>4. IsFiniteSet(D)
        BY <1>2, CutFinite
    <2>5. \A st \in x2 : GShape(st) => ~Generate!Realised(D, st)
        <3> HIDE DEF D
        <3>1. \A st \in x2 : Cuts!Separated(E, st)
            BY <1>4
        <3> HIDE DEF E
        <3> QED
            BY <2>2, <2>3, <2>4, <3>1, SeparatedStops
    <2>6. cut \in SUBSET Generate!CFG(x1) /\ Generate!CFG(x1) \ cut = D
        OBVIOUS
    <2>7. GMade
        BY <1>1, <1>2, MadeAtEnd
    <2> HIDE DEF cut, D, E
    <2>8. ~Generate!Realised(D, leak)
        BY <1>2, <2>5, <2>6, <2>7, MadeStops
    <2> QED
        BY <2>1, <2>8 DEF D
<1>7. Generate!Leaks' = Generate!Leaks
    BY <1>1, SameLeaks
<1> QED
    BY <1>1, <1>2, <1>3, <1>5, <1>6, <1>7 DEF MitigateInv

LEMMA MitigateGenerate ==
    ASSUME MitigateInv, pc = "generate", Generate!Next, UNCHANGED <<in, pc, x6, x7>>
    PROVE  MitigateInv'
<1>1. GenerateInv /\ Views(x1, in) /\ Generate!IsFunction(x1)
    BY DEF MitigateInv, GenerateInv
<1>2. GenerateInv'
    BY <1>1, GenerateStep
<1>3. Views(x1', in)
    BY <1>1, GenerateChanges, ViewsInlined
<1> QED
    BY <1>2, <1>3 DEF MitigateInv

LEMMA MitigateFences ==
    ASSUME MitigateInv, pc = "fences", Fences!Next, UNCHANGED <<pc, x1, x2, x3, x4, x5>>
    PROVE  MitigateInv'
<1>1. /\ Generate!IsFunction(x1) /\ Matches(x1, in) /\ FenceInv
      /\ \A leak \in Generate!Leaks : ~Generate!Realised(Fences!CFG(in) \ x6, leak)
    BY DEF MitigateInv
<1>2. FenceInv'
    BY <1>1, FenceStep
<1>3. in' = in /\ x6' = x6
    BY DEF Fences!Next, Fences!MitigateBefore, Fences!MitigateSource, Fences!MitigateCritical,
           Fences!Done, Fences!vars
<1>4. Generate!Leaks' = Generate!Leaks
    BY SameLeaks
<1> QED
    BY <1>1, <1>2, <1>3, <1>4 DEF MitigateInv

LEMMA MitigateStutter ==
    ASSUME MitigateInv, UNCHANGED <<in, todo, pc, x1, x2, x3, x4, x5, x6, x7>>
    PROVE  MitigateInv'
<1>1. Generate!Leaks' = Generate!Leaks
    BY SameLeaks
<1>2. CASE pc = "generate"
    <2>1. GenerateInv'
        BY <1>2, GStutter DEF MitigateInv
    <2> QED
        BY <1>2, <2>1 DEF MitigateInv
<1>3. CASE pc = "fences"
    <2>1. FenceInv'
        BY <1>3, FenceStutter DEF MitigateInv
    <2> QED
        BY <1>1, <1>3, <2>1 DEF MitigateInv
<1>4. CASE pc = "abort"
    BY <1>4 DEF MitigateInv
<1> QED
    BY <1>2, <1>3, <1>4 DEF MitigateInv

LEMMA MitigateStep == ASSUME MitigateInv, NextMitigate PROVE MitigateInv'
<1>1. ASSUME MinCutAborts PROVE MitigateInv'
    BY <1>1 DEF MinCutAborts, MitigateInv
<1> QED
    BY <1>1, MitigateGenerate, MitigateCut, MitigateFences, MitigateStutter DEF NextMitigate

LEMMA MitigateInvariant == Spec => [](pass = "mitigate" => MitigateInv)
<1>1. Init => (pass = "mitigate" => MitigateInv)
    BY MitigateInit, InputsAssumption DEF Init
<1>2. ASSUME pass = "mitigate" => MitigateInv, [Next]_vars PROVE (pass = "mitigate" => MitigateInv)'
    <2>1. pass' = pass
        BY <1>2 DEF Next, vars
    <2>2. ASSUME pass = "mitigate", Next PROVE MitigateInv'
        <3>1. NextMitigate
            BY <2>2 DEF Next
        <3> QED
            BY <1>2, <2>2, <3>1, MitigateStep
    <2>3. ASSUME pass = "mitigate", UNCHANGED vars PROVE MitigateInv'
        BY <1>2, <2>3, MitigateStutter DEF vars
    <2> QED
        BY <1>2, <2>1, <2>2, <2>3
<1> QED
    BY <1>1, <1>2, PTL DEF Spec

\* MitigatePass::runOnFunction from beginning to end, for every function, all options, every
\* cut of the STs and every order of its edges: when the fences are in, every walk of control
\* along which the function would leak meets one, if no terminator names a block twice.
THEOREM MitigationSuffices == Spec => []NoLeakIsLeft
<1>1. ASSUME MitigateInv, pc = "fences", todo = {}, Fences!DistinctSlots,
             NEW leak \in Generate!Leaks
      PROVE  ~Generate!Realised(Fences!CFG(x7) \cap Fences!Unfenced(x7),
                                [leak EXCEPT ![1] = {MBegin(i) : i \in @}])
    BY <1>1, LeaksFenced DEF MitigateInv
<1>2. (pass = "mitigate" => MitigateInv) => NoLeakIsLeft
    BY <1>1 DEF NoLeakIsLeft, MBegin
<1> QED
    BY <1>2, MitigateInvariant, PTL

=============================================================================
