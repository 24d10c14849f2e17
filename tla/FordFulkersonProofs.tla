------------------------- MODULE FordFulkersonProofs -------------------------
(****************************************************************************)
(* ford_fulkerson_multi fulfils its contract for every graph, every ST and  *)
(* every width of the weights, also where the residual weights wrap around. *)
(* Every augmenting path has positive flow.  For STs of two waypoint sets a *)
(* path meets no node twice, so that unsigned arithmetic never wraps around *)
(* there: flow is neither made nor lost, and the assertion about the flow   *)
(* never fails.  Hence the cut is the one of least weight that is closest   *)
(* to the sources, and no edge of it is cut in vain.                        *)
(****************************************************************************)
EXTENDS FordFulkerson, SequenceTheorems, FiniteSetTheorems, TLAPS

\* The nodes visited by the search with parent map p.
Found(p) == {a \in DOMAIN p : p[a] # None}

\* The nodes on a stack.
Pending(stk) == UNION {stk[i] : i \in 1..Len(stk)}

\* The pairs of nodes between which residual weight can ever be: the edges of
\* the layered graph and their reverses.
Skeleton(W) == {f \in DOMAIN W : W[f] > 0 \/ W[<<f[2], f[1]>>] > 0}

\* A search of W in m copies from P that found R has run to its end.
Complete(W, m, P, R) == \A a \in P \cup R : Adj(W, m, a) \subseteq R

\* The sources of search j.
Stage(st, ps, j) == IF j = 1 THEN Way(st, 1) ELSE Way(st, j) \cap Found(ps[j - 1])

StageInv ==
    /\ \A j \in 1..Len(reached) : reached[j] = Stage(in.st, parents, j)
    /\ pc \in {"stage", "search"} => Len(reached) = Len(parents)
    /\ pc = "stage" => S = Stage(in.st, parents, Len(parents) + 1)
    /\ pc \in {"rebuild", "augment", "reach", "done"} =>
          Len(parents) = n - 1 /\ Len(reached) = n
    /\ pc \in {"reach", "done"} => reached[n] = {}

\* A parent is a source of its search or was visited by it, and is joined to
\* its child by the skeleton.
ParentInv ==
    \A j \in 1..Len(parents) : \A b \in Found(parents[j]) :
        /\ parents[j][b] \in reached[j] \cup Found(parents[j])
        /\ <<parents[j][b], b>> \in Skeleton(G)

\* Searches that have ended stay complete until the path is augmented, and a
\* search visits only what the one before visited.
SearchInv ==
    /\ pc # "augment" =>
          \A j \in 1..Len(parents) :
              j < Len(parents) \/ pc # "search" =>
                  Complete(ResG, n, reached[j], Found(parents[j]))
    /\ \A j \in 2..Len(parents) : Found(parents[j]) \subseteq Found(parents[j - 1])
    /\ pc = "search" =>
          /\ Len(parents) >= 1
          /\ S = reached[Len(parents)]
          /\ Pending(stack) \subseteq S \cup Found(parents[Len(parents)])
          /\ \A a \in S \cup Found(parents[Len(parents)]) :
                a \in Pending(stack) \/ Adj(ResG, n, a) \subseteq Found(parents[Len(parents)])

\* The path follows the skeleton.
PathInv ==
    /\ \A i \in 1..(Len(path) - 1) : <<path[i], path[i + 1]>> \in Skeleton(G)
    /\ pc = "rebuild" =>
          /\ v \in LNode
          /\ k > 0 => v \in Found(parents[k])
          /\ path # <<>> => <<v, path[1]>> \in Skeleton(G)
          /\ path = <<>> => k > 0
    /\ pc = "augment" => e >= 1
    /\ pc \in {"stage", "search"} => path = <<>>

\* Residual weight lies on the skeleton.
ResidualInv == G = Layered(in) /\ \A f \in DOMAIN ResG : ResG[f] > 0 => f \in Skeleton(G)

\* The nodes below the last copy that the searches of a failed
\* find_st_path_multi have met: a closed set that holds what the sources reach.
Failed(m, rs, ps) == {a \in LNodes(m) : a[1] < m /\ a \in rs[a[1]] \cup Found(ps[a[1]])}

ReachInv ==
    /\ pc \in {"stage", "search", "rebuild", "augment"} => reach = {}
    /\ pc = "reach" =>
          /\ Way(in.st, 1) \subseteq reach \cup Pending(stack)
          /\ reach \cup Pending(stack) \subseteq Failed(n, reached, parents)
          /\ \A a \in reach : Adj(ResG, n, a) \subseteq reach \cup Pending(stack)
    /\ pc = "done" =>
          /\ Way(in.st, 1) \subseteq reach
          /\ \A a \in reach : a[1] < n
          /\ \A a \in reach : Adj(ResG, n, a) \subseteq reach
          /\ results = {<<f[1][2], f[2][2]>> :
                           f \in {h \in Edges(G) : h[1] \in reach /\ h[2] \notin reach}}

\* What a certificate says of the copies: the nodes of copy l that a walk
\* through waypoints 1..l can be at.
Layers(st, B) ==
    {a \in LNodes(Len(st)) :
        /\ a[1] < Len(st)
        /\ \/ a[2] \in B[a[1]]
           \/ a[2] \in st[a[1]] /\ (a[1] > 1 => a[2] \in B[a[1] - 1])}

\* If the graph has no walk through the waypoints, no path is ever found and
\* the residual graph stays as it was.
NoWalkInv ==
    \A B \in [1..(n - 1) -> SUBSET Node] :
        IsCertificate(Edges(in.w), in.st, B) =>
            /\ ResG = G
            /\ pc \notin {"rebuild", "augment"}
            /\ \A j \in 1..Len(parents) :
                  reached[j] \cup Found(parents[j]) \subseteq Layers(in.st, B)

IInv == /\ TypeOK /\ StageInv /\ ParentInv /\ SearchInv /\ PathInv
        /\ ResidualInv /\ ReachInv /\ NoWalkInv

-----------------------------------------------------------------------------
(* Facts about weights, sequences, stacks and the layered graph.            *)

LEMMA ModRange == \A x \in Int, m \in Nat \ {0} : x % m \in 0..(m - 1)
OBVIOUS

LEMMA WeightMod == \A x \in Int : x % (MaxWeight + 1) \in Weight
BY WidthAssumption, ModRange DEF Weight

LEMMA WeightArith ==
    \A x, y \in Weight : /\ (x - y) % (MaxWeight + 1) \in Weight
                         /\ (x + y) % (MaxWeight + 1) \in Weight
<1> SUFFICES ASSUME NEW x \in Weight, NEW y \in Weight
             PROVE  /\ (x - y) % (MaxWeight + 1) \in Weight
                    /\ (x + y) % (MaxWeight + 1) \in Weight
    OBVIOUS
<1>1. PICK d \in Int, s \in Int : d = x - y /\ s = x + y
    BY DEF Weight
<1>2. d % (MaxWeight + 1) \in Weight /\ s % (MaxWeight + 1) \in Weight
    BY WeightMod
<1> QED
    BY <1>1, <1>2

LEMMA Prepend ==
    ASSUME NEW T, NEW s \in Seq(T), NEW x \in T
    PROVE  /\ <<x>> \o s \in Seq(T)
           /\ Len(<<x>> \o s) = Len(s) + 1
           /\ (<<x>> \o s)[1] = x
           /\ \A i \in 1..Len(s) : (<<x>> \o s)[i + 1] = s[i]
OBVIOUS

LEMMA PushPending ==
    ASSUME NEW X, NEW stk \in Seq(X), NEW b \in X
    PROVE  /\ Push(stk, b) \in Seq(X)
           /\ Pending(Push(stk, b)) = Pending(stk) \cup b
<1>1. CASE b = {}
    BY <1>1 DEF Push
<1>2. CASE b # {}
    <2>1. Push(stk, b) = Append(stk, b)
        BY <1>2 DEF Push
    <2> QED
        BY <2>1, AppendProperties DEF Pending
<1> QED
    BY <1>1, <1>2

LEMMA AllButLast ==
    ASSUME NEW T, NEW s \in Seq(T), s # <<>>
    PROVE  /\ SubSeq(s, 1, Len(s) - 1) \in Seq(T)
           /\ Len(SubSeq(s, 1, Len(s) - 1)) = Len(s) - 1
           /\ \A i \in 1..(Len(s) - 1) : SubSeq(s, 1, Len(s) - 1)[i] = s[i]
<1>1. Len(s) \in Nat /\ Len(s) >= 1 /\ Len(s) - 1 \in Int
    OBVIOUS
<1>2. \A i \in 1..(Len(s) - 1) : s[i] \in T
    OBVIOUS
<1>3. SubSeq(s, 1, Len(s) - 1) \in Seq(T)
    BY SMT
<1>4. \A i \in 1..(Len(s) - 1) : SubSeq(s, 1, Len(s) - 1)[i] = s[i]
    BY SMT
<1>5. ASSUME NEW q \in Int, q = Len(s) - 1 PROVE Len(SubSeq(s, 1, q)) = q
    BY <1>1, <1>2, <1>5, SubSeqProperties
<1> QED
    BY <1>1, <1>3, <1>4, <1>5

LEMMA PoppedPending ==
    ASSUME NEW X, NEW stk \in Seq(X), NEW a, IsTop(stk, a),
           \A b \in X : b \ {a} \in X
    PROVE  /\ Popped(stk, a) \in Seq(X)
           /\ a \in Pending(stk)
           /\ Pending(Popped(stk, a)) \subseteq Pending(stk)
           /\ Pending(stk) \ {a} \subseteq Pending(Popped(stk, a))
<1>1. stk # <<>> /\ Len(stk) \in Nat /\ Len(stk) >= 1
    BY DEF IsTop
<1>2. PICK m \in Nat : m = Len(stk)
    BY <1>1
<1>3. a \in stk[m] /\ stk[m] \in X /\ m >= 1
    BY <1>1, <1>2 DEF IsTop
<1>4. PICK below \in Seq(X) :
          /\ below = SubSeq(stk, 1, Len(stk) - 1)
          /\ Len(below) = m - 1
          /\ \A i \in 1..(m - 1) : below[i] = stk[i]
    <2>1. /\ SubSeq(stk, 1, Len(stk) - 1) \in Seq(X)
          /\ Len(SubSeq(stk, 1, Len(stk) - 1)) = Len(stk) - 1
          /\ \A i \in 1..(Len(stk) - 1) : SubSeq(stk, 1, Len(stk) - 1)[i] = stk[i]
        BY <1>1, AllButLast, Zenon
    <2> WITNESS SubSeq(stk, 1, Len(stk) - 1) \in Seq(X)
    <2> QED
        BY <1>2, <2>1, Zenon
<1>5. PICK rest \in X : rest = stk[m] \ {a}
    BY <1>3
<1>6. Popped(stk, a) = Push(below, rest)
    BY <1>2, <1>4, <1>5 DEF Popped
<1>7. /\ Popped(stk, a) \in Seq(X)
      /\ Pending(Popped(stk, a)) = Pending(below) \cup rest
    BY <1>6, PushPending
<1>8. Pending(stk) = Pending(below) \cup stk[m]
    BY <1>2, <1>3, <1>4 DEF Pending
<1> QED
    BY <1>3, <1>5, <1>7, <1>8

LEMMA EmptyPending == Pending(<<>>) = {}
BY DEF Pending

\* The stacks of searches in m copies.
Batches(m) == SUBSET LNodes(m)
Stacks(m) == Seq(Batches(m))

LEMMA FirstPush ==
    ASSUME NEW m, NEW b \in Batches(m)
    PROVE  Push(<<>>, b) \in Stacks(m) /\ Pending(Push(<<>>, b)) = b
<1>1. CASE b = {}
    BY <1>1, EmptyPending DEF Push, Stacks
<1>2. CASE b # {}
    <2>1. Push(<<>>, b) = <<b>>
        BY <1>2 DEF Push
    <2>2. <<b>> \in Stacks(m)
        BY DEF Stacks
    <2>3. Pending(<<b>>) = b
        BY DEF Pending
    <2> QED
        BY <2>1, <2>2, <2>3
<1> QED
    BY <1>1, <1>2

LEMMA PopPush ==
    ASSUME NEW m, NEW stk \in Stacks(m), NEW a, IsTop(stk, a), NEW b \in Batches(m)
    PROVE  /\ a \in Pending(stk)
           /\ Popped(stk, a) \in Stacks(m)
           /\ Pending(Popped(stk, a)) \subseteq Pending(stk)
           /\ Pending(stk) \ {a} \subseteq Pending(Popped(stk, a))
           /\ Push(Popped(stk, a), b) \in Stacks(m)
           /\ Pending(Push(Popped(stk, a), b)) = Pending(Popped(stk, a)) \cup b
<1>1. \A c \in Batches(m) : c \ {a} \in Batches(m)
    BY DEF Batches
<1>2. /\ a \in Pending(stk)
      /\ Popped(stk, a) \in Seq(Batches(m))
      /\ Pending(Popped(stk, a)) \subseteq Pending(stk)
      /\ Pending(stk) \ {a} \subseteq Pending(Popped(stk, a))
    BY <1>1, PoppedPending DEF Stacks
<1> QED
    BY <1>2, PushPending DEF Stacks

\* An edge of the layered graph is an edge of the graph, and climbs to the
\* next copy iff it enters that copy's waypoint set.
LEMMA LayeredEdge ==
    ASSUME NEW i, IsInput(i),
           NEW l \in 1..Len(i.st), NEW m \in 1..Len(i.st),
           NEW x \in Node, NEW y \in Node
    PROVE  Layered(i)[<< <<l, x>>, <<m, y>> >>] > 0
           <=> /\ i.w[<<x, y>>] > 0
               /\ m = IF l < Len(i.st) /\ y \in i.st[l + 1] THEN l + 1 ELSE l
<1>1. << <<l, x>>, <<m, y>> >> \in LNodes(Len(i.st)) \X LNodes(Len(i.st))
    BY DEF LNodes
<1> QED
    BY <1>1 DEF Layered

LEMMA LayeredStep ==
    ASSUME NEW i, IsInput(i), NEW m, m = Len(i.st),
           NEW l \in 1..(m - 1), NEW q \in 1..m, NEW x \in Node, NEW y \in Node
    PROVE  Layered(i)[<< <<l, x>>, <<q, y>> >>] > 0
           <=> i.w[<<x, y>>] > 0 /\ q = IF y \in i.st[l + 1] THEN l + 1 ELSE l
<1>1. Len(i.st) \in Nat
    BY DEF IsInput, IsST
<1>2. l \in 1..Len(i.st) /\ q \in 1..Len(i.st) /\ l < Len(i.st)
    BY <1>1
<1>3. Layered(i)[<< <<l, x>>, <<q, y>> >>] > 0
      <=> /\ i.w[<<x, y>>] > 0
          /\ q = IF l < Len(i.st) /\ y \in i.st[l + 1] THEN l + 1 ELSE l
    BY <1>2, LayeredEdge, Zenon
<1> QED
    BY <1>2, <1>3

\* The skeleton joins nodes of the same copy or of neighbouring copies, and
\* goes up only into waypoints.
LEMMA SkeletonLevels ==
    ASSUME NEW i, IsInput(i), NEW a, NEW b, <<a, b>> \in Skeleton(Layered(i))
    PROVE  /\ a \in LNodes(Len(i.st)) /\ b \in LNodes(Len(i.st))
           /\ \/ b[1] = a[1]
              \/ b[1] + 1 = a[1]
              \/ b[1] = a[1] + 1 /\ b \in Way(i.st, b[1])
<1>1. <<a, b>> \in LNodes(Len(i.st)) \X LNodes(Len(i.st))
    BY DEF Skeleton, Layered
<1>2. PICK l \in 1..Len(i.st), x \in Node : a = <<l, x>>
    BY <1>1 DEF LNodes
<1>3. PICK m \in 1..Len(i.st), y \in Node : b = <<m, y>>
    BY <1>1 DEF LNodes
<1>4. \/ Layered(i)[<< <<l, x>>, <<m, y>> >>] > 0
      \/ Layered(i)[<< <<m, y>>, <<l, x>> >>] > 0
    BY <1>2, <1>3 DEF Skeleton
<1>5. CASE Layered(i)[<< <<l, x>>, <<m, y>> >>] > 0
    <2>1. m = l \/ (m = l + 1 /\ y \in i.st[m])
        BY <1>5, LayeredEdge
    <2> QED
        BY <1>1, <1>2, <1>3, <2>1 DEF Way
<1>6. CASE Layered(i)[<< <<m, y>>, <<l, x>> >>] > 0
    <2>1. l = m \/ l = m + 1
        BY <1>6, LayeredEdge
    <2> QED
        BY <1>1, <1>2, <1>3, <2>1
<1> QED
    BY <1>4, <1>5, <1>6

LEMMA InputFacts ==
    ASSUME NEW i, IsInput(i)
    PROVE  /\ Len(i.st) \in Nat /\ Len(i.st) >= 2
           /\ \A l \in 1..Len(i.st) : i.st[l] \subseteq Node
           /\ \A l \in 1..Len(i.st) : Way(i.st, l) \subseteq LNodes(Len(i.st))
           /\ i.w \in [Edge -> Weight]
<1>1. /\ Len(i.st) \in Nat /\ Len(i.st) >= 2
      /\ \A l \in 1..Len(i.st) : i.st[l] \subseteq Node
    BY DEF IsInput, IsST
<1>2. \A l \in 1..Len(i.st) : Way(i.st, l) \subseteq LNodes(Len(i.st))
    BY <1>1 DEF Way, LNodes
<1> QED
    BY <1>1, <1>2 DEF IsInput

LEMMA LayeredType ==
    ASSUME NEW i, IsInput(i)
    PROVE  Layered(i) \in [LNodes(Len(i.st)) \X LNodes(Len(i.st)) -> Weight]
<1> DEFINE L == LNodes(Len(i.st))
<1>1. 0 \in Weight
    BY WidthAssumption DEF Weight
<1>2. \A f \in L \X L : i.w[<<f[1][2], f[2][2]>>] \in Weight
    BY InputFacts DEF LNodes, Edge
<1> QED
    BY <1>1, <1>2 DEF Layered

LEMMA AdjFacts ==
    ASSUME NEW W, NEW m, NEW a
    PROVE  /\ Adj(W, m, a) \subseteq LNodes(m)
           /\ \A b \in Adj(W, m, a) : W[<<a, b>>] > 0
BY DEF Adj

LEMMA WayLevel ==
    ASSUME NEW st, NEW l, NEW a \in Way(st, l)
    PROVE  a[1] = l
BY DEF Way

-----------------------------------------------------------------------------
(* Facts about searches that failed, cuts, and graphs without a walk.       *)

\* What the searches of a failed find_st_path_multi have met in the copies
\* below the last one is closed under the residual graph.
LEMMA FailedClosed ==
    ASSUME NEW i, IsInput(i), NEW m, m = Len(i.st),
           NEW W \in [LNodes(m) \X LNodes(m) -> Weight],
           \A f \in DOMAIN W : W[f] > 0 => f \in Skeleton(Layered(i)),
           NEW rs, NEW ps,
           \A j \in 1..m : rs[j] = Stage(i.st, ps, j),
           rs[m] = {},
           \A j \in 1..(m - 1) : Complete(W, m, rs[j], Found(ps[j])),
           \A j \in 2..(m - 1) : Found(ps[j]) \subseteq Found(ps[j - 1])
    PROVE  /\ Way(i.st, 1) \subseteq Failed(m, rs, ps)
           /\ \A a \in Failed(m, rs, ps) : Adj(W, m, a) \subseteq Failed(m, rs, ps)
<1>1. m \in Nat /\ m >= 2 /\ 1 \in 1..m /\ Way(i.st, 1) \subseteq LNodes(m)
    <2>1. Len(i.st) \in Nat /\ Len(i.st) >= 2
        BY InputFacts
    <2>2. 1 \in 1..Len(i.st)
        BY <2>1
    <2>3. Way(i.st, 1) \subseteq LNodes(Len(i.st))
        BY <2>2, InputFacts, Zenon
    <2> QED
        BY <2>1, <2>2, <2>3
<1>2. Way(i.st, 1) \subseteq Failed(m, rs, ps)
    <2>1. rs[1] = Way(i.st, 1)
        <3>1. rs[1] = Stage(i.st, ps, 1)
            BY <1>1, Zenon
        <3> QED
            BY <3>1 DEF Stage
    <2> QED
        BY <1>1, <2>1, WayLevel DEF Failed
<1>3. ASSUME NEW a \in Failed(m, rs, ps), NEW b \in Adj(W, m, a)
      PROVE  b \in Failed(m, rs, ps)
    <2>1. /\ a \in LNodes(m) /\ b \in LNodes(m) /\ W[<<a, b>>] > 0
          /\ a[1] \in 1..(m - 1) /\ b[1] \in 1..m
          /\ a \in rs[a[1]] \cup Found(ps[a[1]])
        BY <1>1, <1>3, AdjFacts DEF Failed, LNodes
    <2>2. b \in Found(ps[a[1]])
        BY <2>1 DEF Complete
    <2>3. <<a, b>> \in Skeleton(Layered(i))
        BY <2>1
    <2>4. \/ b[1] = a[1]
          \/ b[1] + 1 = a[1]
          \/ b[1] = a[1] + 1 /\ b \in Way(i.st, b[1])
        BY <2>3, SkeletonLevels
    <2>5. CASE b[1] = a[1]
        BY <2>1, <2>2, <2>5 DEF Failed
    <2>6. CASE b[1] + 1 = a[1]
        <3>1. a[1] \in 2..(m - 1) /\ a[1] - 1 = b[1]
            BY <1>1, <2>1, <2>6
        <3>2. Found(ps[a[1]]) \subseteq Found(ps[a[1] - 1])
            BY <3>1, Zenon
        <3>3. b \in Found(ps[b[1]]) /\ b[1] < m
            BY <1>1, <2>1, <2>2, <3>1, <3>2
        <3> QED
            BY <2>1, <3>3 DEF Failed
    <2>7. CASE b[1] = a[1] + 1 /\ b \in Way(i.st, b[1])
        <3>1. b[1] # 1 /\ b[1] - 1 = a[1]
            BY <1>1, <2>1, <2>7
        <3>2. b \in Stage(i.st, ps, b[1])
            BY <2>2, <2>7, <3>1 DEF Stage
        <3>3. b \in rs[b[1]]
            BY <2>1, <3>2
        <3>4. b[1] < m
            BY <1>1, <2>1, <3>3
        <3> QED
            BY <2>1, <3>3, <3>4 DEF Failed
    <2> QED
        BY <2>4, <2>5, <2>6, <2>7
<1> QED
    BY <1>2, <1>3

\* The edges that leave R, projected to the original graph.
Leaving(W, R) ==
    {<<f[1][2], f[2][2]>> : f \in {h \in Edges(W) : h[1] \in R /\ h[2] \notin R}}

\* The edges that leave a set that holds the sources and nothing of the last
\* copy are a cut.
LEMMA LeavingIsCut ==
    ASSUME NEW i, IsInput(i), NEW m, m = Len(i.st),
           NEW R \in SUBSET LNodes(m),
           Way(i.st, 1) \subseteq R,
           \A a \in R : a[1] < m
    PROVE  /\ Leaving(Layered(i), R) \subseteq Edges(i.w)
           /\ Separated(Edges(i.w) \ Leaving(Layered(i), R), i.st)
<1> DEFINE res == Leaving(Layered(i), R)
           F == Edges(i.w) \ res
           B == [l \in 1..(m - 1) |->
                    {x \in Node : \E j \in l..(m - 1) :
                        <<j, x>> \in R /\ (j = l => x \notin i.st[l + 1])}]
<1>1. m \in Nat /\ m >= 2
    BY InputFacts
<1>2. res \subseteq Edges(i.w)
    <2> SUFFICES ASSUME NEW f \in Edges(Layered(i)) PROVE <<f[1][2], f[2][2]>> \in Edges(i.w)
        BY DEF Leaving
    <2>1. f \in LNodes(m) \X LNodes(m) /\ Layered(i)[f] > 0
        BY DEF Edges, Layered
    <2>2. PICK l \in 1..m, x \in Node, q \in 1..m, y \in Node : f = << <<l, x>>, <<q, y>> >>
        BY <2>1 DEF LNodes
    <2>3. i.w[<<x, y>>] > 0
        <3>1. l \in 1..Len(i.st) /\ q \in 1..Len(i.st)
            BY <2>2
        <3>2. Layered(i)[<< <<l, x>>, <<q, y>> >>] > 0
            BY <2>1, <2>2
        <3> QED
            BY <2>2, <3>1, <3>2, LayeredEdge
    <2>4. <<x, y>> \in DOMAIN i.w
        BY <2>2, InputFacts DEF Edge
    <2> QED
        BY <2>2, <2>3, <2>4 DEF Edges
<1>3. ASSUME NEW x \in Node, NEW y \in Node, NEW l \in 1..(m - 1),
             <<x, y>> \in F, <<l, x>> \in R
      PROVE  IF y \in i.st[l + 1] THEN l + 1 \in 1..(m - 1) /\ <<l + 1, y>> \in R
                                  ELSE <<l, y>> \in R
    <2> DEFINE q == IF y \in i.st[l + 1] THEN l + 1 ELSE l
    <2>1. q \in 1..m /\ l \in 1..m /\ l < m
        BY <1>1
    <2>2. i.w[<<x, y>>] > 0
        BY <1>3 DEF Edges
    <2>3. ASSUME NEW r \in 1..m, r = q PROVE Layered(i)[<< <<l, x>>, <<r, y>> >>] > 0
        <3>1. Layered(i)[<< <<l, x>>, <<r, y>> >>] > 0
              <=> i.w[<<x, y>>] > 0 /\ r = IF y \in i.st[l + 1] THEN l + 1 ELSE l
            BY LayeredStep, ZenonT(40)
        <3> QED
            BY <2>2, <2>3, <3>1
    <2>4. << <<l, x>>, <<q, y>> >> \in Edges(Layered(i))
        BY <2>1, <2>3 DEF Edges, Layered, LNodes
    <2>5. <<q, y>> \in R
        BY <1>3, <2>4 DEF Leaving
    <2>6. q < m
        BY <2>5
    <2> QED
        BY <1>1, <2>5, <2>6
<1>4. B \in [1..(m - 1) -> SUBSET Node]
    OBVIOUS
<1> HIDE DEF F, res
<1>5. ASSUME NEW l \in 1..(m - 1), NEW j \in l..(m - 1), NEW x \in Node, NEW y \in Node,
             <<x, y>> \in F, <<j, x>> \in R
      PROVE  y \in B[l]
    <2>1. j \in 1..(m - 1)
        BY <1>1
    <2>2. IF y \in i.st[j + 1] THEN j + 1 \in 1..(m - 1) /\ <<j + 1, y>> \in R
                               ELSE <<j, y>> \in R
        BY <1>3, <1>5, <2>1
    <2>3. PICK q \in l..(m - 1) : <<q, y>> \in R /\ (q = l => y \notin i.st[l + 1])
        <3>1. CASE y \in i.st[j + 1]
            <4>1. j + 1 \in l..(m - 1) /\ j + 1 # l /\ <<j + 1, y>> \in R
                BY <1>1, <2>1, <2>2, <3>1
            <4> QED
                BY <4>1
        <3>2. CASE y \notin i.st[j + 1]
            BY <2>2, <3>2
        <3> QED
            BY <3>1, <3>2
    <2> QED
        BY <2>3
<1>6. ASSUME NEW l \in 1..(m - 1) PROVE Closed(F, B[l])
    <2> SUFFICES ASSUME NEW x \in B[l], NEW y \in Node, <<x, y>> \in F PROVE y \in B[l]
        BY DEF Closed, Succ
    <2>1. PICK j \in l..(m - 1) : <<j, x>> \in R
        OBVIOUS
    <2>2. x \in Node
        OBVIOUS
    <2> HIDE DEF B
    <2> QED
        BY <1>5, <2>1, <2>2
<1>7. Succ(F, i.st[1]) \subseteq B[1]
    <2> SUFFICES ASSUME NEW x \in i.st[1], NEW y \in Node, <<x, y>> \in F PROVE y \in B[1]
        BY DEF Succ
    <2>1. x \in Node /\ 1 \in 1..(m - 1)
        BY <1>1, InputFacts
    <2>2. <<1, x>> \in R
        BY DEF Way
    <2> HIDE DEF B
    <2> QED
        BY <1>5, <2>1, <2>2
<1>8. ASSUME NEW l \in 2..(m - 1) PROVE Succ(F, i.st[l] \cap B[l - 1]) \subseteq B[l]
    <2> SUFFICES ASSUME NEW x \in i.st[l] \cap B[l - 1], NEW y \in Node, <<x, y>> \in F
                 PROVE  y \in B[l]
        BY DEF Succ
    <2>1. l - 1 \in 1..(m - 1) /\ (l - 1) + 1 = l /\ l \in 1..(m - 1)
        BY <1>1
    <2>2. PICK j \in (l - 1)..(m - 1) : <<j, x>> \in R /\ (j = l - 1 => x \notin i.st[(l - 1) + 1])
        BY <2>1
    <2>3. x \in Node /\ j \in l..(m - 1)
        BY <1>1, <2>1, <2>2
    <2> HIDE DEF B
    <2> QED
        BY <1>5, <2>1, <2>2, <2>3
<1>9. i.st[m] \cap B[m - 1] = {}
    <2>1. m - 1 \in 1..(m - 1) /\ (m - 1) + 1 = m
        BY <1>1
    <2>2. ASSUME NEW x \in B[m - 1] PROVE x \notin i.st[m]
        <3>1. PICK j \in (m - 1)..(m - 1) : j = m - 1 => x \notin i.st[(m - 1) + 1]
            BY <2>1, <2>2
        <3> QED
            BY <1>1, <2>1, <3>1
    <2> QED
        BY <2>2
<1> HIDE DEF B
<1>10. IsCertificate(F, i.st, B)
    BY <1>6, <1>7, <1>8, <1>9 DEF IsCertificate
<1> QED
    BY <1>2, <1>4, <1>10 DEF Separated, F, res

\* If B certifies that the graph has no walk, its layers are closed under the
\* layered graph.
LEMMA LayersClosed ==
    ASSUME NEW i, IsInput(i), NEW m, m = Len(i.st),
           NEW B \in [1..(m - 1) -> SUBSET Node],
           IsCertificate(Edges(i.w), i.st, B)
    PROVE  /\ Way(i.st, 1) \subseteq Layers(i.st, B)
           /\ \A a \in Layers(i.st, B) : Adj(Layered(i), m, a) \subseteq Layers(i.st, B)
<1>1. m \in Nat /\ m >= 2
    BY InputFacts
<1>2. Way(i.st, 1) \subseteq Layers(i.st, B)
    BY <1>1, InputFacts DEF Way, Layers, LNodes
<1>3. ASSUME NEW a \in Layers(i.st, B), NEW b \in Adj(Layered(i), m, a)
      PROVE  b \in Layers(i.st, B)
    <2>1. PICK l \in 1..(m - 1), x \in Node : a = <<l, x>>
        BY <1>1 DEF Layers, LNodes
    <2>2. PICK q \in 1..m, y \in Node : b = <<q, y>>
        BY AdjFacts DEF LNodes
    <2>3. Layered(i)[<< <<l, x>>, <<q, y>> >>] > 0
        BY <1>3, <2>1, <2>2, AdjFacts
    <2>4. /\ i.w[<<x, y>>] > 0
          /\ q = IF y \in i.st[l + 1] THEN l + 1 ELSE l
        BY <2>3, LayeredStep
    <2>5. <<x, y>> \in Edges(i.w)
        BY <2>4, InputFacts DEF Edges, Edge
    <2>6. y \in B[l]
        <3>1. CASE x \in B[l]
            BY <2>5, <3>1 DEF IsCertificate, Closed, Succ
        <3>2. CASE x \in i.st[l] /\ (l > 1 => x \in B[l - 1])
            <4>1. CASE l = 1
                BY <2>5, <3>2, <4>1 DEF IsCertificate, Succ
            <4>2. CASE l # 1
                <5>1. l \in 2..(m - 1) /\ x \in i.st[l] \cap B[l - 1]
                    BY <1>1, <3>2, <4>2
                <5>2. Succ(Edges(i.w), i.st[l] \cap B[l - 1]) \subseteq B[l]
                    BY <5>1 DEF IsCertificate
                <5> QED
                    BY <2>5, <5>1, <5>2 DEF Succ
            <4> QED
                BY <4>1, <4>2
        <3> QED
            BY <2>1, <3>1, <3>2 DEF Layers
    <2>7. CASE y \in i.st[l + 1]
        <3>1. q = l + 1
            BY <2>4, <2>7
        <3>2. l # m - 1
            BY <1>1, <2>6, <2>7 DEF IsCertificate
        <3>3. q \in 1..(m - 1) /\ q - 1 = l
            BY <1>1, <3>1, <3>2
        <3> QED
            BY <1>1, <2>2, <2>6, <2>7, <3>1, <3>3 DEF Layers, LNodes
    <2>8. CASE y \notin i.st[l + 1]
        BY <1>1, <2>2, <2>4, <2>6, <2>8 DEF Layers, LNodes
    <2> QED
        BY <2>7, <2>8
<1> QED
    BY <1>2, <1>3

-----------------------------------------------------------------------------
(* Every step preserves the invariant.                                      *)

LEMMA Basics ==
    ASSUME IsInput(in)
    PROVE  /\ n \in Nat /\ n >= 2 /\ n = Len(in.st)
           /\ Way(in.st, 1) \subseteq LNode
           /\ \A l \in 1..n : Way(in.st, l) \subseteq LNode
           /\ LNode = LNodes(n)
           /\ None \notin LNode
<1>1. n \in Nat /\ n >= 2
    BY InputFacts DEF n
<1>2. \A l \in 1..n : Way(in.st, l) \subseteq LNode
    BY InputFacts DEF n, LNode
<1>3. LNode \subseteq Nat \X Node
    BY <1>1 DEF LNode, LNodes
<1> QED
    BY <1>1, <1>2, <1>3, NoneAssumption DEF n, LNode

LEMMA InitInv == Init => IInv
<1> SUFFICES ASSUME Init PROVE IInv
    OBVIOUS
<1>1. IsInput(in)
    BY InputsAssumption DEF Init
<1>2. /\ n \in Nat /\ n >= 2 /\ Way(in.st, 1) \subseteq LNode
    BY <1>1, Basics
<1>3. TypeOK
    <2>1. G \in [LNode \X LNode -> Weight] /\ ResG = G
        BY <1>1, LayeredType DEF Init, LNode, n
    <2>2. 0 \in Weight
        BY WidthAssumption DEF Weight
    <2> QED
        BY <1>1, <1>2, <2>1, <2>2 DEF Init, TypeOK
<1>4. StageInv
    BY <1>2 DEF Init, StageInv, Stage
<1>5. ParentInv /\ SearchInv /\ PathInv
    BY DEF Init, ParentInv, SearchInv, PathInv
<1>6. ResidualInv
    BY <1>3 DEF Init, TypeOK, ResidualInv, Skeleton
<1>7. ReachInv /\ NoWalkInv
    BY DEF Init, ReachInv, NoWalkInv
<1> QED
    BY <1>3, <1>4, <1>5, <1>6, <1>7 DEF IInv

LEMMA StartStageInv == ASSUME IInv, StartStage PROVE IInv'
<1>1. /\ pc = "stage" /\ pc' = "search" /\ Len(parents) < n - 1
      /\ reached' = Append(reached, S)
      /\ parents' = Append(parents, [a \in LNode |-> None])
      /\ stack' = Push(<<>>, S)
      /\ UNCHANGED <<in, G, ResG, S, rebuild, path, augment, reach, results>>
      /\ UNCHANGED <<v, k, path_flow, e>>
    BY DEF StartStage, rebuild, augment
<1>2. /\ n \in Nat /\ n >= 2 /\ n' = n /\ LNode' = LNode
    BY <1>1, Basics DEF IInv, TypeOK, n, LNode
<1> DEFINE m == Len(parents)
<1>3. /\ m \in Nat /\ Len(reached) = m
      /\ parents \in Seq(ParentMap) /\ reached \in Seq(SUBSET LNode)
      /\ S = Stage(in.st, parents, m + 1) /\ S \in SUBSET LNode
    BY <1>1 DEF IInv, TypeOK, StageInv
<1>4. [a \in LNode |-> None] \in ParentMap /\ Found([a \in LNode |-> None]) = {}
    BY DEF ParentMap, Found
<1>5. /\ parents' \in Seq(ParentMap) /\ Len(parents') = m + 1
      /\ \A j \in 1..m : parents'[j] = parents[j]
      /\ Found(parents'[m + 1]) = {}
    BY <1>1, <1>3, <1>4, AppendProperties
<1>6. /\ reached' \in Seq(SUBSET LNode) /\ Len(reached') = m + 1
      /\ \A j \in 1..m : reached'[j] = reached[j]
      /\ reached'[m + 1] = S
    BY <1>1, <1>3, AppendProperties
<1>7. stack' \in Seq(SUBSET LNode) /\ Pending(stack') = S
    <2>1. S \in Batches(n)
        BY <1>3 DEF Batches, LNode
    <2>2. Push(<<>>, S) \in Stacks(n) /\ Pending(Push(<<>>, S)) = S
        BY <2>1, FirstPush
    <2> QED
        BY <1>1, <2>2 DEF Stacks, Batches, LNode
<1> HIDE DEF m
<1>8. TypeOK'
    BY <1>1, <1>2, <1>5, <1>6, <1>7 DEF m, IInv, TypeOK, ParentMap, IsInput
<1>9. StageInv'
    <2>1. ASSUME NEW j \in 1..(m + 1) PROVE reached'[j] = Stage(in.st, parents', j)
        <3>1. Stage(in.st, parents', j) = Stage(in.st, parents, j)
            <4>1. j = 1 \/ j - 1 \in 1..m
                BY <1>3
            <4> QED
                BY <1>5, <4>1 DEF Stage
        <3>2. CASE j = m + 1
            BY <1>3, <1>6, <3>1, <3>2
        <3>3. CASE j \in 1..m
            BY <1>1, <1>3, <1>6, <3>1, <3>3 DEF IInv, StageInv
        <3> QED
            BY <1>3, <3>2, <3>3
    <2> QED
        BY <1>1, <1>5, <1>6, <2>1 DEF StageInv
<1>10. ParentInv'
    <2>1. ASSUME NEW j \in 1..(m + 1), NEW b \in Found(parents'[j])
          PROVE  /\ parents'[j][b] \in reached'[j] \cup Found(parents'[j])
                 /\ <<parents'[j][b], b>> \in Skeleton(G)
        <3>1. j \in 1..m
            BY <1>3, <1>5, <2>1
        <3> QED
            BY <1>5, <1>6, <2>1, <3>1 DEF m, IInv, ParentInv
    <2> QED
        BY <1>1, <1>5, <2>1 DEF ParentInv
<1>11. SearchInv'
    <2>1. ASSUME NEW j \in 1..m PROVE Complete(ResG, n, reached'[j], Found(parents'[j]))
        BY <1>1, <1>5, <1>6 DEF m, IInv, SearchInv
    <2>2. ASSUME NEW j \in 2..(m + 1) PROVE Found(parents'[j]) \subseteq Found(parents'[j - 1])
        <3>1. CASE j = m + 1
            BY <1>5, <3>1
        <3>2. CASE j \in 2..m
            <4>1. j \in 1..m /\ j - 1 \in 1..m
                BY <1>3, <3>2
            <4> QED
                BY <1>5, <3>2, <4>1 DEF m, IInv, SearchInv
        <3> QED
            BY <1>3, <3>1, <3>2
    <2>3. \A j \in 1..(m + 1) : j < m + 1 => j \in 1..m
        BY <1>3
    <2>4. \A a \in S \cup Found(parents'[m + 1]) : a \in Pending(stack')
        BY <1>5, <1>7
    <2>5. Len(parents') >= 1 /\ S' = reached'[Len(parents')]
        BY <1>1, <1>3, <1>5, <1>6
    <2> QED
        BY <1>1, <1>2, <1>5, <1>7, <2>1, <2>2, <2>3, <2>4, <2>5 DEF SearchInv
<1>12. PathInv'
    BY <1>1 DEF IInv, PathInv
<1>13. ResidualInv' /\ ReachInv'
    BY <1>1 DEF IInv, ResidualInv, ReachInv
<1>14. NoWalkInv'
    <2> SUFFICES ASSUME NEW B \in [1..(n - 1) -> SUBSET Node],
                        IsCertificate(Edges(in.w), in.st, B)
                 PROVE  /\ ResG = G
                        /\ \A j \in 1..(m + 1) :
                              reached'[j] \cup Found(parents'[j]) \subseteq Layers(in.st, B)
        BY <1>1, <1>2, <1>5 DEF NoWalkInv
    <2>1. /\ ResG = G
          /\ \A j \in 1..m : reached[j] \cup Found(parents[j]) \subseteq Layers(in.st, B)
        BY DEF m, IInv, NoWalkInv
    <2>2. Way(in.st, 1) \subseteq Layers(in.st, B)
        BY LayersClosed DEF IInv, TypeOK, n
    <2>3. S \subseteq Layers(in.st, B)
        <3>1. CASE m + 1 = 1
            BY <1>3, <2>2, <3>1 DEF Stage
        <3>2. CASE m + 1 # 1
            <4>1. m \in 1..m /\ (m + 1) - 1 = m
                BY <1>3, <3>2
            <4> QED
                BY <1>3, <2>1, <3>2, <4>1 DEF Stage
        <3> QED
            BY <3>1, <3>2
    <2>4. ASSUME NEW j \in 1..(m + 1)
          PROVE  reached'[j] \cup Found(parents'[j]) \subseteq Layers(in.st, B)
        <3>1. CASE j = m + 1
            BY <1>5, <1>6, <2>3, <3>1
        <3>2. CASE j \in 1..m
            BY <1>5, <1>6, <2>1, <3>2
        <3> QED
            BY <1>3, <3>1, <3>2
    <2> QED
        BY <2>1, <2>4
<1> QED
    BY <1>8, <1>9, <1>10, <1>11, <1>12, <1>13, <1>14 DEF IInv

LEMMA VisitInv == ASSUME IInv, NEW u \in LNode, Visit(u) PROVE IInv'
<1> DEFINE m == Len(parents)
           p == parents[m]
           new == {b \in Adj(ResG, n, u) : p[b] = None}
           q == [b \in LNode |-> IF b \in new THEN u ELSE p[b]]
<1>1. /\ pc = "search" /\ pc' = "search" /\ IsTop(stack, u)
      /\ stack' = Push(Popped(stack, u), new)
      /\ parents' = [parents EXCEPT ![m] = q]
      /\ UNCHANGED <<in, G, ResG, S, reached, rebuild, path, augment, reach, results>>
      /\ UNCHANGED <<v, k, path_flow, e>>
    BY DEF Visit, rebuild, augment
<1>2. /\ n \in Nat /\ n >= 2 /\ n' = n /\ LNode' = LNode
      /\ LNode = LNodes(n) /\ None \notin LNode
    BY <1>1, Basics DEF IInv, TypeOK, n, LNode
<1>3. /\ m \in Nat /\ m >= 1 /\ m \in 1..m /\ Len(reached) = m /\ m <= n - 1
      /\ parents \in Seq(ParentMap) /\ p \in ParentMap
      /\ S = reached[m] /\ S \in SUBSET LNode
    BY <1>1 DEF IInv, TypeOK, StageInv, SearchInv
<1>4. Adj(ResG, n, u) \subseteq LNode /\ new \in SUBSET LNode
    BY <1>2, AdjFacts
<1>5. q \in ParentMap /\ Found(q) = Found(p) \cup new
    BY <1>2, <1>3, <1>4 DEF ParentMap, Found
<1>6. Adj(ResG, n, u) \subseteq Found(q)
    BY <1>3, <1>4, <1>5 DEF ParentMap, Found
<1>7. \A b \in LNode : q[b] = IF b \in new THEN u ELSE p[b]
    OBVIOUS
<1>8. \A b \in new : ResG[<<u, b>>] > 0 /\ b \in LNode
    BY <1>4, AdjFacts
<1>9. Found(p) \subseteq LNode
    BY <1>3 DEF ParentMap, Found
<1> HIDE DEF q, new
<1>10. /\ parents' \in Seq(ParentMap) /\ Len(parents') = m
       /\ \A j \in 1..m : parents'[j] = IF j = m THEN q ELSE parents[j]
    BY <1>1, <1>3, <1>5, ExceptSeq
<1>11. /\ u \in Pending(stack) /\ stack' \in Seq(SUBSET LNode)
       /\ Pending(stack') \subseteq Pending(stack) \cup new
       /\ (Pending(stack) \ {u}) \cup new \subseteq Pending(stack')
    <2>1. stack \in Stacks(n) /\ new \in Batches(n)
        BY <1>2, <1>4 DEF IInv, TypeOK, Stacks, Batches
    <2>2. /\ u \in Pending(stack)
          /\ Pending(Popped(stack, u)) \subseteq Pending(stack)
          /\ Pending(stack) \ {u} \subseteq Pending(Popped(stack, u))
          /\ Push(Popped(stack, u), new) \in Stacks(n)
          /\ Pending(Push(Popped(stack, u), new)) = Pending(Popped(stack, u)) \cup new
        BY <1>1, <2>1, PopPush
    <2> QED
        BY <1>1, <1>2, <2>2 DEF Stacks, Batches
<1>12. u \in S \cup Found(p)
    BY <1>1, <1>11 DEF IInv, SearchInv
<1> HIDE DEF m, p
<1>13. TypeOK'
    BY <1>1, <1>2, <1>3, <1>10, <1>11 DEF IInv, TypeOK, ParentMap, IsInput
<1>14. StageInv'
    <2>1. ASSUME NEW j \in 1..m PROVE reached'[j] = Stage(in.st, parents', j)
        <3>1. j = 1 \/ (j - 1 \in 1..m /\ j - 1 # m)
            BY <1>3
        <3>2. Stage(in.st, parents', j) = Stage(in.st, parents, j)
            BY <1>10, <3>1 DEF Stage
        <3> QED
            BY <1>1, <1>3, <3>2 DEF IInv, StageInv
    <2> QED
        BY <1>1, <1>3, <1>10, <2>1 DEF StageInv
<1>15. ParentInv'
    <2>1. ASSUME NEW j \in 1..m, NEW b \in Found(parents'[j])
          PROVE  /\ parents'[j][b] \in reached[j] \cup Found(parents'[j])
                 /\ <<parents'[j][b], b>> \in Skeleton(G)
        <3>1. CASE j # m
            BY <1>10, <2>1, <3>1 DEF m, IInv, ParentInv
        <3>2. CASE j = m /\ b \in new
            <4>1. q[b] = u
                BY <1>7, <1>8, <3>2
            <4>2. <<u, b>> \in Skeleton(G)
                BY <1>2, <1>8, <3>2 DEF IInv, TypeOK, ResidualInv
            <4> QED
                BY <1>3, <1>5, <1>10, <1>12, <3>2, <4>1, <4>2
        <3>3. CASE j = m /\ b \notin new
            <4>1. b \in Found(p)
                BY <1>5, <1>10, <2>1, <3>3
            <4>2. q[b] = p[b]
                BY <1>7, <1>9, <3>3, <4>1
            <4>3. p[b] \in reached[m] \cup Found(p) /\ <<p[b], b>> \in Skeleton(G)
                BY <1>3, <4>1 DEF p, m, IInv, ParentInv
            <4> QED
                BY <1>5, <1>10, <3>3, <4>2, <4>3
        <3> QED
            BY <3>1, <3>2, <3>3
    <2> QED
        BY <1>1, <1>10, <2>1 DEF ParentInv
<1>16. SearchInv'
    <2>1. ASSUME NEW j \in 1..m, j < m PROVE Complete(ResG, n, reached[j], Found(parents[j]))
        BY <1>1, <2>1 DEF m, IInv, SearchInv
    <2>2. ASSUME NEW j \in 2..m PROVE Found(parents'[j]) \subseteq Found(parents'[j - 1])
        <3>1. j \in 1..m /\ j - 1 \in 1..m /\ j - 1 # m /\ j # 1 /\ j - 1 < m
            BY <1>3
        <3>2. Found(parents[j]) \subseteq Found(parents[j - 1])
            BY DEF m, IInv, SearchInv
        <3>3. CASE j # m
            BY <1>10, <3>1, <3>2, <3>3
        <3>4. CASE j = m
            <4>1. S = Way(in.st, m) \cap Found(parents[m - 1])
                BY <1>3, <3>1, <3>4 DEF IInv, StageInv, Stage
            <4>2. u \in Found(parents[m - 1])
                BY <1>12, <3>2, <3>4, <4>1 DEF p
            <4>3. Adj(ResG, n, u) \subseteq Found(parents[m - 1])
                BY <2>1, <3>1, <3>4, <4>2 DEF Complete
            <4>4. new \subseteq Found(parents[m - 1])
                BY <4>3 DEF new
            <4> QED
                BY <1>5, <1>10, <3>1, <3>2, <3>4, <4>4 DEF p
        <3> QED
            BY <3>3, <3>4
    <2>3. Pending(stack') \subseteq S \cup Found(q)
        BY <1>1, <1>5, <1>11 DEF m, p, IInv, SearchInv
    <2>4. ASSUME NEW a \in S \cup Found(q)
          PROVE  a \in Pending(stack') \/ Adj(ResG, n, a) \subseteq Found(q)
        <3>1. CASE a = u
            BY <1>6, <3>1
        <3>2. CASE a \in new
            BY <1>11, <3>2
        <3>3. CASE a # u /\ a \notin new
            <4>1. a \in S \cup Found(p)
                BY <1>5, <2>4, <3>3
            <4>2. a \in Pending(stack) \/ Adj(ResG, n, a) \subseteq Found(p)
                BY <1>1, <4>1 DEF m, p, IInv, SearchInv
            <4> QED
                BY <1>5, <1>11, <3>3, <4>2
        <3> QED
            BY <3>1, <3>2, <3>3
    <2>5. ASSUME NEW j \in 1..m, j < m PROVE Complete(ResG, n, reached[j], Found(parents'[j]))
        BY <1>3, <1>10, <2>1, <2>5
    <2>6. parents'[m] = q
        BY <1>3, <1>10
    <2> QED
        BY <1>1, <1>2, <1>3, <1>10, <2>2, <2>3, <2>4, <2>5, <2>6 DEF SearchInv
<1>17. PathInv'
    BY <1>1 DEF IInv, PathInv
<1>18. ResidualInv' /\ ReachInv'
    BY <1>1 DEF IInv, ResidualInv, ReachInv
<1>19. NoWalkInv'
    <2> SUFFICES ASSUME NEW B \in [1..(n - 1) -> SUBSET Node],
                        IsCertificate(Edges(in.w), in.st, B)
                 PROVE  /\ ResG = G
                        /\ \A j \in 1..m :
                              reached[j] \cup Found(parents'[j]) \subseteq Layers(in.st, B)
        BY <1>1, <1>2, <1>10 DEF NoWalkInv
    <2>1. /\ ResG = G
          /\ \A j \in 1..m : reached[j] \cup Found(parents[j]) \subseteq Layers(in.st, B)
        BY DEF m, IInv, NoWalkInv
    <2>2. u \in Layers(in.st, B)
        BY <1>3, <1>12, <2>1 DEF p
    <2>3. Adj(Layered(in), n, u) \subseteq Layers(in.st, B)
        BY <2>2, LayersClosed DEF IInv, TypeOK, n
    <2>4. new \subseteq Layers(in.st, B)
        BY <2>1, <2>3 DEF new, IInv, ResidualInv
    <2> QED
        BY <1>3, <1>5, <1>10, <2>1, <2>4 DEF p
<1> QED
    BY <1>13, <1>14, <1>15, <1>16, <1>17, <1>18, <1>19 DEF IInv

LEMMA EndStageInv == ASSUME IInv, EndStage PROVE IInv'
<1> DEFINE m == Len(parents)
<1>1. /\ pc = "search" /\ pc' = "stage" /\ stack = <<>>
      /\ S' = {a \in Way(in.st, m + 1) : parents[m][a] # None}
      /\ UNCHANGED <<in, G, ResG, reached, parents, stack, rebuild, path, augment,
                     reach, results>>
      /\ UNCHANGED <<v, k, path_flow, e>>
    BY DEF EndStage, rebuild, augment
<1>2. /\ n \in Nat /\ n >= 2 /\ n' = n /\ LNode' = LNode
      /\ \A l \in 1..n : Way(in.st, l) \subseteq LNode
    BY <1>1, Basics DEF IInv, TypeOK, n, LNode
<1>3. /\ m \in Nat /\ m >= 1 /\ m \in 1..m /\ Len(reached) = m /\ m + 1 \in 1..n
      /\ parents[m] \in ParentMap
      /\ S = reached[m]
    BY <1>1, <1>2 DEF IInv, TypeOK, StageInv, SearchInv
<1>4. S' \in SUBSET LNode
    BY <1>1, <1>2, <1>3
<1>5. S' = Stage(in.st, parents, m + 1)
    <2>1. Way(in.st, m + 1) \subseteq LNode
        BY <1>2, <1>3
    <2>2. S' = Way(in.st, m + 1) \cap Found(parents[m])
        BY <1>1, <1>3, <2>1 DEF Found, ParentMap
    <2> QED
        BY <1>3, <2>2 DEF Stage
<1>6. TypeOK'
    BY <1>1, <1>2, <1>4 DEF IInv, TypeOK, ParentMap, IsInput
<1>7. StageInv'
    BY <1>1, <1>3, <1>5 DEF IInv, StageInv
<1>8. SearchInv'
    <2>1. Complete(ResG, n, reached[m], Found(parents[m]))
        BY <1>1, <1>3, EmptyPending DEF IInv, SearchInv, Complete
    <2>2. ASSUME NEW j \in 1..m PROVE Complete(ResG, n, reached[j], Found(parents[j]))
        <3>1. j = m \/ j < m
            BY <1>3
        <3> QED
            BY <1>1, <2>1, <3>1 DEF IInv, SearchInv
    <2> QED
        BY <1>1, <1>2, <2>2 DEF IInv, SearchInv
<1>9. ParentInv' /\ PathInv' /\ ResidualInv' /\ ReachInv'
    BY <1>1 DEF IInv, ParentInv, PathInv, ResidualInv, ReachInv
<1>10. NoWalkInv'
    BY <1>1, <1>2 DEF IInv, NoWalkInv
<1> QED
    BY <1>6, <1>7, <1>8, <1>9, <1>10 DEF IInv

\* Both ends of find_st_path_multi record the last sources.
LEMMA LastSources ==
    ASSUME IInv, pc = "stage", Len(parents) = n - 1, reached' = Append(reached, S)
    PROVE  /\ reached' \in Seq(SUBSET LNode) /\ Len(reached') = n
           /\ \A j \in 1..(n - 1) : reached'[j] = reached[j]
           /\ reached'[n] = S
           /\ \A j \in 1..n : reached'[j] = Stage(in.st, parents, j)
           /\ S = Way(in.st, n) \cap Found(parents[n - 1])
<1>1. n \in Nat /\ n >= 2
    BY Basics DEF IInv, TypeOK
<1>2. /\ reached \in Seq(SUBSET LNode) /\ S \in SUBSET LNode /\ Len(reached) = n - 1
      /\ S = Stage(in.st, parents, n)
      /\ \A j \in 1..(n - 1) : reached[j] = Stage(in.st, parents, j)
    <2>1. Len(parents) + 1 = n
        BY <1>1
    <2>2. S = Stage(in.st, parents, Len(parents) + 1)
        BY DEF IInv, StageInv
    <2>3. S = Stage(in.st, parents, n)
        BY <2>1, <2>2, Zenon
    <2> QED
        BY <1>1, <2>3 DEF IInv, TypeOK, StageInv
<1>3. /\ reached' \in Seq(SUBSET LNode) /\ Len(reached') = n
      /\ \A j \in 1..(n - 1) : reached'[j] = reached[j]
      /\ reached'[n] = S
    BY <1>1, <1>2, AppendProperties
<1>4. \A j \in 1..n : j = n \/ j \in 1..(n - 1)
    BY <1>1
<1>5. S = Way(in.st, n) \cap Found(parents[n - 1])
    BY <1>1, <1>2 DEF Stage
<1> QED
    BY <1>2, <1>3, <1>4, <1>5

LEMMA NoPathInv == ASSUME IInv, NoPath PROVE IInv'
<1>1. /\ pc = "stage" /\ pc' = "reach" /\ Len(parents) = n - 1 /\ S = {}
      /\ reached' = Append(reached, S)
      /\ stack' = Push(<<>>, Way(in.st, 1))
      /\ UNCHANGED <<in, G, ResG, S, parents, rebuild, path, augment, reach, results>>
      /\ UNCHANGED <<v, k, path_flow, e>>
    BY DEF NoPath, rebuild, augment
<1>2. /\ n \in Nat /\ n >= 2 /\ n' = n /\ LNode' = LNode /\ LNode = LNodes(n)
      /\ Way(in.st, 1) \subseteq LNode /\ n = Len(in.st)
    BY <1>1, Basics DEF IInv, TypeOK, n, LNode
<1>3. /\ reached' \in Seq(SUBSET LNode) /\ Len(reached') = n
      /\ \A j \in 1..(n - 1) : reached'[j] = reached[j]
      /\ reached'[n] = {}
      /\ \A j \in 1..n : reached'[j] = Stage(in.st, parents, j)
    BY <1>1, LastSources
<1>4. stack' \in Seq(SUBSET LNode) /\ Pending(stack') = Way(in.st, 1)
    <2>1. Way(in.st, 1) \in Batches(n)
        BY <1>2 DEF Batches
    <2> QED
        BY <1>1, <1>2, <2>1, FirstPush DEF Stacks, Batches
<1>5. TypeOK'
    BY <1>1, <1>2, <1>3, <1>4 DEF IInv, TypeOK, ParentMap, IsInput
<1>6. StageInv'
    BY <1>1, <1>2, <1>3 DEF StageInv
<1>7. ParentInv'
    BY <1>1, <1>3 DEF IInv, ParentInv
<1>8. \A j \in 1..(n - 1) : Complete(ResG, n, reached'[j], Found(parents[j]))
    BY <1>1, <1>3 DEF IInv, SearchInv
<1>9. \A j \in 2..(n - 1) : Found(parents[j]) \subseteq Found(parents[j - 1])
    BY <1>1 DEF IInv, SearchInv
<1>10. SearchInv'
    BY <1>1, <1>2, <1>8, <1>9 DEF SearchInv
<1>11. PathInv' /\ ResidualInv'
    BY <1>1 DEF IInv, PathInv, ResidualInv
<1>12. ReachInv'
    <2>1. /\ ResG \in [LNodes(n) \X LNodes(n) -> Weight]
          /\ \A f \in DOMAIN ResG : ResG[f] > 0 => f \in Skeleton(Layered(in))
        BY <1>2 DEF IInv, TypeOK, ResidualInv
    <2>2. Way(in.st, 1) \subseteq Failed(n, reached', parents)
        BY <1>2, <1>3, <1>8, <1>9, <2>1, FailedClosed DEF IInv, TypeOK
    <2>3. reach = {}
        BY <1>1 DEF IInv, ReachInv
    <2> QED
        BY <1>1, <1>2, <1>4, <2>2, <2>3 DEF ReachInv
<1>13. NoWalkInv'
    BY <1>1, <1>2, <1>3 DEF IInv, NoWalkInv
<1> QED
    BY <1>5, <1>6, <1>7, <1>10, <1>11, <1>12, <1>13 DEF IInv

LEMMA PathFoundInv == ASSUME IInv, NEW t \in LNode, PathFound(t) PROVE IInv'
<1>1. /\ pc = "stage" /\ pc' = "rebuild" /\ Len(parents) = n - 1 /\ t \in S
      /\ reached' = Append(reached, S)
      /\ v' = t /\ k' = n - 1
      /\ UNCHANGED <<in, G, ResG, S, parents, stack, path, augment, reach, results>>
      /\ UNCHANGED <<path_flow, e>>
    BY DEF PathFound, augment
<1>2. /\ n \in Nat /\ n >= 2 /\ n' = n /\ LNode' = LNode /\ n - 1 \in 1..(n - 1)
    BY <1>1, Basics DEF IInv, TypeOK, n, LNode
<1>3. /\ reached' \in Seq(SUBSET LNode) /\ Len(reached') = n
      /\ \A j \in 1..(n - 1) : reached'[j] = reached[j]
      /\ \A j \in 1..n : reached'[j] = Stage(in.st, parents, j)
      /\ t \in Way(in.st, n) /\ t \in Found(parents[n - 1])
    BY <1>1, LastSources
<1>4. TypeOK'
    BY <1>1, <1>2, <1>3 DEF IInv, TypeOK, ParentMap, IsInput
<1>5. StageInv'
    BY <1>1, <1>2, <1>3 DEF StageInv
<1>6. ParentInv'
    BY <1>1, <1>3 DEF IInv, ParentInv
<1>7. SearchInv'
    BY <1>1, <1>2, <1>3 DEF IInv, SearchInv
<1>8. PathInv'
    BY <1>1, <1>2, <1>3 DEF IInv, PathInv
<1>9. ResidualInv' /\ ReachInv'
    BY <1>1 DEF IInv, ResidualInv, ReachInv
<1>10. NoWalkInv'
    <2> SUFFICES ASSUME NEW B \in [1..(n - 1) -> SUBSET Node],
                        IsCertificate(Edges(in.w), in.st, B)
                 PROVE  FALSE
        BY <1>1, <1>2 DEF NoWalkInv
    <2>1. Found(parents[n - 1]) \subseteq Layers(in.st, B)
        BY <1>1, <1>2 DEF IInv, NoWalkInv
    <2>2. t[1] < n
        BY <1>3, <2>1 DEF Layers, n
    <2>3. t[1] = n
        BY <1>3, WayLevel
    <2> QED
        BY <1>2, <2>2, <2>3
<1> QED
    BY <1>4, <1>5, <1>6, <1>7, <1>8, <1>9, <1>10 DEF IInv

LEMMA StepBackInv == ASSUME IInv, StepBack PROVE IInv'
<1> DEFINE u == parents[k][v]
<1>1. /\ pc = "rebuild" /\ pc' = "rebuild" /\ k > 0
      /\ path' = <<v>> \o path /\ v' = u
      /\ k' = IF u \in reached[k] THEN k - 1 ELSE k
      /\ UNCHANGED <<in, G, ResG, search, stack, augment, reach, results>>
      /\ UNCHANGED <<S, reached, parents, path_flow, e>>
    BY DEF StepBack, search, augment
<1>2. /\ n \in Nat /\ n >= 2 /\ n' = n /\ LNode' = LNode
    BY <1>1, Basics DEF IInv, TypeOK, n, LNode
<1>3. /\ k \in 1..(n - 1) /\ Len(parents) = n - 1 /\ Len(reached) = n
      /\ parents[k] \in ParentMap /\ v \in Found(parents[k]) /\ v \in LNode
      /\ path \in Seq(LNode)
    BY <1>1, <1>2 DEF IInv, TypeOK, StageInv, PathInv
<1>4. u \in LNode
    BY <1>3 DEF Found, ParentMap
<1>5. u \in reached[k] \cup Found(parents[k]) /\ <<u, v>> \in Skeleton(G)
    BY <1>3 DEF IInv, ParentInv
<1>6. /\ path' \in Seq(LNode) /\ Len(path') = Len(path) + 1 /\ Len(path) \in Nat
      /\ path'[1] = v /\ \A i \in 1..Len(path) : path'[i + 1] = path[i]
    BY <1>1, <1>3, Prepend
<1>7. k' > 0 => u \in Found(parents[k'])
    <2>1. CASE u \notin reached[k]
        BY <1>1, <1>5, <2>1
    <2>2. CASE u \in reached[k] /\ k # 1
        <3>1. k \in 1..n
            BY <1>2, <1>3
        <3>2. reached[k] = Way(in.st, k) \cap Found(parents[k - 1])
            BY <1>3, <2>2, <3>1 DEF IInv, StageInv, Stage
        <3> QED
            BY <1>1, <2>2, <3>2
    <2>3. CASE u \in reached[k] /\ k = 1
        BY <1>1, <2>3
    <2> QED
        BY <2>1, <2>2, <2>3
<1> HIDE DEF u
<1>8. TypeOK'
    <2>1. k' \in 0..(n - 1)
        BY <1>1, <1>2, <1>3
    <2> QED
        BY <1>1, <1>2, <1>4, <1>6, <2>1 DEF IInv, TypeOK, ParentMap, IsInput
<1>9. PathInv'
    <2>1. ASSUME NEW i \in 1..(Len(path') - 1)
          PROVE  <<path'[i], path'[i + 1]>> \in Skeleton(G)
        <3>1. i \in 1..Len(path)
            BY <1>6
        <3>2. CASE i = 1
            <4>1. path # <<>>
                BY <1>3, <3>1
            <4> QED
                BY <1>1, <1>6, <3>1, <3>2, <4>1 DEF IInv, PathInv
        <3>3. CASE i # 1
            <4>1. i - 1 \in 1..Len(path) /\ i - 1 \in 1..(Len(path) - 1) /\ (i - 1) + 1 = i
                BY <1>6, <3>1, <3>3
            <4>2. path'[i] = path[i - 1] /\ path'[i + 1] = path[i]
                BY <1>6, <3>1, <4>1
            <4>3. <<path[i - 1], path[(i - 1) + 1]>> \in Skeleton(G)
                BY <4>1 DEF IInv, PathInv
            <4> QED
                BY <4>1, <4>2, <4>3
        <3> QED
            BY <3>2, <3>3
    <2>2. path' # <<>>
        BY <1>6
    <2> QED
        BY <1>1, <1>2, <1>4, <1>5, <1>6, <1>7, <2>1, <2>2 DEF PathInv
<1>10. StageInv' /\ ParentInv'
    BY <1>1, <1>2 DEF IInv, StageInv, ParentInv
<1>11. SearchInv'
    BY <1>1, <1>2 DEF IInv, SearchInv
<1>12. ResidualInv' /\ ReachInv'
    BY <1>1 DEF IInv, ResidualInv, ReachInv
<1>13. NoWalkInv'
    BY <1>1, <1>2 DEF IInv, NoWalkInv
<1> QED
    BY <1>8, <1>9, <1>10, <1>11, <1>12, <1>13 DEF IInv

LEMMA PathFlowInv == ASSUME IInv, PathFlow PROVE IInv'
<1> DEFINE p == <<v>> \o path
           W == {ResG[<<p[i], p[i + 1]>>] : i \in 1..(Len(p) - 1)}
<1>1. /\ pc = "rebuild" /\ pc' = "augment" /\ k = 0
      /\ path' = p /\ path_flow' \in W /\ e' = 1
      /\ UNCHANGED <<in, G, ResG, search, stack, rebuild, reach, results>>
      /\ UNCHANGED <<S, reached, parents, v, k>>
    BY DEF PathFlow, search, rebuild
<1>2. /\ n \in Nat /\ n >= 2 /\ n' = n /\ LNode' = LNode
    BY <1>1, Basics DEF IInv, TypeOK, n, LNode
<1>3. /\ v \in LNode /\ path \in Seq(LNode) /\ path # <<>>
      /\ <<v, path[1]>> \in Skeleton(G)
      /\ ResG \in [LNode \X LNode -> Weight]
    BY <1>1 DEF IInv, TypeOK, PathInv
<1>4. /\ p \in Seq(LNode) /\ Len(p) = Len(path) + 1 /\ Len(path) \in Nat
      /\ p[1] = v /\ \A i \in 1..Len(path) : p[i + 1] = path[i]
    BY <1>3, Prepend
<1> HIDE DEF p
<1>5. ASSUME NEW i \in 1..(Len(p) - 1)
      PROVE  <<p[i], p[i + 1]>> \in Skeleton(G) /\ p[i] \in LNode /\ p[i + 1] \in LNode
    <2>1. i \in 1..Len(path) /\ p[i] \in LNode /\ p[i + 1] \in LNode
        BY <1>4
    <2>2. CASE i = 1
        BY <1>3, <1>4, <2>1, <2>2
    <2>3. CASE i # 1
        <3>1. i - 1 \in 1..Len(path) /\ i - 1 \in 1..(Len(path) - 1) /\ (i - 1) + 1 = i
            BY <1>4, <2>1, <2>3
        <3>2. p[i] = path[i - 1] /\ p[i + 1] = path[i]
            BY <1>4, <2>1, <3>1
        <3>3. <<path[i - 1], path[(i - 1) + 1]>> \in Skeleton(G)
            BY <3>1 DEF IInv, PathInv
        <3> QED
            BY <2>1, <3>1, <3>2, <3>3
    <2> QED
        BY <2>2, <2>3
<1>6. path_flow' \in Weight
    BY <1>1, <1>3, <1>5
<1> HIDE DEF W
<1>7. TypeOK'
    BY <1>1, <1>2, <1>4, <1>6 DEF IInv, TypeOK, ParentMap, IsInput
<1>8. StageInv' /\ ParentInv'
    BY <1>1, <1>2 DEF IInv, StageInv, ParentInv
<1>9. SearchInv'
    BY <1>1, <1>2 DEF IInv, SearchInv
<1>10. PathInv'
    BY <1>1, <1>5 DEF PathInv
<1>11. ResidualInv' /\ ReachInv'
    BY <1>1 DEF IInv, ResidualInv, ReachInv
<1>12. NoWalkInv'
    BY <1>1, <1>2 DEF IInv, NoWalkInv
<1> QED
    BY <1>7, <1>8, <1>9, <1>10, <1>11, <1>12 DEF IInv

LEMMA AugmentEdgeInv == ASSUME IInv, AugmentEdge PROVE IInv'
<1> DEFINE f == <<path[e], path[e + 1]>>
           b == <<path[e + 1], path[e]>>
<1>1. /\ pc = "augment" /\ pc' = "augment" /\ e < Len(path) /\ e' = e + 1
      /\ ResG' = [ResG EXCEPT ![f] = (@ - path_flow) % (MaxWeight + 1),
                              ![b] = (@ + path_flow) % (MaxWeight + 1)]
      /\ UNCHANGED <<in, G, search, stack, rebuild, path, path_flow, reach, results>>
      /\ UNCHANGED <<S, reached, parents, v, k>>
    BY DEF AugmentEdge, search, rebuild
<1>2. /\ n \in Nat /\ n >= 2 /\ n' = n /\ LNode' = LNode
    BY <1>1, Basics DEF IInv, TypeOK, n, LNode
<1>3. /\ path \in Seq(LNode) /\ e \in 1..(Len(path) - 1) /\ path_flow \in Weight
      /\ ResG \in [LNode \X LNode -> Weight] /\ G \in [LNode \X LNode -> Weight]
      /\ Weight \subseteq Int
    BY <1>1 DEF IInv, TypeOK, PathInv, Weight
<1>4. f \in LNode \X LNode /\ b \in LNode \X LNode
    BY <1>3
<1>5. f \in Skeleton(G) /\ b \in Skeleton(G)
    <2>1. f \in Skeleton(G)
        BY <1>3 DEF IInv, PathInv
    <2>2. b \in Skeleton(G)
        BY <1>3, <1>4, <2>1 DEF Skeleton
    <2> QED
        BY <2>1, <2>2
<1> HIDE DEF f, b
<1>6. /\ \A x \in Weight : (x - path_flow) % (MaxWeight + 1) \in Weight
      /\ \A x \in Weight : (x + path_flow) % (MaxWeight + 1) \in Weight
    BY <1>3, WeightArith
<1>7. ResG' \in [LNode \X LNode -> Weight]
    BY <1>1, <1>3, <1>4, <1>6
<1>8. \A h \in LNode \X LNode : h # f /\ h # b => ResG'[h] = ResG[h]
    BY <1>1, <1>3, <1>4
<1>9. TypeOK'
    <2>1. e' \in Nat
        BY <1>1, <1>3
    <2> QED
        BY <1>1, <1>2, <1>7, <2>1 DEF IInv, TypeOK, ParentMap, IsInput
<1>10. StageInv' /\ ParentInv'
    BY <1>1, <1>2 DEF IInv, StageInv, ParentInv
<1>11. SearchInv'
    BY <1>1, <1>2 DEF IInv, SearchInv
<1>12. PathInv'
    BY <1>1, <1>3 DEF IInv, PathInv
<1>13. ResidualInv'
    <2>1. ASSUME NEW h \in LNode \X LNode, ResG'[h] > 0 PROVE h \in Skeleton(G)
        <3>1. CASE h = f \/ h = b
            BY <1>5, <3>1
        <3>2. CASE h # f /\ h # b
            BY <1>3, <1>8, <2>1, <3>2 DEF IInv, ResidualInv
        <3> QED
            BY <3>1, <3>2
    <2>2. DOMAIN ResG' = LNode \X LNode
        BY <1>7
    <2> QED
        BY <1>1, <2>1, <2>2 DEF IInv, ResidualInv
<1>14. ReachInv'
    BY <1>1 DEF IInv, ReachInv
<1>15. NoWalkInv'
    BY <1>1, <1>2 DEF IInv, NoWalkInv
<1> QED
    BY <1>9, <1>10, <1>11, <1>12, <1>13, <1>14, <1>15 DEF IInv

LEMMA EndAugmentInv == ASSUME IInv, EndAugment PROVE IInv'
<1>1. /\ pc = "augment" /\ pc' = "stage"
      /\ path' = <<>> /\ S' = Way(in.st, 1) /\ reached' = <<>> /\ parents' = <<>>
      /\ UNCHANGED <<in, G, ResG, stack, rebuild, augment, reach, results>>
      /\ UNCHANGED <<v, k, path_flow, e>>
    BY DEF EndAugment, rebuild, augment
<1>2. /\ n \in Nat /\ n >= 2 /\ n' = n /\ LNode' = LNode /\ Way(in.st, 1) \subseteq LNode
    BY <1>1, Basics DEF IInv, TypeOK, n, LNode
<1>3. TypeOK'
    BY <1>1, <1>2 DEF IInv, TypeOK, ParentMap, IsInput
<1>4. StageInv'
    BY <1>1, <1>2 DEF StageInv, Stage
<1>5. ParentInv' /\ SearchInv' /\ PathInv'
    BY <1>1 DEF ParentInv, SearchInv, PathInv
<1>6. ResidualInv' /\ ReachInv'
    BY <1>1 DEF IInv, ResidualInv, ReachInv
<1>7. NoWalkInv'
    BY <1>1, <1>2 DEF IInv, NoWalkInv
<1> QED
    BY <1>3, <1>4, <1>5, <1>6, <1>7 DEF IInv

\* In the final search, what has been met stays below the last copy.
LEMMA FinalSearch ==
    ASSUME IInv, pc = "reach"
    PROVE  /\ Way(in.st, 1) \subseteq Failed(n, reached, parents)
           /\ \A a \in Failed(n, reached, parents) :
                  Adj(ResG, n, a) \subseteq Failed(n, reached, parents)
<1>1. n = Len(in.st) /\ IsInput(in) /\ LNode = LNodes(n) /\ n \in Nat /\ n >= 2
    BY Basics DEF IInv, TypeOK
<1>2. /\ ResG \in [LNodes(n) \X LNodes(n) -> Weight]
      /\ \A f \in DOMAIN ResG : ResG[f] > 0 => f \in Skeleton(Layered(in))
    BY <1>1 DEF IInv, TypeOK, ResidualInv
<1>3. /\ \A j \in 1..n : reached[j] = Stage(in.st, parents, j)
      /\ reached[n] = {} /\ Len(parents) = n - 1
    BY DEF IInv, StageInv
<1>4. /\ \A j \in 1..(n - 1) : Complete(ResG, n, reached[j], Found(parents[j]))
      /\ \A j \in 2..(n - 1) : Found(parents[j]) \subseteq Found(parents[j - 1])
    BY <1>3 DEF IInv, SearchInv
<1> QED
    BY <1>1, <1>2, <1>3, <1>4, FailedClosed

LEMMA ReachVisitInv == ASSUME IInv, NEW u \in LNode, ReachVisit(u) PROVE IInv'
<1>1. /\ pc = "reach" /\ pc' = "reach" /\ IsTop(stack, u)
      /\ reach' = reach \cup {u}
      /\ stack' = IF u \in reach THEN Popped(stack, u)
                  ELSE Push(Popped(stack, u), Adj(ResG, n, u))
      /\ UNCHANGED <<in, G, ResG, search, rebuild, path, augment, results>>
      /\ UNCHANGED <<S, reached, parents, v, k, path_flow, e>>
    BY DEF ReachVisit, search, rebuild, augment
<1>2. /\ n \in Nat /\ n >= 2 /\ n' = n /\ LNode' = LNode /\ LNode = LNodes(n)
    BY <1>1, Basics DEF IInv, TypeOK, n, LNode
<1>3. /\ u \in Pending(stack)
      /\ Popped(stack, u) \in Stacks(n)
      /\ Pending(Popped(stack, u)) \subseteq Pending(stack)
      /\ Pending(stack) \ {u} \subseteq Pending(Popped(stack, u))
      /\ Push(Popped(stack, u), Adj(ResG, n, u)) \in Stacks(n)
      /\ Pending(Push(Popped(stack, u), Adj(ResG, n, u)))
            = Pending(Popped(stack, u)) \cup Adj(ResG, n, u)
    <2>1. stack \in Stacks(n) /\ Adj(ResG, n, u) \in Batches(n)
        BY <1>2, AdjFacts DEF IInv, TypeOK, Stacks, Batches
    <2> QED
        BY <1>1, <2>1, PopPush
<1>4. stack' \in Seq(SUBSET LNode)
    BY <1>1, <1>2, <1>3 DEF Stacks, Batches
<1>5. /\ Way(in.st, 1) \subseteq reach \cup Pending(stack)
      /\ reach \cup Pending(stack) \subseteq Failed(n, reached, parents)
      /\ \A a \in reach : Adj(ResG, n, a) \subseteq reach \cup Pending(stack)
    BY <1>1 DEF IInv, ReachInv
<1>6. Adj(ResG, n, u) \subseteq Failed(n, reached, parents)
    BY <1>1, <1>3, <1>5, FinalSearch
<1>7. /\ reach \cup Pending(stack) \subseteq reach' \cup Pending(stack')
      /\ reach' \cup Pending(stack') \subseteq Failed(n, reached, parents)
      /\ Adj(ResG, n, u) \subseteq reach' \cup Pending(stack')
    <2>1. CASE u \in reach
        BY <1>1, <1>3, <1>5, <2>1
    <2>2. CASE u \notin reach
        BY <1>1, <1>3, <1>5, <1>6, <2>2
    <2> QED
        BY <2>1, <2>2
<1>8. TypeOK'
    BY <1>1, <1>2, <1>4 DEF IInv, TypeOK, ParentMap, IsInput
<1>9. StageInv' /\ ParentInv'
    BY <1>1, <1>2 DEF IInv, StageInv, ParentInv
<1>10. SearchInv'
    BY <1>1, <1>2 DEF IInv, SearchInv
<1>11. PathInv' /\ ResidualInv'
    BY <1>1 DEF IInv, PathInv, ResidualInv
<1>12. ReachInv'
    <2>1. ASSUME NEW a \in reach' PROVE Adj(ResG, n, a) \subseteq reach' \cup Pending(stack')
        BY <1>1, <1>5, <1>7
    <2>2. Way(in.st, 1) \subseteq reach' \cup Pending(stack')
        BY <1>5, <1>7
    <2> QED
        BY <1>1, <1>2, <1>7, <2>1, <2>2 DEF ReachInv
<1>13. NoWalkInv'
    BY <1>1, <1>2 DEF IInv, NoWalkInv
<1> QED
    BY <1>8, <1>9, <1>10, <1>11, <1>12, <1>13 DEF IInv

LEMMA ResultsInv == ASSUME IInv, Results PROVE IInv'
<1>1. /\ pc = "reach" /\ pc' = "done" /\ stack = <<>>
      /\ results' = Leaving(G, reach)
      /\ UNCHANGED <<in, G, ResG, search, stack, rebuild, path, augment, reach>>
      /\ UNCHANGED <<S, reached, parents, v, k, path_flow, e>>
    BY DEF Results, Leaving, search, rebuild, augment
<1>2. /\ n \in Nat /\ n >= 2 /\ n' = n /\ LNode' = LNode /\ LNode = LNodes(n)
      /\ n = Len(in.st) /\ IsInput(in)
    BY <1>1, Basics DEF IInv, TypeOK, n, LNode
<1>3. /\ Way(in.st, 1) \subseteq reach
      /\ reach \subseteq Failed(n, reached, parents)
      /\ \A a \in reach : Adj(ResG, n, a) \subseteq reach
    BY <1>1, EmptyPending DEF IInv, ReachInv
<1>4. \A a \in reach : a[1] < n
    BY <1>3 DEF Failed
<1>5. results' \in SUBSET Edge
    <2>1. Leaving(Layered(in), reach) \subseteq Edges(in.w)
        BY <1>2, <1>3, <1>4, LeavingIsCut DEF IInv, TypeOK
    <2>2. Edges(in.w) \subseteq Edge
        BY <1>2 DEF IsInput, Edges
    <2> QED
        BY <1>1, <2>1, <2>2 DEF IInv, ResidualInv
<1>6. TypeOK'
    BY <1>1, <1>2, <1>5 DEF IInv, TypeOK, ParentMap, IsInput
<1>7. StageInv' /\ ParentInv'
    BY <1>1, <1>2 DEF IInv, StageInv, ParentInv
<1>8. SearchInv'
    BY <1>1, <1>2 DEF IInv, SearchInv
<1>9. PathInv' /\ ResidualInv'
    BY <1>1 DEF IInv, PathInv, ResidualInv
<1>10. ReachInv'
    BY <1>1, <1>2, <1>3, <1>4 DEF ReachInv, Leaving
<1>11. NoWalkInv'
    BY <1>1, <1>2 DEF IInv, NoWalkInv
<1> QED
    BY <1>6, <1>7, <1>8, <1>9, <1>10, <1>11 DEF IInv

LEMMA NextInv == IInv /\ [Next]_vars => IInv'
<1> SUFFICES ASSUME IInv, [Next]_vars PROVE IInv'
    OBVIOUS
<1>1. CASE UNCHANGED vars
    <2>1. /\ UNCHANGED <<in, G, ResG, pc, S, reached, parents, stack>>
          /\ UNCHANGED <<v, k, path, path_flow, e, reach, results>>
        BY <1>1 DEF vars, search, rebuild, augment
    <2>2. n' = n /\ LNode' = LNode
        BY <2>1 DEF n, LNode
    <2>3. TypeOK'
        BY <2>1, <2>2 DEF IInv, TypeOK, ParentMap, IsInput
    <2>4. StageInv' /\ ParentInv'
        BY <2>1, <2>2 DEF IInv, StageInv, ParentInv
    <2>5. SearchInv'
        BY <2>1, <2>2 DEF IInv, SearchInv
    <2>6. PathInv' /\ ResidualInv'
        BY <2>1, <2>2 DEF IInv, PathInv, ResidualInv
    <2>7. ReachInv'
        BY <2>1, <2>2 DEF IInv, ReachInv
    <2>8. NoWalkInv'
        BY <2>1, <2>2 DEF IInv, NoWalkInv
    <2> QED
        BY <2>3, <2>4, <2>5, <2>6, <2>7, <2>8 DEF IInv
<1>2. CASE Done
    BY <1>1, <1>2 DEF Done
<1>3. ASSUME NEW u \in LNode, Visit(u) \/ PathFound(u) \/ ReachVisit(u) PROVE IInv'
    BY <1>3, VisitInv, PathFoundInv, ReachVisitInv
<1>4. CASE StartStage \/ EndStage \/ NoPath \/ StepBack
    BY <1>4, StartStageInv, EndStageInv, NoPathInv, StepBackInv
<1>5. CASE PathFlow \/ AugmentEdge \/ EndAugment \/ Results
    BY <1>5, PathFlowInv, AugmentEdgeInv, EndAugmentInv, ResultsInv
<1> QED
    BY <1>1, <1>2, <1>3, <1>4, <1>5 DEF Next

LEMMA Invariance == Spec => []IInv
BY InitInv, NextInv, PTL DEF Spec

-----------------------------------------------------------------------------

\* ford_fulkerson_multi never leaves the types of its variables, although the
\* residual weights may wrap around.
THEOREM TypeCorrect == Spec => []TypeOK
<1>1. IInv => TypeOK
    BY DEF IInv
<1> QED
    BY <1>1, Invariance, PTL

\* The assertion in find_st_path_multi never fails.
THEOREM RebuildSafe == Spec => []ParentPresent
<1>1. IInv => ParentPresent
    BY DEF IInv, PathInv, Found, ParentPresent
<1> QED
    BY <1>1, Invariance, PTL

\* ford_fulkerson_multi returns edges of the graph that cut every walk through
\* the waypoints, and returns none if there is no such walk.
THEOREM ContractHolds == Spec => []Contract
<1>1. IInv => Contract
    <2> SUFFICES ASSUME IInv, pc = "done"
                 PROVE  /\ results \subseteq Edges(in.w)
                        /\ Separated(Edges(in.w) \ results, in.st)
                        /\ Separated(Edges(in.w), in.st) => results = {}
        BY DEF Contract
    <2>1. n = Len(in.st) /\ IsInput(in) /\ LNode = LNodes(n)
        BY Basics DEF IInv, TypeOK
    <2>2. /\ Way(in.st, 1) \subseteq reach
          /\ \A a \in reach : a[1] < n
          /\ \A a \in reach : Adj(ResG, n, a) \subseteq reach
          /\ results = Leaving(G, reach)
          /\ G = Layered(in) /\ reach \in SUBSET LNodes(n)
          /\ G \in [LNodes(n) \X LNodes(n) -> Weight]
        BY <2>1 DEF IInv, TypeOK, ReachInv, ResidualInv, Leaving
    <2>3. results \subseteq Edges(in.w) /\ Separated(Edges(in.w) \ results, in.st)
        BY <2>1, <2>2, LeavingIsCut
    <2>4. ASSUME Separated(Edges(in.w), in.st) PROVE results = {}
        <3>1. PICK B \in [1..(n - 1) -> SUBSET Node] : IsCertificate(Edges(in.w), in.st, B)
            BY <2>1, <2>4 DEF Separated
        <3>2. ResG = G
            BY <3>1 DEF IInv, NoWalkInv
        <3>3. ASSUME NEW h \in Edges(G), h[1] \in reach PROVE h[2] \in reach
            BY <2>2, <3>2, <3>3 DEF Edges, Adj
        <3> QED
            BY <2>2, <3>3 DEF Leaving
    <2> QED
        BY <2>3, <2>4
<1> QED
    BY <1>1, Invariance, PTL

-----------------------------------------------------------------------------
(* The residual graph.                                                      *)

\* What is known of the residual weights along parents and along the path.
FlowInv ==
    /\ pc \in {"stage", "search", "rebuild"} =>
          \A j \in 1..Len(parents) : \A b \in Found(parents[j]) :
              ResG[<<parents[j][b], b>>] > 0
    /\ pc = "rebuild" =>
          /\ \A i \in 1..(Len(path) - 1) : ResG[<<path[i], path[i + 1]>>] > 0
          /\ path # <<>> => ResG[<<v, path[1]>>] > 0
    /\ pc = "augment" => path_flow > 0

\* The parents in p lead from every node found to a node of P: no set of other
\* nodes is closed under them.
Forest(p, P) ==
    \A Q \in SUBSET (Found(p) \ P) : Q # {} => \E b \in Q : p[b] \notin Q

\* The nodes of s, on the way from u, each have the one before as their parent.
Follows(p, P, s, u) ==
    /\ \A i \in 1..Len(s) : s[i] \in Found(p) \ P
    /\ \A i \in 1..Len(s) : p[s[i]] = IF i = 1 THEN u ELSE s[i - 1]

Injective(s) == \A i, j \in 1..Len(s) : i < j => s[i] # s[j]

Sources == Way(in.st, 1)

ForestInv == n = 2 /\ Len(parents) >= 1 => Forest(parents[1], Sources)

\* A path of an ST of two waypoint sets meets no node twice.
SimpleInv ==
    n = 2 =>
        /\ pc = "rebuild" =>
              /\ Follows(parents[1], Sources, path, v)
              /\ k > 0 <=> v \notin Sources
              /\ Injective(path)
              /\ \A i \in 1..Len(path) : path[i] # v
        /\ pc = "augment" => Injective(path)

\* Flow that is taken from an edge goes to its reverse, and what is still to be
\* taken is there.
BalanceInv ==
    n = 2 =>
        /\ \A a, b \in LNode : a # b =>
              ResG[<<a, b>>] + ResG[<<b, a>>] = G[<<a, b>>] + G[<<b, a>>]
        /\ pc = "augment" =>
              /\ \A i \in e..(Len(path) - 1) : path_flow <= ResG[<<path[i], path[i + 1]>>]
              /\ path_flow < MaxWeight

-----------------------------------------------------------------------------
(* Facts about parents, sequences and arithmetic.                           *)

LEMMA ForestGrows ==
    ASSUME NEW p, NEW q, NEW P, NEW new, NEW u, Forest(p, P),
           Found(q) = Found(p) \cup new, new \cap Found(p) = {},
           \A b \in new : q[b] = u,
           \A b \in Found(p) : q[b] = p[b] /\ p[b] \in P \cup Found(p),
           u \in P \cup Found(p)
    PROVE  Forest(q, P)
<1> SUFFICES ASSUME NEW Q \in SUBSET (Found(q) \ P), Q # {}
             PROVE  \E b \in Q : q[b] \notin Q
    BY DEF Forest
<1>1. CASE Q \cap Found(p) = {}
    <2>1. PICK b \in Q : TRUE
        OBVIOUS
    <2>2. b \in new /\ u \notin Q
        BY <1>1
    <2> QED
        BY <2>1, <2>2
<1>2. CASE Q \cap Found(p) # {}
    <2>1. Q \cap Found(p) \in SUBSET (Found(p) \ P)
        OBVIOUS
    <2>2. PICK b \in Q \cap Found(p) : p[b] \notin Q \cap Found(p)
        BY <1>2, <2>1 DEF Forest
    <2>3. p[b] \in P \cup Found(p) /\ q[b] = p[b]
        BY <2>2
    <2>4. p[b] \notin Q
        BY <2>2, <2>3
    <2> QED
        BY <2>2, <2>3, <2>4
<1> QED
    BY <1>1, <1>2

\* Following the parents never leads back to where one has been.
LEMMA NoReturn ==
    ASSUME NEW T, NEW s \in Seq(T), NEW p, NEW P, NEW u,
           Forest(p, P), Follows(p, P, s, u), NEW x \in 1..Len(s), s[x] = u
    PROVE  FALSE
<1> DEFINE Q == {s[i] : i \in 1..x}
<1>1. Len(s) \in Nat /\ x \in Nat /\ x >= 1 /\ x <= Len(s)
    OBVIOUS
<1>2. \A i \in 1..x : i \in 1..Len(s)
    BY <1>1
<1>3. Q \in SUBSET (Found(p) \ P)
    BY <1>2 DEF Follows
<1>4. s[x] \in Q
    BY <1>1
<1>5. ASSUME NEW i \in 1..x PROVE p[s[i]] \in Q
    <2>1. i \in 1..Len(s)
        BY <1>2
    <2>2. CASE i = 1
        <3>1. p[s[i]] = u
            BY <2>1, <2>2 DEF Follows
        <3> QED
            BY <1>4, <3>1
    <2>3. CASE i # 1
        <3>1. i - 1 \in 1..x
            BY <1>1, <2>3
        <3>2. p[s[i]] = s[i - 1]
            BY <2>1, <2>3 DEF Follows
        <3> QED
            BY <3>1, <3>2
    <2> QED
        BY <2>2, <2>3
<1>6. \A b \in Q : p[b] \in Q
    BY <1>5
<1> HIDE DEF Q
<1> QED
    BY <1>3, <1>4, <1>6 DEF Forest

LEMMA FollowsPrepend ==
    ASSUME NEW T, NEW s \in Seq(T), NEW p, NEW P, NEW u \in T,
           Follows(p, P, s, u), u \in Found(p) \ P
    PROVE  Follows(p, P, <<u>> \o s, p[u])
<1> DEFINE t == <<u>> \o s
<1>1. /\ Len(t) = Len(s) + 1 /\ Len(s) \in Nat /\ t[1] = u
      /\ \A i \in 1..Len(s) : t[i + 1] = s[i]
    BY Prepend
<1> HIDE DEF t
<1>2. ASSUME NEW i \in 1..Len(t)
      PROVE  /\ t[i] \in Found(p) \ P
             /\ p[t[i]] = IF i = 1 THEN p[u] ELSE t[i - 1]
    <2>1. CASE i = 1
        BY <1>1, <2>1
    <2>2. CASE i # 1
        <3>1. i - 1 \in 1..Len(s) /\ (i - 1) + 1 = i
            BY <1>1, <2>2
        <3>2. t[i] = s[i - 1]
            BY <1>1, <3>1
        <3>3. s[i - 1] \in Found(p) \ P
            BY <3>1 DEF Follows
        <3>4. p[s[i - 1]] = t[i - 1]
            <4>1. CASE i - 1 = 1
                BY <1>1, <3>1, <4>1 DEF Follows
            <4>2. CASE i - 1 # 1
                <5>1. (i - 1) - 1 \in 1..Len(s) /\ ((i - 1) - 1) + 1 = i - 1
                    BY <3>1, <4>2
                <5>2. t[i - 1] = s[(i - 1) - 1]
                    BY <1>1, <5>1
                <5>3. p[s[i - 1]] = s[(i - 1) - 1]
                    BY <3>1, <4>2 DEF Follows
                <5> QED
                    BY <5>2, <5>3
            <4> QED
                BY <4>1, <4>2
        <3> QED
            BY <2>2, <3>2, <3>3, <3>4
    <2> QED
        BY <2>1, <2>2
<1> QED
    BY <1>2 DEF Follows, t

LEMMA InjectivePrepend ==
    ASSUME NEW T, NEW s \in Seq(T), NEW u \in T, Injective(s),
           \A i \in 1..Len(s) : s[i] # u
    PROVE  Injective(<<u>> \o s)
<1> DEFINE t == <<u>> \o s
<1>1. /\ Len(t) = Len(s) + 1 /\ Len(s) \in Nat /\ t[1] = u
      /\ \A i \in 1..Len(s) : t[i + 1] = s[i]
    BY Prepend
<1> HIDE DEF t
<1>2. ASSUME NEW i \in 1..Len(t), NEW j \in 1..Len(t), i < j PROVE t[i] # t[j]
    <2>1. j - 1 \in 1..Len(s) /\ (j - 1) + 1 = j
        BY <1>1, <1>2
    <2>2. t[j] = s[j - 1]
        BY <1>1, <2>1
    <2>3. CASE i = 1
        BY <1>1, <2>1, <2>2, <2>3
    <2>4. CASE i # 1
        <3>1. i - 1 \in 1..Len(s) /\ (i - 1) + 1 = i /\ i - 1 < j - 1
            BY <1>1, <1>2, <2>4
        <3>2. t[i] = s[i - 1]
            BY <1>1, <3>1
        <3> QED
            BY <2>1, <2>2, <3>1, <3>2 DEF Injective
    <2> QED
        BY <2>3, <2>4
<1> QED
    BY <1>2 DEF Injective, t

LEMMA ModSmall == \A m \in Nat \ {0}, x \in Nat : x < m => x % m = x
OBVIOUS

\* The layered weights of an edge and its reverse leave room, if the given ones
\* do: of two edges between copies only one can exist.
LEMMA LayeredFits ==
    ASSUME WeightsFit, NEW i \in Inputs,
           NEW a \in LNodes(Len(i.st)), NEW b \in LNodes(Len(i.st))
    PROVE  Layered(i)[<<a, b>>] + Layered(i)[<<b, a>>] < MaxWeight
<1>1. IsInput(i) /\ MaxWeight \in Nat /\ MaxWeight > 0
    BY InputsAssumption, WidthAssumption
<1>2. PICK l \in 1..Len(i.st), x \in Node : a = <<l, x>>
    BY DEF LNodes
<1>3. PICK m \in 1..Len(i.st), y \in Node : b = <<m, y>>
    BY DEF LNodes
<1>4. i.w[<<x, y>>] \in Nat /\ i.w[<<y, x>>] \in Nat
    BY <1>1 DEF IsInput, Edge, Weight
<1>5. i.w[<<x, y>>] + i.w[<<y, x>>] < MaxWeight
    BY DEF WeightsFit
<1>6. /\ Layered(i)[<<a, b>>] \in {0, i.w[<<x, y>>]}
      /\ Layered(i)[<<b, a>>] \in {0, i.w[<<y, x>>]}
    BY <1>2, <1>3 DEF Layered
<1> QED
    BY <1>1, <1>4, <1>5, <1>6

-----------------------------------------------------------------------------
(* What the steps do to parents and path.                                   *)

LEMMA VisitEffect ==
    ASSUME IInv, NEW u \in LNode, Visit(u)
    PROVE  \E m \in Nat, new \in SUBSET LNode :
              /\ m = Len(parents) /\ m >= 1 /\ Len(parents') = m
              /\ \A j \in 1..m : j # m => parents'[j] = parents[j]
              /\ Found(parents'[m]) = Found(parents[m]) \cup new
              /\ new \cap Found(parents[m]) = {}
              /\ \A b \in new : parents'[m][b] = u /\ ResG[<<u, b>>] > 0
              /\ \A b \in Found(parents[m]) : parents'[m][b] = parents[m][b]
              /\ u \in reached[m] \cup Found(parents[m])
<1> DEFINE m == Len(parents)
           p == parents[m]
           new == {b \in Adj(ResG, n, u) : p[b] = None}
           q == [b \in LNode |-> IF b \in new THEN u ELSE p[b]]
<1>1. /\ pc = "search" /\ IsTop(stack, u)
      /\ parents' = [parents EXCEPT ![m] = q]
    BY DEF Visit
<1>2. LNode = LNodes(n) /\ None \notin LNode
    BY Basics DEF IInv, TypeOK
<1>3. /\ m \in Nat /\ m >= 1 /\ m \in 1..m
      /\ parents \in Seq(ParentMap) /\ p \in ParentMap
      /\ S = reached[m]
    BY <1>1 DEF IInv, TypeOK, SearchInv
<1>4. new \in SUBSET LNode /\ \A b \in new : ResG[<<u, b>>] > 0
    BY <1>2, AdjFacts
<1>5. q \in ParentMap /\ Found(q) = Found(p) \cup new /\ new \cap Found(p) = {}
    BY <1>2, <1>3, <1>4 DEF ParentMap, Found
<1>6. /\ \A b \in new : q[b] = u
      /\ \A b \in Found(p) : q[b] = p[b]
    BY <1>3, <1>4 DEF ParentMap, Found
<1>7. u \in S \cup Found(p)
    <2>1. stack \in Stacks(n) /\ {} \in Batches(n)
        BY <1>2 DEF IInv, TypeOK, Stacks, Batches
    <2>2. u \in Pending(stack)
        BY <1>1, <2>1, PopPush
    <2> QED
        BY <1>1, <2>2 DEF IInv, SearchInv
<1> HIDE DEF q, new
<1>8. /\ Len(parents') = m
      /\ \A j \in 1..m : parents'[j] = IF j = m THEN q ELSE parents[j]
    BY <1>1, <1>3, <1>5, ExceptSeq
<1>9. parents'[m] = q
    BY <1>3, <1>8
<1> HIDE DEF m, p
<1>10. m = Len(parents) /\ p = parents[m]
    BY DEF m, p
<1> m \in Nat /\ new \in SUBSET LNode
    BY <1>3, <1>4
<1> WITNESS m \in Nat, new \in SUBSET LNode
<1> QED
    BY <1>3, <1>4, <1>5, <1>6, <1>7, <1>8, <1>9, <1>10

LEMMA StartStageEffect ==
    ASSUME IInv, StartStage
    PROVE  /\ Len(parents') = Len(parents) + 1 /\ Len(parents) \in Nat
           /\ \A j \in 1..Len(parents) : parents'[j] = parents[j]
           /\ Found(parents'[Len(parents) + 1]) = {}
<1>1. parents' = Append(parents, [a \in LNode |-> None]) /\ parents \in Seq(ParentMap)
    BY DEF StartStage, IInv, TypeOK
<1>2. [a \in LNode |-> None] \in ParentMap /\ Found([a \in LNode |-> None]) = {}
    BY DEF ParentMap, Found
<1> QED
    BY <1>1, <1>2, AppendProperties

LEMMA StepBackEffect ==
    ASSUME IInv, StepBack
    PROVE  /\ pc = "rebuild" /\ k \in 1..(n - 1) /\ k \in 1..Len(parents)
           /\ path \in Seq(LNode) /\ v \in LNode /\ v \in Found(parents[k])
           /\ v' = parents[k][v] /\ path' = <<v>> \o path
           /\ k' = IF v' \in reached[k] THEN k - 1 ELSE k
           /\ Len(path') = Len(path) + 1 /\ Len(path) \in Nat
           /\ path'[1] = v /\ \A i \in 1..Len(path) : path'[i + 1] = path[i]
<1>1. n \in Nat /\ n >= 2
    BY Basics DEF IInv, TypeOK
<1>2. /\ pc = "rebuild" /\ k > 0 /\ v' = parents[k][v] /\ path' = <<v>> \o path
      /\ k' = IF v' \in reached[k] THEN k - 1 ELSE k
    BY DEF StepBack
<1>3. /\ k \in 1..(n - 1) /\ Len(parents) = n - 1 /\ v \in Found(parents[k]) /\ v \in LNode
      /\ path \in Seq(LNode)
    BY <1>1, <1>2 DEF IInv, TypeOK, StageInv, PathInv
<1>4. /\ Len(path') = Len(path) + 1 /\ Len(path) \in Nat
      /\ path'[1] = v /\ \A i \in 1..Len(path) : path'[i + 1] = path[i]
    BY <1>2, <1>3, Prepend
<1> QED
    BY <1>2, <1>3, <1>4

\* The complete path, and what is found out about its flow.
LEMMA PathFlowEffect ==
    ASSUME IInv, PathFlow
    PROVE  /\ pc = "rebuild" /\ k = 0 /\ e' = 1 /\ path # <<>>
           /\ path \in Seq(LNode) /\ v \in LNode /\ path' = <<v>> \o path
           /\ path' \in Seq(LNode)
           /\ Len(path') = Len(path) + 1 /\ Len(path) \in Nat /\ Len(path) >= 1
           /\ path'[1] = v /\ \A i \in 1..Len(path) : path'[i + 1] = path[i]
           /\ \E i \in 1..(Len(path') - 1) : path_flow' = ResG[<<path'[i], path'[i + 1]>>]
           /\ \A i \in 1..(Len(path') - 1) : path_flow' <= ResG[<<path'[i], path'[i + 1]>>]
<1> DEFINE p == <<v>> \o path
           W == {ResG[<<p[i], p[i + 1]>>] : i \in 1..(Len(p) - 1)}
<1>1. /\ pc = "rebuild" /\ k = 0 /\ e' = 1 /\ path' = p
      /\ path_flow' \in W /\ \A w \in W : path_flow' <= w
    BY DEF PathFlow
<1>2. v \in LNode /\ path \in Seq(LNode) /\ path # <<>>
    BY <1>1 DEF IInv, TypeOK, PathInv
<1>3. /\ p \in Seq(LNode) /\ Len(p) = Len(path) + 1 /\ Len(path) \in Nat
      /\ p[1] = v /\ \A i \in 1..Len(path) : p[i + 1] = path[i]
    BY <1>2, Prepend
<1>4. Len(path) >= 1
    BY <1>2
<1> HIDE DEF p
<1>5. /\ \E i \in 1..(Len(p) - 1) : path_flow' = ResG[<<p[i], p[i + 1]>>]
      /\ \A i \in 1..(Len(p) - 1) : path_flow' <= ResG[<<p[i], p[i + 1]>>]
    BY <1>1
<1>6. p = <<v>> \o path
    BY DEF p
<1> QED
    BY <1>1, <1>2, <1>3, <1>4, <1>5, <1>6

-----------------------------------------------------------------------------
(* The flow of every path is positive.                                      *)

LEMMA FlowInit == Init => FlowInv
BY DEF Init, FlowInv

LEMMA FlowStep == ASSUME IInv, FlowInv, [Next]_vars PROVE FlowInv'
<1>1. ASSUME StartStage PROVE FlowInv'
    <2>1. pc = "stage" /\ pc' = "search" /\ ResG' = ResG
        BY <1>1 DEF StartStage
    <2>2. ASSUME NEW j \in 1..Len(parents'), NEW b \in Found(parents'[j])
          PROVE  ResG[<<parents'[j][b], b>>] > 0
        <3>1. j \in 1..Len(parents)
            BY <1>1, <2>2, StartStageEffect
        <3> QED
            BY <1>1, <2>1, <2>2, <3>1, StartStageEffect DEF FlowInv
    <2> QED
        BY <2>1, <2>2 DEF FlowInv
<1>2. ASSUME NEW u \in LNode, Visit(u) PROVE FlowInv'
    <2>1. pc = "search" /\ pc' = "search" /\ ResG' = ResG
        BY <1>2 DEF Visit
    <2>2. PICK m \in Nat, new \in SUBSET LNode :
              /\ m = Len(parents) /\ m >= 1 /\ Len(parents') = m
              /\ \A j \in 1..m : j # m => parents'[j] = parents[j]
              /\ Found(parents'[m]) = Found(parents[m]) \cup new
              /\ new \cap Found(parents[m]) = {}
              /\ \A b \in new : parents'[m][b] = u /\ ResG[<<u, b>>] > 0
              /\ \A b \in Found(parents[m]) : parents'[m][b] = parents[m][b]
              /\ u \in reached[m] \cup Found(parents[m])
        BY <1>2, VisitEffect
    <2>3. \A j \in 1..m : \A b \in Found(parents[j]) : ResG[<<parents[j][b], b>>] > 0
        BY <2>1, <2>2 DEF FlowInv
    <2>4. ASSUME NEW j \in 1..m, NEW b \in Found(parents'[j])
          PROVE  ResG[<<parents'[j][b], b>>] > 0
        <3>1. CASE j # m
            BY <2>2, <2>3, <2>4, <3>1
        <3>2. CASE j = m /\ b \in new
            BY <2>2, <3>2
        <3>3. CASE j = m /\ b \in Found(parents[m])
            BY <2>2, <2>3, <3>3
        <3> QED
            BY <2>2, <2>4, <3>1, <3>2, <3>3
    <2> QED
        BY <2>1, <2>2, <2>4 DEF FlowInv
<1>3. ASSUME StepBack PROVE FlowInv'
    <2>1. pc' = pc /\ UNCHANGED <<ResG, parents>>
        BY <1>3 DEF StepBack, search
    <2>2. /\ pc = "rebuild" /\ k \in 1..Len(parents) /\ v \in Found(parents[k])
          /\ v' = parents[k][v] /\ path \in Seq(LNode)
          /\ Len(path') = Len(path) + 1 /\ Len(path) \in Nat
          /\ path'[1] = v /\ \A i \in 1..Len(path) : path'[i + 1] = path[i]
        BY <1>3, StepBackEffect
    <2>3. ResG[<<v', path'[1]>>] > 0
        BY <2>2 DEF FlowInv
    <2>4. ASSUME NEW i \in 1..(Len(path') - 1) PROVE ResG[<<path'[i], path'[i + 1]>>] > 0
        <3>1. i \in 1..Len(path) /\ path'[i + 1] = path[i]
            BY <2>2
        <3>2. CASE i = 1
            <4>1. path # <<>>
                BY <2>2, <3>1
            <4> QED
                BY <2>2, <3>1, <3>2, <4>1 DEF FlowInv
        <3>3. CASE i # 1
            <4>1. i - 1 \in 1..Len(path) /\ i - 1 \in 1..(Len(path) - 1) /\ (i - 1) + 1 = i
                BY <2>2, <3>1, <3>3
            <4>2. path'[i] = path[i - 1]
                BY <2>2, <4>1
            <4>3. ResG[<<path[i - 1], path[(i - 1) + 1]>>] > 0
                BY <2>2, <4>1 DEF FlowInv
            <4> QED
                BY <3>1, <4>1, <4>2, <4>3
        <3> QED
            BY <3>2, <3>3
    <2> QED
        BY <2>1, <2>2, <2>3, <2>4 DEF FlowInv
<1>4. ASSUME PathFlow PROVE FlowInv'
    <2>1. pc' = "augment"
        BY <1>4 DEF PathFlow
    <2>2. /\ pc = "rebuild" /\ path # <<>>
          /\ Len(path') = Len(path) + 1 /\ Len(path) \in Nat
          /\ path'[1] = v /\ \A i \in 1..Len(path) : path'[i + 1] = path[i]
        BY <1>4, PathFlowEffect
    <2>3. PICK i \in 1..(Len(path') - 1) : path_flow' = ResG[<<path'[i], path'[i + 1]>>]
        BY <1>4, PathFlowEffect
    <2>4. i \in 1..Len(path) /\ path'[i + 1] = path[i]
        BY <2>2
    <2>5. CASE i = 1
        BY <2>1, <2>2, <2>3, <2>4, <2>5 DEF FlowInv
    <2>6. CASE i # 1
        <3>1. i - 1 \in 1..Len(path) /\ i - 1 \in 1..(Len(path) - 1) /\ (i - 1) + 1 = i
            BY <2>2, <2>4, <2>6
        <3>2. path'[i] = path[i - 1]
            BY <2>2, <3>1
        <3>3. ResG[<<path[i - 1], path[(i - 1) + 1]>>] > 0
            BY <2>2, <3>1 DEF FlowInv
        <3>4. path_flow' > 0
            BY <2>3, <2>4, <3>1, <3>2, <3>3
        <3> QED
            BY <2>1, <3>4 DEF FlowInv
    <2> QED
        BY <2>5, <2>6
<1>5. ASSUME NEW t \in LNode, PathFound(t) PROVE FlowInv'
    <2>1. pc = "stage" /\ pc' = "rebuild" /\ UNCHANGED <<ResG, parents, path>>
        BY <1>5 DEF PathFound
    <2>2. path = <<>>
        BY <2>1 DEF IInv, PathInv
    <2> QED
        BY <2>1, <2>2 DEF FlowInv
<1>6. ASSUME AugmentEdge PROVE FlowInv'
    BY <1>6 DEF AugmentEdge, FlowInv
<1>7. ASSUME EndAugment PROVE FlowInv'
    BY <1>7 DEF EndAugment, FlowInv
<1>8. ASSUME EndStage PROVE FlowInv'
    BY <1>8 DEF EndStage, FlowInv
<1>9. ASSUME NoPath \/ Results \/ \E u \in LNode : ReachVisit(u) PROVE FlowInv'
    BY <1>9 DEF NoPath, Results, ReachVisit, FlowInv
<1>10. ASSUME UNCHANGED vars PROVE FlowInv'
    BY <1>10 DEF vars, search, rebuild, augment, FlowInv
<1> QED
    BY <1>1, <1>2, <1>3, <1>4, <1>5, <1>6, <1>7, <1>8, <1>9, <1>10 DEF Next, Done

\* assert(path_flow > 0) of ford_fulkerson_multi_impl never fails, whatever the
\* ST, and whatever the weights.
THEOREM FlowIsPositive == Spec => [](pc = "augment" => path_flow > 0)
<1>1. FlowInv => (pc = "augment" => path_flow > 0)
    BY DEF FlowInv
<1>2. IInv /\ FlowInv /\ [Next]_vars => FlowInv'
    BY FlowStep
<1> QED
    BY <1>1, <1>2, FlowInit, Invariance, PTL DEF Spec

-----------------------------------------------------------------------------
(* STs of two waypoint sets: no path meets a node twice.                    *)

LEMMA SameConstants ==
    ASSUME [Next]_vars
    PROVE  in' = in /\ G' = G /\ n' = n /\ LNode' = LNode /\ Sources' = Sources
<1>1. in' = in /\ G' = G
    BY DEF Next, StartStage, Visit, EndStage, NoPath, PathFound, StepBack, PathFlow, AugmentEdge,
           EndAugment, ReachVisit, Results, Done, vars
<1> QED
    BY <1>1 DEF n, LNode, Sources

LEMMA TwoSets ==
    ASSUME IInv, n = 2
    PROVE  /\ Len(parents) \in 0..1 /\ k \in 0..1
           /\ Len(parents) = 1 /\ Len(reached) >= 1 => reached[1] = Sources
           /\ pc \in {"rebuild", "augment"} => Len(parents) = 1 /\ Len(reached) >= 1
           /\ pc = "search" => Len(parents) = 1 /\ Len(reached) >= 1
<1>1. Len(parents) \in Nat /\ Len(reached) \in Nat /\ Len(parents) <= 1 /\ k \in 0..1
    BY DEF IInv, TypeOK
<1>2. ASSUME Len(reached) >= 1 PROVE reached[1] = Sources
    <2>1. 1 \in 1..Len(reached)
        BY <1>1, <1>2
    <2>2. reached[1] = Stage(in.st, parents, 1)
        BY <2>1 DEF IInv, StageInv
    <2> QED
        BY <2>2 DEF Stage, Sources
<1>3. ASSUME pc \in {"rebuild", "augment"} PROVE Len(parents) = 1 /\ Len(reached) >= 1
    <2>1. Len(parents) = n - 1 /\ Len(reached) = n
        BY <1>3 DEF IInv, StageInv
    <2> QED
        BY <2>1
<1>4. ASSUME pc = "search" PROVE Len(parents) = 1 /\ Len(reached) >= 1
    <2>1. Len(parents) >= 1 /\ Len(reached) = Len(parents)
        BY <1>4 DEF IInv, StageInv, SearchInv
    <2> QED
        BY <1>1, <2>1
<1> QED
    BY <1>1, <1>2, <1>3, <1>4, SMTT(30)

LEMMA ForestStep == ASSUME IInv, ForestInv, [Next]_vars PROVE ForestInv'
<1> SUFFICES ASSUME n = 2, Len(parents') >= 1 PROVE Forest(parents'[1], Sources)
    BY SameConstants DEF ForestInv
<1>1. ASSUME StartStage PROVE Forest(parents'[1], Sources)
    <2>1. Len(parents) = 0
        BY <1>1, TwoSets DEF StartStage
    <2>2. Found(parents'[1]) = {}
        BY <1>1, <2>1, StartStageEffect
    <2> QED
        BY <2>2 DEF Forest
<1>2. ASSUME NEW u \in LNode, Visit(u) PROVE Forest(parents'[1], Sources)
    <2>1. PICK m \in Nat, new \in SUBSET LNode :
              /\ m = Len(parents) /\ m >= 1 /\ Len(parents') = m
              /\ \A j \in 1..m : j # m => parents'[j] = parents[j]
              /\ Found(parents'[m]) = Found(parents[m]) \cup new
              /\ new \cap Found(parents[m]) = {}
              /\ \A b \in new : parents'[m][b] = u /\ ResG[<<u, b>>] > 0
              /\ \A b \in Found(parents[m]) : parents'[m][b] = parents[m][b]
              /\ u \in reached[m] \cup Found(parents[m])
        BY <1>2, VisitEffect
    <2>2. m = 1 /\ reached[1] = Sources
        BY <1>2, <2>1, TwoSets DEF Visit
    <2>3. Forest(parents[1], Sources)
        BY <2>1, <2>2 DEF ForestInv
    <2>4. \A b \in Found(parents[1]) : parents[1][b] \in Sources \cup Found(parents[1])
        <3>1. 1 \in 1..Len(parents)
            BY <2>1, <2>2
        <3> QED
            BY <2>2, <3>1 DEF IInv, ParentInv
    <2>5. /\ Found(parents'[1]) = Found(parents[1]) \cup new
          /\ new \cap Found(parents[1]) = {}
          /\ \A b \in new : parents'[1][b] = u
          /\ \A b \in Found(parents[1]) : parents'[1][b] = parents[1][b]
          /\ u \in Sources \cup Found(parents[1])
        BY <2>1, <2>2
    <2>6. \A b \in Found(parents[1]) :
              /\ parents'[1][b] = parents[1][b]
              /\ parents[1][b] \in Sources \cup Found(parents[1])
        BY <2>4, <2>5
    <2> QED
        BY <2>3, <2>5, <2>6, ForestGrows, SMTT(60)
<1>3. ASSUME EndAugment PROVE FALSE
    BY <1>3 DEF EndAugment
<1>4. ASSUME parents' = parents PROVE Forest(parents'[1], Sources)
    BY <1>4 DEF ForestInv
<1> QED
    BY <1>1, <1>2, <1>3, <1>4
    DEF Next, EndStage, NoPath, PathFound, StepBack, PathFlow, AugmentEdge, ReachVisit, Results,
        Done, vars, search

LEMMA StepBackSimple ==
    ASSUME IInv, ForestInv, SimpleInv, n = 2, StepBack
    PROVE  SimpleInv'
<1> DEFINE p == parents[1]
<1>1. /\ pc = "rebuild" /\ k \in 1..(n - 1)
      /\ path \in Seq(LNode) /\ v \in LNode /\ v \in Found(parents[k])
      /\ v' = parents[k][v] /\ path' = <<v>> \o path
      /\ k' = IF v' \in reached[k] THEN k - 1 ELSE k
      /\ Len(path') = Len(path) + 1 /\ Len(path) \in Nat
    BY StepBackEffect
<1>2. pc' = pc /\ UNCHANGED <<in, parents>>
    BY DEF StepBack, search
<1>3. k = 1 /\ Len(parents) = 1 /\ reached[1] = Sources
    BY <1>1, TwoSets
<1>4. /\ Follows(p, Sources, path, v) /\ v \notin Sources /\ Injective(path)
      /\ \A i \in 1..Len(path) : path[i] # v
    BY <1>1, <1>3 DEF SimpleInv
<1>5. Forest(p, Sources)
    BY <1>3 DEF ForestInv
<1> HIDE DEF p
<1>6. v \in Found(p) \ Sources /\ v' = p[v]
    BY <1>1, <1>3, <1>4 DEF p
<1>7. path' \in Seq(LNode) /\ Follows(p, Sources, path', v')
    <2>1. Follows(p, Sources, <<v>> \o path, p[v])
        BY <1>1, <1>4, <1>6, FollowsPrepend
    <2>2. <<v>> \o path \in Seq(LNode)
        BY <1>1, Prepend
    <2> QED
        BY <1>1, <1>6, <2>1, <2>2
<1>8. Injective(path')
    BY <1>1, <1>4, InjectivePrepend
<1>9. ASSUME NEW i \in 1..Len(path'), path'[i] = v' PROVE FALSE
    BY <1>5, <1>7, <1>9, NoReturn
<1>10. k' > 0 <=> v' \notin Sources
    BY <1>1, <1>3
<1>11. p = parents'[1] /\ Sources' = Sources
    BY <1>2 DEF p, Sources
<1> QED
    BY <1>1, <1>2, <1>7, <1>8, <1>9, <1>10, <1>11 DEF SimpleInv

LEMMA SimpleStep == ASSUME IInv, ForestInv, SimpleInv, [Next]_vars PROVE SimpleInv'
<1> SUFFICES ASSUME n = 2 PROVE SimpleInv'
    BY SameConstants DEF SimpleInv
<1>1. ASSUME NEW t \in LNode, PathFound(t) PROVE SimpleInv'
    <2>1. /\ pc = "stage" /\ pc' = "rebuild" /\ Len(parents) = n - 1 /\ t \in S
          /\ reached' = Append(reached, S)
          /\ v' = t /\ k' = n - 1 /\ UNCHANGED <<in, parents, path>>
        BY <1>1 DEF PathFound
    <2>2. t \in Way(in.st, 2)
        BY <2>1, LastSources
    <2>3. t \notin Sources
        BY <2>2, WayLevel DEF Sources
    <2>4. path' = <<>>
        BY <2>1 DEF IInv, PathInv
    <2>5. Sources' = Sources
        BY <2>1 DEF Sources
    <2> QED
        BY <2>1, <2>3, <2>4, <2>5 DEF SimpleInv, Follows, Injective
<1>2. ASSUME StepBack PROVE SimpleInv'
    BY <1>2, StepBackSimple
<1>3. ASSUME PathFlow PROVE SimpleInv'
    <2>1. /\ pc = "rebuild" /\ pc' = "augment"
          /\ path \in Seq(LNode) /\ v \in LNode /\ path' = <<v>> \o path
        BY <1>3, PathFlowEffect DEF PathFlow
    <2>2. Injective(path) /\ \A i \in 1..Len(path) : path[i] # v
        BY <2>1 DEF SimpleInv
    <2>3. Injective(path')
        BY <2>1, <2>2, InjectivePrepend
    <2> QED
        BY <2>1, <2>3 DEF SimpleInv
<1>4. ASSUME AugmentEdge PROVE SimpleInv'
    BY <1>4 DEF AugmentEdge, SimpleInv
<1>5. ASSUME pc' \notin {"rebuild", "augment"} PROVE SimpleInv'
    BY <1>5 DEF SimpleInv
<1>6. ASSUME UNCHANGED vars PROVE SimpleInv'
    BY <1>6, SameConstants DEF vars, search, rebuild, augment, SimpleInv
<1>7. ASSUME StartStage \/ EndStage \/ NoPath \/ EndAugment \/ Results PROVE pc' \notin {"rebuild", "augment"}
    BY <1>7 DEF StartStage, EndStage, NoPath, EndAugment, Results
<1>8. ASSUME NEW u \in LNode, Visit(u) \/ ReachVisit(u) PROVE pc' \notin {"rebuild", "augment"}
    BY <1>8 DEF Visit, ReachVisit
<1> QED
    BY <1>1, <1>2, <1>3, <1>4, <1>5, <1>6, <1>7, <1>8 DEF Next, Done

-----------------------------------------------------------------------------
(* STs of two waypoint sets: flow is neither made nor lost.                 *)

LEMMA BalanceBounds ==
    ASSUME WeightsFit, IInv, in \in Inputs, BalanceInv, n = 2,
           NEW a \in LNode, NEW b \in LNode, a # b
    PROVE  /\ ResG[<<a, b>>] \in Nat /\ ResG[<<b, a>>] \in Nat
           /\ ResG[<<a, b>>] + ResG[<<b, a>>] < MaxWeight
<1>1. LNode = LNodes(Len(in.st)) /\ G = Layered(in)
    BY Basics DEF IInv, TypeOK, ResidualInv
<1>2. G[<<a, b>>] + G[<<b, a>>] < MaxWeight
    BY <1>1, LayeredFits
<1>3. ResG[<<a, b>>] \in Nat /\ ResG[<<b, a>>] \in Nat
    BY DEF IInv, TypeOK, Weight
<1> QED
    BY <1>2, <1>3 DEF BalanceInv

LEMMA PathFlowBalance ==
    ASSUME WeightsFit, IInv, in \in Inputs, SimpleInv', BalanceInv, n = 2, PathFlow
    PROVE  BalanceInv'
<1>1. /\ pc' = "augment" /\ UNCHANGED <<in, G, ResG>> /\ LNode' = LNode /\ n' = n
    BY DEF PathFlow, n, LNode
<1>2. /\ e' = 1 /\ path' \in Seq(LNode) /\ Len(path') >= 2 /\ Len(path') \in Nat
      /\ \A i \in 1..(Len(path') - 1) : path_flow' <= ResG[<<path'[i], path'[i + 1]>>]
    <2>1. e' = 1 /\ path' \in Seq(LNode)
        BY PathFlowEffect
    <2>2. Len(path') = Len(path) + 1 /\ Len(path) \in Nat /\ Len(path) >= 1
        BY PathFlowEffect
    <2>3. \A i \in 1..(Len(path') - 1) : path_flow' <= ResG[<<path'[i], path'[i + 1]>>]
        BY PathFlowEffect
    <2> QED
        BY <2>1, <2>2, <2>3
<1>3. path'[1] # path'[2] /\ path'[1] \in LNode /\ path'[2] \in LNode
    BY <1>1, <1>2 DEF SimpleInv, Injective
<1>4. /\ ResG[<<path'[1], path'[2]>>] \in Nat /\ ResG[<<path'[2], path'[1]>>] \in Nat
      /\ ResG[<<path'[1], path'[2]>>] + ResG[<<path'[2], path'[1]>>] < MaxWeight
    BY <1>3, BalanceBounds
<1>5. path_flow' < MaxWeight
    <2>1. path_flow' <= ResG[<<path'[1], path'[1 + 1]>>]
        <3>1. 1 \in 1..(Len(path') - 1)
            BY <1>2
        <3> QED
            BY <1>2, <3>1
    <2>2. path_flow' \in Int /\ MaxWeight \in Int
        <3>1. \E i \in 1..(Len(path') - 1) : path_flow' = ResG[<<path'[i], path'[i + 1]>>]
            BY PathFlowEffect
        <3>2. \A i \in 1..(Len(path') - 1) : path'[i] \in LNode /\ path'[i + 1] \in LNode
            BY <1>2
        <3> QED
            BY <3>1, <3>2, WidthAssumption DEF IInv, TypeOK, Weight
    <2>3. path'[1 + 1] = path'[2]
        OBVIOUS
    <2> QED
        BY <1>4, <2>1, <2>2, <2>3
<1>6. \A a, b \in LNode : a # b =>
          ResG[<<a, b>>] + ResG[<<b, a>>] = G[<<a, b>>] + G[<<b, a>>]
    BY DEF BalanceInv
<1> QED
    BY <1>1, <1>2, <1>5, <1>6 DEF BalanceInv

\* The residual weights of the edge of the path change as in the integers.
LEMMA AugmentEdgeEffect ==
    ASSUME WeightsFit, IInv, in \in Inputs, SimpleInv, BalanceInv, n = 2, AugmentEdge
    PROVE  /\ pc = "augment" /\ pc' = "augment" /\ e \in 1..(Len(path) - 1) /\ e' = e + 1
           /\ path \in Seq(LNode) /\ path' = path /\ path_flow' = path_flow /\ path_flow \in Nat
           /\ path[e] \in LNode /\ path[e + 1] \in LNode /\ path[e] # path[e + 1]
           /\ ResG'[<<path[e], path[e + 1]>>] = ResG[<<path[e], path[e + 1]>>] - path_flow
           /\ ResG'[<<path[e + 1], path[e]>>] = ResG[<<path[e + 1], path[e]>>] + path_flow
           /\ \A h \in LNode \X LNode :
                 h # <<path[e], path[e + 1]>> /\ h # <<path[e + 1], path[e]>> =>
                     ResG'[h] = ResG[h]
<1> DEFINE x == path[e]
           y == path[e + 1]
<1>1. /\ pc = "augment" /\ pc' = "augment" /\ e < Len(path) /\ e' = e + 1
      /\ ResG' = [ResG EXCEPT ![<<x, y>>] = (@ - path_flow) % (MaxWeight + 1),
                              ![<<y, x>>] = (@ + path_flow) % (MaxWeight + 1)]
      /\ UNCHANGED <<in, G, path, path_flow>> /\ LNode' = LNode /\ n' = n
    BY DEF AugmentEdge, n, LNode
<1>2. /\ path \in Seq(LNode) /\ e \in 1..(Len(path) - 1) /\ e \in Nat /\ Len(path) \in Nat
      /\ path_flow \in Nat /\ MaxWeight \in Nat
      /\ ResG \in [LNode \X LNode -> Weight]
    <2>1. path \in Seq(LNode) /\ e \in Nat /\ e >= 1
        BY <1>1 DEF IInv, TypeOK, PathInv
    <2>2. Len(path) \in Nat /\ e \in 1..(Len(path) - 1)
        BY <1>1, <2>1
    <2>3. path_flow \in Nat /\ MaxWeight \in Nat
        BY WidthAssumption DEF IInv, TypeOK, Weight
    <2>4. ResG \in [LNode \X LNode -> Weight]
        BY DEF IInv, TypeOK
    <2> QED
        BY <2>1, <2>2, <2>3, <2>4
<1>3. x \in LNode /\ y \in LNode /\ x # y
    <2>1. e \in 1..Len(path) /\ e + 1 \in 1..Len(path) /\ e < e + 1
        BY <1>2
    <2>2. Injective(path)
        BY <1>1 DEF SimpleInv
    <2> QED
        BY <1>2, <2>1, <2>2 DEF Injective
<1>4. /\ ResG[<<x, y>>] \in Nat /\ ResG[<<y, x>>] \in Nat
      /\ ResG[<<x, y>>] + ResG[<<y, x>>] < MaxWeight
    BY <1>3, BalanceBounds
<1>5. path_flow <= ResG[<<x, y>>]
    BY <1>1, <1>2 DEF BalanceInv
<1> HIDE DEF x, y
<1>6. /\ (ResG[<<x, y>>] - path_flow) % (MaxWeight + 1) = ResG[<<x, y>>] - path_flow
      /\ (ResG[<<y, x>>] + path_flow) % (MaxWeight + 1) = ResG[<<y, x>>] + path_flow
    <2>1. PICK r \in Nat, q \in Nat, m \in Nat \ {0} :
              r = ResG[<<x, y>>] - path_flow /\ q = ResG[<<y, x>>] + path_flow /\ m = MaxWeight + 1
        BY <1>2, <1>4, <1>5
    <2>2. r < m /\ q < m
        BY <1>2, <1>4, <1>5, <2>1
    <2>3. r % m = r /\ q % m = q
        BY <2>2, ModSmall
    <2> QED
        BY <2>1, <2>3
<1>7. <<x, y>> # <<y, x>> /\ <<x, y>> \in LNode \X LNode /\ <<y, x>> \in LNode \X LNode
    BY <1>3
<1>8. /\ ResG'[<<x, y>>] = ResG[<<x, y>>] - path_flow
      /\ ResG'[<<y, x>>] = ResG[<<y, x>>] + path_flow
      /\ \A h \in LNode \X LNode : h # <<x, y>> /\ h # <<y, x>> => ResG'[h] = ResG[h]
    BY <1>1, <1>2, <1>6, <1>7
<1> QED
    BY <1>1, <1>2, <1>3, <1>8 DEF x, y

LEMMA AugmentEdgeBalance ==
    ASSUME WeightsFit, IInv, in \in Inputs, SimpleInv, BalanceInv, n = 2, AugmentEdge
    PROVE  BalanceInv'
<1> DEFINE x == path[e]
           y == path[e + 1]
<1>1. /\ pc = "augment" /\ pc' = "augment" /\ e' = e + 1 /\ path' = path
      /\ path_flow' = path_flow /\ G' = G /\ LNode' = LNode
    BY AugmentEdgeEffect DEF AugmentEdge, LNode, n
<1>2. path \in Seq(LNode) /\ e \in 1..(Len(path) - 1) /\ Len(path) \in Nat /\ path_flow \in Nat
    BY AugmentEdgeEffect
<1>3. x \in LNode /\ y \in LNode /\ x # y
    BY AugmentEdgeEffect
<1>4. ResG[<<x, y>>] \in Nat /\ ResG[<<y, x>>] \in Nat
    BY <1>3, BalanceBounds
<1>5. /\ ResG'[<<x, y>>] = ResG[<<x, y>>] - path_flow
      /\ ResG'[<<y, x>>] = ResG[<<y, x>>] + path_flow
      /\ \A h \in LNode \X LNode : h # <<x, y>> /\ h # <<y, x>> => ResG'[h] = ResG[h]
    BY AugmentEdgeEffect
<1> HIDE DEF x, y
<1>6. ASSUME NEW a \in LNode, NEW b \in LNode, a # b
      PROVE  ResG'[<<a, b>>] + ResG'[<<b, a>>] = G[<<a, b>>] + G[<<b, a>>]
    <2>1. ResG[<<a, b>>] + ResG[<<b, a>>] = G[<<a, b>>] + G[<<b, a>>]
        BY <1>6 DEF BalanceInv
    <2>2. CASE a = x /\ b = y
        BY <1>2, <1>4, <1>5, <2>1, <2>2
    <2>3. CASE a = y /\ b = x
        BY <1>2, <1>4, <1>5, <2>1, <2>3
    <2>4. CASE ~(a = x /\ b = y) /\ ~(a = y /\ b = x)
        <3>1. ResG'[<<a, b>>] = ResG[<<a, b>>] /\ ResG'[<<b, a>>] = ResG[<<b, a>>]
            BY <1>5, <2>4
        <3> QED
            BY <2>1, <3>1
    <2> QED
        BY <2>2, <2>3, <2>4
<1>7. ASSUME NEW i \in (e + 1)..(Len(path) - 1)
       PROVE  path_flow <= ResG'[<<path[i], path[i + 1]>>]
    <2>1. /\ i \in e..(Len(path) - 1) /\ i \in 1..Len(path) /\ i + 1 \in 1..Len(path)
          /\ e \in 1..Len(path) /\ e < i /\ e < i + 1
        BY <1>2
    <2>2. path[e] # path[i] /\ path[e] # path[i + 1]
        BY <1>1, <2>1 DEF SimpleInv, Injective
    <2>3. <<path[i], path[i + 1]>> # <<x, y>> /\ <<path[i], path[i + 1]>> # <<y, x>>
        BY <2>2 DEF x
    <2>4. path[i] \in LNode /\ path[i + 1] \in LNode
        BY <1>2, <2>1
    <2>5. path_flow <= ResG[<<path[i], path[i + 1]>>]
        BY <1>1, <2>1 DEF BalanceInv
    <2> QED
        BY <1>5, <2>3, <2>4, <2>5
<1>8. path_flow < MaxWeight
    BY <1>1 DEF BalanceInv
<1>9. \A i \in e'..(Len(path') - 1) : path_flow' <= ResG'[<<path'[i], path'[i + 1]>>]
    BY <1>1, <1>7
<1>10. \A a, b \in LNode : a # b =>
          ResG'[<<a, b>>] + ResG'[<<b, a>>] = G[<<a, b>>] + G[<<b, a>>]
    BY <1>6
<1>11. path_flow' < MaxWeight
    BY <1>1, <1>8
<1>12. G' = G /\ LNode' = LNode
    BY <1>1
<1> QED
    BY <1>9, <1>10, <1>11, <1>12 DEF BalanceInv

LEMMA BalanceStep ==
    ASSUME WeightsFit, IInv, in \in Inputs, SimpleInv, SimpleInv', BalanceInv, [Next]_vars
    PROVE  BalanceInv'
<1> SUFFICES ASSUME n = 2 PROVE BalanceInv'
    BY SameConstants DEF BalanceInv
<1>1. ASSUME pc' # "augment", UNCHANGED ResG PROVE BalanceInv'
    BY <1>1, SameConstants DEF BalanceInv
<1>2. ASSUME UNCHANGED vars PROVE BalanceInv'
    BY <1>2, SameConstants DEF vars, augment, BalanceInv
<1>3. ASSUME StartStage \/ EndStage \/ NoPath \/ StepBack \/ EndAugment \/ Results
      PROVE  pc' # "augment" /\ UNCHANGED ResG
    BY <1>3 DEF StartStage, EndStage, NoPath, StepBack, EndAugment, Results
<1>4. ASSUME NEW u \in LNode, Visit(u) \/ PathFound(u) \/ ReachVisit(u)
      PROVE  pc' # "augment" /\ UNCHANGED ResG
    BY <1>4 DEF Visit, PathFound, ReachVisit
<1> QED
    BY <1>1, <1>2, <1>3, <1>4, PathFlowBalance, AugmentEdgeBalance DEF Next, Done

LEMMA BalanceHolds ==
    ASSUME WeightsFit PROVE Spec => [](IInv /\ in \in Inputs /\ FlowInv /\ SimpleInv /\ BalanceInv)
<1> DEFINE All == IInv /\ in \in Inputs /\ FlowInv /\ ForestInv /\ SimpleInv /\ BalanceInv
<1>1. Init => All
    BY InitInv, FlowInit DEF Init, ForestInv, SimpleInv, BalanceInv
<1>2. All /\ [Next]_vars => All'
    <2> SUFFICES ASSUME All, [Next]_vars PROVE All'
        OBVIOUS
    <2>1. IInv' /\ FlowInv' /\ ForestInv' /\ SimpleInv'
        BY NextInv, FlowStep, ForestStep, SimpleStep
    <2>2. in' \in Inputs
        BY SameConstants
    <2>3. BalanceInv'
        BY <2>1, BalanceStep
    <2> QED
        BY <2>1, <2>2, <2>3
<1> QED
    BY <1>1, <1>2, PTL DEF Spec

\* For STs of two waypoint sets, flow is moved from an edge to its reverse and is
\* never made or lost by unsigned arithmetic.
THEOREM ResidualExact == WeightsFit => (Spec => []ResidualBalance)
<1> SUFFICES ASSUME WeightsFit PROVE Spec => []ResidualBalance
    OBVIOUS
<1>1. BalanceInv => ResidualBalance
    BY DEF BalanceInv, ResidualBalance
<1> QED
    BY <1>1, BalanceHolds, PTL

\* For STs of two waypoint sets, both halves of the assertion about the flow of
\* a path hold.
THEOREM NoAssertionFails == WeightsFit => (Spec => [](n = 2 => FlowAssert))
<1> SUFFICES ASSUME WeightsFit PROVE Spec => [](n = 2 => FlowAssert)
    OBVIOUS
<1>1. FlowInv /\ BalanceInv => (n = 2 => FlowAssert)
    BY DEF FlowInv, BalanceInv, FlowAssert
<1> QED
    BY <1>1, BalanceHolds, PTL

-----------------------------------------------------------------------------
(* Sums of weights (MapThenSumSet): they do not depend on the order in      *)
(* which the elements are taken.                                            *)

LEMMA LeastNatural ==
    ASSUME NEW T \in SUBSET Nat, T # {}
    PROVE  \E x \in T : \A y \in T : x <= y
<1> DEFINE Less == OpToRel(<, Nat)
<1>1. \A x, y \in Nat : y < x => <<y, x>> \in Less
    BY DEF OpToRel
<1>2. IsWellFoundedOn(Less, Nat)
    BY NatLessThanWellFounded
<1> HIDE DEF Less
<1>3. PICK x \in T : \A y \in T : ~(<<y, x>> \in Less)
    BY <1>2, WFMin
<1>4. ASSUME NEW y \in T PROVE x <= y
    <2>1. x \in Nat /\ y \in Nat
        OBVIOUS
    <2>2. ~(y < x)
        BY <1>1, <1>3, <2>1
    <2> QED
        BY <2>1, <2>2
<1> QED
    BY <1>4

\* What holds of a finite set if it holds of its proper subsets holds of all.
LEMMA SubsetInduction ==
    ASSUME NEW U, IsFiniteSet(U), NEW Good,
           \A s \in SUBSET U : (\A t \in SUBSET s : t # s => t \in Good) => s \in Good
    PROVE  SUBSET U \subseteq Good
<1> DEFINE Bad == {s \in SUBSET U : s \notin Good}
           Sizes == {Cardinality(s) : s \in Bad}
<1> SUFFICES ASSUME Bad # {} PROVE FALSE
    OBVIOUS
<1>1. \A s \in SUBSET U : IsFiniteSet(s) /\ Cardinality(s) \in Nat
    BY FS_Subset, FS_CardinalityType
<1>2. Sizes \in SUBSET Nat /\ Sizes # {}
    BY <1>1
<1>3. PICK m \in Sizes : \A y \in Sizes : m <= y
    <2> HIDE DEF Sizes
    <2> QED
        BY <1>2, LeastNatural
<1>4. PICK s \in Bad : m = Cardinality(s)
    BY <1>3
<1>5. ASSUME NEW t \in SUBSET s, t # s PROVE t \in Good
    <2>1. IsFiniteSet(s) /\ t \in SUBSET U
        BY <1>1
    <2>2. Cardinality(t) <= Cardinality(s) /\ Cardinality(t) # Cardinality(s)
        BY <1>5, <2>1, FS_Subset
    <2>3. Cardinality(t) \in Nat /\ Cardinality(s) \in Nat
        BY <1>1, <2>1
    <2>4. t \in Bad => Cardinality(s) <= Cardinality(t)
        BY <1>3, <1>4
    <2> QED
        BY <2>1, <2>2, <2>3, <2>4
<1> QED
    BY <1>5

Pick(s) == CHOOSE x \in s : TRUE

\* g sums up w over the subsets of C in the way of MapThenFoldSet.
Summing(w, C, g) ==
    g = [s \in SUBSET C |-> IF s = {} THEN 0 ELSE w[Pick(s)] + g[s \ {Pick(s)}]]

LEMMA WeightIsSumming ==
    ASSUME NEW w, NEW C
    PROVE  WeightOf(w, C) = (CHOOSE g : Summing(w, C, g))[C]
BY DEF WeightOf, MapThenSumSet, MapThenFoldSet, Summing, Pick

LEMMA PickIn == ASSUME NEW s, s # {} PROVE Pick(s) \in s
BY DEF Pick

LEMMA SummingIs ==
    ASSUME NEW w, NEW C, NEW g, Summing(w, C, g), NEW s \in SUBSET C
    PROVE  g[s] = IF s = {} THEN 0 ELSE w[Pick(s)] + g[s \ {Pick(s)}]
BY DEF Summing

LEMMA SummingAgree ==
    ASSUME NEW w, NEW U, IsFiniteSet(U), NEW C, NEW D, U \subseteq C, U \subseteq D,
           NEW g, NEW h, Summing(w, C, g), Summing(w, D, h)
    PROVE  g[U] = h[U]
<1> DEFINE Good == {s \in SUBSET U : g[s] = h[s]}
<1>1. ASSUME NEW s \in SUBSET U, \A t \in SUBSET s : t # s => t \in Good
      PROVE  s \in Good
    <2>1. s \in SUBSET C /\ s \in SUBSET D
        OBVIOUS
    <2>2. /\ g[s] = IF s = {} THEN 0 ELSE w[Pick(s)] + g[s \ {Pick(s)}]
          /\ h[s] = IF s = {} THEN 0 ELSE w[Pick(s)] + h[s \ {Pick(s)}]
        BY <2>1, SummingIs
    <2>3. s # {} => g[s \ {Pick(s)}] = h[s \ {Pick(s)}]
        BY <1>1, PickIn
    <2> QED
        BY <2>2, <2>3
<1>2. SUBSET U \subseteq Good
    <2> HIDE DEF Good
    <2> QED
        BY <1>1, SubsetInduction
<1> QED
    BY <1>2

\* The recursion that MapThenFoldSet stands for.
LEMMA WeightUnfolds ==
    ASSUME NEW w, NEW U, IsFiniteSet(U)
    PROVE  \A s \in SUBSET U :
              WeightOf(w, s) = IF s = {} THEN 0
                               ELSE w[Pick(s)] + WeightOf(w, s \ {Pick(s)})
<1> DEFINE Body(s) == IF s = {} THEN 0 ELSE w[Pick(s)] + WeightOf(w, s \ {Pick(s)})
           Good == {s \in SUBSET U :
                       (\E g : Summing(w, s, g)) /\ WeightOf(w, s) = Body(s)}
<1>1. ASSUME NEW s \in SUBSET U, \A t \in SUBSET s : t # s => t \in Good
      PROVE  s \in Good
    <2> DEFINE h == [t \in SUBSET s |-> Body(t)]
    <2>1. s # {} => Pick(s) \in s /\ s \ {Pick(s)} \in SUBSET s /\ s \ {Pick(s)} # s
        BY PickIn
    <2>2. ASSUME NEW t \in SUBSET s, t # s PROVE h[t] = WeightOf(w, t)
        BY <1>1, <2>2
    <2>3. ASSUME NEW t \in SUBSET s, t # {} PROVE h[t \ {Pick(t)}] = WeightOf(w, t \ {Pick(t)})
        <3>1. t \ {Pick(t)} \in SUBSET s /\ t \ {Pick(t)} # s
            BY <2>3, PickIn
        <3> HIDE DEF h
        <3> QED
            BY <2>2, <3>1
    <2>4. h = [t \in SUBSET s |-> IF t = {} THEN 0 ELSE w[Pick(t)] + h[t \ {Pick(t)}]]
        <3>1. \A t \in SUBSET s : Body(t) = IF t = {} THEN 0 ELSE w[Pick(t)] + h[t \ {Pick(t)}]
            BY <2>3
        <3> QED
            BY <3>1, Zenon
    <2>5. Summing(w, s, h)
        BY <2>4 DEF Summing
    <2> HIDE DEF h
    <2>6. PICK g : g = (CHOOSE q : Summing(w, s, q)) /\ Summing(w, s, g)
        BY <2>5
    <2>7. WeightOf(w, s) = g[s]
        BY <2>6, WeightIsSumming
    <2>8. IsFiniteSet(s)
        BY FS_Subset
    <2>9. g[s] = h[s]
        BY <2>5, <2>6, <2>8, SummingAgree
    <2>10. h[s] = Body(s)
        BY DEF h
    <2> HIDE DEF Body
    <2> QED
        BY <2>5, <2>7, <2>9, <2>10
<1>2. SUBSET U \subseteq Good
    <2> HIDE DEF Good
    <2> QED
        BY <1>1, SubsetInduction
<1> QED
    BY <1>2

\* Weights are integers, and any element can be taken first.
LEMMA SumTake ==
    ASSUME NEW X, NEW w \in [X -> Int], NEW U \in SUBSET X, IsFiniteSet(U)
    PROVE  /\ WeightOf(w, {}) = 0
           /\ \A s \in SUBSET U :
                  /\ WeightOf(w, s) \in Int
                  /\ \A x \in s : WeightOf(w, s) = w[x] + WeightOf(w, s \ {x})
<1> DEFINE W(s) == WeightOf(w, s)
           Good == {s \in SUBSET U : W(s) \in Int /\ \A x \in s : W(s) = w[x] + W(s \ {x})}
<1>1. \A s \in SUBSET U : W(s) = IF s = {} THEN 0 ELSE w[Pick(s)] + W(s \ {Pick(s)})
    BY WeightUnfolds
<1>2. W({}) = 0
    BY <1>1
<1> HIDE DEF W
<1>3. ASSUME NEW s \in SUBSET U, \A t \in SUBSET s : t # s => t \in Good
      PROVE  s \in Good
    <2>1. CASE s = {}
        BY <1>2, <2>1
    <2>2. CASE s # {}
        <3>1. PICK c \in s : c = Pick(s)
            BY <2>2, PickIn
        <3>2. W(s) = w[c] + W(s \ {c})
            BY <1>1, <2>2, <3>1
        <3>3. s \ {c} \in Good
            BY <1>3, <3>1
        <3>4. W(s) \in Int
            BY <3>2, <3>3
        <3>5. ASSUME NEW x \in s, x # c PROVE W(s) = w[x] + W(s \ {x})
            <4>1. s \ {x} \in Good /\ x \in s \ {c} /\ c \in s \ {x}
                BY <1>3, <3>5
            <4>2. W(s \ {c}) = w[x] + W((s \ {c}) \ {x})
                BY <3>3, <4>1
            <4>3. W(s \ {x}) = w[c] + W((s \ {x}) \ {c})
                BY <4>1
            <4>4. (s \ {c}) \ {x} = (s \ {x}) \ {c} /\ (s \ {c}) \ {x} \in Good
                BY <1>3, <3>5
            <4>5. PICK rest \in Int : rest = W((s \ {c}) \ {x})
                BY <4>4
            <4>6. w[c] \in Int /\ w[x] \in Int
                OBVIOUS
            <4>7. W(s) = w[c] + (w[x] + rest) /\ W(s \ {x}) = w[c] + rest
                BY <3>2, <4>2, <4>3, <4>4, <4>5
            <4> QED
                BY <4>6, <4>7
        <3> QED
            BY <3>2, <3>4, <3>5
    <2> QED
        BY <2>1, <2>2
<1>4. SUBSET U \subseteq Good
    <2> HIDE DEF Good
    <2> QED
        BY <1>3, SubsetInduction
<1> QED
    BY <1>2, <1>4 DEF W

\* An integer sum of two parts.
LEMMA SumSplit ==
    ASSUME NEW X, NEW w \in [X -> Int], NEW U \in SUBSET X, IsFiniteSet(U)
    PROVE  \A D \in SUBSET U : WeightOf(w, U) = WeightOf(w, D) + WeightOf(w, U \ D)
<1> SUFFICES ASSUME NEW D \in SUBSET U
             PROVE  WeightOf(w, U) = WeightOf(w, D) + WeightOf(w, U \ D)
    OBVIOUS
<1> DEFINE W(s) == WeightOf(w, s)
           Good == {s \in SUBSET U : W(s) = W(s \cap D) + W(s \ D)}
<1>1. /\ W({}) = 0
      /\ \A s \in SUBSET U : W(s) \in Int /\ \A x \in s : W(s) = w[x] + W(s \ {x})
    BY SumTake
<1> HIDE DEF W
<1>2. ASSUME NEW s \in SUBSET U, \A t \in SUBSET s : t # s => t \in Good
      PROVE  s \in Good
    <2>1. CASE s = {}
        <3>1. s \cap D = {} /\ s \ D = {}
            BY <2>1
        <3> QED
            BY <1>1, <2>1, <3>1
    <2>2. ASSUME NEW x \in s PROVE s \in Good
        <3>1. s \ {x} \in Good
            BY <1>2
        <3>2. PICK a \in Int, b \in Int :
                  a = W((s \ {x}) \cap D) /\ b = W((s \ {x}) \ D)
            BY <1>1
        <3>3. W(s) = w[x] + (a + b) /\ w[x] \in Int
            BY <1>1, <3>1, <3>2
        <3>4. CASE x \in D
            <4>1. (s \cap D) \ {x} = (s \ {x}) \cap D /\ s \ D = (s \ {x}) \ D
                BY <3>4
            <4>2. s \cap D \in SUBSET U /\ x \in s \cap D
                BY <3>4
            <4>3. W(s \cap D) = w[x] + W((s \cap D) \ {x})
                BY <1>1, <4>2
            <4>4. W(s \cap D) = w[x] + a /\ W(s \ D) = b
                BY <3>2, <4>1, <4>3
            <4> QED
                BY <3>3, <4>4
        <3>5. CASE x \notin D
            <4>1. (s \ D) \ {x} = (s \ {x}) \ D /\ s \cap D = (s \ {x}) \cap D
                BY <3>5
            <4>2. s \ D \in SUBSET U /\ x \in s \ D
                BY <3>5
            <4>3. W(s \ D) = w[x] + W((s \ D) \ {x})
                BY <1>1, <4>2
            <4>4. W(s \ D) = w[x] + b /\ W(s \cap D) = a
                BY <3>2, <4>1, <4>3
            <4> QED
                BY <3>3, <4>4
        <3> QED
            BY <3>4, <3>5
    <2> QED
        BY <2>1, <2>2
<1>3. SUBSET U \subseteq Good
    <2> HIDE DEF Good
    <2> QED
        BY <1>2, SubsetInduction
<1>4. U \cap D = D
    OBVIOUS
<1> QED
    BY <1>3, <1>4 DEF W

\* A sum over other weights that are found by an injection m.
LEMMA SumInjection ==
    ASSUME NEW X, NEW w \in [X -> Int], NEW U \in SUBSET X, IsFiniteSet(U),
           NEW Y, NEW u \in [Y -> Int], NEW m \in [U -> Y],
           \A x \in U : u[m[x]] = w[x],
           \A x, y \in U : m[x] = m[y] => x = y,
           IsFiniteSet({m[x] : x \in U})
    PROVE  WeightOf(u, {m[x] : x \in U}) = WeightOf(w, U)
<1> DEFINE W(s) == WeightOf(w, s)
           V(s) == WeightOf(u, s)
           Image(s) == {m[x] : x \in s}
           Good == {s \in SUBSET U : V(Image(s)) = W(s)}
<1>1. /\ W({}) = 0
      /\ \A s \in SUBSET U : W(s) \in Int /\ \A x \in s : W(s) = w[x] + W(s \ {x})
    BY SumTake
<1>2. /\ V({}) = 0
      /\ \A s \in SUBSET Image(U) : V(s) \in Int /\ \A x \in s : V(s) = u[x] + V(s \ {x})
    <2>1. Image(U) \in SUBSET Y
        OBVIOUS
    <2> QED
        BY <2>1, SumTake
<1> HIDE DEF W, V
<1>3. ASSUME NEW s \in SUBSET U, \A t \in SUBSET s : t # s => t \in Good
      PROVE  s \in Good
    <2>1. CASE s = {}
        <3>1. Image(s) = {}
            BY <2>1
        <3> QED
            BY <1>1, <1>2, <2>1, <3>1
    <2>2. ASSUME NEW x \in s PROVE s \in Good
        <3>1. s \ {x} \in Good
            BY <1>3
        <3>2. Image(s \ {x}) = Image(s) \ {m[x]} /\ Image(s) \in SUBSET Image(U) /\ m[x] \in Image(s)
            OBVIOUS
        <3>3. V(Image(s)) = u[m[x]] + V(Image(s \ {x}))
            <4> HIDE DEF Image
            <4>1. V(Image(s)) = u[m[x]] + V(Image(s) \ {m[x]})
                BY <1>2, <3>2
            <4> QED
                BY <3>2, <4>1
        <3>4. W(s) = w[x] + W(s \ {x}) /\ u[m[x]] = w[x] /\ V(Image(s \ {x})) = W(s \ {x})
            BY <1>1, <3>1
        <3> QED
            BY <3>3, <3>4
    <2> QED
        BY <2>1, <2>2
<1>4. SUBSET U \subseteq Good
    <2> HIDE DEF Good
    <2> QED
        BY <1>3, SubsetInduction
<1> QED
    BY <1>4 DEF W, V

LEMMA SumSame ==
    ASSUME NEW X, NEW w \in [X -> Int], NEW U \in SUBSET X, IsFiniteSet(U),
           NEW u \in [X -> Int], \A x \in U : u[x] = w[x]
    PROVE  WeightOf(u, U) = WeightOf(w, U)
<1> DEFINE id == [x \in U |-> x]
<1>1. id \in [U -> X] /\ {id[x] : x \in U} = U
    OBVIOUS
<1>2. \A x \in U : u[id[x]] = w[x]
    OBVIOUS
<1>3. \A x, y \in U : id[x] = id[y] => x = y
    OBVIOUS
<1> HIDE DEF id
<1> QED
    BY <1>1, <1>2, <1>3, SumInjection

LEMMA SumChange ==
    ASSUME NEW X, NEW w \in [X -> Int], NEW U \in SUBSET X, IsFiniteSet(U),
           NEW u \in [X -> Int], NEW x \in U, \A y \in U : y # x => u[y] = w[y]
    PROVE  WeightOf(u, U) = WeightOf(w, U) + (u[x] - w[x])
<1>1. U \ {x} \in SUBSET X /\ IsFiniteSet(U \ {x})
    BY FS_Subset
<1>2. WeightOf(u, U \ {x}) = WeightOf(w, U \ {x})
    BY <1>1, SumSame
<1>3. WeightOf(u, U) = u[x] + WeightOf(u, U \ {x}) /\ WeightOf(u, U \ {x}) \in Int
    BY SumTake
<1>4. WeightOf(w, U) = w[x] + WeightOf(w, U \ {x})
    BY SumTake
<1>5. w[x] \in Int /\ u[x] \in Int
    OBVIOUS
<1> QED
    BY <1>2, <1>3, <1>4, <1>5

\* Natural weights: no element weighs more than the whole, nor does a subset.
LEMMA SumNatural ==
    ASSUME NEW X, NEW w \in [X -> Nat], NEW U \in SUBSET X, IsFiniteSet(U)
    PROVE  /\ WeightOf(w, U) \in Nat
           /\ \A x \in U : w[x] <= WeightOf(w, U)
           /\ (\A x \in U : w[x] = 0) => WeightOf(w, U) = 0
<1> DEFINE W(s) == WeightOf(w, s)
           Good == {s \in SUBSET U : W(s) \in Nat /\ ((\A x \in s : w[x] = 0) => W(s) = 0)}
<1>1. /\ W({}) = 0
      /\ \A s \in SUBSET U : \A x \in s : W(s) = w[x] + W(s \ {x})
    <2>1. w \in [X -> Int]
        OBVIOUS
    <2> QED
        BY <2>1, SumTake
<1> HIDE DEF W
<1>2. ASSUME NEW s \in SUBSET U, \A t \in SUBSET s : t # s => t \in Good
      PROVE  s \in Good
    <2>1. CASE s = {}
        BY <1>1, <2>1
    <2>2. ASSUME NEW x \in s PROVE s \in Good
        <3>1. s \ {x} \in Good /\ w[x] \in Nat
            BY <1>2
        <3>2. W(s) = w[x] + W(s \ {x})
            BY <1>1
        <3>3. W(s) \in Nat
            BY <3>1, <3>2
        <3>4. ASSUME \A y \in s : w[y] = 0 PROVE W(s) = 0
            <4>1. w[x] = 0 /\ W(s \ {x}) = 0
                BY <3>1, <3>4
            <4> QED
                BY <3>2, <4>1
        <3> QED
            BY <3>3, <3>4
    <2> QED
        BY <2>1, <2>2
<1>3. SUBSET U \subseteq Good
    <2> HIDE DEF Good
    <2> QED
        BY <1>2, SubsetInduction
<1>4. ASSUME NEW x \in U PROVE w[x] <= W(U)
    <2>1. W(U) = w[x] + W(U \ {x}) /\ W(U \ {x}) \in Nat /\ w[x] \in Nat
        BY <1>1, <1>3
    <2> QED
        BY <2>1
<1>5. U \in Good
    BY <1>3
<1> QED
    BY <1>4, <1>5 DEF W

LEMMA SumSubset ==
    ASSUME NEW X, NEW w \in [X -> Nat], NEW U \in SUBSET X, IsFiniteSet(U), NEW D \in SUBSET U
    PROVE  /\ WeightOf(w, D) \in Nat /\ WeightOf(w, U) \in Nat
           /\ WeightOf(w, D) <= WeightOf(w, U)
           /\ (\A x \in U \ D : w[x] = 0) => WeightOf(w, D) = WeightOf(w, U)
           /\ \A x \in U \ D : WeightOf(w, D) + w[x] <= WeightOf(w, U)
<1>1. w \in [X -> Int] 
    OBVIOUS
<1>2. WeightOf(w, U) = WeightOf(w, D) + WeightOf(w, U \ D)
    BY <1>1, SumSplit
<1>3. IsFiniteSet(D) /\ IsFiniteSet(U \ D)
    BY FS_Subset
<1>4. /\ WeightOf(w, U \ D) \in Nat
      /\ \A x \in U \ D : w[x] <= WeightOf(w, U \ D)
      /\ (\A x \in U \ D : w[x] = 0) => WeightOf(w, U \ D) = 0
    BY <1>3, SumNatural
<1>5. WeightOf(w, D) \in Nat
    BY <1>3, SumNatural
<1>6. \A x \in U \ D : w[x] \in Nat
    OBVIOUS
<1> QED
    BY <1>2, <1>4, <1>5, <1>6

-----------------------------------------------------------------------------
(* STs of two waypoint sets: every set of nodes with the sources and        *)
(* without the waypoints is left by the same net flow.                      *)

\* The weight of the edges that leave L.
Out(W, L) == WeightOf(W, L \X (LNode \ L))

Side(L) == Sources \subseteq L /\ L \cap Way(in.st, 2) = {}

\* The path that is augmented leads from a source to a waypoint.
EndsInv ==
    n = 2 =>
        /\ pc = "rebuild" =>
              /\ path = <<>> => v \in Way(in.st, 2)
              /\ path # <<>> => path[Len(path)] \in Way(in.st, 2)
        /\ pc = "augment" =>
              path[1] \in Sources /\ path[Len(path)] \in Way(in.st, 2) /\ e <= Len(path)

\* What the edge of the path that is augmented next still has to carry out of L.
Unfinished(L) == IF pc = "augment" /\ path[e] \notin L THEN path_flow ELSE 0

CutInv ==
    n = 2 =>
        \E flow \in Int : \A L \in SUBSET LNode :
            Side(L) => Out(ResG, L) + flow + Unfinished(L) = Out(G, L)

\* The final search meets nothing but what the sources reach.
LeastReachInv ==
    \A L \in SUBSET LNode :
        Sources \subseteq L /\ (\A a \in L : Adj(ResG, n, a) \subseteq L) =>
            /\ pc = "reach" => reach \cup Pending(stack) \subseteq L
            /\ pc = "done" => reach \subseteq L

LEMMA FiniteNodes ==
    ASSUME IsInput(in)
    PROVE  IsFiniteSet(LNode) /\ \A L \in SUBSET LNode : IsFiniteSet(L \X (LNode \ L))
<1>1. n \in Nat /\ LNode = (1..n) \X Node
    BY Basics DEF LNode, LNodes
<1>2. IsFiniteSet(1..n)
    BY <1>1, FS_Interval
<1>3. IsFiniteSet(LNode)
    BY <1>1, <1>2, NodeAssumption, FS_Product
<1>4. ASSUME NEW L \in SUBSET LNode PROVE IsFiniteSet(L \X (LNode \ L))
    <2>1. IsFiniteSet(L) /\ IsFiniteSet(LNode \ L)
        BY <1>3, FS_Subset
    <2> QED
        BY <2>1, FS_Product
<1> QED
    BY <1>3, <1>4

\* V is W with flow c moved from <<x, y>> to <<y, x>>.
MovesFlow(N, W, V, x, y, c) ==
    /\ W \in [N \X N -> Int] /\ V \in [N \X N -> Int]
    /\ x \in N /\ y \in N /\ c \in Int
    /\ V[<<x, y>>] = W[<<x, y>>] - c /\ V[<<y, x>>] = W[<<y, x>>] + c
    /\ \A h \in N \X N : h # <<x, y>> /\ h # <<y, x>> => V[h] = W[h]

\* What the edges that leave L gain by it.
Gained(L, x, y, c) == IF x \in L /\ y \notin L THEN -c
                      ELSE IF y \in L /\ x \notin L THEN c ELSE 0

LEMMA MoveFlow ==
    ASSUME NEW N, NEW W, NEW V, NEW x, NEW y, NEW c, MovesFlow(N, W, V, x, y, c),
           NEW L \in SUBSET N, IsFiniteSet(L \X (N \ L))
    PROVE  /\ WeightOf(W, L \X (N \ L)) \in Int
           /\ WeightOf(V, L \X (N \ L)) = WeightOf(W, L \X (N \ L)) + Gained(L, x, y, c)
<1> DEFINE C == L \X (N \ L)
<1>1. C \in SUBSET (N \X N) /\ IsFiniteSet(C)
    OBVIOUS
<1>2. /\ W \in [N \X N -> Int] /\ V \in [N \X N -> Int]
      /\ x \in N /\ y \in N /\ c \in Int
      /\ V[<<x, y>>] = W[<<x, y>>] - c /\ V[<<y, x>>] = W[<<y, x>>] + c
      /\ \A h \in N \X N : h # <<x, y>> /\ h # <<y, x>> => V[h] = W[h]
    BY DEF MovesFlow
<1>3. /\ <<x, y>> \in C <=> x \in L /\ y \notin L
      /\ <<y, x>> \in C <=> y \in L /\ x \notin L
    BY <1>2
<1>4. /\ \A h \in C : h # <<x, y>> /\ h # <<y, x>> => V[h] = W[h]
      /\ W[<<x, y>>] \in Int /\ W[<<y, x>>] \in Int
    BY <1>1, <1>2
<1> HIDE DEF C
<1>5. WeightOf(W, C) \in Int
    BY <1>1, <1>2, SumTake
<1>6. CASE <<x, y>> \in C
    <2>1. <<y, x>> \notin C
        BY <1>3, <1>6
    <2>2. WeightOf(V, C) = WeightOf(W, C) + (V[<<x, y>>] - W[<<x, y>>])
        <3>1. \A h \in C : h # <<x, y>> => V[h] = W[h]
            BY <1>4, <2>1
        <3> QED
            BY <1>1, <1>2, <1>6, <3>1, SumChange
    <2> QED
        BY <1>2, <1>3, <1>4, <1>5, <1>6, <2>2 DEF C, Gained
<1>7. CASE <<y, x>> \in C
    <2>1. <<x, y>> \notin C
        BY <1>3, <1>7
    <2>2. WeightOf(V, C) = WeightOf(W, C) + (V[<<y, x>>] - W[<<y, x>>])
        <3>1. \A h \in C : h # <<y, x>> => V[h] = W[h]
            BY <1>4, <2>1
        <3> QED
            BY <1>1, <1>2, <1>7, <3>1, SumChange
    <2> QED
        BY <1>2, <1>3, <1>4, <1>5, <1>7, <2>2 DEF C, Gained
<1>8. CASE <<x, y>> \notin C /\ <<y, x>> \notin C
    <2>1. \A h \in C : V[h] = W[h]
        BY <1>4, <1>8
    <2>2. WeightOf(V, C) = WeightOf(W, C)
        BY <1>1, <1>2, <2>1, SumSame
    <2> QED
        BY <1>2, <1>3, <1>5, <1>8, <2>2 DEF C, Gained
<1> QED
    BY <1>6, <1>7, <1>8

LEMMA EndsStep ==
    ASSUME IInv, SimpleInv, EndsInv, [Next]_vars PROVE EndsInv'
<1> SUFFICES ASSUME n = 2 PROVE EndsInv'
    BY SameConstants DEF EndsInv
<1>1. Sources' = Sources /\ in' = in
    BY SameConstants
<1>2. ASSUME NEW t \in LNode, PathFound(t) PROVE EndsInv'
    <2>1. /\ pc = "stage" /\ pc' = "rebuild" /\ Len(parents) = n - 1 /\ t \in S
          /\ v' = t /\ path' = path
        BY <1>2 DEF PathFound
    <2>2. t \in Way(in.st, 2)
        <3>1. S = Way(in.st, n) \cap Found(parents[n - 1])
            BY <1>2, <2>1, LastSources DEF PathFound
        <3> QED
            BY <2>1, <3>1
    <2>3. path = <<>>
        BY <2>1 DEF IInv, PathInv
    <2> QED
        BY <1>1, <2>1, <2>2, <2>3 DEF EndsInv
<1>3. ASSUME StepBack PROVE EndsInv'
    <2>1. /\ pc = "rebuild" /\ pc' = "rebuild" /\ path \in Seq(LNode) /\ path' = <<v>> \o path
          /\ Len(path') = Len(path) + 1 /\ Len(path) \in Nat
          /\ path'[1] = v /\ \A i \in 1..Len(path) : path'[i + 1] = path[i]
        BY <1>3, StepBackEffect DEF StepBack
    <2>2. path'[Len(path')] \in Way(in.st, 2)
        <3>1. CASE path = <<>>
            BY <2>1, <3>1 DEF EndsInv
        <3>2. CASE path # <<>>
            <4>1. Len(path) \in 1..Len(path)
                BY <2>1, <3>2
            <4> QED
                BY <2>1, <3>2, <4>1 DEF EndsInv
        <3> QED
            BY <3>1, <3>2
    <2>3. path' # <<>>
        BY <2>1
    <2> QED
        BY <1>1, <2>1, <2>2, <2>3 DEF EndsInv
<1>4. ASSUME PathFlow PROVE EndsInv'
    <2>1. /\ pc = "rebuild" /\ pc' = "augment" /\ k = 0 /\ e' = 1 /\ path # <<>>
          /\ Len(path') = Len(path) + 1 /\ Len(path) \in Nat /\ Len(path) >= 1
          /\ path'[1] = v /\ \A i \in 1..Len(path) : path'[i + 1] = path[i]
        BY <1>4, PathFlowEffect DEF PathFlow
    <2>2. path[Len(path)] \in Way(in.st, 2) /\ v \in Sources
        BY <2>1 DEF EndsInv, SimpleInv
    <2>3. path'[Len(path')] = path[Len(path)]
        <3>1. Len(path) \in 1..Len(path)
            BY <2>1
        <3> QED
            BY <2>1, <3>1
    <2> QED
        BY <1>1, <2>1, <2>2, <2>3 DEF EndsInv
<1>5. ASSUME AugmentEdge PROVE EndsInv'
    <2>1. /\ pc = "augment" /\ pc' = "augment" /\ e < Len(path) /\ e' = e + 1 /\ path' = path
          /\ path \in Seq(LNode) /\ e \in Nat
        BY <1>5 DEF AugmentEdge, IInv, TypeOK
    <2> QED
        BY <1>1, <2>1 DEF EndsInv
<1>6. ASSUME pc' \notin {"rebuild", "augment"} PROVE EndsInv'
    BY <1>6 DEF EndsInv
<1>7. ASSUME UNCHANGED vars PROVE EndsInv'
    BY <1>7, SameConstants DEF vars, rebuild, augment, EndsInv
<1>8. ASSUME StartStage \/ EndStage \/ NoPath \/ EndAugment \/ Results PROVE pc' \notin {"rebuild", "augment"}
    BY <1>8 DEF StartStage, EndStage, NoPath, EndAugment, Results
<1>9. ASSUME NEW u \in LNode, Visit(u) \/ ReachVisit(u) PROVE pc' \notin {"rebuild", "augment"}
    BY <1>9 DEF Visit, ReachVisit
<1> QED
    BY <1>2, <1>3, <1>4, <1>5, <1>6, <1>7, <1>8, <1>9 DEF Next, Done

LEMMA CutStepAugment ==
    ASSUME WeightsFit, IInv, in \in Inputs, SimpleInv, BalanceInv, EndsInv, CutInv, n = 2, AugmentEdge
    PROVE  CutInv'
<1> DEFINE x == path[e]
           y == path[e + 1]
<1>0. [Next]_vars
    BY DEF Next
<1>1. /\ pc = "augment" /\ pc' = "augment" /\ e \in 1..(Len(path) - 1) /\ e' = e + 1
      /\ path \in Seq(LNode) /\ path' = path /\ path_flow' = path_flow /\ path_flow \in Nat
      /\ x \in LNode /\ y \in LNode
      /\ ResG'[<<x, y>>] = ResG[<<x, y>>] - path_flow
      /\ ResG'[<<y, x>>] = ResG[<<y, x>>] + path_flow
      /\ \A h \in LNode \X LNode : h # <<x, y>> /\ h # <<y, x>> => ResG'[h] = ResG[h]
    BY AugmentEdgeEffect
<1>2. path'[e'] = y
    BY <1>1
<1> HIDE DEF x, y
<1>3. ResG \in [LNode \X LNode -> Int] /\ ResG' \in [LNode \X LNode -> Int]
    <2>1. LNode' = LNode
        BY <1>0, SameConstants
    <2>2. Weight \subseteq Int
        BY DEF Weight
    <2>3. ResG \in [LNode \X LNode -> Weight] /\ ResG' \in [LNode \X LNode -> Weight]
        BY <2>1, AugmentEdgeInv DEF IInv, TypeOK
    <2> QED
        BY <2>2, <2>3
<1>8. MovesFlow(LNode, ResG, ResG', x, y, path_flow)
    <2>1. path_flow \in Int
        BY <1>1
    <2> QED
        BY <1>1, <1>3, <2>1 DEF MovesFlow
<1>4. PICK flow \in Int : \A L \in SUBSET LNode :
          Side(L) => Out(ResG, L) + flow + Unfinished(L) = Out(G, L)
    BY DEF CutInv
<1>5. ASSUME NEW L \in SUBSET LNode, Side(L)
      PROVE  Out(ResG', L) + flow + (IF y \notin L THEN path_flow ELSE 0) = Out(G, L)
    <2>1. Out(ResG, L) + flow + (IF x \notin L THEN path_flow ELSE 0) = Out(G, L)
        BY <1>1, <1>4, <1>5 DEF Unfinished, x
    <2>2. IsFiniteSet(L \X (LNode \ L))
        <3>1. IsInput(in)
            BY DEF IInv, TypeOK
        <3> QED
            BY <3>1, FiniteNodes
    <2>3. /\ WeightOf(ResG, L \X (LNode \ L)) \in Int
          /\ WeightOf(ResG', L \X (LNode \ L)) =
                WeightOf(ResG, L \X (LNode \ L)) + Gained(L, x, y, path_flow)
        BY <1>8, <2>2, MoveFlow
    <2>4. PICK a \in Int : a = Out(ResG, L)
        BY <2>3 DEF Out
    <2>5. Out(ResG', L) = a + Gained(L, x, y, path_flow)
        BY <2>3, <2>4 DEF Out
    <2>6. a + flow + (IF x \notin L THEN path_flow ELSE 0) = Out(G, L)
        BY <2>1, <2>4
    <2>7. /\ (IF x \notin L THEN path_flow ELSE 0) \in Int
          /\ Gained(L, x, y, path_flow) + (IF y \notin L THEN path_flow ELSE 0)
                = IF x \notin L THEN path_flow ELSE 0
          /\ Gained(L, x, y, path_flow) \in Int
        BY <1>1 DEF Gained
    <2>8. PICK g \in Int, before \in Int :
              /\ g = Gained(L, x, y, path_flow)
              /\ before = IF x \notin L THEN path_flow ELSE 0
        BY <2>7, Zenon
    <2>9. g + (IF y \notin L THEN path_flow ELSE 0) = before
        BY <2>7, <2>8
    <2>10. a + flow + before = Out(G, L) /\ Out(ResG', L) = a + g
        BY <2>5, <2>6, <2>8
    <2>11. (IF y \notin L THEN path_flow ELSE 0) \in Int
        BY <1>1
    <2> QED
        BY <2>9, <2>10, <2>11
<1>6. UNCHANGED <<in, G>> /\ LNode' = LNode /\ Sources' = Sources
    BY <1>0, SameConstants
<1>7. ASSUME NEW L \in SUBSET LNode', Side(L)'
      PROVE  Out(ResG, L)' + flow + Unfinished(L)' = Out(G, L)'
    <2>1. Side(L) /\ L \in SUBSET LNode
        BY <1>6, <1>7 DEF Side
    <2>2. Unfinished(L)' = IF y \notin L THEN path_flow ELSE 0
        BY <1>1, <1>2 DEF Unfinished
    <2>3. Out(ResG, L)' = Out(ResG', L) /\ Out(G, L)' = Out(G, L)
        BY <1>6 DEF Out
    <2> QED
        BY <1>5, <2>1, <2>2, <2>3
<1> QED
    BY <1>7 DEF CutInv

LEMMA CutInit == IInv /\ Init => CutInv
<1> SUFFICES ASSUME IInv, Init, n = 2 PROVE CutInv
    BY DEF CutInv
<1>1. ResG = G /\ pc = "stage"
    BY DEF Init
<1>2. ASSUME NEW L \in SUBSET LNode PROVE Out(ResG, L) + 0 + Unfinished(L) = Out(G, L)
    <2>1. IsFiniteSet(L \X (LNode \ L)) /\ L \X (LNode \ L) \in SUBSET (LNode \X LNode)
        <3>1. IsInput(in)
            BY DEF IInv, TypeOK
        <3> QED
            BY <3>1, FiniteNodes
    <2>2. G \in [LNode \X LNode -> Int]
        <3>1. G \in [LNode \X LNode -> Weight] /\ Weight \subseteq Int
            BY DEF IInv, TypeOK, Weight
        <3> QED
            BY <3>1
    <2>3. Out(G, L) \in Int
        BY <2>1, <2>2, SumTake DEF Out
    <2> QED
        BY <1>1, <2>3 DEF Unfinished
<1> QED
    BY <1>2 DEF CutInv

LEMMA OutsAreIntegers ==
    ASSUME IInv, NEW L \in SUBSET LNode
    PROVE  Out(ResG, L) \in Nat /\ Out(G, L) \in Nat
<1>1. IsFiniteSet(L \X (LNode \ L)) /\ L \X (LNode \ L) \in SUBSET (LNode \X LNode)
    <2>1. IsInput(in)
        BY DEF IInv, TypeOK
    <2> QED
        BY <2>1, FiniteNodes
<1>2. G \in [LNode \X LNode -> Nat] /\ ResG \in [LNode \X LNode -> Nat]
    <2>1. /\ G \in [LNode \X LNode -> Weight] /\ ResG \in [LNode \X LNode -> Weight]
          /\ Weight \subseteq Nat
        BY DEF IInv, TypeOK, Weight
    <2> QED
        BY <2>1
<1> QED
    BY <1>1, <1>2, SumNatural DEF Out

LEMMA CutStep ==
    ASSUME WeightsFit, IInv, in \in Inputs, SimpleInv, BalanceInv, EndsInv, EndsInv', CutInv,
           [Next]_vars
    PROVE  CutInv'
<1> SUFFICES ASSUME n = 2 PROVE CutInv'
    BY SameConstants DEF CutInv
<1>1. UNCHANGED <<in, G>> /\ LNode' = LNode /\ Sources' = Sources /\ n' = n
    BY SameConstants
<1>2. PICK flow \in Int : \A L \in SUBSET LNode :
          Side(L) => Out(ResG, L) + flow + Unfinished(L) = Out(G, L)
    BY DEF CutInv
<1>3. \A L \in SUBSET LNode : Side(L)' = Side(L) /\ Out(G, L)' = Out(G, L)
    BY <1>1 DEF Side, Out
<1>4. ASSUME ResG' = ResG,
             \A L \in SUBSET LNode : Side(L) => Unfinished(L)' = Unfinished(L)
      PROVE  CutInv'
    <2>1. ASSUME NEW L \in SUBSET LNode', Side(L)'
          PROVE  Out(ResG, L)' + flow + Unfinished(L)' = Out(G, L)'
        <3>1. L \in SUBSET LNode /\ Side(L)
            BY <1>1, <1>3, <2>1
        <3>2. Out(ResG, L)' = Out(ResG, L)
            BY <1>1, <1>4 DEF Out
        <3> QED
            BY <1>2, <1>3, <1>4, <3>1, <3>2
    <2> QED
        BY <2>1 DEF CutInv
<1>5. ASSUME pc # "augment", pc' # "augment", ResG' = ResG PROVE CutInv'
    BY <1>4, <1>5 DEF Unfinished
<1>6. ASSUME PathFlow PROVE CutInv'
    <2>1. pc = "rebuild" /\ pc' = "augment" /\ ResG' = ResG /\ e' = 1
        BY <1>6 DEF PathFlow
    <2>2. path'[1] \in Sources
        BY <1>1, <2>1 DEF EndsInv
    <2>3. ASSUME NEW L \in SUBSET LNode, Side(L) PROVE Unfinished(L)' = Unfinished(L)
        BY <2>1, <2>2, <2>3 DEF Unfinished, Side
    <2> QED
        BY <1>4, <2>1, <2>3
<1>7. ASSUME EndAugment PROVE CutInv'
    <2>1. pc = "augment" /\ pc' = "stage" /\ ResG' = ResG /\ e >= Len(path)
        BY <1>7 DEF EndAugment
    <2>2. path[Len(path)] \in Way(in.st, 2) /\ e <= Len(path)
        BY <2>1 DEF EndsInv
    <2>3. e = Len(path) /\ path_flow \in Int
        <3>1. e \in Nat /\ Len(path) \in Nat /\ path_flow \in Nat
            BY DEF IInv, TypeOK, Weight
        <3> QED
            BY <2>1, <2>2, <3>1
    <2>4. ASSUME NEW L \in SUBSET LNode', Side(L)'
          PROVE  Out(ResG, L)' + (flow + path_flow) + Unfinished(L)' = Out(G, L)'
        <3>1. L \in SUBSET LNode /\ Side(L)
            BY <1>1, <1>3, <2>4
        <3>2. Out(ResG, L)' = Out(ResG, L) /\ Unfinished(L)' = 0 /\ Unfinished(L) = path_flow
            BY <1>1, <2>1, <2>2, <2>3, <3>1 DEF Out, Unfinished, Side
        <3>3. Out(ResG, L) \in Int
            BY <3>1, OutsAreIntegers
        <3> QED
            BY <1>2, <1>3, <2>3, <3>1, <3>2, <3>3
    <2>5. flow + path_flow \in Int
        BY <2>3
    <2> QED
        BY <2>4, <2>5 DEF CutInv
<1>8. ASSUME StartStage \/ EndStage \/ NoPath \/ StepBack \/ Results
      PROVE  pc # "augment" /\ pc' # "augment" /\ ResG' = ResG
    BY <1>8 DEF StartStage, EndStage, NoPath, StepBack, Results
<1>9. ASSUME NEW u \in LNode, Visit(u) \/ PathFound(u) \/ ReachVisit(u)
      PROVE  pc # "augment" /\ pc' # "augment" /\ ResG' = ResG
    BY <1>9 DEF Visit, PathFound, ReachVisit
<1>10. ASSUME UNCHANGED vars PROVE CutInv'
    <2>1. UNCHANGED <<ResG, pc, path, e, path_flow>>
        BY <1>10 DEF vars, augment
    <2>2. \A L \in SUBSET LNode : Unfinished(L)' = Unfinished(L)
        BY <2>1 DEF Unfinished
    <2> QED
        BY <1>4, <2>1, <2>2
<1> QED
    BY <1>5, <1>6, <1>7, <1>8, <1>9, <1>10, CutStepAugment DEF Next, Done

-----------------------------------------------------------------------------
(* What the final search reaches.                                           *)

LEMMA LeastReachStep ==
    ASSUME IInv, LeastReachInv, [Next]_vars PROVE LeastReachInv'
<1>1. UNCHANGED in /\ LNode' = LNode /\ Sources' = Sources /\ n' = n
    BY SameConstants
<1>2. ASSUME pc' \notin {"reach", "done"} PROVE LeastReachInv'
    BY <1>2 DEF LeastReachInv
<1>3. ASSUME NoPath PROVE LeastReachInv'
    <2>1. pc = "stage" /\ pc' = "reach" /\ reach' = reach /\ stack' = Push(<<>>, Sources)
        BY <1>3 DEF NoPath, Sources
    <2>2. Sources \in Batches(n)
        BY Basics DEF IInv, TypeOK, Sources, Batches, LNode
    <2>3. Pending(stack') = Sources
        BY <2>1, <2>2, FirstPush
    <2>4. reach' = {}
        BY <2>1 DEF IInv, ReachInv
    <2> QED
        BY <1>1, <2>1, <2>3, <2>4 DEF LeastReachInv
<1>4. ASSUME NEW u \in LNode, ReachVisit(u) PROVE LeastReachInv'
    <2>1. /\ pc = "reach" /\ pc' = "reach" /\ IsTop(stack, u) /\ reach' = reach \cup {u}
          /\ ResG' = ResG
          /\ stack' = IF u \in reach THEN Popped(stack, u)
                      ELSE Push(Popped(stack, u), Adj(ResG, n, u))
        BY <1>4 DEF ReachVisit
    <2>2. /\ u \in Pending(stack)
          /\ Pending(Popped(stack, u)) \subseteq Pending(stack)
          /\ Pending(Push(Popped(stack, u), Adj(ResG, n, u)))
                = Pending(Popped(stack, u)) \cup Adj(ResG, n, u)
        <3>1. stack \in Stacks(n) /\ Adj(ResG, n, u) \in Batches(n)
            BY Basics, AdjFacts DEF IInv, TypeOK, Stacks, Batches
        <3> QED
            BY <2>1, <3>1, PopPush
    <2>3. Pending(stack') \subseteq Pending(stack) \cup Adj(ResG, n, u)
        BY <2>1, <2>2
    <2>4. ASSUME NEW L \in SUBSET LNode, Sources \subseteq L, \A a \in L : Adj(ResG, n, a) \subseteq L
          PROVE  reach' \cup Pending(stack') \subseteq L
        <3>1. reach \cup Pending(stack) \subseteq L
            BY <2>1, <2>4 DEF LeastReachInv
        <3>2. Adj(ResG, n, u) \subseteq L
            BY <2>2, <2>4, <3>1
        <3> QED
            BY <2>1, <2>2, <2>3, <3>1, <3>2
    <2>5. ASSUME NEW L \in SUBSET LNode',
                 (Sources \subseteq L)', (\A a \in L : Adj(ResG, n, a) \subseteq L)'
          PROVE  reach' \cup Pending(stack') \subseteq L
        <3>1. /\ L \in SUBSET LNode /\ Sources \subseteq L
              /\ \A a \in L : Adj(ResG, n, a) \subseteq L
            BY <1>1, <2>1, <2>5
        <3> QED
            BY <2>4, <3>1
    <2> QED
        BY <2>1, <2>5 DEF LeastReachInv
<1>5. ASSUME Results PROVE LeastReachInv'
    <2>1. pc = "reach" /\ pc' = "done" /\ UNCHANGED <<reach, ResG>>
        BY <1>5 DEF Results
    <2> QED
        BY <1>1, <2>1 DEF LeastReachInv
<1>6. ASSUME UNCHANGED vars PROVE LeastReachInv'
    <2>1. UNCHANGED <<pc, reach, stack, ResG>>
        BY <1>6 DEF vars
    <2> QED
        BY <1>1, <2>1 DEF LeastReachInv
<1>7. ASSUME StartStage \/ EndStage \/ StepBack \/ PathFlow \/ AugmentEdge \/ EndAugment
      PROVE  pc' \notin {"reach", "done"}
    BY <1>7 DEF StartStage, EndStage, StepBack, PathFlow, AugmentEdge, EndAugment
<1>8. ASSUME NEW u \in LNode, Visit(u) \/ PathFound(u) PROVE pc' \notin {"reach", "done"}
    BY <1>8 DEF Visit, PathFound
<1> QED
    BY <1>2, <1>3, <1>4, <1>5, <1>6, <1>7, <1>8 DEF Next, Done

-----------------------------------------------------------------------------
(* Source sides of the graph and of the layered graph.                      *)

\* The nodes of R in the first copy.
Copy(R) == {<<1, u>> : u \in R}

LEMMA FiniteCopies == ASSUME NEW m \in Nat PROVE IsFiniteSet(LNodes(m))
<1>1. IsFiniteSet(1..m)
    BY FS_Interval
<1> QED
    BY <1>1, FS_Product, NodeAssumption DEF LNodes

LEMMA LayeredValue ==
    ASSUME NEW i, IsInput(i), Len(i.st) = 2
    PROVE  \A x, y \in Node :
              /\ y \in i.st[2] => /\ Layered(i)[<< <<1, x>>, <<2, y>> >>] = i.w[<<x, y>>]
                                  /\ Layered(i)[<< <<1, x>>, <<1, y>> >>] = 0
              /\ y \notin i.st[2] => /\ Layered(i)[<< <<1, x>>, <<1, y>> >>] = i.w[<<x, y>>]
                                     /\ Layered(i)[<< <<1, x>>, <<2, y>> >>] = 0
<1> SUFFICES ASSUME NEW x \in Node, NEW y \in Node
             PROVE
              /\ y \in i.st[2] => /\ Layered(i)[<< <<1, x>>, <<2, y>> >>] = i.w[<<x, y>>]
                                  /\ Layered(i)[<< <<1, x>>, <<1, y>> >>] = 0
              /\ y \notin i.st[2] => /\ Layered(i)[<< <<1, x>>, <<1, y>> >>] = i.w[<<x, y>>]
                                     /\ Layered(i)[<< <<1, x>>, <<2, y>> >>] = 0
    OBVIOUS
<1>1. \A q \in {1,2} : << <<1, x>>, <<q, y>> >> \in LNodes(2) \X LNodes(2)
    BY DEF LNodes
<1> QED
    BY <1>1 DEF Layered
LEMMA CopyCost ==
    ASSUME NEW i, IsInput(i), Len(i.st) = 2, NEW R \in SUBSET Node
    PROVE  /\ Copy(R) \in SUBSET LNodes(2)
           /\ WeightOf(Layered(i), Copy(R) \X (LNodes(2) \ Copy(R)))
                 = WeightOf(i.w, Boundary(Edges(i.w), i.st[2], R))
           /\ Leaving(Layered(i), Copy(R)) = Boundary(Edges(i.w), i.st[2], R)
<1> DEFINE T == i.st[2]
           w == i.w
           W == Layered(i)
           B == Boundary(Edges(w), T, R)
           C == Copy(R) \X (LNodes(2) \ Copy(R))
           m == [f \in B |-> << <<1, f[1]>>, <<IF f[2] \in T THEN 2 ELSE 1, f[2]>> >>]
           Image == {m[f] : f \in B}
<1>0. \A x, y \in Node :
          /\ y \in T => /\ W[<< <<1, x>>, <<2, y>> >>] = w[<<x, y>>]
                        /\ W[<< <<1, x>>, <<1, y>> >>] = 0
          /\ y \notin T => /\ W[<< <<1, x>>, <<1, y>> >>] = w[<<x, y>>]
                           /\ W[<< <<1, x>>, <<2, y>> >>] = 0
    BY LayeredValue
<1>1. /\ w \in [Edge -> Nat] /\ Edges(w) \in SUBSET Edge
      /\ W \in [LNodes(2) \X LNodes(2) -> Nat]
      /\ DOMAIN W = LNodes(2) \X LNodes(2)
    <2>1. w \in [Edge -> Weight] /\ Weight \subseteq Nat
        BY InputFacts DEF Weight
    <2>2. W \in [LNodes(2) \X LNodes(2) -> Weight]
        BY LayeredType
    <2> QED
        BY <2>1, <2>2 DEF Edges
<1>2. Copy(R) \in SUBSET LNodes(2)
    BY DEF Copy, LNodes
<1>3. C \in SUBSET (LNodes(2) \X LNodes(2))
    BY <1>2
<1>4. IsFiniteSet(C) /\ IsFiniteSet(B)
    <2>1. IsFiniteSet(LNodes(2))
        <3>1. 2 \in Nat
            OBVIOUS
        <3> QED
            BY <3>1, FiniteCopies, Zenon
    <2>2. IsFiniteSet(Edge)
        BY NodeAssumption, FS_Product DEF Edge
    <2>3. IsFiniteSet(LNodes(2) \X LNodes(2))
        BY <2>1, FS_Product
    <2>4. B \in SUBSET Edge
        BY <1>1 DEF Boundary
    <2> HIDE DEF B, C
    <2> QED
        BY <1>3, <2>2, <2>3, <2>4, FS_Subset
<1>5. ASSUME NEW f \in B
      PROVE  /\ f \in Edge /\ f = <<f[1], f[2]>> /\ f[1] \in R /\ f[2] \in Node
             /\ w[f] > 0 /\ (f[2] \in T \/ f[2] \notin R)
    <2>1. f \in Edges(w) /\ f[1] \in R /\ (f[2] \in T \/ f[2] \notin R)
        BY <1>5 DEF Boundary
    <2>2. f \in Edge /\ w[f] > 0
        BY <1>1, <2>1 DEF Edges
    <2> QED
        BY <2>1, <2>2 DEF Edge
<1>6. ASSUME NEW f \in B
      PROVE  m[f] \in C /\ W[m[f]] = w[f] /\ <<m[f][1][2], m[f][2][2]>> = f
    <2>1. PICK x \in R, y \in Node : f = <<x, y>> /\ (y \in T \/ y \notin R)
        BY <1>5
    <2>2. PICK q \in {1, 2} : q = IF y \in T THEN 2 ELSE 1
        OBVIOUS
    <2>3. m[f] = << <<1, x>>, <<q, y>> >>
        BY <1>6, <2>1, <2>2
    <2>4. x \in Node /\ <<q, y>> \in LNodes(2) /\ <<1, x>> \in Copy(R)
        BY <2>1 DEF LNodes, Copy
    <2>5. <<q, y>> \notin Copy(R)
        BY <2>1, <2>2 DEF Copy
    <2>6. W[<< <<1, x>>, <<q, y>> >>] = w[<<x, y>>]
        <3>1. CASE y \in T
            BY <1>0, <2>1, <2>2, <2>4, <3>1
        <3>2. CASE y \notin T
            BY <1>0, <2>1, <2>2, <2>4, <3>2
        <3> QED
            BY <3>1, <3>2
    <2> QED
        BY <2>1, <2>3, <2>4, <2>5, <2>6
<1>7. ASSUME NEW h \in C, W[h] > 0 PROVE h \in Image
    <2>1. PICK x \in R, q \in {1, 2}, y \in Node :
              h = << <<1, x>>, <<q, y>> >> /\ <<q, y>> \notin Copy(R)
        BY <1>7 DEF Copy, LNodes
    <2>2. x \in Node
        BY <2>1
    <2>3. W[<< <<1, x>>, <<q, y>> >>] > 0
        BY <1>7, <2>1
    <2>4. (q = 2 <=> y \in T) /\ w[<<x, y>>] > 0
        <3>1. CASE y \in T
            <4>1. W[<< <<1, x>>, <<2, y>> >>] = w[<<x, y>>] /\ W[<< <<1, x>>, <<1, y>> >>] = 0
                BY <1>0, <2>1, <2>2, <3>1
            <4> QED
                BY <2>1, <2>3, <3>1, <4>1
        <3>2. CASE y \notin T
            <4>1. W[<< <<1, x>>, <<1, y>> >>] = w[<<x, y>>] /\ W[<< <<1, x>>, <<2, y>> >>] = 0
                BY <1>0, <2>1, <2>2, <3>2
            <4> QED
                BY <2>1, <2>3, <3>2, <4>1
        <3> QED
            BY <3>1, <3>2
    <2>5. y \in T \/ y \notin R
        BY <2>1, <2>4 DEF Copy
    <2>6. <<x, y>> \in Edge
        BY <2>2, <2>1 DEF Edge
    <2>7. <<x, y>> \in B
        BY <1>1, <2>1, <2>4, <2>5, <2>6 DEF Boundary, Edges
    <2>8. m[<<x, y>>] = h
        BY <2>1, <2>4, <2>7
    <2> QED
        BY <2>7, <2>8
<1>8. ASSUME NEW f \in B, NEW g \in B, m[f] = m[g] PROVE f = g
    BY <1>6, <1>8
<1>9. Image \in SUBSET C /\ m \in [B -> LNodes(2) \X LNodes(2)]
    BY <1>3, <1>6
<1>10. B \in SUBSET Edge
    BY <1>5
<1>11. B = Boundary(Edges(i.w), i.st[2], R) /\ C = Copy(R) \X (LNodes(2) \ Copy(R))
    OBVIOUS
<1> HIDE DEF B, C, m, W, w
<1>12. WeightOf(W, Image) = WeightOf(w, B)
    <2>1. w \in [Edge -> Int] /\ W \in [LNodes(2) \X LNodes(2) -> Int]
        BY <1>1
    <2>2. IsFiniteSet({m[x] : x \in B})
        BY <1>4, <1>9, FS_Subset
    <2>3. \A x \in B : W[m[x]] = w[x]
        BY <1>6
    <2> QED
        BY <1>4, <1>8, <1>9, <1>10, <2>1, <2>2, <2>3, SumInjection
<1>13. WeightOf(W, Image) = WeightOf(W, C)
    <2> HIDE DEF Image
    <2>1. \A h \in C \ Image : W[h] = 0
        <3>1. \A h \in C : W[h] \in Nat
            BY <1>1, <1>3
        <3> QED
            BY <1>7, <3>1
    <2> QED
        BY <1>1, <1>3, <1>4, <1>9, <2>1, SumSubset
<1>14. Leaving(W, Copy(R)) = B
    <2>1. ASSUME NEW f \in B PROVE f \in Leaving(W, Copy(R))
        <3>1. m[f] \in C /\ W[m[f]] > 0 /\ <<m[f][1][2], m[f][2][2]>> = f
            BY <1>5, <1>6
        <3>2. m[f] \in Edges(W) /\ m[f][1] \in Copy(R) /\ m[f][2] \notin Copy(R)
            BY <1>1, <1>3, <1>11, <3>1 DEF Edges
        <3> QED
            BY <3>1, <3>2 DEF Leaving
    <2>2. ASSUME NEW h \in Edges(W), h[1] \in Copy(R), h[2] \notin Copy(R)
          PROVE  <<h[1][2], h[2][2]>> \in B
        <3>1. h \in LNodes(2) \X LNodes(2) /\ W[h] > 0
            BY <1>1 DEF Edges
        <3>2. h \in C
            BY <1>11, <2>2, <3>1
        <3>3. PICK f \in B : h = m[f]
            BY <1>7, <3>1, <3>2
        <3> QED
            BY <1>6, <3>3
    <2> QED
        BY <2>1, <2>2 DEF Leaving
<1> QED
    BY <1>2, <1>11, <1>12, <1>13, <1>14 DEF W, w

-----------------------------------------------------------------------------
(* The cut of least weight that is closest to the sources.                  *)

\* The source side that the cut is made of, and what a source side costs.
SourcePart == {u \in Node : <<1, u>> \in reach}
Cost(R) == WeightOf(in.w, Boundary(Edges(in.w), in.st[2], R))

\* A sum of natural weights is 0 iff nothing leaves L.
LEMMA NoneLeaves ==
    ASSUME NEW N, NEW W \in [N \X N -> Nat], NEW L \in SUBSET N, IsFiniteSet(L \X (N \ L))
    PROVE  WeightOf(W, L \X (N \ L)) = 0 <=> \A a \in L : \A b \in N : W[<<a, b>>] > 0 => b \in L
<1> DEFINE C == L \X (N \ L)
<1>1. C \in SUBSET (N \X N) /\ IsFiniteSet(C)
    OBVIOUS
<1>2. \A h \in C : W[h] \in Nat
    BY <1>1
<1>3. (\A h \in C : W[h] = 0) <=> \A a \in L : \A b \in N : W[<<a, b>>] > 0 => b \in L
    <2>1. ASSUME \A h \in C : W[h] = 0, NEW a \in L, NEW b \in N, W[<<a, b>>] > 0 PROVE b \in L
        <3>1. b \notin L => <<a, b>> \in C
            OBVIOUS
        <3> HIDE DEF C
        <3> QED
            BY <2>1, <3>1
    <2>2. ASSUME \A a \in L : \A b \in N : W[<<a, b>>] > 0 => b \in L, NEW h \in C PROVE W[h] = 0
        <3>1. h = <<h[1], h[2]>> /\ h[1] \in L /\ h[2] \in N /\ h[2] \notin L
            OBVIOUS
        <3>2. ~(W[<<h[1], h[2]>>] > 0)
            BY <2>2, <3>1
        <3> QED
            BY <1>2, <3>1, <3>2
    <2> QED
        BY <2>1, <2>2
<1> HIDE DEF C
<1>4. /\ WeightOf(W, C) \in Nat
      /\ \A h \in C : W[h] <= WeightOf(W, C)
      /\ (\A h \in C : W[h] = 0) => WeightOf(W, C) = 0
    BY <1>1, SumNatural
<1>5. WeightOf(W, C) = 0 => \A h \in C : W[h] = 0
    BY <1>2, <1>4
<1> QED
    BY <1>3, <1>4, <1>5 DEF C

LEMMA LeastCut ==
    ASSUME IInv, CutInv, LeastReachInv, pc = "done", n = 2
    PROVE  /\ SourcePart \in SUBSET Node /\ in.st[1] \subseteq SourcePart
           /\ results = Boundary(Edges(in.w), in.st[2], SourcePart)
           /\ \A R \in SUBSET Node : in.st[1] \subseteq R =>
                  /\ Cost(R) \in Nat
                  /\ Cost(SourcePart) <= Cost(R)
                  /\ Cost(R) = Cost(SourcePart) => SourcePart \subseteq R
<1>1. /\ IsInput(in) /\ Len(in.st) = 2 /\ LNode = LNodes(2) /\ G = Layered(in)
      /\ reach \in SUBSET LNodes(2)
      /\ ResG \in [LNodes(2) \X LNodes(2) -> Nat]
    <2>1. IsInput(in) /\ Len(in.st) = n /\ LNode = LNodes(n) /\ G = Layered(in)
        BY Basics DEF IInv, TypeOK, ResidualInv
    <2>2. reach \in SUBSET LNode /\ ResG \in [LNode \X LNode -> Weight] /\ Weight \subseteq Nat
        BY DEF IInv, TypeOK, Weight
    <2> QED
        BY <2>1, <2>2
<1>2. /\ Way(in.st, 1) \subseteq reach
      /\ \A a \in reach : a[1] < 2
      /\ \A a \in reach : Adj(ResG, n, a) \subseteq reach
      /\ results = Leaving(G, reach)
    BY DEF IInv, ReachInv, Leaving
<1>3. reach = Copy(SourcePart) /\ SourcePart \in SUBSET Node
    <2>1. ASSUME NEW a \in reach PROVE a \in Copy(SourcePart)
        <3>1. PICK l \in 1..2, u \in Node : a = <<l, u>>
            BY <1>1 DEF LNodes
        <3>2. l = 1
            BY <1>2, <3>1
        <3> QED
            BY <3>1, <3>2 DEF Copy, SourcePart
    <2> QED
        BY <2>1 DEF Copy, SourcePart
<1>4. in.st[1] \subseteq SourcePart /\ in.st[1] \subseteq Node
    <2>1. in.st[1] \subseteq Node
        BY <1>1, InputFacts
    <2> QED
        BY <1>2, <2>1 DEF SourcePart, Way
<1>5. PICK flow \in Int : \A L \in SUBSET LNode : Side(L) => Out(ResG, L) + flow = Out(G, L)
    <2>1. PICK flow \in Int : \A L \in SUBSET LNode :
              Side(L) => Out(ResG, L) + flow + Unfinished(L) = Out(G, L)
        BY DEF CutInv
    <2>2. \A L : Unfinished(L) = 0
        BY DEF Unfinished
    <2>3. \A L \in SUBSET LNode : Out(ResG, L) \in Int
        BY OutsAreIntegers
    <2> QED
        BY <2>1, <2>2, <2>3
<1>6. ASSUME NEW R \in SUBSET Node, in.st[1] \subseteq R
      PROVE  /\ Copy(R) \in SUBSET LNode
             /\ Out(ResG, Copy(R)) + flow = Cost(R)
             /\ Out(ResG, Copy(R)) \in Nat /\ Cost(R) \in Nat
    <2>1. /\ Copy(R) \in SUBSET LNode
          /\ Out(G, Copy(R)) = Cost(R)
        BY <1>1, CopyCost DEF Out, Cost
    <2>2. Side(Copy(R))
        BY <1>6 DEF Side, Sources, Way, Copy
    <2>3. Out(ResG, Copy(R)) \in Nat /\ Out(G, Copy(R)) \in Nat
        BY <2>1, OutsAreIntegers
    <2> QED
        BY <1>5, <2>1, <2>2, <2>3
<1>7. ASSUME NEW R \in SUBSET Node, in.st[1] \subseteq R
      PROVE  Out(ResG, Copy(R)) = 0 <=> \A a \in Copy(R) : Adj(ResG, n, a) \subseteq Copy(R)
    <2>1. Copy(R) \in SUBSET LNodes(2) /\ IsFiniteSet(Copy(R) \X (LNodes(2) \ Copy(R)))
        BY <1>1, <1>6, <1>7, FiniteNodes
    <2>2. Out(ResG, Copy(R)) = WeightOf(ResG, Copy(R) \X (LNodes(2) \ Copy(R)))
        BY <1>1 DEF Out
    <2>3. Out(ResG, Copy(R)) = 0 <=>
             \A a \in Copy(R) : \A b \in LNodes(2) : ResG[<<a, b>>] > 0 => b \in Copy(R)
        BY <1>1, <2>1, <2>2, NoneLeaves
    <2> QED
        BY <2>3 DEF Adj
<1>8. Out(ResG, Copy(SourcePart)) = 0
    BY <1>2, <1>3, <1>4, <1>7
<1>9. Cost(SourcePart) = flow
    BY <1>3, <1>4, <1>6, <1>8
<1>10. ASSUME NEW R \in SUBSET Node, in.st[1] \subseteq R
       PROVE  /\ Cost(R) \in Nat
              /\ Cost(SourcePart) <= Cost(R)
              /\ Cost(R) = Cost(SourcePart) => SourcePart \subseteq R
    <2>1. /\ Out(ResG, Copy(R)) + flow = Cost(R)
          /\ Out(ResG, Copy(R)) \in Nat /\ Cost(R) \in Nat
        BY <1>6, <1>10
    <2>2. Cost(SourcePart) <= Cost(R)
        BY <1>9, <2>1
    <2>3. ASSUME Cost(R) = Cost(SourcePart) PROVE SourcePart \subseteq R
        <3>1. Out(ResG, Copy(R)) = 0
            BY <1>9, <2>1, <2>3
        <3>2. \A a \in Copy(R) : Adj(ResG, n, a) \subseteq Copy(R)
            BY <1>7, <1>10, <3>1
        <3>3. Copy(R) \in SUBSET LNode /\ Sources \subseteq Copy(R)
            BY <1>6, <1>10 DEF Sources, Way, Copy
        <3>4. reach \subseteq Copy(R)
            BY <3>2, <3>3 DEF LeastReachInv
        <3> QED
            BY <3>4 DEF SourcePart, Copy
    <2> QED
        BY <2>1, <2>2, <2>3
<1>11. results = Boundary(Edges(in.w), in.st[2], SourcePart)
    BY <1>1, <1>2, <1>3, CopyCost
<1> QED
    BY <1>3, <1>4, <1>10, <1>11

\* The least of some numbers.
LEMMA MinIs ==
    ASSUME NEW T \in SUBSET Nat, NEW c \in T, \A x \in T : c <= x
    PROVE  Min(T) = c
<1>1. \E x \in T : \A y \in T : x =< y
    OBVIOUS
<1>2. Min(T) \in T /\ \A y \in T : Min(T) =< y
    BY <1>1 DEF Min
<1>3. Min(T) <= c /\ c <= Min(T) /\ Min(T) \in Nat /\ c \in Nat
    BY <1>2
<1> QED
    BY <1>3

LEMMA SourceSideIs ==
    ASSUME IInv, CutInv, LeastReachInv, pc = "done", n = 2
    PROVE  SourceSide(in.w, Edges(in.w), in.st) = results
<1> DEFINE Sides == {R \in SUBSET Node : in.st[1] \subseteq R}
           cost == [R \in Sides |-> WeightOf(in.w, Boundary(Edges(in.w), in.st[2], R))]
           least == Min({cost[R] : R \in Sides})
           Common == {u \in Node : \A R \in Sides : cost[R] = least => u \in R}
<1>1. /\ SourcePart \in Sides
      /\ results = Boundary(Edges(in.w), in.st[2], SourcePart)
      /\ \A R \in Sides : /\ cost[R] \in Nat
                          /\ cost[SourcePart] <= cost[R]
                          /\ cost[R] = cost[SourcePart] => SourcePart \subseteq R
    BY LeastCut DEF Cost
<1>2. SourceSide(in.w, Edges(in.w), in.st) = Boundary(Edges(in.w), in.st[2], Common)
    BY DEF SourceSide
<1>3. Sides \subseteq SUBSET Node
    OBVIOUS
<1> HIDE DEF Sides, cost
<1>4. least = cost[SourcePart]
    <2> DEFINE Values == {cost[R] : R \in Sides}
    <2>1. /\ Values \in SUBSET Nat /\ cost[SourcePart] \in Values
          /\ \A x \in Values : cost[SourcePart] <= x
        BY <1>1
    <2> HIDE DEF Values
    <2>2. Min(Values) = cost[SourcePart]
        BY <2>1, MinIs
    <2> QED
        BY <2>2 DEF Values
<1>5. Common = SourcePart
    BY <1>1, <1>3, <1>4
<1> QED
    BY <1>1, <1>2, <1>5

\* No other cut of two waypoint sets weighs less.
LEMMA LeastOfAllCuts ==
    ASSUME IInv, CutInv, LeastReachInv, pc = "done", n = 2,
           NEW C \in SUBSET Edges(in.w), Separated(Edges(in.w) \ C, in.st)
    PROVE  /\ WeightOf(in.w, results) \in Nat /\ WeightOf(in.w, C) \in Nat
           /\ WeightOf(in.w, results) <= WeightOf(in.w, C)
<1> DEFINE E == Edges(in.w)
<1>1. /\ IsInput(in) /\ Len(in.st) = 2 /\ in.st[1] \subseteq Node
      /\ in.w \in [Edge -> Nat] /\ E \in SUBSET Edge
    <2>1. IsInput(in) /\ Len(in.st) = 2
        BY Basics DEF IInv, TypeOK
    <2>2. in.w \in [Edge -> Weight] /\ Weight \subseteq Nat /\ in.st[1] \subseteq Node
        BY <2>1, InputFacts DEF Weight
    <2> QED
        BY <2>1, <2>2 DEF Edges
<1>2. PICK B \in [1..(Len(in.st) - 1) -> SUBSET Node] : IsCertificate(E \ C, in.st, B)
    BY DEF Separated
<1>3. /\ B[1] \in SUBSET Node /\ Closed(E \ C, B[1]) /\ Succ(E \ C, in.st[1]) \subseteq B[1]
      /\ in.st[2] \cap B[1] = {}
    <2>1. Len(in.st) - 1 = 1 /\ 1 \in 1..1
        BY <1>1
    <2> QED
        BY <1>1, <1>2, <2>1 DEF IsCertificate
<1> DEFINE R == in.st[1] \cup B[1]
<1>4. R \in SUBSET Node /\ in.st[1] \subseteq R
    BY <1>1, <1>3
<1>5. Boundary(E, in.st[2], R) \subseteq C
    <2> SUFFICES ASSUME NEW f \in E, f[1] \in R, f[2] \in in.st[2] \/ f[2] \notin R, f \notin C
                 PROVE  FALSE
        BY DEF Boundary
    <2>1. f = <<f[1], f[2]>> /\ f[2] \in Node /\ f \in E \ C
        BY <1>1 DEF Edge
    <2>2. f[2] \in B[1]
        BY <1>3, <2>1 DEF Closed, Succ
    <2> QED
        BY <1>3, <2>2
<1> HIDE DEF R, E
<1>6. IsFiniteSet(C) /\ C \in SUBSET Edge
    <2>1. IsFiniteSet(Edge)
        BY NodeAssumption, FS_Product DEF Edge
    <2>2. C \in SUBSET Edge
        BY <1>1 DEF E
    <2> QED
        BY <2>1, <2>2, FS_Subset
<1>7. WeightOf(in.w, Boundary(E, in.st[2], R)) <= WeightOf(in.w, C) /\ WeightOf(in.w, C) \in Nat
    BY <1>1, <1>5, <1>6, SumSubset
<1>8. /\ Cost(R) \in Nat /\ Cost(SourcePart) \in Nat /\ Cost(SourcePart) <= Cost(R)
      /\ Cost(SourcePart) = WeightOf(in.w, results)
    BY <1>4, LeastCut DEF Cost
<1>9. Cost(R) = WeightOf(in.w, Boundary(E, in.st[2], R))
    BY DEF Cost, E
<1> QED
    BY <1>7, <1>8, <1>9

MinCutInv ==
    /\ IInv /\ in \in Inputs /\ SimpleInv /\ BalanceInv
    /\ EndsInv /\ CutInv /\ LeastReachInv

LEMMA MinCutHolds == ASSUME WeightsFit PROVE Spec => []MinCutInv
<1> DEFINE Known == IInv /\ in \in Inputs /\ SimpleInv /\ BalanceInv
           New == EndsInv /\ CutInv /\ LeastReachInv
<1>1. IInv /\ Init => New
    BY CutInit DEF Init, EndsInv, LeastReachInv
<1>2. Known /\ New /\ [Next]_vars => New'
    <2> SUFFICES ASSUME Known, New, [Next]_vars PROVE New'
        OBVIOUS
    <2>1. EndsInv'
        BY EndsStep
    <2>2. CutInv'
        BY <2>1, CutStep
    <2>3. LeastReachInv'
        BY LeastReachStep
    <2> QED
        BY <2>1, <2>2, <2>3
<1>3. Spec => []Known
    BY BalanceHolds, PTL
<1>4. Known /\ New => MinCutInv
    BY DEF MinCutInv
<1> QED
    BY <1>1, <1>2, <1>3, <1>4, PTL DEF Spec

\* Of the cuts of least weight of two waypoint sets, ford_fulkerson_multi
\* returns the one closest to the sources, whichever paths it augments.
THEOREM SourceSideResultHolds == WeightsFit => (Spec => []SourceSideResult)
<1> SUFFICES ASSUME WeightsFit PROVE Spec => []SourceSideResult
    OBVIOUS
<1>1. MinCutInv => SourceSideResult
    BY SourceSideIs DEF MinCutInv, SourceSideResult
<1> QED
    BY <1>1, MinCutHolds, PTL

\* For two waypoint sets no cut weighs less than the one that
\* ford_fulkerson_multi returns; for three sets there may be one (MCFFMinCut).
THEOREM TwoSetsMinCut == WeightsFit => (Spec => [](n = 2 => LocalMinCut))
<1> SUFFICES ASSUME WeightsFit PROVE Spec => [](n = 2 => LocalMinCut)
    OBVIOUS
<1>1. MinCutInv => (n = 2 => LocalMinCut)
    BY LeastOfAllCuts DEF MinCutInv, LocalMinCut
<1> QED
    BY <1>1, MinCutHolds, PTL

\* For two waypoint sets ford_fulkerson_multi cuts no edge in vain: with any one of
\* them put back there is a walk again.
THEOREM TwoSetsIrredundant ==
    WeightsFit =>
        (Spec => [](pc = "done" /\ n = 2 =>
                        \A f \in results :
                            ~Separated((Edges(in.w) \ results) \cup {f}, in.st)))
<1> DEFINE NoneInVain ==
              pc = "done" /\ n = 2 =>
                  \A f \in results : ~Separated((Edges(in.w) \ results) \cup {f}, in.st)
<1> SUFFICES ASSUME WeightsFit PROVE Spec => []NoneInVain
    OBVIOUS
<1>1. MinCutInv => NoneInVain
    <2> SUFFICES ASSUME MinCutInv, pc = "done", n = 2, NEW f \in results,
                        Separated((Edges(in.w) \ results) \cup {f}, in.st)
                 PROVE  FALSE
        OBVIOUS
    <2>1. /\ IInv /\ CutInv /\ LeastReachInv
          /\ in.w \in [Edge -> Nat] /\ Edges(in.w) \in SUBSET Edge
        <3>1. IsInput(in)
            BY DEF MinCutInv, IInv, TypeOK
        <3>2. in.w \in [Edge -> Weight] /\ Weight \subseteq Nat
            BY <3>1, InputFacts DEF Weight
        <3> QED
            BY <3>2 DEF MinCutInv, Edges
    <2>2. results \subseteq Edges(in.w)
        BY <2>1, LeastCut DEF Boundary
    <2>3. results \ {f} \in SUBSET Edges(in.w)
        BY <2>2
    <2>4. Separated(Edges(in.w) \ (results \ {f}), in.st)
        <3>1. Edges(in.w) \ (results \ {f}) = (Edges(in.w) \ results) \cup {f}
            BY <2>2
        <3> QED
            BY <3>1
    <2>5. /\ WeightOf(in.w, results) \in Nat /\ WeightOf(in.w, results \ {f}) \in Nat
          /\ WeightOf(in.w, results) <= WeightOf(in.w, results \ {f})
        BY <2>1, <2>3, <2>4, LeastOfAllCuts
    <2>6. WeightOf(in.w, results) = in.w[f] + WeightOf(in.w, results \ {f})
        <3>1. IsFiniteSet(Edge) /\ results \in SUBSET Edge
            BY <2>1, <2>2, NodeAssumption, FS_Product DEF Edge
        <3>2. IsFiniteSet(results) /\ in.w \in [Edge -> Int]
            BY <2>1, <3>1, FS_Subset
        <3> QED
            BY <3>1, <3>2, SumTake
    <2>7. in.w[f] > 0 /\ in.w[f] \in Nat
        BY <2>1, <2>2 DEF Edges
    <2> QED
        BY <2>5, <2>6, <2>7
<1> QED
    BY <1>1, MinCutHolds, PTL

=============================================================================
