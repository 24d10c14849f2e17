--------------------------- MODULE CheckCutProofs ---------------------------
(****************************************************************************)
(* checkCutST accepts only cuts, and never reads a missing parent, for      *)
(* every graph, cut and ST.                                                 *)
(****************************************************************************)
EXTENDS CheckCut, WellFoundedInduction, SequenceTheorems, TLAPS

\* The nodes found by the search with parent map p: those with a parent.
Found(p) == {u \in Node : p[u] # None}

\* A search of the edges F from P that found R has run to its end: R is closed
\* under F and contains the successors of P.
Complete(F, P, R) == Closed(F, R) /\ Succ(F, P) \subseteq R

\* The particles of stage j are the waypoints found by the search before.
Stage(st, ps, j) == IF j = 1 THEN st[1] ELSE st[j] \cap Found(ps[j - 1])

StageInv ==
    /\ \A j \in 1..Len(particles) : particles[j] = Stage(in.st, parents, j)
    /\ pc \in {"stage", "search"} => Len(particles) = Len(parents)
    /\ pc = "stage" => S = Stage(in.st, parents, Len(parents) + 1)
    /\ pc \in {"report", "ok", "abort"} =>
          Len(parents) = n - 1 /\ Len(particles) = n
    /\ pc = "ok" => particles[n] = {}

\* A parent is a particle of the search, or was itself found by it.
ParentInv ==
    \A j \in 1..Len(parents) : \A u \in Found(parents[j]) :
        parents[j][u] \in particles[j] \cup Found(parents[j])

SearchInv ==
    /\ \A j \in 1..Len(parents) :
          j < Len(parents) \/ pc # "search" =>
             Complete(E, particles[j], Found(parents[j]))
    /\ pc = "search" =>
          /\ Len(parents) >= 1
          /\ reach = Found(parents[Len(parents)])
          /\ S = particles[Len(parents)]
          /\ todo \subseteq S \cup reach
          /\ \A u \in S \cup reach : u \in todo \/ Succ(E, {u}) \subseteq reach

ReportInv ==
    pc = "report" => k \in 0..(n - 1) /\ v \in Node /\ (k > 0 => v \in Found(parents[k]))

IInv == TypeOK /\ StageInv /\ ParentInv /\ SearchInv /\ ReportInv

-----------------------------------------------------------------------------
\* The first m searches of p and of q found the same.
SameFound(p, q, m) == \A j \in 1..m : Found(p[j]) = Found(q[j])

\* Stage j depends on the searches before j only.
LEMMA StageSame ==
    ASSUME NEW st, NEW p, NEW q, NEW m \in Nat, SameFound(p, q, m)
    PROVE  \A j \in 1..(m + 1) : Stage(st, p, j) = Stage(st, q, j)
<1> TAKE j \in 1..(m + 1)
<1>1. CASE j = 1
    BY <1>1 DEF Stage
<1>2. CASE j # 1
    <2>1. j - 1 \in 1..m
        BY <1>2
    <2>2. Found(p[j - 1]) = Found(q[j - 1])
        BY <2>1 DEF SameFound
    <2> QED
        BY <1>2, <2>2 DEF Stage
<1> QED
    BY <1>1, <1>2

LEMMA InitInv == Init => IInv
<1> SUFFICES ASSUME Init PROVE IInv
    OBVIOUS
<1>1. IsInput(in)
    BY InputsAssumption DEF Init
<1>2. TypeOK
    BY <1>1 DEF Init, TypeOK, IsInput, IsST, n
<1>3. StageInv
    BY DEF Init, StageInv, Stage
<1>4. ParentInv /\ SearchInv /\ ReportInv
    BY DEF Init, ParentInv, SearchInv, ReportInv
<1> QED
    BY <1>2, <1>3, <1>4 DEF IInv

\* The arguments do not change, and with them the edges and the length.
LEMMA Arguments == [Next]_vars => in' = in /\ E' = E /\ n' = n
BY DEF Next, vars, StartStage, Pop, EndStage, Accept, Reject, StepBack, Abort,
       Done, E, n

LEMMA StartStageInv == IInv /\ StartStage => IInv'
<1> SUFFICES ASSUME IInv, StartStage PROVE IInv'
    OBVIOUS
<1> USE DEF IInv
<1>0. in' = in /\ E' = E /\ n' = n
    BY DEF StartStage, E, n
<1>1. TypeOK'
    BY <1>0, NoneAssumption DEF TypeOK, StartStage, ParentMap, IsInput, IsST, n
<1>2. /\ Len(parents') = Len(parents) + 1
      /\ Len(particles') = Len(particles) + 1
      /\ Len(particles) = Len(parents)
      /\ \A j \in 1..Len(parents) : parents'[j] = parents[j]
      /\ \A j \in 1..Len(particles) : particles'[j] = particles[j]
      /\ particles'[Len(parents) + 1] = S
      /\ parents'[Len(parents) + 1] = [u \in Node |-> None]
      /\ Len(parents) \in Nat
    BY DEF StartStage, TypeOK, StageInv
<1>3. /\ \A j \in 1..Len(parents) : Found(parents'[j]) = Found(parents[j])
      /\ Found(parents'[Len(parents) + 1]) = {}
    BY <1>2 DEF Found
<1>4. \A j \in 1..(Len(parents) + 1) : Stage(in.st, parents', j) = Stage(in.st, parents, j)
    <2>1. SameFound(parents', parents, Len(parents))
        BY <1>3 DEF SameFound
    <2> QED
        BY <1>2, <2>1, StageSame
<1>5. StageInv'
    BY <1>0, <1>2, <1>4 DEF StageInv, StartStage
<1>6. ParentInv'
    BY <1>2, <1>3 DEF ParentInv
<1>7. SearchInv'
    <2>1. \A j \in 1..Len(parents) : Complete(E, particles'[j], Found(parents'[j]))
        BY <1>0, <1>2, <1>3 DEF SearchInv, Complete, StartStage
    <2>2. reach' = Found(parents'[Len(parents')]) /\ S' = particles'[Len(parents')]
        BY <1>2, <1>3 DEF StartStage
    <2> QED
        BY <1>0, <1>2, <2>1, <2>2 DEF SearchInv, StartStage
<1>8. ReportInv'
    BY DEF ReportInv, StartStage
<1> QED
    BY <1>1, <1>5, <1>6, <1>7, <1>8

LEMMA PopInv == ASSUME NEW u \in Node PROVE IInv /\ Pop(u) => IInv'
<1> SUFFICES ASSUME IInv, Pop(u) PROVE IInv'
    OBVIOUS
<1> USE DEF IInv
<1> DEFINE new == Succ(E, {u}) \ reach
           m == Len(parents)
<1>0. in' = in /\ E' = E /\ n' = n
    BY DEF Pop, E, n
<1>1. m \in Nat /\ m >= 1 /\ Len(particles) = m
    BY DEF Pop, TypeOK, StageInv, SearchInv
<1>2. /\ new \subseteq Node
      /\ u \in S \cup reach
      /\ u \in todo
    BY DEF Succ, Pop, SearchInv
<1>3. /\ parents' \in Seq(ParentMap)
      /\ Len(parents') = m
      /\ \A j \in 1..m : j # m => parents'[j] = parents[j]
      /\ parents'[m] = [w \in Node |-> IF w \in new THEN u ELSE parents[m][w]]
    <2> DEFINE f == [w \in Node |-> IF w \in new THEN u ELSE parents[m][w]]
    <2>1. parents \in Seq(ParentMap) /\ parents[m] \in ParentMap /\ m \in 1..Len(parents)
        BY <1>1 DEF TypeOK
    <2>2. f \in ParentMap
        BY <2>1 DEF ParentMap
    <2>3. parents' = [parents EXCEPT ![m] = f]
        BY <2>1 DEF Pop
    <2> HIDE DEF f
    <2>4. /\ parents' \in Seq(ParentMap) /\ Len(parents') = m
          /\ \A j \in 1..m : parents'[j] = IF j = m THEN f ELSE parents[j]
        BY <2>1, <2>2, <2>3, ExceptSeq
    <2> QED
        BY <2>1, <2>4 DEF f
<1>4. TypeOK'
    BY <1>0, <1>2, <1>3 DEF TypeOK, Pop, IsInput, IsST, n
<1>5. /\ \A j \in 1..m : j # m => Found(parents'[j]) = Found(parents[j])
      /\ Found(parents'[m]) = Found(parents[m]) \cup new
    BY <1>1, <1>2, <1>3, NoneAssumption DEF Found
<1>6. \A j \in 1..m : Stage(in.st, parents', j) = Stage(in.st, parents, j)
    <2>1. SameFound(parents', parents, m - 1)
        BY <1>1, <1>5 DEF SameFound
    <2>2. \A j \in 1..((m - 1) + 1) : Stage(in.st, parents', j) = Stage(in.st, parents, j)
        BY <1>1, <2>1, StageSame
    <2> QED
        BY <1>1, <2>2
<1>7. StageInv'
    BY <1>0, <1>1, <1>3, <1>6 DEF StageInv, Pop
<1>8. ParentInv'
    <2> SUFFICES ASSUME NEW j \in 1..m, NEW w \in Found(parents'[j])
                 PROVE  parents'[j][w] \in particles[j] \cup Found(parents'[j])
        BY <1>3 DEF ParentInv, Pop
    <2>1. CASE j # m
        BY <2>1, <1>3, <1>5 DEF ParentInv
    <2>2. CASE j = m /\ w \in new
        <3>1. parents'[j][w] = u
            BY <2>2, <1>2, <1>3
        <3>2. u \in particles[m] \cup Found(parents[m])
            BY <1>2 DEF SearchInv, Pop
        <3> QED
            BY <2>2, <3>1, <3>2, <1>5
    <2>3. CASE j = m /\ w \notin new
        BY <2>3, <1>1, <1>3, <1>5 DEF ParentInv, Found
    <2> QED
        BY <2>1, <2>2, <2>3
<1>9. SearchInv'
    <2>1. \A j \in 1..m : j # m => Complete(E, particles'[j], Found(parents'[j]))
        BY <1>0, <1>1, <1>5 DEF SearchInv, Complete, Pop
    <2>2. reach' = Found(parents'[m]) /\ S' = particles'[m]
        BY <1>5 DEF Pop, SearchInv
    <2>3. todo' \subseteq S' \cup reach'
        BY DEF Pop, SearchInv
    <2>4. \A w \in S' \cup reach' : w \in todo' \/ Succ(E, {w}) \subseteq reach'
        BY DEF Pop, SearchInv
    <2>5. \A j \in 1..m : j < m => Complete(E', particles'[j], Found(parents'[j]))
        BY <1>0, <1>1, <2>1
    <2>6. pc' = "search"
        BY DEF Pop
    <2> QED
        BY <1>0, <1>1, <1>3, <2>2, <2>3, <2>4, <2>5, <2>6 DEF SearchInv
<1>10. ReportInv'
    BY DEF ReportInv, Pop
<1> QED
    BY <1>4, <1>7, <1>8, <1>9, <1>10

LEMMA EndStageInv == IInv /\ EndStage => IInv'
<1> SUFFICES ASSUME IInv, EndStage PROVE IInv'
    OBVIOUS
<1> USE DEF IInv
<1>0. in' = in /\ E' = E /\ n' = n
    BY DEF EndStage, E, n
<1>1. Len(parents) \in Nat /\ Len(parents) >= 1 /\ Len(parents) <= n - 1 /\ n \in Nat
    BY DEF EndStage, TypeOK, SearchInv, n, IsInput, IsST
<1>2. \A j \in 1..Len(parents) : Found(parents'[j]) = Found(parents[j])
    BY DEF EndStage, Found
<1>3. \A j \in 1..(Len(parents) + 1) : Stage(in.st, parents', j) = Stage(in.st, parents, j)
    <2>1. SameFound(parents', parents, Len(parents))
        BY <1>2 DEF SameFound
    <2> QED
        BY <1>1, <2>1, StageSame
<1>4. TypeOK'
    BY <1>0 DEF TypeOK, EndStage, IsInput, IsST, n
<1>5. StageInv'
    <2>1. S' = Stage(in.st, parents, Len(parents) + 1)
        BY <1>1 DEF EndStage, SearchInv, Stage
    <2> QED
        BY <1>0, <1>1, <1>3, <2>1 DEF StageInv, EndStage
<1>6. ParentInv'
    BY <1>2 DEF ParentInv, EndStage
<1>7. SearchInv'
    <2>1. Complete(E, particles[Len(parents)], Found(parents[Len(parents)]))
        BY <1>1 DEF EndStage, SearchInv, Complete, Closed, Succ
    <2>2. \A j \in 1..Len(parents) : Complete(E, particles[j], Found(parents[j]))
        BY <1>1, <2>1 DEF SearchInv
    <2> QED
        BY <1>0, <1>2, <2>2 DEF SearchInv, EndStage, Complete
<1>8. ReportInv'
    BY DEF ReportInv, EndStage
<1> QED
    BY <1>4, <1>5, <1>6, <1>7, <1>8

\* The steps after the loop leave the searches alone.
LEMMA VerdictInv == IInv /\ (Accept \/ Reject \/ StepBack \/ Abort) => IInv'
<1> SUFFICES ASSUME IInv, Accept \/ Reject \/ StepBack \/ Abort PROVE IInv'
    OBVIOUS
<1> USE DEF IInv
<1>0. /\ in' = in /\ E' = E /\ n' = n /\ parents' = parents /\ S' = S
      /\ todo' = todo /\ reach' = reach
    BY DEF Accept, Reject, StepBack, Abort, E, n
<1>1. /\ n \in Nat /\ n >= 2 /\ Len(parents) = n - 1
      /\ \A j \in 1..(n - 1) : Found(parents'[j]) = Found(parents[j])
      /\ \A j \in 1..n : Stage(in.st, parents', j) = Stage(in.st, parents, j)
    BY <1>0 DEF Accept, Reject, StepBack, Abort, TypeOK, IsInput, IsST, n,
                StageInv, Found, Stage
<1>2. /\ Len(particles') = n
      /\ particles' \in Seq(SUBSET Node)
      /\ \A j \in 1..n : particles'[j] = Stage(in.st, parents, j)
      /\ \A j \in 1..(n - 1) : particles'[j] = particles[j]
    <2>1. CASE Accept \/ Reject
        <3>1. /\ Len(particles) = n - 1 /\ S = Stage(in.st, parents, n)
              /\ particles' = Append(particles, S) /\ S \in SUBSET Node
              /\ particles \in Seq(SUBSET Node)
              /\ \A j \in 1..(n - 1) : particles[j] = Stage(in.st, parents, j)
            BY <2>1, <1>1 DEF Accept, Reject, StageInv, TypeOK
        <3> QED
            BY <3>1, <1>1, AppendProperties
    <2>2. CASE StepBack \/ Abort
        BY <2>2, <1>1 DEF StepBack, Abort, StageInv, TypeOK
    <2> QED
        BY <2>1, <2>2
<1>3. StageInv'
    BY <1>0, <1>1, <1>2 DEF StageInv, Accept, Reject, StepBack, Abort
<1>4. ParentInv'
    BY <1>0, <1>1, <1>2 DEF ParentInv
<1>5. SearchInv'
    BY <1>0, <1>1, <1>2 DEF SearchInv, Complete, Accept, Reject, StepBack, Abort
<1>6. ReportInv' /\ v' \in Node \cup {None} /\ k' \in 0..n /\ path' \in Seq(Node)
    <2>1. CASE Accept
        BY <2>1 DEF Accept, ReportInv, TypeOK
    <2>2. CASE Reject
        <3>1. S \subseteq Found(parents[n - 1])
            BY <2>2, <1>1 DEF Reject, StageInv, Stage
        <3> QED
            BY <2>2, <3>1, <1>0, <1>1 DEF Reject, ReportInv, TypeOK, Found
    <2>3. CASE StepBack
        <3>1. k \in 1..(n - 1) /\ v \in Found(parents[k]) /\ v \in Node
            BY <2>3, <1>1 DEF StepBack, ReportInv
        <3>2. v' \in particles[k] \cup Found(parents[k])
            BY <2>3, <3>1, <1>1 DEF StepBack, ParentInv
        <3>3. v' \in particles[k] /\ k > 1 => v' \in Found(parents[k - 1])
            BY <3>1, <1>1, <1>2 DEF Stage
        <3>4. particles[k] \subseteq Node /\ Found(parents[k]) \subseteq Node
            BY <3>1, <1>1, <1>2 DEF TypeOK, Found
        <3>5. k' \in 0..(n - 1) /\ (k' > 0 => v' \in Found(parents[k']))
            BY <2>3, <3>1, <3>2, <3>3, <1>1 DEF StepBack
        <3>6. (k' > 0 => v' \in Found(parents'[k']))
            BY <3>5, <1>0, <1>1 DEF Found
        <3> QED
            BY <2>3, <3>1, <3>2, <3>4, <3>5, <3>6, <1>0, <1>1
            DEF StepBack, ReportInv, TypeOK
    <2>4. CASE Abort
        BY <2>4 DEF Abort, ReportInv, TypeOK
    <2> QED
        BY <2>1, <2>2, <2>3, <2>4
<1>7. TypeOK'
    BY <1>0, <1>2, <1>6 DEF TypeOK, Accept, Reject, StepBack, Abort, IsInput, IsST, n
<1> QED
    BY <1>3, <1>4, <1>5, <1>6, <1>7

LEMMA NextInv == IInv /\ [Next]_vars => IInv'
<1> SUFFICES ASSUME IInv, [Next]_vars PROVE IInv'
    OBVIOUS
<1>1. CASE UNCHANGED vars
    <2>1. E' = E /\ n' = n
        BY <1>1 DEF vars, E, n
    <2> QED
        BY <1>1, <2>1 DEF vars, IInv, TypeOK, StageInv, ParentInv, SearchInv,
                          ReportInv
<1> QED
    BY <1>1, StartStageInv, PopInv, EndStageInv, VerdictInv DEF Next, Done

LEMMA InvHolds == Spec => []IInv
BY InitInv, NextInv, PTL DEF Spec

\* checkCutST keeps its variables typed, for every graph, cut and ST.
THEOREM TypeCorrect == Spec => []TypeOK
BY InvHolds, PTL DEF IInv

\* A cut accepted by checkCutST separates its ST: the sets found by the
\* searches are the certificate.
THEOREM Acceptance == Spec => []AcceptsOnlyCuts
<1>1. IInv => AcceptsOnlyCuts
    <2> SUFFICES ASSUME IInv, pc = "ok" PROVE Separated(E, in.st)
        BY DEF AcceptsOnlyCuts
    <2> DEFINE B == [j \in 1..(n - 1) |-> Found(parents[j])]
    <2>1. /\ n \in Nat /\ n >= 2 /\ Len(parents) = n - 1 /\ Len(particles) = n
          /\ particles[n] = {}
          /\ \A j \in 1..n : particles[j] = Stage(in.st, parents, j)
          /\ \A j \in 1..(n - 1) : Complete(E, particles[j], Found(parents[j]))
        <3>1. n \in Nat /\ n >= 2
            BY DEF IInv, TypeOK, IsInput, IsST, n
        <3> QED
            BY <3>1 DEF IInv, StageInv, SearchInv
    <2>2. B \in [1..(n - 1) -> SUBSET Node]
        BY DEF Found
    <2>3. \A j \in 1..(n - 1) : Closed(E, B[j])
        BY <2>1 DEF Complete
    <2>4. Succ(E, in.st[1]) \subseteq B[1]
        BY <2>1 DEF Complete, Stage
    <2>5. \A j \in 2..(n - 1) : Succ(E, in.st[j] \cap B[j - 1]) \subseteq B[j]
        <3> TAKE j \in 2..(n - 1)
        <3>1. particles[j] = in.st[j] \cap B[j - 1]
            BY <2>1 DEF Stage
        <3>2. Succ(E, particles[j]) \subseteq Found(parents[j])
            BY <2>1 DEF Complete
        <3> QED
            BY <2>1, <3>1, <3>2
    <2>6. in.st[n] \cap B[n - 1] = {}
        BY <2>1 DEF Stage
    <2> QED
        BY <2>2, <2>3, <2>4, <2>5, <2>6 DEF Separated, IsCertificate, n
<1> QED
    BY <1>1, InvHolds, PTL

\* The path printed before an abort is rebuilt without reading a missing
\* parent: map::at never throws.
THEOREM ReportSafe == Spec => []ParentPresent
<1>1. IInv => ParentPresent
    BY DEF IInv, ReportInv, ParentPresent, Found
<1> QED
    BY <1>1, InvHolds, PTL

-----------------------------------------------------------------------------
(* Rejected cuts.  What a search finds lies within every certificate, so    *)
(* that there is none if a particle survives; and every parent is an edge   *)
(* away, so that the path is a walk.                                        *)

CertificateInv ==
    \A B \in [1..(n - 1) -> SUBSET Node] :
        IsCertificate(E, in.st, B) => \A j \in 1..Len(parents) : Found(parents[j]) \subseteq B[j]

EdgeInv == \A j \in 1..Len(parents) : \A u \in Found(parents[j]) : <<parents[j][u], u>> \in E

\* The sequence w, which starts at the end of the path, is a walk backwards.
BackWalk(F, w) == \A i \in 1..(Len(w) - 1) : <<w[i + 1], w[i]>> \in F

\* It visits the waypoints from the last to the m-th; q says where.
Visits(st, w, m) ==
    \E q \in [m..Len(st) -> 1..Len(w)] :
        /\ q[Len(st)] = 1 /\ (m = 1 => q[1] = Len(w))
        /\ \A i \in m..Len(st) : w[q[i]] \in st[i]
        /\ \A i \in m..(Len(st) - 1) : q[i + 1] < q[i]

PathInv ==
    /\ pc \in {"stage", "search"} => path = <<>>
    /\ pc = "report" =>
          /\ particles[n] # {}
          /\ BackWalk(E, Append(path, v)) /\ Visits(in.st, Append(path, v), k + 1)
    /\ pc = "abort" => BackWalk(E, path) /\ Visits(in.st, path, 1)

WalkInv == CertificateInv /\ EdgeInv /\ PathInv

LEMMA SameArguments == ASSUME in' = in PROVE E' = E /\ n' = n
BY DEF E, n

\* Steps that leave the searches alone.
LEMMA SameSearches ==
    ASSUME WalkInv, in' = in, parents' = parents
    PROVE  CertificateInv' /\ EdgeInv'
<1>1. E' = E /\ n' = n
    BY SameArguments
<1> QED
    BY <1>1 DEF WalkInv, CertificateInv, EdgeInv, Found

LEMMA StartStageWalk == ASSUME IInv, WalkInv, StartStage PROVE WalkInv'
<1>1. in' = in /\ E' = E /\ n' = n
    BY SameArguments DEF StartStage
<1>2. /\ Len(parents') = Len(parents) + 1 /\ Len(parents) \in Nat
      /\ \A j \in 1..Len(parents) : parents'[j] = parents[j]
      /\ Found(parents'[Len(parents) + 1]) = {}
    BY DEF StartStage, IInv, TypeOK, Found
<1>3. \A j \in 1..Len(parents') : j \in 1..Len(parents) \/ Found(parents'[j]) = {}
    BY <1>2
<1>4. \A j \in 1..Len(parents) : Found(parents'[j]) = Found(parents[j])
    BY <1>2 DEF Found
<1>5. CertificateInv'
    BY <1>1, <1>3, <1>4 DEF WalkInv, CertificateInv
<1>6. EdgeInv'
    BY <1>1, <1>2, <1>3, <1>4 DEF WalkInv, EdgeInv
<1> QED
    BY <1>5, <1>6 DEF WalkInv, PathInv, StartStage

\* The particles of a search lie within a certificate.
LEMMA StageWithin ==
    ASSUME IInv, CertificateInv, NEW B \in [1..(n - 1) -> SUBSET Node],
           IsCertificate(E, in.st, B), NEW j \in 1..Len(parents)
    PROVE  Succ(E, Stage(in.st, parents, j)) \subseteq B[j]
<1>1. n \in Nat /\ n >= 2 /\ Len(parents) \in Nat /\ Len(parents) <= n - 1
    BY DEF IInv, TypeOK, IsInput, IsST, n
<1>2. CASE j = 1
    BY <1>2 DEF IsCertificate, Stage
<1>3. CASE j # 1
    <2>1. j - 1 \in 1..Len(parents) /\ j \in 2..(n - 1)
        BY <1>1, <1>3
    <2>2. Found(parents[j - 1]) \subseteq B[j - 1]
        BY <2>1 DEF CertificateInv
    <2>3. Succ(E, in.st[j] \cap B[j - 1]) \subseteq B[j]
        BY <2>1 DEF IsCertificate, n
    <2> QED
        BY <1>3, <2>2, <2>3 DEF Stage, Succ
<1> QED
    BY <1>2, <1>3

LEMMA PopWalk == ASSUME NEW u \in Node, IInv, WalkInv, Pop(u) PROVE WalkInv'
<1> DEFINE new == Succ(E, {u}) \ reach
           m == Len(parents)
<1>1. in' = in /\ E' = E /\ n' = n
    BY SameArguments DEF Pop
<1>2. /\ m \in Nat /\ m >= 1 /\ m <= n - 1 /\ n \in Nat
      /\ u \in S \cup reach /\ S = particles[m] /\ reach = Found(parents[m])
      /\ particles[m] = Stage(in.st, parents, m)
    BY DEF Pop, IInv, TypeOK, IsInput, IsST, n, SearchInv, StageInv
<1>3. /\ Len(parents') = m
      /\ \A j \in 1..m : j # m => parents'[j] = parents[j]
      /\ parents'[m] = [w \in Node |-> IF w \in new THEN u ELSE parents[m][w]]
    <2> DEFINE f == [w \in Node |-> IF w \in new THEN u ELSE parents[m][w]]
    <2>1. parents \in Seq(ParentMap) /\ parents[m] \in ParentMap /\ m \in 1..Len(parents)
        BY <1>2 DEF IInv, TypeOK
    <2>2. f \in ParentMap
        BY <2>1 DEF ParentMap
    <2>3. parents' = [parents EXCEPT ![m] = f]
        BY <2>1 DEF Pop
    <2> HIDE DEF f
    <2>4. /\ Len(parents') = m
          /\ \A j \in 1..m : parents'[j] = IF j = m THEN f ELSE parents[j]
        BY <2>1, <2>2, <2>3, ExceptSeq
    <2> QED
        BY <2>1, <2>4 DEF f
<1>4. new \subseteq Node /\ \A w \in new : <<u, w>> \in E
    BY DEF Succ
<1>5. /\ \A j \in 1..m : j # m => Found(parents'[j]) = Found(parents[j])
      /\ Found(parents'[m]) \subseteq Found(parents[m]) \cup new
    BY <1>3 DEF Found
<1>6. EdgeInv'
    <2> SUFFICES ASSUME NEW j \in 1..m, NEW w \in Found(parents'[j])
                 PROVE  <<parents'[j][w], w>> \in E
        BY <1>1, <1>3 DEF EdgeInv
    <2>1. CASE j = m /\ w \in new
        BY <1>3, <1>4, <2>1
    <2>2. CASE j # m \/ w \notin new
        <3>1. parents'[j][w] = parents[j][w] /\ w \in Found(parents[j])
            BY <1>3, <1>5, <2>2 DEF Found
        <3> QED
            BY <3>1 DEF WalkInv, EdgeInv
    <2> QED
        BY <2>1, <2>2
<1>7. CertificateInv'
    <2> SUFFICES ASSUME NEW B \in [1..(n - 1) -> SUBSET Node], IsCertificate(E, in.st, B),
                        NEW j \in 1..m
                 PROVE  Found(parents'[j]) \subseteq B[j]
        BY <1>1, <1>3 DEF CertificateInv
    <2>1. Found(parents[j]) \subseteq B[j]
        BY DEF WalkInv, CertificateInv
    <2>2. CASE j = m
        <3>1. Closed(E, B[m]) /\ Found(parents[m]) \subseteq B[m]
            BY <1>2, <2>1, <2>2 DEF IsCertificate, n
        <3>2. Succ(E, Stage(in.st, parents, m)) \subseteq B[m]
            BY <1>2, StageWithin DEF WalkInv
        <3>3. new \subseteq B[m]
            BY <1>2, <3>1, <3>2 DEF Succ, Closed
        <3> QED
            BY <1>5, <2>2, <3>1, <3>3
    <2> QED
        BY <1>5, <2>1, <2>2
<1>8. PathInv'
    BY DEF Pop, WalkInv, PathInv
<1> QED
    BY <1>6, <1>7, <1>8 DEF WalkInv

LEMMA VerdictWalk ==
    ASSUME IInv, WalkInv, IInv', EndStage \/ Accept \/ Reject \/ StepBack \/ Abort
    PROVE  WalkInv'
<1>1. in' = in /\ parents' = parents
    BY DEF EndStage, Accept, Reject, StepBack, Abort
<1>2. E' = E /\ n' = n /\ n \in Nat /\ n >= 2 /\ n = Len(in.st)
    BY <1>1, SameArguments DEF IInv, TypeOK, IsInput, IsST, n
<1>3. CertificateInv' /\ EdgeInv'
    BY <1>1, SameSearches
<1>4. CASE EndStage \/ Accept
    BY <1>3, <1>4 DEF EndStage, Accept, WalkInv, PathInv
<1>5. CASE Reject
    <2>1. pc' = "report" /\ path' = <<>> /\ v' \in S /\ k' = n - 1 /\ particles' = Append(particles, S)
        BY <1>5 DEF Reject, WalkInv, PathInv
    <2>2. Len(particles') = n /\ particles \in Seq(SUBSET Node) /\ S \in SUBSET Node
        BY <1>2, <2>1 DEF IInv, TypeOK, StageInv
    <2>3. particles'[n] = S /\ v' \in in.st[n]
        <3>1. particles'[n] = S
            BY <2>1, <2>2
        <3>2. S = Stage(in.st, parents, Len(parents) + 1) /\ Len(parents) = n - 1
            BY <1>5 DEF Reject, IInv, StageInv
        <3> QED
            BY <1>2, <2>1, <3>1, <3>2 DEF Stage
    <2>4. Append(path', v') = <<v'>> /\ k' + 1 = n
        BY <1>2, <2>1
    <2>5. BackWalk(E, <<v'>>)
        BY DEF BackWalk
    <2>6. Visits(in.st, <<v'>>, n)
        <3> DEFINE q == [i \in n..n |-> 1]
        <3>1. q \in [n..n -> 1..Len(<<v'>>)] /\ q[n] = 1
            BY <1>2
        <3>2. \A i \in n..n : <<v'>>[q[i]] \in in.st[i]
            BY <1>2, <2>3
        <3>3. (n = 1 => q[1] = Len(<<v'>>)) /\ \A i \in n..(n - 1) : q[i + 1] < q[i]
            BY <1>2
        <3> HIDE DEF q
        <3> QED
            BY <1>2, <3>1, <3>2, <3>3 DEF Visits
    <2> QED
        BY <1>1, <1>2, <1>3, <2>1, <2>3, <2>4, <2>5, <2>6 DEF WalkInv, PathInv
<1>6. CASE StepBack
    <2> DEFINE w == Append(path, v)
               u == parents[k][v]
               x == Append(w, u)
    <2>1. /\ pc = "report" /\ pc' = "report" /\ k > 0 /\ path' = w /\ v' = u
          /\ k' = (IF u \in particles[k] THEN k - 1 ELSE k) /\ particles' = particles
        BY <1>6 DEF StepBack
    <2>2. /\ k \in 1..(n - 1) /\ v \in Node /\ v \in Found(parents[k]) /\ Len(parents) = n - 1
          /\ path \in Seq(Node) /\ particles[k] = Stage(in.st, parents, k)
        BY <1>2, <2>1 DEF IInv, ReportInv, StageInv, TypeOK
    <2>3. /\ w \in Seq(Node) /\ Len(w) = Len(path) + 1 /\ Len(path) \in Nat /\ w[Len(w)] = v
        BY <2>2
    <2>4. Len(x) = Len(w) + 1 /\ x[Len(w) + 1] = u /\ \A i \in 1..Len(w) : x[i] = w[i]
        BY <2>3
    <2>5. BackWalk(E, w) /\ Visits(in.st, w, k + 1) /\ particles[n] # {}
        BY <2>1 DEF WalkInv, PathInv
    <2>6. <<u, v>> \in E
        BY <2>2 DEF WalkInv, EdgeInv
    <2> HIDE DEF w, u, x
    <2>7. BackWalk(E, x)
        BY <2>3, <2>4, <2>5, <2>6 DEF BackWalk
    <2>8. PICK q \in [(k + 1)..n -> 1..Len(w)] :
              /\ q[n] = 1
              /\ \A i \in (k + 1)..n : w[q[i]] \in in.st[i]
              /\ \A i \in (k + 1)..(n - 1) : q[i + 1] < q[i]
        BY <1>2, <2>5 DEF Visits
    <2>9. CASE u \in particles[k]
        <3>1. k' + 1 = k /\ u \in in.st[k]
            BY <2>1, <2>2, <2>9 DEF Stage
        <3> DEFINE p == [i \in k..n |-> IF i = k THEN Len(x) ELSE q[i]]
        <3>2. p \in [k..n -> 1..Len(x)] /\ p[n] = 1 /\ p[k] = Len(x)
            BY <1>2, <2>2, <2>3, <2>4, <2>8, SMTT(30)
        <3>3. \A i \in k..n : x[p[i]] \in in.st[i]
            <4> TAKE i \in k..n
            <4>1. CASE i = k
                BY <2>3, <2>4, <3>1, <3>2, <4>1
            <4>2. CASE i # k
                <5>1. i \in (k + 1)..n
                    BY <1>2, <2>2, <4>2
                <5>2. p[i] = q[i] /\ q[i] \in 1..Len(w)
                    BY <2>8, <4>2, <5>1
                <5> QED
                    BY <2>4, <2>8, <5>1, <5>2
            <4> QED
                BY <4>1, <4>2
        <3>4. \A i \in k..(n - 1) : p[i + 1] < p[i]
            <4> TAKE i \in k..(n - 1)
            <4>1. i + 1 \in (k + 1)..n /\ i + 1 \in k..n /\ i + 1 # k
                BY <1>2, <2>2
            <4>2. p[i + 1] = q[i + 1] /\ q[i + 1] \in 1..Len(w)
                BY <2>8, <4>1
            <4>3. CASE i = k
                BY <2>3, <2>4, <3>2, <4>2, <4>3
            <4>4. CASE i # k
                <5>1. i \in (k + 1)..(n - 1) /\ i \in k..n
                    BY <1>2, <2>2, <4>4
                <5> QED
                    BY <2>8, <4>2, <4>4, <5>1
            <4> QED
                BY <4>3, <4>4
        <3> HIDE DEF p
        <3>5. Visits(in.st, x, k)
            BY <1>2, <3>2, <3>3, <3>4 DEF Visits
        <3> QED
            BY <1>1, <1>2, <1>3, <2>1, <2>5, <2>7, <3>1, <3>5 DEF WalkInv, PathInv, x
    <2>10. CASE u \notin particles[k]
        <3>1. k' = k /\ k + 1 # 1
            BY <2>1, <2>2, <2>10
        <3>2. q \in [(k + 1)..n -> 1..Len(x)]
            BY <2>3, <2>4, <2>8
        <3>3. \A i \in (k + 1)..n : x[q[i]] \in in.st[i]
            BY <2>4, <2>8
        <3>4. Visits(in.st, x, k + 1)
            BY <1>2, <2>8, <3>1, <3>2, <3>3 DEF Visits
        <3> QED
            BY <1>1, <1>2, <1>3, <2>1, <2>5, <2>7, <3>1, <3>4 DEF WalkInv, PathInv, x
    <2> QED
        BY <2>9, <2>10
<1>7. CASE Abort
    <2>1. pc = "report" /\ k = 0 /\ path' = Append(path, v) /\ pc' = "abort"
        BY <1>7 DEF Abort
    <2>2. BackWalk(E, path') /\ Visits(in.st, path', 1)
        BY <2>1 DEF WalkInv, PathInv
    <2> QED
        BY <1>1, <1>2, <1>3, <2>1, <2>2 DEF WalkInv, PathInv
<1> QED
    BY <1>4, <1>5, <1>6, <1>7

LEMMA WalkHolds == Spec => []WalkInv
<1>1. Init => WalkInv
    BY DEF Init, WalkInv, CertificateInv, EdgeInv, PathInv
<1>2. IInv /\ IInv' /\ WalkInv /\ [Next]_vars => WalkInv'
    <2> SUFFICES ASSUME IInv, IInv', WalkInv, [Next]_vars PROVE WalkInv'
        OBVIOUS
    <2>1. CASE UNCHANGED vars
        <3>1. E' = E /\ n' = n
            BY <2>1, SameArguments DEF vars
        <3> QED
            BY <2>1, <3>1 DEF vars, WalkInv, CertificateInv, EdgeInv, PathInv
    <2> QED
        BY <2>1, StartStageWalk, PopWalk, VerdictWalk DEF Next, Done
<1> QED
    BY <1>1, <1>2, InvHolds, PTL DEF Spec

\* The compiler is only aborted over a cut that is none: no certificate is left.
THEOREM Rejection == Spec => []RejectsOnlyNonCuts
<1>1. IInv /\ WalkInv => RejectsOnlyNonCuts
    <2> SUFFICES ASSUME IInv, WalkInv, pc = "report",
                        NEW B \in [1..(n - 1) -> SUBSET Node], IsCertificate(E, in.st, B)
                 PROVE  FALSE
        BY DEF RejectsOnlyNonCuts, Separated, n
    <2>1. n \in Nat /\ n >= 2 /\ Len(parents) = n - 1
        BY DEF IInv, TypeOK, IsInput, IsST, n, StageInv
    <2>2. in.st[n] \cap Found(parents[n - 1]) # {}
        <3>1. particles[n] # {} /\ particles[n] = Stage(in.st, parents, n)
            BY <2>1 DEF WalkInv, PathInv, IInv, StageInv
        <3> QED
            BY <2>1, <3>1 DEF Stage
    <2>3. Found(parents[n - 1]) \subseteq B[n - 1]
        BY <2>1 DEF WalkInv, CertificateInv
    <2> QED
        BY <2>2, <2>3 DEF IsCertificate, n
<1> QED
    BY <1>1, InvHolds, WalkHolds, PTL

\* The path printed before the abort is a walk that avoids the cut and visits the
\* waypoints in order.
THEOREM ReportIsReal == Spec => []ReportedPathIsReal
<1>1. IInv /\ WalkInv => ReportedPathIsReal
    <2> SUFFICES ASSUME IInv, WalkInv, pc = "abort"
                 PROVE  LET w == [i \in 1..Len(path) |-> path[Len(path) + 1 - i]]
                        IN  IsWalk(E, w) /\ Realises(w)
        BY DEF ReportedPathIsReal
    <2> DEFINE L == Len(path)
               w == [i \in 1..L |-> path[L + 1 - i]]
    <2>1. n \in Nat /\ n >= 2 /\ n = Len(in.st) /\ path \in Seq(Node) /\ L \in Nat
        BY DEF IInv, TypeOK, IsInput, IsST, n
    <2>2. BackWalk(E, path) /\ Visits(in.st, path, 1)
        BY DEF WalkInv, PathInv
    <2>3. Len(w) = L /\ \A i \in 1..L : w[i] = path[L + 1 - i]
        BY <2>1
    <2> HIDE DEF w
    <2>4. IsWalk(E, w)
        <3> SUFFICES ASSUME NEW i \in 1..(L - 1) PROVE <<w[i], w[i + 1]>> \in E
            BY <2>3 DEF IsWalk
        <3>1. L - i \in 1..(L - 1) /\ L + 1 - i = (L - i) + 1 /\ L + 1 - (i + 1) = L - i
            BY <2>1
        <3>2. w[i] = path[(L - i) + 1] /\ w[i + 1] = path[L - i]
            BY <2>1, <2>3, <3>1
        <3> QED
            BY <2>2, <3>1, <3>2 DEF BackWalk
    <2>5. PICK q \in [1..n -> 1..L] :
              /\ q[n] = 1 /\ q[1] = L
              /\ \A i \in 1..n : path[q[i]] \in in.st[i]
              /\ \A i \in 1..(n - 1) : q[i + 1] < q[i]
        BY <2>1, <2>2 DEF Visits
    <2> DEFINE p == [i \in 1..n |-> L + 1 - q[i]]
    <2>6. p \in [1..n -> 1..L] /\ p[1] = 1 /\ p[n] = L
        <3>1. \A i \in 1..n : q[i] \in 1..L /\ L + 1 - q[i] \in 1..L
            <4> HIDE DEF L
            <4>1. \A x \in 1..L : L + 1 - x \in 1..L
                BY <2>1
            <4>2. \A i \in 1..n : q[i] \in 1..L
                BY <2>5
            <4> QED
                BY <4>1, <4>2
        <3>2. 1 \in 1..n /\ n \in 1..n
            BY <2>1
        <3> QED
            BY <2>1, <2>5, <3>1, <3>2
    <2>7. \A i \in 1..n : w[p[i]] \in in.st[i]
        <3> TAKE i \in 1..n
        <3>1. q[i] \in 1..L /\ p[i] = L + 1 - q[i] /\ p[i] \in 1..L
            BY <2>1, <2>5, <2>6
        <3>2. L + 1 - p[i] = q[i]
            BY <2>1, <3>1
        <3> QED
            BY <2>3, <2>5, <3>1, <3>2
    <2>8. \A i \in 1..(n - 1) : p[i] < p[i + 1]
        <3> TAKE i \in 1..(n - 1)
        <3>1. i \in 1..n /\ i + 1 \in 1..n
            BY <2>1
        <3>2. q[i] \in 1..L /\ q[i + 1] \in 1..L /\ q[i + 1] < q[i]
              /\ p[i] = L + 1 - q[i] /\ p[i + 1] = L + 1 - q[i + 1]
            BY <2>5, <3>1
        <3> QED
            BY <2>1, <3>2
    <2> HIDE DEF p
    <2>9. Realises(w)
        BY <2>1, <2>3, <2>6, <2>7, <2>8 DEF Realises
    <2> QED
        BY <2>4, <2>9 DEF w
<1> QED
    BY <1>1, InvHolds, WalkHolds, PTL

-----------------------------------------------------------------------------
(* What a certificate means: no walk of any length.                         *)

LEMMA LeastNatural ==
    ASSUME NEW T \in SUBSET Nat, T # {}
    PROVE  \E x \in T : \A y \in T : x <= y
<1> DEFINE Less == OpToRel(<, Nat)
<1>1. \A x, y \in Nat : y < x => <<y, x>> \in Less
    BY DEF OpToRel
<1>2. IsWellFoundedOn(Less, Nat)
    BY NatLessThanWellFounded
<1> HIDE DEF Less
<1>3. PICK x \in T : \A y \in T : ~(<<y, x>> \in Less)
    BY <1>2, WFMin
<1>4. ASSUME NEW y \in T PROVE x <= y
    <2>1. x \in Nat /\ y \in Nat
        OBVIOUS
    <2>2. ~(y < x)
        BY <1>1, <1>3, <2>1
    <2> QED
        BY <2>1, <2>2
<1> QED
    BY <1>4

LEMMA CertificateStopsWalks ==
    ASSUME n \in Nat, n >= 2, NEW B \in [1..(n - 1) -> SUBSET Node], IsCertificate(E, in.st, B),
           NEW m \in Nat, NEW w \in [1..m -> Node], IsWalk(E, w), Realises(w)
    PROVE  FALSE
<1>1. Len(w) = m /\ n = Len(in.st)
    BY DEF n
<1>2. PICK p \in [1..n -> 1..m] :
          /\ p[1] = 1 /\ p[n] = m
          /\ \A i \in 1..n : w[p[i]] \in in.st[i]
          /\ \A i \in 1..(n - 1) : p[i] < p[i + 1]
    BY <1>1 DEF Realises
\* The positions where the walk is not where the certificate says.
<1> DEFINE Outside == {x \in Nat : \E i \in 1..(n - 1) : p[i] < x /\ x <= p[i + 1] /\ w[x] \notin B[i]}
<1>3. ASSUME NEW x \in Outside PROVE \E y \in Outside : y < x
    <2>1. x \in Nat
        OBVIOUS
    <2>2. PICK i \in 1..(n - 1) : p[i] < x /\ x <= p[i + 1] /\ w[x] \notin B[i]
        BY <1>3
    <2>3. i \in 1..n /\ i + 1 \in 1..n
        OBVIOUS
    <2>4. p[i] \in 1..m /\ p[i + 1] \in 1..m
        BY <1>2, <2>3
    <2>5. x \in 2..m /\ x - 1 \in 1..(m - 1)
        BY <2>1, <2>2, <2>4
    <2>6. <<w[x - 1], w[x]>> \in E /\ w[x] \in Node
        <3>1. x \in 1..m /\ (x - 1) + 1 = x
            BY <2>5
        <3>2. <<w[x - 1], w[(x - 1) + 1]>> \in E
            BY <1>1, <2>5 DEF IsWalk
        <3> QED
            BY <3>1, <3>2
    <2>7. CASE p[i] < x - 1
        <3>1. x - 1 <= p[i + 1]
            BY <2>2, <2>4, <2>5
        <3>2. Closed(E, B[i])
            BY <1>1 DEF IsCertificate
        <3>3. w[x - 1] \notin B[i]
            BY <2>2, <2>6, <3>2 DEF Closed, Succ
        <3>4. x - 1 \in Outside
            BY <2>5, <2>7, <3>1, <3>3
        <3> QED
            BY <2>5, <3>4
    <2>8. CASE x - 1 = p[i]
        <3>1. w[x - 1] \in in.st[i]
            BY <1>2, <2>3, <2>8
        <3>2. i # 1
            <4>1. Succ(E, in.st[1]) \subseteq B[1]
                BY DEF IsCertificate
            <4> QED
                BY <2>2, <2>6, <3>1, <4>1 DEF Succ
        <3>3. i \in 2..(n - 1) /\ i - 1 \in 1..(n - 1) /\ (i - 1) + 1 = i
            BY <3>2
        <3>4. w[x - 1] \notin B[i - 1]
            <4>1. Succ(E, in.st[i] \cap B[i - 1]) \subseteq B[i]
                BY <1>1, <3>3 DEF IsCertificate
            <4> QED
                BY <2>2, <2>6, <3>1, <4>1 DEF Succ
        <3>5. p[i - 1] < p[i]
            <4>1. p[i - 1] < p[(i - 1) + 1]
                BY <1>2, <3>3
            <4> QED
                BY <3>3, <4>1
        <3>6. p[i - 1] < x - 1 /\ x - 1 <= p[(i - 1) + 1]
            <4>1. p[(i - 1) + 1] = x - 1
                BY <2>8, <3>3
            <4>2. p[i - 1] < x - 1
                BY <2>8, <3>5
            <4> QED
                BY <2>5, <4>1, <4>2
        <3>7. x - 1 \in Outside
            BY <2>5, <3>3, <3>4, <3>6
        <3> QED
            BY <2>5, <3>7
    <2>9. p[i] < x - 1 \/ x - 1 = p[i]
        <3>1. \A a, b \in Int : a < b => a < b - 1 \/ b - 1 = a
            OBVIOUS
        <3>2. p[i] \in Int /\ x \in Int
            BY <2>1, <2>4
        <3> QED
            BY <2>2, <3>1, <3>2
    <2> QED
        BY <2>7, <2>8, <2>9
<1>4. Outside = {}
    <2>1. Outside \in SUBSET Nat
        OBVIOUS
    <2> HIDE DEF Outside
    <2>2. ASSUME Outside # {} PROVE FALSE
        <3>1. PICK x \in Outside : \A y \in Outside : x <= y
            BY <2>1, <2>2, LeastNatural
        <3>2. PICK y \in Outside : y < x
            BY <1>3, <3>1
        <3> QED
            BY <2>1, <3>1, <3>2
    <2> QED
        BY <2>2
<1>5. n - 1 \in 1..(n - 1) /\ (n - 1) + 1 = n
    OBVIOUS
<1>6. p[n - 1] < p[n] /\ p[n] \in Nat /\ w[p[n]] \in in.st[n]
    <2>1. p[n - 1] < p[(n - 1) + 1] /\ n \in 1..n
        BY <1>2, <1>5
    <2> QED
        BY <1>2, <1>5, <2>1
<1>7. w[p[n]] \in B[n - 1]
    <2> SUFFICES ASSUME w[p[n]] \notin B[n - 1]
                 PROVE  p[n] \in Outside
        BY <1>4
    <2>1. p[n] <= p[(n - 1) + 1]
        BY <1>5, <1>6
    <2> QED
        BY <1>5, <1>6, <2>1
<1> QED
    BY <1>1, <1>6, <1>7 DEF IsCertificate

\* A cut that is accepted leaves no walk through the waypoints, however long.
THEOREM NoWalkIsLeft == Spec => []AcceptedHasNoWalk
<1>1. IInv /\ AcceptsOnlyCuts => AcceptedHasNoWalk
    <2> SUFFICES ASSUME IInv, AcceptsOnlyCuts, pc = "ok",
                        NEW m \in 2..MaxWalk, NEW w \in [1..m -> Node], IsWalk(E, w), Realises(w)
                 PROVE  FALSE
        BY DEF AcceptedHasNoWalk
    <2>1. n \in Nat /\ n >= 2 /\ m \in Nat
        BY DEF IInv, TypeOK, IsInput, IsST, n
    <2>2. PICK B \in [1..(n - 1) -> SUBSET Node] : IsCertificate(E, in.st, B)
        BY DEF AcceptsOnlyCuts, Separated, n
    <2> QED
        BY <2>1, <2>2, CertificateStopsWalks
<1> QED
    BY <1>1, InvHolds, Acceptance, PTL

=============================================================================
