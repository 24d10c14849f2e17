----------------------------- MODULE AnalysesProofs -----------------------------
(****************************************************************************)
(* What the five analyses find, for every input: that nothing is found      *)
(* without a reason, and that at the end nothing is missing.                *)
(*                                                                          *)
(* Each section is about one analysis.  The result is below the least set   *)
(* that the rules allow, because every visit adds what a rule adds; and at  *)
(* the end it is closed under the rules, because the last pass has visited  *)
(* every value and changed nothing.                                         *)
(****************************************************************************)
EXTENDS Analyses, TLAPS

-----------------------------------------------------------------------------
(* LeakAnalysis.  `cur` is leaks, `bak` is leaks_bak, `next` is at.         *)

\* As long as a pass has changed nothing, all that the values up to the iterator
\* give away is in the set, wherever it was inserted.
LeakInv ==
    /\ in \in LeakInputs
    /\ in.pub \subseteq cur /\ bak \subseteq cur /\ cur \subseteq Leak!Leaked
    /\ next \in Nat
    /\ cur = bak => \A v \in cur : v <= next => Leak!Gives(v) \subseteq cur
    /\ pc = "done" => Leak!Closed(cur)
    /\ pc = "abort" => \E v \in cur : Leak!Aborts(v)

LEMMA LeakInput ==
    ASSUME in \in LeakInputs
    PROVE  /\ Leak!Value \in SUBSET (Nat \ {0}) /\ in.pub \subseteq Leak!Value
           /\ \A v \in Leak!Value : Leak!Gives(v) \subseteq Leak!Value
<1>1. Leak!IsInput(in) /\ DOMAIN in.kind \in SUBSET (Nat \ {0})
    BY InputsAssumption DEF Leak!InputsAssumption
<1>2. \A v \in Leak!Value : in.ops[v] \subseteq Leak!Value
    BY <1>1 DEF Leak!IsInput, Leak!Value
<1>3. \A v \in Leak!Value : Leak!getAliasingStores(v) \subseteq Leak!Value
    BY DEF Leak!getAliasingStores, Leak!Writer
<1> QED
    BY <1>1, <1>2, <1>3 DEF Leak!IsInput, Leak!Value, Leak!Gives

LEMMA LeakedClosed ==
    ASSUME in \in LeakInputs, NEW v \in Leak!Leaked
    PROVE  v \in Leak!Value /\ Leak!Gives(v) \subseteq Leak!Leaked
BY LeakInput DEF Leak!Leaked, Leak!Closed

\* These only depend on the input.
LEMMA LeakUnchanged ==
    ASSUME in' = in
    PROVE  /\ Leak!Leaked' = Leak!Leaked
           /\ \A v : Leak!Gives(v)' = Leak!Gives(v) /\ Leak!Aborts(v)' = Leak!Aborts(v)
<1> USE DEF Leak!Value, Leak!Writer, Leak!isDefinitelyNoAlias, Leak!getAliasingStores, Leak!Gives, Leak!Unexpected
<1>1. \A v : Leak!Gives(v)' = Leak!Gives(v)
    OBVIOUS
<1>2. \A v : Leak!Aborts(v)' = Leak!Aborts(v)
    BY DEF Leak!Aborts
<1>3. Leak!Leaked' = Leak!Leaked
    BY <1>1 DEF Leak!Leaked, Leak!Closed
<1> QED
    BY <1>1, <1>2, <1>3

LEMMA LeakInit == ASSUME Leak!Init PROVE LeakInv
<1>1. in \in LeakInputs /\ cur = in.pub /\ bak = in.pub /\ next = 0 /\ pc = "pass"
    BY DEF Leak!Init
<1>2. cur \subseteq Leak!Leaked
    BY <1>1, LeakInput DEF Leak!Leaked
<1>3. \A v \in cur : ~(v <= next)
    BY <1>1, LeakInput
<1> QED
    BY <1>1, <1>2, <1>3 DEF LeakInv

LEMMA LeakVisit == ASSUME LeakInv, NEW v \in Leak!Value, Leak!Visit(v) PROVE LeakInv'
<1>1. in' = in /\ bak' = bak /\ pc = "pass" /\ v \in cur /\ v > next
      /\ \A w \in cur : w > next => v <= w
    BY DEF Leak!Visit, Leak!Rest
<1>2. Leak!Leaked' = Leak!Leaked
      /\ \A w : Leak!Gives(w)' = Leak!Gives(w) /\ Leak!Aborts(w)' = Leak!Aborts(w)
    BY <1>1, LeakUnchanged
<1>3. CASE Leak!Aborts(v)
    <2>1. pc' = "abort" /\ cur' = cur /\ next' = next
        BY <1>3 DEF Leak!Visit
    <2>2. \E w \in cur' : Leak!Aborts(w)'
        BY <1>1, <1>2, <1>3, <2>1
    <2> QED
        BY <1>1, <1>2, <2>1, <2>2 DEF LeakInv
<1>4. CASE ~Leak!Aborts(v)
    <2>1. cur' = cur \cup Leak!Gives(v) /\ next' = v /\ pc' = pc
        BY <1>4 DEF Leak!Visit
    <2>2. cur' \subseteq Leak!Leaked
        BY <1>1, <2>1, LeakedClosed DEF LeakInv
    <2>3. v \in Nat /\ cur \subseteq Nat /\ next \in Nat
        BY LeakInput, LeakedClosed DEF LeakInv
    <2>4. ASSUME cur' = bak', NEW w \in cur', w <= v
          PROVE  Leak!Gives(w) \subseteq cur'
        <3>1. cur' = cur /\ cur = bak /\ Leak!Gives(v) \subseteq cur
            BY <1>1, <2>1, <2>4 DEF LeakInv
        <3>2. w = v \/ w <= next
            BY <1>1, <2>3, <2>4, <3>1
        <3> QED
            BY <3>1, <3>2, <2>4 DEF LeakInv
    <2> QED
        BY <1>1, <1>2, <2>1, <2>2, <2>3, <2>4 DEF LeakInv
<1> QED
    BY <1>3, <1>4

LEMMA LeakEndPass == ASSUME LeakInv, Leak!EndPass PROVE LeakInv'
<1>1. in' = in /\ cur' = cur /\ pc = "pass" /\ \A v \in cur : ~(v > next)
    BY DEF Leak!EndPass, Leak!Rest
<1>2. Leak!Leaked' = Leak!Leaked
      /\ \A w : Leak!Gives(w)' = Leak!Gives(w) /\ Leak!Aborts(w)' = Leak!Aborts(w)
    BY <1>1, LeakUnchanged
<1>3. cur \subseteq Nat \ {0} /\ next \in Nat
    BY LeakInput, LeakedClosed DEF LeakInv
<1>4. CASE bak' = cur /\ next' = 0 /\ pc' = pc
    <2>1. \A v \in cur' : ~(v <= next')
        BY <1>1, <1>3, <1>4
    <2> QED
        BY <1>1, <1>2, <1>4, <2>1 DEF LeakInv
<1>5. CASE cur = bak /\ pc' = "done" /\ bak' = bak /\ next' = next
    <2>1. \A v \in cur : Leak!Gives(v) \subseteq cur
        BY <1>1, <1>3, <1>5 DEF LeakInv
    <2>2. Leak!Closed(cur)'
        BY <1>1, <1>2, <2>1 DEF Leak!Closed
    <2> QED
        BY <1>1, <1>2, <1>5, <2>2 DEF LeakInv
<1> QED
    BY <1>4, <1>5 DEF Leak!EndPass

LEMMA LeakStutter ==
    ASSUME LeakInv, in' = in, cur' = cur, bak' = bak, next' = next, pc' = pc
    PROVE  LeakInv'
<1>1. Leak!Leaked' = Leak!Leaked
      /\ \A w : Leak!Gives(w)' = Leak!Gives(w) /\ Leak!Aborts(w)' = Leak!Aborts(w)
    BY LeakUnchanged
<1>2. Leak!Closed(cur)' <=> Leak!Closed(cur)
    BY <1>1 DEF Leak!Closed
<1> QED
    BY <1>1, <1>2 DEF LeakInv

LEMMA LeakExact == ASSUME LeakInv PROVE Leak!LeaksExact
<1>1. ASSUME pc = "done" PROVE Leak!Leaked \subseteq cur
    <2>1. cur \in SUBSET Leak!Value /\ in.pub \subseteq cur /\ Leak!Closed(cur)
        BY <1>1, LeakedClosed DEF LeakInv
    <2> QED
        BY <2>1 DEF Leak!Leaked
<1> QED
    BY <1>1 DEF Leak!LeaksExact, LeakInv

\* The leak analysis finds the least set that has the transmitters' operands and
\* is closed under what its members give away, wherever the values are in memory,
\* and gives up only over a member of it.
THEOREM LeakAnalysisExact == Spec => []LeaksExact
<1> DEFINE Inv == pass = "leak" => LeakInv
<1>1. Init => Inv
    BY LeakInit DEF Init
<1>2. Inv /\ [Next]_vars => Inv'
    <2> SUFFICES ASSUME Inv, [Next]_vars, pass' = "leak" PROVE LeakInv'
        OBVIOUS
    <2>1. CASE UNCHANGED vars
        BY <2>1, LeakStutter DEF vars
    <2>2. CASE Next
        <3>1. pass = "leak" /\ Leak!Next
            BY <2>2 DEF Next
        <3>2. CASE \E v \in Leak!Value : Leak!Visit(v)
            BY <3>1, <3>2, LeakVisit
        <3>3. CASE Leak!EndPass
            BY <3>1, <3>3, LeakEndPass
        <3>4. CASE Leak!Stop
            BY <3>1, <3>4, LeakStutter DEF Leak!Stop, Leak!vars
        <3> QED
            BY <3>1, <3>2, <3>3, <3>4 DEF Leak!Next
    <2> QED
        BY <2>1, <2>2
<1>3. Inv => LeaksExact
    BY LeakExact DEF LeaksExact
<1> QED
    BY <1>1, <1>2, <1>3, PTL DEF Spec

-----------------------------------------------------------------------------
(* NonspeculativeTaint.  `cur` is pub_vals, `bak` is pub_vals_bak, `extra`  *)
(* is seen_mem_taint_prop, `more` is part.                                  *)

\* This pass has visited the instruction i in its part p.
Visited(p, i) == more > p \/ (more = p /\ i < next)

\* What is public in any case is found by the first pass.
AlwaysFound ==
    \A i \in Public!Instr :
        /\ in.kind[i] = "call" /\ in.StrictCallingConv /\ Visited(1, i) => in.ops[i] \cup {i} \subseteq cur
        /\ in.kind[i] = "ret" /\ in.StrictCallingConv /\ Visited(3, i) => in.ops[i] \subseteq cur
        /\ in.kind[i] = "gep" /\ Visited(4, i) => in.ops[i] \subseteq cur

\* As long as a pass has changed nothing, the rules are fulfilled where it was.
RulesFulfilled ==
    cur = bak =>
        \A i \in cur :
            /\ in.kind[i] = "intrinsic" /\ Visited(1, i) => in.ops[i] \subseteq cur
            /\ in.kind[i] \in {"load", "rmw", "cmpxchg"} /\ Visited(2, i) => i \in extra
            /\ in.kind[i] = "op" /\ Visited(4, i) => in.ops[i] \subseteq cur

\* An access that counts as propagated stays propagated: values only become public.
PublicInv ==
    /\ in \in PublicInputs
    /\ in.pub \subseteq cur /\ bak \subseteq cur /\ cur \subseteq Public!Public
    /\ more \in 1..4 /\ next \in 1..(Len(in.kind) + 1)
    /\ \A i \in extra : Public!SameMemory(i) \subseteq cur
    /\ AlwaysFound
    /\ RulesFulfilled
    /\ pc = "done" => Public!Always \subseteq cur /\ Public!Closed(cur)

LEMMA PublicInput ==
    ASSUME in \in PublicInputs
    PROVE  /\ Public!Instr = 1..Len(in.kind) /\ Len(in.kind) \in Nat
           /\ in.pub \subseteq Public!Instr /\ in.StrictCallingConv \in BOOLEAN
           /\ \A i \in Public!Instr : in.ops[i] \subseteq Public!Instr
           /\ \A i \in Public!Instr : in.kind[i] \in {"load", "rmw", "cmpxchg"} =>
                  Public!SameMemory(i) \subseteq Public!Instr
<1>1. Public!IsInput(in)
    BY InputsAssumption DEF Public!InputsAssumption
<1>2. Public!Instr = 1..Len(in.kind) /\ Len(in.kind) \in Nat
    BY <1>1 DEF Public!IsInput, Public!Instr
<1>3. \A i \in Public!Instr : in.ops[i] \subseteq Public!Instr
    BY <1>1 DEF Public!IsInput, Public!Instr
<1>4. \A i \in Public!Of(Public!Access) : Public!getAccessOperands(i) \subseteq Public!Instr
    BY <1>3 DEF Public!Of, Public!Access, Public!getAccessOperands
<1>5. \A i \in Public!Instr : in.kind[i] \in {"load", "rmw", "cmpxchg"} =>
          Public!SameMemory(i) \subseteq Public!Instr
    <2> SUFFICES ASSUME NEW i \in Public!Instr, in.kind[i] \in {"load", "rmw", "cmpxchg"}
                 PROVE  Public!SameMemory(i) \subseteq Public!Instr
        OBVIOUS
    <2>1. i \in Public!Of(Public!Access)
        BY DEF Public!Of, Public!Access
    <2>2. Public!getAccessOperands(i) \subseteq Public!Instr
        BY <1>4, <2>1
    <2> QED
        BY <1>4, <2>2 DEF Public!SameMemory
<1> QED
    BY <1>1, <1>2, <1>3, <1>5 DEF Public!IsInput, Public!Instr

\* These only depend on the input.
LEMMA PublicUnchanged ==
    ASSUME in' = in
    PROVE  /\ Public!Instr' = Public!Instr /\ Public!Always' = Public!Always
           /\ Public!Public' = Public!Public
           /\ \A i : Public!SameMemory(i)' = Public!SameMemory(i)
           /\ \A R : Public!Closed(R)' <=> Public!Closed(R)
<1>1. Public!Instr' = Public!Instr /\ \A K : Public!Of(K)' = Public!Of(K)
    BY DEF Public!Instr, Public!Of
<1>2. Public!Always' = Public!Always
    BY <1>1 DEF Public!Always
<1>3. \A i : Public!getAccessOperands(i)' = Public!getAccessOperands(i)
    BY DEF Public!getAccessOperands
<1>4. \A i : Public!SameMemory(i)' = Public!SameMemory(i)
    BY <1>1, <1>3 DEF Public!SameMemory, Public!isDefinitelyMustAlias
<1>5. \A R : Public!Closed(R)' <=> Public!Closed(R)
    BY <1>4 DEF Public!Closed
<1>6. Public!Public' = Public!Public
    BY <1>1, <1>2, <1>5 DEF Public!Public
<1> QED
    BY <1>1, <1>2, <1>4, <1>5, <1>6

LEMMA PublicClosed ==
    ASSUME in \in PublicInputs
    PROVE  /\ Public!Public \subseteq Public!Instr
           /\ Public!Always \subseteq Public!Public /\ Public!Closed(Public!Public)
<1>1. Public!Always \subseteq Public!Instr
    <2>1. \A K : \A i \in Public!Of(K) : i \in Public!Instr /\ in.ops[i] \subseteq Public!Instr
        BY PublicInput DEF Public!Of
    <2> QED
        BY <2>1, PublicInput DEF Public!Always
<1>2. Public!Always \subseteq Public!Public /\ Public!Public \subseteq Public!Instr
    BY <1>1 DEF Public!Public
<1>3. Public!Closed(Public!Public)
    BY PublicInput DEF Public!Public, Public!Closed
<1> QED
    BY <1>2, <1>3

LEMMA PublicInit == ASSUME Public!Init PROVE PublicInv
<1>1. in \in PublicInputs /\ cur = in.pub /\ bak = in.pub /\ extra = {} /\ more = 1 /\ next = 1 /\ pc = "pass"
    BY DEF Public!Init
<1>2. cur \subseteq Public!Public
    BY <1>1, PublicClosed DEF Public!Always
<1>3. \A i \in Public!Instr : \A p \in 1..4 : ~Visited(p, i)
    BY <1>1, PublicInput DEF Visited
<1>4. cur \subseteq Public!Instr
    BY <1>1, PublicInput
<1> QED
    BY <1>1, <1>2, <1>3, <1>4, PublicInput DEF PublicInv, AlwaysFound, RulesFulfilled

\* A visit that makes V public, if V is what the rules say.
LEMMA PublicVisit ==
    ASSUME PublicInv, pc = "pass", next \in Public!Instr, NEW V \in SUBSET Public!Public,
           cur' = cur \cup V, next' = next + 1,
           in' = in, bak' = bak, more' = more, pc' = pc,
           extra \subseteq extra', \A i \in extra' : Public!SameMemory(i) \subseteq cur',
           in.kind[next] = "call" /\ in.StrictCallingConv /\ more = 1 => in.ops[next] \cup {next} \subseteq V,
           in.kind[next] = "ret" /\ in.StrictCallingConv /\ more = 3 => in.ops[next] \subseteq V,
           in.kind[next] = "gep" /\ more = 4 => in.ops[next] \subseteq V,
           next \in cur =>
              /\ in.kind[next] = "intrinsic" /\ more = 1 => in.ops[next] \subseteq V
              /\ in.kind[next] \in {"load", "rmw", "cmpxchg"} /\ more = 2 => next \in extra'
              /\ in.kind[next] = "op" /\ more = 4 => in.ops[next] \subseteq V
    PROVE  PublicInv'
<1>1. /\ Public!Instr' = Public!Instr /\ Public!Public' = Public!Public
      /\ \A i : Public!SameMemory(i)' = Public!SameMemory(i)
    BY PublicUnchanged
<1>2. Public!Instr = 1..Len(in.kind) /\ Len(in.kind) \in Nat /\ cur \subseteq Public!Instr
    BY PublicInput, PublicClosed DEF PublicInv
<1>3. \A i \in Public!Instr : \A p \in 1..4 :
          Visited(p, i)' => Visited(p, i) \/ (more = p /\ i = next)
    BY <1>2 DEF Visited, PublicInv
<1>4. AlwaysFound'
    <2> SUFFICES ASSUME NEW i \in Public!Instr
                 PROVE  /\ in.kind[i] = "call" /\ in.StrictCallingConv /\ Visited(1, i)' => in.ops[i] \cup {i} \subseteq cur'
                        /\ in.kind[i] = "ret" /\ in.StrictCallingConv /\ Visited(3, i)' => in.ops[i] \subseteq cur'
                        /\ in.kind[i] = "gep" /\ Visited(4, i)' => in.ops[i] \subseteq cur'
        BY <1>1 DEF AlwaysFound
    <2>1. CASE i = next
        BY <1>3, <2>1 DEF PublicInv, AlwaysFound
    <2>2. CASE i # next
        BY <1>3, <2>2 DEF PublicInv, AlwaysFound
    <2> QED
        BY <2>1, <2>2
<1>5. RulesFulfilled'
    <2> SUFFICES ASSUME cur' = bak', NEW i \in cur'
                 PROVE  /\ in.kind[i] = "intrinsic" /\ Visited(1, i)' => in.ops[i] \subseteq cur'
                        /\ in.kind[i] \in {"load", "rmw", "cmpxchg"} /\ Visited(2, i)' => i \in extra'
                        /\ in.kind[i] = "op" /\ Visited(4, i)' => in.ops[i] \subseteq cur'
        BY DEF RulesFulfilled
    <2>1. cur' = cur /\ cur = bak /\ i \in cur /\ i \in Public!Instr
        BY <1>2 DEF PublicInv
    <2>2. CASE i = next
        BY <1>3, <2>1, <2>2 DEF PublicInv, RulesFulfilled
    <2>3. CASE i # next
        BY <1>3, <2>1, <2>3 DEF PublicInv, RulesFulfilled
    <2> QED
        BY <2>2, <2>3
<1> QED
    BY <1>1, <1>2, <1>4, <1>5 DEF PublicInv

LEMMA PublicVisits ==
    ASSUME PublicInv,
           \/ Public!VisitIntrinsic \/ Public!VisitCall \/ Public!VisitAccess
           \/ Public!VisitReturn \/ Public!VisitOperands \/ Public!Skip
    PROVE  PublicInv'
<1> USE DEF Public!Visiting, Public!Of, Public!Publish
<1>1. pc = "pass" /\ next \in Public!Instr /\ next' = next + 1
      /\ in' = in /\ bak' = bak /\ more' = more /\ pc' = pc
    BY DEF Public!VisitIntrinsic, Public!VisitCall, Public!VisitAccess, Public!VisitReturn,
           Public!VisitOperands, Public!Skip
<1>2. Public!Closed(Public!Public) /\ Public!Always \subseteq Public!Public /\ cur \subseteq Public!Public
      /\ \A i \in extra : Public!SameMemory(i) \subseteq cur
    BY PublicClosed DEF PublicInv
<1>3. CASE Public!VisitIntrinsic
    <2> DEFINE V == IF next \in cur THEN in.ops[next] ELSE {}
    <2>1. in.kind[next] = "intrinsic" /\ more = 1 /\ cur' = cur \cup V /\ extra' = extra
        BY <1>3 DEF Public!VisitIntrinsic
    <2>2. V \in SUBSET Public!Public
        BY <1>2, <2>1 DEF Public!Closed
    <2> QED
        BY <1>1, <1>2, <2>1, <2>2, PublicVisit
<1>4. CASE Public!VisitCall
    <2> DEFINE V == IF in.StrictCallingConv THEN in.ops[next] \cup {next} ELSE {}
    <2>1. in.kind[next] = "call" /\ more = 1 /\ cur' = cur \cup V /\ extra' = extra
        BY <1>4 DEF Public!VisitCall
    <2>2. V \in SUBSET Public!Public
        BY <1>1, <1>2, <2>1 DEF Public!Always
    <2> QED
        BY <1>1, <1>2, <2>1, <2>2, PublicVisit
<1>5. CASE Public!VisitAccess
    <2> DEFINE V == IF next \in cur \ extra THEN Public!SameMemory(next) ELSE {}
    <2>1. in.kind[next] \in {"load", "rmw", "cmpxchg"} /\ more = 2
          /\ cur' = cur \cup V /\ extra' = extra \cup ({next} \cap cur)
        BY <1>5 DEF Public!VisitAccess
    <2>2. V \in SUBSET Public!Public
        BY <1>2, <2>1 DEF Public!Closed
    <2>3. \A i \in extra' : Public!SameMemory(i) \subseteq cur'
        BY <1>2, <2>1
    <2>4. next \in cur => next \in extra'
        BY <2>1
    <2> QED
        BY <1>1, <2>1, <2>2, <2>3, <2>4, PublicVisit
<1>6. CASE Public!VisitReturn
    <2> DEFINE V == IF in.StrictCallingConv THEN in.ops[next] ELSE {}
    <2>1. in.kind[next] = "ret" /\ more = 3 /\ cur' = cur \cup V /\ extra' = extra
        BY <1>6 DEF Public!VisitReturn
    <2>2. V \in SUBSET Public!Public
        BY <1>1, <1>2, <2>1 DEF Public!Always
    <2> QED
        BY <1>1, <1>2, <2>1, <2>2, PublicVisit
<1>7. CASE Public!VisitOperands
    <2> DEFINE V == IF in.kind[next] = "gep" \/ next \in cur THEN in.ops[next] ELSE {}
    <2>1. in.kind[next] \in {"gep", "op"} /\ more = 4 /\ cur' = cur \cup V /\ extra' = extra
        BY <1>7 DEF Public!VisitOperands
    <2>2. in.kind[next] = "gep" => V \in SUBSET Public!Public
        BY <1>1, <1>2, <2>1 DEF Public!Always
    <2>3. in.kind[next] = "op" => V \in SUBSET Public!Public
        BY <1>2, <2>1 DEF Public!Closed
    <2> QED
        BY <1>1, <1>2, <2>1, <2>2, <2>3, PublicVisit
<1>8. CASE Public!Skip
    <2> DEFINE V == {}
    <2>1. in.kind[next] \notin Public!Concerns(more) /\ cur' = cur \cup V /\ extra' = extra
        BY <1>8 DEF Public!Skip
    <2>2. /\ more = 1 => in.kind[next] \notin {"intrinsic", "call"}
          /\ more = 2 => in.kind[next] \notin {"load", "rmw", "cmpxchg"}
          /\ more = 3 => in.kind[next] # "ret"
          /\ more = 4 => in.kind[next] \notin {"gep", "op"}
        BY <2>1 DEF Public!Concerns
    <2>3. V \in SUBSET Public!Public /\ \A i \in extra' : Public!SameMemory(i) \subseteq cur'
        BY <1>2, <2>1
    <2>4. extra \subseteq extra'
        BY <2>1
    <2> HIDE DEF V
    <2> QED
        BY <1>1, <2>1, <2>2, <2>3, <2>4, PublicVisit
<1> QED
    BY <1>3, <1>4, <1>5, <1>6, <1>7, <1>8

LEMMA PublicEndPart == ASSUME PublicInv, Public!EndPart PROVE PublicInv'
<1>1. next \notin Public!Instr /\ more \in 1..3 /\ more' = more + 1 /\ next' = 1
      /\ in' = in /\ cur' = cur /\ bak' = bak /\ extra' = extra /\ pc' = pc
    BY DEF Public!EndPart, PublicInv
<1>2. /\ Public!Instr' = Public!Instr /\ Public!Public' = Public!Public
      /\ Public!Always' = Public!Always
      /\ \A i : Public!SameMemory(i)' = Public!SameMemory(i)
      /\ \A R : Public!Closed(R)' <=> Public!Closed(R)
    BY <1>1, PublicUnchanged
<1>3. Public!Instr = 1..Len(in.kind) /\ Len(in.kind) \in Nat /\ cur \subseteq Public!Instr
    BY PublicInput, PublicClosed DEF PublicInv
<1>4. \A i \in Public!Instr : \A p \in 1..4 : Visited(p, i)' => Visited(p, i)
    BY <1>1, <1>3 DEF Visited, PublicInv
<1>5. AlwaysFound' /\ RulesFulfilled'
    BY <1>1, <1>2, <1>3, <1>4 DEF PublicInv, AlwaysFound, RulesFulfilled
<1>6. (pc = "done" => Public!Always \subseteq cur /\ Public!Closed(cur))'
    BY <1>1 DEF Public!EndPart
<1> QED
    BY <1>1, <1>2, <1>3, <1>5, <1>6 DEF PublicInv

LEMMA PublicEndPass == ASSUME PublicInv, Public!EndPass PROVE PublicInv'
<1>1. next \notin Public!Instr /\ more = 4 /\ pc = "pass"
      /\ in' = in /\ cur' = cur /\ extra' = extra
    BY DEF Public!EndPass
<1>2. /\ Public!Instr' = Public!Instr /\ Public!Public' = Public!Public
      /\ Public!Always' = Public!Always
      /\ \A i : Public!SameMemory(i)' = Public!SameMemory(i)
      /\ \A R : Public!Closed(R)' <=> Public!Closed(R)
    BY <1>1, PublicUnchanged
<1>3. Public!Instr = 1..Len(in.kind) /\ Len(in.kind) \in Nat /\ cur \subseteq Public!Instr
    BY PublicInput, PublicClosed DEF PublicInv
<1>4. CASE bak' = cur /\ more' = 1 /\ next' = 1 /\ pc' = pc
    <2>1. \A i \in Public!Instr : \A p \in 1..4 : ~Visited(p, i)'
        BY <1>3, <1>4 DEF Visited
    <2>2. \A i \in Public!Instr : ~Visited(1, i)' /\ ~Visited(2, i)' /\ ~Visited(3, i)' /\ ~Visited(4, i)'
        BY <2>1
    <2>3. AlwaysFound'
        BY <1>2, <2>2 DEF AlwaysFound
    <2>4. RulesFulfilled'
        BY <1>1, <1>3, <2>2 DEF RulesFulfilled
    <2> QED
        BY <1>1, <1>2, <1>3, <1>4, <2>3, <2>4 DEF PublicInv
<1>5. CASE cur = bak /\ pc' = "done" /\ bak' = bak /\ more' = more /\ next' = next
    <2>1. \A i \in Public!Instr : \A p \in 1..4 : Visited(p, i)
        BY <1>1, <1>3 DEF Visited, PublicInv
    <2>2. Public!Always \subseteq cur
        <3>1. in.pub \subseteq cur /\ \A i \in Public!Instr : in.kind[i] = "gep" => in.ops[i] \subseteq cur
            BY <2>1 DEF PublicInv, AlwaysFound
        <3>2. in.StrictCallingConv => \A i \in Public!Instr :
                  /\ in.kind[i] = "call" => in.ops[i] \cup {i} \subseteq cur
                  /\ in.kind[i] = "ret" => in.ops[i] \subseteq cur
            BY <2>1 DEF PublicInv, AlwaysFound
        <3> QED
            BY <3>1, <3>2 DEF Public!Always, Public!Of
    <2>3. Public!Closed(cur)
        BY <1>3, <1>5, <2>1 DEF PublicInv, RulesFulfilled, Public!Closed
    <2>4. AlwaysFound' /\ RulesFulfilled'
        BY <1>1, <1>2, <1>5 DEF PublicInv, AlwaysFound, RulesFulfilled, Visited
    <2> QED
        BY <1>1, <1>2, <1>5, <2>2, <2>3, <2>4 DEF PublicInv
<1> QED
    BY <1>4, <1>5 DEF Public!EndPass

\* The steps that end the compiler, and the ones that do nothing.
LEMMA PublicStutter ==
    ASSUME PublicInv, UNCHANGED <<in, cur, bak, extra, more, next>>, pc' \in {pc, "abort"}
    PROVE  PublicInv'
<1>1. /\ Public!Instr' = Public!Instr /\ Public!Public' = Public!Public
      /\ Public!Always' = Public!Always
      /\ \A i : Public!SameMemory(i)' = Public!SameMemory(i)
      /\ \A R : Public!Closed(R)' <=> Public!Closed(R)
    BY PublicUnchanged
<1>2. AlwaysFound' /\ RulesFulfilled'
    BY <1>1 DEF PublicInv, AlwaysFound, RulesFulfilled, Visited
<1> QED
    BY <1>1, <1>2 DEF PublicInv

LEMMA PublicIsExact == ASSUME PublicInv PROVE Public!PublicExact
<1>1. ASSUME pc = "done" PROVE Public!Public \subseteq cur
    <2>1. cur \in SUBSET Public!Instr /\ Public!Always \subseteq cur /\ Public!Closed(cur)
        BY <1>1, PublicClosed DEF PublicInv
    <2> QED
        BY <2>1 DEF Public!Public
<1> QED
    BY <1>1 DEF Public!PublicExact, Public!secret, PublicInv

\* An instruction is secret exactly if no chain of operands and memory cells makes
\* it public, although every access is propagated only once.
THEOREM NonspeculativeTaintExact == Spec => []PublicExact
<1> DEFINE Inv == pass = "public" => PublicInv
<1>1. Init => Inv
    BY PublicInit DEF Init
<1>2. Inv /\ [Next]_vars => Inv'
    <2> SUFFICES ASSUME Inv, [Next]_vars, pass' = "public" PROVE PublicInv'
        OBVIOUS
    <2>1. CASE UNCHANGED vars
        BY <2>1, PublicStutter DEF vars
    <2>2. CASE Next
        <3>1. pass = "public" /\ Public!Next
            BY <2>2 DEF Next
        <3>2. CASE Public!Abort
            BY <3>1, <3>2, PublicStutter DEF Public!Abort
        <3>3. CASE Public!Stop
            BY <3>1, <3>3, PublicStutter DEF Public!Stop, Public!vars
        <3> QED
            BY <3>1, <3>2, <3>3, PublicVisits, PublicEndPart, PublicEndPass DEF Public!Next
    <2> QED
        BY <2>1, <2>2
<1>3. Inv => PublicExact
    BY PublicIsExact DEF PublicExact
<1> QED
    BY <1>1, <1>2, <1>3, PTL DEF Spec

-----------------------------------------------------------------------------
(* ContractChecker.  `cur` is vals, `bak` is vals_bak.                      *)

\* The conditions of Closed on the value v alone.
ClosedAt(v, R) ==
    /\ in.kind[v] = "ext" => {v} \cup in.ops[v] \subseteq R
    /\ in.sens[v] \subseteq R
    /\ in.kind[v] \in {"op", "addr"} /\ v \in R => in.ops[v] \subseteq R
    /\ in.kind[v] = "op" /\ in.ops[v] \subseteq R => v \in R
    /\ in.kind[v] = "load" /\ in.dep[v] \in Checker!Of(in, "store")
          => (v \in R <=> in.ops[in.dep[v]] \subseteq R)

\* As long as a pass has changed nothing, the rules are fulfilled where it was.
CheckerInv ==
    /\ in \in ContractInputs
    /\ bak \subseteq cur /\ cur \subseteq Checker!Public
    /\ in.annotated \subseteq cur
    /\ \A v \in in.ptr : in.kind[v] = "arg" \/ v < next => v \in cur
    /\ next \in 1..(Len(in.kind) + 1)
    /\ cur = bak => \A v \in Checker!Value : v < next => ClosedAt(v, cur)
    /\ pc \in {"ok", "fail"} =>
          /\ in.ptr \subseteq cur /\ Checker!Closed(cur)
          /\ pc = "ok" <=> Checker!Ok

LEMMA CheckerInput ==
    ASSUME in \in ContractInputs
    PROVE  /\ Checker!Value = 1..Len(in.kind) /\ Len(in.kind) \in Nat
           /\ in.ptr \subseteq Checker!Value /\ in.annotated \subseteq Checker!Value
           /\ \A v \in Checker!Value :
                 /\ in.ops[v] \subseteq Checker!Value /\ in.sens[v] \subseteq Checker!Value
                 /\ in.kind[v] = "arg" => in.sens[v] = {}
<1>1. Checker!IsInput(in)
    BY InputsAssumption DEF Checker!InputsAssumption
<1>2. Checker!Value = 1..Len(in.kind) /\ Len(in.kind) \in Nat
    BY <1>1 DEF Checker!IsInput, Checker!Value
<1>3. in.ops \in [Checker!Value -> SUBSET Checker!Value]
      /\ in.sens \in [Checker!Value -> SUBSET Checker!Value]
    BY <1>1 DEF Checker!IsInput, Checker!Value
<1> QED
    BY <1>1, <1>2, <1>3 DEF Checker!IsInput, Checker!Value

\* These only depend on the input.
LEMMA CheckerUnchanged ==
    ASSUME in' = in
    PROVE  /\ Checker!Value' = Checker!Value /\ Checker!Public' = Checker!Public
           /\ \A R : Checker!Closed(R)' <=> Checker!Closed(R)
           /\ \A v, R : ClosedAt(v, R)' <=> ClosedAt(v, R)
<1>1. Checker!Value' = Checker!Value /\ \A k : Checker!Of(in, k)' = Checker!Of(in, k)
    BY DEF Checker!Value, Checker!Of
<1>2. \A R : Checker!Closed(R)' <=> Checker!Closed(R)
    BY <1>1 DEF Checker!Closed
<1>3. \A v, R : ClosedAt(v, R)' <=> ClosedAt(v, R)
    BY <1>1 DEF ClosedAt
<1>4. Checker!Public' = Checker!Public
    BY <1>1, <1>2 DEF Checker!Public
<1> QED
    BY <1>1, <1>2, <1>3, <1>4

LEMMA CheckerClosed ==
    ASSUME in \in ContractInputs
    PROVE  /\ Checker!Public \subseteq Checker!Value
           /\ in.ptr \cup in.annotated \subseteq Checker!Public
           /\ Checker!Closed(Checker!Public)
           /\ \A R : Checker!Closed(R) <=> \A v \in Checker!Value : ClosedAt(v, R)
<1>1. \A R : Checker!Closed(R) <=> \A v \in Checker!Value : ClosedAt(v, R)
    BY DEF Checker!Closed, ClosedAt
<1>2. Checker!Public \subseteq Checker!Value /\ in.ptr \cup in.annotated \subseteq Checker!Public
    BY CheckerInput DEF Checker!Public
<1>3. ASSUME NEW v \in Checker!Value PROVE ClosedAt(v, Checker!Public)
    <2>1. \A R \in SUBSET Checker!Value :
              in.ptr \cup in.annotated \subseteq R /\ Checker!Closed(R) =>
                  ClosedAt(v, R) /\ Checker!Public \subseteq R
        BY <1>1, <1>3 DEF Checker!Public
    <2>2. \A w \in Checker!Value :
              w \in Checker!Public <=>
                  \A R \in SUBSET Checker!Value :
                      in.ptr \cup in.annotated \subseteq R /\ Checker!Closed(R) => w \in R
        BY DEF Checker!Public
    <2>3. in.kind[v] = "ext" => {v} \cup in.ops[v] \subseteq Checker!Public
        BY <1>3, <2>1, <2>2, CheckerInput DEF ClosedAt
    <2>4. in.sens[v] \subseteq Checker!Public
        BY <1>3, <2>1, <2>2, CheckerInput DEF ClosedAt
    <2>5. in.kind[v] \in {"op", "addr"} /\ v \in Checker!Public => in.ops[v] \subseteq Checker!Public
        BY <1>3, <2>1, <2>2, CheckerInput DEF ClosedAt
    <2>6. in.kind[v] = "op" /\ in.ops[v] \subseteq Checker!Public => v \in Checker!Public
        BY <1>3, <2>1, <2>2 DEF ClosedAt
    <2>7. ASSUME in.kind[v] = "load", in.dep[v] \in Checker!Of(in, "store")
          PROVE  v \in Checker!Public <=> in.ops[in.dep[v]] \subseteq Checker!Public
        <3>1. in.dep[v] \in Checker!Value
            BY <2>7 DEF Checker!Of, Checker!Value
        <3>2. in.ops[in.dep[v]] \subseteq Checker!Value
            BY <3>1, CheckerInput
        <3>3. \A R \in SUBSET Checker!Value :
                  in.ptr \cup in.annotated \subseteq R /\ Checker!Closed(R) =>
                      (v \in R <=> in.ops[in.dep[v]] \subseteq R)
            BY <2>1, <2>7 DEF ClosedAt
        <3>4. v \in Checker!Public => in.ops[in.dep[v]] \subseteq Checker!Public
            BY <2>1, <2>2, <3>2, <3>3
        <3>5. in.ops[in.dep[v]] \subseteq Checker!Public => v \in Checker!Public
            BY <1>3, <2>1, <2>2, <3>3
        <3> QED
            BY <3>4, <3>5
    <2> QED
        BY <2>3, <2>4, <2>5, <2>6, <2>7 DEF ClosedAt
<1> QED
    BY <1>1, <1>2, <1>3

\* The four parts of a visit only add, and only what the rules allow.
LEMMA CheckerAdds ==
    ASSUME in \in ContractInputs, NEW v \in Checker!Value, NEW R,
           in.ptr \cup in.annotated \subseteq R, ClosedAt(v, R)
    PROVE  \A P : P \subseteq R =>
              /\ P \subseteq Checker!Contract(v, P) /\ Checker!Contract(v, P) \subseteq R
              /\ P \subseteq Checker!Backwards(v, P) /\ Checker!Backwards(v, P) \subseteq R
              /\ P \subseteq Checker!Forwards(v, P) /\ Checker!Forwards(v, P) \subseteq R
              /\ P \subseteq Checker!ThroughMemory(v, P) /\ Checker!ThroughMemory(v, P) \subseteq R
<1> SUFFICES ASSUME NEW P, P \subseteq R
             PROVE  /\ P \subseteq Checker!Contract(v, P) /\ Checker!Contract(v, P) \subseteq R
                    /\ P \subseteq Checker!Backwards(v, P) /\ Checker!Backwards(v, P) \subseteq R
                    /\ P \subseteq Checker!Forwards(v, P) /\ Checker!Forwards(v, P) \subseteq R
                    /\ P \subseteq Checker!ThroughMemory(v, P) /\ Checker!ThroughMemory(v, P) \subseteq R
    OBVIOUS
<1>1. P \subseteq Checker!Contract(v, P) /\ Checker!Contract(v, P) \subseteq R
    BY DEF Checker!Contract, ClosedAt
<1>2. P \subseteq Checker!Backwards(v, P) /\ Checker!Backwards(v, P) \subseteq R
    BY DEF Checker!Backwards, ClosedAt
<1>3. P \subseteq Checker!Forwards(v, P) /\ Checker!Forwards(v, P) \subseteq R
    BY DEF Checker!Forwards, ClosedAt
<1>4. P \subseteq Checker!ThroughMemory(v, P) /\ Checker!ThroughMemory(v, P) \subseteq R
    BY DEF Checker!ThroughMemory, ClosedAt
<1> QED
    BY <1>1, <1>2, <1>3, <1>4

\* If none of them adds anything, the rules are fulfilled at v.
LEMMA CheckerSettled ==
    ASSUME in \in ContractInputs, NEW v \in Checker!Value, NEW P,
           Checker!Contract(v, P) = P, Checker!Backwards(v, P) = P,
           Checker!Forwards(v, P) = P, Checker!ThroughMemory(v, P) = P
    PROVE  ClosedAt(v, P)
<1>1. in.sens[v] \subseteq P /\ (in.kind[v] = "ext" => {v} \cup in.ops[v] \subseteq P)
    BY DEF Checker!Contract
<1>2. in.kind[v] \in {"op", "addr"} /\ v \in P => in.ops[v] \subseteq P
    BY DEF Checker!Backwards
<1>3. in.kind[v] = "op" /\ in.ops[v] \subseteq P => v \in P
    BY DEF Checker!Forwards
<1>4. in.kind[v] = "load" /\ in.dep[v] \in Checker!Of(in, "store")
          => (v \in P <=> in.ops[in.dep[v]] \subseteq P)
    BY DEF Checker!ThroughMemory
<1> QED
    BY <1>1, <1>2, <1>3, <1>4 DEF ClosedAt

LEMMA CheckerInit == ASSUME Checker!Init PROVE CheckerInv
<1>1. /\ in \in ContractInputs /\ bak = cur /\ next = 1 /\ pc = "pass"
      /\ cur = (Checker!Of(in, "arg") \cap in.ptr) \cup in.annotated
    BY DEF Checker!Init
<1>2. \A v \in Checker!Value : ~(v < next)
    BY <1>1, CheckerInput
<1>3. \A v \in in.ptr : in.kind[v] = "arg" \/ v < next => v \in cur
    BY <1>1, <1>2, CheckerInput DEF Checker!Of, Checker!Value
<1> QED
    BY <1>1, <1>2, <1>3, CheckerInput, CheckerClosed DEF CheckerInv

LEMMA CheckerVisit == ASSUME CheckerInv, Checker!Visit PROVE CheckerInv'
<1>1. /\ pc = "pass" /\ next \in Checker!Value /\ next' = next + 1
      /\ in' = in /\ bak' = bak /\ pc' = pc
    BY DEF Checker!Visit
<1>2. /\ Checker!Value' = Checker!Value /\ Checker!Public' = Checker!Public
      /\ \A v, R : ClosedAt(v, R)' <=> ClosedAt(v, R)
    BY <1>1, CheckerUnchanged
<1>3. Checker!Value = 1..Len(in.kind) /\ Len(in.kind) \in Nat
    BY CheckerInput DEF CheckerInv
<1>4. in.ptr \cup in.annotated \subseteq Checker!Public /\ ClosedAt(next, Checker!Public)
    BY <1>1, CheckerClosed DEF CheckerInv
<1> DEFINE C == Checker!Contract(next, cur)
           B == Checker!Backwards(next, C)
           F == Checker!Forwards(next, B)
           M == Checker!ThroughMemory(next, F)
<1>5. CASE in.kind[next] = "arg"
    <2>1. cur' = cur
        BY <1>5 DEF Checker!Visit
    <2>2. ClosedAt(next, cur)
        BY <1>1, <1>5, CheckerInput DEF ClosedAt, CheckerInv
    <2>3. \A v \in Checker!Value : v < next + 1 => v = next \/ v < next
        BY <1>1, <1>3
    <2>4. cur = bak => \A v \in Checker!Value : v < next + 1 => ClosedAt(v, cur)
        BY <2>2, <2>3 DEF CheckerInv
    <2>5. (cur = bak => \A v \in Checker!Value : v < next => ClosedAt(v, cur))'
        BY <1>1, <1>2, <2>1, <2>4
    <2>6. \A v \in in.ptr : in.kind[v] = "arg" \/ v < next + 1 => v \in cur
        BY <1>1, <1>5, <2>3, CheckerInput DEF CheckerInv
    <2> QED
        BY <1>1, <1>2, <1>3, <2>1, <2>5, <2>6 DEF CheckerInv
<1>6. CASE in.kind[next] # "arg"
    <2>1. cur' = M
        BY <1>6 DEF Checker!Visit
    <2>2. /\ cur \subseteq C /\ C \subseteq B /\ B \subseteq F /\ F \subseteq M
          /\ M \subseteq Checker!Public
        <3> HIDE DEF C, B, F, M
        <3>1. cur \subseteq C /\ C \subseteq Checker!Public
            BY <1>1, <1>4, CheckerAdds DEF CheckerInv, C
        <3>2. C \subseteq B /\ B \subseteq Checker!Public
            BY <1>1, <1>4, <3>1, CheckerAdds DEF CheckerInv, B
        <3>3. B \subseteq F /\ F \subseteq Checker!Public
            BY <1>1, <1>4, <3>2, CheckerAdds DEF CheckerInv, F
        <3>4. F \subseteq M /\ M \subseteq Checker!Public
            BY <1>1, <1>4, <3>3, CheckerAdds DEF CheckerInv, M
        <3> QED
            BY <3>1, <3>2, <3>3, <3>4
    <2>3. next \in in.ptr => next \in C
        BY DEF Checker!Contract
    <2>4. ASSUME cur' = bak' PROVE ClosedAt(next, cur)
        <3> HIDE DEF C, B, F, M
        <3>1. C = cur /\ B = cur /\ F = cur /\ M = cur
            BY <1>1, <2>1, <2>2, <2>4 DEF CheckerInv
        <3>2. /\ Checker!Contract(next, cur) = cur /\ Checker!Backwards(next, cur) = cur
              /\ Checker!Forwards(next, cur) = cur /\ Checker!ThroughMemory(next, cur) = cur
            BY <3>1 DEF C, B, F, M
        <3> QED
            BY <1>1, <3>2, CheckerSettled DEF CheckerInv
    <2> HIDE DEF C, B, F, M
    <2>5. bak' \subseteq cur' /\ cur \subseteq cur' /\ cur' \subseteq Checker!Public'
        BY <1>1, <1>2, <2>1, <2>2 DEF CheckerInv
    <2>6. \A v \in in.ptr : in.kind[v] = "arg" \/ v < next + 1 => v \in cur'
        BY <1>1, <1>3, <2>1, <2>2, <2>3, CheckerInput DEF CheckerInv
    <2>7. cur' = bak' => \A v \in Checker!Value : v < next + 1 => ClosedAt(v, cur')
        <3> SUFFICES ASSUME cur' = bak', NEW v \in Checker!Value, v < next + 1
                     PROVE  ClosedAt(v, cur')
            OBVIOUS
        <3>1. cur' = cur /\ cur = bak
            BY <1>1, <2>5 DEF CheckerInv
        <3>2. v = next \/ v < next
            BY <1>1, <1>3
        <3>3. ClosedAt(v, cur)
            BY <2>4, <3>1, <3>2 DEF CheckerInv
        <3> QED
            BY <3>1, <3>3
    <2>8. (cur = bak => \A v \in Checker!Value : v < next => ClosedAt(v, cur))'
        BY <1>1, <1>2, <2>7
    <2> QED
        BY <1>1, <1>2, <1>3, <2>5, <2>6, <2>8 DEF CheckerInv
<1> QED
    BY <1>5, <1>6

LEMMA CheckerEndPass == ASSUME CheckerInv, Checker!EndPass PROVE CheckerInv'
<1>1. next \notin Checker!Value /\ in' = in /\ cur' = cur /\ pc = "pass"
    BY DEF Checker!EndPass
<1>2. /\ Checker!Value' = Checker!Value /\ Checker!Public' = Checker!Public
      /\ \A R : Checker!Closed(R)' <=> Checker!Closed(R)
      /\ \A v, R : ClosedAt(v, R)' <=> ClosedAt(v, R)
    BY <1>1, CheckerUnchanged
<1>3. Checker!Value = 1..Len(in.kind) /\ Len(in.kind) \in Nat /\ in.ptr \subseteq Checker!Value
    BY CheckerInput DEF CheckerInv
<1>4. \A v \in Checker!Value : v < next
    BY <1>1, <1>3 DEF CheckerInv
<1>5. in.ptr \subseteq cur
    BY <1>3, <1>4 DEF CheckerInv
<1>6. CASE bak' = cur /\ next' = 1 /\ pc' = pc
    <2>1. \A v \in Checker!Value : ~(v < next')
        BY <1>3, <1>6
    <2> QED
        BY <1>1, <1>2, <1>3, <1>5, <1>6, <2>1 DEF CheckerInv
<1>7. CASE cur = bak /\ pc' = (IF Checker!Ok THEN "ok" ELSE "fail") /\ bak' = bak /\ next' = next
    <2>1. Checker!Closed(cur)
        BY <1>4, <1>7, CheckerClosed DEF CheckerInv
    <2>2. Checker!Closed(cur)'
        BY <1>1, <1>2, <2>1
    <2>3. Checker!Ok' <=> Checker!Ok
        BY <1>1 DEF Checker!Ok, Checker!Of
    <2>4. (\A v \in Checker!Value : v < next => ClosedAt(v, cur))'
        BY <1>1, <1>2, <1>7 DEF CheckerInv
    <2> QED
        BY <1>1, <1>2, <1>5, <1>7, <2>2, <2>3, <2>4 DEF CheckerInv
<1> QED
    BY <1>6, <1>7 DEF Checker!EndPass

LEMMA CheckerStutter ==
    ASSUME CheckerInv, UNCHANGED <<in, cur, bak, next>>, pc' \in {pc, "abort"}
    PROVE  CheckerInv'
<1>1. /\ Checker!Value' = Checker!Value /\ Checker!Public' = Checker!Public
      /\ \A R : Checker!Closed(R)' <=> Checker!Closed(R)
      /\ \A v, R : ClosedAt(v, R)' <=> ClosedAt(v, R)
    BY CheckerUnchanged
<1>2. Checker!Ok' <=> Checker!Ok
    BY DEF Checker!Ok, Checker!Of
<1>3. Checker!Closed(cur)' <=> Checker!Closed(cur)
    BY <1>1
<1> QED
    BY <1>1, <1>2, <1>3 DEF CheckerInv

LEMMA CheckerExact == ASSUME CheckerInv PROVE Checker!VerdictExact
<1>1. ASSUME pc \in {"ok", "fail"} PROVE Checker!Public \subseteq cur
    <2>1. cur \in SUBSET Checker!Value /\ in.ptr \cup in.annotated \subseteq cur /\ Checker!Closed(cur)
        BY <1>1, CheckerClosed DEF CheckerInv
    <2> QED
        BY <2>1 DEF Checker!Public
<1> QED
    BY <1>1 DEF Checker!VerdictExact, Checker!Ok, CheckerInv

\* The checker accepts a function exactly if its arguments and its returned values
\* are public by some chain of the rules, in whatever order it visits the values.
THEOREM ContractVerdictExact == Spec => []VerdictExact
<1> DEFINE Inv == pass = "checker" => CheckerInv
<1>1. Init => Inv
    BY CheckerInit DEF Init
<1>2. Inv /\ [Next]_vars => Inv'
    <2> SUFFICES ASSUME Inv, [Next]_vars, pass' = "checker" PROVE CheckerInv'
        OBVIOUS
    <2>1. CASE UNCHANGED vars
        BY <2>1, CheckerStutter DEF vars
    <2>2. CASE Next
        <3>1. pass = "checker" /\ Checker!Next
            BY <2>2 DEF Next
        <3>2. CASE Checker!Abort
            BY <3>1, <3>2, CheckerStutter DEF Checker!Abort
        <3>3. CASE Checker!Stop
            BY <3>1, <3>3, CheckerStutter DEF Checker!Stop, Checker!vars
        <3> QED
            BY <3>1, <3>2, <3>3, CheckerVisit, CheckerEndPass DEF Checker!Next
    <2> QED
        BY <2>1, <2>2
<1>3. Inv => VerdictExact
    BY CheckerExact DEF VerdictExact
<1> QED
    BY <1>1, <1>2, <1>3, PTL DEF Spec

-----------------------------------------------------------------------------
(* ConstantAddress.  `cur` is ca_args, `extra` is todo, `more` is tagged.   *)

\* The call c is no reason to take back the argument a.
Confirmed(c, a) == a \in DOMAIN c.act /\ Address!isConstantAddress(c.act[a])

\* This pass has looked at the argument a of the call c.
Seen(c, a) == in.fun[a] < next \/ (in.fun[a] = next /\ <<c, a>> \notin extra)

\* As long as a pass has taken nothing back, the calls it has seen confirm all
\* that is left.
AddressInv ==
    /\ in \in AddressModules
    /\ cur \subseteq bak /\ cur \subseteq {a \in Address!Argument : in.fun[a] \in in.direct}
    /\ Address!Argument \ Address!Dynamic \subseteq cur
    /\ next \in Address!Function /\ extra \subseteq Address!Visits(in, next)
    /\ cur = bak =>
          \A a \in cur : \A c \in in.calls : c.callee = in.fun[a] /\ Seen(c, a) => Confirmed(c, a)
    /\ pc \in {"tag", "done"} => cur = bak /\ next = NumFunctions /\ extra = {}
    /\ pc = "done" => more = {p \in in.stores : Address!isConstantAddress(p)}

LEMMA AddressInput ==
    ASSUME in \in AddressModules
    PROVE  /\ Address!Argument = {p \in Address!Pointer : in.kind[p] = "arg"}
           /\ \A a \in Address!Argument : in.fun[a] \in Address!Function
           /\ \A p \in Address!Pointer :
                 /\ in.kind[p] \in {"arg", "const", "dyn", "via", "other"}
                 /\ in.ops[p] \subseteq Address!Pointer
           /\ in.stores \subseteq Address!Pointer
           /\ \A c \in in.calls : \A a \in DOMAIN c.act :
                 /\ a \in Address!Argument /\ in.fun[a] = c.callee
                 /\ c.act[a] \in Address!Pointer
<1>1. Address!IsModule(in)
    BY InputsAssumption DEF Address!ModulesAssumption
<1>2. in.fun \in [{p \in Address!Pointer : in.kind[p] = "arg"} -> Address!Function]
    BY <1>1 DEF Address!IsModule, Address!Pointer
<1>3. in.ops \in [Address!Pointer -> SUBSET Address!Pointer]
    BY <1>1 DEF Address!IsModule, Address!Pointer
<1> QED
    BY <1>1, <1>2, <1>3 DEF Address!IsModule, Address!Pointer, Address!Argument

\* These only depend on the input, or on the map as well.
LEMMA AddressUnchanged ==
    ASSUME in' = in
    PROVE  /\ Address!Pointer' = Address!Pointer /\ Address!Argument' = Address!Argument
           /\ Address!Dynamic' = Address!Dynamic
           /\ cur' = cur =>
                 /\ \A p : Address!isConstantAddress(p)' <=> Address!isConstantAddress(p)
                 /\ \A c, a : Confirmed(c, a)' <=> Confirmed(c, a)
<1>1. Address!Pointer' = Address!Pointer /\ Address!Argument' = Address!Argument
    BY DEF Address!Pointer, Address!Argument
<1>2. \A p : Address!Source(p)' <=> Address!Source(p)
    BY DEF Address!Source
<1>3. \A R : Address!IsClosed(R)' <=> Address!IsClosed(R)
    BY <1>1 DEF Address!IsClosed
<1>4. Address!Dynamic' = Address!Dynamic
    BY <1>1, <1>2, <1>3 DEF Address!Dynamic
<1>5. cur' = cur => \A p : Address!isConstantAddress(p)' <=> Address!isConstantAddress(p)
    BY <1>1 DEF Address!isConstantAddress
<1>6. cur' = cur => \A c, a : Confirmed(c, a)' <=> Confirmed(c, a)
    BY <1>5 DEF Confirmed
<1> QED
    BY <1>1, <1>4, <1>5, <1>6

\* What is dynamic has all sources and is closed.
LEMMA DynamicClosed ==
    ASSUME in \in AddressModules
    PROVE  /\ Address!Dynamic \subseteq Address!Pointer
           /\ \A p \in Address!Pointer : Address!Source(p) => p \in Address!Dynamic
           /\ Address!IsClosed(Address!Dynamic)
<1>1. Address!Dynamic \subseteq Address!Pointer
      /\ \A p \in Address!Pointer : Address!Source(p) => p \in Address!Dynamic
    BY DEF Address!Dynamic
<1>2. \A q \in Address!Pointer :
          in.kind[q] = "via" /\ in.ops[q] \cap Address!Dynamic # {} => q \in Address!Dynamic
    <2> SUFFICES ASSUME NEW q \in Address!Pointer, NEW p \in in.ops[q],
                        in.kind[q] = "via", p \in Address!Dynamic
                 PROVE  q \in Address!Dynamic
        OBVIOUS
    <2> QED
        BY DEF Address!Dynamic, Address!IsClosed
<1>3. \A c \in in.calls : \A a \in DOMAIN c.act :
          c.act[a] \in Address!Dynamic => a \in Address!Dynamic
    <2> SUFFICES ASSUME NEW c \in in.calls, NEW a \in DOMAIN c.act, c.act[a] \in Address!Dynamic
                 PROVE  a \in Address!Dynamic
        OBVIOUS
    <2>1. a \in Address!Pointer
        BY AddressInput
    <2> QED
        BY <2>1 DEF Address!Dynamic, Address!IsClosed
<1> QED
    BY <1>1, <1>2, <1>3 DEF Address!IsClosed

\* If no argument that is not dynamic has been taken back, neither is a pointer.
LEMMA NotDynamicIsConstant ==
    ASSUME in \in AddressModules, Address!Argument \ Address!Dynamic \subseteq cur,
           NEW p \in Address!Pointer \ Address!Dynamic
    PROVE  Address!isConstantAddress(p)
<1> DEFINE asked == Address!Pointer \ Address!Dynamic
<1>1. ASSUME NEW q \in asked
      PROVE  /\ in.kind[q] # "dyn"
             /\ in.kind[q] = "arg" => q \in cur
             /\ in.kind[q] = "via" => in.ops[q] \subseteq asked
    <2>1. ~Address!Source(q)
        BY <1>1, DynamicClosed
    <2>2. in.kind[q] # "dyn"
        BY <2>1 DEF Address!Source
    <2>3. in.kind[q] = "arg" => q \in cur
        BY <1>1, AddressInput
    <2>4. in.kind[q] = "via" => in.ops[q] \subseteq asked
        BY <1>1, AddressInput, DynamicClosed DEF Address!IsClosed
    <2> QED
        BY <2>2, <2>3, <2>4
<1>2. asked \in SUBSET Address!Pointer /\ p \in asked
    OBVIOUS
<1> HIDE DEF asked
<1> QED
    BY <1>1, <1>2 DEF Address!isConstantAddress

\* If the calls confirm all that is left, no constant address is dynamic.
LEMMA ConstantIsNotDynamic ==
    ASSUME in \in AddressModules, \A a \in cur : in.fun[a] \in in.direct,
           \A a \in cur : \A c \in in.calls : c.callee = in.fun[a] => Confirmed(c, a)
    PROVE  \A p \in Address!Dynamic : ~Address!isConstantAddress(p)
<1> DEFINE R == {p \in Address!Pointer : ~Address!isConstantAddress(p)}
<1>1. \A p : Address!isConstantAddress(p) => in.kind[p] # "dyn" /\ (in.kind[p] = "arg" => p \in cur)
    BY DEF Address!isConstantAddress
<1>2. ASSUME NEW p \in Address!Pointer, Address!Source(p)
      PROVE  ~Address!isConstantAddress(p)
    BY <1>1, <1>2 DEF Address!Source, Confirmed
<1>3. ASSUME NEW q \in Address!Pointer, in.kind[q] = "via", Address!isConstantAddress(q)
      PROVE  \A p \in in.ops[q] : Address!isConstantAddress(p)
    BY <1>3 DEF Address!isConstantAddress
<1>4. ASSUME NEW c \in in.calls, NEW a \in DOMAIN c.act, Address!isConstantAddress(a)
      PROVE  Address!isConstantAddress(c.act[a])
    <2>1. a \in Address!Argument /\ in.fun[a] = c.callee /\ in.kind[a] = "arg"
        BY AddressInput
    <2>2. a \in cur
        BY <1>1, <1>4, <2>1
    <2> QED
        BY <2>1, <2>2 DEF Confirmed
<1>5. Address!IsClosed(R)
    <2>1. \A q \in Address!Pointer : in.kind[q] = "via" /\ in.ops[q] \cap R # {} => q \in R
        BY <1>3
    <2>2. \A c \in in.calls : \A a \in DOMAIN c.act : c.act[a] \in R => a \in R
        BY <1>4, AddressInput
    <2> HIDE DEF R
    <2> QED
        BY <2>1, <2>2 DEF Address!IsClosed
<1>6. R \in SUBSET Address!Pointer /\ {p \in Address!Pointer : Address!Source(p)} \subseteq R
    BY <1>2
<1>7. Address!Dynamic \subseteq R
    <2> HIDE DEF R
    <2> QED
        BY <1>5, <1>6 DEF Address!Dynamic
<1> QED
    BY <1>7

LEMMA AddressInit == ASSUME Address!Init PROVE AddressInv
<1>1. /\ in \in AddressModules /\ bak = cur /\ next = 1 /\ pc = "pass"
      /\ cur = {a \in Address!Argument : in.fun[a] \in in.direct}
      /\ extra = Address!Visits(in, 1)
    BY DEF Address!Init, Address!Argument
<1>2. 1 \in Address!Function /\ \A f \in Address!Function : f = 1 \/ f > 1
    BY InputsAssumption DEF Address!NumFunctionsAssumption, Address!Function
<1>3. Address!Argument \ Address!Dynamic \subseteq cur
    <2> SUFFICES ASSUME NEW a \in Address!Argument, in.fun[a] \notin in.direct
                 PROVE  a \in Address!Dynamic
        BY <1>1
    <2> QED
        BY <1>1, AddressInput, DynamicClosed DEF Address!Source
<1>4. ASSUME NEW a \in cur, NEW c \in in.calls, c.callee = in.fun[a] PROVE ~Seen(c, a)
    <2>1. in.fun[a] \in Address!Function /\ a \in Address!Argument /\ in.fun[a] \in in.direct
        BY <1>1, AddressInput
    <2>2. ~(in.fun[a] < next)
        BY <1>1, <1>2, <2>1 DEF Address!Function
    <2>3. in.fun[a] = next => <<c, a>> \in extra
        BY <1>1, <1>4, <2>1 DEF Address!Visits, Address!Argument
    <2> QED
        BY <2>2, <2>3 DEF Seen
<1> QED
    BY <1>1, <1>2, <1>3, <1>4 DEF AddressInv

LEMMA AddressVisit ==
    ASSUME AddressInv, NEW c \in in.calls, NEW a \in Address!Argument, Address!VisitArgument(c, a)
    PROVE  AddressInv'
<1>1. /\ pc = "pass" /\ <<c, a>> \in extra /\ extra' = extra \ {<<c, a>>}
      /\ in' = in /\ bak' = bak /\ next' = next /\ pc' = pc
      /\ cur' = IF Confirmed(c, a) THEN cur ELSE cur \ {a}
    BY DEF Address!VisitArgument, Confirmed
<1>2. /\ Address!Argument' = Address!Argument /\ Address!Dynamic' = Address!Dynamic
      /\ cur' = cur => \A d, b : Confirmed(d, b)' <=> Confirmed(d, b)
    BY <1>1, AddressUnchanged
<1>3. in.fun[a] = c.callee
    BY <1>1 DEF AddressInv, Address!Visits
<1>4. ~Confirmed(c, a) => a \in Address!Dynamic
    <2>1. CASE a \notin DOMAIN c.act
        <3>1. Address!Source(a) /\ a \in Address!Pointer
            BY <1>3, <2>1, AddressInput DEF Address!Source, AddressInv
        <3> QED
            BY <3>1, DynamicClosed DEF AddressInv
    <2>2. CASE a \in DOMAIN c.act
        <3>1. ~Confirmed(c, a) => c.act[a] \in Address!Dynamic
            BY <2>2, AddressInput, NotDynamicIsConstant DEF Confirmed, AddressInv
        <3> QED
            BY <2>2, <3>1, DynamicClosed DEF Address!IsClosed, AddressInv
    <2> QED
        BY <2>1, <2>2
<1>5. Address!Argument \ Address!Dynamic \subseteq cur' /\ cur' \subseteq cur
    BY <1>1, <1>4 DEF AddressInv
<1>6. ASSUME cur' = bak', NEW b \in cur', NEW d \in in.calls, d.callee = in.fun[b], Seen(d, b)'
      PROVE  Confirmed(d, b)'
    <2>1. cur' = cur /\ cur = bak
        BY <1>1, <1>5, <1>6 DEF AddressInv
    <2>2. CASE d = c /\ b = a
        BY <1>1, <1>2, <1>6, <2>1, <2>2
    <2>3. CASE ~(d = c /\ b = a)
        <3>1. Seen(d, b)
            BY <1>1, <1>6, <2>3 DEF Seen
        <3> QED
            BY <1>2, <1>6, <2>1, <3>1 DEF AddressInv
    <2> QED
        BY <2>2, <2>3
<1>7. extra' \subseteq Address!Visits(in, next)
    BY <1>1 DEF AddressInv
<1>8. (extra \subseteq Address!Visits(in, next))'
    BY <1>1, <1>7 DEF Address!Visits
<1> QED
    BY <1>1, <1>2, <1>5, <1>6, <1>8 DEF AddressInv

LEMMA AddressNextCallee == ASSUME AddressInv, Address!NextCallee PROVE AddressInv'
<1>1. /\ pc = "pass" /\ extra = {} /\ next + 1 \in Address!Function /\ next' = next + 1
      /\ extra' = Address!Visits(in, next + 1)
      /\ in' = in /\ cur' = cur /\ bak' = bak /\ pc' = pc
    BY DEF Address!NextCallee
<1>2. /\ Address!Argument' = Address!Argument /\ Address!Dynamic' = Address!Dynamic
      /\ \A d, b : Confirmed(d, b)' <=> Confirmed(d, b)
    BY <1>1, AddressUnchanged
<1>3. (extra \subseteq Address!Visits(in, next))'
    BY <1>1 DEF Address!Visits
<1>4. ASSUME NEW a \in cur, NEW c \in in.calls, c.callee = in.fun[a], Seen(c, a)'
      PROVE  Seen(c, a)
    <2>1. in.fun[a] \in Address!Function /\ a \in Address!Argument /\ in.fun[a] \in in.direct
        BY AddressInput DEF AddressInv
    <2>2. in.fun[a] = next + 1 => <<c, a>> \in extra'
        BY <1>1, <1>4, <2>1 DEF Address!Visits, Address!Argument
    <2>3. in.fun[a] < next + 1
        BY <1>1, <1>4, <2>2 DEF Seen
    <2>4. in.fun[a] < next \/ in.fun[a] = next
        BY <2>1, <2>3, InputsAssumption
           DEF AddressInv, Address!Function, Address!NumFunctionsAssumption
    <2> QED
        BY <1>1, <2>4 DEF Seen
<1> QED
    BY <1>1, <1>2, <1>3, <1>4 DEF AddressInv

LEMMA AddressEndPass == ASSUME AddressInv, Address!EndPass PROVE AddressInv'
<1>1. /\ pc = "pass" /\ extra = {} /\ next + 1 \notin Address!Function
      /\ in' = in /\ cur' = cur
    BY DEF Address!EndPass
<1>2. /\ Address!Argument' = Address!Argument /\ Address!Dynamic' = Address!Dynamic
      /\ \A d, b : Confirmed(d, b)' <=> Confirmed(d, b)
    BY <1>1, AddressUnchanged
<1>3. NumFunctions \in Nat \ {0} /\ next = NumFunctions
    BY <1>1, InputsAssumption DEF AddressInv, Address!Function, Address!NumFunctionsAssumption
<1>4. CASE bak' = cur /\ next' = 1 /\ extra' = Address!Visits(in, 1) /\ pc' = pc
    <2>1. (extra \subseteq Address!Visits(in, next))' /\ next' \in Address!Function
        BY <1>1, <1>3, <1>4 DEF Address!Visits, Address!Function
    <2>2. ASSUME NEW a \in cur, NEW c \in in.calls, c.callee = in.fun[a] PROVE ~Seen(c, a)'
        <3>1. in.fun[a] \in Address!Function /\ a \in Address!Argument /\ in.fun[a] \in in.direct
            BY AddressInput DEF AddressInv
        <3>2. ~(in.fun[a] < 1)
            BY <1>3, <3>1 DEF Address!Function
        <3>3. in.fun[a] = 1 => <<c, a>> \in extra'
            BY <1>4, <2>2, <3>1 DEF Address!Visits, Address!Argument
        <3> QED
            BY <1>1, <1>4, <3>2, <3>3 DEF Seen
    <2> QED
        BY <1>1, <1>2, <1>4, <2>1, <2>2 DEF AddressInv
<1>5. CASE cur = bak /\ pc' = "tag" /\ bak' = bak /\ next' = next /\ extra' = extra
    <2>1. \A c, a : Seen(c, a)' <=> Seen(c, a)
        BY <1>1, <1>5 DEF Seen
    <2> QED
        BY <1>1, <1>2, <1>3, <1>5, <2>1 DEF AddressInv
<1> QED
    BY <1>4, <1>5 DEF Address!EndPass

LEMMA AddressTagStores == ASSUME AddressInv, Address!TagStores PROVE AddressInv'
<1>1. /\ pc = "tag" /\ pc' = "done" /\ more' = {p \in in.stores : Address!isConstantAddress(p)}
      /\ UNCHANGED <<in, cur, bak, next, extra>>
    BY DEF Address!TagStores
<1>2. /\ Address!Argument' = Address!Argument /\ Address!Dynamic' = Address!Dynamic
      /\ \A p : Address!isConstantAddress(p)' <=> Address!isConstantAddress(p)
      /\ \A d, b : Confirmed(d, b)' <=> Confirmed(d, b)
    BY <1>1, AddressUnchanged
<1>3. \A c, a : Seen(c, a)' <=> Seen(c, a)
    BY <1>1 DEF Seen
<1>4. (more = {p \in in.stores : Address!isConstantAddress(p)})'
    BY <1>1, <1>2
<1>5. (extra \subseteq Address!Visits(in, next))'
    BY <1>1 DEF AddressInv
<1> QED
    BY <1>1, <1>2, <1>3, <1>4, <1>5 DEF AddressInv

LEMMA AddressUnhandled ==
    ASSUME AddressInv, UNCHANGED <<in, cur, bak, next, extra, more>>, pc' = "abort"
    PROVE  AddressInv'
<1>1. /\ Address!Argument' = Address!Argument /\ Address!Dynamic' = Address!Dynamic
      /\ \A d, b : Confirmed(d, b)' <=> Confirmed(d, b)
    BY AddressUnchanged
<1>2. \A c, a : Seen(c, a)' <=> Seen(c, a)
    BY DEF Seen
<1>3. (extra \subseteq Address!Visits(in, next))'
    BY DEF AddressInv
<1> QED
    BY <1>1, <1>2, <1>3 DEF AddressInv

LEMMA AddressStutter ==
    ASSUME AddressInv, UNCHANGED <<in, cur, bak, next, extra, more, pc>> PROVE AddressInv'
<1>1. /\ Address!Argument' = Address!Argument /\ Address!Dynamic' = Address!Dynamic
      /\ \A p : Address!isConstantAddress(p)' <=> Address!isConstantAddress(p)
      /\ \A d, b : Confirmed(d, b)' <=> Confirmed(d, b)
    BY AddressUnchanged
<1>2. \A c, a : Seen(c, a)' <=> Seen(c, a)
    BY DEF Seen
<1>3. pc = "done" => (more = {p \in in.stores : Address!isConstantAddress(p)})'
    BY <1>1 DEF AddressInv
<1> QED
    BY <1>1, <1>2, <1>3 DEF AddressInv

LEMMA AddressExact == ASSUME AddressInv PROVE Address!TagsExact
<1>1. ASSUME pc = "done" PROVE more = in.stores \ Address!Dynamic
    <2>1. \A a \in cur : \A c \in in.calls : c.callee = in.fun[a] => Confirmed(c, a)
        <3>1. cur = bak /\ next = NumFunctions /\ extra = {}
            BY <1>1 DEF AddressInv
        <3>2. \A a \in cur : in.fun[a] < next \/ in.fun[a] = next
            BY <3>1, AddressInput, InputsAssumption
               DEF AddressInv, Address!Function, Address!NumFunctionsAssumption
        <3> QED
            BY <3>1, <3>2 DEF AddressInv, Seen
    <2>2. \A p \in Address!Dynamic : ~Address!isConstantAddress(p)
        BY <2>1, ConstantIsNotDynamic DEF AddressInv
    <2>3. \A p \in Address!Pointer \ Address!Dynamic : Address!isConstantAddress(p)
        BY NotDynamicIsConstant DEF AddressInv
    <2>4. in.stores \subseteq Address!Pointer
        BY AddressInput DEF AddressInv
    <2> QED
        BY <1>1, <2>2, <2>3, <2>4 DEF AddressInv
<1> QED
    BY <1>1 DEF Address!TagsExact, AddressInv

\* An argument is taken back only if a chain of calls passes it a dynamic pointer,
\* and a store is tagged exactly if no chain does; recursion included.
THEOREM ConstantAddressExact == Spec => []TagsExact
<1> DEFINE Inv == pass = "address" => AddressInv
<1>1. Init => Inv
    BY AddressInit DEF Init
<1>2. Inv /\ [Next]_vars => Inv'
    <2> SUFFICES ASSUME Inv, [Next]_vars, pass' = "address" PROVE AddressInv'
        OBVIOUS
    <2>1. CASE UNCHANGED vars
        BY <2>1, AddressStutter DEF vars
    <2>2. CASE Next
        <3>1. pass = "address" /\ Address!Next
            BY <2>2 DEF Next
        <3>2. CASE \E c \in in.calls, a \in Address!Argument : Address!VisitArgument(c, a)
            BY <3>1, <3>2, AddressVisit
        <3>3. CASE Address!Done
            BY <3>1, <3>3, AddressStutter DEF Address!Done, Address!vars
        <3>4. CASE \E c \in in.calls, a \in Address!Argument : Address!VisitUnhandled(c, a)
            BY <3>1, <3>4, AddressUnhandled DEF Address!VisitUnhandled
        <3>5. CASE Address!TagUnhandled
            BY <3>1, <3>5, AddressUnhandled DEF Address!TagUnhandled
        <3> QED
            BY <3>1, <3>2, <3>3, <3>4, <3>5, AddressNextCallee, AddressEndPass, AddressTagStores
            DEF Address!Next
    <2> QED
        BY <2>1, <2>2
<1>3. Inv => TagsExact
    BY AddressExact DEF TagsExact
<1> QED
    BY <1>1, <1>2, <1>3, PTL DEF Spec

-----------------------------------------------------------------------------
(* SpeculativeTaint.  `in` is prog, `cur` is taints, `bak` is taints_bak.   *)

\* The value of i gets to a store.
Relevant(i) ==
    \E s \in Taint!Of(in, "store") : \E v \in in.ops[s] : v \in Taint!FlowsFrom({i})

\* The taint is where the visit of i should bring it.
Settled(i) ==
    /\ in.kind[i] = "ncal" => i \in cur[i]
    /\ in.kind[i] = "op" /\ Relevant(i) => \A v \in in.ops[i] : cur[v] \subseteq cur[i]
    /\ in.kind[i] = "store" => \A v \in in.ops[i] : \A l \in in.rf[i] : cur[v] \subseteq cur[l]

\* The instruction i has been visited, in this pass or in one before.
Reached(i) == i < next \/ bak # [j \in Taint!Instr |-> {}]

\* What gets to a store without going back is settled by the first pass; the
\* other instructions are, when a pass has changed nothing.
TaintInv ==
    /\ in \in TaintPrograms
    /\ cur \in [Taint!Instr -> SUBSET Taint!Instr] /\ bak \in [Taint!Instr -> SUBSET Taint!Instr]
    /\ next \in 1..(Len(in.kind) + 1)
    /\ \A i \in Taint!Instr : bak[i] \subseteq cur[i]
    /\ Taint!NoFalseTaint
    /\ cur = bak =>
          \A i \in Taint!Of(in, "op") : i < next => \A v \in in.ops[i] : cur[v] \subseteq cur[i]
    /\ Taint!LateStore \/ \A i \in Taint!Instr : Reached(i) => Settled(i)
    /\ pc = "done" => cur = bak /\ next \notin Taint!Instr

LEMMA TaintInput ==
    ASSUME in \in TaintPrograms
    PROVE  /\ Taint!Instr = 1..Len(in.kind) /\ Len(in.kind) \in Nat
           /\ \A i \in Taint!Instr :
                 /\ in.kind[i] \in Taint!Kinds
                 /\ in.ops[i] \subseteq Taint!Instr
                 /\ in.rf[i] \subseteq Taint!Of(in, "cal")
           /\ \A k : Taint!Of(in, k) = {i \in Taint!Instr : in.kind[i] = k}
<1>1. Taint!IsProgram(in)
    BY InputsAssumption DEF Taint!ProgramsAssumption
<1>2. Taint!Instr = 1..Len(in.kind) /\ Len(in.kind) \in Nat
      /\ \A i \in Taint!Instr : in.kind[i] \in Taint!Kinds
    BY <1>1 DEF Taint!IsProgram, Taint!Instr
<1>3. in.ops \in [Taint!Instr -> SUBSET Taint!Instr]
      /\ in.rf \in [Taint!Instr -> SUBSET Taint!Of(in, "cal")]
    BY <1>1 DEF Taint!IsProgram, Taint!Instr
<1> QED
    BY <1>2, <1>3 DEF Taint!Of, Taint!Instr

\* These only depend on the input.
LEMMA TaintUnchanged ==
    ASSUME in' = in
    PROVE  /\ Taint!Instr' = Taint!Instr /\ (Taint!LateStore' <=> Taint!LateStore)
           /\ \A k : Taint!Of(in, k)' = Taint!Of(in, k)
           /\ \A A : Taint!FlowsFrom(A)' = Taint!FlowsFrom(A)
           /\ \A i : Relevant(i)' <=> Relevant(i)
<1>1. Taint!Instr' = Taint!Instr /\ \A k : Taint!Of(in, k)' = Taint!Of(in, k)
    BY DEF Taint!Instr, Taint!Of
<1>2. \A R : Taint!IsClosed(R)' <=> Taint!IsClosed(R)
    BY <1>1 DEF Taint!IsClosed
<1>3. \A A : Taint!FlowsFrom(A)' = Taint!FlowsFrom(A)
    BY <1>1, <1>2 DEF Taint!FlowsFrom
<1>4. \A b : Taint!GoesBack(b)' <=> Taint!GoesBack(b)
    BY <1>1 DEF Taint!GoesBack
<1>5. Taint!LateStore' <=> Taint!LateStore
    BY <1>1, <1>3, <1>4 DEF Taint!LateStore
<1>6. \A i : Relevant(i)' <=> Relevant(i)
    BY <1>1, <1>3 DEF Relevant
<1> QED
    BY <1>1, <1>3, <1>5, <1>6

LEMMA FlowsFromClosed ==
    ASSUME in \in TaintPrograms, NEW A \in SUBSET Taint!Instr
    PROVE  A \subseteq Taint!FlowsFrom(A) /\ Taint!IsClosed(Taint!FlowsFrom(A))
<1>1. A \subseteq Taint!FlowsFrom(A)
    BY DEF Taint!FlowsFrom
<1>2. ASSUME NEW b \in Taint!Of(in, "op"), NEW v \in in.ops[b], v \in Taint!FlowsFrom(A)
      PROVE  b \in Taint!FlowsFrom(A)
    <2>1. b \in Taint!Instr
        BY TaintInput
    <2> QED
        BY <1>2, <2>1 DEF Taint!FlowsFrom, Taint!IsClosed
<1>3. ASSUME NEW s \in Taint!Of(in, "store"), NEW v \in in.ops[s], v \in Taint!FlowsFrom(A),
             NEW l \in in.rf[s]
      PROVE  l \in Taint!FlowsFrom(A)
    <2>1. l \in Taint!Instr
        BY TaintInput
    <2>2. \A R \in SUBSET Taint!Instr : A \subseteq R /\ Taint!IsClosed(R) => v \in R
        BY <1>3 DEF Taint!FlowsFrom
    <2>3. \A R \in SUBSET Taint!Instr : A \subseteq R /\ Taint!IsClosed(R) => l \in R
        BY <1>3, <2>2 DEF Taint!IsClosed
    <2> QED
        BY <2>1, <2>3 DEF Taint!FlowsFrom
<1> QED
    BY <1>1, <1>2, <1>3 DEF Taint!IsClosed

\* The operands of what gets to a store get there, and are visited before it if
\* no store is late.
LEMMA RelevantOperand ==
    ASSUME in \in TaintPrograms, ~Taint!LateStore
    PROVE  /\ \A s \in Taint!Of(in, "store") : \A v \in in.ops[s] : Relevant(v) /\ v < s
           /\ \A b \in Taint!Of(in, "op") : \A v \in in.ops[b] : Relevant(b) => Relevant(v) /\ v < b
           /\ \A s \in Taint!Of(in, "store") : \A l \in in.rf[s] :
                  Relevant(l) /\ in.ops[s] # {} => s < l
<1>1. Taint!Instr \subseteq Int
    BY TaintInput
<1>2. ASSUME NEW s \in Taint!Of(in, "store"), NEW v \in in.ops[s] PROVE Relevant(v) /\ v < s
    <2>1. s \in Taint!Instr /\ v \in Taint!Instr
        BY TaintInput
    <2>2. v \in Taint!FlowsFrom({v})
        BY <2>1, FlowsFromClosed
    <2>3. ~(s <= v)
        BY DEF Taint!LateStore
    <2> QED
        BY <1>1, <2>1, <2>2, <2>3 DEF Relevant
<1>3. \A i \in Taint!Instr : Relevant(i) => ~Taint!GoesBack(i)
    BY DEF Relevant, Taint!LateStore
<1>4. ASSUME NEW b \in Taint!Of(in, "op"), NEW v \in in.ops[b], Relevant(b)
      PROVE  Relevant(v) /\ v < b
    <2>1. b \in Taint!Instr /\ v \in Taint!Instr
        BY TaintInput
    <2>2. ~(b <= v)
        BY <1>3, <1>4, <2>1 DEF Taint!GoesBack
    <2>3. Taint!FlowsFrom({b}) \subseteq Taint!FlowsFrom({v})
        BY DEF Taint!FlowsFrom, Taint!IsClosed
    <2> QED
        BY <1>1, <1>4, <2>1, <2>2, <2>3 DEF Relevant
<1>5. ASSUME NEW s \in Taint!Of(in, "store"), NEW l \in in.rf[s], Relevant(l), in.ops[s] # {}
      PROVE  s < l
    <2>1. s \in Taint!Instr /\ l \in Taint!Instr
        BY TaintInput
    <2>2. ~(l <= s)
        BY <1>3, <1>5, <2>1 DEF Taint!GoesBack
    <2> QED
        BY <1>1, <2>1, <2>2
<1> QED
    BY <1>2, <1>4, <1>5

LEMMA TaintInit == ASSUME Taint!Init PROVE TaintInv
<1>1. in \in TaintPrograms /\ cur = [i \in Taint!Instr |-> {}] /\ bak = cur /\ next = 1 /\ pc = "visit"
    BY DEF Taint!Init, Taint!Instr
<1>2. \A i \in Taint!Instr : ~(i < next) /\ ~Reached(i)
    BY <1>1, TaintInput DEF Reached
<1>3. Taint!NoFalseTaint
    BY <1>1 DEF Taint!NoFalseTaint
<1>4. \A i \in Taint!Of(in, "op") : ~(i < next)
    BY <1>1, <1>2, TaintInput
<1> QED
    BY <1>1, <1>2, <1>3, <1>4, TaintInput DEF TaintInv

\* A visit that only adds taint that flows, settles what it visits, and changes
\* nothing that was settled and gets to a store.
LEMMA TaintVisit ==
    ASSUME TaintInv, pc = "visit", next \in Taint!Instr, next' = next + 1,
           in' = in, bak' = bak, pc' = pc,
           cur' \in [Taint!Instr -> SUBSET Taint!Instr],
           \A i \in Taint!Instr : cur[i] \subseteq cur'[i],
           \A i \in Taint!Instr : \A a \in Taint!Of(in, "ncal") :
               a \in cur'[i] => a \in cur[i] \/ i \in Taint!FlowsFrom({a}),
           in.kind[next] = "op" => \A v \in in.ops[next] : cur[v] \subseteq cur'[next],
           ~Taint!LateStore =>
               /\ \A i \in Taint!Instr : Relevant(i) /\ Reached(i) => cur'[i] = cur[i]
               /\ in.kind[next] = "ncal" => next \in cur'[next]
               /\ in.kind[next] = "store" =>
                      \A v \in in.ops[next] : \A l \in in.rf[next] : cur'[v] \subseteq cur'[l]
    PROVE  TaintInv'
<1>1. /\ Taint!Instr' = Taint!Instr /\ (Taint!LateStore' <=> Taint!LateStore)
      /\ \A k : Taint!Of(in, k)' = Taint!Of(in, k)
      /\ \A A : Taint!FlowsFrom(A)' = Taint!FlowsFrom(A)
      /\ \A i : Relevant(i)' <=> Relevant(i)
    BY TaintUnchanged
<1>2. /\ Taint!Instr = 1..Len(in.kind) /\ Len(in.kind) \in Nat
      /\ \A i \in Taint!Instr : in.ops[i] \subseteq Taint!Instr /\ in.rf[i] \subseteq Taint!Instr
      /\ \A k : Taint!Of(in, k) = {i \in Taint!Instr : in.kind[i] = k}
    BY TaintInput DEF TaintInv
<1>3. Taint!NoFalseTaint'
    <2>1. \A a \in Taint!Of(in, "ncal") : \A i \in Taint!Instr :
              a \in cur'[i] => i \in Taint!FlowsFrom({a})
        BY DEF TaintInv, Taint!NoFalseTaint
    <2> QED
        BY <1>1, <2>1 DEF Taint!NoFalseTaint
<1>4. ASSUME cur' = bak', NEW i \in Taint!Of(in, "op"), i < next + 1, NEW v \in in.ops[i]
      PROVE  cur'[v] \subseteq cur'[i]
    <2>1. i \in Taint!Instr /\ v \in Taint!Instr /\ in.kind[i] = "op" /\ (i = next \/ i < next)
        BY <1>2, <1>4
    <2>2. cur' = cur
        <3>1. \A j \in Taint!Instr : cur'[j] = cur[j]
            BY <1>4 DEF TaintInv
        <3>2. cur' = [j \in Taint!Instr |-> cur'[j]] /\ cur = [j \in Taint!Instr |-> cur[j]]
            BY DEF TaintInv
        <3> QED
            BY <3>1, <3>2
    <2> QED
        BY <1>4, <2>1, <2>2 DEF TaintInv
<1>5. ASSUME ~Taint!LateStore, NEW i \in Taint!Instr, Reached(i)' PROVE Settled(i)'
    <2>1. Reached(i) \/ i = next
        BY <1>1, <1>2, <1>5 DEF Reached, TaintInv
    <2>2. in.kind[i] = "ncal" => i \in cur'[i]
        BY <1>5, <2>1 DEF TaintInv, Settled
    <2>3. ASSUME in.kind[i] = "op", Relevant(i), NEW v \in in.ops[i] PROVE cur'[v] \subseteq cur'[i]
        <3>1. Relevant(v) /\ v < i /\ v \in Taint!Instr
            BY <1>2, <1>5, <2>3, RelevantOperand DEF TaintInv
        <3>2. Reached(v) \/ (i = next /\ v < next)
            BY <1>2, <2>1, <3>1 DEF Reached, TaintInv
        <3>3. cur'[v] = cur[v]
            BY <1>5, <3>1, <3>2 DEF Reached
        <3> QED
            BY <1>5, <2>1, <2>3, <3>3 DEF TaintInv, Settled
    <2>4. ASSUME in.kind[i] = "store", NEW v \in in.ops[i], NEW l \in in.rf[i]
          PROVE  cur'[v] \subseteq cur'[l]
        <3>1. v \in Taint!Instr /\ l \in Taint!Instr /\ i \in Taint!Of(in, "store")
            BY <1>2, <2>4
        <3>2. Relevant(v) /\ v < i
            BY <1>5, <3>1, RelevantOperand DEF TaintInv
        <3>3. CASE i = next
            BY <1>5, <2>4, <3>3
        <3>4. CASE Reached(i)
            <4>1. Reached(v)
                BY <1>2, <3>1, <3>2, <3>4 DEF Reached, TaintInv
            <4>2. cur'[v] = cur[v] /\ cur[v] \subseteq cur[l]
                BY <1>5, <2>4, <3>1, <3>2, <3>4, <4>1 DEF TaintInv, Settled
            <4> QED
                BY <3>1, <4>2
        <3> QED
            BY <2>1, <3>3, <3>4
    <2> QED
        BY <1>1, <2>2, <2>3, <2>4 DEF Settled
<1>6. (cur = bak => \A i \in Taint!Of(in, "op") : i < next => \A v \in in.ops[i] : cur[v] \subseteq cur[i])'
    BY <1>1, <1>4
<1>7. (\A i \in Taint!Instr : bak[i] \subseteq cur[i])'
    BY <1>1 DEF TaintInv
<1>8. (Taint!LateStore \/ \A i \in Taint!Instr : Reached(i) => Settled(i))'
    BY <1>1, <1>5
<1>9. (next \in 1..(Len(in.kind) + 1))'
    BY <1>2
<1> QED
    BY <1>1, <1>3, <1>6, <1>7, <1>8, <1>9 DEF TaintInv

LEMMA TaintVisitNCAL == ASSUME TaintInv, Taint!VisitNCAL PROVE TaintInv'
<1>1. /\ pc = "visit" /\ next \in Taint!Of(in, "ncal") /\ next' = next + 1
      /\ in' = in /\ bak' = bak /\ pc' = pc
      /\ cur' = [cur EXCEPT ![next] = @ \cup {next}]
    BY DEF Taint!VisitNCAL, Taint!Visiting
<1>2. next \in Taint!Instr /\ in.kind[next] = "ncal" /\ next \in Int
    BY <1>1, TaintInput DEF TaintInv
<1>3. \A i \in Taint!Instr : cur'[i] = IF i = next THEN cur[i] \cup {next} ELSE cur[i]
    BY <1>1, <1>2 DEF TaintInv
<1>4. cur' \in [Taint!Instr -> SUBSET Taint!Instr]
    BY <1>1, <1>2 DEF TaintInv
<1>5. next \in Taint!FlowsFrom({next})
    BY <1>2, FlowsFromClosed DEF TaintInv
<1>6. ASSUME ~Taint!LateStore, NEW i \in Taint!Instr, Reached(i) PROVE cur'[i] = cur[i]
    <2>1. Settled(i)
        BY <1>6 DEF TaintInv
    <2>2. i = next => cur[i] \cup {next} = cur[i]
        BY <1>2, <2>1 DEF Settled
    <2> QED
        BY <1>3, <2>2
<1>7. \A i \in Taint!Instr : \A a \in Taint!Of(in, "ncal") :
          a \in cur'[i] => a \in cur[i] \/ i \in Taint!FlowsFrom({a})
    BY <1>3, <1>5
<1> QED
    BY <1>1, <1>2, <1>3, <1>4, <1>6, <1>7, TaintVisit

LEMMA TaintVisitOp == ASSUME TaintInv, Taint!VisitOp PROVE TaintInv'
<1> DEFINE orgs == UNION {cur[v] : v \in in.ops[next]}
<1>1. /\ pc = "visit" /\ next \in Taint!Of(in, "op") /\ next' = next + 1
      /\ in' = in /\ bak' = bak /\ pc' = pc
      /\ cur' = [cur EXCEPT ![next] = @ \cup orgs]
    BY DEF Taint!VisitOp, Taint!Visiting
<1>2. next \in Taint!Instr /\ in.kind[next] = "op" /\ in.ops[next] \subseteq Taint!Instr
    BY <1>1, TaintInput DEF TaintInv
<1>3. \A i \in Taint!Instr : cur'[i] = IF i = next THEN cur[i] \cup orgs ELSE cur[i]
    BY <1>1, <1>2 DEF TaintInv
<1>4. orgs \subseteq Taint!Instr /\ \A v \in in.ops[next] : cur[v] \subseteq orgs
    <2>1. \A v \in in.ops[next] : cur[v] \subseteq Taint!Instr
        BY <1>2 DEF TaintInv
    <2> QED
        BY <2>1
<1>5. ASSUME NEW a \in Taint!Of(in, "ncal"), a \in orgs PROVE next \in Taint!FlowsFrom({a})
    <2>1. PICK v \in in.ops[next] : a \in cur[v]
        BY <1>5
    <2>2. v \in Taint!FlowsFrom({a})
        BY <1>2, <2>1 DEF TaintInv, Taint!NoFalseTaint
    <2>3. a \in Taint!Instr
        BY TaintInput DEF TaintInv
    <2> QED
        BY <1>1, <2>2, <2>3, FlowsFromClosed DEF TaintInv, Taint!IsClosed
<1>6. ASSUME ~Taint!LateStore, NEW i \in Taint!Instr, Relevant(i), Reached(i) PROVE cur'[i] = cur[i]
    <2>1. Settled(i)
        BY <1>6 DEF TaintInv
    <2>2. i = next => orgs \subseteq cur[i]
        BY <1>2, <1>6, <2>1 DEF Settled
    <2> QED
        BY <1>3, <2>2
<1>7. cur' \in [Taint!Instr -> SUBSET Taint!Instr]
    BY <1>1, <1>2, <1>4 DEF TaintInv
<1> HIDE DEF orgs
<1>8. \A i \in Taint!Instr : \A a \in Taint!Of(in, "ncal") :
          a \in cur'[i] => a \in cur[i] \/ i \in Taint!FlowsFrom({a})
    BY <1>3, <1>5
<1> QED
    BY <1>1, <1>2, <1>3, <1>4, <1>6, <1>7, <1>8, TaintVisit

LEMMA TaintVisitStore == ASSUME TaintInv, Taint!VisitStore PROVE TaintInv'
<1> DEFINE orgs == UNION {cur[v] : v \in in.ops[next]}
           changed == \E v \in in.ops[next] : cur[v] # bak[v]
<1>1. /\ pc = "visit" /\ next \in Taint!Of(in, "store") /\ next' = next + 1
      /\ in' = in /\ bak' = bak /\ pc' = pc
      /\ cur' = [l \in Taint!Instr |-> IF changed /\ l \in in.rf[next] THEN cur[l] \cup orgs ELSE cur[l]]
    BY DEF Taint!VisitStore, Taint!Visiting
<1>2. /\ next \in Taint!Instr /\ in.kind[next] = "store"
      /\ in.ops[next] \subseteq Taint!Instr /\ in.rf[next] \subseteq Taint!Instr
    BY <1>1, TaintInput DEF TaintInv
<1>3. \A i \in Taint!Instr :
          cur'[i] = IF changed /\ i \in in.rf[next] THEN cur[i] \cup orgs ELSE cur[i]
    BY <1>1
<1>4. orgs \subseteq Taint!Instr /\ \A v \in in.ops[next] : cur[v] \subseteq orgs
    <2>1. \A v \in in.ops[next] : cur[v] \subseteq Taint!Instr
        BY <1>2 DEF TaintInv
    <2> QED
        BY <2>1
<1>5. ASSUME NEW a \in Taint!Of(in, "ncal"), a \in orgs
      PROVE  in.rf[next] \subseteq Taint!FlowsFrom({a})
    <2>1. PICK v \in in.ops[next] : a \in cur[v]
        BY <1>5
    <2>2. v \in Taint!FlowsFrom({a})
        BY <1>2, <2>1 DEF TaintInv, Taint!NoFalseTaint
    <2>3. a \in Taint!Instr
        BY TaintInput DEF TaintInv
    <2> QED
        BY <1>1, <2>2, <2>3, FlowsFromClosed DEF TaintInv, Taint!IsClosed
<1>6. ASSUME ~Taint!LateStore, NEW i \in Taint!Instr, Relevant(i), Reached(i) PROVE cur'[i] = cur[i]
    <2>1. CASE Reached(next) /\ i \in in.rf[next]
        <3>1. Settled(next)
            BY <1>2, <1>6, <2>1 DEF TaintInv
        <3>2. orgs \subseteq cur[i]
            BY <1>2, <2>1, <3>1 DEF Settled
        <3> QED
            BY <1>3, <3>2
    <2>2. CASE ~Reached(next) /\ i \in in.rf[next]
        <3>1. i < next
            BY <1>6, <2>2 DEF Reached
        <3>2. in.ops[next] = {}
            BY <1>1, <1>2, <1>6, <2>2, <3>1, RelevantOperand, TaintInput, SMTT(30) DEF TaintInv
        <3> QED
            BY <1>3, <3>2
    <2> QED
        BY <1>3, <2>1, <2>2
<1>7. ASSUME ~Taint!LateStore, NEW v \in in.ops[next], NEW l \in in.rf[next]
      PROVE  cur'[v] \subseteq cur'[l]
    <2>1. cur[v] \subseteq cur'[l]
        <3>1. CASE changed
            BY <1>2, <1>3, <1>4, <3>1
        <3>2. CASE ~changed /\ Reached(next)
            <4>1. Settled(next)
                BY <1>2, <1>7, <3>2 DEF TaintInv
            <4> QED
                BY <1>2, <1>3, <3>2, <4>1 DEF Settled
        <3>3. CASE ~changed /\ ~Reached(next)
            <4>1. bak = [j \in Taint!Instr |-> {}]
                BY <3>3 DEF Reached
            <4>2. cur[v] = {}
                BY <1>2, <3>3, <4>1
            <4> QED
                BY <4>2
        <3> QED
            BY <3>1, <3>2, <3>3
    <2>2. Relevant(v) /\ v < next /\ v \in Taint!Instr
        BY <1>1, <1>2, <1>7, RelevantOperand DEF TaintInv
    <2>3. cur'[v] = cur[v]
        BY <1>6, <1>7, <2>2 DEF Reached
    <2> QED
        BY <2>1, <2>3
<1>8. cur' \in [Taint!Instr -> SUBSET Taint!Instr]
    BY <1>1, <1>4 DEF TaintInv
<1> HIDE DEF orgs, changed
<1>9. \A i \in Taint!Instr : \A a \in Taint!Of(in, "ncal") :
          a \in cur'[i] => a \in cur[i] \/ i \in Taint!FlowsFrom({a})
    BY <1>3, <1>5
<1> QED
    BY <1>1, <1>2, <1>3, <1>6, <1>7, <1>8, <1>9, TaintVisit

LEMMA TaintSkip == ASSUME TaintInv, Taint!Skip PROVE TaintInv'
<1>1. /\ pc = "visit" /\ next \in Taint!Of(in, "cal") \cup Taint!Of(in, "none") /\ next' = next + 1
      /\ in' = in /\ cur' = cur /\ bak' = bak /\ pc' = pc
    BY DEF Taint!Skip, Taint!Visiting
<1>2. next \in Taint!Instr /\ in.kind[next] \in {"cal", "none"}
    BY <1>1, TaintInput DEF TaintInv
<1>3. cur' \in [Taint!Instr -> SUBSET Taint!Instr]
    BY <1>1 DEF TaintInv
<1> QED
    BY <1>1, <1>2, <1>3, TaintVisit

LEMMA TaintEndPass == ASSUME TaintInv, Taint!EndPass PROVE TaintInv'
<1>1. pc = "visit" /\ next \notin Taint!Instr /\ in' = in /\ cur' = cur
    BY DEF Taint!EndPass
<1>2. /\ Taint!Instr' = Taint!Instr /\ (Taint!LateStore' <=> Taint!LateStore)
      /\ \A k : Taint!Of(in, k)' = Taint!Of(in, k)
      /\ \A A : Taint!FlowsFrom(A)' = Taint!FlowsFrom(A)
      /\ \A i : Relevant(i)' <=> Relevant(i)
    BY <1>1, TaintUnchanged
<1>3. Taint!Instr = 1..Len(in.kind) /\ Len(in.kind) \in Nat
      /\ \A i \in Taint!Of(in, "op") : i \in Taint!Instr
    BY TaintInput DEF TaintInv
<1>4. Taint!NoFalseTaint' <=> Taint!NoFalseTaint
    BY <1>1, <1>2 DEF Taint!NoFalseTaint
<1>5. \A i : Settled(i)' <=> Settled(i)
    BY <1>1, <1>2 DEF Settled
<1>6. Taint!LateStore \/ \A i \in Taint!Instr : Settled(i)
    BY <1>1, <1>3 DEF TaintInv, Reached
<1>7. (Taint!LateStore \/ \A i \in Taint!Instr : Reached(i) => Settled(i))'
    BY <1>2, <1>5, <1>6
<1>8. CASE bak' = cur /\ next' = 1 /\ pc' = pc
    <2>1. (\A i \in Taint!Of(in, "op") : ~(i < next))'
        BY <1>1, <1>2, <1>3, <1>8
    <2> QED
        BY <1>1, <1>2, <1>3, <1>4, <1>7, <1>8, <2>1 DEF TaintInv
<1>9. CASE cur = bak /\ pc' = "done" /\ bak' = bak /\ next' = next
    BY <1>1, <1>2, <1>4, <1>7, <1>9 DEF TaintInv
<1> QED
    BY <1>8, <1>9 DEF Taint!EndPass

LEMMA TaintStutter ==
    ASSUME TaintInv, UNCHANGED <<in, cur, bak, next, pc>> PROVE TaintInv'
<1>1. /\ Taint!Instr' = Taint!Instr /\ (Taint!LateStore' <=> Taint!LateStore)
      /\ \A k : Taint!Of(in, k)' = Taint!Of(in, k)
      /\ \A A : Taint!FlowsFrom(A)' = Taint!FlowsFrom(A)
      /\ \A i : Relevant(i)' <=> Relevant(i)
    BY TaintUnchanged
<1>2. Taint!NoFalseTaint' <=> Taint!NoFalseTaint
    BY <1>1 DEF Taint!NoFalseTaint
<1>3. \A i : (Settled(i)' <=> Settled(i)) /\ (Reached(i)' <=> Reached(i))
    BY <1>1 DEF Settled, Reached
<1> QED
    BY <1>1, <1>2, <1>3 DEF TaintInv

LEMMA TaintIsSound == ASSUME TaintInv PROVE Taint!SoundUnlessLate
<1> SUFFICES ASSUME ~Taint!LateStore, pc = "done", NEW a \in Taint!Of(in, "ncal")
             PROVE  Taint!FlowsFrom({a}) \subseteq {i \in Taint!Instr : a \in cur[i]}
    BY DEF Taint!SoundUnlessLate, Taint!Sound
<1> DEFINE R == {i \in Taint!Instr : a \in cur[i]}
<1>1. /\ Taint!Instr = 1..Len(in.kind) /\ Len(in.kind) \in Nat
      /\ \A i \in Taint!Instr : in.ops[i] \subseteq Taint!Instr /\ in.rf[i] \subseteq Taint!Instr
      /\ \A k : Taint!Of(in, k) = {i \in Taint!Instr : in.kind[i] = k}
    BY TaintInput DEF TaintInv
<1>2. cur = bak /\ \A i \in Taint!Instr : i < next /\ Settled(i)
    <2>1. cur = bak /\ \A i \in Taint!Instr : i < next
        BY <1>1 DEF TaintInv
    <2> QED
        BY <2>1 DEF TaintInv, Reached
<1>3. a \in R
    BY <1>1, <1>2 DEF Settled
<1>4. \A b \in Taint!Of(in, "op") : in.ops[b] \cap R # {} => b \in R
    BY <1>1, <1>2 DEF TaintInv
<1>5. \A s \in Taint!Of(in, "store") : in.ops[s] \cap R # {} => in.rf[s] \subseteq R
    BY <1>1, <1>2 DEF Settled
<1>6. R \in SUBSET Taint!Instr
    OBVIOUS
<1> HIDE DEF R
<1>7. Taint!IsClosed(R)
    BY <1>4, <1>5 DEF Taint!IsClosed
<1>8. Taint!FlowsFrom({a}) \subseteq R
    BY <1>3, <1>6, <1>7 DEF Taint!FlowsFrom
<1> QED
    BY <1>8 DEF R

LEMMA TaintInvariant == Spec => [](pass = "taint" => TaintInv)
<1> DEFINE Inv == pass = "taint" => TaintInv
<1>1. Init => Inv
    BY TaintInit DEF Init
<1>2. Inv /\ [Next]_vars => Inv'
    <2> SUFFICES ASSUME Inv, [Next]_vars, pass' = "taint" PROVE TaintInv'
        OBVIOUS
    <2>1. CASE UNCHANGED vars
        BY <2>1, TaintStutter DEF vars
    <2>2. CASE Next
        <3>1. pass = "taint" /\ Taint!Next
            BY <2>2 DEF Next
        <3>2. CASE Taint!Done
            BY <3>1, <3>2, TaintStutter DEF Taint!Done, Taint!vars
        <3> QED
            BY <3>1, <3>2, TaintVisitNCAL, TaintVisitStore, TaintVisitOp, TaintSkip, TaintEndPass
            DEF Taint!Next
    <2> QED
        BY <2>1, <2>2
<1> QED
    BY <1>1, <1>2, PTL DEF Spec

\* No instruction is ever tainted by a load that does not flow into it.
THEOREM NeverFalseTaint == Spec => []NoFalseTaint
<1>1. (pass = "taint" => TaintInv) => NoFalseTaint
    BY DEF NoFalseTaint, TaintInv
<1> QED
    BY <1>1, TaintInvariant, PTL

\* The comparison of a store's value with the pass before, which the source asks
\* about, loses no taint in a function without a late store: the first pass
\* settles all that gets to a store, and only the others need more passes.
THEOREM ComparisonIsSoundUnlessLate == Spec => []SoundUnlessLate
<1>1. (pass = "taint" => TaintInv) => SoundUnlessLate
    BY TaintIsSound DEF SoundUnlessLate
<1> QED
    BY <1>1, TaintInvariant, PTL

=============================================================================
