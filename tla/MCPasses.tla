------------------------------- MODULE MCPasses -------------------------------
(****************************************************************************)
(* The passes on small inputs.                                              *)
(****************************************************************************)
EXTENDS Passes

-----------------------------------------------------------------------------
(* OptimizeSTs: all graphs over three nodes without self-loops and the edge *)
(* from 1 to 0, with one ST of three sets, or with two or three STs of      *)
(* which some can be joined.                                                *)

OptimizeGraphs == SUBSET ({e \in (0..2) \X (0..2) : e[1] # e[2]} \ {<<1, 0>>})

Singles ==
    {{<<a, b, c>>} : a \in {{0}, {0, 1}}, b \in {{1}, {1, 2}},
                     c \in {{0}, {0, 2}}}

Pool == {<<{0}, {1}>>, <<{2}, {1}>>, <<{0}, {2}>>, <<{0, 1}, {1}, {2}>>, <<{2}, {1}, {2}>>}

\* Any two, or two that can be joined and another.
Several ==
    {T \in SUBSET Pool :
        \/ Cardinality(T) = 2
        \/ Cardinality(T) = 3 /\ {<<{0}, {1}>>, <<{2}, {1}>>} \subseteq T}

MCOptimizeInputs == {[E |-> D, sts |-> T] : D \in OptimizeGraphs, T \in Singles \cup Several}

-----------------------------------------------------------------------------
(* GenerateSTs: small functions, each with every choice of public values    *)
(* that agrees with NonspeculativeTaint: what is given away is public, and  *)
(* what a public value is computed from, unless by a vector or aggregate    *)
(* instruction; and what is where a public value was read.  The NCALs flow  *)
(* along the operands, through intrinsics too.                              *)

Values == INSTANCE Instructions

HasValue == {"load", "call", "intr"} \cup Values!Computing

Accessed(g, i) ==
    CASE g.kind[i] = "load" -> {i}
      [] g.kind[i] = "store" -> g.ops[i]
      [] g.kind[i] = "atomic" -> {i} \cup g.ops[i]
      [] OTHER -> {}

PublicSets(g, vector) ==
    {P \in SUBSET Values!Of(g, HasValue) :
        /\ \A t \in DOMAIN g.kind :
              Values!get_transmitter_sensitive_operands(g, t) \subseteq P \cup {Values!Arg}
        /\ \A i \in (P \cap Values!Of(g, {"intr"} \cup Values!Computing)) \ vector :
              Values!Operands(g, i) \subseteq P \cup {Values!Arg}
        /\ \A i \in P \cap Values!Of(g, {"load", "atomic"}) : \A j \in DOMAIN g.kind :
              g.ptr[i] # {} /\ g.ptr[i] = g.ptr[j] => Accessed(g, j) \subseteq P \cup {Values!Arg}}

DataFlow(g) ==
    {e \in (DOMAIN g.kind) \X Values!Of(g, {"intr"} \cup Values!Computing) :
        e[1] \in Values!Operands(g, e[2])}

LabelledWith(g, vector) ==
    {[kind |-> g.kind, succ |-> g.succ, ops |-> g.ops, ptr |-> g.ptr, ca |-> g.ca,
      glob |-> g.glob, direct |-> g.direct,
      secret |-> Values!Of(g, HasValue) \ P,
      taints |-> [i \in DOMAIN g.kind |->
                     {l \in Values!Of(g, {"load"}) \ g.ca :
                         i = l \/ i \in Values!Reach(DataFlow(g), {l})}]] :
        P \in PublicSets(g, vector)}

Labelled(g) == LabelledWith(g, {})

\* if (a < n) { x = p[a]; q[x]; }: the bounds check and the two loads.
Gadget ==
    [kind |-> <<"op", "term", "op", "load", "load", "term", "ret">>,
     succ |-> <<{2}, {3, 7}, {4}, {5}, {6}, {7}, {}>>,
     ops |-> <<{Values!Arg}, {1}, {Values!Arg}, {}, {}, {}, {}>>,
     ptr |-> <<{}, {}, {}, {3}, {4}, {}, {}>>,
     ca |-> {}, glob |-> {}, direct |-> {}]

\* while (p) p = *p, with a call in it and the secret *p written to *p.
List ==
    [kind |-> <<"term", "op", "load", "store", "call", "term", "ret">>,
     succ |-> <<{2}, {3}, {4}, {5}, {6}, {2, 7}, {}>>,
     ops |-> <<{}, {Values!Arg, 3}, {}, {3}, {}, {3}, {}>>,
     ptr |-> <<{}, {}, {2}, {Values!Arg}, {}, {}, {}>>,
     ca |-> {}, glob |-> {}, direct |-> {5}]

\* x = *p; *q = x; y = local; if (y) ...; g = x: stores, and a load that a store
\* may have overwritten.
Stores ==
    [kind |-> <<"load", "store", "load", "term", "store", "call", "ret">>,
     succ |-> <<{2}, {3}, {4}, {5, 6}, {6}, {7}, {}>>,
     ops |-> <<{}, {1}, {}, {3}, {1}, {1}, {}>>,
     ptr |-> <<{Values!Arg}, {Values!Arg}, {}, {}, {}, {}, {}>>,
     ca |-> {3, 5}, glob |-> {5}, direct |-> {}]

\* *p = a as the first instruction.
FirstStore ==
    [kind |-> <<"store", "intr", "load", "ret">>,
     succ |-> <<{2}, {3}, {4}, {}>>,
     ops |-> <<{Values!Arg}, {Values!Arg}, {}, {3}>>,
     ptr |-> <<{Values!Arg}, {}, {}, {}>>,
     ca |-> {3}, glob |-> {}, direct |-> {}]

\* A memcpy of constant length.
Copy ==
    [kind |-> <<"load", "memcpy_n", "load", "ret">>,
     succ |-> <<{2}, {3}, {4}, {}>>,
     ops |-> <<{}, {1, Values!Arg}, {}, {3}>>,
     ptr |-> <<{}, {}, {1}, {}>>,
     ca |-> {1}, glob |-> {}, direct |-> {}]

\* q = a ? p : &global; f( *q ): on one of the ways to the access its address is a
\* constant.
Merge ==
    [kind |-> <<"term", "load", "op", "load", "call", "ret">>,
     succ |-> <<{2, 3}, {3}, {4}, {5}, {6}, {}>>,
     ops |-> <<{Values!Arg}, {}, {2}, {}, {4}, {}>>,
     ptr |-> <<{}, {}, {}, {3}, {}, {}>>,
     ca |-> {2}, glob |-> {}, direct |-> {5}]

\* *p = x, where x is read from another place; then a call, and y is returned.
Overwrite ==
    [kind |-> <<"load", "store", "call", "load", "ret">>,
     succ |-> <<{2}, {3}, {4}, {5}, {}>>,
     ops |-> <<{}, {1}, {}, {}, {4}>>,
     ptr |-> <<{}, {Values!Arg}, {}, {}, {}>>,
     ca |-> {1, 4}, glob |-> {}, direct |-> {3}]

\* v = element of a vector x; *p = v; a / v; throw y: v is given away and has to be
\* public, the vector need not be.  The labels of the store do not agree then.
Lanes ==
    [kind |-> <<"load", "op", "store", "div", "load", "resume">>,
     succ |-> <<{2}, {3}, {4}, {5}, {6}, {}>>,
     ops |-> <<{}, {1}, {2}, {2, Values!Arg}, {}, {5}>>,
     ptr |-> <<{}, {}, {Values!Arg}, {}, {}, {}>>,
     ca |-> {1, 5}, glob |-> {}, direct |-> {}]

\* while (cmpxchg(l, ...)); *p = masked load of q; return *r, where the lock l was
\* loaded: through an atomic access, and with an intrinsic that gives its address away.
Locked ==
    [kind |-> <<"load", "atomic", "term", "intr", "store", "load", "ret">>,
     succ |-> <<{2}, {3}, {2, 4}, {5}, {6}, {7}, {}>>,
     ops |-> <<{}, {Values!Arg}, {2}, {}, {4}, {}, {6}>>,
     ptr |-> <<{}, {1}, {}, {1}, {Values!Arg}, {}, {}>>,
     ca |-> {1, 6}, glob |-> {}, direct |-> {}]

\* The same with a lock at an address that is not constant, in front of a division by
\* what the atomic access reads.
LockedAt ==
    [kind |-> <<"op", "load", "atomic", "div", "store", "ret">>,
     succ |-> <<{2}, {3}, {4}, {5}, {6}, {}>>,
     ops |-> <<{Values!Arg}, {}, {Values!Arg}, {3}, {4}, {}>>,
     ptr |-> <<{}, {1}, {2}, {}, {1}, {}>>,
     ca |-> {}, glob |-> {}, direct |-> {}]

MCGenerateFunctions ==
    UNION {Labelled(g) : g \in {Gadget, List, Stores, FirstStore, Copy, Merge, Overwrite,
                                Lanes, Locked, LockedAt}}
        \cup LabelledWith(Lanes, {2})

\* The default, the variants of the tests, and everything at once.
MCGenerateOptions ==
    {{"ncas_xmit", "ncas_ctrl", "ncal_xmit", "ncal_glob"},
     {"mem_intrinsic", "ncas_xmit", "ncas_ctrl", "ncal_xmit", "ncal_glob"},
     {"ncas_xmit", "ncas_ctrl", "ncal_xmit", "ncal_glob", "expand"},
     {"ncas_xmit", "ncas_ctrl", "ncal_xmit", "ncal_glob", "ncas_all"},
     {"mem_intrinsic", "ncas_xmit", "ncas_ctrl", "ncal_xmit", "expand", "ncas_all"},
     {"load_xmit"}, {"entry_xmit", "call_xmit"}}

-----------------------------------------------------------------------------
(* FencePlacement: functions with the shapes that decide where a fence      *)
(* goes: a branch over a block, a loop with a phi, two calls, an invoke,    *)
(* and two branches into one block.                                         *)

\* if (...) { 3 } 4: the edge from 2 to 4 is critical.
IfThen ==
    [kind |-> <<"inst", "term", "inst", "term", "inst", "ret">>,
     succ |-> <<<<2>>, <<3, 5>>, <<4>>, <<5>>, <<6>>, <<>>>>, first |-> 1]

\* do { 2 3 4 } while (...): 2 is a phi, the edge from 4 to 2 is critical.
Loop ==
    [kind |-> <<"term", "phi", "call", "term", "ret">>,
     succ |-> <<<<2>>, <<3>>, <<4>>, <<2, 5>>, <<>>>>, first |-> 1]

\* Straight code with two calls.
Calls ==
    [kind |-> <<"inst", "call", "inst", "call", "ret">>,
     succ |-> <<<<2>>, <<3>>, <<4>>, <<5>>, <<>>>>, first |-> 1]

\* A call that may unwind to 4.
Unwind ==
    [kind |-> <<"inst", "invoke", "term", "inst", "term", "ret">>,
     succ |-> <<<<2>>, <<3, 4>>, <<6>>, <<5>>, <<6>>, <<>>>>, first |-> 1]

\* Blocks that are nothing but a branch.
Branches ==
    [kind |-> <<"term", "term", "term", "inst", "ret">>,
     succ |-> <<<<2, 3>>, <<3>>, <<4>>, <<5>>, <<>>>>, first |-> 1]

MCFenceFunctions == {IfThen, Loop, Calls, Unwind, Branches}

-----------------------------------------------------------------------------
(* The whole of MitigatePass: functions of up to six instructions, each     *)
(* with its slots in the order of the instructions.                         *)

Slots(S) ==
    CHOOSE q \in [1..Cardinality(S) -> S] : \A a, b \in DOMAIN q : a < b => q[a] < q[b]

AsFenced(g, phis) ==
    [kind |-> [i \in DOMAIN g.kind |->
                  CASE i \in phis -> "phi"
                    [] g.kind[i] \in {"call", "memcpy_n"} -> "call"
                    [] g.kind[i] \in {"term", "ret"} -> g.kind[i]
                    [] g.kind[i] = "resume" -> "term"
                    [] OTHER -> "inst"],
     succ |-> [i \in DOMAIN g.kind |-> Slots(g.succ[i])],
     first |-> 1]

\* if (a) x = q[*p]; a fence for the edge over the loads is on the edge.
Check ==
    [kind |-> <<"term", "load", "load", "term", "ret">>,
     succ |-> <<{2, 5}, {3}, {4}, {5}, {}>>,
     ops |-> <<{Values!Arg}, {}, {}, {}, {}>>,
     ptr |-> <<{}, {Values!Arg}, {2}, {}, {}>>,
     ca |-> {}, glob |-> {}, direct |-> {}]

\* do p = *p; while (p): the entry is a branch and nothing else, 2 is a phi.
Chase ==
    [kind |-> <<"term", "op", "load", "term", "ret">>,
     succ |-> <<{2}, {3}, {4}, {2, 5}, {}>>,
     ops |-> <<{}, {Values!Arg, 3}, {}, {3}, {}>>,
     ptr |-> <<{}, {}, {2}, {}, {}>>,
     ca |-> {}, glob |-> {}, direct |-> {}]

\* A branch over a branch that only jumps back to what follows.
Around ==
    [kind |-> <<"load", "term", "term", "load", "ret">>,
     succ |-> <<{2}, {3, 4}, {4}, {5}, {}>>,
     ops |-> <<{}, {Values!Arg}, {}, {}, {}>>,
     ptr |-> <<{Values!Arg}, {}, {}, {1}, {}>>,
     ca |-> {}, glob |-> {}, direct |-> {}]

\* As many values as possible are secret; the second instruction of Lanes takes an
\* element from a vector.
Secret(g) ==
    LET L == LabelledWith(g, IF g = Lanes THEN {2} ELSE {})
    IN  CHOOSE f \in L : \A h \in L : h.secret \subseteq f.secret

MCMitigateInputs ==
    {[f |-> Secret(g), F0 |-> AsFenced(g, IF g = Chase THEN {2} ELSE {}), options |-> o] :
        g \in {Check, Chase, Overwrite, Around, Copy, Lanes},
        o \in {{"ncas_xmit", "ncas_ctrl", "ncal_xmit"},
               {"mem_intrinsic", "ncas_xmit", "ncas_ctrl", "ncal_xmit", "expand"}}}

-----------------------------------------------------------------------------
(* Inlining: three functions; the first stores a secret before a call and   *)
(* has a branch over it, the others call one another or themselves, store   *)
(* public or secret values and load public ones that leak.                  *)

Make(kind, secret, callee, dist) ==
    [kind |-> kind, secret |-> secret, callee |-> callee, dist |-> dist,
     stale |-> FALSE, skip |-> FALSE]

Store(secret) == Make("store", secret, 0, 0)
Load(secret) == Make("load", secret, 0, 0)
Call(f) == Make("call", FALSE, f, 0)
Jump(dist) == Make("jump", FALSE, 0, dist)
Fence == Make("fence", FALSE, 0, 0)
Other == Make("other", FALSE, 0, 0)

MCInlinePrograms ==
    {<<<<Store(TRUE), Jump(2), Load(FALSE), Call(f), Other>>,
       <<start, Store(secret), Load(pub), Call(g), Fence>>,
       <<Call(h), Other, Jump(-2)>>>> :
        f \in 2..3, start \in {Other, Call(0)}, secret \in BOOLEAN, pub \in BOOLEAN, g \in 0..3, h \in 0..3}

-----------------------------------------------------------------------------
(* FunctionStacks: call graphs of three functions: the first calls the      *)
(* others, and these have up to two calls each.  One of them is possibly    *)
(* defined elsewhere or known not to recurse.                               *)

Bodies == {<<>>, <<0>>, <<1>>, <<2>>, <<3>>, <<2, 3>>, <<3, 3>>}

MCStackPrograms ==
    [calls : {<<<<2, 3>>, b, c>> : b \in Bodies, c \in Bodies},
     decl : {{}, {3}}, norecurse : {{}, {2}, {3}}]

-----------------------------------------------------------------------------
(* Frontier: all control-flow graphs of four instructions in which the      *)
(* first is the entry, with the load at the end or in the middle, and all   *)
(* stores.                                                                  *)

FrontierEdges == {e \in (1..4) \X (2..4) : e[1] # e[2]}

MCFrontierInputs ==
    {i \in [E : {E \in SUBSET FrontierEdges : <<1, 2>> \in E}, entry : {1}, LI : {3, 4},
            must : SUBSET {1, 2, 3}, may : {{1, 2, 3}, {1, 2}, {2}}] :
        i.must \subseteq i.may /\ i.LI \notin i.may}

=============================================================================
