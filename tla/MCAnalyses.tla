------------------------------ MODULE MCAnalyses ------------------------------
(****************************************************************************)
(* For each of the analyses a family of functions.                          *)
(****************************************************************************)
EXTENDS Analyses, Functions, TLC

Answers == {"NoAlias", "MayAlias", "PartialAlias", "MustAlias"}

-----------------------------------------------------------------------------
(* SpeculativeTaint: functions with an NCAL, two constant-address loads, two *)
(* stores and an instruction with operands in between, which as a phi may   *)
(* have later ones (its own included), for all values stored and all        *)
(* aliasing.                                                                *)

SpecBody == <<"ncal", "cal", "store", "op", "store", "cal">>

\* v: the value stored first; o: the operands; w: the value stored last;
\* f, g: the loads that may read the one and the other.
SpecFunction(body, v, o, w, f, g) ==
    [kind |-> body,
     ops  |-> [i \in 1..6 |-> CASE i = 3 -> v [] i = 4 -> o [] i = 5 -> w [] OTHER -> {}],
     rf   |-> [i \in 1..6 |-> CASE i = 3 -> f [] i = 5 -> g [] OTHER -> {}]]

MCTaintPrograms ==
    {SpecFunction(SpecBody, v, o, w, f, g) :
        v \in {{1}, {2}, {4}}, o \in {{1}, {2}, {6}, {2, 6}, {4}}, w \in {{1}, {2}, {4}},
        f \in SUBSET {2, 6}, g \in SUBSET {2, 6}}
    \cup {SpecFunction(<<"none", "cal", "store", "op", "store", "cal">>, {2}, {2}, {4}, {6}, {2})}

-----------------------------------------------------------------------------
(* LeakAnalysis: five values at all addresses: two with operands, a load, a *)
(* store, and one more that is an atomic access or an unexpected            *)
(* instruction.                                                             *)

Role == {"op", "phi", "load", "store", "last"}
Orders == Injection(1..5, Role)

\* What can be an operand: a store has no value.
LeakOperand == Role \ {"store"}

At(order, roles) == {v \in 1..5 : order[v] \in roles}

\* A kind for the places of `order`, and operands for those that have them.
LeakCase(order, last, o, p, s, a, unsafe) ==
    [kind |-> [v \in 1..5 |-> CASE order[v] = "phi" -> "op" [] order[v] = "last" -> last
                                [] OTHER -> order[v]],
     ops  |-> [v \in 1..5 |-> CASE order[v] = "op" -> At(order, {o}) [] order[v] = "phi" -> At(order, {p})
                                [] order[v] = "store" -> At(order, {s})
                                [] order[v] = "last" /\ last \in {"rmw", "cmpxchg"} -> At(order, {o})
                                [] OTHER -> {}],
     pub  |-> At(order, {"phi"}),
     alias |-> [e \in (1..5) \X (1..5) |-> a],
     UnsafeAA |-> unsafe]

MCLeakInputs ==
    {LeakCase(order, last, o, p, s, a, unsafe) :
        order \in Orders, last \in {"rmw"},
        o \in LeakOperand, p \in LeakOperand, s \in LeakOperand, a \in {"MustAlias"}, unsafe \in {FALSE}}
    \cup
    {LeakCase(order, last, o, p, s, a, unsafe) :
        order \in {[v \in 1..5 |-> <<"load", "store", "op", "last", "phi">>[v]]},
        last \in {"rmw", "cmpxchg", "other"},
        o \in LeakOperand, p \in LeakOperand, s \in LeakOperand, a \in Answers, unsafe \in BOOLEAN}

-----------------------------------------------------------------------------
(* NonspeculativeTaint: functions of six instructions in which a load, a    *)
(* store and an atomic access share one address or more, and calls,         *)
(* arithmetic and returns use their values in all ways.                     *)

\* Straight code: b, c, d and e are operands of the instructions 2, 3, 4 and 6.
PublicCase(kind, b, c, d, e, pub, same, answer, strict, unsafe) ==
    [kind |-> kind,
     ops |-> [i \in 1..6 |-> CASE i = 2 -> {b} [] i = 3 -> {c} [] i = 4 -> {d}
                               [] i = 6 -> {e} [] OTHER -> {}],
     pub |-> {pub},
     alias |-> [p \in (1..6) \X (1..6) |-> IF p[1] = p[2] THEN "MustAlias"
                                           ELSE IF {p[1], p[2]} \subseteq same THEN answer
                                           ELSE "NoAlias"],
     StrictCallingConv |-> strict, UnsafeAA |-> unsafe]

\* 4 is a phi: its operand may be a later instruction.
Memory == <<"load", "store", "rmw", "op", "load", "store">>
Calls  == <<"call", "intrinsic", "store", "op", "load", "ret">>
Others == <<"none", "gep", "cmpxchg", "other", "load", "ret">>

MCPublicInputs ==
    {PublicCase(Memory, b, c, d, e, pub, same, "MustAlias", FALSE, FALSE) :
        b \in {1}, c \in {1}, d \in {1, 3, 5}, e \in {1, 4, 5},
        pub \in {3, 5}, same \in SUBSET {2, 3, 5, 6}}
    \cup
    {PublicCase(Calls, b, c, d, e, pub, {3, 5}, answer, strict, unsafe) :
        b \in {1}, c \in {1, 2}, d \in {2, 5}, e \in {4, 5}, pub \in {4, 5},
        answer \in Answers, strict \in BOOLEAN, unsafe \in BOOLEAN}
    \cup
    {PublicCase(Others, b, c, d, e, pub, {3, 5}, answer, FALSE, FALSE) :
        b \in {1}, c \in {1, 2}, d \in {5}, e \in {5}, pub \in {1, 5}, answer \in Answers}

-----------------------------------------------------------------------------
(* ConstantAddress: two functions with two arguments and one with one,      *)
(* which call each other with these arguments, a select of two, a constant  *)
(* or a load, or what the analysis does not handle.                         *)

\* Arguments 1 and 2 of the function 1, 3 and 4 of 2, 5 of 3; 6 selects.
AddressCase(last, direct, sel, a, b, c, d, e) ==
    [kind |-> [p \in 1..8 |-> CASE p \in 1..5 -> "arg" [] p = 6 -> "via"
                                [] p = 7 -> "const" [] p = 8 -> last],
     ops  |-> [p \in 1..8 |-> IF p = 6 THEN sel ELSE {}],
     fun  |-> [p \in 1..5 |-> CASE p \in 1..2 -> 1 [] p \in 3..4 -> 2 [] p = 5 -> 3],
     direct |-> direct,
     calls |-> {[callee |-> 1, act |-> (1 :> a @@ 2 :> b)],
                [callee |-> 2, act |-> (3 :> c @@ 4 :> d)],
                [callee |-> 2, act |-> (3 :> 7)],
                [callee |-> 3, act |-> (5 :> e)]},
     stores |-> {2, 3, 6}]

\* The pointers of a function; constants and loads are in all of them.
In(f) == {7, 8} \cup (CASE f = 1 -> {1, 2, 6} [] f = 2 -> {3, 4} [] f = 3 -> {5})

\* Each call is in one function, so its operands are.
MCAddressModules ==
    UNION {{AddressCase("dyn", direct, {1, 2}, a, b, c, 7, e) : a \in In(f), b \in In(f)} :
              f \in 1..3, direct \in {{1, 2, 3}, {1, 2}}, c \in {2, 6}, e \in {1, 4, 8}}
        \cup {AddressCase("other", {1, 2, 3}, {1, 8}, a, b, c, 7, e) :
                 a \in {4, 8}, b \in {3, 7}, c \in {2, 6}, e \in {1, 8}}

-----------------------------------------------------------------------------
(* ContractChecker: an argument, a phi with later operands, a store of any  *)
(* value, a load that may depend on it, arithmetic and a call or a          *)
(* transmitter.                                                             *)

ContractCase(last, o, s, q, a, sens, annotated, rets, dep) ==
    [kind |-> <<"arg", "op", "store", "load", "op", last>>,
     ops  |-> <<{}, o, s, {}, q, a>>,
     sens |-> <<{}, {}, {}, {}, {}, sens>>,
     ptr  |-> IF last = "addr" THEN {6} ELSE {},
     annotated |-> annotated, rets |-> rets,
     dep  |-> <<0, 0, 0, dep, 0, 0>>]

MCContractInputs ==
    {ContractCase(last, o, s, q, a, {}, annotated, rets, dep) :
        last \in {"ext", "addr"}, o \in {{1}, {4}, {1, 5}, {5}}, s \in {{1}, {2}, {5}},
        q \in {{2}, {4}, {1, 4}}, a \in {{1}, {4}, {5}},
        annotated \in {{}, {4}}, rets \in {{2}, {5}}, dep \in {0, 3}}
    \cup
    {ContractCase("none", {5}, {1}, q, {}, sens, {}, {2}, dep) :
        q \in {{1}, {4}}, sens \in {{}, {2}, {4}}, dep \in {0, 2, 3}}
    \cup
    {ContractCase("other", {5}, {1}, {4}, {}, {}, {}, {2}, 3)}

=============================================================================
