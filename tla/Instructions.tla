----------------------------- MODULE Instructions -----------------------------
(****************************************************************************)
(* What the mitigation pass asks about the instructions of a function: how  *)
(* control goes on, what a value is computed from, and what an instruction  *)
(* gives away.                                                              *)
(*                                                                          *)
(* A function is its instructions 1..n; 1 is the entry.  Kinds:             *)
(*   "load" and "store";  "memcpy", an llvm.memcpy.inline, and "memcpy_n",  *)
(*   an llvm.memcpy of constant length, which may become a function call;   *)
(*   "call" (mayLowerToFunctionCall), and "intr", the other intrinsics;     *)
(*   "term", a branch or switch;  "ret";  "resume", which ends a function   *)
(*   but does not return from it;                                           *)
(*   "atomic", a cmpxchg or atomicrmw;  "div", an integer division;  "op",  *)
(*   what only computes.  get_incoming_loads follows the operands of these  *)
(*   three, and of phis, which are "op"s too.                               *)
(* Operands that are constants are left out.  ptr[i] holds the pointer      *)
(* operand, if it is not a constant, or the arguments that an intrinsic     *)
(* gives away (the address and alignment of a masked load, the operands of  *)
(* a constrained fdiv), and ops[i] the others; Arg stands for the           *)
(* arguments.  The results of the analyses are part of the input:           *)
(*   ca      accesses with a constant address (ConstantAddressAnalysis)     *)
(*   secret  the values that may be secret (NonspeculativeTaint)            *)
(*   taints  the NCALs that flow into an instruction (SpeculativeTaint)     *)
(****************************************************************************)
EXTENDS ControlFlow, Sequences

Kinds == {"load", "store", "atomic", "memcpy", "memcpy_n", "call", "intr",
          "term", "ret", "resume", "div", "op"}

\* The result is computed from the operands.
Computing == {"op", "div", "atomic"}

Arg == 0

-----------------------------------------------------------------------------
(* Control flow.                                                            *)

Of(g, kinds) == {i \in DOMAIN g.kind : g.kind[i] \in kinds}
CFG(g) == {e \in (DOMAIN g.kind) \X (DOMAIN g.kind) : e[2] \in g.succ[e[1]]}

Reversed(E) == {<<e[2], e[1]>> : e \in E}
predecessors(g, i) == {e[1] : e \in {d \in CFG(g) : d[2] = i}}

\* mayLowerToFunctionCall.
Calls(g) == Of(g, {"call", "memcpy_n"})

-----------------------------------------------------------------------------
(* Values.                                                                  *)

Operands(g, i) == g.ops[i] \cup g.ptr[i]

\* The loads, calls and arguments that a value is computed from.
Leaf(g, v) == v = Arg \/ g.kind[v] \in {"load", "call", "intr"}

get_incoming_loads(g, V) ==
    LET from[n \in 0..Len(g.kind)] ==
            IF n = 0 THEN V
            ELSE UNION {{v} \cup (IF Leaf(g, v) THEN {} ELSE Operands(g, v)) : v \in from[n - 1]}
    IN  {v \in from[Len(g.kind)] : Leaf(g, v)}

\* What an instruction gives away.  An intrinsic that returns nothing, such as a
\* memcpy, is not asked.
get_transmitter_sensitive_operands(g, i) ==
    CASE g.kind[i] \in {"load", "store", "atomic", "intr"} -> g.ptr[i]
      [] g.kind[i] \in {"term", "call", "ret", "resume", "div"} -> g.ops[i]
      [] OTHER -> {}

ST_secret(g, v) == v # Arg /\ g.taints[v] # {}

=============================================================================
