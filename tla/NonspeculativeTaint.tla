-------------------------- MODULE NonspeculativeTaint --------------------------
(****************************************************************************)
(* NonspeculativeTaint::runOnFunction: the instructions whose value is      *)
(* public because it leaks without any speculation.  All others are secret, *)
(* and a store of a secret to a non-constant address is what MitigatePass   *)
(* fences loads off: a value that is wrongly secret costs a fence, one that *)
(* is wrongly public saves a fence that is needed.                          *)
(*                                                                          *)
(* A function is its instructions 1..n, visited in this order in each of    *)
(* the four parts of a pass.  Operands that are not instructions are never  *)
(* secret and are left out.  Kinds:                                         *)
(*   "call", "ret"; "gep"; "load", "rmw", "cmpxchg", "store", with their    *)
(*   value operands; "intrinsic", in the list (`annotation` with its first  *)
(*   operand only); "op", arithmetic, casts, phis ...; "none", the rest;    *)
(*   "other", what ends the compiler: unhandled instructions, intrinsics.   *)
(****************************************************************************)
EXTENDS Integers, Sequences

\* Records [kind, ops, pub, alias, StrictCallingConv, UnsafeAA]: pub are the
\* transmitters' operands and the pointers, alias the answers of the alias
\* analysis, and the last two command-line options.
CONSTANT Inputs

Kinds == {"call", "ret", "gep", "load", "rmw", "cmpxchg", "store", "intrinsic", "op", "none",
          "other"}
AliasResults == {"NoAlias", "MayAlias", "PartialAlias", "MustAlias"}
Access == {"load", "rmw", "cmpxchg", "store"}

IsInput(i) ==
    /\ i.kind \in Seq(Kinds)
    /\ i.ops \in [DOMAIN i.kind -> SUBSET DOMAIN i.kind]
    /\ i.pub \subseteq DOMAIN i.kind
    /\ i.alias \in [(DOMAIN i.kind) \X (DOMAIN i.kind) -> AliasResults]
    /\ i.StrictCallingConv \in BOOLEAN /\ i.UnsafeAA \in BOOLEAN

InputsAssumption == \A i \in Inputs : IsInput(i)

VARIABLES in,
          pub_vals, pub_vals_bak,
          seen_mem_taint_prop,     \* the accesses that have been propagated
          part,                    \* the part of the pass: 1..4
          next,                    \* the instruction that is visited next
          pc

vars == <<in, pub_vals, pub_vals_bak, seen_mem_taint_prop, part, next, pc>>

Instr == DOMAIN in.kind
Of(kinds) == {i \in Instr : in.kind[i] \in kinds}

Init ==
    /\ in \in Inputs
    /\ pub_vals = in.pub /\ pub_vals_bak = in.pub
    /\ seen_mem_taint_prop = {}
    /\ part = 1 /\ next = 1 /\ pc = "pass"

-----------------------------------------------------------------------------
(* The operands of memory accesses.                                         *)

isDefinitelyMustAlias(a) == a = "MustAlias" \/ (a = "MayAlias" /\ in.UnsafeAA)

getAccessOperands(i) ==
    CASE in.kind[i] = "store"             -> in.ops[i]
      [] in.kind[i] = "load"              -> {i}
      [] in.kind[i] \in {"rmw", "cmpxchg"} -> in.ops[i] \cup {i}

\* What is public when the value of the access `src` is.
SameMemory(src) ==
    getAccessOperands(src)
    \cup UNION {getAccessOperands(d) :
                  d \in {d \in Of(Access) : isDefinitelyMustAlias(in.alias[<<src, d>>])}}

Unexpected(src) == \E d \in Of(Access) : in.alias[<<src, d>>] = "PartialAlias"

-----------------------------------------------------------------------------
(* One pass: calls, memory, returns, operands.                              *)

Visiting(p, kinds) == pc = "pass" /\ part = p /\ next \in Of(kinds)

\* The instruction makes the values V public.
Publish(V) ==
    /\ pub_vals' = pub_vals \cup V
    /\ next' = next + 1
    /\ UNCHANGED <<in, pub_vals_bak, part, pc>>

VisitIntrinsic ==
    /\ Visiting(1, {"intrinsic"})
    /\ Publish(IF next \in pub_vals THEN in.ops[next] ELSE {})
    /\ UNCHANGED seen_mem_taint_prop

VisitCall ==
    /\ Visiting(1, {"call"})
    /\ Publish(IF in.StrictCallingConv THEN in.ops[next] \cup {next} ELSE {})
    /\ UNCHANGED seen_mem_taint_prop

\* A plausible mistake, not part of the specification: an access counts as
\* propagated once it has been looked at.
VisitAccess_SeenTooEarly ==
    /\ Visiting(2, {"load", "rmw", "cmpxchg"})
    /\ Publish(IF next \in pub_vals \ seen_mem_taint_prop THEN SameMemory(next) ELSE {})
    /\ seen_mem_taint_prop' = seen_mem_taint_prop \cup {next}

\* An access whose value is public makes public what is at its address.  Only the
\* first time.
VisitAccess ==
    /\ Visiting(2, {"load", "rmw", "cmpxchg"})
    /\ next \in pub_vals \ seen_mem_taint_prop => ~Unexpected(next)
    /\ Publish(IF next \in pub_vals \ seen_mem_taint_prop THEN SameMemory(next) ELSE {})
    /\ seen_mem_taint_prop' = seen_mem_taint_prop \cup ({next} \cap pub_vals)

VisitReturn ==
    /\ Visiting(3, {"ret"})
    /\ Publish(IF in.StrictCallingConv THEN in.ops[next] ELSE {})
    /\ UNCHANGED seen_mem_taint_prop

VisitOperands ==
    /\ Visiting(4, {"gep", "op"})
    /\ Publish(IF in.kind[next] = "gep" \/ next \in pub_vals THEN in.ops[next] ELSE {})
    /\ UNCHANGED seen_mem_taint_prop

\* The kinds that a part looks at.
Concerns(p) ==
    CASE p = 1 -> {"intrinsic", "call"}
      [] p = 2 -> {"load", "rmw", "cmpxchg"}
      [] p = 3 -> {"ret"}
      [] p = 4 -> {"gep", "op", "other"}

Skip ==
    /\ Visiting(part, Kinds \ Concerns(part))
    /\ next' = next + 1
    /\ UNCHANGED <<in, pub_vals, pub_vals_bak, seen_mem_taint_prop, part, pc>>

\* unhandled_instruction, and the abort in isDefinitelyMustAlias.
Abort ==
    /\ \/ Visiting(4, {"other"})
       \/ /\ Visiting(2, {"load", "rmw", "cmpxchg"})
          /\ next \in pub_vals \ seen_mem_taint_prop /\ Unexpected(next)
    /\ pc' = "abort"
    /\ UNCHANGED <<in, pub_vals, pub_vals_bak, seen_mem_taint_prop, part, next>>

EndPart ==
    /\ pc = "pass" /\ next \notin Instr /\ part < 4
    /\ part' = part + 1 /\ next' = 1
    /\ UNCHANGED <<in, pub_vals, pub_vals_bak, seen_mem_taint_prop, pc>>

EndPass ==
    /\ pc = "pass" /\ next \notin Instr /\ part = 4
    /\ \/ /\ pub_vals # pub_vals_bak
          /\ pub_vals_bak' = pub_vals /\ part' = 1 /\ next' = 1 /\ UNCHANGED pc
       \/ /\ pub_vals = pub_vals_bak
          /\ pc' = "done" /\ UNCHANGED <<pub_vals_bak, part, next>>
    /\ UNCHANGED <<in, pub_vals, seen_mem_taint_prop>>

Stop == pc \in {"done", "abort"} /\ UNCHANGED vars

Next ==
    \/ VisitIntrinsic \/ VisitCall \/ VisitAccess \/ VisitReturn \/ VisitOperands
    \/ Skip \/ Abort \/ EndPart \/ EndPass \/ Stop

Spec == Init /\ [][Next]_vars

secret(i) == i \notin pub_vals

-----------------------------------------------------------------------------
(* Properties.                                                              *)

\* What is public whatever else is.
Always ==
    in.pub \cup (UNION {in.ops[i] : i \in Of({"gep"})})
    \cup (IF in.StrictCallingConv
            THEN Of({"call"}) \cup UNION {in.ops[i] : i \in Of({"call", "ret"})} ELSE {})

Closed(R) ==
    \A i \in R :
        /\ in.kind[i] \in {"intrinsic", "op"} => in.ops[i] \subseteq R
        /\ in.kind[i] \in {"load", "rmw", "cmpxchg"} => SameMemory(i) \subseteq R

Public == {i \in Instr : \A R \in SUBSET Instr : Always \subseteq R /\ Closed(R) => i \in R}

\* Secret is exactly what does not leak, through any number of operands and
\* memory cells against the order of the visits: although each access is
\* propagated only once, nothing that becomes public later is missed, and nothing
\* is public without a reason.
PublicExact ==
    /\ pub_vals \subseteq Public
    /\ pc = "done" => \A i \in Instr : secret(i) <=> i \notin Public

=============================================================================
