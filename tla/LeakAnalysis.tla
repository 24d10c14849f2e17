------------------------------ MODULE LeakAnalysis ------------------------------
(****************************************************************************)
(* LeakAnalysis::runOnFunction: the values that may leak nonspeculatively.  *)
(* It starts from the sensitive operands of the transmitters and goes back  *)
(* through operands, calls, and the stores that a leaked load may read.     *)
(*                                                                          *)
(* `leaks` is a std::set of pointers, and the loop over it inserts into it: *)
(* a value that is inserted behind the iterator is seen in this pass, one   *)
(* that is inserted before it in the next.  Values are numbered in the      *)
(* order of their addresses.  Their kinds:                                  *)
(*   "op"     what leaks all its operands: arithmetic, phis, GEPs ..., the  *)
(*            intrinsics in the list (`annotation` with its first operand   *)
(*            only), and calls, with their arguments                        *)
(*   "load", "rmw", "store", "cmpxchg"; the operands are the value operands *)
(*   "none"   arguments, constants, allocas and landing pads                *)
(*   "other"  what ends the compiler: unhandled instructions, intrinsics    *)
(* The cache of AliasingStores changes nothing and is left out.             *)
(****************************************************************************)
EXTENDS Integers, FiniteSets

\* Records [kind, ops, pub, alias, UnsafeAA]: pub are the transmitters' operands,
\* alias the answers of the alias analysis, UnsafeAA a command-line option.
CONSTANT Inputs

Kinds == {"op", "load", "rmw", "store", "cmpxchg", "none", "other"}
AliasResults == {"NoAlias", "MayAlias", "PartialAlias", "MustAlias"}

IsInput(i) ==
    /\ \A v \in DOMAIN i.kind : i.kind[v] \in Kinds
    /\ i.ops \in [DOMAIN i.kind -> SUBSET {v \in DOMAIN i.kind : i.kind[v] # "store"}]
    /\ i.pub \subseteq DOMAIN i.kind
    /\ i.alias \in [(DOMAIN i.kind) \X (DOMAIN i.kind) -> AliasResults]
    /\ i.UnsafeAA \in BOOLEAN

\* Addresses are greater than 0, so that every value is after the start.
InputsAssumption == \A i \in Inputs : IsInput(i) /\ DOMAIN i.kind \in SUBSET (Nat \ {0})

VARIABLES in,
          leaks, leaks_bak,
          at,               \* where the iterator is; 0 at first
          pc

vars == <<in, leaks, leaks_bak, at, pc>>

Value == DOMAIN in.kind

-----------------------------------------------------------------------------
(* What a leaked value gives away.                                          *)

Writer == {v \in Value : in.kind[v] \in {"rmw", "store", "cmpxchg"}}

isDefinitelyNoAlias(a) == a = "NoAlias" \/ (a = "MayAlias" /\ in.UnsafeAA)

getAliasingStores(l) == {s \in Writer : ~isDefinitelyNoAlias(in.alias[<<l, s>>])}

\* The alias analysis answers what the code does not expect.
Unexpected(l) == \E s \in Writer : in.alias[<<l, s>>] = "PartialAlias"

Gives(v) ==
    CASE in.kind[v] = "op"   -> in.ops[v]
      [] in.kind[v] = "load" -> UNION {in.ops[s] : s \in getAliasingStores(v)}
      [] in.kind[v] = "rmw"  -> in.ops[v] \cup UNION {in.ops[s] : s \in getAliasingStores(v)}
      [] OTHER               -> {}

\* std::abort and unhandled_instruction.
Aborts(v) ==
    \/ in.kind[v] \in {"store", "cmpxchg", "other"}
    \/ in.kind[v] \in {"load", "rmw"} /\ Unexpected(v)

-----------------------------------------------------------------------------
Init ==
    /\ in \in Inputs
    /\ leaks = in.pub
    /\ leaks_bak = in.pub
    /\ at = 0
    /\ pc = "pass"

Rest == {v \in leaks : v > at}

\* A plausible mistake, not part of the specification: the end of the first
\* pass is the end.
EndPass_Once ==
    /\ pc = "pass" /\ Rest = {}
    /\ pc' = "done"
    /\ UNCHANGED <<in, leaks, leaks_bak, at>>

\* The iterator goes to the next value of the set as it is now.
Visit(v) ==
    /\ pc = "pass" /\ v \in Rest /\ \A w \in Rest : v <= w
    /\ IF Aborts(v)
         THEN pc' = "abort" /\ UNCHANGED <<leaks, at>>
         ELSE leaks' = leaks \cup Gives(v) /\ at' = v /\ UNCHANGED pc
    /\ UNCHANGED <<in, leaks_bak>>

EndPass ==
    /\ pc = "pass" /\ Rest = {}
    /\ \/ leaks # leaks_bak /\ leaks_bak' = leaks /\ at' = 0 /\ UNCHANGED pc
       \/ leaks = leaks_bak /\ pc' = "done" /\ UNCHANGED <<leaks_bak, at>>
    /\ UNCHANGED <<in, leaks>>

Stop == pc \in {"done", "abort"} /\ UNCHANGED vars

Next == (\E v \in Value : Visit(v)) \/ EndPass \/ Stop

Spec == Init /\ [][Next]_vars

-----------------------------------------------------------------------------
(* Properties.                                                              *)

\* The least set that has the transmitters' operands and all that its members
\* give away.
Closed(R) == \A v \in R : Gives(v) \subseteq R
Leaked == {v \in Value : \A R \in SUBSET Value : in.pub \subseteq R /\ Closed(R) => v \in R}

\* The result does not depend on the addresses of the values: wherever they are
\* inserted while the set is iterated, all that leaks is found and nothing else,
\* and the compiler gives up only over a value that does leak.
LeaksExact ==
    /\ leaks \subseteq Leaked
    /\ pc = "done" => leaks = Leaked
    /\ pc = "abort" => \E v \in Leaked : Aborts(v)

=============================================================================
