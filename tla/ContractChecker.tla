---------------------------- MODULE ContractChecker ----------------------------
(****************************************************************************)
(* ContractChecker::runOnFunction: does a function keep to the contract     *)
(* that only public values are passed and returned?  It marks values as     *)
(* public backwards (what a public value is computed from), forwards (what  *)
(* is computed from public values only) and through the store that a load   *)
(* certainly reads, until nothing changes, and fails the compilation if an  *)
(* argument or a returned value is still not marked.                        *)
(*                                                                          *)
(* Values are the arguments and the instructions, visited in their order;   *)
(* constants are always public and left out.  Kinds:                        *)
(*   "arg"; "load", "store" (its operand is the stored value); "ext", a     *)
(*   call that is not an intrinsic; "addr", GEPs and allocas; "op", what is *)
(*   propagated both ways: arithmetic, phis, and the intrinsics in the list *)
(*   (`annotation` with its first operand only); "none", what is not        *)
(*   propagated; "other", what ends the compiler when it is visited.        *)
(****************************************************************************)
EXTENDS Integers, Sequences

\* Records [kind, ops, sens, ptr, annotated, rets, dep]: sens[i] are the TRUE
\* transmitter operands of i, ptr the pointers, annotated what the source says
\* is public (the returned values included if the function is annotated), rets
\* the returned values, dep[i] the definition that a load depends on, or 0.
CONSTANT Inputs

Kinds == {"arg", "load", "store", "ext", "addr", "op", "none", "other"}

IsInput(i) ==
    /\ i.kind \in Seq(Kinds)
    /\ {i.ops, i.sens} \subseteq [DOMAIN i.kind -> SUBSET DOMAIN i.kind]
    /\ {i.ptr, i.annotated, i.rets} \subseteq SUBSET DOMAIN i.kind
    /\ i.dep \in [DOMAIN i.kind -> {0} \cup DOMAIN i.kind]
    /\ \A v \in DOMAIN i.kind : i.kind[v] = "arg" => i.sens[v] = {}  \* No transmitter

InputsAssumption == \A i \in Inputs : IsInput(i)

VARIABLES in,
          vals, vals_bak,  \* public values
          mem, mem_bak,    \* public memory: the loads' pointers, never read
          next,            \* the instruction that is visited next
          pc

vars == <<in, vals, vals_bak, mem, mem_bak, next, pc>>

Value == DOMAIN in.kind
Of(i, kind) == {v \in DOMAIN i.kind : i.kind[v] = kind}

Init ==
    /\ in \in Inputs
    /\ vals = (Of(in, "arg") \cap in.ptr) \cup in.annotated
    /\ vals_bak = vals
    /\ mem = {} /\ mem_bak = {}
    /\ next = 1
    /\ pc = "pass"

-----------------------------------------------------------------------------
(* What the visit of v adds to the public values P, one step after another. *)

\* Pointers, transmitted values, and what other functions get and return.
Contract(v, P) ==
    P \cup ({v} \cap in.ptr) \cup in.sens[v]
      \cup (IF in.kind[v] = "ext" THEN in.ops[v] \cup {v} ELSE {})

Backwards(v, P) ==
    IF v \in P /\ in.kind[v] \in {"op", "addr"} THEN P \cup in.ops[v] ELSE P

Forwards(v, P) ==
    IF in.kind[v] = "op" /\ in.ops[v] \subseteq P THEN P \cup {v} ELSE P

\* A plausible mistake, not part of the specification: only from the store.
ThroughMemory_OneWay(v, P) ==
    IF in.kind[v] = "load" /\ in.dep[v] \in Of(in, "store") /\ in.ops[in.dep[v]] \subseteq P
      THEN P \cup {v} ELSE P

\* The loaded and the stored value are the same.
ThroughMemory(v, P) ==
    IF in.kind[v] = "load" /\ in.dep[v] \in Of(in, "store")
      THEN LET stored == in.ops[in.dep[v]]
               Q == IF stored \subseteq P THEN P \cup {v} ELSE P
           IN  IF v \in Q THEN Q \cup stored ELSE Q
      ELSE P

\* A definition that is not a store is not handled.
Aborts(v) ==
    \/ in.kind[v] = "other"
    \/ in.kind[v] = "load" /\ in.dep[v] \in Value \ Of(in, "store")

-----------------------------------------------------------------------------
Visit ==
    LET P == Backwards(next, Contract(next, vals))
    IN  /\ pc = "pass" /\ next \in Value
        /\ ~Aborts(next)
        /\ vals' = IF in.kind[next] = "arg" THEN vals ELSE ThroughMemory(next, Forwards(next, P))
        /\ mem' = IF in.kind[next] = "load" /\ next \in P THEN mem \cup in.sens[next] ELSE mem
        /\ next' = next + 1
        /\ UNCHANGED <<in, vals_bak, mem_bak, pc>>

Abort ==
    /\ pc = "pass" /\ next \in Value /\ Aborts(next)
    /\ pc' = "abort"
    /\ UNCHANGED <<in, vals, vals_bak, mem, mem_bak, next>>

Ok == Of(in, "arg") \cup in.rets \subseteq vals

EndPass ==
    /\ pc = "pass" /\ next \notin Value
    /\ \/ /\ <<mem, vals>> # <<mem_bak, vals_bak>>
          /\ mem_bak' = mem /\ vals_bak' = vals /\ next' = 1
          /\ UNCHANGED pc
       \/ /\ <<mem, vals>> = <<mem_bak, vals_bak>>
          /\ pc' = IF Ok THEN "ok" ELSE "fail"
          /\ UNCHANGED <<mem_bak, vals_bak, next>>
    /\ UNCHANGED <<in, vals, mem>>

Stop == pc \in {"ok", "fail", "abort"} /\ UNCHANGED vars

Next == Visit \/ Abort \/ EndPass \/ Stop

Spec == Init /\ [][Next]_vars

-----------------------------------------------------------------------------
(* Properties.                                                              *)

\* Public values, closed under all rules at once.
Closed(R) ==
    \A v \in Value :
        /\ in.kind[v] = "ext" => {v} \cup in.ops[v] \subseteq R
        /\ in.sens[v] \subseteq R
        /\ in.kind[v] \in {"op", "addr"} /\ v \in R => in.ops[v] \subseteq R
        /\ in.kind[v] = "op" /\ in.ops[v] \subseteq R => v \in R
        /\ in.kind[v] = "load" /\ in.dep[v] \in Of(in, "store")
              => (v \in R <=> in.ops[in.dep[v]] \subseteq R)

Public ==
    {v \in Value : \A R \in SUBSET Value :
        in.ptr \cup in.annotated \subseteq R /\ Closed(R) => v \in R}

\* Rules that work in both directions feed each other across the order of the
\* visits: the checker accepts a function if and only if its arguments and its
\* returned values are public by some chain of these rules, and it marks nothing
\* else on the way.
VerdictExact ==
    /\ vals \subseteq Public
    /\ pc = "ok" => Of(in, "arg") \cup in.rets \subseteq Public
    /\ pc = "fail" => ~(Of(in, "arg") \cup in.rets \subseteq Public)

=============================================================================
