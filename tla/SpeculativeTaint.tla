---------------------------- MODULE SpeculativeTaint ----------------------------
(****************************************************************************)
(* SpeculativeTaint::runOnFunction: for every instruction of a function,    *)
(* the loads from non-constant addresses (NCALs) whose value may flow into  *)
(* it.  MitigatePass fences a transmitter off the NCALs of its operands, so *)
(* an NCAL that is missing here is a fence that is missing there.           *)
(*                                                                          *)
(* A function is its instructions 1..n in the order of llvm::instructions,  *)
(* which is the order of the blocks' list:                                  *)
(*   "ncal"  a load from a non-constant address                             *)
(*   "cal"   a load from a constant address                                 *)
(*   "store" a store; its operand is the stored value                       *)
(*   "op"    what is tainted by its operands: arithmetic, casts, phis, GEPs *)
(*           ..., and the intrinsics in the list (`annotation` with its     *)
(*           first operand only)                                            *)
(*   "none"  the rest: calls, fences, other intrinsics, void instructions   *)
(* Operands that are not instructions carry no taint and are left out.      *)
(*                                                                          *)
(* `taints` and `taints_bak` are maps in the code, and differ also when one *)
(* has an empty entry more.  That costs a pass that changes nothing.        *)
(****************************************************************************)
EXTENDS Integers, Sequences

CONSTANT Programs  \* records [kind, ops, rf]

Kinds == {"ncal", "cal", "store", "op", "none"}

Of(p, kind) == {i \in DOMAIN p.kind : p.kind[i] = kind}

\* rf: the constant-address loads that are not NoAlias with a store (rfs).
IsProgram(p) ==
    /\ p.kind \in Seq(Kinds)
    /\ p.ops \in [DOMAIN p.kind -> SUBSET DOMAIN p.kind]
    /\ p.rf \in [DOMAIN p.kind -> SUBSET Of(p, "cal")]

ProgramsAssumption == \A p \in Programs : IsProgram(p)

VARIABLES prog,
          taints, taints_bak,
          next,               \* the instruction that is visited next
          pc

vars == <<prog, taints, taints_bak, next, pc>>

Instr == DOMAIN prog.kind

Init ==
    /\ prog \in Programs
    /\ taints = [i \in DOMAIN prog.kind |-> {}]
    /\ taints_bak = taints
    /\ next = 1
    /\ pc = "visit"

Visiting(kind) == pc = "visit" /\ next \in Of(prog, kind)

-----------------------------------------------------------------------------
(* Plausible mistakes in this code, for showing that the properties notice  *)
(* them.  None is part of the specification.                                *)

\* Every store is taken to flow into all loads.
VisitStore_NoAliasing ==
    /\ Visiting("store")
    /\ taints' = [l \in Instr |->
                     IF l \in Of(prog, "cal")
                       THEN taints[l] \cup UNION {taints[v] : v \in prog.ops[next]}
                       ELSE taints[l]]
    /\ next' = next + 1
    /\ UNCHANGED <<prog, taints_bak, pc>>

\* The taint before this pass is sent.
VisitStore_Old ==
    LET changed == \E v \in prog.ops[next] : taints[v] # taints_bak[v]
        orgs == UNION {taints_bak[v] : v \in prog.ops[next]}
    IN  /\ Visiting("store")
        /\ taints' = [l \in Instr |-> IF changed /\ l \in prog.rf[next]
                                        THEN taints[l] \cup orgs ELSE taints[l]]
        /\ next' = next + 1
        /\ UNCHANGED <<prog, taints_bak, pc>>

\* The bit of the NCAL is flipped instead of set.
VisitNCAL_Toggle ==
    /\ Visiting("ncal")
    /\ taints' = [taints EXCEPT ![next] = {next} \ @]
    /\ next' = next + 1
    /\ UNCHANGED <<prog, taints_bak, pc>>

-----------------------------------------------------------------------------
(* One pass over the function.                                              *)

VisitNCAL ==
    /\ Visiting("ncal")
    /\ taints' = [taints EXCEPT ![next] = @ \cup {next}]
    /\ next' = next + 1
    /\ UNCHANGED <<prog, taints_bak, pc>>

\* The taint of the stored value goes to the loads that may read it, if it has
\* changed in this pass.
VisitStore ==
    LET orgs == UNION {taints[v] : v \in prog.ops[next]}
        changed == \E v \in prog.ops[next] : taints[v] # taints_bak[v]
    IN  /\ Visiting("store")
        /\ taints' = [l \in Instr |-> IF changed /\ l \in prog.rf[next]
                                        THEN taints[l] \cup orgs ELSE taints[l]]
        /\ next' = next + 1
        /\ UNCHANGED <<prog, taints_bak, pc>>

VisitOp ==
    /\ Visiting("op")
    /\ taints' = [taints EXCEPT ![next] = @ \cup UNION {taints[v] : v \in prog.ops[next]}]
    /\ next' = next + 1
    /\ UNCHANGED <<prog, taints_bak, pc>>

Skip ==
    /\ Visiting("cal") \/ Visiting("none")
    /\ next' = next + 1
    /\ UNCHANGED <<prog, taints, taints_bak, pc>>

\* Another pass, or the result.
EndPass ==
    /\ pc = "visit" /\ next \notin Instr
    /\ \/ /\ taints # taints_bak
          /\ taints_bak' = taints
          /\ next' = 1
          /\ UNCHANGED <<prog, taints, pc>>
       \/ /\ taints = taints_bak
          /\ pc' = "done"
          /\ UNCHANGED <<prog, taints, taints_bak, next>>

Done == pc = "done" /\ UNCHANGED vars

Next == VisitNCAL \/ VisitStore \/ VisitOp \/ Skip \/ EndPass \/ Done

Spec == Init /\ [][Next]_vars

\* A sequential function: it keeps running.
FairSpec == Spec /\ WF_vars(Next)

-----------------------------------------------------------------------------
(* The reference: how values flow.                                          *)

\* R has with a value all that it flows into: as an operand, or through memory by
\* a store.
IsClosed(R) ==
    /\ \A b \in Of(prog, "op") : prog.ops[b] \cap R # {} => b \in R
    /\ \A s \in Of(prog, "store") : prog.ops[s] \cap R # {} => prog.rf[s] \subseteq R

\* Everything the values of A flow into, A included.
FlowsFrom(A) ==
    {i \in Instr : \A R \in SUBSET Instr : A \subseteq R /\ IsClosed(R) => i \in R}

-----------------------------------------------------------------------------
(* Properties.                                                              *)

\* Fences are costly: whatever the order of the visits, no instruction is ever
\* tainted by an NCAL that does not flow into it.
NoFalseTaint ==
    \A a \in Of(prog, "ncal") : {i \in Instr : a \in taints[i]} \subseteq FlowsFrom({a})

\* "This is sound, right?": the result has every NCAL that flows into an
\* instruction.
Sound ==
    pc = "done" =>
        \A a \in Of(prog, "ncal") : FlowsFrom({a}) \subseteq {i \in Instr : a \in taints[i]}

\* A value flows into b, which is before it or before the store on the way.
GoesBack(b) ==
    \/ b \in Of(prog, "op") /\ \E a \in prog.ops[b] : b <= a
    \/ \E s \in Of(prog, "store") : b \in prog.rf[s] /\ prog.ops[s] # {} /\ b <= s

\* A store of a value that is visited after it, or that comes from a value that has
\* gone back.
LateStore ==
    \E s \in Of(prog, "store") : \E v \in prog.ops[s] :
        \/ s <= v
        \/ \E b \in Instr : GoesBack(b) /\ v \in FlowsFrom({b})

\* What the comparison with the pass before relies on: nothing is missing if no
\* store is of a value that is visited later, or goes back in the order of the
\* visits on its way.
SoundUnlessLate == Sound \/ LateStore

=============================================================================
