----------------------------- MODULE FunctionStacks -----------------------------
(****************************************************************************)
(* FunctionLocalStacks gives every function a stack of its own: a global    *)
(* array and a stack pointer sp, which the function saves on entry, sets if *)
(* it makes calls, and restores before it returns.  A function that cannot  *)
(* be entered twice (util::doesNotRecurse) needs none of that, and always   *)
(* starts at the end of its array; FramePromotion makes its static allocas  *)
(* global variables.  This module is the code of the pass and the program   *)
(* that runs afterwards: calls, returns, and the unwinding of frames by     *)
(* exceptions or longjmp, which skips the restoring code.                   *)
(*                                                                          *)
(* A frame has size 1, and the array StackSize.  The prologue belongs to    *)
(* the code generator: it takes rsp from sp, or from the end of the array   *)
(* if the function has the attribute fps_usestack, and makes the frame.     *)
(****************************************************************************)
EXTENDS Integers, Sequences, SequencesExt

CONSTANTS NumFunctions, StackSize, MaxDepth,
          Programs  \* records [calls, decl, norecurse]

Function == 1..NumFunctions
Indirect == 0

\* calls[f]: the callees of the calls in f, in their order; decl: the functions
\* that are defined elsewhere; norecurse: the functions with this attribute.
IsProgram(p) ==
    /\ p.calls \in [Function -> Seq({Indirect} \cup Function)]
    /\ p.decl \subseteq Function
    /\ p.norecurse \subseteq Function

ConstantsAssumption == NumFunctions \in Nat /\ StackSize \in Nat /\ MaxDepth \in Nat

VARIABLES prog,
          sp,       \* the stack pointer of every function
          live,     \* the activations, the newest last: [f, rsp, OldSP]
          unwound   \* some activation was left without a return

vars == <<prog, sp, live, unwound>>

-----------------------------------------------------------------------------
(* The pass.                                                                *)

\* Which functions may run next: an indirect call and a function of which only
\* the declaration is known may call anything.
Callees(p, f) ==
    IF f \in p.decl \/ \E i \in DOMAIN p.calls[f] : p.calls[f][i] = Indirect
      THEN Function ELSE {p.calls[f][i] : i \in DOMAIN p.calls[f]}

\* What is called from f, at once or in the end.
CallsFrom(p, f) ==
    {g \in Function : \A R \in SUBSET Function :
        Callees(p, f) \subseteq R /\ (\A h \in R : Callees(p, h) \subseteq R) => g \in R}

ProgramsAssumption == \A p \in Programs : IsProgram(p)

\* The calls in the functions of `seen`; the search does not look into those that
\* are known not to recurse.
Sites(seen) == UNION {{g} \X DOMAIN prog.calls[g] : g \in seen \ prog.norecurse}
Callee(c) == prog.calls[c[1]][c[2]]

\* A plausible mistake, not part of the specification: a call of which the
\* callee is not known is passed over.
doesNotRecurse_Indirect(f) ==
    \E seen \in SUBSET Function :
        LET known == {c \in Sites(seen) : Callee(c) # Indirect}
        IN  /\ f \in seen /\ seen \cap prog.decl \subseteq prog.norecurse
            /\ \A c \in known : Callee(c) \in seen \ {f}
            /\ \A c, d \in known : Callee(c) = Callee(d) => c = d

\* One set `seen` for the whole search: a function that is called twice ends it, as
\* does one that is called through a pointer or defined elsewhere.
doesNotRecurse(f) ==
    \E seen \in SUBSET Function :
        /\ f \in seen /\ seen \cap prog.decl \subseteq prog.norecurse
        /\ \A c \in Sites(seen) : Callee(c) \in seen \ {f}
        /\ \A c, d \in Sites(seen) : Callee(c) = Callee(d) => c = d

shouldRestoreOldSP(f) == ~doesNotRecurse(f)
shouldSaveNewSP(f) == prog.calls[f] # <<>>

\* Functions that are defined elsewhere keep to the ordinary stack.
Instrumented(f) == f \notin prog.decl

\* FramePromotion: the static allocas of f are global variables from now on.
Promoted(f) == f \notin prog.decl /\ doesNotRecurse(f)

-----------------------------------------------------------------------------
(* The program.                                                             *)

Init ==
    /\ prog \in Programs
    \* What the attribute norecurse says.
    /\ \A f \in prog.norecurse : f \notin CallsFrom(prog, f)
    /\ sp = [f \in Function |-> StackSize]
    /\ live = <<>>
    /\ unwound = FALSE

\* The prologue: the attribute "usestack" makes the code generator begin with an empty
\* stack where the old stack pointer is not restored.
Start(f) == IF shouldRestoreOldSP(f) THEN sp[f] ELSE StackSize

\* f is entered from the newest activation, or from outside.
Enter(f) ==
    /\ Len(live) < MaxDepth
    /\ live # <<>> => f \in Callees(prog, Last(live).f)
    /\ Start(f) > 0
    /\ live' = Append(live, [f |-> f, rsp |-> Start(f) - 1, OldSP |-> sp[f]])
    /\ sp' = IF Instrumented(f) /\ shouldSaveNewSP(f) THEN [sp EXCEPT ![f] = Start(f) - 1] ELSE sp
    /\ UNCHANGED <<prog, unwound>>

Smaller(a, b) == IF a < b THEN a ELSE b

\* A plausible mistake, not part of the specification: what has just been saved
\* is restored.
Return_NewSP ==
    /\ live # <<>>
    /\ LET a == Last(live)
       IN  sp' = IF Instrumented(a.f) /\ shouldRestoreOldSP(a.f)
                   THEN [sp EXCEPT ![a.f] = Smaller(StackSize, a.rsp)] ELSE sp
    /\ live' = Front(live)
    /\ UNCHANGED <<prog, unwound>>

Return ==
    /\ live # <<>>
    /\ LET a == Last(live)
       IN  sp' = IF Instrumented(a.f) /\ shouldRestoreOldSP(a.f)
                   THEN [sp EXCEPT ![a.f] = Smaller(StackSize, a.OldSP)] ELSE sp
    /\ live' = Front(live)
    /\ UNCHANGED <<prog, unwound>>

\* Control goes to an earlier activation.
Unwind(n) ==
    /\ n < Len(live)
    /\ live' = SubSeq(live, 1, n)
    /\ unwound' = TRUE
    /\ UNCHANGED <<prog, sp>>

Next ==
    \/ \E f \in Function : Enter(f)
    \/ Return
    \/ \E n \in 1..MaxDepth : Unwind(n)

Spec == Init /\ [][Next]_vars

-----------------------------------------------------------------------------
(* Properties.                                                              *)

Activations(f) == {i \in DOMAIN live : live[i].f = f}

\* No two activations share memory, whatever is called directly, indirectly or
\* from outside, and however they are left: a function that is taken not to
\* recurse, and therefore has one frame or global variables, is never entered
\* twice, and the frames of the others are at different places.
FramesDisjoint ==
    \A f \in Function \ prog.decl : \A i, j \in Activations(f) :
        i # j => ~Promoted(f) /\ live[i].rsp # live[j].rsp

\* The stack pointer that the next activation of f should start from.
Free(f) ==
    IF Activations(f) = {} THEN StackSize
    ELSE live[CHOOSE i \in Activations(f) : \A j \in Activations(f) : j <= i].rsp

\* The stack pointer of a function that saves it is at its newest frame; when
\* frames have been unwound it may be below, which loses space but no frame.
SPTracksFrames ==
    \A f \in Function \ prog.decl : shouldRestoreOldSP(f) =>
        sp[f] <= Free(f) /\ (~unwound => sp[f] = Free(f))

=============================================================================
