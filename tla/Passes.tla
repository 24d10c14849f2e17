--------------------------------- MODULE Passes ---------------------------------
(****************************************************************************)
(* The transformations of a function or a module and the searches they use, *)
(* side by side.  They never run at once: `pass` says which one a behaviour *)
(* is about.  They share the variables: all but InlinePass have an input,   *)
(* most have a worklist, and x1, x2, ... are what is particular to each, as *)
(* the instances below say.                                                 *)
(*                                                                          *)
(* "mitigate" is MitigatePass::runOnFunction as a whole: STs, a cut of      *)
(* them, and fences for the edges of the cut.                               *)
(****************************************************************************)
EXTENDS Integers, Sequences, FiniteSets

CONSTANTS \* What each pass is run on
          OptimizeSize, OptimizeInputs,
          GenerateFunctions, GenerateOptions,
          FenceFunctions, MaxCut,
          MitigateInputs, MitigateSize,
          InlinePrograms, InlineLimit,
          StackPrograms, StackSize, MaxDepth,
          NumFunctions,                        \* of the programs of both
          FrontierInstr, FrontierInputs

VARIABLES pass,
          in, todo, pc,
          x1, x2, x3, x4, x5, x6, x7  \* Idle unless the pass has them

vars == <<pass, in, todo, pc, x1, x2, x3, x4, x5, x6, x7>>

Idle == "idle"

Optimize == INSTANCE OptimizeSTs
            WITH Node <- 0..(OptimizeSize - 1), Size <- OptimizeSize, Inputs <- OptimizeInputs,
                 sts <- x1, st <- x2, pos <- x3, changed <- x4

Generate == INSTANCE GenerateSTs
            WITH Functions <- GenerateFunctions, Options <- GenerateOptions,
                 f <- x1, sts <- x2, k <- x3, failed <- x4, options <- x5

Fences == INSTANCE FencePlacement
          WITH Functions <- FenceFunctions, F0 <- in, cut_edges <- x6, F <- x7

Inlines == INSTANCE Inlining
           WITH Programs <- InlinePrograms,
                body <- x1, F <- x2, inline_counts <- x3, inlined <- x4

Stacks == INSTANCE FunctionStacks
          WITH Programs <- StackPrograms, prog <- in, sp <- x1, live <- x2, unwound <- x3

Initialises == INSTANCE Frontier
               WITH Instr <- FrontierInstr, Inputs <- FrontierInputs, stage <- x1, seen <- x2,
                    subgraph <- x3, frontier <- x4, result <- x5, stores <- x6

-----------------------------------------------------------------------------
(* MitigatePass::runOnFunction: generation of STs, min-cut, fences.  A      *)
(* function is given as GenerateSTs sees it, f, and as FencePlacement does, *)
(* F0: with the slots of its terminators, and with the kinds that matter to *)
(* a fence.                                                                 *)

FenceKinds(kind) ==
    CASE kind = "op" -> {"inst", "phi"}
      [] kind = "call" -> {"call", "invoke"}
      [] kind = "memcpy_n" -> {"call"}
      [] kind \in {"term", "ret"} -> {kind}
      [] kind = "resume" -> {"term"}
      [] OTHER -> {"inst"}

SameFunction(f, F0) ==
    /\ F0.first = 1 /\ DOMAIN F0.kind = DOMAIN f.kind
    /\ \A i \in DOMAIN f.kind : /\ Fences!Succ(F0, i) = f.succ[i]
                                /\ F0.kind[i] \in FenceKinds(f.kind[i])

\* What is the same after MemIntrinsicPass has inlined copies.
CopiesInlined(F0, f) ==
    [F0 EXCEPT !.kind = [i \in DOMAIN @ |-> IF f.kind[i] = "memcpy" THEN "inst" ELSE @[i]]]

Cuts == INSTANCE MinCut
        WITH Node <- 1..MitigateSize, Inputs <- {}, status <- pc, cut_edges <- x6

IsMitigateInput(m) ==
    /\ Generate!IsFunction(m.f) /\ m.options \subseteq Generate!Flags
    /\ Fences!IsFunction(m.F0) /\ SameFunction(m.f, m.F0)
    /\ DOMAIN m.f.kind \subseteq 1..MitigateSize

InitMitigate ==
    \E m \in MitigateInputs :
        /\ x1 = m.f /\ x5 = m.options /\ in = m.F0
        /\ x2 = {} /\ x3 = 0 /\ x4 = 0
        /\ todo = IF "mem_intrinsic" \in x5 THEN Generate!Of(x1, {"memcpy_n", "memcpy"}) ELSE {}
        /\ x6 = {} /\ x7 = in /\ pc = "generate"

Generated == pc = "generate" /\ x4 = 0 /\ x3 > Len(Generate!STKinds)

\* A plausible mistake, not part of the specification: cut_edges is overwritten with the
\* cut of each ST instead of extended.
RunMinCut_LastST ==
    /\ Generated
    /\ in' = CopiesInlined(in, x1) /\ x7' = in'
    /\ x6' \in {C \in UNION {Fences!kSubset(k, Fences!G(in')) : k \in 0..MaxCut} :
                  \E last \in x2 : Cuts!IsCut([E |-> Fences!G(in'), sts |-> <<last>>], C)}
    /\ todo' = x6' /\ pc' = "fences"
    /\ UNCHANGED <<x1, x2, x3, x4, x5>>

\* A.run(): a cut of all STs in the graph with the back edges.  The STs are indexed by
\* themselves.  Its edges are those that fences are put in for.
RunMinCut ==
    /\ Generated
    /\ in' = CopiesInlined(in, x1) /\ x7' = in'
    /\ x6' \in {C \in UNION {Fences!kSubset(k, Fences!G(in')) : k \in 0..MaxCut} :
                  Cuts!IsCut([E |-> Fences!G(in'), sts |-> [st \in x2 |-> st]], C)}
    /\ todo' = x6' /\ pc' = "fences"
    /\ UNCHANGED <<x1, x2, x3, x4, x5>>

\* An assertion of the min-cut or of its check fails.
MinCutAborts ==
    /\ Generated
    /\ pc' = "abort"
    /\ UNCHANGED <<in, todo, x1, x2, x3, x4, x5, x6, x7>>

NextMitigate ==
    \/ pc = "generate" /\ Generate!Next /\ UNCHANGED <<in, pc, x6, x7>>
    \/ RunMinCut
    \/ MinCutAborts
    \/ pc = "fences" /\ Fences!Next /\ UNCHANGED <<pc, x1, x2, x3, x4, x5>>
    \/ pc = "abort" /\ UNCHANGED <<in, todo, pc, x1, x2, x3, x4, x5, x6, x7>>

-----------------------------------------------------------------------------
ASSUME InputsAssumption ==
    /\ Optimize!SizeAssumption /\ Optimize!InputsAssumption
    /\ Generate!FunctionsAssumption /\ Generate!OptionsAssumption
    /\ Fences!FunctionsAssumption /\ Fences!MaxCutAssumption
    /\ \A m \in MitigateInputs : IsMitigateInput(m)
    /\ Inlines!NumFunctionsAssumption /\ Inlines!InlineLimitAssumption /\ Inlines!ProgramsAssumption
    /\ Stacks!ConstantsAssumption /\ Stacks!ProgramsAssumption
    /\ Initialises!InputsAssumption

Init ==
    \/ pass = "optimize" /\ Optimize!Init /\ x5 = Idle /\ x6 = Idle /\ x7 = Idle
    \/ pass = "generate" /\ Generate!Init /\ in = Idle /\ pc = Idle /\ x6 = Idle /\ x7 = Idle
    \/ pass = "fences" /\ Fences!Init /\ pc = Idle
                       /\ x1 = Idle /\ x2 = Idle /\ x3 = Idle /\ x4 = Idle /\ x5 = Idle
    \/ pass = "mitigate" /\ InitMitigate
    \/ pass = "inline" /\ Inlines!Init /\ in = Idle /\ pc = Idle /\ x5 = Idle /\ x6 = Idle /\ x7 = Idle
    \/ pass = "stacks" /\ Stacks!Init /\ todo = Idle /\ pc = Idle
                       /\ x4 = Idle /\ x5 = Idle /\ x6 = Idle /\ x7 = Idle
    \/ pass = "frontier" /\ Initialises!Init /\ x7 = Idle

Next ==
    \/ pass = "optimize" /\ Optimize!Next /\ UNCHANGED <<pass, x5, x6, x7>>
    \/ pass = "generate" /\ Generate!Next /\ UNCHANGED <<pass, in, pc, x6, x7>>
    \/ pass = "fences" /\ Fences!Next /\ UNCHANGED <<pass, pc, x1, x2, x3, x4, x5>>
    \/ pass = "mitigate" /\ NextMitigate /\ UNCHANGED pass
    \/ pass = "inline" /\ Inlines!Next /\ UNCHANGED <<pass, in, pc, x5, x6, x7>>
    \/ pass = "stacks" /\ Stacks!Next /\ UNCHANGED <<pass, todo, pc, x4, x5, x6, x7>>
    \/ pass = "frontier" /\ Initialises!Next /\ UNCHANGED <<pass, x7>>

Spec == Init /\ [][Next]_vars

\* Sequential functions: the one that was called keeps running.
FairSpec == Spec /\ WF_vars(Next)

-----------------------------------------------------------------------------
(* Properties: what the modules state of each pass.                         *)

\* optimize_sts forgets no walk: at every point of every round, edges that cut
\* the STs that are left also cut all the STs it was given.
Covers == pass = "optimize" => Optimize!Covers

\* optimize_sts asks for no cut in vain: edges that cut the given STs cut what is
\* left of them, unless an internal set shares a node with a later one.
NothingAdded == pass = "optimize" => Optimize!NothingAdded

\* The STs that MitigatePass generates ask for enough: however the edges that
\* separate all of them are chosen, no walk without such an edge is a leak, except
\* through a store of a secret that the pass has warned of ("mismatch in nt-secret
\* labels").
CutsStopLeaks == pass = "generate" => Generate!CutsStopLeaks

\* In whatever order MitigatePass puts in the fences, and however the first ones
\* move the places of the later ones, they do what the cut does, if no
\* terminator names a block twice.
FencesRealiseCut == pass = "fences" => Fences!FencesRealiseCut

\* MitigatePass as a whole: when the fences for a cut of the STs are in, control gets
\* through no leak of the function without a fence, if no terminator names a block
\* twice; the stores that the pass has warned of are excepted.  A leak that begins at
\* the entry begins where the function now does: there may be a fence before a branch
\* that is nothing else.
NoLeakIsLeft ==
    pass = "mitigate" /\ pc = "fences" /\ todo = {} /\ Fences!DistinctSlots =>
        LET Unfenced == Fences!CFG(x7) \cap Fences!Unfenced(x7)
            Begin(i) == IF Fences!Source(i) THEN i ELSE x7.first
        IN  \A leak \in Generate!Leaks :
               ~Generate!Realised(Unfenced, [leak EXCEPT ![1] = {Begin(i) : i \in @}])

\* InlinePass: whatever the callees, recursive ones included, no more calls than
\* the limit are inlined into a function.
InlineBounded == pass = "inline" => Inlines!InlineBounded

\* InlinePass: although the analyses are out of date after the first inlining,
\* in a function that has not met the limit no secret store reaches a call that
\* could have been inlined.
SecretStoresHandled == pass = "inline" => Inlines!SecretStoresHandled

\* FunctionLocalStacks: no two activations share memory, whatever is called
\* directly, indirectly or from outside, and however they are left.
FramesDisjoint == pass = "stacks" => Stacks!FramesDisjoint

\* FunctionLocalStacks: the stack pointer of a function that saves it is at its
\* newest frame; after unwinding it may be below.
SPTracksFrames == pass = "stacks" => Stacks!SPTracksFrames

\* StackInitAnalysis: whatever is recorded as what initialises a slot, control does not
\* get to the load without a write of it; the must-alias stores are recorded whenever
\* they are enough, and otherwise the assertion of the fallback fails, unless the first
\* instruction of the function is such a write.
InitialisedOnAllPaths == pass = "frontier" => Initialises!InitialisedOnAllPaths

Ended ==
    \/ pass \in {"optimize", "frontier"} /\ pc \in {"done", "abort"}
    \/ pass = "generate" /\ (x4 # 0 \/ x3 > Len(Generate!STKinds))
    \/ pass \in {"fences", "inline"} /\ todo = {}
    \/ pass = "mitigate" /\ (x4 # 0 \/ pc = "abort" \/ (pc = "fences" /\ todo = {}))

\* Every pass comes to an end: joining and thinning out STs do not undo each
\* other, inlined calls and split edges do not keep the loops going.
Terminates == pass # "stacks" ~> Ended

=============================================================================
