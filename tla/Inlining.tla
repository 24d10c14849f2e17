-------------------------------- MODULE Inlining --------------------------------
(****************************************************************************)
(* InlinePass: a call that a secret store to a non-constant address reaches *)
(* would have to be fenced, since nothing is known about what the callee    *)
(* loads.  The pass inlines such calls until there are none, all have been  *)
(* given up, or a limit is reached.  The taint and leak analyses were run   *)
(* before the first inlining, and they know nothing of inlined              *)
(* instructions: NST.secret says yes, ST.secret and LA.mayLeak say no.      *)
(*                                                                          *)
(* A body is a sequence of instructions:                                    *)
(*   "store"  a store to a non-constant address of a value of the function; *)
(*            `secret` if the value is                                      *)
(*   "load"   a load; `secret` unless its value is public and may leak      *)
(*   "call"   of the function `callee`, or of one that cannot be inlined:   *)
(*            external, or not known (callee 0)                             *)
(*   "jump"   a branch that may also go `dist` further; "fence"; "other"    *)
(* `stale`: inlined, so unknown to the analyses.  `skip`: in the set skip.  *)
(****************************************************************************)
EXTENDS Integers, Sequences, FiniteSets

CONSTANTS NumFunctions, InlineLimit,
          Programs                   \* sequences of bodies

Function == 1..NumFunctions

Instruction ==
    [kind : {"store", "load", "call", "jump", "fence", "other"}, secret : BOOLEAN,
     callee : 0..NumFunctions, dist : Int, stale : BOOLEAN, skip : BOOLEAN]

NumFunctionsAssumption == NumFunctions \in Nat
InlineLimitAssumption == InlineLimit \in Nat
ProgramsAssumption == \A p \in Programs : p \in [Function -> Seq(Instruction)]

VARIABLES body,           \* of every function
          todo,           \* the functions that have not been run on
          F,              \* the one that is, or 0
          inline_counts,
          inlined         \* how many calls have been inlined into F

vars == <<body, todo, F, inline_counts, inlined>>

Init ==
    /\ body \in Programs
    /\ todo = Function /\ F = 0
    /\ inline_counts = [f \in Function |-> 0]
    /\ inlined = 0

-----------------------------------------------------------------------------
(* The search from the stores.                                              *)

Succ(b, i) ==
    {j \in DOMAIN b : j = i + 1 \/ (b[i].kind = "jump" /\ j = i + b[i].dist)}

\* A plausible mistake, not part of the specification: what the analyses do not
\* know is public.
LooksSecret_KnownOnly(x) == x.kind = "store" /\ ~x.stale /\ x.secret

\* What the analyses say.
LooksSecret(x) == x.kind = "store" /\ (x.stale \/ x.secret)
LooksPublicLeak(x) == x.kind = "load" /\ ~x.stale /\ ~x.secret

\* A call, or a load that leaks a public value: looked at by the analyses, or as it is.
Stops(x, analysed) ==
    \/ x.kind = "call"
    \/ IF analysed THEN LooksPublicLeak(x) ELSE x.kind = "load" /\ ~x.secret

\* What control reaches from i without passing through an instruction that stops it.
ReachFrom(b, i, analysed) ==
    LET to[n \in 0..Len(b)] ==
            IF n = 0 THEN {i}
            ELSE UNION {{j} \cup (IF Stops(b[j], analysed) THEN {} ELSE Succ(b, j)) : j \in to[n - 1]}
    IN  to[Len(b)]

Calls(b) == {i \in DOMAIN b : b[i].kind = "call"}

\* handleSecretStore goes no further than a load that leaks a public value, and
\* a call.  Of the calls that it may find first, any is taken.
getCallToInline(b) ==
    LET Found == UNION {ReachFrom(b, i, TRUE) : i \in {j \in DOMAIN b : LooksSecret(b[j])}}
    IN  {i \in Calls(b) \cap Found : b[i].callee # 0 /\ ~b[i].skip}

-----------------------------------------------------------------------------
(* The body c in the place of the instruction i of b.                       *)

\* Calls in the inlined body are new calls.
Copied(x) == [x EXCEPT !.stale = TRUE, !.skip = FALSE]

InlineFunction(b, i, c) ==
    LET At(j) == IF j <= i THEN j ELSE j + Len(c) - 1
        Moved(j) == [b[j] EXCEPT !.dist = At(j + @) - At(j)]
    IN  [k \in 1..(i - 1) |-> Moved(k)]
        \o [k \in DOMAIN c |-> Copied(c[k])]
        \o [k \in 1..(Len(b) - i) |-> Moved(i + k)]

-----------------------------------------------------------------------------
Start(f) ==
    /\ F = 0 /\ f \in todo
    /\ F' = f /\ inlined' = 0
    /\ UNCHANGED <<body, todo, inline_counts>>

\* A plausible mistake, not part of the specification: the call itself does not
\* count.
Inline_NotCounted(i) ==
    /\ F # 0 /\ i \in getCallToInline(body[F])
    /\ inline_counts[F] < InlineLimit
    /\ body[F][i].callee # F
    /\ body' = [body EXCEPT ![F] = InlineFunction(@, i, body[body[F][i].callee])]
    /\ inline_counts' = [inline_counts EXCEPT ![F] = @ + inline_counts[body[F][i].callee]]
    /\ inlined' = inlined + 1
    /\ UNCHANGED <<todo, F>>

Inline(i) ==
    /\ F # 0 /\ i \in getCallToInline(body[F])
    /\ inline_counts[F] < InlineLimit
    /\ body[F][i].callee # F
    /\ body' = [body EXCEPT ![F] = InlineFunction(@, i, body[body[F][i].callee])]
    /\ inline_counts' = [inline_counts EXCEPT ![F] = @ + inline_counts[body[F][i].callee] + 1]
    /\ inlined' = inlined + 1
    /\ UNCHANGED <<todo, F>>

\* A recursive call, or one that LLVM does not inline.
GiveUp(i) ==
    /\ F # 0 /\ i \in getCallToInline(body[F])
    /\ inline_counts[F] < InlineLimit
    /\ body' = [body EXCEPT ![F][i].skip = TRUE]
    /\ UNCHANGED <<todo, F, inline_counts, inlined>>

\* No more calls, or too many: the fences go, and the next function follows.
Finish ==
    /\ F # 0
    /\ getCallToInline(body[F]) = {} \/ inline_counts[F] >= InlineLimit
    /\ body' = [body EXCEPT ![F] =
                   [i \in DOMAIN @ |-> IF @[i].kind = "fence" THEN [@[i] EXCEPT !.kind = "other"]
                                                              ELSE @[i]]]
    /\ todo' = todo \ {F} /\ F' = 0
    /\ UNCHANGED <<inline_counts, inlined>>

Done == todo = {} /\ UNCHANGED vars

Next ==
    \/ \E f \in Function : Start(f)
    \/ \E f \in Function : F = f /\ \E i \in Calls(body[f]) : Inline(i) \/ GiveUp(i)
    \/ Finish
    \/ Done

Spec == Init /\ [][Next]_vars

-----------------------------------------------------------------------------
(* Properties.                                                              *)

\* Whatever the callees, recursive ones and ones that have grown before
\* included, the loop ends: no more calls than the limit are inlined into a
\* function.
InlineBounded == inlined <= InlineLimit

\* Although the analyses are out of date after the first inlining, they err on
\* the safe side: in a function that has been run on, and has not met the limit,
\* no really secret store reaches a call that could have been inlined without a
\* call or a really public leak in between.
SecretStoresHandled ==
    \A f \in Function \ (todo \cup {F}) : inline_counts[f] < InlineLimit =>
        LET b == body[f]
        IN  \A i \in DOMAIN b : b[i].kind = "store" /\ b[i].secret =>
                \A j \in ReachFrom(b, i, FALSE) :
                    b[j].kind = "call" => b[j].callee = 0 \/ b[j].skip

=============================================================================
