------------------------------- MODULE Duplicate -------------------------------
(****************************************************************************)
(* DuplicatePass: a function that is called directly but can be called from *)
(* elsewhere too gets an internal clone for its direct calls.  The uses of  *)
(* a value are a linked list; setting an operand takes the use out of one   *)
(* list and puts it at the head of another, so the loop over the uses of F  *)
(* goes on, from there, in the list of the clone.                           *)
(*                                                                          *)
(* A use is [id, user, operandNo, args]; user is "call" or "other", and the *)
(* callee of a call with n arguments is its operand n, after the arguments. *)
(****************************************************************************)
EXTENDS Integers, Sequences, SequencesExt

CONSTANTS Function,
          Modules    \* functions: F |-> [defined, linkage, taken, uses]

VARIABLES mod,
          worklist,
          uses,      \* the use lists: <<F, "own">> or <<F, "clone">> |-> uses
          F,         \* the function that is being cloned, or 0
          U          \* the id of the use the loop is at; 0 at its end

vars == <<mod, worklist, uses, F, U>>

isCallee(u) == u.user = "call" /\ u.operandNo = u.args

canDuplicate(linkage) == linkage \notin {"WeakAny", "WeakODR", "ExternalWeak"}

functionIsDirectCallOnly(m, f) == ~m[f].taken /\ m[f].linkage \in {"Internal", "Private"}

shouldDuplicate(m, f) ==
    /\ m[f].defined
    /\ canDuplicate(m[f].linkage)
    /\ ~functionIsDirectCallOnly(m, f)
    /\ \E i \in DOMAIN m[f].uses : isCallee(m[f].uses[i])

Init ==
    /\ mod \in Modules
    /\ worklist = {f \in Function : shouldDuplicate(mod, f)}
    /\ uses = [l \in Function \X {"own", "clone"} |-> IF l[2] = "own" THEN mod[l[1]].uses ELSE <<>>]
    /\ F = 0 /\ U = 0

IdAt(list, i) == IF i \in DOMAIN list THEN list[i].id ELSE 0
Position(list, id) == CHOOSE i \in DOMAIN list : list[i].id = id

\* cloneFunction.  The clone's body has uses of its own, which are left out.
Clone(f) ==
    /\ F = 0 /\ f \in worklist
    /\ F' = f
    /\ U' = IdAt(uses[<<f, "own">>], 1)
    /\ UNCHANGED <<mod, worklist, uses>>

\* The first operand of a call is set, and the next use is the next in the list
\* that this one is in now.
Replace ==
    LET own == uses[<<F, "own">>]
        clone == uses[<<F, "clone">>]
        i == Position(own, U)
    IN  /\ U # 0 /\ own[i].user = "call" /\ own[i].operandNo = 0
        /\ uses' = [uses EXCEPT ![<<F, "own">>] = RemoveAt(own, i),
                                ![<<F, "clone">>] = <<own[i]>> \o clone]
        /\ U' = IdAt(clone, 1)
        /\ UNCHANGED <<mod, worklist, F>>

Keep ==
    LET own == uses[<<F, "own">>]
        i == Position(own, U)
    IN  /\ U # 0 /\ ~(own[i].user = "call" /\ own[i].operandNo = 0)
        /\ U' = IdAt(own, i + 1)
        /\ UNCHANGED <<mod, worklist, uses, F>>

EndLoop ==
    /\ F # 0 /\ U = 0
    /\ F' = 0 /\ worklist' = worklist \ {F}
    /\ UNCHANGED <<mod, uses, U>>

Done == F = 0 /\ worklist = {} /\ UNCHANGED vars

Next == (\E f \in Function : Clone(f)) \/ Replace \/ Keep \/ EndLoop \/ Done

Spec == Init /\ [][Next]_vars

-----------------------------------------------------------------------------
\* "Replace all direct calls to F with NewF.": when the pass has ended, the
\* original of a function that was cloned is not the callee of any call.
AllDirectCallsReplaced ==
    F = 0 /\ worklist = {} =>
        \A f \in Function : shouldDuplicate(mod, f) =>
            \A i \in DOMAIN uses[<<f, "own">>] : ~isCallee(uses[<<f, "own">>][i])

=============================================================================
