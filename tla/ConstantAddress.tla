---------------------------- MODULE ConstantAddress ----------------------------
(****************************************************************************)
(* ConstantAddressAnalysis::runOnModule: the pointer arguments that are     *)
(* constant addresses at every call.  A store through one need not be       *)
(* fenced, and AttributesPass tags it for the code generator.  The analysis *)
(* assumes that all arguments are and takes back what a call refutes, in    *)
(* place, until a pass over the functions changes nothing.                  *)
(*                                                                          *)
(* Pointers, as isConstantAddress tells them apart:                         *)
(*   "arg"   an argument of the function fun[p]                             *)
(*   "const" constants, allocas, elements of constant vectors or aggregates *)
(*   "dyn"   phis, calls, loads, integers cast to pointers, GEPs with an    *)
(*           index that is not constant, other elements                     *)
(*   "via"   other GEPs, pointer casts and selects: as their operands       *)
(*   "other" all others, casts between address spaces for one: the compiler *)
(*           gives up when it is asked about one                            *)
(* A call is [callee, act]; act[a] is what it passes for the argument a,    *)
(* and an argument it does not pass is not in the domain of act.            *)
(****************************************************************************)
EXTENDS Integers, FiniteSets

CONSTANTS NumFunctions,
          Modules        \* records [kind, ops, fun, direct, calls, stores]

\* The functions, in the order of the module.
Function == 1..NumFunctions

\* direct: the functions that are only called directly; stores: the pointers that
\* stores go through.
IsModule(m) ==
    /\ \A p \in DOMAIN m.kind : m.kind[p] \in {"arg", "const", "dyn", "via", "other"}
    /\ m.ops \in [DOMAIN m.kind -> SUBSET DOMAIN m.kind]
    /\ m.fun \in [{p \in DOMAIN m.kind : m.kind[p] = "arg"} -> Function]
    /\ m.direct \subseteq Function
    /\ m.stores \subseteq DOMAIN m.kind
    /\ \A c \in m.calls :
          /\ c.callee \in Function
          /\ \A a \in DOMAIN c.act :
                a \in DOMAIN m.fun /\ m.fun[a] = c.callee /\ c.act[a] \in DOMAIN m.kind

NumFunctionsAssumption == NumFunctions \in Nat \ {0}
ModulesAssumption == \A m \in Modules : IsModule(m)

VARIABLES mod,
          ca_args, bak,  \* map and its value before this pass: sets of arguments
          next,          \* the callee that is looked at next
          todo,          \* its calls and arguments that have not been looked at
          tagged,        \* the stores with the metadata "llsct.ca"
          pc

vars == <<mod, ca_args, bak, next, todo, tagged, pc>>

Pointer == DOMAIN mod.kind
Argument == DOMAIN mod.fun

\* Arguments of functions that have no entry are not constant addresses.  The code
\* asks about the operands in turn, which comes to an end: without phis no operand
\* leads back.
isConstantAddress(p) ==
    \E asked \in SUBSET Pointer :
        /\ p \in asked
        /\ \A q \in asked :
              /\ mod.kind[q] # "dyn"
              /\ mod.kind[q] = "arg" => q \in ca_args
              /\ mod.kind[q] = "via" => mod.ops[q] \subseteq asked

\* To answer, the code looks at "via" pointers and their operands in turn, in an order
\* that is not part of the input, and stops at the first that is not a constant
\* address.  It may come upon one that it does not handle, if there is one among them,
\* and it may answer, unless that one is all that the answer depends on.
MayMeetUnhandled(p) ==
    \A asked \in SUBSET Pointer :
        p \in asked /\ (\A q \in asked : mod.kind[q] = "via" => mod.ops[q] \subseteq asked)
            => \E q \in asked : mod.kind[q] = "other"

MayAnswer(p) == MayMeetUnhandled(p) => ~isConstantAddress(p)

\* What a pass has to look at for the callee f: each of its arguments at each of
\* its calls.  The code goes from call to call in the order of the use list, and
\* from argument to argument in the order of their addresses: here in any order.
Visits(m, f) ==
    IF f \in m.direct
      THEN {c \in m.calls : c.callee = f} \X {a \in DOMAIN m.fun : m.fun[a] = f}
      ELSE {}

-----------------------------------------------------------------------------
\* Initialize map to top.
Init ==
    /\ mod \in Modules
    /\ ca_args = {a \in DOMAIN mod.fun : mod.fun[a] \in mod.direct}
    /\ bak = ca_args
    /\ next = 1 /\ todo = Visits(mod, 1)
    /\ tagged = {}
    /\ pc = "pass"

\* A plausible mistake, not part of the specification: one pass only.
EndPass_Once ==
    /\ pc = "pass" /\ todo = {} /\ next + 1 \notin Function
    /\ pc' = "tag"
    /\ UNCHANGED <<mod, ca_args, bak, next, todo, tagged>>

\* The call c refutes the argument a, or it does not.
VisitArgument(c, a) ==
    /\ pc = "pass" /\ <<c, a>> \in todo
    /\ a \in ca_args \cap DOMAIN c.act => MayAnswer(c.act[a])
    /\ LET is_nca == a \notin DOMAIN c.act \/ ~isConstantAddress(c.act[a])
       IN  ca_args' = IF is_nca THEN ca_args \ {a} ELSE ca_args
    /\ todo' = todo \ {<<c, a>>}
    /\ UNCHANGED <<mod, bak, next, tagged, pc>>

\* unhandled_value
VisitUnhandled(c, a) ==
    /\ pc = "pass" /\ <<c, a>> \in todo
    /\ a \in ca_args \cap DOMAIN c.act /\ MayMeetUnhandled(c.act[a])
    /\ pc' = "abort"
    /\ UNCHANGED <<mod, ca_args, bak, next, todo, tagged>>

NextCallee ==
    /\ pc = "pass" /\ todo = {} /\ next + 1 \in Function
    /\ next' = next + 1 /\ todo' = Visits(mod, next + 1)
    /\ UNCHANGED <<mod, ca_args, bak, tagged, pc>>

EndPass ==
    /\ pc = "pass" /\ todo = {} /\ next + 1 \notin Function
    /\ \/ /\ ca_args # bak
          /\ bak' = ca_args /\ next' = 1 /\ todo' = Visits(mod, 1) /\ UNCHANGED pc
       \/ /\ ca_args = bak
          /\ pc' = "tag" /\ UNCHANGED <<bak, next, todo>>
    /\ UNCHANGED <<mod, ca_args, tagged>>

\* AttributesPass.
TagStores ==
    /\ pc = "tag" /\ \A p \in mod.stores : MayAnswer(p)
    /\ tagged' = {p \in mod.stores : isConstantAddress(p)}
    /\ pc' = "done"
    /\ UNCHANGED <<mod, ca_args, bak, next, todo>>

TagUnhandled ==
    /\ pc = "tag" /\ \E p \in mod.stores : MayMeetUnhandled(p)
    /\ pc' = "abort"
    /\ UNCHANGED <<mod, ca_args, bak, next, todo, tagged>>

Done == pc \in {"done", "abort"} /\ UNCHANGED vars

Next ==
    \/ \E c \in mod.calls, a \in Argument : VisitArgument(c, a) \/ VisitUnhandled(c, a)
    \/ NextCallee \/ EndPass \/ TagStores \/ TagUnhandled \/ Done

Spec == Init /\ [][Next]_vars

-----------------------------------------------------------------------------
(* The reference: which pointers some chain of calls makes dynamic.         *)

\* Pointers that are dynamic themselves: an argument that anyone may pass, or
\* that some call leaves undefined.
Source(p) ==
    \/ mod.kind[p] = "dyn"
    \/ mod.kind[p] = "arg" /\ mod.fun[p] \notin mod.direct
    \/ mod.kind[p] = "arg" /\ \E c \in mod.calls : c.callee = mod.fun[p] /\ p \notin DOMAIN c.act

\* R has with a pointer all that instructions and calls pass it on to.
IsClosed(R) ==
    /\ \A q \in Pointer : mod.kind[q] = "via" /\ mod.ops[q] \cap R # {} => q \in R
    /\ \A c \in mod.calls : \A a \in DOMAIN c.act : c.act[a] \in R => a \in R

Dynamic ==
    LET S == {p \in Pointer : Source(p)}
    IN  {p \in Pointer : \A R \in SUBSET Pointer : S \subseteq R /\ IsClosed(R) => p \in R}

\* Recursive and mutually recursive calls included, an argument is a constant
\* address if and only if no chain of calls leads to it from a dynamic pointer;
\* so a store is tagged exactly if its pointer is never dynamic.  The order of
\* the module's functions, of the calls and of the arguments plays no part.
TagsExact ==
    /\ Argument \ Dynamic \subseteq ca_args
    /\ pc = "done" => tagged = mod.stores \ Dynamic

=============================================================================
