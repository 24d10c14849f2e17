-------------------------------- MODULE Analyses --------------------------------
(****************************************************************************)
(* The five fixpoint analyses side by side.  They never run at once: `pass` *)
(* says which one a behaviour is about.  All of them keep an input, a       *)
(* result that is compared with its value before the pass, a place in the   *)
(* function and a pc, so they share the variables; `extra` and `more` hold  *)
(* what only some have.                                                     *)
(****************************************************************************)
EXTENDS Integers, Sequences, FiniteSets

CONSTANTS TaintPrograms, LeakInputs, PublicInputs, NumFunctions, AddressModules,
          ContractInputs  \* What each analysis is run on

VARIABLES pass,
          in, cur, bak, next, pc,
          extra, more              \* Idle unless the analysis has them

vars == <<pass, in, cur, bak, next, pc, extra, more>>

Idle == "idle"

Taint == INSTANCE SpeculativeTaint
         WITH Programs <- TaintPrograms, prog <- in, taints <- cur, taints_bak <- bak

Leak == INSTANCE LeakAnalysis
        WITH Inputs <- LeakInputs, leaks <- cur, leaks_bak <- bak, at <- next

Public == INSTANCE NonspeculativeTaint
          WITH Inputs <- PublicInputs, pub_vals <- cur, pub_vals_bak <- bak,
               seen_mem_taint_prop <- extra, part <- more

Address == INSTANCE ConstantAddress
           WITH Modules <- AddressModules, mod <- in, ca_args <- cur,
                todo <- extra, tagged <- more

Checker == INSTANCE ContractChecker
           WITH Inputs <- ContractInputs, vals <- cur, vals_bak <- bak,
                mem <- extra, mem_bak <- more

-----------------------------------------------------------------------------
ASSUME InputsAssumption ==
    /\ Taint!ProgramsAssumption
    /\ Leak!InputsAssumption
    /\ Public!InputsAssumption
    /\ Address!NumFunctionsAssumption /\ Address!ModulesAssumption
    /\ Checker!InputsAssumption

Init ==
    \/ pass = "taint" /\ Taint!Init /\ extra = Idle /\ more = Idle
    \/ pass = "leak" /\ Leak!Init /\ extra = Idle /\ more = Idle
    \/ pass = "public" /\ Public!Init
    \/ pass = "address" /\ Address!Init
    \/ pass = "checker" /\ Checker!Init

Next ==
    \/ pass = "taint" /\ Taint!Next /\ UNCHANGED <<pass, extra, more>>
    \/ pass = "leak" /\ Leak!Next /\ UNCHANGED <<pass, extra, more>>
    \/ pass = "public" /\ Public!Next /\ UNCHANGED pass
    \/ pass = "address" /\ Address!Next /\ UNCHANGED pass
    \/ pass = "checker" /\ Checker!Next /\ UNCHANGED pass

Spec == Init /\ [][Next]_vars

\* Sequential functions: the one that was called keeps running.
FairSpec == Spec /\ WF_vars(Next)

-----------------------------------------------------------------------------
(* Properties: what the modules state of each analysis.                     *)

\* SpeculativeTaintAnalysis: fences are costly; whatever the order of the visits,
\* no instruction is ever tainted by an NCAL that does not flow into it.
NoFalseTaint == pass = "taint" => Taint!NoFalseTaint

\* SpeculativeTaintAnalysis: the comparison with the pass before loses nothing if
\* no value that goes back in the order of the visits gets to a store.
SoundUnlessLate == pass = "taint" => Taint!SoundUnlessLate

\* LeakAnalysis: the result does not depend on the addresses of the values;
\* wherever they are inserted while the set is iterated, all that leaks is found
\* and nothing else, and the compiler gives up only over a value that does leak.
LeaksExact == pass = "leak" => Leak!LeaksExact

\* NonspeculativeTaint: although each access is propagated only once, secret is
\* exactly what does not become public through any number of operands and memory
\* cells.
PublicExact == pass = "public" => Public!PublicExact

\* ConstantAddressAnalysis and AttributesPass: recursion included, a store is
\* tagged exactly if no chain of calls brings a dynamic pointer to it.
TagsExact == pass = "address" => Address!TagsExact

\* ContractChecker: a function is accepted if and only if its arguments and
\* returned values are public by some chain of rules, in both directions.
VerdictExact == pass = "checker" => Checker!VerdictExact

\* Every one of the do-while loops reaches its fixpoint or gives up.
Terminates == <>(pc \in {"done", "ok", "fail", "abort"})

=============================================================================
