------------------------------ MODULE MCDuplicate ------------------------------
(****************************************************************************)
(* Two functions; the first with all lists of three uses, as the callee or  *)
(* an argument of calls, or elsewhere.                                      *)
(****************************************************************************)
EXTENDS Duplicate

Use(id, kind) ==
    CASE kind = "callee0" -> [id |-> id, user |-> "call", operandNo |-> 0, args |-> 0]
      [] kind = "callee1" -> [id |-> id, user |-> "call", operandNo |-> 1, args |-> 1]
      [] kind = "arg0"    -> [id |-> id, user |-> "call", operandNo |-> 0, args |-> 1]
      [] kind = "store"   -> [id |-> id, user |-> "other", operandNo |-> 0, args |-> 0]

UseKinds == {"callee0", "callee1", "arg0", "store"}

MCModules ==
    {<<[defined |-> TRUE, linkage |-> l, taken |-> "store" \in {a, b, c} \/ "arg0" \in {a, b, c},
        uses |-> <<Use(1, a), Use(2, b), Use(3, c)>>],
       [defined |-> d, linkage |-> "External", taken |-> FALSE, uses |-> <<Use(4, "callee0")>>]>> :
        l \in {"External", "Internal", "WeakAny"}, d \in BOOLEAN,
        a \in UseKinds, b \in UseKinds, c \in UseKinds}

=============================================================================
