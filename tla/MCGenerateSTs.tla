---------------------------- MODULE MCGenerateSTs ----------------------------
(* *p = a as the first instruction.                                         *)
EXTENDS GenerateSTs

FirstStore ==
    {[kind |-> <<"store", "intr", "load", "ret">>,
      succ |-> <<{2}, {3}, {4}, {}>>,
      ops |-> <<{Arg}, {Arg}, {}, {3}>>,
      ptr |-> <<{Arg}, {}, {}, {}>>,
      ca |-> {3}, glob |-> {}, direct |-> {},
      secret |-> {}, taints |-> <<{}, {}, {}, {}>>]}

\* The store is treated as one of a secret (an option), and its sources expanded.
MCOptions ==
    {{"mem_intrinsic", "ncas_xmit", "ncas_ctrl", "ncal_xmit", "expand", "ncas_all"}}

=============================================================================
