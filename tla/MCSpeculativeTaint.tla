-------------------------- MODULE MCSpeculativeTaint --------------------------
(* do { y = x; x = p[i]; } while (...); transmit(y): x and y at constant    *)
(* addresses, and p[i] loaded first.                                        *)
EXTENDS SpeculativeTaint

Shift ==
    {[kind |-> <<"ncal", "cal", "store", "op", "store", "cal">>,
      ops  |-> <<{}, {}, {2}, {}, {1}, {}>>,
      rf   |-> <<{}, {}, {6}, {}, {2}, {}>>]}

=============================================================================
