--------------------------- MODULE MCFencePlacement ---------------------------
(* switch (...) with two cases that go on at 3.                             *)
EXTENDS FencePlacement

Switch ==
    {[kind |-> <<"inst", "term", "inst", "ret", "ret">>,
      succ |-> <<<<2>>, <<3, 3, 5>>, <<4>>, <<>>, <<>>>>, first |-> 1]}

=============================================================================
