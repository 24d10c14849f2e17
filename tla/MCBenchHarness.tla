---------------------------- MODULE MCBenchHarness ----------------------------
(****************************************************************************)
(* Both programs, with assertions and without; the second repetition starts *)
(* from what the first has left behind.                                     *)
(****************************************************************************)
EXTENDS BenchHarness

=============================================================================
