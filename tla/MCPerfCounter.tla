---------------------------- MODULE MCPerfCounter ----------------------------
(***************************************************************************)
(* Model-checking instance of PerfCounter: words of eight bits, a cycle    *)
(* counter that wraps in two to four steps, samples at both ends of their  *)
(* type and small, and for the uninitialised value zero and the lower end. *)
(***************************************************************************)
EXTENDS PerfCounter

MCSamples == {-128, 5, 127}
MCGarbage == {-128, 0}
=============================================================================
