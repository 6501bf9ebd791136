------------------------------ MODULE MCInbound -------------------------------
(***************************************************************************)
(* Small instances of Inbound for TLC.  A request happens once, so a set   *)
(* of requests bounds everything.                                          *)
(***************************************************************************)
EXTENDS Inbound, TLC

RequestSymmetry == Permutations(Requests)

\* The safety properties say nothing of the clock, and no guard reads it.
TimelessView == <<stateVars, pushes, pc, paramVars, reply>>
=============================================================================
