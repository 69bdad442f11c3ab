------------------------------- MODULE MCMlfq -------------------------------
(* Model checking of module Mlfq.                                          *)
EXTENDS Mlfq

(* main(): each queue has twice the slice of the one above it.             *)
Slices == [i \in Queue |-> 2^i]
=============================================================================
