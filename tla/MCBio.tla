-------------------------------- MODULE MCBio --------------------------------
(***************************************************************************)
(* Module Bio for TLC.  Processes and blocks only occur as values, so they *)
(* may be permuted (the buffers have an order, that of the list).          *)
(***************************************************************************)
EXTENDS Bio, TLC

Symmetry == Permutations(Proc) \cup Permutations(Block)
=============================================================================
