---------------------------- MODULE MCProcTable -----------------------------
(***************************************************************************)
(* The process table, for TLC, and, in behaviours of their own, the rings  *)
(* in which the MLFQ scheduler queues processes.  The variable part says   *)
(* which of them a behaviour is about.                                     *)
(***************************************************************************)
EXTENDS ProcTable

CONSTANTS RingProc, RingQueues    \* of MlfqRing

VARIABLES part, rings

Ring == INSTANCE MlfqRing WITH r <- rings

ASSUME RingConstantsHold == Ring!RingConstants

TableInit == part \in {"table", "rings"} /\ Init /\ Ring!Init

TablePart == part = "table" /\ Next /\ UNCHANGED <<part, rings>>
RingPart == part = "rings" /\ Ring!Next /\ UNCHANGED <<part, vars>>

TableSpec == TableInit /\ [][TablePart \/ RingPart]_<<part, vars, rings>>

(* push(), pop(): wherever the rings start and wrap, they are the queues   *)
(* of module Mlfq.                                                         *)
RingsAreQueues == Ring!RingsAreQueues
=============================================================================
