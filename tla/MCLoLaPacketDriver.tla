------------------------- MODULE MCLoLaPacketDriver -------------------------
(***************************************************************************)
(* LoLaPacketDriver for TLC.                                               *)
(***************************************************************************)
EXTENDS LoLaPacketDriver

\* The safety properties say nothing of a state in which an event was lost, nor
\* of any state after it: the ghost never goes back.
NothingLost == ~lost

=============================================================================
