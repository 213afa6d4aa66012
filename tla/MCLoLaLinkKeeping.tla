-------------------------- MODULE MCLoLaLinkKeeping --------------------------
(***************************************************************************)
(* LoLaLinkKeeping for TLC, in units of 300 ms: the periods of 900, 1500,  *)
(* 1800, 2400 and 3000 ms are 3, 5, 6, 8 and 10 of them.                   *)
(***************************************************************************)
EXTENDS LoLaLinkKeeping

NoEnds == {}
RemoteOnly == {Remote}

=============================================================================
