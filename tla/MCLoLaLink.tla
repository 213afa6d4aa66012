----------------------------- MODULE MCLoLaLink -----------------------------
(***************************************************************************)
(* LoLaLink for TLC. The generations of a key pair are interchangeable,    *)
(* and so are the hosts and the remotes.                                   *)
(***************************************************************************)
EXTENDS LoLaLink, TLC

Symmetry == Permutations(KeyGens) \cup Permutations(Hosts) \cup Permutations(Remotes)

=============================================================================
