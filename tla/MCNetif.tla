------------------------------ MODULE MCNetif -------------------------------
(* The symmetry of the names of Netif.                                      *)
EXTENDS Netif, TLC

Names == Permutations(Thread) \cup Permutations(NetifId)
=============================================================================
