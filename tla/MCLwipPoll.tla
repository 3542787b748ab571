----------------------------- MODULE MCLwipPoll -----------------------------
(* The masks of the model values of LwipPoll and the symmetry of its names. *)
EXTENDS LwipPoll, TLC

Masks == {{}, Event}

Names ==
  Permutations(Poller) \cup Permutations(Registrar) \cup Permutations(Fd) \cup Permutations(Array)
=============================================================================
