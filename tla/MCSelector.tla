----------------------------- MODULE MCSelector -----------------------------
(* Objects of the instance and descriptors are interchangeable. *)
EXTENDS Selector, TLC

Symmetry == Permutations(Obj \ Foreign) \cup Permutations(Fd)

=============================================================================
