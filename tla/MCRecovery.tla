----------------------------- MODULE MCRecovery -----------------------------
(* Recovery for TLC: keys are interchangeable, and so are values. *)
EXTENDS Recovery

Symmetry == Permutations(Keys) \cup Permutations(Vals)
=============================================================================
