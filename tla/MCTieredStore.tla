--------------------------- MODULE MCTieredStore ---------------------------
(* TieredStore for TLC: threads, keys and values are model values. *)
EXTENDS TieredStore

Symmetry == Permutations(Key) \cup Permutations(Val) \cup Permutations(Client)
=============================================================================
