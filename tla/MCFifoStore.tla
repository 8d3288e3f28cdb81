---------------------------- MODULE MCFifoStore -----------------------------
(* FifoStore with the keys "a" and "b", which share slot 4, "d" in slot 0    *)
(* and "G", whose slot is the one past the table.                          *)
EXTENDS FifoStore, TLC

MCKey == { <<97>>, <<98>>, <<100>>, <<71>> }
MCRecovered == { <<98>> }
Symmetry == Permutations(Client)
=============================================================================
