------------------------------- MODULE Absent -------------------------------
(***************************************************************************)
(* What stands where the code has nothing: a null pointer, a key that a    *)
(* container does not hold, a lock that nobody holds.                      *)
(***************************************************************************)
CONSTANT None
=============================================================================
