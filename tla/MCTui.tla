-------------------------------- MODULE MCTui --------------------------------
(***************************************************************************)
(* A few tasks, one user, and other clients.                               *)
(***************************************************************************)
EXTENDS Tui, TLC

MCSymmetry == Permutations(Id) \union Permutations(Title)
=============================================================================
