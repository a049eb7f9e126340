---------------------------- MODULE MCMediaStore ----------------------------
(***************************************************************************)
(* A finite instance of MediaStore.                                        *)
(***************************************************************************)
EXTENDS MediaStore, TLC

Symmetric == Permutations(Objects) \cup Permutations(Jobs)

=============================================================================
