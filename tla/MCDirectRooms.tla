---------------------------- MODULE MCDirectRooms ---------------------------
(***************************************************************************)
(* Finite instances of DirectRooms.                                        *)
(***************************************************************************)
EXTENDS DirectRooms, TLC

Symmetric == Permutations(Users) \cup Permutations(Rooms) \cup Permutations(Jobs)

=============================================================================
