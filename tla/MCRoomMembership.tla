-------------------------- MODULE MCRoomMembership --------------------------
(***************************************************************************)
(* Finite instances of RoomMembership.                                     *)
(***************************************************************************)
EXTENDS RoomMembership, TLC

Symmetric == Permutations(Users) \cup Permutations(Reqs)

=============================================================================
