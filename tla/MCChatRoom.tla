----------------------------- MODULE MCChatRoom -----------------------------
(***************************************************************************)
(* Finite instances of ChatRoom.                                           *)
(***************************************************************************)
EXTENDS ChatRoom, TLC

Symmetric == Permutations(Jobs)

=============================================================================
