------------------------------ MODULE MCRooms ------------------------------
(***************************************************************************)
(* Rooms and matching checked by TLC.                                      *)
(***************************************************************************)
EXTENDS RoomMatching

MCRoomId == {1, 2}

=============================================================================
