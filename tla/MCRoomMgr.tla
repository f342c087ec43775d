----------------------------- MODULE MCRoomMgr -----------------------------
(* Instances of RoomMgr for TLC. *)
EXTENDS RoomMgr
=============================================================================
