--------------------------- MODULE MCRoomSchedule ---------------------------
(* Small instances of RoomSchedule for TLC.                                *)
EXTENDS RoomSchedule
=============================================================================
