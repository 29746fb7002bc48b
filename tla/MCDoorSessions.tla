--------------------------- MODULE MCDoorSessions ----------------------------
(***************************************************************************)
(* Arguments for DoorSessions: every defined one and its neighbours.       *)
(***************************************************************************)
EXTENDS DoorSessions

MCShapes == 0 .. 7

MCParams == -1 .. 5

MCOptions ==
    [ shapes : {0, 3, 7, 8}, pivot : {-1, 0, 99, 100, 9999, 10000}, months : BOOLEAN ]
=============================================================================
