----------------------------- MODULE MCMainLoop -----------------------------
(* The schedule of main.cpp with smaller numbers in the same order: the     *)
(* telemetry's is a multiple of update_100hz's, the camera's is not.        *)
EXTENDS MainLoop

SmallSchedule ==
    [update_100hz |-> 2, telemetry |-> 4, update_1hz |-> 8, camera |-> 3]
=============================================================================
