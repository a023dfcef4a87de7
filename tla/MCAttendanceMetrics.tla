------------------------ MODULE MCAttendanceMetrics ------------------------
(* Small instances of AttendanceMetrics. *)
EXTENDS AttendanceMetrics, TLC
=============================================================================
