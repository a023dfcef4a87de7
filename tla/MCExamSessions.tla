--------------------------- MODULE MCExamSessions ---------------------------
(* Small instances of ExamSessions. *)
EXTENDS ExamSessions, TLC
=============================================================================
