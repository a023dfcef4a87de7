-------------------------- MODULE MCExamAuthoring --------------------------
(* Small instances of ExamAuthoring. *)
EXTENDS ExamAuthoring, TLC
=============================================================================
