---------------------------- MODULE MCWorksheets ----------------------------
(* Small instances of Worksheets. *)
EXTENDS Worksheets, TLC

\* Submissions and values are interchangeable.  Safety only.
Interchangeable == Permutations(Requests) \cup Permutations(Values)
=============================================================================
