---------------------------- MODULE MCOfflineSync ----------------------------
(* Small instances of OfflineSync. *)
EXTENDS OfflineSync, TLC

\* Sync slots are interchangeable; operations differ in kind.  Safety only.
Interchangeable == Permutations(Syncs)
=============================================================================
