------------------------- MODULE MCOfflineAccounts -------------------------
(* Small instances of OfflineAccounts. *)
EXTENDS OfflineAccounts, TLC

\* Tabs, tokens, slots and users are interchangeable.  Safety only.
Interchangeable ==
    Permutations(Tabs) \cup Permutations(Logins) \cup Permutations(Jobs) \cup Permutations(Users)
=============================================================================
