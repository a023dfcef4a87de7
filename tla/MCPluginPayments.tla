-------------------------- MODULE MCPluginPayments --------------------------
(* Small instances of PluginPayments. *)
EXTENDS PluginPayments, TLC

\* Orders, payments, requests and references are interchangeable.
Interchangeable == Permutations(Orders) \cup Permutations(Payments)
                   \cup Permutations(Requests) \cup Permutations(References)
=============================================================================
