------------------------- MODULE MCPluginInstaller -------------------------
(* Small instances of PluginInstaller. *)
EXTENDS PluginInstaller, TLC

\* Requests are interchangeable, and so are versions.
Interchangeable == Permutations(Installs) \cup Permutations(Versions)
=============================================================================
