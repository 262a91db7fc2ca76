-------------------------- MODULE MCPluginManager --------------------------
(* TLC instance of PluginManager: requests are interchangeable.            *)
EXTENDS PluginManager, TLC

Symmetry == Permutations(Callers)
=============================================================================
