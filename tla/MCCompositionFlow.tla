-------------------------- MODULE MCCompositionFlow --------------------------
(* An instance of CompositionFlow for TLC.  Servers are interchangeable.    *)
EXTENDS CompositionFlow, TLC

Symmetry == Permutations(Servers)
=============================================================================
