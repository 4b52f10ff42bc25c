---------------------------- MODULE MCReleaseFlow ----------------------------
(* An instance of ReleaseFlow for TLC.  Servers are interchangeable, and
   so are clients.                                                          *)
EXTENDS ReleaseFlow

Symmetry == Permutations(Servers) \union Permutations(Clients)
=============================================================================
