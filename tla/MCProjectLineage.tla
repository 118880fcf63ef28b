-------------------------- MODULE MCProjectLineage --------------------------
(* ProjectLineage on a small instance. *)
EXTENDS ProjectLineage, TLC

\* Sessions and clients are interchangeable; no property names one of them.
Symmetry == Permutations(Sessions) \union Permutations(Clients)

=============================================================================
