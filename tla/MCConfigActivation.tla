------------------------- MODULE MCConfigActivation -------------------------
(***************************************************************************)
(* ConfigActivation on a small instance.  Versions are interchangeable,    *)
(* and so are activations.                                                 *)
(***************************************************************************)
EXTENDS ConfigActivation, TLC

Symmetry == Permutations(Versions) \cup Permutations(Requests)
=============================================================================
