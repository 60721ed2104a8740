--------------------------- MODULE MCControlPages ---------------------------
(***************************************************************************)
(* ControlPages on a small instance.  Requests and refreshes are           *)
(* interchangeable, and so are the pages of a refresh.                     *)
(***************************************************************************)
EXTENDS ControlPages, TLC

Symmetry ==
  Permutations(Requests) \cup Permutations(Refreshes) \cup Permutations(OpsPages)
=============================================================================
