---------------------------- MODULE MCApiRequests ----------------------------
(***************************************************************************)
(* ApiRequests on a small instance: a key of one workspace and a key of    *)
(* another, which share the tenant's quota.                                *)
(***************************************************************************)
EXTENDS ApiRequests, TLC

CONSTANTS w1, w2

MCKeys == {<<w1, "order-1">>, <<w2, "order-1">>}

Symmetry == Permutations(Requests)
==============================================================================
