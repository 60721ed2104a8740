--------------------------- MODULE MCChangeControl ---------------------------
(***************************************************************************)
(* ChangeControl on a small instance: one change id, an operator to ask    *)
(* and one to approve, requests in flight on any replica.                  *)
(***************************************************************************)
EXTENDS ChangeControl, TLC

\* One proposal of each fate: always refused, refused in production, accepted.
MCProposals ==
  {[operation |-> "destroy-infrastructure", capability |-> "search"],
   [operation |-> "disable-capability", capability |-> "audit"],
   [operation |-> "change-provider", capability |-> "cache"]}

Symmetry == Permutations(Requests) \cup Permutations(Operators)
==============================================================================
