----------------------------- MODULE MCServices -----------------------------
(***************************************************************************)
(* Services on small instances.                                            *)
(***************************************************************************)
EXTENDS Services, TLC

CONSTANTS t1, t2, w1, ana, ben

\* " A", "A" and "a" are saved as a slug "a", and as display names "A" and "a".
savedNames(kind, name) ==
  IF name = " A" THEN IF kind = "createWorkspace" THEN "a" ELSE "A"
  ELSE IF name = "A" /\ kind = "createWorkspace" THEN "a"
  ELSE name

MCContexts ==
  {[tenantId |-> t1, workspaceId |-> w1], [tenantId |-> t1, workspaceId |-> NoWorkspace],
   [tenantId |-> t2, workspaceId |-> w1]}

\* Creations as they are meant, of two operators; one that says it is of another
\* environment and past its planning; and one that is approved from the start.
MCBodies ==
  {[status |-> "DRAFT", requestedBy |-> ana, approvedBy |-> Nil, environment |-> "production"],
   [status |-> "DRAFT", requestedBy |-> ben, approvedBy |-> Nil, environment |-> "production"],
   [status |-> "IMPACT_ANALYSIS", requestedBy |-> ben, approvedBy |-> Nil,
    environment |-> "elsewhere"],
   [status |-> "APPROVED", requestedBy |-> ana, approvedBy |-> ana,
    environment |-> "production"]}

\* "x", "/x", "../x", "y/../x", "y/x", and what an attempt to name another scope looks like.
MCKeys ==
  {<<"x">>, <<"", "x">>, <<"..", "x">>, <<"y", "..", "x">>, <<"y", "x">>,
   <<"..", "_root", "x">>, <<w1, "cache", "x">>, <<"workspaces", "_root", "x">>}
=============================================================================
