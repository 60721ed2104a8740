------------------------------- MODULE MCJobs -------------------------------
(***************************************************************************)
(* Jobs on a small instance.  Without symmetry, because the run also       *)
(* checks a liveness property.                                             *)
(***************************************************************************)
EXTENDS Jobs

AllHooks == {"idempotency", "onRetry", "onDeadLetter"}

\* A setting that hands every job on, and two that may drop one: for a queue that adds no
\* job for a retry, and for want of hooks.
SmallSettings == {<<"plain", AllHooks>>,
                  <<"unique", {"onRetry"}>>,
                  <<"unconfirmed", {}>>}
=============================================================================
