--------------------------- MODULE MCEventDelivery ---------------------------
(***************************************************************************)
(* EventDelivery on small instances.  Liveness is checked, so there is no  *)
(* symmetry.                                                               *)
(***************************************************************************)
EXTENDS EventDelivery
==============================================================================
