---------------------------- MODULE ChangeMachine ----------------------------
(***************************************************************************)
(* The change request of the platform control center and the rules that    *)
(* move it: the state graph of change-machine.ts and the guards the        *)
(* /v1/control handlers put in front of it.  Nothing here has state: the   *)
(* control planes (ChangeControl, ChangeLifecycle) apply these operators   *)
(* to the records they store.                                              *)
(***************************************************************************)
EXTENDS Sequences

CONSTANTS
  Operators,          \* operators authenticated with platform:write
  Proposals,          \* what a client may ask for: [operation, capability]
  LockedCapabilities, \* capabilities no production change may disable or stop
  NoOne               \* approvedBy of a change nobody has approved

ChangeState ==
  {"DRAFT", "VALIDATING", "IMPACT_ANALYSIS", "WAITING_APPROVAL", "APPROVED",
   "PROVISIONING", "DEPLOYING", "VERIFYING", "STABILIZING", "COMPLETED",
   "FAILED", "ROLLING_BACK", "ROLLED_BACK"}

\* The states a change may move to from s; none from COMPLETED and ROLLED_BACK.
forward(s) ==
  CASE s = "DRAFT"            -> {"VALIDATING"}
    [] s = "VALIDATING"       -> {"IMPACT_ANALYSIS", "FAILED"}
    [] s = "IMPACT_ANALYSIS"  -> {"WAITING_APPROVAL", "APPROVED", "FAILED"}
    [] s = "WAITING_APPROVAL" -> {"APPROVED", "FAILED"}
    [] s = "APPROVED"         -> {"PROVISIONING", "DEPLOYING", "FAILED"}
    [] s = "PROVISIONING"     -> {"DEPLOYING", "FAILED"}
    [] s = "DEPLOYING"        -> {"VERIFYING", "FAILED"}
    [] s = "VERIFYING"        -> {"STABILIZING", "FAILED"}
    [] s = "STABILIZING"      -> {"COMPLETED", "FAILED"}
    [] s = "FAILED"           -> {"ROLLING_BACK"}
    [] s = "ROLLING_BACK"     -> {"ROLLED_BACK"}
    [] OTHER                  -> {}

\* The states in which a change lets the production desired state be written.
approvedMutationStates ==
  {"APPROVED", "PROVISIONING", "DEPLOYING", "VERIFYING", "STABILIZING",
   "COMPLETED"}

ControlOperation ==
  {"disable-capability", "stop-infrastructure", "destroy-infrastructure",
   "change-provider", "compute-migration"}

\* A stored change.  The audit trail keeps the states in the order they were
\* entered; who entered them matters only for APPROVED, and is approvedBy.
ChangeRequest ==
  [state      : ChangeState,
   actorId    : Operators,
   approvedBy : Operators \cup {NoOne},
   proposal   : Proposals,
   audit      : Seq(ChangeState)]
------------------------------------------------------------------------------
\* POST /changes answers 409 for a destroy, and in production for disabling or
\* stopping a locked capability.
CreateAllowed(env, p) ==
  /\ p.operation # "destroy-infrastructure"
  /\ ~ /\ env = "production"
       /\ p.operation \in {"disable-capability", "stop-infrastructure"}
       /\ p.capability \in LockedCapabilities

\* ChangeStateMachine.create
create(actor, p) ==
  [state      |-> "DRAFT",
   actorId    |-> actor,
   approvedBy |-> NoOne,
   proposal   |-> p,
   audit      |-> <<"DRAFT">>]

\* Faulty variants, for checking that the properties notice them: the guard without
\* separation of duties, and a write any live change allows.
TransitionAllowedToSelf(env, current, next, actor) ==
  /\ ~ /\ env = "production"
       /\ current.state = "IMPACT_ANALYSIS"
       /\ next = "APPROVED"
  /\ next \in forward(current.state)

MayMutateUnlessFailed(change) ==
  change.state \notin {"FAILED", "ROLLING_BACK", "ROLLED_BACK"}

\* POST /changes/:id/transition refuses to skip WAITING_APPROVAL and refuses a
\* requestor's own approval in production, then asks the state machine.
TransitionAllowed(env, current, next, actor) ==
  /\ ~ /\ env = "production"
       /\ current.state = "IMPACT_ANALYSIS"
       /\ next = "APPROVED"
  /\ ~ /\ env = "production"
       /\ next = "APPROVED"
       /\ current.actorId = actor
  /\ next \in forward(current.state)

\* The record the handler saves: ChangeStateMachine.transition, then approvedBy.
transition(current, next, actor) ==
  [current EXCEPT !.state      = next,
                  !.audit      = Append(@, next),
                  !.approvedBy = IF next = "APPROVED" THEN actor ELSE @]

\* PUT /desired-state in production accepts only a change like this.
MayMutate(change) ==
  /\ change.approvedBy # NoOne
  /\ change.state \in approvedMutationStates
==============================================================================
