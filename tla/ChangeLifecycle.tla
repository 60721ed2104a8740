--------------------------- MODULE ChangeLifecycle ---------------------------
(***************************************************************************)
(* What the control API promises of change requests and of the desired     *)
(* state: every request acts at once, on the records as they are at that   *)
(* moment.  This is also how the API behaves over InMemoryControlStore,    *)
(* whose operations change its maps before they first yield.               *)
(***************************************************************************)
EXTENDS Naturals, Sequences, ChangeMachine

CONSTANTS ChangeIds, DesiredStates, Environments, NoChange, EmptyState,
          MaxConfigVersion

VARIABLES environment, changes, configVersion, desiredState

vars == <<environment, changes, configVersion, desiredState>>

Init ==
  /\ environment \in Environments
  /\ changes = [c \in ChangeIds |-> NoChange]
  /\ configVersion = 1
  /\ desiredState = EmptyState

Create(actor, c, p) ==
  /\ changes[c] = NoChange
  /\ CreateAllowed(environment, p)
  /\ changes' = [changes EXCEPT ![c] = create(actor, p)]
  /\ UNCHANGED <<environment, configVersion, desiredState>>

Move(actor, c, next) ==
  /\ changes[c] # NoChange
  /\ TransitionAllowed(environment, changes[c], next, actor)
  /\ changes' = [changes EXCEPT ![c] = transition(changes[c], next, actor)]
  /\ UNCHANGED <<environment, configVersion, desiredState>>

PutDesired(d) ==
  /\ configVersion < MaxConfigVersion
  /\ environment = "production" =>
       \E c \in ChangeIds : changes[c] # NoChange /\ MayMutate(changes[c])
  /\ configVersion' = configVersion + 1
  /\ desiredState' = d
  /\ UNCHANGED <<environment, changes>>

Next ==
  \/ \E actor \in Operators, c \in ChangeIds, p \in Proposals : Create(actor, c, p)
  \/ \E actor \in Operators, c \in ChangeIds, next \in ChangeState : Move(actor, c, next)
  \/ \E d \in DesiredStates : PutDesired(d)

Spec == Init /\ [][Next]_vars
==============================================================================
