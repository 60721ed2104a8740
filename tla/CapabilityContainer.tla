------------------------ MODULE CapabilityContainer -------------------------
(***************************************************************************)
(* CapabilityContainer and ProviderRegistry (packages/platform-sdk/src):   *)
(* the layers of a deployment's configuration are merged and validated,    *)
(* the container is made, and capabilities are resolved to providers       *)
(* whose factories and health checks may fail from one moment to the next. *)
(***************************************************************************)
EXTENDS DesiredState

CONSTANTS
  Defaults,     \* compiledDefaults
  Patches,      \* layers over them: what they change
  Environment,
  Registered,   \* by capability, the providers with a factory
  MaxPatches    \* bound: layers over the defaults

\* resolveDesiredState has five layers over compiledDefaults.
ASSUME ContainerAssumption ==
  /\ Defaults \in Documents
  /\ Environment \in {"development", "testing", "staging", "production"}
  /\ MaxPatches \in 0 .. 5

\* What the container resolves.
Resolvable ==
  {"cache", "distributed_lock", "idempotency", "queue", "event_bus", "object_storage",
   "search", "ai"}

VARIABLES
  state,     \* the document
  layers,    \* layers merged into it
  phase,     \* "configuring", "resolving", "rejected"
  resolved   \* what resolve last returned, or None

vars == <<state, layers, phase, resolved>>

TypeOK ==
  /\ state \in Documents
  /\ layers \in 0 .. MaxPatches
  /\ phase \in {"configuring", "resolving", "rejected"}
  /\ resolved \in
       [capability : Resolvable, provider : Supported, degraded : BOOLEAN] \cup {None}

Init ==
  /\ state = Defaults
  /\ layers = 0
  /\ phase = "configuring"
  /\ resolved = None

\* resolveDesiredState, a layer at a time.
MergeLayer(patch) ==
  /\ phase = "configuring"
  /\ layers < MaxPatches
  /\ layers' = layers + 1
  /\ state' = deepMerge(state, patch)
  /\ UNCHANGED <<phase, resolved>>

\* The constructor: assertPlatformState.
Construct ==
  /\ phase = "configuring"
  /\ phase' = IF validatePlatformState(state, Environment) THEN "resolving" ELSE "rejected"
  /\ UNCHANGED <<state, layers, resolved>>

\* resolveProvider: a provider without a factory throws, and a factory may.
resolveProvider(c, provider, degraded) ==
  /\ provider \in Registered[c]
  /\ resolved' = [capability |-> c, provider |-> provider, degraded |-> degraded]

\* Resolved to the primary, whose health is not UNHEALTHY.
ToPrimary(c) ==
  /\ state.platform[c].enabled
  /\ resolveProvider(c, state.platform[c].provider, FALSE)

\* The capability is off, or its primary is not there, throws or is UNHEALTHY: the
\* fallback, unasked for its health, if it is another provider.
ToFallback(c) ==
  /\ state.platform[c].fallback # None
  /\ state.platform[c].enabled => state.platform[c].fallback # state.platform[c].provider
  /\ resolveProvider(c, state.platform[c].fallback, TRUE)

\* CAPABILITY_UNAVAILABLE, CAPABILITY_UNHEALTHY, or what the factory threw: any
\* resolution may fail.
Throws(c) == resolved' = None

resolve(c) ==
  /\ phase = "resolving"
  /\ ToPrimary(c) \/ ToFallback(c) \/ Throws(c)
  /\ UNCHANGED <<state, layers, phase>>

Next ==
  \/ \E patch \in Patches : MergeLayer(patch)
  \/ Construct
  \/ \E c \in Resolvable : resolve(c)

Spec == Init /\ [][Next]_vars
-----------------------------------------------------------------------------
(* Properties *)

\* The two engines agree on what they both state: a document that validation accepts has
\* no dependency issue, though validation never asks the dependency engine.
ValidHasNoIssues ==
  phase = "resolving" => resolveDependencyIssues(state) = {}

\* A capability is never served, undegraded, by a provider whose own dependencies the
\* document does not activate: only a fallback is, which no rule is applied to.
PrimariesMeetRules ==
  (resolved # None /\ ~resolved.degraded) =>
    \A rule \in DEPENDENCY_RULES :
      (rule.capability = resolved.capability /\ rule.whenProvider = resolved.provider) =>
        \A d \in rule.requires : active(state, d)
=============================================================================
