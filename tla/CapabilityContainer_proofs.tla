--------------------- MODULE CapabilityContainer_proofs ---------------------
(***************************************************************************)
(* For any defaults, layers, environment and set of registered providers:  *)
(* what validation accepts has no dependency issue, so what the container  *)
(* serves undegraded has its dependencies.                                 *)
(***************************************************************************)
EXTENDS CapabilityContainer, TLAPS

\* validateDesiredState is the stronger of the two engines, rule by rule.
LEMMA AcceptedMeetsRules ==
  ASSUME NEW s, validateDesiredState(s), NEW rule \in DEPENDENCY_RULES, ruleSelected(s, rule),
         NEW d \in rule.requires
  PROVE  active(s, d)
PROOF
<1> USE DEF ruleSelected, Rule, active, validateDesiredState, Selected, RedisIsThere
<1>1. CASE rule.capability = "rag"
  BY <1>1 DEF DEPENDENCY_RULES
<1>2. CASE rule.capability # "rag"
  <2>1. Selected(s, rule.capability, rule.whenProvider)
    BY <1>2
  <2>2. CASE rule.requires = {"redis"}
    <3>1. \/ rule.capability = "queue" /\ rule.whenProvider = "bullmq"
          \/ rule.capability = "distributed_lock" /\ rule.whenProvider = "redis"
          \/ rule.capability = "idempotency" /\ rule.whenProvider = "redis"
      BY <1>2, <2>2 DEF DEPENDENCY_RULES
    <3> QED BY <2>1, <2>2, <3>1
  <2>3. CASE rule.requires = {"postgres"}
    BY <2>3
  <2>4. rule.requires = {"redis"} \/ rule.requires = {"postgres"}
    BY <1>2 DEF DEPENDENCY_RULES
  <2> QED BY <2>2, <2>3, <2>4
<1> QED BY <1>1, <1>2

\* A document that validation accepts has no dependency issue, whatever it holds.
THEOREM ValidationCoversDependencies ==
  ASSUME NEW s, validateDesiredState(s)
  PROVE  resolveDependencyIssues(s) = {}
BY AcceptedMeetsRules DEF resolveDependencyIssues

\* What is resolved undegraded is the primary of a capability that an accepted document
\* has on.
ContainerInv ==
  /\ phase = "resolving" => validateDesiredState(state)
  /\ resolved # None => phase = "resolving"
  /\ (resolved # None /\ ~resolved.degraded) =>
       Selected(state, resolved.capability, resolved.provider) /\ resolved.capability \in Resolvable

LEMMA ContainerInvariance == Spec => []ContainerInv
PROOF
<1>1. Init => ContainerInv
  BY DEF Init, ContainerInv
<1>2. ContainerInv /\ [Next]_vars => ContainerInv'
  <2> SUFFICES ASSUME ContainerInv, [Next]_vars PROVE ContainerInv'
    OBVIOUS
  <2>1. ASSUME NEW patch \in Patches, MergeLayer(patch) PROVE ContainerInv'
    BY <2>1 DEF MergeLayer, ContainerInv
  <2>2. CASE Construct
    BY <2>2 DEF Construct, ContainerInv, validatePlatformState
  <2>3. ASSUME NEW c \in Resolvable, resolve(c) PROVE ContainerInv'
    <3>1. phase = "resolving" /\ UNCHANGED <<state, layers, phase>>
      BY <2>3 DEF resolve
    <3>2. CASE ToPrimary(c)
      BY <3>1, <3>2 DEF ContainerInv, ToPrimary, resolveProvider, Selected
    <3>3. CASE ToFallback(c)
      BY <3>1, <3>3 DEF ContainerInv, ToFallback, resolveProvider
    <3>4. CASE Throws(c)
      BY <3>1, <3>4 DEF ContainerInv, Throws
    <3> QED BY <2>3, <3>2, <3>3, <3>4 DEF resolve
  <2>4. CASE UNCHANGED vars
    BY <2>4 DEF vars, ContainerInv
  <2> QED BY <2>1, <2>2, <2>3, <2>4 DEF Next
<1> QED BY <1>1, <1>2, PTL DEF Spec

\* An undegraded provider has its dependencies.
THEOREM PrimariesHaveDependencies == Spec => []PrimariesMeetRules
PROOF
<1>1. ContainerInv => PrimariesMeetRules
  <2> SUFFICES ASSUME ContainerInv, resolved # None, ~resolved.degraded,
                      NEW rule \in DEPENDENCY_RULES,
                      rule.capability = resolved.capability,
                      rule.whenProvider = resolved.provider,
                      NEW d \in rule.requires
               PROVE  active(state, d)
    BY DEF PrimariesMeetRules
  <2>1. validateDesiredState(state) /\ Selected(state, rule.capability, rule.whenProvider)
    BY DEF ContainerInv
  <2>2. rule.capability # "rag"
    BY DEF ContainerInv, Resolvable
  <2> QED BY <2>1, <2>2, AcceptedMeetsRules DEF ruleSelected
<1> QED BY <1>1, ContainerInvariance, PTL

\* The two engines agree on every document a container is made of.
THEOREM EnginesAgree == Spec => []ValidHasNoIssues
PROOF
<1>1. ContainerInv => ValidHasNoIssues
  BY ValidationCoversDependencies DEF ContainerInv, ValidHasNoIssues
<1> QED BY <1>1, ContainerInvariance, PTL
-----------------------------------------------------------------------------
(* Documents *)

\* What a layer may change: fields of selections, and flags, with the types they have.
IsPatch(p) ==
  /\ \A c \in Capabilities \cap DOMAIN p.platform :
       LET s == p.platform[c]
       IN  /\ \A f \in DOMAIN s \cap {"enabled", "required"} : s[f] \in BOOLEAN
           /\ "provider" \in DOMAIN s => s.provider \in Supported
           /\ "fallback" \in DOMAIN s => s.fallback \in Supported \cup {None}
  /\ {p.rag, p.logging} \subseteq BOOLEAN \cup {None}

\* A layer makes a document of a document.
LEMMA MergedIsDocument ==
  ASSUME NEW base \in Documents, NEW p, IsPatch(p)
  PROVE  deepMerge(base, p) \in Documents
<1>1. ASSUME NEW c \in Capabilities, c \in DOMAIN p.platform
      PROVE  Patched(base.platform[c], p.platform[c]) \in Selections
  <2> DEFINE b == base.platform[c]
             s == p.platform[c]
  <2>1. b \in Selections
    BY DEF Documents
  <2>2. /\ \A f \in DOMAIN s \cap {"enabled", "required"} : s[f] \in BOOLEAN
        /\ "provider" \in DOMAIN s => s["provider"] \in Supported
        /\ "fallback" \in DOMAIN s => s["fallback"] \in Supported \cup {None}
    BY <1>1 DEF IsPatch
  <2> HIDE DEF b, s
  <2>3. /\ DOMAIN b = {"enabled", "provider", "fallback", "required"}
        /\ b["enabled"] \in BOOLEAN /\ b["required"] \in BOOLEAN
        /\ b["provider"] \in Supported /\ b["fallback"] \in Supported \cup {None}
    BY <2>1 DEF Selections
  <2>4. Patched(b, s) \in Selections
    BY <2>2, <2>3 DEF Patched, Selections
  <2> QED
    BY <2>4 DEF b, s
<1>2. [c \in Capabilities |->
         IF c \in DOMAIN p.platform THEN Patched(base.platform[c], p.platform[c])
         ELSE base.platform[c]] \in [Capabilities -> Selections]
  BY <1>1 DEF Documents
<1>3. /\ (IF p.rag = None THEN base.rag ELSE p.rag) \in BOOLEAN
      /\ (IF p.logging = None THEN base.logging ELSE p.logging) \in BOOLEAN
  BY DEF IsPatch, Documents
<1> QED
  BY <1>2, <1>3 DEF deepMerge, Documents

\* What is resolved is a provider that the capability supports and that has a factory,
\* the fallback too, whose health nobody asks for.
ResolvedIsSupported ==
  resolved # None =>
    resolved.provider \in Providers[resolved.capability] \cap Registered[resolved.capability]

\* Validation holds the selections to Providers, and only what is registered is made.
THEOREM ResolvedProvidersAreSupported == Spec => []ResolvedIsSupported
<1>1. Init => ResolvedIsSupported
  BY DEF Init, ResolvedIsSupported
<1>2. ContainerInv /\ ResolvedIsSupported /\ [Next]_vars => ResolvedIsSupported'
  <2> SUFFICES ASSUME ContainerInv, ResolvedIsSupported, [Next]_vars
               PROVE  ResolvedIsSupported'
    OBVIOUS
  <2>1. CASE UNCHANGED resolved
    BY <2>1 DEF ResolvedIsSupported
  <2>2. ASSUME NEW c \in Resolvable, resolve(c) PROVE ResolvedIsSupported'
    <3>1. SelectionHolds(c, state.platform[c]) /\ c \in WithFallback
      <4>1. c \in Capabilities
        BY DEF Resolvable, Capabilities, Providers
      <4>2. c \notin {"database", "vector_store"}
        BY DEF Resolvable
      <4> QED
        BY <2>2, <4>1, <4>2 DEF resolve, ContainerInv, validateDesiredState, WithFallback
    <3>2. CASE ToPrimary(c)
      BY <3>1, <3>2 DEF ToPrimary, resolveProvider, SelectionHolds, ResolvedIsSupported
    <3>3. CASE ToFallback(c)
      BY <3>1, <3>3 DEF ToFallback, resolveProvider, SelectionHolds, ResolvedIsSupported
    <3>4. CASE Throws(c)
      BY <3>4 DEF Throws, ResolvedIsSupported
    <3> QED
      BY <2>2, <3>2, <3>3, <3>4 DEF resolve
  <2> QED
    BY <2>1, <2>2 DEF Next, MergeLayer, Construct, vars
<1> QED
  BY <1>1, <1>2, ContainerInvariance, PTL DEF Spec

\* With layers that are patches, what they make of the defaults is a document.
THEOREM ContainerTypeCorrect ==
  ASSUME \A patch \in Patches : IsPatch(patch)
  PROVE  Spec => []TypeOK
<1>1. Init => TypeOK
  BY ContainerAssumption DEF Init, TypeOK
<1>2. TypeOK /\ [Next]_vars => TypeOK'
  <2> SUFFICES ASSUME TypeOK, [Next]_vars PROVE TypeOK'
    OBVIOUS
  <2>1. ASSUME NEW patch \in Patches, MergeLayer(patch) PROVE TypeOK'
    <3>1. state' \in Documents
      BY <2>1, MergedIsDocument DEF MergeLayer, TypeOK
    <3>2. layers' \in 0 .. MaxPatches
      BY <2>1, ContainerAssumption DEF MergeLayer, TypeOK
    <3> QED
      BY <2>1, <3>1, <3>2 DEF MergeLayer, TypeOK
  <2>2. CASE Construct
    BY <2>2 DEF Construct, TypeOK
  <2>3. ASSUME NEW c \in Resolvable, resolve(c) PROVE TypeOK'
    <3>1. c \in Capabilities
      BY DEF Resolvable, Capabilities, Providers
    <3>2. /\ state.platform[c].provider \in Supported
          /\ state.platform[c].fallback \in Supported \cup {None}
      BY <3>1 DEF TypeOK, Documents, Selections
    <3>3. resolved' \in
            [capability : Resolvable, provider : Supported, degraded : BOOLEAN] \cup {None}
      <4>1. ASSUME NEW x \in Supported, NEW d \in BOOLEAN, resolveProvider(c, x, d)
            PROVE  resolved' \in
                     [capability : Resolvable, provider : Supported, degraded : BOOLEAN]
        BY <4>1 DEF resolveProvider
      <4>2. ToPrimary(c) => \E x \in Supported : resolveProvider(c, x, FALSE)
        BY <3>2 DEF ToPrimary
      <4>3. ToFallback(c) => \E x \in Supported : resolveProvider(c, x, TRUE)
        BY <3>2 DEF ToFallback
      <4> QED
        BY <2>3, <4>1, <4>2, <4>3 DEF resolve, Throws
    <3> QED
      BY <2>3, <3>3 DEF resolve, TypeOK
  <2>4. CASE UNCHANGED vars
    BY <2>4 DEF vars, TypeOK
  <2> QED
    BY <2>1, <2>2, <2>3, <2>4 DEF Next
<1> QED
  BY <1>1, <1>2, PTL DEF Spec
=============================================================================
