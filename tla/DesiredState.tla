---------------------------- MODULE DesiredState ----------------------------
(***************************************************************************)
(* The desired state of the platform: layers merged into one document      *)
(* (packages/config-engine/src/merge.ts), its validation (validate.ts,     *)
(* validate-all.ts, assertLockedState of packages/policy-engine) and the   *)
(* dependency rules (packages/dependency-engine).  A document is a         *)
(* selection for each capability and the flags that the rules read; that   *)
(* values have the types of types.ts is part of Documents.                 *)
(***************************************************************************)
EXTENDS Naturals, FiniteSets

CONSTANT None  \* no fallback, and a field that a layer leaves out

\* The providers each capability supports.
Providers ==
  [database         |-> {"postgres"},
   cache            |-> {"redis", "memory", "none"},
   distributed_lock |-> {"redis", "postgres"},
   idempotency      |-> {"redis", "postgres"},
   queue            |-> {"sqs", "bullmq", "rabbitmq", "sync"},
   event_bus        |-> {"kafka", "sns-sqs", "outbox"},
   object_storage   |-> {"s3", "minio", "filesystem"},
   vector_store     |-> {"pgvector", "disabled"},
   search           |-> {"opensearch", "postgres"},
   ai               |-> {"local-ai", "bedrock", "external", "disabled"}]

Capabilities == DOMAIN Providers
Supported    == UNION {Providers[c] : c \in Capabilities}

\* Capabilities of fallbackProviders, whose fallbacks are the same providers.
WithFallback == Capabilities \ {"database", "vector_store"}

Selections ==
  [enabled : BOOLEAN, provider : Supported, fallback : Supported \cup {None},
   required : BOOLEAN]

Documents == [platform : [Capabilities -> Selections], rag : BOOLEAN, logging : BOOLEAN]
-----------------------------------------------------------------------------
(* merge.ts *)

\* deepMerge of a selection and of a document: a field that the patch has replaces the
\* one below it.
Patched(base, patch) ==
  [f \in DOMAIN base |-> IF f \in DOMAIN patch THEN patch[f] ELSE base[f]]

deepMerge(base, patch) ==
  [platform |->
     [c \in Capabilities |->
        IF c \in DOMAIN patch.platform THEN Patched(base.platform[c], patch.platform[c])
        ELSE base.platform[c]],
   rag     |-> IF patch.rag = None THEN base.rag ELSE patch.rag,
   logging |-> IF patch.logging = None THEN base.logging ELSE patch.logging]
-----------------------------------------------------------------------------
(* validate.ts *)

Selected(state, c, provider) ==
  state.platform[c].enabled /\ state.platform[c].provider = provider

Enabled(state, c) == state.platform[c].enabled

\* The issues of one selection.
SelectionHolds(c, s) ==
  /\ s.provider \in Providers[c]
  /\ s.required => s.enabled
  /\ c \in WithFallback =>
       /\ s.enabled => s.fallback # None
       /\ s.fallback \in Providers[c] \cup {None}

\* Faulty variant: who needs Redis is asked of the queue and the lock only.
RedisIsThereTwice(state) ==
  \/ Selected(state, "cache", "redis")
  \/ /\ ~Selected(state, "queue", "bullmq")
     /\ ~Selected(state, "distributed_lock", "redis")

RedisIsThere(state) ==
  \/ Selected(state, "cache", "redis")
  \/ /\ ~Selected(state, "queue", "bullmq")
     /\ ~Selected(state, "distributed_lock", "redis")
     /\ ~Selected(state, "idempotency", "redis")

\* validateDesiredState has no issue.
validateDesiredState(state) ==
  /\ \A c \in Capabilities : SelectionHolds(c, state.platform[c])
  /\ Selected(state, "database", "postgres")
  /\ Enabled(state, "object_storage")
  /\ state.logging
  /\ state.rag => \A c \in {"ai", "vector_store", "object_storage"} : Enabled(state, c)
  /\ RedisIsThere(state)

\* assertLockedState of the policy engine does not throw.
assertLockedState(state, environment) ==
  environment = "production" => Enabled(state, "database") /\ state.logging

validatePlatformState(state, environment) ==
  validateDesiredState(state) /\ assertLockedState(state, environment)
-----------------------------------------------------------------------------
(* The dependency engine *)

Rule(capability, provider, requires) ==
  [capability |-> capability, whenProvider |-> provider, requires |-> requires]

DEPENDENCY_RULES ==
  {Rule("queue", "bullmq", {"redis"}),
   Rule("distributed_lock", "redis", {"redis"}),
   Rule("distributed_lock", "postgres", {"postgres"}),
   Rule("idempotency", "redis", {"redis"}),
   Rule("idempotency", "postgres", {"postgres"}),
   Rule("event_bus", "outbox", {"postgres"}),
   Rule("search", "postgres", {"postgres"}),
   Rule("vector_store", "pgvector", {"postgres"}),
   Rule("rag", None, {"ai", "vector_store", "object_storage"})}

active(state, dependency) ==
  CASE dependency = "postgres" -> Selected(state, "database", "postgres")
    [] dependency = "redis"    -> Selected(state, "cache", "redis")
    [] OTHER                   -> Enabled(state, dependency)

ruleSelected(state, rule) ==
  IF rule.capability = "rag" THEN state.rag
  ELSE Selected(state, rule.capability, rule.whenProvider)

\* The rules, and their dependencies, that resolveDependencyIssues reports.
resolveDependencyIssues(state) ==
  UNION {{<<rule, d>> : d \in {e \in rule.requires : ~active(state, e)}} :
           rule \in {r \in DEPENDENCY_RULES : ruleSelected(state, r)}}
=============================================================================
