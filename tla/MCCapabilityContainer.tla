----------------------- MODULE MCCapabilityContainer ------------------------
(***************************************************************************)
(* CapabilityContainer with the defaults of config/default.yaml and layers *)
(* that change one thing each.                                             *)
(***************************************************************************)
EXTENDS CapabilityContainer, TLC

Selection(enabled, provider, fallback, required) ==
  [enabled |-> enabled, provider |-> provider, fallback |-> fallback, required |-> required]

DefaultYaml ==
  [platform |->
     [database         |-> Selection(TRUE, "postgres", None, TRUE),
      cache            |-> Selection(TRUE, "memory", "none", FALSE),
      distributed_lock |-> Selection(TRUE, "postgres", "postgres", FALSE),
      idempotency      |-> Selection(TRUE, "postgres", "postgres", TRUE),
      queue            |-> Selection(TRUE, "sync", "sync", FALSE),
      event_bus        |-> Selection(TRUE, "outbox", "outbox", FALSE),
      object_storage   |-> Selection(TRUE, "filesystem", "filesystem", TRUE),
      vector_store     |-> Selection(FALSE, "disabled", None, FALSE),
      search           |-> Selection(TRUE, "postgres", "postgres", FALSE),
      ai               |-> Selection(TRUE, "local-ai", "disabled", FALSE)],
   rag |-> FALSE, logging |-> TRUE]

NoPatch == [platform |-> [c \in {} |-> None], rag |-> None, logging |-> None]
Flag(flag, on) == [NoPatch EXCEPT ![flag] = on]
Change(c, patch) == [NoPatch EXCEPT !.platform = c :> patch]

MCPatches ==
  {Flag("rag", TRUE), Flag("logging", FALSE),
   Change("cache", [provider |-> "redis"]), Change("cache", [enabled |-> FALSE])}
  \cup {Change(c, [provider |-> "redis"]) :
          c \in {"distributed_lock", "idempotency", "search"}}
  \cup {Change(c, [fallback |-> "redis"]) : c \in {"distributed_lock", "cache"}}
  \cup {Change(c, [enabled |-> FALSE]) :
          c \in {"database", "distributed_lock", "idempotency", "object_storage", "ai"}}
  \cup {Change("queue", [provider |-> "bullmq", fallback |-> "sqs"]),
        Change("event_bus", [provider |-> "kafka"]),
        Change("search", [provider |-> "opensearch"]),
        Change("vector_store", [enabled |-> TRUE, provider |-> "pgvector"])}

\* Every provider has a factory, but Kafka.
MCRegistered == [c \in Capabilities |-> Providers[c] \ {"kafka"}]
=============================================================================
