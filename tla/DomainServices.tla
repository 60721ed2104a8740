--------------------------- MODULE DomainServices ---------------------------
(***************************************************************************)
(* The domain services that look a name up before they save it             *)
(* (services/tenant, services/integration), the ones that hand a job to    *)
(* the queue (services/reporting after saving its row,                     *)
(* services/notification), and services/audit, which only saves.  Each     *)
(* operation is its checks, which change nothing, and its awaits, which    *)
(* other calls come between.  The repositories are ports: a save is one    *)
(* statement that keeps every row.                                         *)
(***************************************************************************)
EXTENDS Naturals, FiniteSets

CONSTANTS
  Creations,      \* calls of the operations below, of one tenant
  Spellings,      \* names as clients send them
  savedAs(_, _)   \* by operation, the name as it is saved: a slug is trimmed and in lower
                  \* case, a connection's display name is trimmed

VARIABLES
  op,            \* the operation of each call, and its input
  stage,         \* the await it is at
  tenantActive,  \* TenantRepository.getTenant's status = ACTIVE
  rows,          \* saved rows, by the call that saved them
  queued,        \* calls whose job the queue has
  taken          \* history: the rows that were there when a call began

domainVars == <<op, stage, tenantActive, rows, queued, taken>>

Operations ==
  {"createWorkspace", "createConnection", "request", "queueDelivery", "record"}
NoInput == [kind |-> "none", name |-> "none"]

DomainTypeOK ==
  /\ op \in [Creations -> [kind : Operations, name : Spellings] \cup {NoInput}]
  /\ stage \in [Creations -> {"begin", "tenant", "find", "save", "enqueue", "done", "failed"}]
  /\ tenantActive \in BOOLEAN
  /\ rows \in SUBSET Creations
  /\ queued \in SUBSET Creations
  /\ taken \in [Creations -> SUBSET Creations]

DomainInit ==
  /\ op = [c \in Creations |-> NoInput]
  /\ stage = [c \in Creations |-> "begin"]
  /\ tenantActive = TRUE
  /\ rows = {}
  /\ queued = {}
  /\ taken = [c \in Creations |-> {}]

ToStage(c, s) == stage' = [stage EXCEPT ![c] = s]

\* The first await of each operation.
FirstAwait(kind) ==
  CASE kind = "createWorkspace"       -> "tenant"
    [] kind = "createConnection"      -> "find"
    [] kind \in {"request", "record"} -> "save"
    [] kind = "queueDelivery"         -> "enqueue"

\* Permission and input are accepted.
BeginCall(c) ==
  /\ stage[c] = "begin"
  /\ \E kind \in Operations, name \in Spellings :
       /\ op' = [op EXCEPT ![c] = [kind |-> kind, name |-> name]]
       /\ ToStage(c, FirstAwait(kind))
  /\ taken' = [taken EXCEPT ![c] = rows]
  /\ UNCHANGED <<tenantActive, rows, queued>>

getTenant(c) ==
  /\ stage[c] = "tenant"
  /\ ToStage(c, IF tenantActive THEN "find" ELSE "failed")
  /\ UNCHANGED <<op, tenantActive, rows, queued, taken>>

SameName(c, d) ==
  /\ op[c].kind = op[d].kind
  /\ savedAs(op[c].kind, op[c].name) = savedAs(op[d].kind, op[d].name)

\* Faulty variant: looked up with the name as it was sent.
FoundAsSent(c) == \E d \in rows : op[c] = op[d]

\* findWorkspaceBySlug, findByName: with the name as it would be saved.
Found(c) == \E d \in rows : SameName(c, d)

findByName(c) ==
  /\ stage[c] = "find"
  /\ ToStage(c, IF Found(c) THEN "failed" ELSE "save")
  /\ UNCHANGED <<op, tenantActive, rows, queued, taken>>

save(c) ==
  /\ stage[c] = "save"
  /\ rows' = rows \cup {c}
  /\ ToStage(c, IF op[c].kind = "request" THEN "enqueue" ELSE "done")
  /\ UNCHANGED <<op, tenantActive, queued, taken>>

enqueueJob(c) ==
  /\ stage[c] = "enqueue"
  /\ queued' = queued \cup {c}
  /\ ToStage(c, "done")
  /\ UNCHANGED <<op, tenantActive, rows, taken>>

\* A repository or queue call rejects, or the process ends.
AwaitFails(c) ==
  /\ stage[c] \in {"tenant", "find", "save", "enqueue"}
  /\ ToStage(c, "failed")
  /\ UNCHANGED <<op, tenantActive, rows, queued, taken>>

SuspendTenant ==
  /\ tenantActive
  /\ tenantActive' = FALSE
  /\ UNCHANGED <<op, stage, rows, queued, taken>>

DomainNext ==
  \/ SuspendTenant
  \/ \E c \in Creations :
       \/ BeginCall(c) \/ getTenant(c) \/ findByName(c)
       \/ save(c) \/ enqueueJob(c) \/ AwaitFails(c)

DomainSpec == DomainInit /\ [][DomainNext]_domainVars

\* A workspace slug or a connection's name that was taken when a call began is never
\* given out by it: two rows share one, as saved, only if both calls were under way
\* together, since no constraint of the repository backs the lookup.
TakenNamesAreRefused ==
  \A c, d \in rows :
    (c # d /\ SameName(c, d) /\ op[c].kind \in {"createWorkspace", "createConnection"})
      => d \notin taken[c] /\ c \notin taken[d]

\* A report's job is in the queue only with its row saved before it, and a call that
\* returned has left behind what it answered for.
AnsweredIsKept ==
  \A c \in Creations :
    /\ (c \in queued /\ op[c].kind = "request") => c \in rows
    /\ (stage[c] = "done" /\ op[c].kind # "queueDelivery") => c \in rows
    /\ (stage[c] = "done" /\ op[c].kind \in {"request", "queueDelivery"}) => c \in queued
=============================================================================
