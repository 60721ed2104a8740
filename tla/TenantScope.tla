---------------------------- MODULE TenantScope -----------------------------
(***************************************************************************)
(* The ports of packages/security/src/tenant-scoped-ports.ts: what a       *)
(* request of one tenant and workspace reaches through them, when all      *)
(* share the same cache, lock service, queue, storage, secrets, search     *)
(* index, event bus and model.  A name is the sequence of its segments;    *)
(* the ids are single segments.                                            *)
(***************************************************************************)
EXTENDS Naturals, Sequences, FiniteSets, SequencesExt

CONSTANTS
  Contexts,    \* records of tenantId and workspaceId, which is NoWorkspace or an id
  NoWorkspace,
  Keys,        \* keys as requests give them, in segments
  MaxUses      \* bound: names used and scopes asked for

ASSUME ScopeAssumption ==
  \A c \in Contexts : c.workspaceId # "_root"

VARIABLES
  storage,   \* the storage adapter: "s3" keeps names, "filesystem" resolves them
  touched,   \* history: names used in the shared services, and by which context
  asked      \* history: scopes search, model and bus were asked for, and by which

scopeVars == <<storage, touched, asked>>

ScopeTypeOK ==
  /\ storage \in {"s3", "filesystem"}
  /\ \A t \in touched : t.by \in Contexts
  /\ \A q \in asked : q.by \in Contexts

ScopeInit ==
  /\ storage \in {"s3", "filesystem"}
  /\ touched = {}
  /\ asked = {}

WorkspaceName(c) == IF c.workspaceId = NoWorkspace THEN "_root" ELSE c.workspaceId

\* Faulty variant: the names of a tenant's workspaces are the same.
tenantKeyOnly(c, kind, key) == <<"tenant", c.tenantId, kind>> \o key

\* tenantKey: joined with colons.
tenantKey(c, kind, key) ==
  <<"tenant", c.tenantId, "workspace", WorkspaceName(c), kind>> \o key

\* storagePrefix and tenantCredentialPrefix: joined with slashes.
storagePrefix(c) == <<"tenants", c.tenantId, "workspaces", WorkspaceName(c)>>
tenantCredentialPrefix(c) == storagePrefix(c) \o <<"integrations">>

\* Segments of a path that lead nowhere.
Nowhere == {"", "."}

\* Without leading slashes, a key and a credential name that stay below the prefix.
WithoutSlashes(key) ==
  IF \A n \in DOMAIN key : key[n] = "" THEN <<>>
  ELSE SubSeq(key, Min({n \in DOMAIN key : key[n] # ""}), Len(key))

relativeStorageKey(key)     == WithoutSlashes(key) # <<>> /\ ~Contains(key, "..")
relativeCredentialName(key) ==
  /\ WithoutSlashes(key) # <<>>
  /\ ToSet(WithoutSlashes(key)) \cap (Nowhere \cup {".."}) = {}

\* path.resolve of the filesystem adapter: what the first segments of a path come to.
ResolvePath(path) ==
  LET done[n \in 0 .. Len(path)] ==
        IF n = 0 THEN <<>>
        ELSE IF path[n] \in Nowhere THEN done[n - 1]
        ELSE IF path[n] = ".." THEN SubSeq(done[n - 1], 1, Len(done[n - 1]) - 1)
        ELSE Append(done[n - 1], path[n])
  IN  done[Len(path)]

MayUse == Cardinality(touched) + Cardinality(asked) < MaxUses

Touch(c, name) ==
  /\ MayUse
  /\ touched' = touched \cup {[name |-> name, by |-> c]}
  /\ UNCHANGED <<storage, asked>>

\* get, set, delete, putIfAbsent, withLock, enqueue with an idempotency key.
UseKey(c, key) ==
  \E kind \in {"cache", "idempotency", "lock", "job-idempotency"} :
    Touch(c, tenantKey(c, kind, key))

\* put, get, delete and signedUrl of the storage.
UseObject(c, key) ==
  /\ relativeStorageKey(key)
  /\ LET name == storagePrefix(c) \o WithoutSlashes(key)
     IN  Touch(c, IF storage = "s3" THEN name ELSE ResolvePath(name))

\* get of the secrets, which another service than the storage keeps.
UseSecret(c, key) ==
  /\ relativeCredentialName(key)
  /\ Touch(c, <<"secret">> \o tenantCredentialPrefix(c) \o WithoutSlashes(key))

Ask(c, scope) ==
  /\ MayUse
  /\ asked' = asked \cup {[by |-> c, scope |-> scope]}
  /\ UNCHANGED <<storage, touched>>

\* search and generate: what the request names is its own, and the context's ids
\* replace it.
AskScoped(c, request) ==
  /\ request.tenantId = c.tenantId
  /\ NoWorkspace \in {request.workspaceId, c.workspaceId}
       \/ request.workspaceId = c.workspaceId
  /\ Ask(c, [tenantId |-> c.tenantId, workspaceId |-> c.workspaceId])

\* publish: the event goes on as it is.
publish(c, event) ==
  /\ event.tenantId = c.tenantId
  /\ c.workspaceId = NoWorkspace \/ event.workspaceId = c.workspaceId
  /\ Ask(c, event)

ScopeNext ==
  \E c \in Contexts :
    \/ \E key \in Keys : UseKey(c, key) \/ UseObject(c, key) \/ UseSecret(c, key)
    \/ \E d \in Contexts : AskScoped(c, d) \/ publish(c, d)

ScopeSpec == ScopeInit /\ [][ScopeNext]_scopeVars

\* No name of a shared service is reached from two contexts, whatever keys their
\* requests give, and nothing asked of one for a workspace leaves it, or its tenant.
ScopesAreDisjoint ==
  /\ \A t, u \in touched : t.name = u.name => t.by = u.by
  /\ \A q \in asked :
       /\ q.scope.tenantId = q.by.tenantId
       /\ q.by.workspaceId # NoWorkspace => q.scope.workspaceId = q.by.workspaceId
=============================================================================
