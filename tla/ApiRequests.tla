----------------------------- MODULE ApiRequests -----------------------------
(***************************************************************************)
(* POST /v1/resources of apps/api, on any number of replicas over one      *)
(* Redis: the onRequest hook consumes the request limit of the workspace   *)
(* and the daily quota of the tenant, then the handler looks its           *)
(* idempotency key up and commits a candidate response under it.  Every    *)
(* await is a step; a Redis command, the rate limiter's script included,   *)
(* is atomic.  The time to live of a key and a limit's window may end at   *)
(* any moment.                                                             *)
(*                                                                         *)
(* A request arrives once: a client that retries sends another one with    *)
(* the same key.  The response a request would commit, a resource with a   *)
(* random id, is named by the request itself.  The limits are those of one *)
(* route.                                                                  *)
(***************************************************************************)
EXTENDS Naturals, FiniteSets, IdempotencyStore

CONSTANTS
  Requests,     \* the requests that arrive
  NoKey,        \* the key of a request that has not arrived
  RequestMax,   \* API_RPM
  QuotaMax,     \* API_DAILY_QUOTA; 0 when there is none
  MaxExpiries,  \* bound: entries that expire
  MaxResets,    \* bound: windows that end
  MaxFailures   \* bound: requests that fail, and replies of Redis that are lost

\* A key starts with the workspace it belongs to.
workspace(k) == k[1]
Workspaces == {workspace(k) : k \in Keys}

ASSUME RequestsAssumption ==
  /\ IsFiniteSet(Requests)
  /\ Responses = Requests
  /\ NoKey \notin Keys
  /\ {RequestMax, QuotaMax, MaxExpiries, MaxResets, MaxFailures} \subseteq Nat

VARIABLES
  pc,        \* the await each request is at
  key,       \* its idempotency key
  answer,    \* how it was answered
  body,      \* with which response
  count,     \* by workspace, the counter of its request limit
  quota,     \* the counter of the tenant's daily quota
  expiries,  \* by key, how often its entry expired
  resets,    \* how many windows ended
  failures,  \* how many requests failed, and replies were lost
  \* history variables
  seen,      \* responses live under a request's key since it looked it up
  admitted,  \* by workspace, requests its limit let pass in this window
  served     \* requests both limits let pass in this quota period

limits   == <<count, quota, resets, admitted, served>>
requests == <<pc, key, answer, body>>
vars     == <<entries, requests, limits, expiries, failures, seen>>

Answer == {"none", "created", "replayed", "conflict", "limited", "error"}

TypeOK ==
  /\ EntriesType
  /\ pc \in [Requests -> {"new", "rate", "quota", "get", "put", "read", "done"}]
  /\ key \in [Requests -> Keys \cup {NoKey}]
  /\ answer \in [Requests -> Answer]
  /\ body \in [Requests -> Requests \cup {NoResponse}]
  /\ count \in [Workspaces -> Nat]
  /\ quota \in Nat
  /\ expiries \in [Keys -> Nat]
  /\ resets \in Nat
  /\ failures \in Nat
  /\ seen \in [Requests -> SUBSET Requests]
  /\ admitted \in [Workspaces -> Nat]
  /\ served \in Nat

Init ==
  /\ NoEntries
  /\ pc = [r \in Requests |-> "new"]
  /\ key = [r \in Requests |-> NoKey]
  /\ answer = [r \in Requests |-> "none"]
  /\ body = [r \in Requests |-> NoResponse]
  /\ count = [w \in Workspaces |-> 0]
  /\ quota = 0
  /\ expiries = [k \in Keys |-> 0]
  /\ resets = 0
  /\ failures = 0
  /\ seen = [r \in Requests |-> {}]
  /\ admitted = [w \in Workspaces |-> 0]
  /\ served = 0

Goto(r, step) == pc' = [pc EXCEPT ![r] = step]

Reply(r, kind, value) ==
  /\ Goto(r, "done")
  /\ answer' = [answer EXCEPT ![r] = kind]
  /\ body' = [body EXCEPT ![r] = value]

\* Requests that looked the key up and are still at work on it.
Working(k) == {r \in Requests : key[r] = k /\ pc[r] \in {"put", "read"}}
------------------------------------------------------------------------------
(* The onRequest hook *)

\* The request arrives and is authenticated.
Arrive(r, k) ==
  /\ pc[r] = "new"
  /\ key' = [key EXCEPT ![r] = k]
  /\ Goto(r, "rate")
  /\ UNCHANGED <<entries, answer, body, limits, expiries, failures, seen>>

\* Faulty variant: a limit that compares the counter before it counts.
ConsumeRequestLimitLate(r) ==
  /\ pc[r] = "rate"
  /\ LET w == workspace(key[r])
     IN /\ count' = [count EXCEPT ![w] = @ + 1]
        /\ IF count[w] <= RequestMax
           THEN /\ admitted' = [admitted EXCEPT ![w] = @ + 1]
                /\ Goto(r, "quota")
                /\ UNCHANGED <<answer, body>>
           ELSE Reply(r, "limited", NoResponse) /\ UNCHANGED admitted
  /\ UNCHANGED <<entries, key, quota, resets, served, expiries, failures, seen>>

\* requestLimiter.consume: INCR counts the request whether it passes or not.
ConsumeRequestLimit(r) ==
  /\ pc[r] = "rate"
  /\ LET w == workspace(key[r])
     IN /\ count' = [count EXCEPT ![w] = @ + 1]
        /\ IF count[w] + 1 <= RequestMax
           THEN /\ admitted' = [admitted EXCEPT ![w] = @ + 1]
                /\ Goto(r, "quota")
                /\ UNCHANGED <<answer, body>>
           ELSE Reply(r, "limited", NoResponse) /\ UNCHANGED admitted
  /\ UNCHANGED <<entries, key, quota, resets, served, expiries, failures, seen>>

\* tenantDailyQuota.consume, when a quota is configured.
ConsumeQuota(r) ==
  /\ pc[r] = "quota"
  /\ quota' = IF QuotaMax = 0 THEN quota ELSE quota + 1
  /\ IF QuotaMax = 0 \/ quota + 1 <= QuotaMax
     THEN /\ served' = served + 1
          /\ Goto(r, "get")
          /\ UNCHANGED <<answer, body>>
     ELSE Reply(r, "limited", NoResponse) /\ UNCHANGED served
  /\ UNCHANGED <<entries, key, count, resets, admitted, expiries, failures, seen>>

\* A window ends: the counter's key expires in Redis.
EndWindow(w) ==
  /\ resets < MaxResets
  /\ count[w] > 0
  /\ resets' = resets + 1
  /\ count' = [count EXCEPT ![w] = 0]
  /\ admitted' = [admitted EXCEPT ![w] = 0]
  /\ UNCHANGED <<entries, requests, quota, served, expiries, failures, seen>>

EndQuotaPeriod ==
  /\ resets < MaxResets
  /\ quota > 0
  /\ resets' = resets + 1
  /\ quota' = 0
  /\ served' = 0
  /\ UNCHANGED <<entries, requests, count, admitted, expiries, failures, seen>>
------------------------------------------------------------------------------
(* The handler *)

\* idempotency.get: a live entry is the answer.
LookUp(r) ==
  /\ pc[r] = "get"
  /\ IF get(key[r]) # NoResponse
     THEN /\ Reply(r, "replayed", get(key[r]))
          /\ seen' = [seen EXCEPT ![r] = {get(key[r])}]
     ELSE Goto(r, "put") /\ UNCHANGED <<answer, body, seen>>
  /\ UNCHANGED <<entries, key, limits, expiries, failures>>

\* The entry goes live, and every request at work on the key could see it.
Commit(r) ==
  /\ put(key[r], r)
  /\ seen' = [q \in Requests |-> IF q \in Working(key[r]) THEN seen[q] \cup {r}
                                                         ELSE seen[q]]

\* Faulty variant: a loser that answers with its own candidate.
putIfAbsentOwn(r) ==
  /\ pc[r] = "put"
  /\ IF Occupied(key[r]) THEN UNCHANGED <<entries, seen>> ELSE Commit(r)
  /\ Reply(r, "replayed", r)
  /\ UNCHANGED <<key, limits, expiries, failures>>

\* commitOrRead's putIfAbsent.
putIfAbsent(r) ==
  /\ pc[r] = "put"
  /\ IF Occupied(key[r])
     THEN Goto(r, "read") /\ UNCHANGED <<entries, answer, body, seen>>
     ELSE Commit(r) /\ Reply(r, "created", r)
  /\ UNCHANGED <<key, limits, expiries, failures>>

\* commitOrRead's get of the winner, which may have expired meanwhile: 409.
ReadWinner(r) ==
  /\ pc[r] = "read"
  /\ IF get(key[r]) # NoResponse
     THEN Reply(r, "replayed", get(key[r]))
     ELSE Reply(r, "conflict", NoResponse)
  /\ UNCHANGED <<entries, key, limits, expiries, failures, seen>>

Expire(k) ==
  /\ expiries[k] < MaxExpiries
  /\ lapse(k)
  /\ expiries' = [expiries EXCEPT ![k] = @ + 1]
  /\ UNCHANGED <<requests, limits, failures, seen>>

\* A command or the process fails: the client gets a 500, or nothing.
Fail(r) ==
  /\ pc[r] \notin {"new", "done"}
  /\ failures < MaxFailures
  /\ failures' = failures + 1
  /\ Reply(r, "error", NoResponse)
  /\ UNCHANGED <<entries, key, limits, expiries, seen>>

\* Redis did what it was sent and the connection breaks before the reply: the
\* client, which may retry twice, sends the same command again.
LoseReply(r) ==
  /\ failures < MaxFailures
  /\ failures' = failures + 1
  /\ \/ /\ pc[r] = "rate"
        /\ count' = [count EXCEPT ![workspace(key[r])] = @ + 1]
        /\ UNCHANGED <<entries, quota, seen>>
     \/ /\ pc[r] = "quota" /\ QuotaMax > 0
        /\ quota' = quota + 1
        /\ UNCHANGED <<entries, count, seen>>
     \/ /\ pc[r] = "put" /\ ~Occupied(key[r])
        /\ Commit(r)
        /\ UNCHANGED <<count, quota>>
  /\ UNCHANGED <<requests, resets, admitted, served, expiries>>
------------------------------------------------------------------------------
Next ==
  \/ \E r \in Requests, k \in Keys : Arrive(r, k)
  \/ \E r \in Requests :
       \/ ConsumeRequestLimit(r)
       \/ ConsumeQuota(r)
       \/ LookUp(r)
       \/ putIfAbsent(r)
       \/ ReadWinner(r)
       \/ Fail(r)
       \/ LoseReply(r)
  \/ \E k \in Keys : Expire(k)
  \/ \E w \in Workspaces : EndWindow(w)
  \/ EndQuotaPeriod

Spec == Init /\ [][Next]_vars
------------------------------------------------------------------------------
(* Properties *)

\* The response a client gets was the live response of its key at some moment
\* of the request, whoever committed it and whatever expired since: requests
\* with one key agree as long as the key lives.
AnswersWereLive ==
  \A r \in Requests :
    answer[r] \in {"created", "replayed"} => body[r] \in seen[r]

\* However requests with one key race and fail, at most one of them creates a
\* resource in the life of an entry, a put that was sent twice included.
CreatedOncePerLife ==
  \A k \in Keys :
    Cardinality({r \in Requests : key[r] = k /\ answer[r] = "created"})
      <= expiries[k] + (IF live[k] THEN 1 ELSE 0)

\* A 409 is what its message says: the key was committed while this request was
\* at work on it, so that a client that retries gets an answer.
ConflictMeansRace ==
  \A r \in Requests : answer[r] = "conflict" => seen[r] # {}

\* In one window a workspace gets at most the request limit through, and in one
\* quota period the tenant, over all its workspaces, at most its quota.
LimitsHold ==
  /\ \A w \in Workspaces : admitted[w] <= RequestMax
  /\ QuotaMax > 0 => served <= QuotaMax
==============================================================================
