--------------------------- MODULE IdempotencyStore ---------------------------
(***************************************************************************)
(* The idempotency port and the adapters behind it: a key keeps the first  *)
(* response put under it until it expires.  The adapters differ in what an *)
(* expired entry is: Redis drops it and the in-process map takes it for    *)
(* absent, but PostgreSQL keeps the row, which get no longer returns and   *)
(* which ON CONFLICT DO NOTHING still takes for a conflict.  Each call of  *)
(* the port is one statement or command, so it is one step of its caller.  *)
(***************************************************************************)
CONSTANTS
  Keys,        \* keys, already prefixed with tenant and workspace
  Responses,   \* what may be stored under a key
  NoResponse,  \* get's null
  Backend      \* the adapter: "redis", "memory" or "postgres"

ASSUME StoreAssumption ==
  /\ NoResponse \notin Responses
  /\ Backend \in {"redis", "memory", "postgres"}

VARIABLES
  response,  \* the response last stored under each key
  live       \* whether there is one that has not expired

entries == <<response, live>>

EntriesType ==
  /\ response \in [Keys -> Responses \cup {NoResponse}]
  /\ live \in [Keys -> BOOLEAN]

NoEntries ==
  /\ response = [k \in Keys |-> NoResponse]
  /\ live = [k \in Keys |-> FALSE]

get(k) == IF live[k] THEN response[k] ELSE NoResponse

\* Faulty variants: SET without NX, and a row that an expired entry leaves.
OccupiedNever(k) == FALSE
OccupiedByRow(k) == response[k] # NoResponse

\* Whether putIfAbsent finds the key taken.
Occupied(k) ==
  IF Backend = "postgres" THEN response[k] # NoResponse ELSE live[k]

\* putIfAbsent on a key that is not taken.
put(k, v) ==
  /\ response' = [response EXCEPT ![k] = v]
  /\ live' = [live EXCEPT ![k] = TRUE]

\* The time to live of an entry is over.
lapse(k) ==
  /\ live[k]
  /\ live' = [live EXCEPT ![k] = FALSE]
  /\ UNCHANGED response
==============================================================================
