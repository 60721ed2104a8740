-------------------------------- MODULE Jobs --------------------------------
(***************************************************************************)
(* A workflow run from services/workflow, which saves a row and enqueues a *)
(* job, to apps/workers, where WorkerRunner handles it: lookup of the      *)
(* job's idempotency key, handler, record of the key, and on an error the  *)
(* hook that enqueues the next attempt or moves the job to the dead        *)
(* letters.  Every await is a step.                                        *)
(*                                                                         *)
(* The broker is external.  It keeps a message until the call of run that  *)
(* got it resolves, and delivers it again when the call rejects, when its  *)
(* process dies, or, unasked, when the call takes too long.  Its adapters  *)
(* differ: BullMQ's jobId and a FIFO queue give a key they remember no     *)
(* second job, and RabbitMQ's plain channel confirms nothing.  The hooks   *)
(* are the caller's, each of them optional; what they enqueue stays        *)
(* although the call's own message may be delivered again.                 *)
(***************************************************************************)
EXTENDS Naturals, FiniteSets, IdempotencyStore

CONSTANTS
  Jobs,           \* calls of WorkflowService.start, and the jobs they enqueue
  NoJob,          \* the job of an idle call
  NoKey,          \* the idempotency key of a start that was not made
  Workers,        \* worker processes
  MaxCalls,       \* bound: calls of run in flight that a process has room for
  Concurrency,    \* WorkerRunner's concurrency
  MaxAttempts,    \* max_attempts
  Settings,       \* what the runners may be given: a kind of queue and a set of hooks
  MaxDuplicates,  \* bound: deliveries again that nobody asked for
  MaxFailures,    \* bound: crashes, stops, and failed calls other than the handler's
  MaxExpiries     \* bound: idempotency entries that expire

ASSUME JobsAssumption ==
  /\ Responses = Jobs
  /\ NoJob \notin Jobs
  /\ NoKey \notin Keys
  /\ {MaxCalls, Concurrency, MaxAttempts} \subseteq Nat \ {0}
  /\ {MaxDuplicates, MaxFailures, MaxExpiries} \subseteq Nat
  /\ Settings \subseteq {"plain", "unique", "unconfirmed"}
                   \X SUBSET {"idempotency", "onRetry", "onDeadLetter"}

Slots    == Workers \X (1 .. MaxCalls)
Attempts == 0 .. MaxAttempts

VARIABLES
  queue,       \* "plain"; "unique", which has one job of a key it remembers; "unconfirmed"
  hooks,       \* the hooks of the runners
  starting,    \* the await each start is at
  key,         \* its idempotency key
  saved,       \* the rows of runs
  enqueued,    \* jobs the queue took
  messages,    \* messages waiting, by job and attempt
  pc,          \* the await each call of run is at
  job,         \* the job it was given
  attempt,     \* the attempt its envelope carries
  active,      \* by process, WorkerRunner.active
  stopping,    \* by process, WorkerRunner.stopping
  completed,   \* jobs some call reported as COMPLETED
  dead,        \* jobs among the dead letters
  dropped,     \* jobs of which an attempt failed and led to nothing
  duplicates,  \* deliveries made again unasked
  failures,    \* crashes, stops and failed calls
  expiries,    \* by key, how often its entry expired
  \* history variables
  handled,     \* by key, how often a handler took effect
  failed,      \* by job, how many attempts ended in an error
  known        \* by call, the expiries of its key if it was recorded when the
               \* call began, and MaxExpiries + 1 otherwise

setting   == <<queue, hooks>>
producing == <<setting, starting, key, saved, enqueued>>
calling   == <<pc, job, attempt>>
process   == <<active, stopping>>
ends      == <<completed, dead, dropped>>
bounds    == <<duplicates, failures, expiries>>
vars      == <<entries, producing, messages, calling, process, ends, bounds,
               handled, failed, known>>

TypeOK ==
  /\ EntriesType
  /\ setting \in Settings
  /\ starting \in [Jobs -> {"new", "save", "enqueue", "started", "failed"}]
  /\ key \in [Jobs -> Keys \cup {NoKey}]
  /\ saved \subseteq Jobs
  /\ enqueued \subseteq Jobs
  /\ messages \in [Jobs \X Attempts -> Nat]
  /\ pc \in [Slots -> {"idle", "get", "handle", "put", "error"}]
  /\ job \in [Slots -> Jobs \cup {NoJob}]
  /\ attempt \in [Slots -> Attempts]
  /\ active \in [Workers -> Nat]
  /\ stopping \in [Workers -> BOOLEAN]
  /\ completed \subseteq Jobs
  /\ dead \subseteq Jobs
  /\ dropped \subseteq Jobs
  /\ duplicates \in Nat
  /\ failures \in Nat
  /\ expiries \in [Keys -> Nat]
  /\ handled \in [Keys -> Nat]
  /\ failed \in [Jobs -> Nat]
  /\ known \in [Slots -> Nat]

Init ==
  /\ NoEntries
  /\ \E c \in Settings : queue = c[1] /\ hooks = c[2]
  /\ starting = [j \in Jobs |-> "new"]
  /\ key = [j \in Jobs |-> NoKey]
  /\ saved = {}
  /\ enqueued = {}
  /\ messages = [m \in Jobs \X Attempts |-> 0]
  /\ pc = [s \in Slots |-> "idle"]
  /\ job = [s \in Slots |-> NoJob]
  /\ attempt = [s \in Slots |-> 0]
  /\ active = [w \in Workers |-> 0]
  /\ stopping = [w \in Workers |-> FALSE]
  /\ completed = {}
  /\ dead = {}
  /\ dropped = {}
  /\ duplicates = 0
  /\ failures = 0
  /\ expiries = [k \in Keys |-> 0]
  /\ handled = [k \in Keys |-> 0]
  /\ failed = [j \in Jobs |-> 0]
  /\ known = [s \in Slots |-> 0]

worker(s) == s[1]
keyOf(s)  == key[job[s]]

\* Calls have no names in the code: a new one gets the first slot that is free.
NextFree(s) ==
  /\ pc[s] = "idle"
  /\ \A t \in Slots : worker(t) = worker(s) /\ t[2] < s[2] => pc[t] # "idle"

InFlight(w) == {s \in Slots : worker(s) = w /\ pc[s] # "idle"}

Interrupt == failures < MaxFailures /\ failures' = failures + 1
------------------------------------------------------------------------------
(* The queue *)

Send(j, a) == messages' = [messages EXCEPT ![<<j, a>>] = @ + 1]

\* Every message of a set of calls is deliverable again.
Return(slots) ==
  messages' = [m \in Jobs \X Attempts |->
                 messages[m] + Cardinality({s \in slots : <<job[s], attempt[s]>> = m})]

\* A message whose call takes longer than the queue waits.
DeliverAgain(s) ==
  /\ pc[s] # "idle"
  /\ duplicates < MaxDuplicates
  /\ duplicates' = duplicates + 1
  /\ Send(job[s], attempt[s])
  /\ UNCHANGED <<entries, producing, calling, process, ends, failures, expiries,
                 handled, failed, known>>
------------------------------------------------------------------------------
(* WorkflowService.start *)

\* The permission and the definition are there, and a run is made.
Start(j, k) ==
  /\ starting[j] = "new"
  /\ starting' = [starting EXCEPT ![j] = "save"]
  /\ key' = [key EXCEPT ![j] = k]
  /\ UNCHANGED <<entries, setting, saved, enqueued, messages, calling, process, ends,
                 bounds, handled, failed, known>>

\* repository.saveRun
saveRun(j) ==
  /\ starting[j] = "save"
  /\ saved' = saved \cup {j}
  /\ starting' = [starting EXCEPT ![j] = "enqueue"]
  /\ UNCHANGED <<entries, setting, key, enqueued, messages, calling, process, ends,
                 bounds, handled, failed, known>>

\* An enqueue that returns and adds nothing: a plain channel of RabbitMQ has nobody confirm
\* what it sends, and a queue with unique keys takes no job with a key it remembers.
MayIgnore(j) ==
  \/ queue = "unconfirmed"
  \/ queue = "unique" /\ \E i \in enqueued : key[i] = key[j]

Take(j) == enqueued' = enqueued \cup {j} /\ Send(j, 0)

\* queue.enqueue
enqueue(j) ==
  /\ starting[j] = "enqueue"
  /\ starting' = [starting EXCEPT ![j] = "started"]
  /\ \/ Take(j)
     \/ MayIgnore(j) /\ UNCHANGED <<enqueued, messages>>
  /\ UNCHANGED <<entries, setting, key, saved, calling, process, ends, bounds,
                 handled, failed, known>>

\* The row or the enqueue fails, the process does, or the answer that the queue took the
\* job is lost.
StartFails(j) ==
  /\ starting[j] \in {"save", "enqueue"}
  /\ Interrupt
  /\ starting' = [starting EXCEPT ![j] = "failed"]
  /\ \/ UNCHANGED <<enqueued, messages>>
     \/ starting[j] = "enqueue" /\ Take(j)
  /\ UNCHANGED <<entries, setting, key, saved, calling, process, ends, duplicates,
                 expiries, handled, failed, known>>
------------------------------------------------------------------------------
(* WorkerRunner.run *)

Goto(s, step) == pc' = [pc EXCEPT ![s] = step]

\* finally: the call is over, and its slot is free.
Finish(s) ==
  /\ pc' = [pc EXCEPT ![s] = "idle"]
  /\ job' = [job EXCEPT ![s] = NoJob]
  /\ attempt' = [attempt EXCEPT ![s] = 0]
  /\ known' = [known EXCEPT ![s] = 0]
  /\ active' = [active EXCEPT ![worker(s)] = @ - 1]
  /\ UNCHANGED stopping

\* Faulty variant: a comparison that lets one more in.
canAcceptOneMore(w) == ~stopping[w] /\ active[w] <= Concurrency

canAccept(w) == ~stopping[w] /\ active[w] < Concurrency

\* A message is delivered to a process that can accept it; one that cannot throws
\* WORKER_NOT_ACCEPTING, which leaves the message where it is.
run(s, j, a) ==
  /\ NextFree(s)
  /\ canAccept(worker(s))
  /\ messages[<<j, a>>] > 0
  /\ messages' = [messages EXCEPT ![<<j, a>>] = @ - 1]
  /\ Goto(s, "get")
  /\ job' = [job EXCEPT ![s] = j]
  /\ attempt' = [attempt EXCEPT ![s] = a]
  /\ active' = [active EXCEPT ![worker(s)] = @ + 1]
  /\ known' = [known EXCEPT ![s] = IF live[key[j]] THEN expiries[key[j]]
                                                    ELSE MaxExpiries + 1]
  /\ UNCHANGED <<entries, producing, stopping, ends, bounds, handled, failed>>

\* Faulty variant: a lookup for first attempts only.
LookUpOnce(s) ==
  /\ pc[s] = "get"
  /\ IF attempt[s] = 0 /\ get(keyOf(s)) # NoResponse
     THEN completed' = completed \cup {job[s]} /\ Finish(s)
     ELSE Goto(s, "handle") /\ UNCHANGED <<completed, job, attempt, process, known>>
  /\ UNCHANGED <<entries, producing, messages, dead, dropped, bounds, handled, failed>>

\* idempotency.get, if there is a store: a job whose key is recorded is COMPLETED.
LookUp(s) ==
  /\ pc[s] = "get"
  /\ IF "idempotency" \in hooks /\ get(keyOf(s)) # NoResponse
     THEN completed' = completed \cup {job[s]} /\ Finish(s)
     ELSE Goto(s, "handle") /\ UNCHANGED <<completed, job, attempt, process, known>>
  /\ UNCHANGED <<entries, producing, messages, dead, dropped, bounds, handled, failed>>

\* The handler takes effect.
handler(s) ==
  /\ pc[s] = "handle"
  /\ handled' = [handled EXCEPT ![keyOf(s)] = @ + 1]
  /\ Goto(s, "put")
  /\ UNCHANGED <<entries, producing, messages, job, attempt, process, ends, bounds,
                 failed, known>>

\* The handler throws, before or after it took effect: on its own, or because the
\* timer aborted its signal, which ends nothing by itself.
HandlerThrows(s) ==
  /\ pc[s] = "handle"
  /\ \/ UNCHANGED handled
     \/ handled' = [handled EXCEPT ![keyOf(s)] = @ + 1]
  /\ failed' = [failed EXCEPT ![job[s]] = @ + 1]
  /\ Goto(s, "error")
  /\ UNCHANGED <<entries, producing, messages, job, attempt, process, ends, bounds,
                 known>>

\* idempotency.putIfAbsent, whose result is ignored; the job is COMPLETED.
Record(s) ==
  /\ pc[s] = "put"
  /\ IF "idempotency" \notin hooks \/ Occupied(keyOf(s))
     THEN UNCHANGED entries
     ELSE put(keyOf(s), job[s])
  /\ completed' = completed \cup {job[s]}
  /\ Finish(s)
  /\ UNCHANGED <<producing, messages, dead, dropped, bounds, handled, failed>>

\* Either call of the store fails, which counts as an error of the job.
StoreFails(s) ==
  /\ pc[s] \in {"get", "put"}
  /\ "idempotency" \in hooks
  /\ Interrupt
  /\ failed' = [failed EXCEPT ![job[s]] = @ + 1]
  /\ Goto(s, "error")
  /\ UNCHANGED <<entries, producing, messages, job, attempt, process, ends, duplicates,
                 expiries, handled, known>>

\* Faulty variant: one attempt too few.
hookOfEarly(s) ==
  IF attempt[s] + 1 >= MaxAttempts - 1 THEN "onDeadLetter" ELSE "onRetry"

\* The hook that an error leads to.
hookOf(s) == IF attempt[s] + 1 >= MaxAttempts THEN "onDeadLetter" ELSE "onRetry"

\* catch: onRetry enqueues the next attempt, onDeadLetter buries the last.  Without the
\* hook, or when its queue adds nothing, the job is answered and nothing comes after it.
RetryOrBury(s) ==
  /\ pc[s] = "error"
  /\ \/ /\ hookOf(s) = "onRetry" /\ "onRetry" \in hooks
        /\ Send(job[s], attempt[s] + 1)
        /\ UNCHANGED <<dead, dropped>>
     \/ /\ hookOf(s) = "onDeadLetter" /\ "onDeadLetter" \in hooks
        /\ dead' = dead \cup {job[s]}
        /\ UNCHANGED <<messages, dropped>>
     \/ /\ hookOf(s) \notin hooks \/ (hookOf(s) = "onRetry" /\ MayIgnore(job[s]))
        /\ dropped' = dropped \cup {job[s]}
        /\ UNCHANGED <<messages, dead>>
  /\ Finish(s)
  /\ UNCHANGED <<entries, producing, completed, bounds, handled, failed>>

\* Faulty variant: a hook that fails is a failed attempt like any other.
HookFailsQuietly(s) ==
  /\ pc[s] = "error"
  /\ Interrupt
  /\ Finish(s)
  /\ UNCHANGED <<entries, producing, messages, ends, duplicates, expiries, handled,
                 failed>>

\* The hook throws out of the catch: the call rejects, and the queue delivers the
\* same attempt again.  If the hook had taken effect, that is DeliverAgain and then
\* RetryOrBury.
HookFails(s) ==
  /\ pc[s] = "error"
  /\ hookOf(s) \in hooks
  /\ Interrupt
  /\ Return({s})
  /\ Finish(s)
  /\ UNCHANGED <<entries, producing, ends, duplicates, expiries, handled, failed>>
------------------------------------------------------------------------------
(* Processes *)

\* requestStop, or the first step of gracefulShutdown.
requestStop(w) ==
  /\ ~stopping[w]
  /\ Interrupt
  /\ stopping' = [stopping EXCEPT ![w] = TRUE]
  /\ UNCHANGED <<entries, producing, messages, calling, active, ends, duplicates,
                 expiries, handled, failed, known>>

\* gracefulShutdown finds nothing active; a replacement starts.
Replace(w) ==
  /\ stopping[w]
  /\ active[w] = 0
  /\ stopping' = [stopping EXCEPT ![w] = FALSE]
  /\ UNCHANGED <<entries, producing, messages, calling, active, ends, bounds, handled,
                 failed, known>>

\* The process dies, or gives up its shutdown after maxWaitMs: what its calls were
\* given is delivered again, to a replacement too.
Crash(w) ==
  /\ InFlight(w) # {}
  /\ Interrupt
  /\ Return(InFlight(w))
  /\ pc' = [s \in Slots |-> IF worker(s) = w THEN "idle" ELSE pc[s]]
  /\ job' = [s \in Slots |-> IF worker(s) = w THEN NoJob ELSE job[s]]
  /\ attempt' = [s \in Slots |-> IF worker(s) = w THEN 0 ELSE attempt[s]]
  /\ known' = [s \in Slots |-> IF worker(s) = w THEN 0 ELSE known[s]]
  /\ active' = [active EXCEPT ![w] = 0]
  /\ stopping' = [stopping EXCEPT ![w] = FALSE]
  /\ UNCHANGED <<entries, producing, ends, duplicates, expiries, handled, failed>>

Expire(k) ==
  /\ expiries[k] < MaxExpiries
  /\ lapse(k)
  /\ expiries' = [expiries EXCEPT ![k] = @ + 1]
  /\ UNCHANGED <<producing, messages, calling, process, ends, duplicates, failures,
                 handled, failed, known>>
------------------------------------------------------------------------------
StartStep(j) == saveRun(j) \/ enqueue(j)

CallStep(s) ==
  LookUp(s) \/ handler(s) \/ HandlerThrows(s) \/ Record(s) \/ RetryOrBury(s)

Next ==
  \/ \E j \in Jobs : StartStep(j) \/ StartFails(j) \/ \E k \in Keys : Start(j, k)
  \/ \E s \in Slots :
       \/ \E j \in Jobs, a \in Attempts : run(s, j, a)
       \/ CallStep(s)
       \/ StoreFails(s)
       \/ HookFails(s)
       \/ DeliverAgain(s)
  \/ \E w \in Workers : requestStop(w) \/ Replace(w) \/ Crash(w)
  \/ \E k \in Keys : Expire(k)

Fairness ==
  /\ \A j \in Jobs : WF_vars(StartStep(j))
  /\ \A s \in Slots : WF_vars(CallStep(s))
  /\ WF_vars(\E s \in Slots, j \in Jobs, a \in Attempts : run(s, j, a))
  /\ \A w \in Workers : WF_vars(Replace(w))

Spec == Init /\ [][Next]_vars
FairSpec == Spec /\ Fairness
------------------------------------------------------------------------------
(* Properties *)

Waiting(j) == \E a \in Attempts : messages[<<j, a>>] > 0
Held(j)    == \E s \in Slots : pc[s] # "idle" /\ job[s] = j

\* A failed attempt is always followed by something: both hooks are given, and their queue
\* adds every job.
HandedOn == {"onRetry", "onDeadLetter"} \subseteq hooks /\ queue = "plain"

Ended(j) == j \in completed \cup dead \/ (~HandedOn /\ j \in dropped)

\* Whatever fails and whoever stops, a job the queue took is waiting, in a call,
\* completed, or among the dead letters, and its run's row was saved before it.  A job is
\* dropped only for want of a hook, or by a queue that adds no job for a retry.
JobsAreKept ==
  \A j \in enqueued :
    /\ Waiting(j) \/ Held(j) \/ Ended(j)
    /\ j \in saved

\* A job is reported as COMPLETED, by the call that handled it or by one that found
\* its key, only if a handler took effect for that key.
CompletedTookEffect == \A j \in completed : handled[key[j]] > 0

\* A job is buried only after as many errors as it has attempts.
BuriedAfterAllAttempts == \A j \in dead : failed[j] >= MaxAttempts

\* The count of active calls is exact on every path, so a process takes no more
\* than its share, and a shutdown that ends gracefully leaves no call behind.
ActiveIsExact ==
  \A w \in Workers :
    /\ active[w] = Cardinality(InFlight(w))
    /\ active[w] <= Concurrency

\* A key that was recorded when a call began is not handled again by it, unless
\* its entry expired in between.
RecordedIsSkipped ==
  \A s \in Slots :
    pc[s] \in {"handle", "put"} /\ known[s] <= MaxExpiries
      => expiries[keyOf(s)] > known[s]

\* Step by step the service, the queue and any number of processes keep a ledger of jobs:
\* a job comes once and after its row, is reported as COMPLETED no sooner than a handler
\* took effect for its key, buried no sooner than all its attempts failed, and nothing is
\* taken back, whoever crashes or delivers twice.
Ledger == INSTANCE JobLedger

KeepsLedger == Ledger!Spec

\* Under fair processes every job ends, completed or buried, or dropped by a runner or a
\* queue that may drop it.
EveryJobEnds ==
  \A j \in Jobs : j \in enqueued ~> Ended(j)
=============================================================================
