---------------------------- MODULE ChangeControl ----------------------------
(***************************************************************************)
(* The /v1/control API of apps/platform-control-api as it runs in          *)
(* production: several requests in flight, on one replica or on several,   *)
(* over one PostgreSQL store.  A handler gives up the event loop at every  *)
(* await, so each of its queries is a step of its own and the steps of     *)
(* different requests interleave.  A process may stop between any two      *)
(* steps, and a request whose process stopped is simply gone.              *)
(*                                                                         *)
(* Each query goes to a pool it shares with Section 19, and may get a      *)
(* connection on which an activation of a configuration (ConfigActivation) *)
(* has left a transaction open: what it writes is then committed or rolled *)
(* back with that.  This is followed for the changes and their audit rows; *)
(* the queries of the desired state are taken to commit by themselves.     *)
(*                                                                         *)
(* A request that a handler refuses (404, 403, 409, or the 500 of an       *)
(* invalid transition) changes nothing and is not a step.                  *)
(***************************************************************************)
EXTENDS Naturals, Sequences, FiniteSets, ChangeMachine

CONSTANTS
  ChangeIds,        \* the uuids a change may get
  Requests,         \* slots for requests in flight, over all replicas
  DesiredStates,    \* desired-state documents that pass validatePlatformState
  Environments,     \* what PLATFORM_ENV may be
  NoChange,         \* no row, no payload in hand
  NoId,             \* no change named by the request
  EmptyState,       \* the desired state of a store nothing was written to: {}
  MaxConfigVersion, \* bound: the last version the desired state gets
  MaxTrail,         \* bound: how many states the trail of a change may list
  MaxMishaps,       \* bound: how many requests are lost or write in an open transaction
  MaxStrays         \* bound: how many of these write in an open transaction

ASSUME ConstantsAssumption ==
  /\ NoOne \notin Operators
  /\ NoChange \notin ChangeRequest
  /\ NoId \notin ChangeIds
  /\ EmptyState \notin DesiredStates
  /\ {MaxConfigVersion, MaxTrail} \subseteq Nat
  /\ {MaxMishaps, MaxStrays} \subseteq Nat

VARIABLES
  environment,   \* read once from PLATFORM_ENV, never changed
  changes,       \* control_change_request_runtime: the payload of each row
  configVersion, \* control_runtime_state.config_version
  desiredState,  \* control_runtime_state.desired_state
  auditSaved,    \* control_audit_runtime: its change.saved rows, (id, state),
  auditUpdated,  \*   its desired-state.updated rows, by version,
  auditApplied,  \*   and its ...applied-from-change rows, by change id
  pc,            \* the await each request in flight is at
  target,        \* the change id a request works on
  current,       \* the row of it that the request read, until it writes
  payload,       \* the change a request is about to save
  desired,       \* the document a request writes, later the one it read
  version,       \* the version RETURNING gave it, later the one it read
  crashes,       \* how many requests were lost so far
  held,          \* held[c]: what c was before an open transaction wrote it, if one did
  heldAudit,     \* change.saved rows that an open transaction has inserted
  strays,        \* how many rows were first written in an open transaction
  \* history variables
  approvals,     \* every approval ever saved: [id, by]
  history,       \* history[v]: the desired state of version v
  lost,          \* audit rows whose request crashed just after the save
  undone,        \* audit rows that were rolled back
  reverted       \* changes of which a save was rolled back

audit   == <<auditSaved, auditUpdated, auditApplied>>
store   == <<changes, configVersion, desiredState, audit>>
locals  == <<pc, target, current, payload, desired, version>>
open    == <<held, heldAudit, strays>>
ghosts  == <<approvals, history, lost, undone, reverted>>
vars    == <<environment, store, locals, crashes, open, ghosts>>
config  == <<configVersion, desiredState, history>>

Step == {"idle", "saveChange", "auditChange", "setDesired", "auditDesired",
         "auditApplied", "readVersion", "readState", "respond"}

TypeOK ==
  /\ environment \in Environments
  /\ changes \in [ChangeIds -> ChangeRequest \cup {NoChange}]
  /\ configVersion \in Nat
  /\ desiredState \in DesiredStates \cup {EmptyState}
  /\ auditSaved \in SUBSET (ChangeIds \X ChangeState)
  /\ auditUpdated \in SUBSET Nat
  /\ auditApplied \in SUBSET ChangeIds
  /\ pc \in [Requests -> Step]
  /\ target \in [Requests -> ChangeIds \cup {NoId}]
  /\ current \in [Requests -> ChangeRequest \cup {NoChange}]
  /\ payload \in [Requests -> ChangeRequest \cup {NoChange}]
  /\ desired \in [Requests -> DesiredStates \cup {EmptyState}]
  /\ version \in [Requests -> Nat]
  /\ crashes \in Nat
  /\ approvals \in SUBSET [id : ChangeIds, by : Operators]
  /\ history \in Seq(DesiredStates \cup {EmptyState})
  /\ lost \in SUBSET (ChangeIds \X ChangeState)
  /\ held \in [ChangeIds -> SUBSET (ChangeRequest \cup {NoChange})]
  /\ heldAudit \in SUBSET (ChangeIds \X ChangeState)
  /\ strays \in Nat
  /\ undone \in SUBSET (ChangeIds \X ChangeState)
  /\ reverted \in SUBSET ChangeIds

\* A store without rows reads as version 1 of the empty document.
Init ==
  /\ environment \in Environments
  /\ changes = [c \in ChangeIds |-> NoChange]
  /\ configVersion = 1
  /\ desiredState = EmptyState
  /\ auditSaved = {}
  /\ auditUpdated = {}
  /\ auditApplied = {}
  /\ pc = [r \in Requests |-> "idle"]
  /\ target = [r \in Requests |-> NoId]
  /\ current = [r \in Requests |-> NoChange]
  /\ payload = [r \in Requests |-> NoChange]
  /\ desired = [r \in Requests |-> EmptyState]
  /\ version = [r \in Requests |-> 0]
  /\ crashes = 0
  /\ approvals = {}
  /\ history = <<EmptyState>>
  /\ lost = {}
  /\ held = [c \in ChangeIds |-> {}]
  /\ heldAudit = {}
  /\ strays = 0
  /\ undone = {}
  /\ reverted = {}
------------------------------------------------------------------------------
Goto(r, step) == pc' = [pc EXCEPT ![r] = step]

\* The request is over, or its process is: its locals are gone.
Release(r) ==
  /\ Goto(r, "idle")
  /\ target'  = [target  EXCEPT ![r] = NoId]
  /\ current' = [current EXCEPT ![r] = NoChange]
  /\ payload' = [payload EXCEPT ![r] = NoChange]
  /\ desired' = [desired EXCEPT ![r] = EmptyState]
  /\ version' = [version EXCEPT ![r] = 0]
------------------------------------------------------------------------------
(* Change requests *)

\* What a query may find of a change: in the open transaction that wrote it last, or on
\* another connection.
Rows(c) == ({changes[c]} \cup held[c]) \ {NoChange}

\* The connection a query gets has a transaction open that has not written its row yet.
Stray ==
  /\ strays < MaxStrays /\ crashes + strays < MaxMishaps
  /\ strays' = strays + 1

\* randomUUID: an id no row and no request in flight has or had.
Fresh(c) ==
  /\ changes[c] = NoChange /\ c \notin reverted
  /\ \A r \in Requests : target[r] # c

\* POST /changes up to its saveChange.
CreateChange(r, actor, c, p) ==
  /\ pc[r] = "idle"
  /\ Fresh(c)
  /\ CreateAllowed(environment, p)
  /\ payload' = [payload EXCEPT ![r] = create(actor, p)]
  /\ target' = [target EXCEPT ![r] = c]
  /\ Goto(r, "saveChange")
  /\ UNCHANGED <<environment, store, current, desired, version, crashes, open, ghosts>>

\* POST /changes/:id/transition: getChange, the guards and the new record.  The
\* row is not locked and nothing compares it again before the save.
TransitionChange(r, actor, c, next) ==
  /\ pc[r] = "idle"
  /\ \E row \in Rows(c) :
       /\ TransitionAllowed(environment, row, next, actor)
       /\ Len(row.audit) < MaxTrail
       /\ current' = [current EXCEPT ![r] = row]
       /\ payload' = [payload EXCEPT ![r] = transition(row, next, actor)]
  /\ target' = [target EXCEPT ![r] = c]
  /\ Goto(r, "saveChange")
  /\ UNCHANGED <<environment, store, desired, version, crashes, open, ghosts>>

\* Faulty variants: an upsert that keeps the stored trail and appends to it, and
\* an audit row made from the row as it is by then.
saveChangeMerged(r) ==
  /\ pc[r] = "saveChange"
  /\ changes' = [changes EXCEPT ![target[r]] =
                   IF @ = NoChange THEN payload[r]
                   ELSE [payload[r] EXCEPT
                           !.audit = Append(changes[target[r]].audit, payload[r].state)]]
  /\ current' = [current EXCEPT ![r] = NoChange]
  /\ Goto(r, "auditChange")
  /\ UNCHANGED <<environment, configVersion, desiredState, audit, target,
                 payload, desired, version, crashes, open, ghosts>>

AuditChangeFromRow(r) ==
  /\ pc[r] = "auditChange"
  /\ changes[target[r]] # NoChange
  /\ auditSaved' = auditSaved \cup {<<target[r], changes[target[r]].state>>}
  /\ Release(r)
  /\ UNCHANGED <<environment, changes, configVersion, desiredState, auditUpdated,
                 auditApplied, crashes, open, ghosts>>

\* PostgresControlStore.saveChange: the upsert overwrites whatever is stored.  While a
\* transaction holds the row only its own queries write it, and the others wait.
saveChange(r) ==
  /\ pc[r] = "saveChange"
  /\ \/ UNCHANGED <<held, strays>>
     \/ /\ held[target[r]] = {}
        /\ Stray
        /\ held' = [held EXCEPT ![target[r]] = {changes[target[r]]}]
  /\ changes' = [changes EXCEPT ![target[r]] = payload[r]]
  /\ approvals' = IF payload[r].state = "APPROVED"
                  THEN approvals \cup {[id |-> target[r],
                                        by |-> payload[r].approvedBy]}
                  ELSE approvals
  /\ current' = [current EXCEPT ![r] = NoChange]
  /\ Goto(r, "auditChange")
  /\ UNCHANGED <<environment, configVersion, desiredState, audit, target,
                 payload, desired, version, crashes, heldAudit, history, lost, undone,
                 reverted>>

\* The audit row of saveChange, a query of its own; then the reply is sent.
AuditChange(r) ==
  /\ pc[r] = "auditChange"
  /\ \/ /\ auditSaved' = auditSaved \cup {<<target[r], payload[r].state>>}
        /\ UNCHANGED <<heldAudit, strays>>
     \/ /\ Stray
        /\ heldAudit' = heldAudit \cup {<<target[r], payload[r].state>>}
        /\ UNCHANGED auditSaved
  /\ Release(r)
  /\ UNCHANGED <<environment, changes, configVersion, desiredState, auditUpdated,
                 auditApplied, crashes, held, ghosts>>

\* The transaction of an activation ends, by its COMMIT or its ROLLBACK, and with it what
\* it holds.  Transactions are not told apart, so each row ends for itself.
CommitRow(c) ==
  /\ held[c] # {}
  /\ held' = [held EXCEPT ![c] = {}]
  /\ UNCHANGED <<environment, store, locals, crashes, heldAudit, strays, ghosts>>

RollBackRow(c) ==
  /\ \E row \in held[c] : changes' = [changes EXCEPT ![c] = row]
  /\ held' = [held EXCEPT ![c] = {}]
  /\ reverted' = reverted \cup {c}
  /\ UNCHANGED <<environment, configVersion, desiredState, audit, locals, crashes, heldAudit,
                 strays, approvals, history, lost, undone>>

EndAudit(c, s) ==
  /\ <<c, s>> \in heldAudit
  /\ heldAudit' = heldAudit \ {<<c, s>>}
  /\ \/ auditSaved' = auditSaved \cup {<<c, s>>} /\ UNCHANGED undone
     \/ undone' = undone \cup {<<c, s>>} /\ UNCHANGED auditSaved
  /\ UNCHANGED <<environment, changes, configVersion, desiredState, auditUpdated, auditApplied,
                 locals, crashes, held, strays, approvals, history, lost, reverted>>
------------------------------------------------------------------------------
(* The desired state *)

PendingWrites == {r \in Requests : pc[r] = "setDesired"}

\* Faulty variants: a PUT that checks no change, a version that stands still
\* when the document does, a reply made of the request's own document.
BeginPutDesiredUnchecked(r, d, c) ==
  /\ pc[r] = "idle"
  /\ configVersion + Cardinality(PendingWrites) < MaxConfigVersion
  /\ target' = [target EXCEPT ![r] = c]
  /\ current' = [current EXCEPT ![r] = IF c = NoId THEN NoChange ELSE changes[c]]
  /\ desired' = [desired EXCEPT ![r] = d]
  /\ Goto(r, "setDesired")
  /\ UNCHANGED <<environment, store, payload, version, crashes, open, ghosts>>

setDesiredStateIfNew(r) ==
  /\ pc[r] = "setDesired"
  /\ configVersion' = IF desired[r] = desiredState THEN configVersion
                                                  ELSE configVersion + 1
  /\ desiredState' = desired[r]
  /\ history' = IF desired[r] = desiredState THEN history
                                            ELSE Append(history, desired[r])
  /\ version' = [version EXCEPT ![r] = configVersion']
  /\ current' = [current EXCEPT ![r] = NoChange]
  /\ Goto(r, "auditDesired")
  /\ UNCHANGED <<environment, changes, audit, target, payload, desired, crashes,
                 open, approvals, lost, undone, reverted>>

getDesiredStateOfBody(r) ==
  /\ pc[r] = "readState"
  /\ Goto(r, "respond")
  /\ UNCHANGED <<environment, store, target, current, payload, desired, version,
                 crashes, open, ghosts>>

\* PUT /desired-state in production: read the change the header names and
\* check it; elsewhere no change is needed.
BeginPutDesired(r, d, c) ==
  /\ pc[r] = "idle"
  /\ configVersion + Cardinality(PendingWrites) < MaxConfigVersion
  /\ IF environment = "production"
     THEN /\ c \in ChangeIds
          /\ \E row \in Rows(c) : MayMutate(row) /\ current' = [current EXCEPT ![r] = row]
     ELSE c = NoId /\ UNCHANGED current
  /\ target' = [target EXCEPT ![r] = c]
  /\ desired' = [desired EXCEPT ![r] = d]
  /\ Goto(r, "setDesired")
  /\ UNCHANGED <<environment, store, payload, version, crashes, open, ghosts>>

\* PostgresControlStore.setDesiredState: one upsert that returns the version.
setDesiredState(r) ==
  /\ pc[r] = "setDesired"
  /\ configVersion' = configVersion + 1
  /\ desiredState' = desired[r]
  /\ history' = Append(history, desired[r])
  /\ version' = [version EXCEPT ![r] = configVersion + 1]
  /\ current' = [current EXCEPT ![r] = NoChange]
  /\ Goto(r, "auditDesired")
  /\ UNCHANGED <<environment, changes, audit, target, payload, desired, crashes,
                 open, approvals, lost, undone, reverted>>

AuditDesired(r) ==
  /\ pc[r] = "auditDesired"
  /\ auditUpdated' = auditUpdated \cup {version[r]}
  /\ Goto(r, IF target[r] = NoId THEN "readVersion" ELSE "auditApplied")
  /\ UNCHANGED <<environment, changes, configVersion, desiredState, auditSaved,
                 auditApplied, target, current, payload, desired, version, crashes,
                 open, ghosts>>

\* The row that ties the write to the change that allowed it.
AuditApplied(r) ==
  /\ pc[r] = "auditApplied"
  /\ auditApplied' = auditApplied \cup {target[r]}
  /\ Goto(r, "readVersion")
  /\ UNCHANGED <<environment, changes, configVersion, desiredState, auditSaved,
                 auditUpdated, target, current, payload, desired, version, crashes,
                 open, ghosts>>

\* GET /desired-state, and the end of PUT: two reads, the version first.
BeginGetDesired(r) ==
  /\ pc[r] = "idle"
  /\ Goto(r, "readVersion")
  /\ UNCHANGED <<environment, store, target, current, payload, desired, version,
                 crashes, open, ghosts>>

getConfigVersion(r) ==
  /\ pc[r] = "readVersion"
  /\ version' = [version EXCEPT ![r] = configVersion]
  /\ Goto(r, "readState")
  /\ UNCHANGED <<environment, store, target, current, payload, desired, crashes,
                 open, ghosts>>

getDesiredState(r) ==
  /\ pc[r] = "readState"
  /\ desired' = [desired EXCEPT ![r] = desiredState]
  /\ Goto(r, "respond")
  /\ UNCHANGED <<environment, store, target, current, payload, version, crashes,
                 open, ghosts>>

Respond(r) ==
  /\ pc[r] = "respond"
  /\ Release(r)
  /\ UNCHANGED <<environment, store, crashes, open, ghosts>>
------------------------------------------------------------------------------
\* The process of a request stops, or a query of it is refused: what it has written
\* stays, the rest is lost.
Crash(r) ==
  /\ pc[r] # "idle"
  /\ crashes + strays < MaxMishaps
  /\ crashes' = crashes + 1
  /\ lost' = IF pc[r] = "auditChange"
             THEN lost \cup {<<target[r], payload[r].state>>}
             ELSE lost
  /\ Release(r)
  /\ UNCHANGED <<environment, store, open, approvals, history, undone, reverted>>

RequestStep(r) ==
  \/ \E actor \in Operators, c \in ChangeIds, p \in Proposals :
       CreateChange(r, actor, c, p)
  \/ \E actor \in Operators, c \in ChangeIds, next \in ChangeState :
       TransitionChange(r, actor, c, next)
  \/ saveChange(r)
  \/ AuditChange(r)
  \/ \E d \in DesiredStates, c \in ChangeIds \cup {NoId} :
       BeginPutDesired(r, d, c)
  \/ setDesiredState(r)
  \/ AuditDesired(r)
  \/ AuditApplied(r)
  \/ BeginGetDesired(r)
  \/ getConfigVersion(r)
  \/ getDesiredState(r)
  \/ Respond(r)
  \/ Crash(r)

Next ==
  \/ \E r \in Requests : RequestStep(r)
  \/ \E c \in ChangeIds :
       CommitRow(c) \/ RollBackRow(c) \/ \E s \in ChangeState : EndAudit(c, s)

Spec == Init /\ [][Next]_vars
------------------------------------------------------------------------------
(* Properties *)

Stored == {c \in ChangeIds : changes[c] # NoChange}

\* A trail that starts as a draft and takes one edge of the graph at a time.
IsPath(trail) ==
  /\ Len(trail) > 0
  /\ trail[1] = "DRAFT"
  /\ \A i \in 1..Len(trail) - 1 : trail[i + 1] \in forward(trail[i])

\* Whatever the interleaving, the record that survives tells a possible story:
\* its trail is a path of the state graph, it ends in the state the record is
\* in, and in production it enters APPROVED from WAITING_APPROVAL only.
TrailLegal ==
  \A c \in Stored :
    LET trail == changes[c].audit
    IN /\ IsPath(trail)
       /\ trail[Len(trail)] = changes[c].state
       /\ environment = "production" =>
            \A i \in 1..Len(trail) - 1 :
              trail[i + 1] = "APPROVED" => trail[i] = "WAITING_APPROVAL"

\* The requestor of a production change never is its approver
\* (requestor_must_not_equal_approver), also when approvals race.
SeparationOfDuties ==
  environment = "production" =>
    \A c \in Stored : changes[c].approvedBy # changes[c].actorId

\* A change in a state that lets the desired state be written has an approver,
\* and a change has an approver only if its trail passes APPROVED.
ApproverMatchesTrail ==
  \A c \in Stored :
    /\ changes[c].state \in approvedMutationStates => changes[c].approvedBy # NoOne
    /\ changes[c].approvedBy # NoOne =>
         \E i \in 1..Len(changes[c].audit) : changes[c].audit[i] = "APPROVED"

\* Saves whose audit row is about to be written.
Unaudited == {<<target[r], payload[r].state>> :
                r \in {q \in Requests : pc[q] = "auditChange"}}

\* Every state in the trail of a stored change has its change.saved row in the audit
\* table, but for two ways of losing one: the request that saved it stopped before its
\* separate insert, or the insert ran in a transaction of an activation that was rolled
\* back.  Until then the request is about to write the row, or the transaction is open.
AuditAccountsForTrail ==
  \A c \in Stored : \A i \in 1..Len(changes[c].audit) :
    <<c, changes[c].audit[i]>> \in
      auditSaved \cup Unaudited \cup heldAudit \cup lost \cup undone

\* A change named by a desired-state.applied-from-change row was approved, in a record
\* that was saved, by somebody other than its requestor, even when the record has been
\* overwritten since, unless a save of it was rolled back.
AppliedChangesWereApproved ==
  \A c \in auditApplied \ reverted :
    /\ c \in Stored
    /\ \E a \in approvals : a.id = c /\ a.by # changes[c].actorId

\* The version and the document of one reply come from two reads, so a write may
\* fall between them; the document is then newer than the version, never older.
ReplyIsNotOlder ==
  \A r \in Requests :
    pc[r] = "respond" =>
      \E v \in version[r]..configVersion : history[v] = desired[r]

\* A config version is announced by one write only: no two writes are told the
\* same version, and none is told a version the audit table already has.
OneWriterPerVersion ==
  \A r \in Requests :
    pc[r] = "auditDesired" =>
      /\ version[r] \in 2..configVersion
      /\ version[r] \notin auditUpdated
      /\ \A q \in Requests \ {r} :
           pc[q] = "auditDesired" => version[q] # version[r]

\* A stored change moves along one edge of the graph at a time and never leaves
\* COMPLETED or ROLLED_BACK: what the state machine promises of a change.
StateMovesForward ==
  [][\A c \in Stored :
       changes'[c] # changes[c] =>
         changes'[c].state \in forward(changes[c].state)]_changes

\* The history, the audit table and what requests in flight hold are the detail; the rest
\* is the abstract state as it is.
Lifecycle == INSTANCE ChangeLifecycle WITH
  environment <- environment, changes <- changes,
  configVersion <- configVersion, desiredState <- desiredState

\* A request about to write, after the row it read was overwritten.
Overtaken(r) ==
  /\ pc[r] \in {"saveChange", "setDesired"}
  /\ target[r] # NoId
  /\ changes[target[r]] # current[r]

\* With any number of requests in flight, every step is none to the atomic lifecycle, or
\* one of its own, but for the writes of requests that were overtaken and for saves that
\* an activation rolls back: nothing else that runs between two queries of a handler is
\* felt.
StraysOnlyOvertaken ==
  [][\/ UNCHANGED Lifecycle!vars
     \/ \E r \in Requests : Overtaken(r) /\ pc'[r] # pc[r]
     \/ \E c \in ChangeIds : RollBackRow(c)
     \/ Lifecycle!Next]_vars

\* Served one request at a time, and outside of the transactions of activations, the
\* interleaved handlers implement the atomic lifecycle, crashes between their queries
\* included: the guard a request read still holds of the row its save overwrites.
ImplementsLifecycle == Lifecycle!Spec
==============================================================================
