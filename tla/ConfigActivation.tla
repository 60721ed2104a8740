-------------------------- MODULE ConfigActivation --------------------------
(***************************************************************************)
(* POST /platform/config/:version/activate of section 19: BEGIN, the       *)
(* UPDATE that deactivates every version of the environment, the one that  *)
(* activates the version asked for, COMMIT, and then the audit row, each   *)
(* through pool.query, which takes a connection for that statement alone.  *)
(* Other handlers of the process write through the same pool.              *)
(*                                                                         *)
(* The pool and PostgreSQL are external.  The pool lends the connection    *)
(* that came back last, and opens one more, up to its limit, when none is  *)
(* idle.  A connection may be idle inside a transaction.  A transaction    *)
(* reads what is committed, locks the rows it updates, and is aborted by a *)
(* statement that fails; COMMIT then only ends it.                         *)
(***************************************************************************)
EXTENDS Naturals, FiniteSets, Sequences

CONSTANTS
  Versions,     \* versions that have a row
  NoVersion,    \* one that has none
  Requests,     \* activations
  Writers,      \* single writes of other handlers
  PoolMax,      \* PG_POOL_MAX
  MaxFailures   \* bound: statements that fail, and connections that are lost

ASSUME ActivationAssumption ==
  /\ NoVersion \notin Versions
  /\ Requests \cap Writers = {}
  /\ PoolMax \in Nat \ {0}
  /\ MaxFailures \in Nat

Users == Requests \cup Writers
Conns == 1 .. PoolMax
NoConn == 0
NoUser == "none"

VARIABLES
  active,     \* versions whose row is committed as active
  rows,       \* users whose committed row, of audit or other, is there
  idle,       \* idle connections, the last returned last
  closed,     \* connections not open
  conn,       \* the connection each user's statement has
  tx,         \* by connection: "none", "open" or "aborted"
  locked,     \* versions it has updated
  view,       \* those of them it has made active
  inserted,   \* users whose rows it has inserted
  pc,         \* the statement each user is at
  version,    \* the version a request activates
  failures,
  \* history variables
  opener,     \* by connection, the request whose BEGIN opened its transaction
  current,    \* the version last activated by a COMMIT
  applied,    \* requests whose transaction was committed
  strayed     \* whether a statement ran in another's transaction, or outside its own

pool == <<idle, closed, conn>>
sql  == <<tx, locked, view, inserted, opener>>
vars == <<active, rows, pool, sql, pc, version, failures, current, applied, strayed>>

InTransaction == {"deactivate", "activate", "commit", "rollback"}
Statements    == InTransaction \cup {"begin", "insert"}

TypeOK ==
  /\ active \subseteq Versions
  /\ rows \subseteq Users
  /\ idle \in Seq(Conns)
  /\ closed \subseteq Conns
  /\ conn \in [Users -> Conns \cup {NoConn}]
  /\ tx \in [Conns -> {"none", "open", "aborted"}]
  /\ locked \in [Conns -> SUBSET Versions]
  /\ view \in [Conns -> SUBSET Versions]
  /\ inserted \in [Conns -> SUBSET Users]
  /\ pc \in [Users -> Statements \cup {"new", "done", "failed"}]
  /\ version \in [Users -> Versions \cup {NoVersion}]
  /\ failures \in Nat
  /\ opener \in [Conns -> Requests \cup {NoUser}]
  /\ current \in Versions
  /\ applied \subseteq Requests
  /\ strayed \in BOOLEAN

Init ==
  /\ \E v \in Versions : active = {v} /\ current = v
  /\ rows = {}
  /\ idle = <<>>
  /\ closed = Conns
  /\ conn = [u \in Users |-> NoConn]
  /\ tx = [c \in Conns |-> "none"]
  /\ locked = [c \in Conns |-> {}]
  /\ view = [c \in Conns |-> {}]
  /\ inserted = [c \in Conns |-> {}]
  /\ pc = [u \in Users |-> "new"]
  /\ version = [u \in Users |-> NoVersion]
  /\ failures = 0
  /\ opener = [c \in Conns |-> NoUser]
  /\ applied = {}
  /\ strayed = FALSE

Interrupt == failures < MaxFailures /\ failures' = failures + 1
------------------------------------------------------------------------------
(* The pool *)

Lend(u) ==
  /\ pc[u] \in Statements
  /\ conn[u] = NoConn
  /\ \/ /\ idle # <<>>
        /\ conn' = [conn EXCEPT ![u] = idle[Len(idle)]]
        /\ idle' = SubSeq(idle, 1, Len(idle) - 1)
        /\ UNCHANGED closed
     \/ /\ idle = <<>>
        /\ \E c \in closed : /\ \A d \in closed : c <= d
                             /\ conn' = [conn EXCEPT ![u] = c]
                             /\ closed' = closed \ {c}
        /\ UNCHANGED idle
  /\ UNCHANGED <<active, rows, sql, pc, version, failures, current, applied, strayed>>

\* The statement is over: its connection is idle, whatever it is in the middle of.
Release(u) ==
  /\ idle' = Append(idle, conn[u])
  /\ conn' = [conn EXCEPT ![u] = NoConn]
  /\ UNCHANGED closed
------------------------------------------------------------------------------
(* PostgreSQL *)

\* A statement that runs in the transaction of another request, or after BEGIN but
\* not in the one it opened.
Strays(u) ==
  LET c == conn[u]
  IN IF tx[c] = "none" THEN pc[u] \in InTransaction ELSE opener[c] # u

Running(u, statement) ==
  /\ pc[u] = statement
  /\ conn[u] # NoConn
  /\ strayed' = (strayed \/ Strays(u))

LockedElsewhere(c) == UNION {locked[d] : d \in Conns \ {c}}

\* What is active for a connection, and what may yet be for others.
Visible(c)   == (active \ locked[c]) \cup view[c]
Undecided(c) ==
  {v \in LockedElsewhere(c) : v \in active \/ \E d \in Conns \ {c} : v \in view[d]}

\* Updates of rows: kept by a transaction, at once in effect without one.
Update(c, changed, on) ==
  IF tx[c] = "none"
  THEN /\ active' = (active \ changed) \cup on
       /\ UNCHANGED <<locked, view>>
  ELSE /\ locked' = [locked EXCEPT ![c] = @ \cup changed]
       /\ view' = [view EXCEPT ![c] = (@ \ changed) \cup on]
       /\ UNCHANGED active

\* The transaction of a connection is over.
Ended(c) ==
  /\ tx' = [tx EXCEPT ![c] = "none"]
  /\ locked' = [locked EXCEPT ![c] = {}]
  /\ view' = [view EXCEPT ![c] = {}]
  /\ inserted' = [inserted EXCEPT ![c] = {}]
  /\ opener' = [opener EXCEPT ![c] = NoUser]

\* A statement fails: a transaction it is in has aborted.
Aborted(c) ==
  IF tx[c] = "none"
  THEN UNCHANGED sql
  ELSE /\ tx' = [tx EXCEPT ![c] = "aborted"]
       /\ locked' = [locked EXCEPT ![c] = {}]
       /\ view' = [view EXCEPT ![c] = {}]
       /\ inserted' = [inserted EXCEPT ![c] = {}]
       /\ UNCHANGED opener
------------------------------------------------------------------------------
(* activateConfigVersion, appendAudit and the writes of others *)

Goto(u, statement) == pc' = [pc EXCEPT ![u] = statement]

Activation(r, v) ==
  /\ pc[r] = "new"
  /\ Goto(r, "begin")
  /\ version' = [version EXCEPT ![r] = v]
  /\ UNCHANGED <<active, rows, pool, sql, failures, current, applied, strayed>>

Write(w) ==
  /\ pc[w] = "new"
  /\ Goto(w, "insert")
  /\ UNCHANGED <<active, rows, pool, sql, version, failures, current, applied, strayed>>

\* BEGIN in an open transaction is a warning.
Begin(r) ==
  LET c == conn[r]
  IN /\ Running(r, "begin")
     /\ tx[c] # "aborted"
     /\ IF tx[c] = "none"
        THEN /\ tx' = [tx EXCEPT ![c] = "open"]
             /\ opener' = [opener EXCEPT ![c] = r]
        ELSE UNCHANGED <<tx, opener>>
     /\ Goto(r, "deactivate")
     /\ Release(r)
     /\ UNCHANGED <<active, rows, locked, view, inserted, version, failures, current, applied>>

\* The first UPDATE, which waits for every row of the environment.
Deactivate(r) ==
  LET c == conn[r]
  IN /\ Running(r, "deactivate")
     /\ tx[c] # "aborted"
     /\ LockedElsewhere(c) = {}
     /\ Update(c, Versions, {})
     /\ Goto(r, "activate")
     /\ Release(r)
     /\ UNCHANGED <<rows, tx, inserted, opener, version, failures, current, applied>>

\* Faulty variants: a second UPDATE whose result is not looked at, and a table
\* without ux_configuration_active.
ActivateUnchecked(r) ==
  LET c == conn[r]
      v == version[r]
  IN /\ Running(r, "activate")
     /\ tx[c] # "aborted"
     /\ v \notin LockedElsewhere(c) /\ Undecided(c) \subseteq {v}
     /\ Visible(c) \subseteq {v}
     /\ Update(c, {v} \cap Versions, {v} \cap Versions)
     /\ Goto(r, "commit")
     /\ Release(r)
     /\ UNCHANGED <<rows, tx, inserted, opener, version, failures, current, applied>>

ActivateAnother(r) ==
  LET c == conn[r]
      v == version[r]
  IN /\ Running(r, "activate")
     /\ tx[c] # "aborted"
     /\ v \in Versions \ LockedElsewhere(c)
     /\ Update(c, {v}, {v})
     /\ Goto(r, "commit")
     /\ Release(r)
     /\ UNCHANGED <<rows, tx, inserted, opener, version, failures, current, applied>>

\* The second UPDATE finds its row; the unique index has it wait for an active row
\* that is being updated.
Activate(r) ==
  LET c == conn[r]
      v == version[r]
  IN /\ Running(r, "activate")
     /\ tx[c] # "aborted"
     /\ v \in Versions \ LockedElsewhere(c)
     /\ Undecided(c) \subseteq {v}
     /\ Visible(c) \subseteq {v}
     /\ Update(c, {v}, {v})
     /\ Goto(r, "commit")
     /\ Release(r)
     /\ UNCHANGED <<rows, tx, inserted, opener, version, failures, current, applied>>

\* It finds no row, which the code makes an error.
NotFound(r) ==
  /\ Running(r, "activate")
  /\ tx[conn[r]] # "aborted"
  /\ version[r] \notin Versions
  /\ Goto(r, "rollback")
  /\ Release(r)
  /\ UNCHANGED <<active, rows, sql, version, failures, current, applied>>

\* COMMIT outside a transaction is a warning, and in an aborted one a ROLLBACK.
Commit(r) ==
  LET c == conn[r]
  IN /\ Running(r, "commit")
     /\ IF tx[c] = "open"
        THEN /\ active' = Visible(c)
             /\ rows' = rows \cup inserted[c]
             /\ applied' = applied \cup {opener[c]}
             /\ current' = IF Visible(c) = {} THEN current ELSE CHOOSE v \in Visible(c) : TRUE
        ELSE UNCHANGED <<active, rows, applied, current>>
     /\ Ended(c)
     /\ Goto(r, "insert")
     /\ Release(r)
     /\ UNCHANGED <<version, failures>>

\* ROLLBACK, after which the request rejects.
Rollback(r) ==
  /\ Running(r, "rollback")
  /\ Ended(conn[r])
  /\ Goto(r, "failed")
  /\ Release(r)
  /\ UNCHANGED <<active, rows, version, failures, current, applied>>

\* appendAudit, or the write of another handler, which is then answered.
Insert(u) ==
  LET c == conn[u]
  IN /\ Running(u, "insert")
     /\ tx[c] # "aborted"
     /\ IF tx[c] = "none"
        THEN rows' = rows \cup {u} /\ UNCHANGED inserted
        ELSE inserted' = [inserted EXCEPT ![c] = @ \cup {u}] /\ UNCHANGED rows
     /\ Goto(u, "done")
     /\ Release(u)
     /\ UNCHANGED <<active, tx, locked, view, opener, version, failures, current, applied>>
------------------------------------------------------------------------------
(* Errors *)

\* A faulty variant: the answer does not wait for the audit row.
AfterErrorAnswers(u) ==
  IF pc[u] \in {"deactivate", "activate", "commit"} THEN "rollback"
  ELSE IF pc[u] = "insert" THEN "done" ELSE "failed"

\* Where an error takes its request: inside the try to ROLLBACK, else out.
AfterError(u) ==
  IF pc[u] \in {"deactivate", "activate", "commit"} THEN "rollback" ELSE "failed"

\* What a transaction that has aborted, or the unique index, refuses.
Refused(u) ==
  LET c == conn[u]
  IN \/ tx[c] = "aborted" /\ pc[u] \in {"begin", "deactivate", "activate", "insert"}
     \/ /\ pc[u] = "activate" /\ tx[c] # "aborted"
        /\ version[u] \in Versions \ LockedElsewhere(c)
        /\ Undecided(c) \subseteq {version[u]}
        /\ ~(Visible(c) \subseteq {version[u]})

Refuse(u) ==
  /\ \E s \in Statements : Running(u, s)
  /\ Refused(u)
  /\ Aborted(conn[u])
  /\ Goto(u, AfterError(u))
  /\ Release(u)
  /\ UNCHANGED <<active, rows, version, failures, current, applied>>

\* A statement fails for reasons of its own, a deadlock among them.
StatementFails(u) ==
  /\ \E s \in Statements \ {"rollback"} : Running(u, s)
  /\ Interrupt
  /\ Aborted(conn[u])
  /\ Goto(u, AfterError(u))
  /\ Release(u)
  /\ UNCHANGED <<active, rows, version, current, applied>>

\* A connection is lost with its transaction, and the pool forgets it.
ConnectionLost(u) ==
  /\ \E s \in Statements : Running(u, s)
  /\ Interrupt
  /\ Ended(conn[u])
  /\ closed' = closed \cup {conn[u]}
  /\ conn' = [conn EXCEPT ![u] = NoConn]
  /\ Goto(u, AfterError(u))
  /\ UNCHANGED <<active, rows, idle, version, current, applied>>
------------------------------------------------------------------------------
Next ==
  \/ \E r \in Requests :
       \/ \E v \in Versions \cup {NoVersion} : Activation(r, v)
       \/ Begin(r) \/ Deactivate(r) \/ Activate(r) \/ NotFound(r)
       \/ Commit(r) \/ Rollback(r)
  \/ \E w \in Writers : Write(w)
  \/ \E u \in Users :
       Lend(u) \/ Insert(u) \/ Refuse(u) \/ StatementFails(u) \/ ConnectionLost(u)

Spec == Init /\ [][Next]_vars
------------------------------------------------------------------------------
(* Properties *)

\* No environment ever has two active configurations, whichever connections the
\* statements of racing activations run on.
AtMostOneActive == Cardinality(active) <= 1

\* While every statement runs where it belongs, the activation of a version is
\* atomic: exactly one version is active, the one activated last.
ActivationIsAtomic == ~strayed => active = {current}

\* While every statement runs where it belongs, what was answered took effect: an
\* activation was committed, and the row of any handler is there.
AnsweredTookEffect ==
  ~strayed =>
    \A u \in Users :
      pc[u] = "done" => u \in rows /\ (u \in Requests => u \in applied)

\* While every statement runs where it belongs, no connection keeps a transaction
\* whose request is over, and with it the locks of every version.
NothingHeld ==
  ~strayed =>
    \A c \in Conns :
      tx[c] # "none" => opener[c] \in Requests /\ pc[opener[c]] \in InTransaction

\* While every statement runs where it belongs, the statements of any number of requests
\* take effect as single steps: a request's version becomes the active one, the one asked
\* for and no sooner than all of it is committed, once at most, and its row comes after.
Atomic == INSTANCE AtomicActivation

AtomicUnlessStrayed == [][strayed' \/ Atomic!Next \/ UNCHANGED Atomic!vars]_vars

\* The transaction and its ROLLBACK do what they are there for: once no activation is
\* at work, a version is active, whatever failed.
SomeVersionActive == (\A r \in Requests : pc[r] \notin InTransaction) => active # {}
=============================================================================
