----------------------- MODULE ConfigActivation_proofs -----------------------
(***************************************************************************)
(* Proofs about ConfigActivation, for any number of versions, requests,    *)
(* other handlers, connections and failures.                               *)
(*                                                                         *)
(* LockInv holds whichever connection a statement runs on: row locks keep  *)
(* transactions apart, so however the open ones end there is one active    *)
(* version at most.  OwnInv is about the runs in which every statement     *)
(* runs where it belongs: a transaction then belongs to one request that   *)
(* is still at work in it.                                                 *)
(***************************************************************************)
EXTENDS ConfigActivation, SequenceTheorems, FiniteSetTheorems, TLAPS

\* Updated rows are locked for one transaction.  Two versions are never both
\* active, nor to be so by whatever commits: not in one transaction's view, not in
\* two, and not one in a view and one outside its locks.
LockInv ==
  /\ \A c \in Conns : view[c] \subseteq locked[c] /\ (tx[c] # "open" => locked[c] = {})
  /\ \A c \in Conns : tx[c] # "none" => opener[c] \in Requests
  /\ \A c, d \in Conns : c # d => locked[c] \cap locked[d] = {}
  /\ \A v, w \in active : v = w
  /\ \A c, d \in Conns : \A v \in view[c], w \in view[d] : v = w
  /\ \A c \in Conns : \A v \in view[c], w \in active : v = w \/ w \in locked[c]

\* A transaction belongs to the request that opened it, which is still in it, and
\* on its way to ROLLBACK if it has aborted.  What was committed is in effect.
Owned ==
  /\ \A c \in Conns : tx[c] # "none" => pc[opener[c]] \in InTransaction
  /\ \A c, d \in Conns :
       tx[c] # "none" /\ tx[d] # "none" /\ opener[c] = opener[d] => c = d
  /\ \A c \in Conns : tx[c] = "aborted" => pc[opener[c]] = "rollback"
  /\ \A c \in Conns : tx[c] = "open" /\ pc[opener[c]] = "commit" => view[c] # {}
  /\ active = {current}
  /\ \A r \in Requests : pc[r] = "insert" => r \in applied
  /\ \A u \in Users :
       pc[u] = "done" => u \in rows /\ (u \in Requests => u \in applied)

OwnInv == ~strayed => Owned

IInv == TypeOK /\ LockInv /\ OwnInv
------------------------------------------------------------------------------
(* Types *)

LEMMA InitType == Init => TypeOK
<1> SUFFICES ASSUME Init PROVE TypeOK
  OBVIOUS
<1>1. PICK v \in Versions : active = {v} /\ current = v
  BY DEF Init
<1>2. idle \in Seq(Conns) /\ closed \subseteq Conns
  BY EmptySeq DEF Init
<1>3. /\ conn \in [Users -> Conns \cup {NoConn}]
      /\ tx \in [Conns -> {"none", "open", "aborted"}]
      /\ locked \in [Conns -> SUBSET Versions] /\ view \in [Conns -> SUBSET Versions]
      /\ inserted \in [Conns -> SUBSET Users]
      /\ opener \in [Conns -> Requests \cup {NoUser}]
  BY DEF Init
<1>4. /\ pc \in [Users -> Statements \cup {"new", "done", "failed"}]
      /\ version \in [Users -> Versions \cup {NoVersion}]
  BY DEF Init
<1>. QED
  BY <1>1, <1>2, <1>3, <1>4 DEF Init, TypeOK

\* The connection of a running statement is one of the pool's.
LEMMA RunningType ==
  ASSUME TypeOK, NEW u \in Users, NEW s \in Statements, Running(u, s)
  PROVE  conn[u] \in Conns /\ pc[u] = s /\ strayed' \in BOOLEAN
BY DEF TypeOK, Running

LEMMA ReleaseType ==
  ASSUME TypeOK, NEW u \in Users, conn[u] \in Conns, Release(u)
  PROVE  /\ idle' \in Seq(Conns)
         /\ closed' \subseteq Conns
         /\ conn' \in [Users -> Conns \cup {NoConn}]
BY AppendProperties DEF TypeOK, Release

LEMMA EndedType ==
  ASSUME TypeOK, NEW c \in Conns, Ended(c) \/ Aborted(c)
  PROVE  /\ tx' \in [Conns -> {"none", "open", "aborted"}]
         /\ locked' \in [Conns -> SUBSET Versions]
         /\ view' \in [Conns -> SUBSET Versions]
         /\ inserted' \in [Conns -> SUBSET Users]
         /\ opener' \in [Conns -> Requests \cup {NoUser}]
BY DEF TypeOK, Ended, Aborted, sql

LEMMA AfterErrorType ==
  ASSUME NEW u \in Users
  PROVE  AfterError(u) \in {"rollback", "failed"}
BY DEF AfterError

LEMMA UpdateType ==
  ASSUME TypeOK, NEW c \in Conns, NEW changed \in SUBSET Versions,
         NEW on \in SUBSET Versions, Update(c, changed, on)
  PROVE  /\ active' \subseteq Versions
         /\ locked' \in [Conns -> SUBSET Versions]
         /\ view' \in [Conns -> SUBSET Versions]
BY DEF TypeOK, Update

LEMMA NextType == TypeOK /\ LockInv /\ [Next]_vars => TypeOK'
<1> SUFFICES ASSUME TypeOK, LockInv, [Next]_vars PROVE TypeOK'
  OBVIOUS
<1>. Requests \subseteq Users /\ Writers \subseteq Users
  BY DEF Users
<1>1. ASSUME NEW r \in Requests, NEW v \in Versions \cup {NoVersion}, Activation(r, v)
      PROVE  TypeOK'
  BY <1>1 DEF Activation, Goto, TypeOK, pool, sql, Statements
<1>2. ASSUME NEW w \in Writers, Write(w)
      PROVE  TypeOK'
  BY <1>2 DEF Write, Goto, TypeOK, pool, sql, Statements
<1>3. ASSUME NEW u \in Users, Lend(u)
      PROVE  TypeOK'
  <2>1. idle # <<>> => /\ idle[Len(idle)] \in Conns
                       /\ SubSeq(idle, 1, Len(idle) - 1) \in Seq(Conns)
    BY HeadTailProperties, SubSeqProperties, LenProperties, EmptySeq DEF TypeOK
  <2>2. /\ idle' \in Seq(Conns)
        /\ closed' \subseteq Conns
        /\ conn' \in [Users -> Conns \cup {NoConn}]
    <3>1. CASE idle # <<>>
      <4>1. /\ conn' = [conn EXCEPT ![u] = idle[Len(idle)]]
            /\ idle' = SubSeq(idle, 1, Len(idle) - 1)
            /\ closed' = closed
        BY <1>3, <3>1 DEF Lend
      <4>. QED
        BY <2>1, <3>1, <4>1 DEF TypeOK
    <3>2. CASE idle = <<>>
      <4>1. PICK c \in closed : /\ conn' = [conn EXCEPT ![u] = c]
                               /\ closed' = closed \ {c}
        BY <1>3, <3>2 DEF Lend
      <4>2. idle' = idle
        BY <1>3, <3>2 DEF Lend
      <4>. QED
        BY <4>1, <4>2 DEF TypeOK
    <3>. QED
      BY <3>1, <3>2
  <2>. QED
    BY <1>3, <2>2 DEF Lend, TypeOK, sql
<1>4. ASSUME NEW r \in Requests, Begin(r)
      PROVE  TypeOK'
  <2>1. conn[r] \in Conns /\ strayed' \in BOOLEAN
    BY <1>4, RunningType DEF Begin, Statements
  <2>2. /\ tx' \in [Conns -> {"none", "open", "aborted"}]
        /\ opener' \in [Conns -> Requests \cup {NoUser}]
        /\ pc' \in [Users -> Statements \cup {"new", "done", "failed"}]
    BY <1>4, <2>1 DEF Begin, Goto, TypeOK, Statements, InTransaction
  <2>3. Release(r)
    BY <1>4 DEF Begin
  <2>. QED
    BY <1>4, <2>1, <2>2, <2>3, ReleaseType DEF Begin, TypeOK
<1>5. ASSUME NEW r \in Requests, Deactivate(r)
      PROVE  TypeOK'
  <2>1. conn[r] \in Conns /\ strayed' \in BOOLEAN
    BY <1>5, RunningType DEF Deactivate, Statements, InTransaction
  <2>2. Release(r) /\ Update(conn[r], Versions, {})
    BY <1>5 DEF Deactivate
  <2>5. Versions \in SUBSET Versions /\ {} \in SUBSET Versions
    OBVIOUS
  <2>3. pc' \in [Users -> Statements \cup {"new", "done", "failed"}]
    BY <1>5 DEF Deactivate, Goto, TypeOK, Statements, InTransaction
  <2>4. /\ active' \subseteq Versions
        /\ locked' \in [Conns -> SUBSET Versions]
        /\ view' \in [Conns -> SUBSET Versions]
    BY <2>1, <2>2, <2>5, UpdateType
  <2>. QED
    BY <1>5, <2>1, <2>2, <2>3, <2>4, ReleaseType DEF Deactivate, TypeOK
<1>6. ASSUME NEW r \in Requests, Activate(r)
      PROVE  TypeOK'
  <2>1. conn[r] \in Conns /\ strayed' \in BOOLEAN
    BY <1>6, RunningType DEF Activate, Statements, InTransaction
  <2>2. Release(r) /\ Update(conn[r], {version[r]}, {version[r]})
    BY <1>6 DEF Activate
  <2>3. pc' \in [Users -> Statements \cup {"new", "done", "failed"}]
    BY <1>6 DEF Activate, Goto, TypeOK, Statements, InTransaction
  <2>5. {version[r]} \in SUBSET Versions
    BY <1>6 DEF Activate
  <2>4. /\ active' \subseteq Versions
        /\ locked' \in [Conns -> SUBSET Versions]
        /\ view' \in [Conns -> SUBSET Versions]
    BY <2>1, <2>2, <2>5, UpdateType
  <2>. QED
    BY <1>6, <2>1, <2>2, <2>3, <2>4, ReleaseType DEF Activate, TypeOK
<1>7. ASSUME NEW r \in Requests, NotFound(r)
      PROVE  TypeOK'
  <2>1. conn[r] \in Conns /\ strayed' \in BOOLEAN
    BY <1>7, RunningType DEF NotFound, Statements, InTransaction
  <2>2. Release(r)
    BY <1>7 DEF NotFound
  <2>3. pc' \in [Users -> Statements \cup {"new", "done", "failed"}]
    BY <1>7 DEF NotFound, Goto, TypeOK, Statements, InTransaction
  <2>. QED
    BY <1>7, <2>1, <2>2, <2>3, ReleaseType DEF NotFound, TypeOK, sql
<1>8. ASSUME NEW r \in Requests, Commit(r)
      PROVE  TypeOK'
  <2>1. conn[r] \in Conns /\ strayed' \in BOOLEAN
    BY <1>8, RunningType DEF Commit, Statements, InTransaction
  <2>2. Release(r) /\ Ended(conn[r])
    BY <1>8 DEF Commit
  <2>3. pc' \in [Users -> Statements \cup {"new", "done", "failed"}]
    BY <1>8 DEF Commit, Goto, TypeOK, Statements, InTransaction
  <2>4. Visible(conn[r]) \subseteq Versions /\ inserted[conn[r]] \subseteq Users
    BY <2>1 DEF Visible, TypeOK
  <2>5. active' \subseteq Versions /\ rows' \subseteq Users /\ current' \in Versions
    BY <1>8, <2>4 DEF Commit, TypeOK
  <2>6. applied' \subseteq Requests
    BY <1>8, <2>1 DEF Commit, TypeOK, LockInv
  <2>. QED
    BY <1>8, <2>1, <2>2, <2>3, <2>5, <2>6, ReleaseType, EndedType DEF Commit, TypeOK
<1>9. ASSUME NEW r \in Requests, Rollback(r)
      PROVE  TypeOK'
  <2>1. conn[r] \in Conns /\ strayed' \in BOOLEAN
    BY <1>9, RunningType DEF Rollback, Statements, InTransaction
  <2>2. Release(r) /\ Ended(conn[r])
    BY <1>9 DEF Rollback
  <2>3. pc' \in [Users -> Statements \cup {"new", "done", "failed"}]
    BY <1>9 DEF Rollback, Goto, TypeOK
  <2>. QED
    BY <1>9, <2>1, <2>2, <2>3, ReleaseType, EndedType DEF Rollback, TypeOK
<1>10. ASSUME NEW u \in Users, Insert(u)
       PROVE  TypeOK'
  <2>1. conn[u] \in Conns /\ strayed' \in BOOLEAN
    BY <1>10, RunningType DEF Insert, Statements
  <2>2. Release(u)
    BY <1>10 DEF Insert
  <2>3. pc' \in [Users -> Statements \cup {"new", "done", "failed"}]
    BY <1>10 DEF Insert, Goto, TypeOK
  <2>4. rows' \subseteq Users /\ inserted' \in [Conns -> SUBSET Users]
    BY <1>10 DEF Insert, TypeOK
  <2>. QED
    BY <1>10, <2>1, <2>2, <2>3, <2>4, ReleaseType DEF Insert, TypeOK
<1>11. ASSUME NEW u \in Users, Refuse(u) \/ StatementFails(u)
       PROVE  TypeOK'
  <2>1. conn[u] \in Conns /\ strayed' \in BOOLEAN
    BY <1>11, RunningType DEF Refuse, StatementFails
  <2>2. Release(u) /\ Aborted(conn[u]) /\ Goto(u, AfterError(u)) /\ failures' \in Nat
    BY <1>11 DEF Refuse, StatementFails, Interrupt, TypeOK
  <2>3. pc' \in [Users -> Statements \cup {"new", "done", "failed"}]
    BY <2>2, AfterErrorType DEF Goto, TypeOK, Statements, InTransaction
  <2>4. UNCHANGED <<active, rows, version, current, applied>>
    BY <1>11 DEF Refuse, StatementFails
  <2>. QED
    BY <2>1, <2>2, <2>3, <2>4, ReleaseType, EndedType DEF TypeOK
<1>12. ASSUME NEW u \in Users, ConnectionLost(u)
       PROVE  TypeOK'
  <2>1. conn[u] \in Conns /\ strayed' \in BOOLEAN
    BY <1>12, RunningType DEF ConnectionLost
  <2>2. Ended(conn[u]) /\ Goto(u, AfterError(u)) /\ failures' \in Nat
    BY <1>12 DEF ConnectionLost, Interrupt, TypeOK
  <2>3. pc' \in [Users -> Statements \cup {"new", "done", "failed"}]
    BY <2>2, AfterErrorType DEF Goto, TypeOK, Statements, InTransaction
  <2>4. closed' \subseteq Conns /\ conn' \in [Users -> Conns \cup {NoConn}]
    BY <1>12, <2>1 DEF ConnectionLost, TypeOK
  <2>. QED
    BY <1>12, <2>1, <2>2, <2>3, <2>4, EndedType DEF ConnectionLost, TypeOK
<1>13. CASE UNCHANGED vars
  BY <1>13 DEF vars, pool, sql, TypeOK
<1>. QED
  BY <1>1, <1>2, <1>3, <1>4, <1>5, <1>6, <1>7, <1>8, <1>9, <1>10, <1>11, <1>12, <1>13
  DEF Next
------------------------------------------------------------------------------
(* Locks *)

LEMMA InitLocks == Init => LockInv
BY DEF Init, LockInv

\* Where a transaction ends or aborts without effect, fewer rows are locked.
LEMMA EndedLocks ==
  ASSUME TypeOK, LockInv, NEW c \in Conns, Ended(c) \/ Aborted(c), active' = active
  PROVE  LockInv'
<1>1. /\ \A d \in Conns \ {c} : /\ tx'[d] = tx[d] /\ locked'[d] = locked[d]
                                /\ view'[d] = view[d] /\ opener'[d] = opener[d]
      /\ locked'[c] = {} /\ view'[c] = {}
      /\ tx'[c] # "none" => tx[c] # "none" /\ opener'[c] = opener[c]
      /\ tx'[c] # "open"
  <2>1. CASE Ended(c)
    BY <2>1 DEF Ended, TypeOK
  <2>2. CASE Aborted(c) /\ tx[c] # "none"
    BY <2>2 DEF Aborted, TypeOK
  <2>3. CASE Aborted(c) /\ tx[c] = "none"
    BY <2>3 DEF Aborted, TypeOK, LockInv, sql
  <2>. QED
    BY <2>1, <2>2, <2>3
<1>. QED
  BY <1>1 DEF LockInv

\* Every step keeps LockInv.
LEMMA NextLocks == TypeOK /\ LockInv /\ [Next]_vars => LockInv'
<1> SUFFICES ASSUME TypeOK, LockInv, [Next]_vars PROVE LockInv'
  OBVIOUS
<1>. Requests \subseteq Users /\ Writers \subseteq Users
  BY DEF Users
<1>1. ASSUME UNCHANGED <<active, tx, locked, view, opener>>
      PROVE  LockInv'
  BY <1>1 DEF LockInv
<1>2. ASSUME NEW u \in Users,
             \/ \E v \in Versions \cup {NoVersion} : Activation(u, v)
             \/ Write(u) \/ Lend(u) \/ NotFound(u) \/ Insert(u)
      PROVE  LockInv'
  BY <1>2, <1>1 DEF Activation, Write, Lend, NotFound, Insert, sql
<1>3. ASSUME NEW r \in Requests, Begin(r)
      PROVE  LockInv'
  <2>1. conn[r] \in Conns
    BY <1>3, RunningType DEF Begin, Statements
  <2>2. /\ UNCHANGED <<active, locked, view>>
        /\ \A d \in Conns \ {conn[r]} : tx'[d] = tx[d] /\ opener'[d] = opener[d]
        /\ tx[conn[r]] = "none" => tx'[conn[r]] = "open" /\ opener'[conn[r]] = r
        /\ tx[conn[r]] # "none" => UNCHANGED <<tx, opener>>
    BY <1>3, <2>1 DEF Begin, TypeOK
  <2>. QED
    BY <2>1, <2>2 DEF LockInv
<1>4. ASSUME NEW r \in Requests, Deactivate(r)
      PROVE  LockInv'
  <2> DEFINE c == conn[r]
  <2>1. c \in Conns
    BY <1>4, RunningType DEF Deactivate, Statements, InTransaction
  <2>2. /\ \A d \in Conns \ {c} : locked[d] = {} /\ view[d] = {}
        /\ UNCHANGED <<tx, opener>>
    BY <1>4, <2>1 DEF Deactivate, LockedElsewhere, LockInv
  <2>3. CASE tx[c] = "none"
    <3>1. active' = {} /\ UNCHANGED <<locked, view>>
      BY <1>4, <2>3 DEF Deactivate, Update, TypeOK
    <3>. QED
      BY <2>2, <3>1 DEF LockInv
  <2>4. CASE tx[c] # "none"
    <3>1. /\ active' = active
          /\ locked' = [locked EXCEPT ![c] = @ \cup Versions]
          /\ view' = [view EXCEPT ![c] = (@ \ Versions) \cup {}]
      BY <1>4, <2>4 DEF Deactivate, Update
    <3>2. /\ locked'[c] = Versions /\ view'[c] = {}
          /\ \A d \in Conns \ {c} : locked'[d] = {} /\ view'[d] = {}
      BY <3>1, <2>1, <2>2 DEF TypeOK
    <3>3. tx[c] = "open"
      BY <1>4, <2>1, <2>4 DEF Deactivate, TypeOK
    <3>. QED
      BY <3>1, <3>2, <3>3, <2>2 DEF LockInv, TypeOK
  <2>. QED
    BY <2>3, <2>4
<1>5. ASSUME NEW r \in Requests, Activate(r)
      PROVE  LockInv'
  <2> DEFINE c == conn[r]
             v == version[r]
  <2>1. c \in Conns /\ v \in Versions
    BY <1>5, RunningType DEF Activate, Statements, InTransaction
  <2>2. /\ \A d \in Conns \ {c} : v \notin locked[d]
        /\ UNCHANGED <<tx, opener>>
        /\ (active \ locked[c]) \cup view[c] \subseteq {v}
    BY <1>5 DEF Activate, LockedElsewhere, Visible
  <2>3. \A d \in Conns \ {c} : view[d] = {}
    <3>1. SUFFICES ASSUME NEW d \in Conns \ {c}, NEW w \in view[d]
                   PROVE  FALSE
      OBVIOUS
    <3>2. w \in locked[d]
      BY DEF LockInv
    <3>3. w \in Undecided(c)
      BY <3>2 DEF Undecided, LockedElsewhere
    <3>4. w = v
      BY <3>3, <1>5 DEF Activate
    <3>. QED
      BY <3>2, <3>4, <2>2
  <2>4. CASE tx[c] = "none"
    <3>1. active' = {v} /\ UNCHANGED <<locked, view>>
      BY <1>5, <2>1, <2>2, <2>4 DEF Activate, Update, LockInv
    <3>2. view[c] = {}
      BY <2>1, <2>4 DEF LockInv
    <3>. QED
      BY <2>2, <2>3, <3>1, <3>2 DEF LockInv
  <2>5. CASE tx[c] # "none"
    <3>1. /\ active' = active
          /\ locked' = [locked EXCEPT ![c] = @ \cup {v}]
          /\ view' = [view EXCEPT ![c] = (@ \ {v}) \cup {v}]
      BY <1>5, <2>5 DEF Activate, Update
    <3>2. /\ locked'[c] = locked[c] \cup {v} /\ view'[c] = {v}
          /\ \A d \in Conns \ {c} : locked'[d] = locked[d] /\ view'[d] = {}
      BY <3>1, <2>1, <2>2, <2>3 DEF TypeOK
    <3>3. tx[c] = "open"
      BY <1>5, <2>1, <2>5 DEF Activate, TypeOK
    <3>. QED
      BY <3>1, <3>2, <3>3, <2>2 DEF LockInv
  <2>. QED
    BY <2>4, <2>5
<1>6. ASSUME NEW r \in Requests, Commit(r)
      PROVE  LockInv'
  <2> DEFINE c == conn[r]
  <2>1. c \in Conns /\ Ended(c)
    BY <1>6, RunningType DEF Commit, Statements, InTransaction
  <2>2. CASE tx[c] # "open"
    BY <1>6, <2>1, <2>2, EndedLocks DEF Commit
  <2>3. CASE tx[c] = "open"
    <3>1. active' = (active \ locked[c]) \cup view[c]
      BY <1>6, <2>3 DEF Commit, Visible
    <3>2. /\ tx'[c] = "none" /\ locked'[c] = {} /\ view'[c] = {}
          /\ \A d \in Conns \ {c} : /\ tx'[d] = tx[d] /\ locked'[d] = locked[d]
                                    /\ view'[d] = view[d] /\ opener'[d] = opener[d]
      BY <2>1 DEF Ended, TypeOK
    <3>3. \A v, w \in active' : v = w
      BY <3>1, <2>1 DEF LockInv
    <3>4. \A d \in Conns \ {c} : \A v \in view[d], w \in active' : v = w \/ w \in locked[d]
      BY <3>1, <2>1 DEF LockInv
    <3>. QED
      BY <3>2, <3>3, <3>4 DEF LockInv
  <2>. QED
    BY <2>2, <2>3
<1>7. ASSUME NEW u \in Users,
             Rollback(u) \/ Refuse(u) \/ StatementFails(u) \/ ConnectionLost(u)
      PROVE  LockInv'
  <2>1. conn[u] \in Conns
    BY <1>7, RunningType
       DEF Rollback, Refuse, StatementFails, ConnectionLost, Statements, InTransaction
  <2>2. active' = active /\ (Ended(conn[u]) \/ Aborted(conn[u]))
    BY <1>7 DEF Rollback, Refuse, StatementFails, ConnectionLost
  <2>. QED
    BY <2>1, <2>2, EndedLocks
<1>8. CASE UNCHANGED vars
  BY <1>8, <1>1 DEF vars, sql
<1>. QED
  BY <1>2, <1>3, <1>4, <1>5, <1>6, <1>7, <1>8 DEF Next
------------------------------------------------------------------------------
(* Transactions and their requests *)

LEMMA InitOwn == Init => OwnInv
BY DEF Init, OwnInv, Owned, Users

\* A statement that has not strayed runs in the transaction of its request, or
\* outside any if it is BEGIN or comes after COMMIT.
LEMMA AtHome ==
  ASSUME TypeOK, OwnInv, NEW u \in Users, NEW s \in Statements, Running(u, s), ~strayed'
  PROVE  /\ ~strayed /\ Owned
         /\ s \in InTransaction => tx[conn[u]] # "none" /\ opener[conn[u]] = u
         /\ s \notin InTransaction => tx[conn[u]] = "none"
<1>1. conn[u] \in Conns /\ pc[u] = s
  BY RunningType
<1>2. ~strayed /\ ~Strays(u)
  BY DEF Running
<1>3. Owned
  BY <1>2 DEF OwnInv
<1>4. tx[conn[u]] = "none" => s \notin InTransaction
  BY <1>1, <1>2 DEF Strays
<1>5. tx[conn[u]] # "none" => opener[conn[u]] = u
  BY <1>2 DEF Strays
<1>6. tx[conn[u]] # "none" => s \in InTransaction
  BY <1>1, <1>3, <1>5 DEF Owned
<1>. QED
  BY <1>2, <1>3, <1>4, <1>5, <1>6

\* The steps at which the transaction of a request ends without effect.
LEMMA EndedOwn ==
  ASSUME TypeOK, LockInv, Owned, NEW u \in Users, NEW c \in Conns, Ended(c),
         NEW s \in {"rollback", "failed"}, Goto(u, s),
         tx[c] # "none" => opener[c] = u,
         pc[u] \in InTransaction => tx[c] # "none",
         UNCHANGED <<active, rows, current, applied>>
  PROVE  Owned'
<1>1. /\ tx'[c] = "none"
      /\ \A d \in Conns \ {c} : /\ tx'[d] = tx[d] /\ opener'[d] = opener[d]
                                /\ view'[d] = view[d]
      /\ pc'[u] = s /\ \A q \in Users \ {u} : pc'[q] = pc[q]
  BY DEF Ended, Goto, TypeOK
<1>2. \A d \in Conns \ {c} : tx[d] # "none" => opener[d] # u
  BY DEF Owned
<1>3. \A d \in Conns : tx'[d] # "none" =>
        /\ d # c /\ tx'[d] = tx[d] /\ opener'[d] = opener[d] /\ view'[d] = view[d]
        /\ pc'[opener'[d]] = pc[opener[d]]
  BY <1>1, <1>2 DEF LockInv, Users
<1>. QED
  BY <1>1, <1>3 DEF Owned, Users

\* Every step keeps OwnInv.
LEMMA NextOwn == TypeOK /\ LockInv /\ OwnInv /\ [Next]_vars => OwnInv'
<1> SUFFICES ASSUME TypeOK, LockInv, OwnInv, [Next]_vars, ~strayed' PROVE Owned'
  BY DEF OwnInv
<1>. Requests \subseteq Users /\ Writers \subseteq Users
  BY DEF Users
<1>1. ASSUME NEW u \in Users,
             \/ u \in Requests /\ \E v \in Versions \cup {NoVersion} : Activation(u, v)
             \/ u \in Writers /\ Write(u)
      PROVE  Owned'
  <2>1. /\ UNCHANGED <<active, rows, tx, view, opener, current, applied, strayed>>
        /\ pc[u] = "new" /\ pc'[u] \in {"begin", "insert"}
        /\ pc'[u] = "insert" => u \in Writers
        /\ \A q \in Users \ {u} : pc'[q] = pc[q]
    BY <1>1 DEF Activation, Write, Goto, TypeOK, sql
  <2>. QED
    BY <2>1, ActivationAssumption DEF OwnInv, Owned, LockInv, Users, InTransaction
<1>2. ASSUME NEW u \in Users, Lend(u)
      PROVE  Owned'
  BY <1>2 DEF Lend, sql, OwnInv, Owned
<1>3. ASSUME NEW r \in Requests, Begin(r)
      PROVE  Owned'
  <2> DEFINE c == conn[r]
  <2>1. c \in Conns /\ pc[r] = "begin"
    BY <1>3, RunningType DEF Begin, Statements
  <2>2. tx[c] = "none" /\ Owned
    BY <1>3, AtHome DEF Begin, Statements, InTransaction
  <2>3. \A d \in Conns : tx[d] # "none" => opener[d] # r
    BY <2>1, <2>2 DEF Owned, InTransaction
  <2>4. /\ tx'[c] = "open" /\ opener'[c] = r
        /\ \A d \in Conns \ {c} : tx'[d] = tx[d] /\ opener'[d] = opener[d]
        /\ pc'[r] = "deactivate" /\ \A q \in Users \ {r} : pc'[q] = pc[q]
        /\ UNCHANGED <<active, rows, view, current, applied>>
    BY <1>3, <2>1, <2>2 DEF Begin, Goto, TypeOK
  <2>. QED
    BY <2>1, <2>2, <2>3, <2>4 DEF Owned, LockInv, InTransaction
<1>4. ASSUME NEW r \in Requests, Deactivate(r)
      PROVE  Owned'
  <2> DEFINE c == conn[r]
  <2>1. c \in Conns /\ pc[r] = "deactivate"
    BY <1>4, RunningType DEF Deactivate, Statements, InTransaction
  <2>2. tx[c] # "none" /\ opener[c] = r /\ Owned
    BY <1>4, AtHome DEF Deactivate, Statements, InTransaction
  <2>3. /\ UNCHANGED <<active, rows, tx, opener, current, applied>>
        /\ \A d \in Conns \ {c} : view'[d] = view[d]
        /\ pc'[r] = "activate" /\ \A q \in Users \ {r} : pc'[q] = pc[q]
        /\ tx[c] # "aborted"
    BY <1>4, <2>1, <2>2 DEF Deactivate, Update, Goto, TypeOK
  <2>. QED
    BY <2>1, <2>2, <2>3 DEF Owned, LockInv, InTransaction
<1>5. ASSUME NEW r \in Requests, Activate(r)
      PROVE  Owned'
  <2> DEFINE c == conn[r]
  <2>1. c \in Conns /\ pc[r] = "activate"
    BY <1>5, RunningType DEF Activate, Statements, InTransaction
  <2>2. tx[c] # "none" /\ opener[c] = r /\ Owned
    BY <1>5, AtHome DEF Activate, Statements, InTransaction
  <2>3. view'[c] # {}
    <3>1. view' = [view EXCEPT ![c] = (@ \ {version[r]}) \cup {version[r]}]
      BY <1>5, <2>2 DEF Activate, Update
    <3>2. view'[c] = (view[c] \ {version[r]}) \cup {version[r]}
      BY <2>1, <3>1 DEF TypeOK
    <3>. QED
      BY <3>2
  <2>4. /\ UNCHANGED <<active, rows, tx, opener, current, applied>>
        /\ \A d \in Conns \ {c} : view'[d] = view[d]
        /\ pc'[r] = "commit" /\ \A q \in Users \ {r} : pc'[q] = pc[q]
        /\ tx[c] # "aborted"
    BY <1>5, <2>1, <2>2 DEF Activate, Update, Goto, TypeOK
  <2>. QED
    BY <2>1, <2>2, <2>3, <2>4 DEF Owned, LockInv, InTransaction
<1>6. ASSUME NEW r \in Requests, NotFound(r)
      PROVE  Owned'
  <2>1. pc[r] = "activate" /\ Owned
    BY <1>6, AtHome, RunningType DEF NotFound, Statements, InTransaction
  <2>2. /\ UNCHANGED <<active, rows, tx, view, opener, current, applied>>
        /\ pc'[r] = "rollback" /\ \A q \in Users \ {r} : pc'[q] = pc[q]
    BY <1>6 DEF NotFound, Goto, TypeOK, sql
  <2>. QED
    BY <2>1, <2>2 DEF Owned, LockInv, InTransaction
<1>7. ASSUME NEW r \in Requests, Commit(r)
      PROVE  Owned'
  <2> DEFINE c == conn[r]
  <2>1. c \in Conns /\ pc[r] = "commit"
    BY <1>7, RunningType DEF Commit, Statements, InTransaction
  <2>2. tx[c] # "none" /\ opener[c] = r /\ Owned
    BY <1>7, AtHome DEF Commit, Statements, InTransaction
  <2>3. tx[c] = "open" /\ view[c] # {}
    BY <2>1, <2>2 DEF Owned, TypeOK
  <2>4. PICK v \in view[c] : TRUE
    BY <2>3
  <2>5. Visible(c) = {v}
    BY <2>1, <2>4 DEF Visible, LockInv
  <2>6. active' = {v} /\ current' = v
    BY <1>7, <2>3, <2>5 DEF Commit
  <2>7. /\ applied' = applied \cup {r} /\ rows \subseteq rows'
        /\ pc'[r] = "insert" /\ \A q \in Users \ {r} : pc'[q] = pc[q]
    BY <1>7, <2>2, <2>3 DEF Commit, Goto, TypeOK
  <2>8. /\ tx'[c] = "none"
        /\ \A d \in Conns \ {c} : /\ tx'[d] = tx[d] /\ opener'[d] = opener[d]
                                  /\ view'[d] = view[d]
    BY <1>7, <2>1 DEF Commit, Ended, TypeOK
  <2>9. \A d \in Conns : tx'[d] # "none" =>
          /\ d # c /\ opener[d] # r /\ pc'[opener'[d]] = pc[opener[d]]
    BY <2>1, <2>2, <2>7, <2>8 DEF Owned, LockInv
  <2>. QED
    BY <2>2, <2>6, <2>7, <2>8, <2>9 DEF Owned
<1>8. ASSUME NEW r \in Requests, Rollback(r)
      PROVE  Owned'
  <2>1. conn[r] \in Conns /\ Ended(conn[r])
    BY <1>8, RunningType DEF Rollback, Statements, InTransaction
  <2>2. tx[conn[r]] # "none" /\ opener[conn[r]] = r /\ Owned
    BY <1>8, AtHome DEF Rollback, Statements, InTransaction
  <2>3. Goto(r, "failed") /\ UNCHANGED <<active, rows, current, applied>>
    BY <1>8 DEF Rollback
  <2>. QED
    BY <2>1, <2>2, <2>3, EndedOwn
<1>9. ASSUME NEW u \in Users, Insert(u)
      PROVE  Owned'
  <2>1. pc[u] = "insert"
    BY <1>9 DEF Insert, Running
  <2>2. tx[conn[u]] = "none" /\ Owned
    BY <1>9, AtHome DEF Insert, Statements, InTransaction
  <2>3. /\ rows' = rows \cup {u}
        /\ UNCHANGED <<active, tx, view, opener, current, applied>>
        /\ pc'[u] = "done" /\ \A q \in Users \ {u} : pc'[q] = pc[q]
    BY <1>9, <2>2 DEF Insert, Goto, TypeOK
  <2>4. \A d \in Conns : tx[d] # "none" => opener[d] # u
    BY <2>1, <2>2 DEF Owned, InTransaction
  <2>. QED
    BY <2>1, <2>2, <2>3, <2>4 DEF Owned, LockInv
<1>10. ASSUME NEW u \in Users, NEW s \in Statements, Running(u, s),
              Aborted(conn[u]), Goto(u, AfterError(u)), s # "rollback",
              UNCHANGED <<active, rows, current, applied>>
       PROVE  Owned'
  <2> DEFINE c == conn[u]
  <2>1. c \in Conns /\ pc[u] = s
    BY <1>10, RunningType
  <2>2. /\ Owned
        /\ s \in InTransaction => tx[c] # "none" /\ opener[c] = u
        /\ s \notin InTransaction => tx[c] = "none"
    BY <1>10, AtHome
  <2>3. CASE s \in InTransaction
    <3>1. AfterError(u) = "rollback"
      BY <1>10, <2>1, <2>3 DEF AfterError, InTransaction
    <3>2. /\ tx'[c] = "aborted" /\ opener' = opener
          /\ \A d \in Conns \ {c} : tx'[d] = tx[d] /\ view'[d] = view[d]
          /\ pc'[u] = "rollback" /\ \A q \in Users \ {u} : pc'[q] = pc[q]
      BY <1>10, <2>1, <2>2, <2>3, <3>1 DEF Aborted, Goto, TypeOK
    <3>. QED
      BY <1>10, <2>1, <2>2, <2>3, <3>2 DEF Owned, LockInv, InTransaction
  <2>4. CASE s \notin InTransaction
    <3>1. AfterError(u) = "failed" /\ UNCHANGED sql
      BY <1>10, <2>1, <2>2, <2>4 DEF AfterError, InTransaction, Aborted
    <3>2. pc'[u] = "failed" /\ \A q \in Users \ {u} : pc'[q] = pc[q]
      BY <1>10, <3>1 DEF Goto, TypeOK
    <3>3. \A d \in Conns : tx[d] # "none" => opener[d] # u
      BY <2>1, <2>2, <2>4 DEF Owned
    <3>. QED
      BY <1>10, <2>2, <3>1, <3>2, <3>3 DEF Owned, LockInv, sql
  <2>. QED
    BY <2>3, <2>4
<1>11. ASSUME NEW u \in Users, Refuse(u) \/ StatementFails(u)
       PROVE  Owned'
  <2>1. PICK s \in Statements : Running(u, s) /\ s # "rollback"
    BY <1>11 DEF Refuse, Refused, StatementFails, Running, Statements, InTransaction
  <2>2. /\ Aborted(conn[u]) /\ Goto(u, AfterError(u))
        /\ UNCHANGED <<active, rows, current, applied>>
    BY <1>11 DEF Refuse, StatementFails
  <2>. QED
    BY <2>1, <2>2, <1>10
<1>12. ASSUME NEW u \in Users, ConnectionLost(u)
       PROVE  Owned'
  <2>1. PICK s \in Statements : Running(u, s)
    BY <1>12 DEF ConnectionLost
  <2>2. conn[u] \in Conns /\ pc[u] = s
    BY <2>1, RunningType
  <2>3. /\ Owned
        /\ s \in InTransaction => tx[conn[u]] # "none" /\ opener[conn[u]] = u
        /\ s \notin InTransaction => tx[conn[u]] = "none"
    BY <2>1, AtHome
  <2>4. /\ Ended(conn[u]) /\ Goto(u, AfterError(u))
        /\ UNCHANGED <<active, rows, current, applied>>
    BY <1>12 DEF ConnectionLost
  <2>5. AfterError(u) \in {"rollback", "failed"}
    BY AfterErrorType
  <2>6. CASE AfterError(u) = "failed"
    BY <2>2, <2>3, <2>4, <2>6, EndedOwn
  <2>7. CASE AfterError(u) = "rollback"
    BY <2>2, <2>3, <2>4, <2>7, EndedOwn
  <2>. QED
    BY <2>5, <2>6, <2>7
<1>13. CASE UNCHANGED vars
  BY <1>13 DEF vars, sql, OwnInv, Owned
<1>. QED
  BY <1>1, <1>2, <1>3, <1>4, <1>5, <1>6, <1>7, <1>8, <1>9, <1>11, <1>12, <1>13 DEF Next
------------------------------------------------------------------------------
(* The theorems *)

\* IInv is an invariant of the specification.
THEOREM Invariance == Spec => []IInv
<1>1. Init => IInv
  BY InitType, InitLocks, InitOwn DEF IInv
<1>2. IInv /\ [Next]_vars => IInv'
  BY NextType, NextLocks, NextOwn DEF IInv
<1>. QED
  BY <1>1, <1>2, PTL DEF Spec

\* Every variable keeps its type.
THEOREM TypeCorrect == Spec => []TypeOK
<1>1. IInv => TypeOK
  BY DEF IInv
<1>. QED
  BY <1>1, Invariance, PTL

\* Row locks and the unique index keep an environment from ever having two active
\* configurations, on whichever connections the statements of racing activations run.
THEOREM OneActiveVersion == Spec => []AtMostOneActive
<1>1. IInv => AtMostOneActive
  <2> SUFFICES ASSUME IInv PROVE Cardinality(active) <= 1
    BY DEF AtMostOneActive
  <2>1. CASE active = {}
    BY <2>1, FS_EmptySet
  <2>2. CASE active # {}
    <3>1. PICK v \in active : TRUE
      BY <2>2
    <3>2. active = {v}
      BY <3>1 DEF IInv, LockInv
    <3>3. Cardinality({v}) = 1
      BY FS_Singleton
    <3>. QED
      BY <3>2, <3>3
  <2>. QED
    BY <2>1, <2>2
<1>. QED
  BY <1>1, Invariance, PTL

\* If every statement ran where it belongs, the version activated last is active and
\* no other: the two UPDATEs take effect together or not at all.
THEOREM ActivationsAreAtomic == Spec => []ActivationIsAtomic
<1>1. IInv => ActivationIsAtomic
  BY DEF IInv, OwnInv, Owned, ActivationIsAtomic
<1>. QED
  BY <1>1, Invariance, PTL

\* If every statement ran where it belongs, no answer is given of an activation or a
\* row that is not committed.
THEOREM AnswersTookEffect == Spec => []AnsweredTookEffect
<1>1. IInv => AnsweredTookEffect
  BY DEF IInv, OwnInv, Owned, AnsweredTookEffect
<1>. QED
  BY <1>1, Invariance, PTL

\* If every statement ran where it belongs, no transaction outlives its request.
THEOREM TransactionsEnd == Spec => []NothingHeld
<1>1. IInv => NothingHeld
  BY DEF IInv, LockInv, OwnInv, Owned, NothingHeld
<1>. QED
  BY <1>1, Invariance, PTL
------------------------------------------------------------------------------
(* Activations as single steps *)

\* While no statement strayed: what a request has not done yet, and what the transaction
\* of one that is about to commit has made active.
Pending ==
  /\ \A c \in Conns : inserted[c] = {}
  /\ \A u \in Users : pc[u] # "done" => u \notin rows
  /\ \A r \in Requests : pc[r] \in {"new", "begin"} \cup InTransaction => r \notin applied
  /\ \A r \in Requests : pc[r] = "new" => version[r] = NoVersion
  /\ \A c \in Conns :
       tx[c] = "open" /\ pc[opener[c]] = "commit" =>
         version[opener[c]] \in Versions /\ view[c] = {version[opener[c]]}

PendingInv == ~strayed => Pending

LEMMA InitPending == Init => PendingInv
BY DEF Init, PendingInv, Pending, Users

\* Steps that commit nothing, and take no request into a transaction, to COMMIT or back.
LEMMA PendingStays ==
  ASSUME TypeOK, LockInv, Owned, Pending, NEW u \in Users, NEW s, Goto(u, s),
         s \in {"begin", "deactivate", "activate", "rollback"} =>
           pc[u] \in {"new", "begin"} \cup InTransaction,
         s \notin {"new", "commit", "done"}, pc[u] # "done",
         \A c \in Conns : inserted'[c] = {},
         \A c \in Conns : tx'[c] = "open" /\ opener'[c] # u =>
                            tx[c] = "open" /\ opener'[c] = opener[c] /\ view'[c] = view[c],
         \A c \in Conns : tx'[c] = "open" => opener'[c] \in Requests,
         \A r \in Requests \ {u} : version'[r] = version[r],
         UNCHANGED <<rows, applied>>
  PROVE  Pending'
<1>1. pc'[u] = s /\ \A q \in Users \ {u} : pc'[q] = pc[q]
  BY DEF Goto, TypeOK
<1>. QED
  BY <1>1 DEF Pending, Users, InTransaction

\* COMMIT of a transaction that no statement strayed from.
LEMMA CommitsAsked ==
  ASSUME TypeOK, LockInv, OwnInv, PendingInv, NEW r \in Requests, Commit(r), ~strayed'
  PROVE  /\ r \notin applied /\ version[r] \in Versions
         /\ active' = {version[r]} /\ applied' = applied \cup {r}
         /\ UNCHANGED <<version, rows>>
<1>. Requests \subseteq Users
  BY DEF Users
<1> DEFINE c == conn[r]
<1>1. c \in Conns /\ pc[r] = "commit"
  BY RunningType DEF Commit, Statements, InTransaction
<1>2. ~strayed /\ tx[c] # "none" /\ opener[c] = r /\ Owned
  BY AtHome DEF Commit, Statements, InTransaction
<1>3. tx[c] = "open" /\ Pending
  BY <1>1, <1>2 DEF Owned, PendingInv, TypeOK
<1>4. version[r] \in Versions /\ view[c] = {version[r]} /\ inserted[c] = {}
  BY <1>1, <1>2, <1>3 DEF Pending
<1>5. Visible(c) = {version[r]}
  BY <1>1, <1>4 DEF Visible, LockInv
<1>6. r \notin applied
  BY <1>1, <1>3 DEF Pending, InTransaction
<1>. QED
  BY <1>2, <1>3, <1>4, <1>5, <1>6 DEF Commit

LEMMA NextPending == TypeOK /\ LockInv /\ OwnInv /\ PendingInv /\ [Next]_vars => PendingInv'
<1> SUFFICES ASSUME TypeOK, LockInv, OwnInv, PendingInv, [Next]_vars, ~strayed'
             PROVE  Pending'
  BY DEF PendingInv
<1>. Requests \subseteq Users /\ Writers \subseteq Users
  BY DEF Users
<1>1. ASSUME NEW r \in Requests, NEW v \in Versions \cup {NoVersion}, Activation(r, v)
      PROVE  Pending'
  <2>1. ~strayed /\ Owned /\ Pending
    BY <1>1 DEF Activation, OwnInv, PendingInv
  <2>2. /\ UNCHANGED <<tx, view, opener, inserted, rows, applied>>
        /\ pc[r] = "new" /\ Goto(r, "begin")
        /\ \A q \in Requests \ {r} : version'[q] = version[q]
    BY <1>1 DEF Activation, sql, TypeOK
  <2>. QED
    BY <2>1, <2>2, PendingStays DEF LockInv, Pending
<1>2. ASSUME NEW w \in Writers, Write(w)
      PROVE  Pending'
  <2>1. ~strayed /\ Owned /\ Pending
    BY <1>2 DEF Write, OwnInv, PendingInv
  <2>2. /\ UNCHANGED <<tx, view, opener, inserted, rows, applied, version>>
        /\ pc[w] = "new" /\ Goto(w, "insert")
    BY <1>2 DEF Write, sql
  <2>. QED
    BY <2>1, <2>2, PendingStays DEF LockInv, Pending
<1>3. ASSUME NEW u \in Users, Lend(u)
      PROVE  Pending'
  BY <1>3 DEF Lend, sql, PendingInv, Pending
<1>4. ASSUME NEW r \in Requests, Begin(r)
      PROVE  Pending'
  <2> DEFINE c == conn[r]
  <2>1. c \in Conns /\ pc[r] = "begin"
    BY <1>4, RunningType DEF Begin, Statements
  <2>2. ~strayed /\ tx[c] = "none" /\ Owned /\ Pending
    BY <1>4, AtHome DEF Begin, Statements, InTransaction, PendingInv
  <2>3. /\ tx'[c] = "open" /\ opener'[c] = r
        /\ \A d \in Conns \ {c} : tx'[d] = tx[d] /\ opener'[d] = opener[d]
        /\ Goto(r, "deactivate")
        /\ UNCHANGED <<view, inserted, rows, applied, version>>
    BY <1>4, <2>1, <2>2 DEF Begin, TypeOK
  <2>. QED
    BY <2>1, <2>2, <2>3, PendingStays DEF LockInv, Pending
<1>5. ASSUME NEW r \in Requests, Deactivate(r)
      PROVE  Pending'
  <2> DEFINE c == conn[r]
  <2>1. c \in Conns /\ pc[r] = "deactivate"
    BY <1>5, RunningType DEF Deactivate, Statements, InTransaction
  <2>2. ~strayed /\ tx[c] # "none" /\ opener[c] = r /\ Owned /\ Pending
    BY <1>5, AtHome DEF Deactivate, Statements, InTransaction, PendingInv
  <2>3. /\ \A d \in Conns \ {c} : view'[d] = view[d]
        /\ Goto(r, "activate")
        /\ UNCHANGED <<tx, opener, inserted, rows, applied, version>>
    BY <1>5, <2>1, <2>2 DEF Deactivate, Update, TypeOK
  <2>. QED
    BY <2>1, <2>2, <2>3, PendingStays DEF LockInv, Pending, InTransaction
<1>6. ASSUME NEW r \in Requests, Activate(r)
      PROVE  Pending'
  <2> DEFINE c == conn[r]
             v == version[r]
  <2>1. c \in Conns /\ pc[r] = "activate"
    BY <1>6, RunningType DEF Activate, Statements, InTransaction
  <2>2. ~strayed /\ tx[c] # "none" /\ opener[c] = r /\ Owned /\ Pending
    BY <1>6, AtHome DEF Activate, Statements, InTransaction, PendingInv
  <2>3. v \in Versions /\ view[c] \subseteq {v}
    BY <1>6 DEF Activate, Visible
  <2>4. view'[c] = {v} /\ \A d \in Conns \ {c} : view'[d] = view[d]
    <3>1. view' = [view EXCEPT ![c] = (@ \ {v}) \cup {v}]
      BY <1>6, <2>2 DEF Activate, Update
    <3>2. view'[c] = (view[c] \ {v}) \cup {v}
      BY <2>1, <3>1 DEF TypeOK
    <3>. QED
      BY <2>3, <3>1, <3>2 DEF TypeOK
  <2>5. /\ UNCHANGED <<tx, opener, inserted, rows, applied, version>>
        /\ pc'[r] = "commit" /\ \A q \in Users \ {r} : pc'[q] = pc[q]
    BY <1>6, <2>1, <2>2 DEF Activate, Goto, TypeOK
  <2>6. \A d \in Conns \ {c} : tx[d] # "none" => opener[d] # r
    BY <2>1, <2>2 DEF Owned
  <2>. QED
    BY <2>1, <2>2, <2>3, <2>4, <2>5, <2>6 DEF Pending, LockInv, InTransaction
<1>7. ASSUME NEW r \in Requests, NotFound(r)
      PROVE  Pending'
  <2>1. pc[r] = "activate" /\ ~strayed /\ Owned /\ Pending
    BY <1>7, AtHome, RunningType DEF NotFound, Statements, InTransaction, PendingInv
  <2>2. Goto(r, "rollback") /\ UNCHANGED <<tx, view, opener, inserted, rows, applied, version>>
    BY <1>7 DEF NotFound, sql
  <2>. QED
    BY <2>1, <2>2, PendingStays DEF LockInv, Pending, InTransaction
<1>8. ASSUME NEW r \in Requests, Commit(r)
      PROVE  Pending'
  <2> DEFINE c == conn[r]
  <2>1. c \in Conns /\ pc[r] = "commit"
    BY <1>8, RunningType DEF Commit, Statements, InTransaction
  <2>2. ~strayed /\ tx[c] # "none" /\ opener[c] = r /\ Owned /\ Pending
    BY <1>8, AtHome DEF Commit, Statements, InTransaction, PendingInv
  <2>3. applied' = applied \cup {r} /\ UNCHANGED <<version, rows>>
    BY <1>8, CommitsAsked
  <2>4. pc'[r] = "insert" /\ \A q \in Users \ {r} : pc'[q] = pc[q]
    BY <1>8 DEF Commit, Goto, TypeOK
  <2>5. /\ tx'[c] = "none" /\ inserted'[c] = {}
        /\ \A d \in Conns \ {c} : /\ tx'[d] = tx[d] /\ opener'[d] = opener[d]
                                  /\ view'[d] = view[d] /\ inserted'[d] = inserted[d]
    BY <1>8, <2>1 DEF Commit, Ended, TypeOK
  <2>6. \A d \in Conns \ {c} : tx[d] # "none" => opener[d] # r
    BY <2>1, <2>2 DEF Owned
  <2>. QED
    BY <2>1, <2>2, <2>3, <2>4, <2>5, <2>6 DEF Pending, LockInv, InTransaction
<1>9. ASSUME NEW u \in Users, Insert(u)
      PROVE  Pending'
  <2>1. conn[u] \in Conns /\ pc[u] = "insert"
    BY <1>9, RunningType DEF Insert, Statements
  <2>2. ~strayed /\ tx[conn[u]] = "none" /\ Owned /\ Pending
    BY <1>9, AtHome DEF Insert, Statements, InTransaction, PendingInv
  <2>3. /\ rows' = rows \cup {u}
        /\ UNCHANGED <<tx, view, opener, inserted, applied, version>>
        /\ pc'[u] = "done" /\ \A q \in Users \ {u} : pc'[q] = pc[q]
    BY <1>9, <2>2 DEF Insert, Goto, TypeOK
  <2>4. \A d \in Conns : tx[d] # "none" => opener[d] # u
    BY <2>1, <2>2 DEF Owned, InTransaction
  <2>. QED
    BY <2>1, <2>2, <2>3, <2>4 DEF Pending, LockInv, InTransaction
<1>10. ASSUME NEW u \in Users, Rollback(u) \/ Refuse(u) \/ StatementFails(u) \/ ConnectionLost(u)
       PROVE  Pending'
  <2>1. PICK s \in Statements : Running(u, s)
    BY <1>10 DEF Rollback, Refuse, StatementFails, ConnectionLost, Statements, InTransaction
  <2>2. conn[u] \in Conns /\ pc[u] = s
    BY <2>1, RunningType
  <2>3. ~strayed /\ Owned /\ Pending
    BY <2>1, AtHome DEF PendingInv
  <2>4. (Ended(conn[u]) \/ Aborted(conn[u])) /\ UNCHANGED <<rows, applied, version>>
    BY <1>10 DEF Rollback, Refuse, StatementFails, ConnectionLost
  <2>5. PICK t \in {"rollback", "failed"} :
          Goto(u, t) /\ (t = "rollback" => s \in InTransaction)
    <3>1. CASE Rollback(u)
      BY <3>1 DEF Rollback
    <3>2. CASE Refuse(u) \/ StatementFails(u) \/ ConnectionLost(u)
      BY <2>2, <3>2 DEF Refuse, StatementFails, ConnectionLost, AfterError, InTransaction
    <3>. QED
      BY <1>10, <3>1, <3>2
  <2>6. \A d \in Conns : inserted'[d] = {}
    BY <2>2, <2>3, <2>4 DEF Ended, Aborted, sql, Pending, TypeOK
  <2>7. \A d \in Conns : tx'[d] = "open" =>
          tx[d] = "open" /\ opener'[d] = opener[d] /\ view'[d] = view[d]
    BY <2>2, <2>4 DEF Ended, Aborted, sql, TypeOK
  <2>8. \A d \in Conns : tx'[d] = "open" => opener'[d] \in Requests
    BY <2>7 DEF LockInv
  <2>9. pc[u] # "done"
    BY <2>2 DEF Statements, InTransaction
  <2>. QED
    BY <2>2, <2>3, <2>4, <2>5, <2>6, <2>7, <2>8, <2>9, PendingStays
<1>11. CASE UNCHANGED vars
  BY <1>11 DEF vars, sql, PendingInv, Pending
<1>. QED
  BY <1>1, <1>2, <1>3, <1>4, <1>5, <1>6, <1>7, <1>8, <1>9, <1>10, <1>11 DEF Next

\* For any number of requests, other handlers, connections and failures: a step is one of
\* the atomic activation, or changes nothing of it, unless a statement has strayed.
THEOREM ActivationsAreSteps == Spec => AtomicUnlessStrayed
<1>1. Init => PendingInv
  BY InitPending
<1>2. IInv /\ PendingInv /\ [Next]_vars => PendingInv'
  BY NextPending DEF IInv
<1>3. IInv /\ PendingInv /\ [Next]_vars =>
        [strayed' \/ Atomic!Next \/ UNCHANGED Atomic!vars]_vars
  <2> SUFFICES ASSUME TypeOK, LockInv, OwnInv, PendingInv, Next, ~strayed'
               PROVE  Atomic!Next \/ UNCHANGED Atomic!vars
    BY DEF IInv
  <2>. Requests \subseteq Users /\ Writers \subseteq Users /\ Users = Requests \cup Writers
    BY DEF Users
  <2>1. ASSUME NEW r \in Requests, NEW v \in Versions \cup {NoVersion}, Activation(r, v)
        PROVE  Atomic!Next
    <3>1. Atomic!Ask(r, v)
      BY <2>1 DEF Activation, Atomic!Ask, PendingInv, Pending
    <3>. QED
      BY <3>1 DEF Atomic!Next
  <2>2. ASSUME NEW r \in Requests, Commit(r)
        PROVE  Atomic!Next
    <3>1. Atomic!Activate(r)
      BY <2>2, CommitsAsked DEF Atomic!Activate
    <3>. QED
      BY <3>1 DEF Atomic!Next
  <2>3. ASSUME NEW u \in Users, Insert(u)
        PROVE  Atomic!Next
    <3>1. /\ ~strayed /\ tx[conn[u]] = "none" /\ Owned /\ Pending /\ pc[u] = "insert"
      BY <2>3, AtHome DEF Insert, Statements, InTransaction, PendingInv, Running
    <3>2. rows' = rows \cup {u} /\ UNCHANGED <<active, version, applied>>
      BY <2>3, <3>1 DEF Insert
    <3>3. u \notin rows /\ (u \in Requests => u \in applied)
      BY <3>1 DEF Owned, Pending
    <3>4. Atomic!Record(u)
      BY <3>2, <3>3 DEF Atomic!Record
    <3>. QED
      BY <3>4 DEF Atomic!Next
  <2>4. ASSUME NEW r \in Requests, Deactivate(r) \/ Activate(r)
        PROVE  UNCHANGED Atomic!vars
    <3>1. tx[conn[r]] # "none"
      BY <2>4, AtHome DEF Deactivate, Activate, Statements, InTransaction
    <3>. QED
      BY <2>4, <3>1 DEF Deactivate, Activate, Update, Atomic!vars
  <2>5. ASSUME NEW u \in Users,
               \/ u \in Requests /\ (Begin(u) \/ NotFound(u) \/ Rollback(u))
               \/ u \in Writers /\ Write(u)
               \/ Lend(u) \/ Refuse(u) \/ StatementFails(u) \/ ConnectionLost(u)
        PROVE  UNCHANGED Atomic!vars
    BY <2>5 DEF Begin, NotFound, Rollback, Write, Lend, Refuse, StatementFails,
                ConnectionLost, Atomic!vars
  <2>. QED
    BY <2>1, <2>2, <2>3, <2>4, <2>5 DEF Next
<1>. QED
  BY <1>1, <1>2, <1>3, Invariance, PTL DEF Spec, AtomicUnlessStrayed
============================================================================
