------------------------ MODULE ChangeControl_proofs ------------------------
(***************************************************************************)
(* Proofs about ChangeControl, for any number of operators, change ids and *)
(* requests in flight, any bound and any environment.                      *)
(*                                                                         *)
(* The argument: a record in the store was written by some request, and a  *)
(* request only ever writes a record it made, or one it read from the      *)
(* store extended by one allowed transition.  So it is enough that every   *)
(* record in the store, with those that a rollback may bring back, AND     *)
(* every record in the hands of a request is sound, whichever save wins.   *)
(* Four further invariants rest on that one: VersionInv (documents and     *)
(* their numbers), AuditInv (which saves have an audit row), ApprovalInv   *)
(* (who approved what a write relies on) and ReadInv (what a write is to   *)
(* the row it was made from).                                              *)
(***************************************************************************)
EXTENDS ChangeControl, SequenceTheorems, FiniteSetTheorems, TLAPS

\* A record whose own history is legal, seen apart from every other record.
Sound(change) ==
  /\ change \in ChangeRequest
  /\ IsPath(change.audit)
  /\ change.audit[Len(change.audit)] = change.state
  /\ environment = "production" =>
       \A i \in 1..Len(change.audit) - 1 :
         change.audit[i + 1] = "APPROVED" => change.audit[i] = "WAITING_APPROVAL"
  /\ environment = "production" => change.approvedBy # change.actorId
  /\ change.state \in approvedMutationStates => change.approvedBy # NoOne
  /\ change.approvedBy # NoOne =>
       \E i \in 1..Len(change.audit) : change.audit[i] = "APPROVED"

StoredSound == \A c \in ChangeIds : \A row \in Rows(c) : Sound(row)

\* An open transaction may be rolled back to no row at all, but has written one.
HeldAreStored == \A c \in ChangeIds : held[c] # {} => changes[c] # NoChange

\* What a request carries from one of its awaits to the next.
LocalsSound ==
  \A r \in Requests :
    /\ pc[r] \in {"saveChange", "auditChange"} =>
         target[r] \in ChangeIds /\ Sound(payload[r])
    /\ pc[r] = "auditApplied" => target[r] \in ChangeIds

IInv == TypeOK /\ StoredSound /\ HeldAreStored /\ LocalsSound
------------------------------------------------------------------------------
\* The helpers of ChangeMachine keep the types.
LEMMA CreateType ==
  ASSUME NEW actor \in Operators, NEW p \in Proposals
  PROVE  create(actor, p) \in ChangeRequest
BY DEF create, ChangeRequest, ChangeState

LEMMA TransitionType ==
  ASSUME NEW change \in ChangeRequest, NEW next \in ChangeState,
         NEW actor \in Operators
  PROVE  /\ transition(change, next, actor) \in ChangeRequest
         /\ transition(change, next, actor).state = next
         /\ transition(change, next, actor).actorId = change.actorId
         /\ transition(change, next, actor).audit = Append(change.audit, next)
         /\ transition(change, next, actor).approvedBy =
              IF next = "APPROVED" THEN actor ELSE change.approvedBy
<1>1. Append(change.audit, next) \in Seq(ChangeState)
  BY AppendProperties DEF ChangeRequest
<1>. QED
  BY <1>1 DEF transition, ChangeRequest

\* No state from which the desired state may be written is entered, except
\* APPROVED itself, but from another such state.
LEMMA ApprovedStatesOnlyFromApproved ==
  ASSUME NEW s \in ChangeState, NEW next \in forward(s),
         next \in approvedMutationStates, next # "APPROVED"
  PROVE  s \in approvedMutationStates
BY DEF forward, approvedMutationStates, ChangeState

\* A new change is sound.
LEMMA CreateSound ==
  ASSUME NEW actor \in Operators, NEW p \in Proposals
  PROVE  Sound(create(actor, p))
<1>1. create(actor, p) \in ChangeRequest
  BY CreateType
<1>2. /\ Len(create(actor, p).audit) = 1
      /\ create(actor, p).audit[1] = "DRAFT"
      /\ create(actor, p).state = "DRAFT"
      /\ create(actor, p).approvedBy = NoOne
      /\ create(actor, p).actorId = actor
  BY DEF create
<1>. QED
  BY <1>1, <1>2, ConstantsAssumption DEF Sound, IsPath, approvedMutationStates

\* An allowed transition of a sound change is sound.
LEMMA TransitionSound ==
  ASSUME NEW change, Sound(change), NEW next \in ChangeState,
         NEW actor \in Operators,
         TransitionAllowed(environment, change, next, actor)
  PROVE  Sound(transition(change, next, actor))
<1> DEFINE new == transition(change, next, actor)
           n   == Len(change.audit)
<1>1. change \in ChangeRequest /\ change.audit \in Seq(ChangeState)
  BY DEF Sound, ChangeRequest
<1>2. /\ new \in ChangeRequest
      /\ new.state = next
      /\ new.actorId = change.actorId
      /\ new.audit = Append(change.audit, next)
      /\ new.approvedBy = IF next = "APPROVED" THEN actor ELSE change.approvedBy
  BY <1>1, TransitionType
<1>3. /\ n \in Nat
      /\ Len(new.audit) = n + 1
      /\ new.audit[n + 1] = next
      /\ \A i \in 1..n : new.audit[i] = change.audit[i]
  BY <1>1, <1>2, AppendProperties, LenProperties
<1>4. /\ n > 0
      /\ change.audit[1] = "DRAFT"
      /\ change.audit[n] = change.state
      /\ change.state \in ChangeState
  BY <1>1 DEF Sound, IsPath, ChangeRequest
<1>5. IsPath(new.audit)
  <2>1. next \in forward(change.audit[n])
    BY <1>4 DEF TransitionAllowed
  <2>2. \A i \in 1..n - 1 : change.audit[i + 1] \in forward(change.audit[i])
    BY DEF Sound, IsPath
  <2>3. \A i \in 1..n : new.audit[i + 1] \in forward(new.audit[i])
    <3>1. TAKE i \in 1..n
    <3>2. CASE i = n
      BY <2>1, <3>2, <1>3, <1>4
    <3>3. CASE i # n
      <4>1. i \in 1..n - 1 /\ i + 1 \in 1..n /\ i \in 1..n
        BY <1>3, <3>3
      <4>. QED
        BY <4>1, <2>2, <1>3
    <3>. QED
      BY <3>2, <3>3
  <2>. QED
    BY <2>3, <1>3, <1>4 DEF IsPath
<1>6. environment = "production" =>
        \A i \in 1..Len(new.audit) - 1 :
          new.audit[i + 1] = "APPROVED" => new.audit[i] = "WAITING_APPROVAL"
  <2>1. HAVE environment = "production"
  <2>2. TAKE i \in 1..Len(new.audit) - 1
  <2>3. HAVE new.audit[i + 1] = "APPROVED"
  <2>4. CASE i = n
    <3>1. /\ next = "APPROVED"
          /\ next \in forward(change.state)
          /\ change.state # "IMPACT_ANALYSIS"
      BY <2>1, <2>3, <2>4, <1>3 DEF TransitionAllowed
    <3>2. change.state = "WAITING_APPROVAL"
      BY <3>1, <1>4 DEF forward, ChangeState
    <3>. QED
      BY <3>2, <2>4, <1>3, <1>4
  <2>5. CASE i # n
    <3>1. i \in 1..n - 1 /\ i + 1 \in 1..n /\ i \in 1..n
      BY <1>3, <2>5
    <3>2. change.audit[i + 1] = "APPROVED"
      BY <2>3, <3>1, <1>3
    <3>3. change.audit[i] = "WAITING_APPROVAL"
      BY <3>1, <3>2, <2>1 DEF Sound
    <3>. QED
      BY <3>1, <3>3, <1>3
  <2>. QED
    BY <2>4, <2>5
<1>7. environment = "production" => new.approvedBy # new.actorId
  BY <1>2 DEF Sound, TransitionAllowed
<1>8. new.state \in approvedMutationStates => new.approvedBy # NoOne
  <2>1. CASE next = "APPROVED"
    BY <2>1, <1>2, ConstantsAssumption
  <2>2. CASE next # "APPROVED"
    BY <2>2, <1>2, <1>4, ApprovedStatesOnlyFromApproved DEF Sound, TransitionAllowed
  <2>. QED
    BY <2>1, <2>2
<1>9. new.approvedBy # NoOne =>
        \E i \in 1..Len(new.audit) : new.audit[i] = "APPROVED"
  <2>1. CASE next = "APPROVED"
    BY <2>1, <1>3, n + 1 \in 1..Len(new.audit)
  <2>2. CASE next # "APPROVED"
    <3>1. HAVE new.approvedBy # NoOne
    <3>2. PICK i \in 1..n : change.audit[i] = "APPROVED"
      BY <3>1, <2>2, <1>2 DEF Sound
    <3>3. i \in 1..Len(new.audit) /\ new.audit[i] = "APPROVED"
      BY <3>2, <1>3
    <3>. QED
      BY <3>3
  <2>. QED
    BY <2>1, <2>2
<1>. QED
  BY <1>2, <1>3, <1>5, <1>6, <1>7, <1>8, <1>9 DEF Sound
------------------------------------------------------------------------------
\* The initial states satisfy the inductive invariant.
LEMMA InitIInv == Init => IInv
<1> SUFFICES ASSUME Init PROVE IInv
  OBVIOUS
<1>1. TypeOK
  BY ConstantsAssumption DEF Init, TypeOK, Step
<1>2. StoredSound /\ HeldAreStored
  BY DEF Init, StoredSound, HeldAreStored, Rows
<1>3. LocalsSound
  BY DEF Init, LocalsSound
<1>. QED
  BY <1>1, <1>2, <1>3 DEF IInv

\* Soundness of a record depends on the environment alone, which never changes.
LEMMA SoundStable ==
  ASSUME NEW change, environment' = environment
  PROVE  Sound(change)' = Sound(change)
BY DEF Sound, IsPath

\* Any row a query may find was there before, or is the one a request saves now.
LEMMA NextRows ==
  ASSUME IInv, [Next]_vars, NEW c \in ChangeIds, NEW row \in Rows(c)'
  PROVE  \/ row \in Rows(c)
         \/ \E r \in Requests : saveChange(r) /\ target[r] = c /\ payload[r] = row
<1>. changes \in [ChangeIds -> ChangeRequest \cup {NoChange}]
     /\ held \in [ChangeIds -> SUBSET (ChangeRequest \cup {NoChange})]
  BY DEF IInv, TypeOK
<1>1. ASSUME NEW r \in Requests, RequestStep(r), ~saveChange(r)
      PROVE  UNCHANGED <<changes, held>>
  BY <1>1 DEF RequestStep, CreateChange, TransitionChange, AuditChange, BeginPutDesired,
              setDesiredState, AuditDesired, AuditApplied, BeginGetDesired, getConfigVersion,
              getDesiredState, Respond, Crash, store, open
<1>2. ASSUME NEW r \in Requests, saveChange(r)
      PROVE  row \in Rows(c) \/ (target[r] = c /\ payload[r] = row)
  <2>1. target[r] \in ChangeIds
    BY <1>2 DEF saveChange, IInv, LocalsSound
  <2>2. changes' = [changes EXCEPT ![target[r]] = payload[r]]
    BY <1>2 DEF saveChange
  <2>3. \/ held' = held
        \/ held' = [held EXCEPT ![target[r]] = {changes[target[r]]}]
    BY <1>2 DEF saveChange
  <2>. QED
    BY <2>1, <2>2, <2>3 DEF Rows
<1>3. ASSUME NEW d \in ChangeIds, CommitRow(d) \/ RollBackRow(d)
      PROVE  row \in Rows(c)
  BY <1>3 DEF CommitRow, RollBackRow, Rows, store
<1>4. ASSUME NEW d \in ChangeIds, NEW s \in ChangeState, EndAudit(d, s)
      PROVE  row \in Rows(c)
  BY <1>4 DEF EndAudit, Rows
<1>5. CASE UNCHANGED vars
  BY <1>5 DEF vars, store, open, Rows
<1>. QED
  BY <1>1, <1>2, <1>3, <1>4, <1>5 DEF Next, Rows

\* So what is stored stays sound.
LEMMA NextStored == IInv /\ [Next]_vars => StoredSound' /\ HeldAreStored'
<1> SUFFICES ASSUME IInv, [Next]_vars PROVE StoredSound' /\ HeldAreStored'
  OBVIOUS
<1>. changes \in [ChangeIds -> ChangeRequest \cup {NoChange}]
     /\ held \in [ChangeIds -> SUBSET (ChangeRequest \cup {NoChange})]
  BY DEF IInv, TypeOK
<1>1. environment' = environment
  BY DEF Next, RequestStep, vars, CreateChange, TransitionChange, saveChange, AuditChange,
         BeginPutDesired, setDesiredState, AuditDesired, AuditApplied, BeginGetDesired,
         getConfigVersion, getDesiredState, Respond, Crash, CommitRow, RollBackRow, EndAudit
<1>2. ASSUME NEW c \in ChangeIds, NEW row \in Rows(c)'
      PROVE  Sound(row)
  <2>1. CASE row \in Rows(c)
    BY <2>1 DEF IInv, StoredSound
  <2>2. ASSUME NEW r \in Requests, saveChange(r), payload[r] = row
        PROVE  Sound(row)
    BY <2>2 DEF saveChange, IInv, LocalsSound
  <2>. QED
    BY <2>1, <2>2, NextRows
<1>3. StoredSound'
  BY <1>1, <1>2, SoundStable DEF StoredSound
<1>4. ASSUME NEW r \in Requests, saveChange(r)
      PROVE  HeldAreStored'
  <2>1. target[r] \in ChangeIds /\ payload[r] # NoChange
    BY <1>4, ConstantsAssumption DEF saveChange, IInv, LocalsSound, Sound
  <2>2. changes' = [changes EXCEPT ![target[r]] = payload[r]]
    BY <1>4 DEF saveChange
  <2>3. \/ held' = held
        \/ held' = [held EXCEPT ![target[r]] = {changes[target[r]]}]
    BY <1>4 DEF saveChange
  <2>. QED
    BY <2>1, <2>2, <2>3 DEF HeldAreStored, IInv
<1>5. ASSUME NEW c \in ChangeIds, CommitRow(c) \/ RollBackRow(c)
      PROVE  HeldAreStored'
  BY <1>5 DEF CommitRow, RollBackRow, HeldAreStored, IInv, store
<1>6. ASSUME UNCHANGED <<changes, held>>
      PROVE  HeldAreStored'
  BY <1>6 DEF HeldAreStored, IInv
<1>7. ASSUME NEW r \in Requests, RequestStep(r), ~saveChange(r)
      PROVE  UNCHANGED <<changes, held>>
  BY <1>7 DEF RequestStep, CreateChange, TransitionChange, AuditChange, BeginPutDesired,
              setDesiredState, AuditDesired, AuditApplied, BeginGetDesired, getConfigVersion,
              getDesiredState, Respond, Crash, store, open
<1>8. ASSUME NEW c \in ChangeIds, NEW s \in ChangeState, EndAudit(c, s)
      PROVE  UNCHANGED <<changes, held>>
  BY <1>8 DEF EndAudit
<1>9. CASE UNCHANGED vars
  <2>1. UNCHANGED <<changes, held>>
    BY <1>9 DEF vars, store, open
  <2>. QED
    BY <1>3, <1>6, <2>1
<1>. QED
  BY <1>3, <1>4, <1>5, <1>6, <1>7, <1>8, <1>9 DEF Next

\* Freeing a slot keeps the locals well typed and sound.
LEMMA ReleaseLocals ==
  ASSUME IInv, NEW r \in Requests, Release(r), environment' = environment
  PROVE  /\ pc' \in [Requests -> Step]
         /\ target' \in [Requests -> ChangeIds \cup {NoId}]
         /\ current' \in [Requests -> ChangeRequest \cup {NoChange}]
         /\ payload' \in [Requests -> ChangeRequest \cup {NoChange}]
         /\ desired' \in [Requests -> DesiredStates \cup {EmptyState}]
         /\ version' \in [Requests -> Nat]
         /\ LocalsSound'
<1>1. /\ pc' \in [Requests -> Step]
      /\ target' \in [Requests -> ChangeIds \cup {NoId}]
      /\ current' \in [Requests -> ChangeRequest \cup {NoChange}]
      /\ payload' \in [Requests -> ChangeRequest \cup {NoChange}]
      /\ desired' \in [Requests -> DesiredStates \cup {EmptyState}]
      /\ version' \in [Requests -> Nat]
  BY DEF IInv, TypeOK, Release, Goto, Step
<1>2. LocalsSound'
  BY SoundStable DEF IInv, TypeOK, LocalsSound, Release, Goto
<1>. QED
  BY <1>1, <1>2

\* Every step keeps the inductive invariant, one action at a time.
LEMMA NextIInv == IInv /\ [Next]_vars => IInv'
<1> SUFFICES ASSUME IInv, [Next]_vars PROVE IInv'
  OBVIOUS
<1> USE DEF IInv
<1>0. StoredSound' /\ HeldAreStored'
  BY NextStored
<1>1. ASSUME NEW r \in Requests, NEW actor \in Operators, NEW c \in ChangeIds,
             NEW p \in Proposals, CreateChange(r, actor, c, p)
      PROVE  IInv'
  <2>1. create(actor, p) \in ChangeRequest /\ Sound(create(actor, p))
    BY CreateType, CreateSound
  <2>2. TypeOK'
    BY <1>1, <2>1 DEF CreateChange, TypeOK, Goto, Step, store, audit, open, ghosts
  <2>3. LocalsSound'
    BY <1>1, <2>1, SoundStable DEF CreateChange, LocalsSound, TypeOK, Goto
  <2>. QED
    BY <1>0, <2>2, <2>3
<1>2. ASSUME NEW r \in Requests, NEW actor \in Operators, NEW c \in ChangeIds,
             NEW next \in ChangeState, TransitionChange(r, actor, c, next)
      PROVE  IInv'
  <2>1. PICK row \in Rows(c) :
          /\ TransitionAllowed(environment, row, next, actor)
          /\ current' = [current EXCEPT ![r] = row]
          /\ payload' = [payload EXCEPT ![r] = transition(row, next, actor)]
    BY <1>2 DEF TransitionChange
  <2>2. Sound(row) /\ Sound(transition(row, next, actor))
    BY <2>1, TransitionSound DEF StoredSound
  <2>3. row \in ChangeRequest /\ transition(row, next, actor) \in ChangeRequest
    BY <2>2 DEF Sound
  <2>4. TypeOK'
    BY <1>2, <2>1, <2>3
       DEF TransitionChange, TypeOK, Goto, Step, store, audit, open, ghosts
  <2>5. LocalsSound'
    BY <1>2, <2>1, <2>2, SoundStable DEF TransitionChange, LocalsSound, TypeOK, Goto
  <2>. QED
    BY <1>0, <2>4, <2>5
<1>3. ASSUME NEW r \in Requests, saveChange(r)
      PROVE  IInv'
  <2>1. target[r] \in ChangeIds /\ Sound(payload[r])
    BY <1>3 DEF saveChange, LocalsSound
  <2>2. /\ payload[r] \in ChangeRequest
        /\ payload[r].state = "APPROVED" => payload[r].approvedBy \in Operators
    BY <2>1 DEF Sound, ChangeRequest, approvedMutationStates
  <2>3. TypeOK'
    <3>1. /\ changes' \in [ChangeIds -> ChangeRequest \cup {NoChange}]
          /\ held' \in [ChangeIds -> SUBSET (ChangeRequest \cup {NoChange})]
          /\ strays' \in Nat
      <4>1. strays \in Nat /\ changes[target[r]] \in ChangeRequest \cup {NoChange}
            /\ changes \in [ChangeIds -> ChangeRequest \cup {NoChange}]
            /\ held \in [ChangeIds -> SUBSET (ChangeRequest \cup {NoChange})]
        BY <2>1 DEF TypeOK
      <4>2. /\ changes' = [changes EXCEPT ![target[r]] = payload[r]]
            /\ \/ UNCHANGED <<held, strays>>
               \/ /\ held' = [held EXCEPT ![target[r]] = {changes[target[r]]}]
                  /\ strays' = strays + 1
        BY <1>3 DEF saveChange, Stray
      <4>3. changes' \in [ChangeIds -> ChangeRequest \cup {NoChange}]
        BY <2>2, <4>1, <4>2
      <4>4. CASE UNCHANGED <<held, strays>>
        BY <4>1, <4>3, <4>4
      <4>5. CASE /\ held' = [held EXCEPT ![target[r]] = {changes[target[r]]}]
                 /\ strays' = strays + 1
        <5> DEFINE old == {changes[target[r]]}
        <5>1. old \in SUBSET (ChangeRequest \cup {NoChange})
          BY <4>1
        <5>2. held' = [held EXCEPT ![target[r]] = old]
          BY <4>5
        <5> HIDE DEF old
        <5>3. held' \in [ChangeIds -> SUBSET (ChangeRequest \cup {NoChange})]
          BY <4>1, <5>1, <5>2
        <5>. QED
          BY <4>1, <4>3, <4>5, <5>3
      <4>. QED
        BY <4>2, <4>4, <4>5
    <3>2. approvals' \in SUBSET [id : ChangeIds, by : Operators]
      BY <1>3, <2>1, <2>2 DEF saveChange, TypeOK
    <3>. QED
      BY <1>3, <3>1, <3>2 DEF saveChange, TypeOK, Goto, Step, audit
  <2>4. LocalsSound'
    BY <1>3, <2>1, SoundStable DEF saveChange, LocalsSound, TypeOK, Goto
  <2>. QED
    BY <1>0, <2>3, <2>4
<1>4. ASSUME NEW r \in Requests, AuditChange(r)
      PROVE  IInv'
  <2>1. target[r] \in ChangeIds /\ payload[r].state \in ChangeState
    BY <1>4 DEF AuditChange, LocalsSound, Sound, ChangeRequest
  <2>2. TypeOK' /\ LocalsSound'
    BY <1>4, <2>1, ReleaseLocals DEF AuditChange, Stray, TypeOK, open, ghosts
  <2>. QED
    BY <1>0, <2>2
<1>5. ASSUME NEW r \in Requests, NEW d \in DesiredStates,
             NEW c \in ChangeIds \cup {NoId}, BeginPutDesired(r, d, c)
      PROVE  IInv'
  <2>1. current' \in [Requests -> ChangeRequest \cup {NoChange}]
    BY <1>5 DEF BeginPutDesired, TypeOK, Rows
  <2>2. TypeOK'
    BY <1>5, <2>1 DEF BeginPutDesired, TypeOK, Goto, Step, store, audit, open, ghosts
  <2>3. LocalsSound'
    BY <1>5, SoundStable DEF BeginPutDesired, LocalsSound, TypeOK, Goto
  <2>. QED
    BY <1>0, <2>2, <2>3
<1>6. ASSUME NEW r \in Requests, setDesiredState(r)
      PROVE  IInv'
  <2>1. TypeOK'
    <3>1. history' \in Seq(DesiredStates \cup {EmptyState})
      BY <1>6, AppendProperties DEF setDesiredState, TypeOK
    <3>. QED
      BY <1>6, <3>1 DEF setDesiredState, TypeOK, Goto, Step, audit, open
  <2>2. LocalsSound'
    BY <1>6, SoundStable DEF setDesiredState, LocalsSound, TypeOK, Goto
  <2>. QED
    BY <1>0, <2>1, <2>2
<1>7. ASSUME NEW r \in Requests, AuditDesired(r)
      PROVE  IInv'
  <2>1. TypeOK'
    BY <1>7 DEF AuditDesired, TypeOK, Goto, Step, open, ghosts
  <2>2. LocalsSound'
    BY <1>7, SoundStable DEF AuditDesired, LocalsSound, TypeOK, Goto
  <2>. QED
    BY <1>0, <2>1, <2>2
<1>8. ASSUME NEW r \in Requests, AuditApplied(r)
      PROVE  IInv'
  <2>1. target[r] \in ChangeIds
    BY <1>8 DEF AuditApplied, LocalsSound
  <2>2. TypeOK'
    BY <1>8, <2>1 DEF AuditApplied, TypeOK, Goto, Step, open, ghosts
  <2>3. LocalsSound'
    BY <1>8, SoundStable DEF AuditApplied, LocalsSound, TypeOK, Goto
  <2>. QED
    BY <1>0, <2>2, <2>3
<1>9. ASSUME NEW r \in Requests,
             BeginGetDesired(r) \/ getConfigVersion(r) \/ getDesiredState(r)
      PROVE  IInv'
  <2>1. TypeOK'
    <3>1. /\ pc' \in [Requests -> Step]
          /\ version' \in [Requests -> Nat]
          /\ desired' \in [Requests -> DesiredStates \cup {EmptyState}]
      <4>1. /\ pc \in [Requests -> Step] /\ version \in [Requests -> Nat]
            /\ desired \in [Requests -> DesiredStates \cup {EmptyState}]
            /\ configVersion \in Nat /\ desiredState \in DesiredStates \cup {EmptyState}
        BY DEF TypeOK
      <4>2. \E s \in Step : pc' = [pc EXCEPT ![r] = s]
        BY <1>9 DEF BeginGetDesired, getConfigVersion, getDesiredState, Goto, Step
      <4>3. version' = version \/ version' = [version EXCEPT ![r] = configVersion]
        BY <1>9 DEF BeginGetDesired, getConfigVersion, getDesiredState
      <4>4. desired' = desired \/ desired' = [desired EXCEPT ![r] = desiredState]
        BY <1>9 DEF BeginGetDesired, getConfigVersion, getDesiredState
      <4>. QED
        BY <4>1, <4>2, <4>3, <4>4
    <3>2. UNCHANGED <<environment, store, target, current, payload, crashes, open, ghosts>>
      BY <1>9 DEF BeginGetDesired, getConfigVersion, getDesiredState
    <3>. QED
      BY <3>1, <3>2 DEF TypeOK, store, audit, open, ghosts
  <2>2. LocalsSound'
    BY <1>9, SoundStable DEF BeginGetDesired, getConfigVersion, getDesiredState,
                             LocalsSound, TypeOK, Goto
  <2>. QED
    BY <1>0, <2>1, <2>2
<1>10. ASSUME NEW r \in Requests, Respond(r) \/ Crash(r)
       PROVE  IInv'
  <2>1. pc[r] = "auditChange" =>
          target[r] \in ChangeIds /\ payload[r].state \in ChangeState
    BY DEF LocalsSound, Sound, ChangeRequest
  <2>2. Release(r) /\ environment' = environment
    BY <1>10 DEF Respond, Crash
  <2>3. /\ pc' \in [Requests -> Step]
        /\ target' \in [Requests -> ChangeIds \cup {NoId}]
        /\ current' \in [Requests -> ChangeRequest \cup {NoChange}]
        /\ payload' \in [Requests -> ChangeRequest \cup {NoChange}]
        /\ desired' \in [Requests -> DesiredStates \cup {EmptyState}]
        /\ version' \in [Requests -> Nat]
        /\ LocalsSound'
    BY <2>2, ReleaseLocals
  <2>4. /\ UNCHANGED <<store, open, approvals, history, undone, reverted>>
        /\ crashes' \in Nat
        /\ lost' \in SUBSET (ChangeIds \X ChangeState)
    BY <1>10, <2>1 DEF Respond, Crash, TypeOK, open, ghosts
  <2>5. TypeOK'
    <3>1. UNCHANGED <<environment, changes, configVersion, desiredState, auditSaved,
                      auditUpdated, auditApplied, held, heldAudit, strays, approvals,
                      history, undone, reverted>>
      BY <2>2, <2>4 DEF store, audit, open
    <3>. QED
      BY <2>3, <2>4, <3>1 DEF TypeOK
  <2>. QED
    BY <1>0, <2>3, <2>5
<1>11. ASSUME NEW c \in ChangeIds, CommitRow(c) \/ RollBackRow(c)
       PROVE  IInv'
  <2>1. TypeOK'
    <3>1. /\ changes' \in [ChangeIds -> ChangeRequest \cup {NoChange}]
          /\ held' \in [ChangeIds -> SUBSET (ChangeRequest \cup {NoChange})]
          /\ reverted' \in SUBSET ChangeIds
      <4>1. CASE CommitRow(c)
        BY <4>1 DEF CommitRow, TypeOK, store, ghosts
      <4>2. CASE RollBackRow(c)
        BY <4>2 DEF RollBackRow, TypeOK
      <4>. QED
        BY <1>11, <4>1, <4>2
    <3>2. UNCHANGED <<environment, configVersion, desiredState, audit, locals, crashes,
                      heldAudit, strays, approvals, history, lost, undone>>
      BY <1>11 DEF CommitRow, RollBackRow, store, ghosts
    <3>. QED
      BY <3>1, <3>2 DEF TypeOK, audit, locals
  <2>2. LocalsSound'
    BY <1>11, SoundStable DEF CommitRow, RollBackRow, LocalsSound, locals
  <2>. QED
    BY <1>0, <2>1, <2>2
<1>12. ASSUME NEW c \in ChangeIds, NEW s \in ChangeState, EndAudit(c, s)
       PROVE  IInv'
  <2>1. TypeOK'
    BY <1>12 DEF EndAudit, TypeOK, locals
  <2>2. LocalsSound'
    BY <1>12, SoundStable DEF EndAudit, LocalsSound, locals
  <2>. QED
    BY <1>0, <2>1, <2>2
<1>13. CASE UNCHANGED vars
  <2>1. TypeOK'
    BY <1>13 DEF vars, store, audit, locals, open, ghosts, TypeOK
  <2>2. LocalsSound'
    BY <1>13, SoundStable DEF vars, locals, LocalsSound
  <2>. QED
    BY <1>0, <2>1, <2>2
<1>. QED
  BY <1>1, <1>2, <1>3, <1>4, <1>5, <1>6, <1>7, <1>8, <1>9, <1>10, <1>11, <1>12, <1>13
     DEF Next, RequestStep

\* IInv is an invariant of the specification.
THEOREM Invariance == Spec => []IInv
BY InitIInv, NextIInv, PTL DEF Spec
------------------------------------------------------------------------------
(* Versions and documents *)

\* The store holds the last document of the history, under its number; a version
\* in the hands of a request is one the store has reached.
VersionsKept ==
  /\ configVersion >= 1
  /\ Len(history) = configVersion
  /\ history[configVersion] = desiredState
  /\ auditUpdated \subseteq 2..configVersion
  /\ \A r \in Requests : pc[r] = "readState" => version[r] \in 1..configVersion
  /\ \A r \in Requests : pc[r] = "respond" => version[r] \in 1..configVersion

VersionInv == VersionsKept /\ ReplyIsNotOlder /\ OneWriterPerVersion

\* A step that leaves the documents and their audit rows alone keeps VersionInv if
\* the request that takes it is not then at an await where VersionInv speaks of it.
LEMMA OtherStepsKeepVersions ==
  ASSUME IInv, VersionInv, NEW r \in Requests, NEW s \in Step,
         s \notin {"auditDesired", "readState", "respond"}, Goto(r, s),
         \A q \in Requests \ {r} : version'[q] = version[q] /\ desired'[q] = desired[q],
         UNCHANGED <<config, auditUpdated>>
  PROVE  VersionInv'
<1>1. /\ pc'[r] = s
      /\ \A q \in Requests \ {r} : pc'[q] = pc[q]
  BY DEF IInv, TypeOK, Goto
<1>2. \A q \in Requests :
        pc'[q] \in {"auditDesired", "readState", "respond"} =>
          /\ q # r
          /\ pc'[q] = pc[q]
          /\ version'[q] = version[q]
          /\ desired'[q] = desired[q]
  BY <1>1
<1>3. VersionsKept'
  BY <1>2 DEF VersionInv, VersionsKept, config
<1>4. ReplyIsNotOlder'
  BY <1>2 DEF VersionInv, ReplyIsNotOlder, config
<1>5. OneWriterPerVersion'
  BY <1>2 DEF VersionInv, OneWriterPerVersion, config
<1>. QED
  BY <1>3, <1>4, <1>5 DEF VersionInv

LEMMA InitVersions == Init => VersionInv
BY DEF Init, VersionInv, VersionsKept, ReplyIsNotOlder, OneWriterPerVersion

\* Every step keeps it.
LEMMA NextVersions == IInv /\ VersionInv /\ [Next]_vars => VersionInv'
<1> SUFFICES ASSUME IInv, VersionInv, [Next]_vars PROVE VersionInv'
  OBVIOUS
<1>. pc \in [Requests -> Step] /\ version \in [Requests -> Nat]
     /\ desired \in [Requests -> DesiredStates \cup {EmptyState}]
     /\ configVersion \in Nat
     /\ history \in Seq(DesiredStates \cup {EmptyState})
  BY DEF IInv, TypeOK
<1>1. ASSUME NEW r \in Requests,
             \/ \E actor \in Operators, c \in ChangeIds, p \in Proposals :
                  CreateChange(r, actor, c, p)
             \/ \E actor \in Operators, c \in ChangeIds, next \in ChangeState :
                  TransitionChange(r, actor, c, next)
             \/ saveChange(r)
             \/ \E d \in DesiredStates, c \in ChangeIds \cup {NoId} :
                  BeginPutDesired(r, d, c)
             \/ AuditApplied(r)
             \/ BeginGetDesired(r)
      PROVE  VersionInv'
  <2>1. PICK s \in {"saveChange", "auditChange", "setDesired", "readVersion"} :
          Goto(r, s)
    BY <1>1 DEF CreateChange, TransitionChange, saveChange, BeginPutDesired,
                AuditApplied, BeginGetDesired
  <2>2. /\ UNCHANGED <<config, auditUpdated>>
        /\ \A q \in Requests \ {r} : version'[q] = version[q] /\ desired'[q] = desired[q]
    BY <1>1 DEF CreateChange, TransitionChange, saveChange, BeginPutDesired,
                AuditApplied, BeginGetDesired, config, store, audit, open, ghosts
  <2>3. s \in Step /\ s \notin {"auditDesired", "readState", "respond"}
    BY DEF Step
  <2>. QED
    BY <2>1, <2>2, <2>3, OtherStepsKeepVersions
<1>2. ASSUME NEW r \in Requests, AuditChange(r) \/ Respond(r) \/ Crash(r)
      PROVE  VersionInv'
  <2>1. /\ Goto(r, "idle")
        /\ UNCHANGED <<config, auditUpdated>>
        /\ \A q \in Requests \ {r} : version'[q] = version[q] /\ desired'[q] = desired[q]
    BY <1>2 DEF AuditChange, Respond, Crash, Release, config, store, audit, open, ghosts
  <2>2. "idle" \in Step
    BY DEF Step
  <2>. QED
    BY <2>1, <2>2, OtherStepsKeepVersions
<1>3. ASSUME NEW r \in Requests, setDesiredState(r)
      PROVE  VersionInv'
  <2> DEFINE n == configVersion + 1
  <2>1. /\ configVersion' = n /\ desiredState' = desired[r]
        /\ pc'[r] = "auditDesired" /\ version'[r] = n
        /\ \A q \in Requests \ {r} : pc'[q] = pc[q] /\ version'[q] = version[q]
        /\ desired' = desired /\ auditUpdated' = auditUpdated
    BY <1>3 DEF setDesiredState, Goto, audit
  <2>2. /\ Len(history') = n
        /\ history'[n] = desired[r]
        /\ \A v \in 1..configVersion : history'[v] = history[v]
    BY <1>3, AppendProperties DEF setDesiredState, VersionInv, VersionsKept
  <2>3. VersionsKept'
    BY <2>1, <2>2 DEF VersionInv, VersionsKept
  <2>4. ReplyIsNotOlder'
    <3>1. SUFFICES ASSUME NEW q \in Requests, pc'[q] = "respond"
                   PROVE  \E v \in version'[q]..n : history'[v] = desired'[q]
      BY <2>1 DEF ReplyIsNotOlder
    <3>2. q # r /\ pc[q] = "respond" /\ version'[q] = version[q]
      BY <2>1, <3>1
    <3>3. PICK v \in version[q]..configVersion : history[v] = desired[q]
      BY <3>2 DEF VersionInv, ReplyIsNotOlder
    <3>4. version[q] \in 1..configVersion
      BY <3>2 DEF VersionInv, VersionsKept
    <3>5. v \in 1..configVersion /\ v \in version'[q]..n
      BY <3>2, <3>3, <3>4
    <3>. QED
      BY <3>3, <3>5, <2>1, <2>2
  <2>5. OneWriterPerVersion'
    <3>1. \A q \in Requests \ {r} :
            pc[q] = "auditDesired" =>
              version[q] \in 2..configVersion /\ version[q] \notin auditUpdated
      BY DEF VersionInv, OneWriterPerVersion
    <3>2. n \in 2..n /\ n \notin auditUpdated
      BY DEF VersionInv, VersionsKept
    <3>3. \A q \in Requests \ {r} : pc[q] = "auditDesired" => version[q] # n
      BY <3>1
    <3>4. \A q \in Requests \ {r} : pc[q] = "auditDesired" => version[q] \in 2..n
      BY <3>1
    <3>5. \A p, q \in Requests :
            p # q /\ pc[p] = "auditDesired" /\ pc[q] = "auditDesired" =>
              version[p] # version[q]
      BY DEF VersionInv, OneWriterPerVersion
    <3>. QED
      BY <2>1, <3>1, <3>2, <3>3, <3>4, <3>5 DEF OneWriterPerVersion
  <2>. QED
    BY <2>3, <2>4, <2>5 DEF VersionInv
<1>4. ASSUME NEW r \in Requests, AuditDesired(r)
      PROVE  VersionInv'
  <2>1. /\ UNCHANGED <<config, version, desired>>
        /\ pc'[r] \in {"readVersion", "auditApplied"}
        /\ \A q \in Requests \ {r} : pc'[q] = pc[q]
        /\ auditUpdated' = auditUpdated \cup {version[r]}
        /\ pc[r] = "auditDesired"
    BY <1>4 DEF AuditDesired, Goto, config, open, ghosts
  <2>2. /\ version[r] \in 2..configVersion
        /\ \A q \in Requests \ {r} :
             pc[q] = "auditDesired" => version[q] # version[r]
    BY <2>1 DEF VersionInv, OneWriterPerVersion
  <2>3. VersionsKept'
    BY <2>1, <2>2 DEF VersionInv, VersionsKept, config
  <2>4. ReplyIsNotOlder'
    BY <2>1 DEF VersionInv, ReplyIsNotOlder, config
  <2>5. OneWriterPerVersion'
    BY <2>1, <2>2 DEF VersionInv, OneWriterPerVersion, config
  <2>. QED
    BY <2>3, <2>4, <2>5 DEF VersionInv
<1>5. ASSUME NEW r \in Requests, getConfigVersion(r)
      PROVE  VersionInv'
  <2>1. /\ UNCHANGED <<config, auditUpdated, desired>>
        /\ pc'[r] = "readState" /\ version'[r] = configVersion
        /\ \A q \in Requests \ {r} : pc'[q] = pc[q] /\ version'[q] = version[q]
    BY <1>5 DEF getConfigVersion, Goto, config, store, audit, open, ghosts
  <2>2. VersionsKept'
    BY <2>1 DEF VersionInv, VersionsKept, config
  <2>3. ReplyIsNotOlder'
    BY <2>1 DEF VersionInv, ReplyIsNotOlder, config
  <2>4. OneWriterPerVersion'
    BY <2>1 DEF VersionInv, OneWriterPerVersion, config
  <2>. QED
    BY <2>2, <2>3, <2>4 DEF VersionInv
<1>6. ASSUME NEW r \in Requests, getDesiredState(r)
      PROVE  VersionInv'
  <2>1. /\ UNCHANGED <<config, auditUpdated, version>>
        /\ pc[r] = "readState" /\ pc'[r] = "respond" /\ desired'[r] = desiredState
        /\ \A q \in Requests \ {r} : pc'[q] = pc[q] /\ desired'[q] = desired[q]
    BY <1>6 DEF getDesiredState, Goto, config, store, audit, open, ghosts
  <2>2. VersionsKept'
    BY <2>1 DEF VersionInv, VersionsKept, config
  <2>3. configVersion \in version[r]..configVersion
    BY <2>1 DEF VersionInv, VersionsKept
  <2>4. history[configVersion] = desiredState
    BY DEF VersionInv, VersionsKept
  <2>5. ReplyIsNotOlder'
    BY <2>1, <2>3, <2>4 DEF VersionInv, ReplyIsNotOlder, config
  <2>6. OneWriterPerVersion'
    BY <2>1 DEF VersionInv, OneWriterPerVersion, config
  <2>. QED
    BY <2>2, <2>5, <2>6 DEF VersionInv
<1>7. ASSUME UNCHANGED <<config, auditUpdated, locals>>
      PROVE  VersionInv'
  BY <1>7 DEF config, locals, VersionInv, VersionsKept, ReplyIsNotOlder, OneWriterPerVersion
<1>8. ASSUME NEW c \in ChangeIds,
             CommitRow(c) \/ RollBackRow(c) \/ \E s \in ChangeState : EndAudit(c, s)
      PROVE  VersionInv'
  BY <1>7, <1>8 DEF CommitRow, RollBackRow, EndAudit, config, store, audit, ghosts
<1>9. CASE UNCHANGED vars
  BY <1>7, <1>9 DEF vars, config, store, audit, ghosts
<1>. QED
  BY <1>1, <1>2, <1>3, <1>4, <1>5, <1>6, <1>8, <1>9 DEF Next, RequestStep

\* What VersionInv says of documents, versions and replies always holds.
THEOREM VersionInvariance == Spec => []VersionInv
BY InitVersions, NextVersions, Invariance, PTL DEF Spec
------------------------------------------------------------------------------
(* Trails and their audit rows *)

\* The saves that have their audit row, will have it, or lost it.
Accounted == auditSaved \cup Unaudited \cup heldAudit \cup lost \cup undone

\* Whichever of the rows a query finds, its trail is accounted for.
RowsAccounted ==
  \A c \in ChangeIds : \A row \in Rows(c) :
    \A i \in 1..Len(row.audit) : <<c, row.audit[i]>> \in Accounted

\* A request about to save a change extends a trail whose states are accounted
\* for: the state it adds is its own to audit.
PendingTrails ==
  \A r \in Requests :
    pc[r] = "saveChange" =>
      \A i \in 1..Len(payload[r].audit) - 1 :
        <<target[r], payload[r].audit[i]>> \in Accounted

AuditInv == RowsAccounted /\ PendingTrails

\* No step loses account of a save.
LEMMA AccountedGrows ==
  ASSUME IInv, [Next]_vars
  PROVE  Accounted \subseteq Accounted'
<1>. pc \in [Requests -> Step] /\ target \in [Requests -> ChangeIds \cup {NoId}]
     /\ payload \in [Requests -> ChangeRequest \cup {NoChange}]
  BY DEF IInv, TypeOK
<1>1. ASSUME NEW r \in Requests, AuditChange(r)
      PROVE  Accounted \subseteq Accounted'
  <2>1. /\ auditSaved' \cup heldAudit' =
             auditSaved \cup heldAudit \cup {<<target[r], payload[r].state>>}
        /\ UNCHANGED <<lost, undone>>
        /\ \A q \in Requests \ {r} :
             pc'[q] = pc[q] /\ target'[q] = target[q] /\ payload'[q] = payload[q]
    BY <1>1 DEF AuditChange, Release, Goto, ghosts
  <2>2. Unaudited \subseteq Unaudited' \cup {<<target[r], payload[r].state>>}
    BY <2>1 DEF Unaudited
  <2>. QED
    BY <2>1, <2>2 DEF Accounted
<1>2. ASSUME NEW r \in Requests, Crash(r)
      PROVE  Accounted \subseteq Accounted'
  BY <1>2 DEF Crash, Release, Goto, Accounted, Unaudited, store, audit, open
<1>3. ASSUME NEW r \in Requests, pc[r] # "auditChange",
             \A q \in Requests \ {r} :
               pc'[q] = pc[q] /\ target'[q] = target[q] /\ payload'[q] = payload[q],
             UNCHANGED <<auditSaved, heldAudit, lost, undone>>
      PROVE  Accounted \subseteq Accounted'
  BY <1>3 DEF Accounted, Unaudited
<1>4. ASSUME NEW r \in Requests,
             \/ \E actor \in Operators, c \in ChangeIds, p \in Proposals :
                  CreateChange(r, actor, c, p)
             \/ \E actor \in Operators, c \in ChangeIds, next \in ChangeState :
                  TransitionChange(r, actor, c, next)
             \/ saveChange(r)
             \/ \E d \in DesiredStates, c \in ChangeIds \cup {NoId} :
                  BeginPutDesired(r, d, c)
             \/ setDesiredState(r) \/ AuditDesired(r) \/ AuditApplied(r)
             \/ BeginGetDesired(r) \/ getConfigVersion(r) \/ getDesiredState(r)
             \/ Respond(r)
      PROVE  Accounted \subseteq Accounted'
  <2>1. /\ pc[r] # "auditChange"
        /\ UNCHANGED <<auditSaved, heldAudit, lost, undone>>
        /\ \A q \in Requests \ {r} :
             pc'[q] = pc[q] /\ target'[q] = target[q] /\ payload'[q] = payload[q]
    BY <1>4 DEF CreateChange, TransitionChange, saveChange, BeginPutDesired,
                setDesiredState, AuditDesired, AuditApplied, BeginGetDesired,
                getConfigVersion, getDesiredState, Respond, Release, Goto, store,
                audit, open, ghosts
  <2>. QED
    BY <2>1, <1>3
<1>5. ASSUME NEW c \in ChangeIds, CommitRow(c) \/ RollBackRow(c)
      PROVE  Accounted \subseteq Accounted'
  BY <1>5 DEF CommitRow, RollBackRow, store, audit, locals, ghosts, Accounted, Unaudited
<1>6. ASSUME NEW c \in ChangeIds, NEW s \in ChangeState, EndAudit(c, s)
      PROVE  Accounted \subseteq Accounted'
  BY <1>6 DEF EndAudit, locals, Accounted, Unaudited
<1>7. CASE UNCHANGED vars
  BY <1>7 DEF vars, store, audit, locals, open, ghosts, Accounted, Unaudited
<1>. QED
  BY <1>1, <1>2, <1>4, <1>5, <1>6, <1>7 DEF Next, RequestStep

LEMMA InitAudit == Init => AuditInv
BY DEF Init, AuditInv, RowsAccounted, Rows, PendingTrails

\* A step that saves no change, and leaves its request at another await than the
\* save, keeps AuditInv.
LEMMA OtherStepsKeepAudit ==
  ASSUME IInv, AuditInv, [Next]_vars, \A r \in Requests : ~saveChange(r),
         \A q \in Requests :
           pc'[q] = "saveChange" =>
             pc[q] = "saveChange" /\ target'[q] = target[q] /\ payload'[q] = payload[q]
  PROVE  AuditInv'
<1>1. Accounted \subseteq Accounted'
  BY AccountedGrows
<1>2. RowsAccounted'
  <2>1. ASSUME NEW c \in ChangeIds, NEW row \in Rows(c)'
        PROVE  \A i \in 1..Len(row.audit) : <<c, row.audit[i]>> \in Accounted'
    <3>1. row \in Rows(c)
      BY NextRows
    <3>. QED
      BY <1>1, <3>1 DEF AuditInv, RowsAccounted
  <2>. QED
    BY <2>1 DEF RowsAccounted
<1>3. PendingTrails'
  BY <1>1 DEF AuditInv, PendingTrails
<1>. QED
  BY <1>2, <1>3 DEF AuditInv

LEMMA NextAudit == IInv /\ AuditInv /\ [Next]_vars => AuditInv'
<1> SUFFICES ASSUME IInv, AuditInv, [Next]_vars PROVE AuditInv'
  OBVIOUS
<1>. pc \in [Requests -> Step] /\ target \in [Requests -> ChangeIds \cup {NoId}]
     /\ payload \in [Requests -> ChangeRequest \cup {NoChange}]
     /\ changes \in [ChangeIds -> ChangeRequest \cup {NoChange}]
  BY DEF IInv, TypeOK
<1>0. /\ Accounted \subseteq Accounted'
      /\ (\A r \in Requests : ~saveChange(r)) => RowsAccounted'
  <2>1. Accounted \subseteq Accounted'
    BY AccountedGrows
  <2>2. ASSUME \A r \in Requests : ~saveChange(r),
               NEW c \in ChangeIds, NEW row \in Rows(c)'
        PROVE  \A i \in 1..Len(row.audit) : <<c, row.audit[i]>> \in Accounted'
    <3>1. row \in Rows(c)
      BY <2>2, NextRows
    <3>. QED
      BY <2>1, <3>1 DEF AuditInv, RowsAccounted
  <2>. QED
    BY <2>1, <2>2 DEF RowsAccounted
<1>1. ASSUME NEW r \in Requests, NEW actor \in Operators, NEW c \in ChangeIds,
             NEW p \in Proposals, CreateChange(r, actor, c, p)
      PROVE  AuditInv'
  <2>1. 1..Len(create(actor, p).audit) - 1 = {}
    <3>1. Len(create(actor, p).audit) = 1
      BY DEF create
    <3>. QED
      BY <3>1
  <2>2. /\ UNCHANGED <<changes, held>>
        /\ payload'[r] = create(actor, p)
        /\ \A q \in Requests \ {r} :
             pc'[q] = pc[q] /\ target'[q] = target[q] /\ payload'[q] = payload[q]
    BY <1>1 DEF CreateChange, Goto, store, open
  <2>3. RowsAccounted'
    BY <1>0, <2>2 DEF AuditInv, RowsAccounted, Rows
  <2>4. 1..Len(payload'[r].audit) - 1 = {}
    BY <2>1, <2>2, Zenon
  <2>5. PendingTrails'
    <3>1. ASSUME NEW q \in Requests, pc'[q] = "saveChange",
                 NEW i \in 1..Len(payload'[q].audit) - 1
          PROVE  <<target'[q], payload'[q].audit[i]>> \in Accounted'
      <4>1. q # r
        BY <3>1, <2>4
      <4>. QED
        BY <4>1, <3>1, <2>2, <1>0 DEF AuditInv, PendingTrails
    <3>. QED
      BY <3>1 DEF PendingTrails
  <2>. QED
    BY <2>3, <2>5 DEF AuditInv
<1>2. ASSUME NEW r \in Requests, NEW actor \in Operators, NEW c \in ChangeIds,
             NEW next \in ChangeState, TransitionChange(r, actor, c, next)
      PROVE  AuditInv'
  <2>0. PICK row \in Rows(c) : payload' = [payload EXCEPT ![r] = transition(row, next, actor)]
    BY <1>2 DEF TransitionChange
  <2> DEFINE old == row.audit
             new == transition(row, next, actor)
  <2>1. row \in ChangeRequest /\ old \in Seq(ChangeState)
    BY DEF IInv, StoredSound, Sound, ChangeRequest
  <2>2. new.audit = Append(old, next)
    BY <2>1, TransitionType
  <2>3. /\ Len(new.audit) - 1 = Len(old)
        /\ \A i \in 1..Len(old) : new.audit[i] = old[i]
    BY <2>1, <2>2, AppendProperties, LenProperties
  <2>4. /\ UNCHANGED <<changes, held>>
        /\ payload'[r] = new /\ target'[r] = c
        /\ \A q \in Requests \ {r} :
             pc'[q] = pc[q] /\ target'[q] = target[q] /\ payload'[q] = payload[q]
    BY <1>2, <2>0 DEF TransitionChange, Goto, store, open
  <2>5. RowsAccounted'
    BY <1>0, <2>4 DEF AuditInv, RowsAccounted, Rows
  <2>6. \A i \in 1..Len(old) : <<c, old[i]>> \in Accounted
    BY DEF AuditInv, RowsAccounted
  <2>7. \A i \in 1..Len(new.audit) - 1 : <<c, new.audit[i]>> \in Accounted'
    BY <1>0, <2>3, <2>6
  <2>8. PendingTrails'
    <3>1. ASSUME NEW q \in Requests, pc'[q] = "saveChange",
                 NEW i \in 1..Len(payload'[q].audit) - 1
          PROVE  <<target'[q], payload'[q].audit[i]>> \in Accounted'
      <4>1. CASE q = r
        BY <4>1, <3>1, <2>4, <2>7
      <4>2. CASE q # r
        BY <4>2, <3>1, <2>4, <1>0 DEF AuditInv, PendingTrails
      <4>. QED
        BY <4>1, <4>2
    <3>. QED
      BY <3>1 DEF PendingTrails
  <2>. QED
    BY <2>5, <2>8 DEF AuditInv
<1>3. ASSUME NEW r \in Requests, saveChange(r)
      PROVE  AuditInv'
  <2> DEFINE trail == payload[r].audit
             c     == target[r]
  <2>1. /\ c \in ChangeIds
        /\ payload[r] \in ChangeRequest
        /\ Len(trail) \in Nat /\ Len(trail) > 0
        /\ trail[Len(trail)] = payload[r].state
    BY <1>3 DEF saveChange, IInv, LocalsSound, Sound, IsPath, ChangeRequest
  <2>2. /\ pc[r] = "saveChange" /\ pc'[r] = "auditChange"
        /\ UNCHANGED <<target, payload>>
        /\ \A q \in Requests \ {r} : pc'[q] = pc[q]
    BY <1>3 DEF saveChange, Goto
  <2>3. <<c, payload[r].state>> \in Accounted'
    BY <2>2 DEF Accounted, Unaudited
  <2>4. \A i \in 1..Len(trail) - 1 : <<c, trail[i]>> \in Accounted'
    BY <1>0, <2>2 DEF AuditInv, PendingTrails
  <2>5. \A i \in 1..Len(trail) : <<c, trail[i]>> \in Accounted'
    <3>1. TAKE i \in 1..Len(trail)
    <3>2. CASE i = Len(trail)
      BY <3>2, <2>1, <2>3
    <3>3. CASE i # Len(trail)
      <4>1. i \in 1..Len(trail) - 1
        BY <3>3, <2>1
      <4>. QED
        BY <4>1, <2>4
    <3>. QED
      BY <3>2, <3>3
  <2>6. RowsAccounted'
    <3>1. ASSUME NEW d \in ChangeIds, NEW row \in Rows(d)'
          PROVE  \A i \in 1..Len(row.audit) : <<d, row.audit[i]>> \in Accounted'
      <4>1. CASE row \in Rows(d)
        BY <4>1, <1>0 DEF AuditInv, RowsAccounted
      <4>2. ASSUME NEW q \in Requests, saveChange(q), target[q] = d, payload[q] = row
            PROVE  d = c /\ row = payload[r]
        <5>1. q = r
          BY <4>2, <2>2 DEF saveChange, Goto
        <5>. QED
          BY <4>2, <5>1
      <4>. QED
        BY <4>1, <4>2, <2>5, NextRows
    <3>. QED
      BY <3>1 DEF RowsAccounted
  <2>7. PendingTrails'
    BY <1>0, <2>2 DEF AuditInv, PendingTrails
  <2>. QED
    BY <2>6, <2>7 DEF AuditInv
<1>4. ASSUME NEW r \in Requests,
             \/ AuditChange(r)
             \/ \E d \in DesiredStates, c \in ChangeIds \cup {NoId} :
                  BeginPutDesired(r, d, c)
             \/ setDesiredState(r) \/ AuditDesired(r) \/ AuditApplied(r)
             \/ BeginGetDesired(r) \/ getConfigVersion(r) \/ getDesiredState(r)
             \/ Respond(r) \/ Crash(r)
      PROVE  AuditInv'
  <2>1. /\ UNCHANGED changes
        /\ pc'[r] \notin {"saveChange", "auditChange"}
        /\ \A q \in Requests \ {r} :
             pc'[q] = pc[q] /\ target'[q] = target[q] /\ payload'[q] = payload[q]
    BY <1>4 DEF AuditChange, BeginPutDesired, setDesiredState, AuditDesired,
                AuditApplied, BeginGetDesired, getConfigVersion, getDesiredState,
                Respond, Crash, Release, Goto, store
  <2>2. \A q \in Requests : ~saveChange(q)
    BY <2>1 DEF saveChange, Goto
  <2>. QED
    BY <2>1, <2>2, OtherStepsKeepAudit
<1>5. ASSUME NEW c \in ChangeIds,
             CommitRow(c) \/ RollBackRow(c) \/ \E s \in ChangeState : EndAudit(c, s)
      PROVE  AuditInv'
  <2>1. UNCHANGED locals
    BY <1>5 DEF CommitRow, RollBackRow, EndAudit
  <2>2. \A r \in Requests : ~saveChange(r)
    BY <2>1 DEF locals, saveChange, Goto
  <2>. QED
    BY <2>1, <2>2, OtherStepsKeepAudit DEF locals
<1>6. CASE UNCHANGED vars
  <2>1. \A r \in Requests : ~saveChange(r)
    BY <1>6 DEF vars, locals, saveChange, Goto
  <2>. QED
    BY <1>6, <2>1, OtherStepsKeepAudit DEF vars, locals
<1>. QED
  BY <1>1, <1>2, <1>3, <1>4, <1>5, <1>6 DEF Next, RequestStep

\* What AuditInv says of trails and audit rows always holds.
THEOREM AuditInvariance == Spec => []AuditInv
BY InitAudit, NextAudit, Invariance, PTL DEF Spec
------------------------------------------------------------------------------
(* Approvals *)

\* The rows of one change and the saves of it agree on its requestor, whatever else
\* they overwrite.
RequestorsAgree ==
  /\ \A c \in ChangeIds : \A row, other \in Rows(c) : row.actorId = other.actorId
  /\ \A r \in Requests :
       pc[r] = "saveChange" =>
         \A row \in Rows(target[r]) : payload[r].actorId = row.actorId
  /\ \A r, q \in Requests :
       pc[r] = "saveChange" /\ pc[q] = "saveChange" /\ target[r] = target[q] =>
         payload[r].actorId = payload[q].actorId

\* The approver a record names approved that change in a save, or is about to with
\* this very save.
ApproversApproved ==
  /\ \A c \in ChangeIds : \A row \in Rows(c) :
       row.approvedBy # NoOne => [id |-> c, by |-> row.approvedBy] \in approvals
  /\ \A r \in Requests :
       pc[r] = "saveChange" /\ payload[r].approvedBy # NoOne =>
         \/ payload[r].state = "APPROVED"
         \/ [id |-> target[r], by |-> payload[r].approvedBy] \in approvals

\* Somebody other than its requestor approved a stored change.
Approved(c) ==
  /\ c \in Stored
  /\ \E a \in approvals : a.id = c /\ a.by # changes[c].actorId

\* A request that writes the desired state on the strength of a change.
WritesAreApproved ==
  \A r \in Requests :
    pc[r] \in {"setDesired", "auditDesired", "auditApplied"} /\ target[r] # NoId =>
      target[r] \in reverted \/ Approved(target[r])

ApprovalInv ==
  /\ RequestorsAgree
  /\ ApproversApproved
  /\ WritesAreApproved
  /\ AppliedChangesWereApproved

LEMMA InitApprovals == Init => ApprovalInv
BY DEF Init, ApprovalInv, RequestorsAgree, ApproversApproved, WritesAreApproved,
       AppliedChangesWereApproved, Stored, Rows

\* A step that saves no change and approves nothing, and of whose request
\* ApprovalInv then says nothing new, keeps it.
LEMMA OtherStepsKeepApprovals ==
  ASSUME IInv, ApprovalInv, UNCHANGED <<changes, held, approvals, reverted>>,
         auditApplied' \subseteq auditApplied \cup {c \in Stored : Approved(c)} \cup reverted,
         \A q \in Requests :
           pc'[q] = "saveChange" =>
             pc[q] = "saveChange" /\ target'[q] = target[q] /\ payload'[q] = payload[q],
         \A q \in Requests :
           pc'[q] \in {"setDesired", "auditDesired", "auditApplied"} =>
             \/ target'[q] = NoId
             \/ target'[q] \in reverted
             \/ Approved(target'[q])
             \/ /\ pc[q] \in {"setDesired", "auditDesired", "auditApplied"}
                /\ target'[q] = target[q]
  PROVE  ApprovalInv'
<1>1. /\ Stored' = Stored
      /\ \A c \in ChangeIds : Approved(c)' = Approved(c)
  BY DEF Stored, Approved
<1>0. ASSUME NEW c
      PROVE  Rows(c)' = Rows(c)
  BY DEF Rows
<1>2. RequestorsAgree'
  <2>1. \A q \in Requests : pc'[q] = "saveChange" => Rows(target[q])' = Rows(target[q])
    BY DEF Rows
  <2>. QED
    BY <1>0, <2>1 DEF ApprovalInv, RequestorsAgree
<1>3. ApproversApproved'
  BY <1>0 DEF ApprovalInv, ApproversApproved
<1>4. WritesAreApproved'
  <2>1. ASSUME NEW q \in Requests,
               pc'[q] \in {"setDesired", "auditDesired", "auditApplied"},
               target'[q] # NoId, target'[q] \notin reverted
        PROVE  Approved(target'[q])
    BY <2>1 DEF ApprovalInv, WritesAreApproved
  <2>2. \A q \in Requests : Approved(target'[q]) => target'[q] \in ChangeIds
    BY DEF Approved, Stored
  <2>3. \A q \in Requests : Approved(target'[q]) => Approved(target[q])'
    BY DEF Approved, Stored
  <2>. QED
    BY <2>1, <2>3 DEF WritesAreApproved
<1>5. AppliedChangesWereApproved'
  BY <1>1 DEF ApprovalInv, AppliedChangesWereApproved, Approved
<1>. QED
  BY <1>2, <1>3, <1>4, <1>5 DEF ApprovalInv

LEMMA NextApprovals == IInv /\ ApprovalInv /\ [Next]_vars => ApprovalInv'
<1> SUFFICES ASSUME IInv, ApprovalInv, [Next]_vars PROVE ApprovalInv'
  OBVIOUS
<1>. pc \in [Requests -> Step] /\ target \in [Requests -> ChangeIds \cup {NoId}]
     /\ payload \in [Requests -> ChangeRequest \cup {NoChange}]
     /\ changes \in [ChangeIds -> ChangeRequest \cup {NoChange}]
  BY DEF IInv, TypeOK
<1>1. ASSUME NEW r \in Requests, NEW actor \in Operators, NEW c \in ChangeIds,
             NEW p \in Proposals, CreateChange(r, actor, c, p)
      PROVE  ApprovalInv'
  <2>1. create(actor, p).approvedBy = NoOne
    BY DEF create
  <2>2. /\ UNCHANGED <<changes, held, approvals, auditApplied, reverted>>
        /\ payload'[r] = create(actor, p)
        /\ pc'[r] = "saveChange" /\ target'[r] = c
        /\ \A q \in Requests \ {r} :
             pc'[q] = pc[q] /\ target'[q] = target[q] /\ payload'[q] = payload[q]
    BY <1>1 DEF CreateChange, Goto, store, audit, open, ghosts
  <2>3. Rows(c) = {} /\ \A q \in Requests : target[q] # c
    BY <1>1 DEF CreateChange, Fresh, Rows, IInv, HeldAreStored
  <2>4. Stored' = Stored /\ \A d \in ChangeIds \cup {NoId} : Rows(d)' = Rows(d)
    BY <2>2 DEF Stored, Rows
  <2>5. RequestorsAgree'
    <3>1. \A d \in ChangeIds : \A row, other \in Rows(d)' : row.actorId = other.actorId
      BY <2>4 DEF ApprovalInv, RequestorsAgree
    <3>2. ASSUME NEW q \in Requests, pc'[q] = "saveChange", NEW row \in Rows(target'[q])
          PROVE  payload'[q].actorId = row.actorId
      BY <3>2, <2>2, <2>3 DEF ApprovalInv, RequestorsAgree
    <3>3. \A q \in Requests : Rows(target[q])' = Rows(target'[q])
      BY <2>2 DEF Rows
    <3>4. \A q, s \in Requests :
            pc'[q] = "saveChange" /\ pc'[s] = "saveChange" /\ target'[q] = target'[s] =>
              payload'[q].actorId = payload'[s].actorId
      BY <2>2, <2>3 DEF ApprovalInv, RequestorsAgree
    <3>. QED
      BY <3>1, <3>2, <3>3, <3>4 DEF RequestorsAgree
  <2>6. ApproversApproved'
    BY <2>1, <2>2, <2>4 DEF ApprovalInv, ApproversApproved
  <2>7. WritesAreApproved'
    BY <2>2, <2>4 DEF ApprovalInv, WritesAreApproved, Approved
  <2>8. AppliedChangesWereApproved'
    BY <2>2, <2>4 DEF ApprovalInv, AppliedChangesWereApproved
  <2>. QED
    BY <2>5, <2>6, <2>7, <2>8 DEF ApprovalInv
<1>2. ASSUME NEW r \in Requests, NEW actor \in Operators, NEW c \in ChangeIds,
             NEW next \in ChangeState, TransitionChange(r, actor, c, next)
      PROVE  ApprovalInv'
  <2>0. PICK row \in Rows(c) : payload' = [payload EXCEPT ![r] = transition(row, next, actor)]
    BY <1>2 DEF TransitionChange
  <2> DEFINE new == transition(row, next, actor)
  <2>1. row \in ChangeRequest
    BY DEF IInv, StoredSound, Sound
  <2>2. /\ new.state = next
        /\ new.actorId = row.actorId
        /\ new.approvedBy = IF next = "APPROVED" THEN actor ELSE row.approvedBy
    BY <2>1, TransitionType
  <2>3. /\ UNCHANGED <<changes, held, approvals, auditApplied, reverted>>
        /\ payload'[r] = new /\ pc'[r] = "saveChange" /\ target'[r] = c
        /\ \A q \in Requests \ {r} :
             pc'[q] = pc[q] /\ target'[q] = target[q] /\ payload'[q] = payload[q]
    BY <1>2, <2>0 DEF TransitionChange, Goto, store, audit, open, ghosts
  <2>4. Stored' = Stored /\ \A d \in ChangeIds \cup {NoId} : Rows(d)' = Rows(d)
    BY <2>3 DEF Stored, Rows
  <2>5. RequestorsAgree'
    <3>1. \A d \in ChangeIds : \A a, b \in Rows(d)' : a.actorId = b.actorId
      BY <2>4 DEF ApprovalInv, RequestorsAgree
    <3>2. ASSUME NEW q \in Requests, pc'[q] = "saveChange", NEW a \in Rows(target'[q])
          PROVE  payload'[q].actorId = a.actorId
      BY <3>2, <2>2, <2>3 DEF ApprovalInv, RequestorsAgree
    <3>3. \A q \in Requests : Rows(target[q])' = Rows(target'[q])
      BY <2>3 DEF Rows
    <3>4. \A q \in Requests :
            pc[q] = "saveChange" /\ target[q] = c => payload[q].actorId = row.actorId
      BY DEF ApprovalInv, RequestorsAgree
    <3>5. \A q, s \in Requests :
            pc'[q] = "saveChange" /\ pc'[s] = "saveChange" /\ target'[q] = target'[s] =>
              payload'[q].actorId = payload'[s].actorId
      BY <2>2, <2>3, <3>4 DEF ApprovalInv, RequestorsAgree
    <3>. QED
      BY <3>1, <3>2, <3>3, <3>5 DEF RequestorsAgree
  <2>6. new.approvedBy # NoOne =>
          \/ new.state = "APPROVED"
          \/ [id |-> c, by |-> new.approvedBy] \in approvals
    BY <2>2 DEF ApprovalInv, ApproversApproved
  <2>7. ApproversApproved'
    BY <2>3, <2>4, <2>6 DEF ApprovalInv, ApproversApproved
  <2>8. WritesAreApproved'
    BY <2>3, <2>4 DEF ApprovalInv, WritesAreApproved, Approved
  <2>9. AppliedChangesWereApproved'
    BY <2>3, <2>4 DEF ApprovalInv, AppliedChangesWereApproved
  <2>. QED
    BY <2>5, <2>7, <2>8, <2>9 DEF ApprovalInv
<1>3. ASSUME NEW r \in Requests, saveChange(r)
      PROVE  ApprovalInv'
  <2> DEFINE c == target[r]
  <2>1. c \in ChangeIds /\ payload[r] \in ChangeRequest
    BY <1>3 DEF saveChange, IInv, LocalsSound, Sound
  <2>2. /\ pc[r] = "saveChange" /\ pc'[r] = "auditChange"
        /\ UNCHANGED <<target, payload, auditApplied>>
        /\ \A q \in Requests \ {r} : pc'[q] = pc[q]
        /\ changes' = [changes EXCEPT ![c] = payload[r]]
        /\ reverted' = reverted
    BY <1>3 DEF saveChange, Goto, audit
  <2>3. /\ approvals \subseteq approvals'
        /\ payload[r].state = "APPROVED" =>
             [id |-> c, by |-> payload[r].approvedBy] \in approvals'
    BY <1>3 DEF saveChange
  <2>4. Stored' = Stored \cup {c}
    BY <2>1, <2>2, ConstantsAssumption DEF Stored
  <2>5. /\ changes'[c] = payload[r]
        /\ \A d \in ChangeIds \ {c} : changes'[d] = changes[d]
    BY <2>1, <2>2
  <2>51. \A d \in ChangeIds : \A row \in Rows(d)' :
           row \in Rows(d) \/ (d = c /\ row = payload[r])
    <3>1. \A q \in Requests : saveChange(q) => q = r
      BY <2>2 DEF saveChange, Goto
    <3>. QED
      BY <3>1, NextRows
  <2>6. RequestorsAgree'
    <3>1. \A row \in Rows(c) : row.actorId = payload[r].actorId
      BY <2>2 DEF ApprovalInv, RequestorsAgree
    <3>2. \A d \in ChangeIds : \A row, other \in Rows(d)' : row.actorId = other.actorId
      BY <2>51, <3>1 DEF ApprovalInv, RequestorsAgree
    <3>3. ASSUME NEW q \in Requests, pc'[q] = "saveChange", NEW row \in Rows(target[q])'
          PROVE  payload'[q].actorId = row.actorId
      <4>1. target[q] \in ChangeIds /\ pc[q] = "saveChange" /\ q # r
        BY <3>3, <2>2 DEF IInv, LocalsSound
      <4>2. row \in Rows(target[q]) \/ (target[q] = c /\ row = payload[r])
        BY <4>1, <2>2, <2>51, <3>3
      <4>. QED
        BY <4>1, <4>2, <2>2 DEF ApprovalInv, RequestorsAgree
    <3>4. \A q, s \in Requests :
            pc'[q] = "saveChange" /\ pc'[s] = "saveChange" /\ target'[q] = target'[s] =>
              payload'[q].actorId = payload'[s].actorId
      BY <2>2 DEF ApprovalInv, RequestorsAgree
    <3>. QED
      BY <3>2, <3>3, <3>4 DEF RequestorsAgree
  <2>7. ApproversApproved'
    <3>1. payload[r].approvedBy # NoOne => [id |-> c, by |-> payload[r].approvedBy] \in approvals'
      BY <2>2, <2>3 DEF ApprovalInv, ApproversApproved
    <3>2. \A d \in ChangeIds : \A row \in Rows(d)' :
            row.approvedBy # NoOne => [id |-> d, by |-> row.approvedBy] \in approvals'
      BY <2>51, <2>3, <3>1 DEF ApprovalInv, ApproversApproved
    <3>3. \A q \in Requests :
            pc'[q] = "saveChange" /\ payload'[q].approvedBy # NoOne =>
              \/ payload'[q].state = "APPROVED"
              \/ [id |-> target'[q], by |-> payload'[q].approvedBy] \in approvals'
      BY <2>2, <2>3 DEF ApprovalInv, ApproversApproved
    <3>. QED
      BY <3>2, <3>3 DEF ApproversApproved
  <2>8. \A d \in Stored : changes'[d].actorId = changes[d].actorId
    <3>1. \A d \in Stored : changes[d] \in Rows(d)
      BY DEF Stored, Rows
    <3>. QED
      BY <2>2, <2>5, <3>1 DEF ApprovalInv, RequestorsAgree, Stored
  <2>9. \A d \in ChangeIds : Approved(d) => Approved(d)'
    BY <2>3, <2>4, <2>8 DEF Approved
  <2>10. WritesAreApproved'
    <3>1. ASSUME NEW q \in Requests,
                 pc'[q] \in {"setDesired", "auditDesired", "auditApplied"},
                 target'[q] # NoId, target'[q] \notin reverted
          PROVE  Approved(target[q])'
      <4>1. Approved(target[q]) /\ target'[q] = target[q]
        BY <3>1, <2>2 DEF ApprovalInv, WritesAreApproved
      <4>. QED
        BY <4>1, <2>3, <2>4, <2>8 DEF Approved
    <3>. QED
      BY <2>2, <3>1 DEF WritesAreApproved
  <2>11. AppliedChangesWereApproved'
    BY <2>2, <2>3, <2>4, <2>8 DEF ApprovalInv, AppliedChangesWereApproved
  <2>. QED
    BY <2>6, <2>7, <2>10, <2>11 DEF ApprovalInv
<1>4. ASSUME NEW r \in Requests, NEW d \in DesiredStates,
             NEW c \in ChangeIds \cup {NoId}, BeginPutDesired(r, d, c)
      PROVE  ApprovalInv'
  <2>1. c = NoId \/ Approved(c)
    <3>1. CASE environment = "production"
      <4>1. c \in ChangeIds
        BY <1>4, <3>1 DEF BeginPutDesired
      <4>2. PICK row \in Rows(c) : row.approvedBy # NoOne
        BY <1>4, <3>1 DEF BeginPutDesired, MayMutate
      <4>3. row.approvedBy # row.actorId
        BY <4>1, <4>2, <3>1 DEF IInv, StoredSound, Sound
      <4>4. [id |-> c, by |-> row.approvedBy] \in approvals
        BY <4>1, <4>2 DEF ApprovalInv, ApproversApproved
      <4>5. c \in Stored /\ changes[c] \in Rows(c)
        BY <4>1, <4>2 DEF Stored, Rows, IInv, HeldAreStored
      <4>6. row.actorId = changes[c].actorId
        BY <4>1, <4>5 DEF ApprovalInv, RequestorsAgree
      <4>. QED
        BY <4>3, <4>4, <4>5, <4>6 DEF Approved
    <3>2. CASE environment # "production"
      BY <1>4, <3>2 DEF BeginPutDesired
    <3>. QED
      BY <3>1, <3>2
  <2>2. /\ UNCHANGED <<changes, held, approvals, auditApplied, reverted>>
        /\ pc'[r] = "setDesired" /\ target'[r] = c
        /\ \A q \in Requests \ {r} : pc'[q] = pc[q] /\ target'[q] = target[q]
        /\ payload' = payload
    BY <1>4 DEF BeginPutDesired, Goto, store, audit, open, ghosts
  <2>. QED
    BY <2>1, <2>2, OtherStepsKeepApprovals
<1>5. ASSUME NEW r \in Requests, AuditApplied(r)
      PROVE  ApprovalInv'
  <2>1. target[r] \in reverted \/ (Approved(target[r]) /\ target[r] \in Stored)
    BY <1>5, ConstantsAssumption
       DEF AuditApplied, ApprovalInv, WritesAreApproved, Approved, IInv, LocalsSound
  <2>2. /\ UNCHANGED <<changes, held, approvals, reverted, target, payload>>
        /\ pc'[r] = "readVersion"
        /\ \A q \in Requests \ {r} : pc'[q] = pc[q]
        /\ auditApplied' = auditApplied \cup {target[r]}
    BY <1>5 DEF AuditApplied, Goto, open, ghosts
  <2>3. auditApplied' \subseteq auditApplied \cup {c \in Stored : Approved(c)} \cup reverted
    BY <2>1, <2>2
  <2>. QED
    BY <2>2, <2>3, OtherStepsKeepApprovals
<1>6. ASSUME NEW r \in Requests,
             \/ AuditChange(r) \/ setDesiredState(r) \/ AuditDesired(r)
             \/ BeginGetDesired(r) \/ getConfigVersion(r) \/ getDesiredState(r)
             \/ Respond(r) \/ Crash(r)
      PROVE  ApprovalInv'
  <2>1. /\ UNCHANGED <<changes, held, approvals, auditApplied, reverted>>
        /\ pc'[r] # "saveChange"
        /\ \/ pc'[r] \notin {"setDesired", "auditDesired", "auditApplied"}
           \/ /\ pc[r] \in {"setDesired", "auditDesired"}
              /\ target'[r] = target[r]
        /\ \A q \in Requests \ {r} :
             pc'[q] = pc[q] /\ target'[q] = target[q] /\ payload'[q] = payload[q]
    BY <1>6 DEF AuditChange, setDesiredState, AuditDesired, BeginGetDesired,
                getConfigVersion, getDesiredState, Respond, Crash, Release, Goto,
                store, audit, open, ghosts
  <2>. QED
    BY <2>1, OtherStepsKeepApprovals
<1>7. ASSUME NEW c \in ChangeIds, CommitRow(c) \/ RollBackRow(c)
      PROVE  ApprovalInv'
  <2>1. /\ UNCHANGED <<approvals, auditApplied, pc, target, payload>>
        /\ reverted \subseteq reverted'
        /\ \A d \in ChangeIds \ reverted' : changes'[d] = changes[d]
    BY <1>7 DEF CommitRow, RollBackRow, store, audit, locals, ghosts
  <2>2. \A d \in ChangeIds : Rows(d)' \subseteq Rows(d)
    <3>1. \A q \in Requests : ~saveChange(q)
      BY <2>1 DEF saveChange, Goto
    <3>. QED
      BY <3>1, NextRows
  <2>3. RequestorsAgree'
    <3>1. \A q \in Requests : pc[q] = "saveChange" => target[q] \in ChangeIds
      BY DEF IInv, LocalsSound
    <3>2. \A q \in Requests : pc'[q] = "saveChange" => Rows(target[q])' \subseteq Rows(target[q])
      BY <2>1, <2>2, <3>1
    <3>. QED
      BY <2>1, <2>2, <3>2 DEF ApprovalInv, RequestorsAgree
  <2>4. ApproversApproved'
    BY <2>1, <2>2 DEF ApprovalInv, ApproversApproved
  <2>5. \A d \in ChangeIds \ reverted' : Approved(d) => Approved(d)'
    BY <2>1 DEF Approved, Stored
  <2>6. WritesAreApproved'
    BY <2>1, <2>5 DEF ApprovalInv, WritesAreApproved, Approved, Stored
  <2>7. AppliedChangesWereApproved'
    BY <2>1 DEF ApprovalInv, AppliedChangesWereApproved, Stored
  <2>. QED
    BY <2>3, <2>4, <2>6, <2>7 DEF ApprovalInv
<1>8. ASSUME NEW c \in ChangeIds, NEW s \in ChangeState, EndAudit(c, s)
      PROVE  ApprovalInv'
  BY <1>8, OtherStepsKeepApprovals DEF EndAudit, locals
<1>9. CASE UNCHANGED vars
  BY <1>9, OtherStepsKeepApprovals DEF vars, store, audit, locals, open, ghosts
<1>. QED
  BY <1>1, <1>2, <1>3, <1>4, <1>5, <1>6, <1>7, <1>8, <1>9 DEF Next, RequestStep

\* What ApprovalInv says of requestors and approvers always holds.
THEOREM ApprovalInvariance == Spec => []ApprovalInv
BY InitApprovals, NextApprovals, Invariance, PTL DEF Spec
------------------------------------------------------------------------------
(* The properties the runs check *)

LEMMA StoredAreSound == IInv => \A c \in Stored : Sound(changes[c])
<1>1. \A c \in Stored : changes[c] \in Rows(c)
  BY DEF Stored, Rows
<1>. QED
  BY <1>1 DEF IInv, StoredSound, Stored

\* Every variable keeps its type: the rows stay change requests and the locals
\* stay what the handlers put in them.
THEOREM TypeCorrect == Spec => []TypeOK
<1>1. IInv => TypeOK
  BY DEF IInv
<1>. QED
  BY <1>1, Invariance, PTL

\* Whichever save wins, the stored trail is a path of the state graph ending in
\* the stored state, and in production no approval skips WAITING_APPROVAL.
THEOREM TrailsAreLegal == Spec => []TrailLegal
<1>1. IInv => TrailLegal
  BY StoredAreSound DEF Sound, TrailLegal
<1>. QED
  BY <1>1, Invariance, PTL

\* In production no stored change is approved by its own requestor.
THEOREM RequestorIsNotApprover == Spec => []SeparationOfDuties
<1>1. IInv => SeparationOfDuties
  BY StoredAreSound DEF Sound, SeparationOfDuties
<1>. QED
  BY <1>1, Invariance, PTL

\* A change in a mutation state has an approver, and an approver means that the
\* trail passed APPROVED.
THEOREM ApproversMatchTrails == Spec => []ApproverMatchesTrail
<1>1. IInv => ApproverMatchesTrail
  BY StoredAreSound DEF Sound, ApproverMatchesTrail
<1>. QED
  BY <1>1, Invariance, PTL

\* Also when a write falls between the two reads of a reply, its document is
\* one the store held at the reply's version or later.
THEOREM RepliesAreNotOlder == Spec => []ReplyIsNotOlder
<1>1. VersionInv => ReplyIsNotOlder
  BY DEF VersionInv
<1>. QED
  BY <1>1, VersionInvariance, PTL

\* No two writes of the desired state are told the same version.
THEOREM VersionsHaveOneWriter == Spec => []OneWriterPerVersion
<1>1. VersionInv => OneWriterPerVersion
  BY DEF VersionInv
<1>. QED
  BY <1>1, VersionInvariance, PTL

\* The separate insert of the audit row is missing only after a crash between the two
\* statements or a rollback of the transaction it ran in, however many saves race.
THEOREM AuditsAccountForTrails == Spec => []AuditAccountsForTrail
<1>1. AuditInv => AuditAccountsForTrail
  BY DEF AuditInv, RowsAccounted, Rows, Accounted, AuditAccountsForTrail, Stored
<1>. QED
  BY <1>1, AuditInvariance, PTL

\* Every change named as the reason of a desired-state write was approved by
\* somebody other than its requestor.
THEOREM AppliedChangesHaveApprovals == Spec => []AppliedChangesWereApproved
<1>1. ApprovalInv => AppliedChangesWereApproved
  BY DEF ApprovalInv
<1>. QED
  BY <1>1, ApprovalInvariance, PTL
------------------------------------------------------------------------------
(* What requests act on *)

\* What a request is about to write follows from the row it read.
ReadsAllow ==
  \A r \in Requests :
    /\ pc[r] = "idle" => current[r] = NoChange
    /\ pc[r] = "saveChange" =>
         \E actor \in Operators :
           \/ /\ current[r] = NoChange
              /\ \E p \in Proposals : CreateAllowed(environment, p)
                                      /\ payload[r] = create(actor, p)
           \/ /\ current[r] # NoChange
              /\ \E next \in ChangeState :
                   /\ TransitionAllowed(environment, current[r], next, actor)
                   /\ payload[r] = transition(current[r], next, actor)
    /\ pc[r] = "setDesired" =>
         /\ desired[r] \in DesiredStates
         /\ environment = "production" =>
              /\ target[r] \in ChangeIds
              /\ current[r] # NoChange
              /\ MayMutate(current[r])

\* There is a version left for each write of the desired state that is on its way.
WritesFit ==
  /\ IsFiniteSet(PendingWrites)
  /\ PendingWrites # {} => configVersion + Cardinality(PendingWrites) <= MaxConfigVersion

ReadInv == ReadsAllow /\ WritesFit

\* The abstract module's rules are these.
LEMMA SameRules ==
  /\ \A env \in Environments, p \in Proposals :
       Lifecycle!CreateAllowed(env, p) = CreateAllowed(env, p)
  /\ \A actor \in Operators, p \in Proposals :
       Lifecycle!create(actor, p) = create(actor, p)
  /\ \A env \in Environments, change \in ChangeRequest, next \in ChangeState, actor \in Operators :
       /\ Lifecycle!TransitionAllowed(env, change, next, actor) =
            TransitionAllowed(env, change, next, actor)
       /\ Lifecycle!transition(change, next, actor) = transition(change, next, actor)
  /\ \A change \in ChangeRequest :
       Lifecycle!MayMutate(change) = MayMutate(change)
  /\ Lifecycle!ChangeState = ChangeState
BY DEF Lifecycle!CreateAllowed, CreateAllowed, Lifecycle!create, create,
       Lifecycle!TransitionAllowed, TransitionAllowed, Lifecycle!transition, transition,
       Lifecycle!MayMutate, MayMutate, Lifecycle!ChangeState, ChangeState,
       Lifecycle!forward, forward, Lifecycle!approvedMutationStates,
       approvedMutationStates

LEMMA InitReads == Init => ReadInv
<1> SUFFICES ASSUME Init PROVE ReadInv
  OBVIOUS
<1>1. PendingWrites = {}
  BY DEF Init, PendingWrites
<1>2. WritesFit
  BY <1>1, FS_EmptySet DEF WritesFit
<1>3. ReadsAllow
  BY DEF Init, ReadsAllow
<1>. QED
  BY <1>2, <1>3 DEF ReadInv

\* A step of a request that does not come to an await of the two writes, and what it
\* leaves of those of the others.
LEMMA OtherStepsKeepReads ==
  ASSUME IInv, ReadInv, NEW r \in Requests, pc'[r] \notin {"saveChange", "setDesired"},
         pc'[r] = "idle" => current'[r] = NoChange,
         \A q \in Requests \ {r} :
           /\ pc'[q] = pc[q] /\ target'[q] = target[q] /\ current'[q] = current[q]
           /\ payload'[q] = payload[q] /\ desired'[q] = desired[q],
         environment' = environment,
         configVersion' = configVersion + (IF pc[r] = "setDesired" THEN 1 ELSE 0)
           \/ configVersion' = configVersion
  PROVE  ReadInv'
<1>1. ReadsAllow'
  BY DEF ReadInv, ReadsAllow, CreateAllowed, TransitionAllowed
<1>2. PendingWrites' = PendingWrites \ {r}
  BY DEF PendingWrites
<1>3. WritesFit'
  <2>1. IsFiniteSet(PendingWrites) /\ Cardinality(PendingWrites) \in Nat
    BY FS_CardinalityType DEF ReadInv, WritesFit
  <2>2. /\ IsFiniteSet(PendingWrites \ {r})
        /\ Cardinality(PendingWrites \ {r}) =
             Cardinality(PendingWrites) - (IF pc[r] = "setDesired" THEN 1 ELSE 0)
    BY <2>1, FS_RemoveElement DEF PendingWrites
  <2>3. configVersion \in Nat /\ MaxConfigVersion \in Nat
    BY ConstantsAssumption DEF IInv, TypeOK
  <2>4. PendingWrites' # {} => configVersion + Cardinality(PendingWrites) <= MaxConfigVersion
    BY <1>2 DEF ReadInv, WritesFit
  <2>5. PendingWrites' # {} =>
          configVersion' + Cardinality(PendingWrites') <= MaxConfigVersion
    BY <1>2, <2>1, <2>2, <2>3, <2>4
  <2>. QED
    BY <1>2, <2>2, <2>5 DEF WritesFit
<1>. QED
  BY <1>1, <1>3 DEF ReadInv

LEMMA NextReads == IInv /\ ReadInv /\ [Next]_vars => ReadInv'
<1> SUFFICES ASSUME IInv, ReadInv, [Next]_vars PROVE ReadInv'
  OBVIOUS
<1>. pc \in [Requests -> Step] /\ target \in [Requests -> ChangeIds \cup {NoId}]
     /\ current \in [Requests -> ChangeRequest \cup {NoChange}]
     /\ payload \in [Requests -> ChangeRequest \cup {NoChange}]
     /\ desired \in [Requests -> DesiredStates \cup {EmptyState}]
     /\ configVersion \in Nat
  BY DEF IInv, TypeOK
<1>1. ASSUME NEW r \in Requests, NEW actor \in Operators, NEW c \in ChangeIds,
             NEW p \in Proposals, CreateChange(r, actor, c, p)
      PROVE  ReadInv'
  <2>1. /\ UNCHANGED <<environment, configVersion, current, desired>>
        /\ pc[r] = "idle" /\ pc'[r] = "saveChange"
        /\ payload'[r] = create(actor, p) /\ CreateAllowed(environment, p)
        /\ \A q \in Requests \ {r} :
             pc'[q] = pc[q] /\ target'[q] = target[q] /\ payload'[q] = payload[q]
    BY <1>1 DEF CreateChange, Goto, store
  <2>2. current[r] = NoChange
    BY <2>1 DEF ReadInv, ReadsAllow
  <2>3. ReadsAllow'
    BY <2>1, <2>2 DEF ReadInv, ReadsAllow, CreateAllowed, TransitionAllowed
  <2>4. PendingWrites' = PendingWrites
    BY <2>1 DEF PendingWrites
  <2>. QED
    BY <2>1, <2>3, <2>4 DEF ReadInv, WritesFit
<1>2. ASSUME NEW r \in Requests, NEW actor \in Operators, NEW c \in ChangeIds,
             NEW next \in ChangeState, TransitionChange(r, actor, c, next)
      PROVE  ReadInv'
  <2>0. PICK row \in Rows(c) :
          /\ TransitionAllowed(environment, row, next, actor)
          /\ current' = [current EXCEPT ![r] = row]
          /\ payload' = [payload EXCEPT ![r] = transition(row, next, actor)]
    BY <1>2 DEF TransitionChange
  <2>1. /\ UNCHANGED <<environment, configVersion, desired>>
        /\ pc[r] = "idle" /\ pc'[r] = "saveChange"
        /\ current'[r] = row /\ row # NoChange
        /\ payload'[r] = transition(row, next, actor)
        /\ TransitionAllowed(environment, row, next, actor)
        /\ \A q \in Requests \ {r} :
             /\ pc'[q] = pc[q] /\ target'[q] = target[q] /\ current'[q] = current[q]
             /\ payload'[q] = payload[q]
    BY <1>2, <2>0 DEF TransitionChange, Goto, store, Rows
  <2>2. ReadsAllow'
    BY <2>1 DEF ReadInv, ReadsAllow, CreateAllowed, TransitionAllowed
  <2>3. PendingWrites' = PendingWrites
    BY <2>1 DEF PendingWrites
  <2>. QED
    BY <2>1, <2>2, <2>3 DEF ReadInv, WritesFit
<1>3. ASSUME NEW r \in Requests, NEW d \in DesiredStates,
             NEW c \in ChangeIds \cup {NoId}, BeginPutDesired(r, d, c)
      PROVE  ReadInv'
  <2>1. /\ UNCHANGED <<environment, configVersion, payload>>
        /\ pc[r] = "idle" /\ pc'[r] = "setDesired" /\ desired'[r] = d /\ target'[r] = c
        /\ environment = "production" =>
             c \in ChangeIds /\ current'[r] # NoChange /\ MayMutate(current'[r])
        /\ \A q \in Requests \ {r} :
             /\ pc'[q] = pc[q] /\ target'[q] = target[q] /\ current'[q] = current[q]
             /\ desired'[q] = desired[q]
    BY <1>3 DEF BeginPutDesired, Goto, store, Rows
  <2>2. ReadsAllow'
    BY <2>1, ConstantsAssumption DEF ReadInv, ReadsAllow, CreateAllowed, TransitionAllowed
  <2>3. PendingWrites' = PendingWrites \cup {r} /\ r \notin PendingWrites
    BY <2>1 DEF PendingWrites
  <2>4. IsFiniteSet(PendingWrites) /\ Cardinality(PendingWrites) \in Nat
    BY FS_CardinalityType DEF ReadInv, WritesFit
  <2>5. IsFiniteSet(PendingWrites') /\ Cardinality(PendingWrites') = Cardinality(PendingWrites) + 1
    BY <2>3, <2>4, FS_AddElement
  <2>6. configVersion + Cardinality(PendingWrites) < MaxConfigVersion
    BY <1>3 DEF BeginPutDesired
  <2>7. WritesFit'
    BY <2>1, <2>4, <2>5, <2>6, ConstantsAssumption DEF WritesFit
  <2>. QED
    BY <2>2, <2>7 DEF ReadInv
<1>4. ASSUME NEW r \in Requests,
             \/ saveChange(r) \/ AuditChange(r) \/ setDesiredState(r)
             \/ AuditDesired(r) \/ AuditApplied(r) \/ BeginGetDesired(r)
             \/ getConfigVersion(r) \/ getDesiredState(r) \/ Respond(r) \/ Crash(r)
      PROVE  ReadInv'
  <2>1. /\ pc'[r] \notin {"saveChange", "setDesired"}
        /\ pc'[r] = "idle" => current'[r] = NoChange
        /\ environment' = environment
        /\ \A q \in Requests \ {r} :
             /\ pc'[q] = pc[q] /\ target'[q] = target[q] /\ current'[q] = current[q]
             /\ payload'[q] = payload[q] /\ desired'[q] = desired[q]
    BY <1>4 DEF saveChange, AuditChange, setDesiredState, AuditDesired, AuditApplied,
                BeginGetDesired, getConfigVersion, getDesiredState, Respond, Crash,
                Release, Goto
  <2>2. \/ configVersion' = configVersion
        \/ configVersion' = configVersion + 1 /\ pc[r] = "setDesired"
    BY <1>4 DEF saveChange, AuditChange, setDesiredState, AuditDesired, AuditApplied,
                BeginGetDesired, getConfigVersion, getDesiredState, Respond, Crash, store
  <2>3. configVersion' = configVersion + (IF pc[r] = "setDesired" THEN 1 ELSE 0)
          \/ configVersion' = configVersion
    BY <2>2
  <2>. QED
    BY <2>1, <2>3, OtherStepsKeepReads
<1>5. ASSUME UNCHANGED <<environment, configVersion, locals>>
      PROVE  ReadInv'
  BY <1>5 DEF locals, ReadInv, ReadsAllow, WritesFit, PendingWrites,
              CreateAllowed, TransitionAllowed
<1>6. ASSUME NEW c \in ChangeIds,
             CommitRow(c) \/ RollBackRow(c) \/ \E s \in ChangeState : EndAudit(c, s)
      PROVE  ReadInv'
  BY <1>5, <1>6 DEF CommitRow, RollBackRow, EndAudit, store
<1>7. CASE UNCHANGED vars
  BY <1>5, <1>7 DEF vars, store
<1>. QED
  BY <1>1, <1>2, <1>3, <1>4, <1>6, <1>7 DEF Next, RequestStep

\* What ReadInv says of the rows requests act on always holds.
THEOREM ReadInvariance == Spec => []ReadInv
BY InitReads, NextReads, Invariance, PTL DEF Spec

\* The write of a request whose row is still the one it read is a step of the lifecycle;
\* no other step is felt there, but for the rollback of a save.
LEMMA StepRefines ==
  ASSUME IInv, ReadInv, [Next]_vars
  PROVE  \/ UNCHANGED Lifecycle!vars
         \/ \E r \in Requests : Overtaken(r) /\ pc'[r] # pc[r]
         \/ \E c \in ChangeIds : RollBackRow(c)
         \/ Lifecycle!Next
<1>. changes \in [ChangeIds -> ChangeRequest \cup {NoChange}]
     /\ environment \in Environments /\ pc \in [Requests -> Step]
     /\ configVersion \in Nat /\ MaxConfigVersion \in Nat
  BY ConstantsAssumption DEF IInv, TypeOK
<1>1. ASSUME NEW r \in Requests, saveChange(r), ~Overtaken(r)
      PROVE  Lifecycle!Next
  <2> DEFINE c == target[r]
  <2>1. PICK actor \in Operators :
          \/ /\ current[r] = NoChange
             /\ \E p \in Proposals : CreateAllowed(environment, p)
                                     /\ payload[r] = create(actor, p)
          \/ /\ current[r] # NoChange
             /\ \E next \in ChangeState :
                  /\ TransitionAllowed(environment, current[r], next, actor)
                  /\ payload[r] = transition(current[r], next, actor)
    BY <1>1 DEF saveChange, ReadInv, ReadsAllow
  <2>2. c \in ChangeIds /\ changes[c] = current[r]
    BY <1>1, ConstantsAssumption DEF saveChange, Overtaken, IInv, LocalsSound
  <2>3. /\ changes' = [changes EXCEPT ![c] = payload[r]]
        /\ UNCHANGED <<environment, configVersion, desiredState>>
    BY <1>1 DEF saveChange
  <2>4. CASE changes[c] = NoChange
    <3>1. PICK p \in Proposals : CreateAllowed(environment, p) /\ payload[r] = create(actor, p)
      BY <2>1, <2>2, <2>4
    <3>2. Lifecycle!Create(actor, c, p)
      BY <2>3, <2>4, <3>1, SameRules DEF Lifecycle!Create
    <3>. QED
      BY <2>2, <3>2 DEF Lifecycle!Next
  <2>5. CASE changes[c] # NoChange
    <3>1. PICK next \in ChangeState :
            /\ TransitionAllowed(environment, changes[c], next, actor)
            /\ payload[r] = transition(changes[c], next, actor)
      BY <2>1, <2>2, <2>5
    <3>2. changes[c] \in ChangeRequest
      BY <2>2, <2>5
    <3>3. Lifecycle!Move(actor, c, next)
      BY <2>3, <2>5, <3>1, <3>2, SameRules DEF Lifecycle!Move
    <3>. QED
      BY <2>2, <3>3, SameRules DEF Lifecycle!Next
  <2>. QED
    BY <2>4, <2>5
<1>2. ASSUME NEW r \in Requests, setDesiredState(r), ~Overtaken(r)
      PROVE  Lifecycle!Next
  <2>1. /\ desired[r] \in DesiredStates
        /\ environment = "production" =>
             target[r] \in ChangeIds /\ current[r] # NoChange /\ MayMutate(current[r])
    BY <1>2 DEF setDesiredState, ReadInv, ReadsAllow
  <2>2. configVersion < MaxConfigVersion
    <3>1. r \in PendingWrites
      BY <1>2 DEF setDesiredState, PendingWrites
    <3>2. IsFiniteSet(PendingWrites) /\ Cardinality(PendingWrites) \in Nat
      BY FS_CardinalityType DEF ReadInv, WritesFit
    <3>3. Cardinality(PendingWrites) # 0
      BY <3>1, <3>2, FS_EmptySet
    <3>. QED
      BY <3>1, <3>2, <3>3 DEF ReadInv, WritesFit
  <2>3. environment = "production" =>
          \E c \in ChangeIds : changes[c] # NoChange /\ Lifecycle!MayMutate(changes[c])
    <3>1. HAVE environment = "production"
    <3>2. target[r] \in ChangeIds /\ changes[target[r]] = current[r]
      BY <1>2, <2>1, <3>1, ConstantsAssumption DEF setDesiredState, Overtaken
    <3>3. changes[target[r]] \in ChangeRequest
      BY <2>1, <3>1, <3>2
    <3>. QED
      BY <2>1, <3>1, <3>2, <3>3, SameRules
  <2>4. Lifecycle!PutDesired(desired[r])
    BY <1>2, <2>2, <2>3 DEF setDesiredState, Lifecycle!PutDesired
  <2>. QED
    BY <2>1, <2>4 DEF Lifecycle!Next
<1>3. ASSUME NEW r \in Requests, saveChange(r) \/ setDesiredState(r)
      PROVE  pc'[r] # pc[r]
  BY <1>3 DEF saveChange, setDesiredState, Goto
<1>4. ASSUME NEW r \in Requests,
             \/ \E actor \in Operators, c \in ChangeIds, p \in Proposals :
                  CreateChange(r, actor, c, p)
             \/ \E actor \in Operators, c \in ChangeIds, next \in ChangeState :
                  TransitionChange(r, actor, c, next)
             \/ AuditChange(r)
             \/ \E d \in DesiredStates, c \in ChangeIds \cup {NoId} :
                  BeginPutDesired(r, d, c)
             \/ AuditDesired(r) \/ AuditApplied(r) \/ BeginGetDesired(r)
             \/ getConfigVersion(r) \/ getDesiredState(r) \/ Respond(r) \/ Crash(r)
      PROVE  UNCHANGED Lifecycle!vars
  BY <1>4 DEF CreateChange, TransitionChange, AuditChange, BeginPutDesired,
              AuditDesired, AuditApplied, BeginGetDesired, getConfigVersion,
              getDesiredState, Respond, Crash, store, open, ghosts, Lifecycle!vars
<1>5. ASSUME NEW c \in ChangeIds,
             CommitRow(c) \/ \E s \in ChangeState : EndAudit(c, s)
      PROVE  UNCHANGED Lifecycle!vars
  BY <1>5 DEF CommitRow, EndAudit, store, Lifecycle!vars
<1>6. CASE UNCHANGED vars
  BY <1>6 DEF vars, store, Lifecycle!vars
<1>. QED
  BY <1>1, <1>2, <1>3, <1>4, <1>5, <1>6 DEF Next, RequestStep

\* For any number of requests: what the API does between two queries of a handler is
\* what the atomic lifecycle does, save for the writes of requests that were overtaken
\* and for the saves an activation rolls back.
THEOREM OnlyOvertakenStray == Spec => StraysOnlyOvertaken
<1>1. IInv /\ ReadInv /\ [Next]_vars =>
        [\/ UNCHANGED Lifecycle!vars
         \/ \E r \in Requests : Overtaken(r) /\ pc'[r] # pc[r]
         \/ \E c \in ChangeIds : RollBackRow(c)
         \/ Lifecycle!Next]_vars
  BY StepRefines
<1>. QED
  BY <1>1, Invariance, ReadInvariance, PTL DEF Spec, StraysOnlyOvertaken
------------------------------------------------------------------------------
(* One request at a time *)

\* Outside of the transactions of activations nothing is held.
NothingHeld ==
  /\ \A c \in ChangeIds : held[c] = {}
  /\ heldAudit = {}

LEMMA NothingIsHeld ==
  ASSUME MaxStrays = 0, IInv, NothingHeld, [Next]_vars
  PROVE  /\ NothingHeld'
         /\ \A c \in ChangeIds : ~RollBackRow(c)
<1>1. ~Stray
  BY DEF IInv, TypeOK, Stray
<1>2. ASSUME NEW r \in Requests, RequestStep(r)
      PROVE  UNCHANGED <<held, heldAudit>>
  BY <1>1, <1>2 DEF RequestStep, CreateChange, TransitionChange, saveChange, AuditChange,
              BeginPutDesired, setDesiredState, AuditDesired, AuditApplied, BeginGetDesired,
              getConfigVersion, getDesiredState, Respond, Crash, open
<1>3. ASSUME NEW c \in ChangeIds
      PROVE  ~CommitRow(c) /\ ~RollBackRow(c) /\ \A s \in ChangeState : ~EndAudit(c, s)
  BY DEF CommitRow, RollBackRow, EndAudit, NothingHeld
<1>4. ASSUME UNCHANGED vars
      PROVE  UNCHANGED <<held, heldAudit>>
  BY <1>4 DEF vars, open
<1>. QED
  BY <1>2, <1>3, <1>4 DEF Next, NothingHeld

\* Nobody else is in flight to overwrite what a request read.
LEMMA NobodyIsOvertaken ==
  ASSUME \A q, r \in Requests : q = r, MaxStrays = 0, IInv, ReadInv, NothingHeld, [Next]_vars,
         \A r \in Requests : ~Overtaken(r)
  PROVE  \A r \in Requests : ~Overtaken(r)'
<1>. pc \in [Requests -> Step] /\ target \in [Requests -> ChangeIds \cup {NoId}]
     /\ current \in [Requests -> ChangeRequest \cup {NoChange}]
  BY DEF IInv, TypeOK
<1>1. ASSUME NEW r \in Requests, NEW actor \in Operators, NEW c \in ChangeIds,
             NEW p \in Proposals, CreateChange(r, actor, c, p)
      PROVE  ~Overtaken(r)'
  <2>1. /\ UNCHANGED <<changes, current>> /\ target'[r] = c
        /\ pc[r] = "idle" /\ changes[c] = NoChange
    BY <1>1 DEF CreateChange, Fresh, store
  <2>2. current[r] = NoChange
    BY <2>1 DEF ReadInv, ReadsAllow
  <2>. QED
    BY <2>1, <2>2 DEF Overtaken
<1>2. ASSUME NEW r \in Requests,
             \/ \E actor \in Operators, c \in ChangeIds, next \in ChangeState :
                  TransitionChange(r, actor, c, next)
             \/ \E d \in DesiredStates, c \in ChangeIds \cup {NoId} :
                  BeginPutDesired(r, d, c)
      PROVE  ~Overtaken(r)'
  <2>1. /\ changes' = changes
        /\ current'[r] = IF target'[r] = NoId THEN NoChange ELSE changes[target'[r]]
    <3>1. \A c \in ChangeIds : Rows(c) \subseteq {changes[c]}
      BY DEF Rows, NothingHeld
    <3>2. pc[r] = "idle" => current[r] = NoChange
      BY DEF ReadInv, ReadsAllow
    <3>. QED
      BY <1>2, <3>1, <3>2, ConstantsAssumption DEF TransitionChange, BeginPutDesired, store
  <2>. QED
    BY <2>1 DEF Overtaken
<1>3. ASSUME NEW r \in Requests,
             \/ saveChange(r) \/ AuditChange(r) \/ setDesiredState(r)
             \/ AuditDesired(r) \/ AuditApplied(r) \/ BeginGetDesired(r)
             \/ getConfigVersion(r) \/ getDesiredState(r) \/ Respond(r) \/ Crash(r)
      PROVE  ~Overtaken(r)'
  <2>1. pc'[r] \notin {"saveChange", "setDesired"}
    BY <1>3 DEF saveChange, AuditChange, setDesiredState, AuditDesired, AuditApplied,
                BeginGetDesired, getConfigVersion, getDesiredState, Respond, Crash,
                Release, Goto
  <2>. QED
    BY <2>1 DEF Overtaken
<1>4. CASE UNCHANGED vars
  BY <1>4 DEF vars, store, locals, Overtaken
<1>5. ASSUME NEW r \in Requests, ~Overtaken(r)'
      PROVE  \A q \in Requests : ~Overtaken(q)'
  BY <1>5
<1>6. ASSUME NEW c \in ChangeIds
      PROVE  ~CommitRow(c) /\ ~RollBackRow(c) /\ \A s \in ChangeState : ~EndAudit(c, s)
  BY DEF CommitRow, RollBackRow, EndAudit, NothingHeld
<1>. QED
  BY <1>1, <1>2, <1>3, <1>4, <1>5, <1>6 DEF Next, RequestStep

\* Where requests are served one at a time and no query runs in the transaction of an
\* activation, each of them acts at once on the records as they are, crashes between its
\* queries included.
THEOREM SequentialRequestsAreAtomic ==
  (\A q, r \in Requests : q = r) /\ MaxStrays = 0 => (Spec => ImplementsLifecycle)
<1> SUFFICES ASSUME \A q, r \in Requests : q = r, MaxStrays = 0
             PROVE  Spec => ImplementsLifecycle
  OBVIOUS
<1> DEFINE Kept == NothingHeld /\ \A r \in Requests : ~Overtaken(r)
<1>1. Init => Kept
  BY DEF Init, Overtaken, NothingHeld
<1>2. Init => Lifecycle!Init
  BY DEF Init, Lifecycle!Init
<1>3. IInv /\ ReadInv /\ Kept /\ [Next]_vars => Kept'
  BY NobodyIsOvertaken, NothingIsHeld
<1>4. IInv /\ ReadInv /\ Kept /\ [Next]_vars => [Lifecycle!Next]_Lifecycle!vars
  BY StepRefines, NothingIsHeld
<1>5. Spec => []IInv /\ []ReadInv
  BY Invariance, ReadInvariance
<1> HIDE DEF Kept
<1>. QED
  BY <1>1, <1>2, <1>3, <1>4, <1>5, PTL DEF Spec, ImplementsLifecycle, Lifecycle!Spec
==============================================================================
