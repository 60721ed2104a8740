-------------------------- MODULE Services_proofs ---------------------------
(***************************************************************************)
(* What the components of Services guarantee for any constants.  Each is   *)
(* proved of the component's own specification, which what Services does   *)
(* to it implements (SubjectsAreComponents).                               *)
(***************************************************************************)
EXTENDS Services, FiniteSetTheorems, WellFoundedInduction, TLAPS

\* A behaviour of Services is one of each component: of the subject by its steps, of the
\* others by none.
THEOREM SubjectsAreComponents ==
  Spec => /\ LeaseSpec /\ DomainSpec /\ ResilienceSpec /\ GatewaySpec /\ UploadSpec
          /\ ScopeSpec /\ LimiterSpec /\ Section19Spec /\ CollectorSpec /\ CacheSpec
PROOF
<1>1. Init => /\ LeaseInit /\ DomainInit /\ ResilienceInit /\ GatewayInit /\ UploadInit
              /\ ScopeInit /\ LimiterInit /\ Section19Init /\ CollectorInit /\ CacheInit
  BY DEF Init
<1>2. [Next]_servicesVars =>
        /\ [LeaseNext]_leaseVars /\ [DomainNext]_domainVars
        /\ [ResilienceNext]_resilienceVars /\ [GatewayNext]_gatewayVars
        /\ [UploadNext]_uploadVars /\ [ScopeNext]_scopeVars
        /\ [LimiterNext]_limiterVars /\ [Section19Next]_section19Vars
        /\ [CollectorNext]_collectorVars /\ [CacheNext]_cacheVars
  BY DEF Next, OthersStay, servicesVars
<1> QED
  BY <1>1, <1>2, PTL
  DEF Spec, LeaseSpec, DomainSpec, ResilienceSpec, GatewaySpec, UploadSpec, ScopeSpec,
      LimiterSpec, Section19Spec, CollectorSpec, CacheSpec
-----------------------------------------------------------------------------
(* Leases *)

\* Who holds the lock is at work with it, and who works without it has lost it.
LeaseInv ==
  /\ LeaseTypeOK
  /\ \A c \in Callers : at[c] = "fn" => (holder = c \/ c \in lost)
  /\ \A c \in Callers : holder = c => at[c] # "acquire"

LEMMA LeaseInvariance == LeaseSpec => []LeaseInv
PROOF
<1>1. LeaseInit => LeaseInv
  BY LeasesAssumption DEF LeaseInit, LeaseInv, LeaseTypeOK
<1>2. LeaseInv /\ [LeaseNext]_leaseVars => LeaseInv'
  <2> SUFFICES ASSUME LeaseInv, [LeaseNext]_leaseVars PROVE LeaseInv'
    OBVIOUS
  <2> USE LeasesAssumption DEF LeaseInv, LeaseTypeOK
  <2>1. CASE EndLease
    BY <2>1 DEF EndLease
  <2>2. ASSUME NEW c \in Callers, acquire(c) PROVE LeaseInv'
    BY <2>2 DEF acquire, Passed
  <2>3. ASSUME NEW c \in Callers, AcquireUnheard(c) PROVE LeaseInv'
    BY <2>3 DEF AcquireUnheard, Passed
  <2>4. ASSUME NEW c \in Callers, fn(c) PROVE LeaseInv'
    BY <2>4 DEF fn, Passed
  <2>5. ASSUME NEW c \in Callers, release(c) PROVE LeaseInv'
    BY <2>5 DEF release, Passed
  <2>6. ASSUME NEW c \in Callers, CallerDies(c) PROVE LeaseInv'
    BY <2>6 DEF CallerDies
  <2>7. CASE UNCHANGED leaseVars
    BY <2>7 DEF leaseVars
  <2> QED
    BY <2>1, <2>2, <2>3, <2>4, <2>5, <2>6, <2>7 DEF LeaseNext
<1> QED BY <1>1, <1>2, PTL DEF LeaseSpec

\* For any number of callers.
THEOREM LocksAreExclusive == LeaseSpec => []ExclusiveUnlessLost
PROOF
<1>1. LeaseInv => ExclusiveUnlessLost
  BY DEF LeaseInv, ExclusiveUnlessLost
<1> QED BY <1>1, LeaseInvariance, PTL
-----------------------------------------------------------------------------
(* Domain services *)

\* A call that is past its lookup had a free name when it began; what a call has done
\* follows from where it is.
DomainInv ==
  /\ DomainTypeOK
  /\ \A c \in Creations :
       /\ taken[c] \subseteq rows \ {c}
       /\ op[c].kind \in {"createWorkspace", "createConnection"} /\ (stage[c] = "save" \/ c \in rows)
            => \A d \in taken[c] : ~SameName(c, d)
       /\ c \in rows => stage[c] \in {"enqueue", "done", "failed"}
       /\ c \in queued => stage[c] = "done" /\ op[c].kind \in {"request", "queueDelivery"}
       /\ stage[c] = "save" => op[c].kind # "queueDelivery"
       /\ stage[c] = "enqueue" =>
            op[c].kind = "queueDelivery" \/ (op[c].kind = "request" /\ c \in rows)
       /\ stage[c] \in {"tenant", "find"} => op[c].kind \in {"createWorkspace", "createConnection"}
  /\ AnsweredIsKept

LEMMA DomainInvariance == DomainSpec => []DomainInv
PROOF
<1>1. DomainInit => DomainInv
  BY DEF DomainInit, DomainInv, DomainTypeOK, AnsweredIsKept, NoInput
<1>2. DomainInv /\ [DomainNext]_domainVars => DomainInv'
  <2> SUFFICES ASSUME DomainInv, [DomainNext]_domainVars PROVE DomainInv'
    OBVIOUS
  <2> USE DEF DomainInv, DomainTypeOK, AnsweredIsKept, SameName, ToStage
  <2>1. CASE SuspendTenant
    BY <2>1 DEF SuspendTenant
  <2>2. ASSUME NEW c \in Creations, BeginCall(c) PROVE DomainInv'
    <3>1. PICK kind \in Operations, name \in Spellings :
            /\ op' = [op EXCEPT ![c] = [kind |-> kind, name |-> name]]
            /\ stage' = [stage EXCEPT ![c] = FirstAwait(kind)]
      BY <2>2 DEF BeginCall
    <3>2. stage[c] = "begin" /\ c \notin rows /\ c \notin queued
      BY <2>2 DEF BeginCall
    <3>3. /\ taken' = [taken EXCEPT ![c] = rows]
          /\ UNCHANGED <<tenantActive, rows, queued>>
      BY <2>2 DEF BeginCall
    <3>4. FirstAwait(kind) \in {"tenant", "find", "save", "enqueue"}
      BY DEF FirstAwait, Operations
    <3>5. DomainTypeOK'
      BY <3>1, <3>3, <3>4
    <3>6. ASSUME NEW d \in Creations PROVE
            /\ taken'[d] \subseteq rows' \ {d}
            /\ op'[d].kind \in {"createWorkspace", "createConnection"}
                 /\ (stage'[d] = "save" \/ d \in rows')
                 => \A e \in taken'[d] : ~SameName(d, e)'
            /\ d \in rows' => stage'[d] \in {"enqueue", "done", "failed"}
            /\ d \in queued' => stage'[d] = "done" /\ op'[d].kind \in {"request", "queueDelivery"}
            /\ stage'[d] = "save" => op'[d].kind # "queueDelivery"
            /\ stage'[d] = "enqueue" =>
                 op'[d].kind = "queueDelivery" \/ (op'[d].kind = "request" /\ d \in rows')
            /\ stage'[d] \in {"tenant", "find"} => op'[d].kind \in {"createWorkspace", "createConnection"}
      <4>1. CASE d = c
        <5>1. /\ op'[d].kind = kind /\ stage'[d] = FirstAwait(kind)
              /\ taken'[d] = rows /\ d \notin rows' /\ d \notin queued' /\ rows' = rows
          BY <4>1, <3>1, <3>2, <3>3
        <5>2. /\ FirstAwait(kind) = "save" => kind \in {"request", "record"}
              /\ FirstAwait(kind) = "enqueue" => kind = "queueDelivery"
              /\ FirstAwait(kind) \in {"tenant", "find"} =>
                   kind \in {"createWorkspace", "createConnection"}
          BY DEF FirstAwait, Operations
        <5> QED BY <5>1, <5>2
      <4>2. CASE d # c
        <5>1. /\ op'[d] = op[d] /\ stage'[d] = stage[d] /\ taken'[d] = taken[d]
              /\ rows' = rows /\ queued' = queued
          BY <4>2, <3>1, <3>3
        <5>2. \A e \in taken[d] : e # c /\ op'[e] = op[e]
          BY <3>1, <3>2
        <5>3. \A e \in taken[d] : SameName(d, e)' <=> SameName(d, e)
          BY <5>1, <5>2
        <5> QED BY <5>1, <5>3
      <4> QED BY <4>1, <4>2
    <3>7. AnsweredIsKept'
      <4>1. \A d \in Creations : d # c => op'[d] = op[d] /\ stage'[d] = stage[d]
        BY <3>1
      <4>2. stage'[c] # "done" /\ rows' = rows /\ queued' = queued
        BY <3>1, <3>3, <3>4
      <4> QED BY <3>2, <4>1, <4>2
    <3> QED BY <3>5, <3>6, <3>7
  <2>3. ASSUME NEW c \in Creations, getTenant(c) PROVE DomainInv'
    BY <2>3 DEF getTenant
  <2>4. ASSUME NEW c \in Creations, findByName(c) PROVE DomainInv'
    BY <2>4 DEF findByName, Found
  <2>5. ASSUME NEW c \in Creations, save(c) PROVE DomainInv'
    BY <2>5 DEF save
  <2>6. ASSUME NEW c \in Creations, enqueueJob(c) PROVE DomainInv'
    BY <2>6 DEF enqueueJob
  <2>7. ASSUME NEW c \in Creations, AwaitFails(c) PROVE DomainInv'
    BY <2>7 DEF AwaitFails
  <2>8. CASE UNCHANGED domainVars
    BY <2>8 DEF domainVars
  <2> QED
    BY <2>1, <2>2, <2>3, <2>4, <2>5, <2>6, <2>7, <2>8 DEF DomainNext
<1> QED BY <1>1, <1>2, PTL DEF DomainSpec

\* For any calls, any names and any way of writing them.
THEOREM NamesAreRefused == DomainSpec => []TakenNamesAreRefused
PROOF
<1>1. ASSUME NEW c \in Creations, NEW d \in Creations, SameName(c, d)
      PROVE  SameName(d, c) /\ op[c].kind = op[d].kind
  BY <1>1 DEF SameName
<1>2. DomainInv => TakenNamesAreRefused
  BY <1>1 DEF DomainInv, DomainTypeOK, TakenNamesAreRefused
<1> QED BY <1>2, DomainInvariance, PTL

\* A row, then its job, then the answer.
THEOREM AnswersAreKept == DomainSpec => []AnsweredIsKept
PROOF
<1>1. DomainInv => AnsweredIsKept
  BY DEF DomainInv
<1> QED BY <1>1, DomainInvariance, PTL
-----------------------------------------------------------------------------
(* Resilience *)

\* Waiters are the calls that wait, each of them once.
ResilienceInv ==
  /\ ResilienceTypeOK
  /\ SlotsAreKept
  /\ \A n \in 1 .. Len(waiters) : doing[waiters[n]] = "wait"
  /\ \A m, n \in 1 .. Len(waiters) : waiters[m] = waiters[n] => m = n

Woken == InState({"woken"})
In    == InState(Inside)

LEMMA StatesAreFinite ==
  ASSUME NEW steps
  PROVE  IsFiniteSet(InState(steps)) /\ Cardinality(InState(steps)) \in Nat
PROOF
<1>1. InState(steps) \subseteq Users
  BY DEF InState
<1> QED BY <1>1, FS_Subset, FS_CardinalityType, ResilienceAssumption

LEMMA NextAreFinite ==
  ASSUME NEW steps
  PROVE  IsFiniteSet(InState(steps)') /\ Cardinality(InState(steps)') \in Nat
PROOF
<1>1. InState(steps)' \subseteq Users
  BY DEF InState
<1> QED BY <1>1, FS_Subset, FS_CardinalityType, ResilienceAssumption

\* A call goes in.
LEMMA GoesIn ==
  ASSUME ResilienceTypeOK, NEW u \in Users, doing[u] \notin Inside, GoIn(u)
  PROVE  /\ Cardinality(In)' = Cardinality(In) + 1
         /\ doing[u] # "woken" => Cardinality(Woken)' = Cardinality(Woken)
         /\ doing[u] = "woken" => Cardinality(Woken)' = Cardinality(Woken) - 1
PROOF
<1>1. /\ In' = In \cup {u} /\ u \notin In
      /\ Woken' = Woken \ {u} /\ (u \in Woken <=> doing[u] = "woken")
  BY DEF GoIn, Then, In, Woken, InState, Inside, ResilienceTypeOK
<1>2. IsFiniteSet(In) /\ IsFiniteSet(Woken)
  BY StatesAreFinite DEF In, Woken
<1> QED BY <1>1, <1>2, FS_AddElement, FS_RemoveElement

\* A call inside stays inside.
LEMMA StaysIn ==
  ASSUME ResilienceInv, NEW u \in Users, doing[u] \in Inside,
         NEW step \in Inside, Then(u, step), UNCHANGED <<active, waiters>>,
         ResilienceTypeOK'
  PROVE  ResilienceInv'
PROOF
<1>1. In' = In /\ Woken' = Woken
  BY DEF Then, In, Woken, InState, Inside, ResilienceTypeOK, ResilienceInv
<1>2. SlotsAreKept'
  BY <1>1 DEF SlotsAreKept, ResilienceInv, In, Woken
<1>3. \A n \in 1 .. Len(waiters) : waiters[n] \in Users /\ waiters[n] # u
  BY DEF ResilienceInv, ResilienceTypeOK, Inside
<1>4. \A n \in 1 .. Len(waiters') : doing'[waiters'[n]] = "wait"
  BY <1>3 DEF ResilienceInv, ResilienceTypeOK, Then
<1> QED BY <1>2, <1>4 DEF ResilienceInv

LEMMA ResilienceInvariance == ResilienceSpec => []ResilienceInv
PROOF
<1> USE ResilienceAssumption
<1>1. ResilienceInit => ResilienceInv
  <2> SUFFICES ASSUME ResilienceInit PROVE ResilienceInv
    OBVIOUS
  <2>1. ResilienceTypeOK
    BY DEF ResilienceInit, ResilienceTypeOK
  <2>2. InState(Inside) = {} /\ waiters = <<>> /\ active = 0
    BY DEF ResilienceInit, InState, Inside
  <2> QED BY <2>1, <2>2, FS_EmptySet DEF ResilienceInv, SlotsAreKept
<1>2. ResilienceInv /\ [ResilienceNext]_resilienceVars => ResilienceInv'
  <2> SUFFICES ASSUME ResilienceInv, [ResilienceNext]_resilienceVars PROVE ResilienceInv'
    OBVIOUS
  <2>0. /\ active = Cardinality(In) /\ active \in Nat /\ Cardinality(Woken) \in Nat
        /\ waiters # <<>> => active + Cardinality(Woken) >= Limit
        /\ waiters \in Seq(Users) /\ doing \in [Users -> {"none", "wait", "woken"} \cup Inside]
    BY StatesAreFinite DEF ResilienceInv, ResilienceTypeOK, SlotsAreKept, In, Woken
  <2>k. ASSUME In' = In, Woken' = Woken, UNCHANGED <<active, doing, waiters>>, ResilienceTypeOK'
        PROVE  ResilienceInv'
    BY <2>k DEF ResilienceInv, SlotsAreKept, In, Woken
  <2>1. CASE ResetElapses
    BY <2>1, <2>k DEF ResetElapses, ResilienceInv, ResilienceTypeOK, In, Woken, InState
  <2>2. CASE OrphanEnds
    BY <2>2, <2>k DEF OrphanEnds, ResilienceInv, ResilienceTypeOK, In, Woken, InState
  <2>3. ASSUME NEW u \in Users, BulkheadRun(u) PROVE ResilienceInv'
    <3>1. CASE active >= Limit
      <4>1. /\ doing[u] = "none" /\ waiters' = Append(waiters, u)
            /\ doing' = [doing EXCEPT ![u] = "wait"] /\ active' = active
            /\ UNCHANGED <<tries, failed, circuit, orphans>> /\ begun' = begun + 1
        BY <2>3, <3>1 DEF BulkheadRun, Then
      <4>2. In' = In /\ Woken' = Woken
        BY <4>1, <2>0 DEF In, Woken, InState, Inside
      <4>3. SlotsAreKept'
        BY <4>1, <4>2, <3>1, <2>0 DEF SlotsAreKept, In, Woken
      <4>4. ResilienceTypeOK'
        BY <4>1 DEF ResilienceInv, ResilienceTypeOK
      <4>5. \A n \in 1 .. Len(waiters) : waiters[n] \in Users /\ waiters[n] # u
        BY <4>1 DEF ResilienceInv, ResilienceTypeOK
      <4>6. /\ Len(waiters') = Len(waiters) + 1 /\ waiters'[Len(waiters) + 1] = u
            /\ \A n \in 1 .. Len(waiters) : waiters'[n] = waiters[n]
        BY <4>1, <2>0
      <4>7. \A n \in 1 .. Len(waiters') : doing'[waiters'[n]] = "wait"
        BY <4>1, <4>5, <4>6, <2>0 DEF ResilienceInv
      <4>8. \A m, n \in 1 .. Len(waiters') : waiters'[m] = waiters'[n] => m = n
        <5>1. \A m, n \in 1 .. Len(waiters) : waiters[m] = waiters[n] => m = n
          BY DEF ResilienceInv
        <5>2. \A n \in 1 .. Len(waiters') : n = Len(waiters) + 1 \/ n \in 1 .. Len(waiters)
          BY <4>6, <2>0
        <5> QED BY <4>5, <4>6, <5>1, <5>2
      <4> QED BY <4>3, <4>4, <4>7, <4>8 DEF ResilienceInv
    <3>2. CASE ~(active >= Limit)
      <4>1. doing[u] = "none" /\ GoIn(u) /\ UNCHANGED waiters /\ begun' = begun + 1
        BY <2>3, <3>2 DEF BulkheadRun
      <4>2. Cardinality(In)' = Cardinality(In) + 1 /\ Cardinality(Woken)' = Cardinality(Woken)
        BY <4>1, GoesIn DEF ResilienceInv, Inside
      <4>3. SlotsAreKept'
        BY <4>1, <4>2, <2>0 DEF SlotsAreKept, In, Woken, GoIn
      <4>4. ResilienceTypeOK'
        BY <4>1 DEF ResilienceInv, ResilienceTypeOK, GoIn, Then, Inside
      <4>5. \A n \in 1 .. Len(waiters) : waiters[n] \in Users /\ waiters[n] # u
        BY <4>1 DEF ResilienceInv, ResilienceTypeOK
      <4>6. \A n \in 1 .. Len(waiters') : doing'[waiters'[n]] = "wait"
        BY <4>1, <4>5, <2>0 DEF ResilienceInv, GoIn, Then
      <4> QED BY <4>1, <4>3, <4>4, <4>6 DEF ResilienceInv
    <3> QED BY <3>1, <3>2
  <2>4. ASSUME NEW u \in Users, GoOn(u) PROVE ResilienceInv'
    <3>1. doing[u] = "woken" /\ GoIn(u) /\ UNCHANGED <<waiters, begun>>
      BY <2>4 DEF GoOn
    <3>2. /\ Cardinality(In)' = Cardinality(In) + 1
          /\ Cardinality(Woken)' = Cardinality(Woken) - 1
      BY <3>1, GoesIn DEF ResilienceInv, Inside
    <3>3. SlotsAreKept'
      BY <3>1, <3>2, <2>0 DEF SlotsAreKept, In, Woken, GoIn
    <3>4. ResilienceTypeOK'
      BY <3>1 DEF ResilienceInv, ResilienceTypeOK, GoIn, Then, Inside
    <3>5. \A n \in 1 .. Len(waiters) : waiters[n] \in Users /\ waiters[n] # u
      BY <3>1 DEF ResilienceInv, ResilienceTypeOK
    <3>6. \A n \in 1 .. Len(waiters') : doing'[waiters'[n]] = "wait"
      BY <3>1, <3>5, <2>0 DEF ResilienceInv, GoIn, Then
    <3> QED BY <3>1, <3>3, <3>4, <3>6 DEF ResilienceInv
  <2>5. ASSUME NEW u \in Users, AttemptSucceeds(u) PROVE ResilienceInv'
    <3>1. ResilienceTypeOK'
      BY <2>5 DEF AttemptSucceeds, ResilienceInv, ResilienceTypeOK, Then, Inside
    <3> QED BY <2>5, <3>1, StaysIn DEF AttemptSucceeds, Inside
  <2>6. ASSUME NEW u \in Users, AttemptFails(u) PROVE ResilienceInv'
    <3>1. doing[u] = "attempt" /\ UNCHANGED <<active, waiters, begun>>
          /\ (Then(u, "pause") \/ Then(u, "return"))
      BY <2>6 DEF AttemptFails
    <3>2. failed' \in Nat /\ circuit' \in {"closed", "open", "elapsed"}
      BY <2>6 DEF AttemptFails, ResilienceInv, ResilienceTypeOK
    <3>3. orphans' \in Nat
      BY <2>6 DEF AttemptFails, ResilienceInv, ResilienceTypeOK
    <3>4. tries' \in [Users -> Nat]
      BY <2>6 DEF AttemptFails, ResilienceInv, ResilienceTypeOK
    <3>5. ResilienceTypeOK'
      BY <3>1, <3>2, <3>3, <3>4 DEF ResilienceInv, ResilienceTypeOK, Then, Inside
    <3> QED BY <3>1, <3>5, StaysIn DEF Inside
  <2>7. ASSUME NEW u \in Users, PauseEnds(u) PROVE ResilienceInv'
    <3>1. ResilienceTypeOK'
      BY <2>7 DEF PauseEnds, ResilienceInv, ResilienceTypeOK, Then, Inside
    <3> QED BY <2>7, <3>1, StaysIn DEF PauseEnds, Inside
  <2>8. ASSUME NEW u \in Users, BulkheadReturn(u) PROVE ResilienceInv'
    <3>0. doing[u] = "return" /\ active' = active - 1 /\ u \in In
          /\ UNCHANGED <<tries, failed, circuit, orphans, begun>>
      BY <2>8, <2>0 DEF BulkheadReturn, In, InState, Inside
    <3>1. IsFiniteSet(In) /\ IsFiniteSet(Woken) /\ Cardinality(In \ {u}) = active - 1
      BY <3>0, <2>0, StatesAreFinite, FS_RemoveElement DEF In, Woken
    <3>2. active - 1 \in Nat
      BY <3>1, FS_RemoveElement, FS_CardinalityType
    <3>3. CASE waiters = <<>>
      <4>1. doing' = [doing EXCEPT ![u] = "none"] /\ waiters' = <<>>
        BY <2>8, <3>3 DEF BulkheadReturn, Then
      <4>2. In' = In \ {u}
        BY <4>1, <3>0, <2>0 DEF In, InState, Inside
      <4>3. SlotsAreKept'
        BY <4>1, <4>2, <3>0, <3>1 DEF SlotsAreKept, In
      <4>4. ResilienceTypeOK'
        BY <4>1, <3>0, <3>2 DEF ResilienceInv, ResilienceTypeOK
      <4> QED BY <4>1, <4>3, <4>4 DEF ResilienceInv
    <3>4. CASE waiters # <<>>
      <4> DEFINE h == Head(waiters)
      <4>1. /\ doing' = [doing EXCEPT ![u] = "none", ![h] = "woken"]
            /\ waiters' = Tail(waiters)
        BY <2>8, <3>4 DEF BulkheadReturn
      <4>2. h \in Users /\ h = waiters[1] /\ doing[h] = "wait" /\ h # u /\ Len(waiters) > 0
        BY <3>4, <3>0, <2>0 DEF ResilienceInv
      <4>3. In' = In \ {u} /\ Woken' = Woken \cup {h} /\ h \notin Woken
        BY <4>1, <4>2, <3>0, <2>0 DEF In, Woken, InState, Inside
      <4>4. Cardinality(Woken)' = Cardinality(Woken) + 1
        BY <4>3, <3>1, FS_AddElement
      <4>5. SlotsAreKept'
        BY <4>1, <4>3, <4>4, <3>0, <3>1, <3>4, <2>0 DEF SlotsAreKept, In, Woken
      <4>6. waiters' \in Seq(Users) /\ Len(waiters') = Len(waiters) - 1
            /\ \A n \in 1 .. Len(waiters') : waiters'[n] = waiters[n + 1]
        BY <4>1, <3>4, <2>0
      <4>7. ResilienceTypeOK'
        BY <4>1, <4>2, <4>6, <3>0, <3>2 DEF ResilienceInv, ResilienceTypeOK
      <4>8. \A n \in 1 .. Len(waiters') :
              n + 1 \in 1 .. Len(waiters) /\ waiters[n + 1] \in Users
              /\ waiters[n + 1] # h /\ waiters[n + 1] # u
        BY <4>2, <4>6, <3>0, <2>0 DEF ResilienceInv
      <4>9. \A n \in 1 .. Len(waiters') : doing'[waiters'[n]] = "wait"
        BY <4>1, <4>6, <4>8, <2>0 DEF ResilienceInv
      <4>10. \A m, n \in 1 .. Len(waiters') : waiters'[m] = waiters'[n] => m = n
        <5> SUFFICES ASSUME NEW m \in 1 .. Len(waiters'), NEW n \in 1 .. Len(waiters'),
                            waiters'[m] = waiters'[n]
                     PROVE  m = n
          OBVIOUS
        <5>1. waiters[m + 1] = waiters[n + 1]
          BY <4>6
        <5>2. m + 1 \in 1 .. Len(waiters) /\ n + 1 \in 1 .. Len(waiters)
          BY <4>8
        <5>3. m + 1 = n + 1
          BY <5>1, <5>2 DEF ResilienceInv
        <5> QED BY <5>3
      <4> QED BY <4>5, <4>7, <4>9, <4>10 DEF ResilienceInv
    <3> QED BY <3>3, <3>4
  <2>9. CASE UNCHANGED resilienceVars
    BY <2>9, <2>k DEF resilienceVars, ResilienceInv, ResilienceTypeOK, In, Woken, InState
  <2> QED
    BY <2>1, <2>2, <2>3, <2>4, <2>5, <2>6, <2>7, <2>8, <2>9 DEF ResilienceNext
<1> QED BY <1>1, <1>2, PTL DEF ResilienceSpec

\* For any number of calls, any limit and any way calls end.
THEOREM SlotsStay == ResilienceSpec => []SlotsAreKept
PROOF
<1>1. ResilienceInv => SlotsAreKept
  BY DEF ResilienceInv
<1> QED BY <1>1, ResilienceInvariance, PTL
-----------------------------------------------------------------------------
(* AI gateway *)

GatewayInv == GatewayTypeOK /\ QuotaOvershoot

\* A call that goes from one await to another.
LEMMA UnderMoves ==
  ASSUME GatewayTypeOK, NEW a \in AICalls, NEW to, atGate' = [atGate EXCEPT ![a] = to]
  PROVE  /\ Cardinality(Under) \in Nat /\ Cardinality(Under)' \in Nat
         /\ Cardinality(Under)' <= Cardinality(AICalls)
         /\ (to \notin PastQuota \/ a \in Under) => Cardinality(Under)' <= Cardinality(Under)
         /\ to \notin PastQuota /\ a \in Under => Cardinality(Under)' = Cardinality(Under) - 1
PROOF
<1> USE GatewayAssumption DEF GatewayTypeOK
<1>1. IsFiniteSet(Under) /\ Under \subseteq AICalls /\ Cardinality(Under) \in Nat
  BY FS_Subset, FS_CardinalityType DEF Under
<1>2. IsFiniteSet(Under') /\ Cardinality(Under)' \in Nat
      /\ Cardinality(Under)' <= Cardinality(AICalls)
  <2>1. Under' \subseteq AICalls
    BY DEF Under
  <2> QED BY <2>1, FS_Subset, FS_CardinalityType
<1>3. CASE to \in PastQuota /\ a \in Under
  <2>1. Under' = Under
    BY <1>3 DEF Under
  <2> QED BY <2>1, <1>1, <1>2, <1>3
<1>4. CASE to \notin PastQuota /\ a \notin Under
  <2>1. Under' = Under
    BY <1>4 DEF Under
  <2> QED BY <2>1, <1>1, <1>2, <1>4
<1>5. CASE to \notin PastQuota /\ a \in Under
  <2>1. Under' = Under \ {a}
    BY <1>5 DEF Under
  <2> QED BY <2>1, <1>1, <1>2, <1>5, FS_RemoveElement
<1>6. CASE to \in PastQuota /\ a \notin Under
  BY <1>1, <1>2, <1>6
<1> QED BY <1>1, <1>2, <1>3, <1>4, <1>5, <1>6

LEMMA ChargesAreNumbers == \A t \in Charges \cup {0} : t \in Nat
BY GatewayAssumption

LEMMA GatewayInvariance == GatewaySpec => []GatewayInv
PROOF
<1> USE GatewayAssumption DEF GatewayTypeOK
<1> DEFINE n == Cardinality(Under)  N == Cardinality(AICalls)
<1>a. N \in Nat
  BY FS_CardinalityType
<1>b. MaxRetries \in Nat /\ Quota \in Nat /\ Quota > 0
  BY <1>a
<1>c. QuotaOvershoot <=> IF used < Quota THEN overdrawn = 0 ELSE overdrawn + n < N
  BY DEF QuotaOvershoot
<1>d. QuotaOvershoot' <=> IF used' < Quota THEN overdrawn' = 0 ELSE overdrawn' + n' < N
  BY DEF QuotaOvershoot
<1>1. GatewayInit => GatewayInv
  <2> SUFFICES ASSUME GatewayInit PROVE GatewayInv
    OBVIOUS
  <2>1. GatewayTypeOK
    BY DEF GatewayInit, Providers
  <2>2. used = 0 /\ overdrawn = 0
    BY DEF GatewayInit
  <2> QED BY <2>1, <2>2, <1>b, <1>c DEF GatewayInv
<1>2. GatewayInv /\ [GatewayNext]_gatewayVars => GatewayInv'
  <2> SUFFICES ASSUME GatewayInv, [GatewayNext]_gatewayVars PROVE GatewayInv'
    OBVIOUS
  <2> USE DEF GatewayInv
  <2>0. n \in Nat /\ n <= N
    BY FS_Subset, FS_CardinalityType DEF Under
  <2>k. ASSUME n' \in Nat, n' <= n, used' = used, overdrawn' = overdrawn, GatewayTypeOK'
        PROVE  GatewayInv'
    BY <2>k, <2>0, <1>a, <1>b, <1>c, <1>d
  <2>m. ASSUME NEW a \in AICalls, NEW to, atGate' = [atGate EXCEPT ![a] = to],
               to \notin PastQuota \/ a \in Under, used' = used, overdrawn' = overdrawn,
               GatewayTypeOK'
        PROVE  GatewayInv'
    BY <2>m, <2>k, UnderMoves
  <2>1. CASE NewMonth
    <3>1. used' = 0 /\ overdrawn' = 0 /\ GatewayTypeOK'
      BY <2>1 DEF NewMonth
    <3> QED BY <3>1, <1>b, <1>d
  <2>2. ASSUME NEW a \in AICalls, generate(a) PROVE GatewayInv'
    BY <2>2, <2>m, <1>b DEF generate, Await, PastQuota
  <2>3. ASSUME NEW a \in AICalls, Authorized(a) PROVE GatewayInv'
    BY <2>3, <2>m, <1>b DEF Authorized, Await, PastQuota
  <2>4. ASSUME NEW a \in AICalls, getUsedTokens(a) PROVE GatewayInv'
    <3>1. used' = used /\ overdrawn' = overdrawn /\ used < Quota /\ GatewayTypeOK'
      BY <2>4 DEF getUsedTokens, Await, PastQuota
    <3> QED BY <3>1, <1>c, <1>d
  <2>5. ASSUME NEW a \in AICalls, QuotaExceeded(a) PROVE GatewayInv'
    <3>1. atGate' = [atGate EXCEPT ![a] = "idle"] /\ used' = used /\ overdrawn' = overdrawn
      BY <2>5 DEF QuotaExceeded, Leave
    <3>2. "idle" \notin PastQuota
      BY <2>5 DEF PastQuota
    <3>3. GatewayTypeOK'
      BY <2>5, <1>b DEF QuotaExceeded, Leave, PastQuota, Providers
    <3> QED BY <3>1, <3>2, <3>3, <2>m
  <2>6. ASSUME NEW a \in AICalls, NEW t \in Charges, Answer(a, t) PROVE GatewayInv'
    <3>1. atGate' = [atGate EXCEPT ![a] = "validate"] /\ used' = used /\ overdrawn' = overdrawn
      BY <2>6 DEF Answer, Await
    <3>2. a \in Under
      BY <2>6 DEF Answer, Await, Under, PastQuota
    <3>3. GatewayTypeOK'
      BY <2>6, <1>b DEF Answer, Await, PastQuota
    <3> QED BY <3>1, <3>2, <3>3, <2>m
  <2>7. ASSUME NEW a \in AICalls, AttemptFailed(a) PROVE GatewayInv'
    <3>1. used' = used /\ overdrawn' = overdrawn /\ a \in Under
      BY <2>7 DEF AttemptFailed, Under, PastQuota
    <3>2. CASE retries[a] < MaxRetries
      <4>1. GatewayTypeOK' /\ Under' = Under
        BY <2>7, <3>2 DEF AttemptFailed, Under
      <4> QED BY <4>1, <3>1, <2>k, <2>0
    <3>3. CASE ~(retries[a] < MaxRetries) /\ provider[a] = "primary"
      BY <2>7, <3>1, <3>3, <2>m DEF AttemptFailed, PastQuota
    <3>4. CASE ~(retries[a] < MaxRetries) /\ provider[a] # "primary"
      BY <2>7, <3>1, <3>4, <2>m DEF AttemptFailed, Leave, PastQuota, Providers
    <3> QED BY <3>2, <3>3, <3>4
  <2>8. ASSUME NEW a \in AICalls, AskFallback(a) PROVE GatewayInv'
    <3>1. atGate' = [atGate EXCEPT ![a] = "attempt"] /\ used' = used /\ overdrawn' = overdrawn
      BY <2>8 DEF AskFallback, Await
    <3>2. a \in Under
      BY <2>8 DEF AskFallback, Await, Under, PastQuota
    <3>3. GatewayTypeOK'
      BY <2>8, <1>b DEF AskFallback, Await, PastQuota, Providers
    <3> QED BY <3>1, <3>2, <3>3, <2>m
  <2>9. ASSUME NEW a \in AICalls, validateOutput(a) PROVE GatewayInv'
    <3>1. atGate' = [atGate EXCEPT ![a] = "charge"] /\ used' = used /\ overdrawn' = overdrawn
      BY <2>9 DEF validateOutput, Await
    <3>2. a \in Under
      BY <2>9 DEF validateOutput, Await, Under, PastQuota
    <3>3. GatewayTypeOK'
      BY <2>9, <1>b DEF validateOutput, Await, PastQuota
    <3> QED BY <3>1, <3>2, <3>3, <2>m
  <2>10. ASSUME NEW a \in AICalls, addUsage(a) PROVE GatewayInv'
    <3>a. /\ atGate[a] = "charge" /\ atGate' = [atGate EXCEPT ![a] = "report"]
          /\ used' = used + tokens[a]
          /\ overdrawn' = IF used >= Quota THEN overdrawn + 1 ELSE overdrawn
          /\ UNCHANGED <<provider, retries, tokens, months>>
      BY <2>10 DEF addUsage, Await
    <3>b. tokens[a] \in Nat /\ used \in Nat /\ overdrawn \in Nat
      <4>1. tokens[a] \in Charges \cup {0} /\ used \in Nat /\ overdrawn \in Nat
        OBVIOUS
      <4> QED BY <4>1, ChargesAreNumbers
    <3>c. used' \in Nat /\ overdrawn' \in Nat
      BY <3>a, <3>b
    <3>d. a \in Under
      BY <3>a DEF Under, PastQuota
    <3>e. GatewayTypeOK'
      BY <3>a, <3>c
    <3>1. /\ atGate' = [atGate EXCEPT ![a] = "report"] /\ a \in Under
          /\ used' = used + tokens[a] /\ tokens[a] \in Nat /\ used \in Nat
          /\ overdrawn' = IF used >= Quota THEN overdrawn + 1 ELSE overdrawn
          /\ GatewayTypeOK'
      BY <3>a, <3>b, <3>d, <3>e
    <3>2. n' = n - 1
      BY <3>1, UnderMoves DEF PastQuota
    <3>3. overdrawn \in Nat /\ used' \in Nat /\ n - 1 \in Nat
      BY <3>1, <3>2, <2>0, UnderMoves
    <3>4. CASE used >= Quota
      <4>1. used' >= Quota /\ overdrawn + n < N
        BY <3>1, <3>3, <3>4, <1>b, <1>c
      <4>2. overdrawn' + n' < N
        BY <3>1, <3>2, <3>3, <3>4, <4>1, <2>0, <1>a
      <4> QED BY <3>1, <3>3, <4>1, <4>2, <1>b, <1>d
    <3>5. CASE ~(used >= Quota)
      <4>1. overdrawn' = 0 /\ 0 + n' < N
        BY <3>1, <3>2, <3>3, <3>5, <2>0, <1>a, <1>b, <1>c
      <4> QED BY <3>1, <4>1, <1>d
    <3> QED BY <3>4, <3>5
  <2>11. ASSUME NEW a \in AICalls, Report(a) PROVE GatewayInv'
    <3>1. atGate' = [atGate EXCEPT ![a] = "idle"] /\ used' = used /\ overdrawn' = overdrawn
      BY <2>11 DEF Report, Leave
    <3>2. "idle" \notin PastQuota
      BY <2>11 DEF PastQuota
    <3>3. GatewayTypeOK'
      BY <2>11, <1>b DEF Report, Leave, PastQuota, Providers
    <3> QED BY <3>1, <3>2, <3>3, <2>m
  <2>12. ASSUME NEW a \in AICalls, CallThrows(a) PROVE GatewayInv'
    <3>1. atGate' = [atGate EXCEPT ![a] = "idle"] /\ used' = used /\ overdrawn' = overdrawn
      BY <2>12 DEF CallThrows, Leave
    <3>2. "idle" \notin PastQuota
      BY <2>12 DEF PastQuota
    <3>3. GatewayTypeOK'
      BY <2>12, <1>b DEF CallThrows, Leave, PastQuota, Providers
    <3> QED BY <3>1, <3>2, <3>3, <2>m
  <2>13. CASE UNCHANGED gatewayVars
    BY <2>13, <2>k, <2>0 DEF gatewayVars, Under
  <2> QED
    BY <2>1, <2>2, <2>3, <2>4, <2>5, <2>6, <2>7, <2>8, <2>9, <2>10, <2>11, <2>12, <2>13
    DEF GatewayNext
<1> QED BY <1>1, <1>2, PTL DEF GatewaySpec

\* For any number of calls at a time, any quota, and answers that cost whatever they do.
THEOREM QuotaIsOvershotByCallsUnderWay == GatewaySpec => []QuotaOvershoot
PROOF
<1>1. GatewayInv => QuotaOvershoot
  BY DEF GatewayInv
<1> QED BY <1>1, GatewayInvariance, PTL
-----------------------------------------------------------------------------
(* Uploads *)

Passing == Accepted \cap Clean

\* The bytes a call holds have passed what it has come through.
UploadInv ==
  /\ UploadTypeOK
  /\ ApprovedPassedInspection
  /\ UploadsAreKept
  /\ \A i \in Inspections :
       /\ inspect[i] = "scan" => bytes[i] \in Accepted
       /\ inspect[i] \in {"put", "delete", "enqueue"} => bytes[i] \in Passing
       /\ inspect[i] \in {"delete", "enqueue"} => approved # NoObject

LEMMA UploadInvariance == UploadSpec => []UploadInv
PROOF
<1> USE UploadsAssumption
<1>1. UploadInit => UploadInv
  BY DEF UploadInit, UploadInv, UploadTypeOK, ApprovedPassedInspection, UploadsAreKept, Objects
<1>2. UploadInv /\ [UploadNext]_uploadVars => UploadInv'
  <2> SUFFICES ASSUME UploadInv, [UploadNext]_uploadVars PROVE UploadInv'
    OBVIOUS
  <2> USE DEF UploadInv, UploadTypeOK, ApprovedPassedInspection, UploadsAreKept, Objects,
              Passing, ToStep
  <2>1. CASE UrlExpires
    BY <2>1 DEF UrlExpires
  <2>2. ASSUME NEW x \in Contents, ClientPuts(x) PROVE UploadInv'
    BY <2>2 DEF ClientPuts
  <2>3. ASSUME NEW i \in Inspections, authorize(i) PROVE UploadInv'
    BY <2>3 DEF authorize
  <2>4. ASSUME NEW i \in Inspections, getObject(i) PROVE UploadInv'
    BY <2>4 DEF getObject
  <2>5. ASSUME NEW i \in Inspections, scan(i) PROVE UploadInv'
    BY <2>5 DEF scan
  <2>6. ASSUME NEW i \in Inspections, putApproved(i) PROVE UploadInv'
    BY <2>6 DEF putApproved
  <2>7. ASSUME NEW i \in Inspections, deleteQuarantined(i) PROVE UploadInv'
    BY <2>7 DEF deleteQuarantined
  <2>8. ASSUME NEW i \in Inspections, enqueueProcessing(i) PROVE UploadInv'
    BY <2>8 DEF enqueueProcessing
  <2>9. ASSUME NEW i \in Inspections, InspectionFails(i) PROVE UploadInv'
    BY <2>9 DEF InspectionFails
  <2>10. CASE UNCHANGED uploadVars
    BY <2>10 DEF uploadVars
  <2> QED
    BY <2>1, <2>2, <2>3, <2>4, <2>5, <2>6, <2>7, <2>8, <2>9, <2>10 DEF UploadNext
<1> QED BY <1>1, <1>2, PTL DEF UploadSpec

\* For any number of inspections and whatever clients put.
THEOREM UninspectedStaysOut == UploadSpec => []ApprovedPassedInspection
PROOF
<1>1. UploadInv => ApprovedPassedInspection
  BY DEF UploadInv
<1> QED BY <1>1, UploadInvariance, PTL

THEOREM ApprovedUploadsStay == UploadSpec => []UploadsAreKept
PROOF
<1>1. UploadInv => UploadsAreKept
  BY DEF UploadInv
<1> QED BY <1>1, UploadInvariance, PTL
-----------------------------------------------------------------------------
(* Tenant scopes *)

\* What a sequence joined from two begins and ends with.
LEMMA Joined ==
  ASSUME NEW S, NEW s \in Seq(S), NEW t \in Seq(S), NEW u, u = s \o t
  PROVE  /\ u \in Seq(S) /\ Len(u) = Len(s) + Len(t)
         /\ \A n \in 1 .. Len(s) : u[n] = s[n]
         /\ \A n \in 1 .. Len(t) : u[Len(s) + n] = t[n]
  OBVIOUS

\* A set of numbers that is not empty has a least one.
LEMMA LeastIsThere ==
  ASSUME NEW T, T \subseteq Nat, T # {}
  PROVE  Min(T) \in T /\ \A y \in T : Min(T) =< y
<1>1. PICK x \in T : \A y \in T : ~(<<y, x>> \in OpToRel(<, Nat))
  BY NatLessThanWellFounded, WFMin
<1>2. ASSUME NEW y \in T PROVE x =< y
  <2>1. <<y, x>> \notin {ss \in Nat \X Nat : ss[1] < ss[2]}
    BY <1>1 DEF OpToRel
  <2>2. x \in Nat /\ y \in Nat
    OBVIOUS
  <2> QED
    BY <2>1, <2>2
<1> QED
  BY <1>2 DEF Min

LEMMA RestIsSequence ==
  ASSUME NEW S, NEW key \in Seq(S)
  PROVE  WithoutSlashes(key) \in Seq(S)
<1>1. CASE \A n \in DOMAIN key : key[n] = ""
  <2>1. WithoutSlashes(key) = <<>>
    BY <1>1 DEF WithoutSlashes
  <2> QED
    BY <2>1
<1>2. CASE ~\A n \in DOMAIN key : key[n] = ""
  <2> DEFINE first == Min({n \in DOMAIN key : key[n] # ""})
  <2>1. DOMAIN key = 1 .. Len(key) /\ Len(key) \in Nat
    OBVIOUS
  <2>2. first \in {n \in DOMAIN key : key[n] # ""}
    <3> DEFINE Rest == {n \in DOMAIN key : key[n] # ""}
    <3>1. Rest \subseteq Nat
      <4>1. 1 .. Len(key) \subseteq Nat
        BY <2>1
      <4> QED
        BY <2>1, <4>1, Zenon
    <3>2. Rest # {}
      BY <1>2
    <3> HIDE DEF Rest
    <3>3. Min(Rest) \in Rest
      BY <3>1, <3>2, LeastIsThere
    <3> QED
      BY <3>3 DEF Rest
  <2>3. first \in 1 .. Len(key)
    BY <2>1, <2>2
  <2> HIDE DEF first
  <2>4. SubSeq(key, first, Len(key)) \in Seq(S)
    BY <2>3
  <2>5. WithoutSlashes(key) = SubSeq(key, first, Len(key))
    BY <1>2 DEF WithoutSlashes, first
  <2> QED
    BY <2>4, <2>5
<1> QED
  BY <1>1, <1>2

\* One segment more of a path.
Resolved(done, s) ==
  IF s \in Nowhere THEN done
  ELSE IF s = ".." THEN SubSeq(done, 1, Len(done) - 1)
  ELSE Append(done, s)

\* What the first segments of a path come to, m at most.
ResolvesTo(path, m, f) ==
  f = [n \in 0 .. m |-> IF n = 0 THEN <<>> ELSE Resolved(f[n - 1], path[n])]

\* The recursion has a solution: were there none for so many segments, there would be
\* a least such number.
LEMMA PathsResolve ==
  ASSUME NEW path, NEW L \in Nat
  PROVE  \E f : ResolvesTo(path, L, f)
<1> DEFINE T == {m \in Nat : ~\E f : ResolvesTo(path, m, f)}
<1>1. T \subseteq Nat
  OBVIOUS
<1>2. CASE T # {}
  <2>1. PICK m \in T : \A y \in T : m =< y
    <3>1. Min(T) \in T /\ \A y \in T : Min(T) =< y
      BY <1>1, <1>2, LeastIsThere
    <3>. QED
      BY <3>1
  <2>2. m # 0
    <3>1. ResolvesTo(path, 0, [n \in 0 .. 0 |-> <<>>])
      BY DEF ResolvesTo
    <3>. QED
      BY <2>1, <3>1
  <2>3. m - 1 \in Nat /\ m - 1 \notin T
    BY <2>1, <2>2
  <2>4. PICK g : ResolvesTo(path, m - 1, g)
    BY <2>3
  <2> DEFINE f == [n \in 0 .. m |-> IF n = m THEN Resolved(g[m - 1], path[m]) ELSE g[n]]
  <2>5. ASSUME NEW n \in 0 .. m
        PROVE  f[n] = IF n = 0 THEN <<>> ELSE Resolved(f[n - 1], path[n])
    <3>1. CASE n = m
      BY <2>1, <2>2, <2>3, <3>1
    <3>2. CASE n # m
      <4>1. n \in 0 .. (m - 1) /\ f[n] = g[n] /\ (n # 0 => f[n - 1] = g[n - 1])
        BY <2>1, <2>3, <3>2
      <4>2. g[n] = IF n = 0 THEN <<>> ELSE Resolved(g[n - 1], path[n])
        BY <2>4, <4>1 DEF ResolvesTo
      <4>. QED
        BY <4>1, <4>2
    <3>. QED
      BY <3>1, <3>2
  <2>6. ResolvesTo(path, m, f)
    <3>1. f = [n \in 0 .. m |-> f[n]]
      OBVIOUS
    <3> HIDE DEF f
    <3>. QED
      BY <2>5, <3>1 DEF ResolvesTo
  <2>. QED
    BY <2>1, <2>6
<1>3. CASE T = {}
  BY <1>3
<1>. QED
  BY <1>2, <1>3

LEMMA PathIsResolved ==
  ASSUME NEW S, NEW path \in Seq(S)
  PROVE  \E f : ResolvesTo(path, Len(path), f) /\ ResolvePath(path) = f[Len(path)]
<1> DEFINE done == CHOOSE f : ResolvesTo(path, Len(path), f)
<1>1. ResolvesTo(path, Len(path), done)
  BY PathsResolve
<1>2. ResolvePath(path) = done[Len(path)]
  BY DEF ResolvePath, ResolvesTo, Resolved
<1>. QED
  BY <1>1, <1>2

\* Segments that lead nowhere but down stay in front of a path that never goes up.
LEMMA FrontStays ==
  ASSUME NEW S, NEW path \in Seq(S), NEW k \in 0 .. Len(path),
         \A n \in 1 .. Len(path) : path[n] # "..",
         \A n \in 1 .. k : path[n] \notin Nowhere
  PROVE  /\ ResolvePath(path) \in Seq(S) /\ Len(ResolvePath(path)) >= k
         /\ \A n \in 1 .. k : ResolvePath(path)[n] = path[n]
<1>1. PICK f : ResolvesTo(path, Len(path), f) /\ ResolvePath(path) = f[Len(path)]
  BY PathIsResolved
<1> DEFINE InFront(n, done) ==
             /\ done \in Seq(S)
             /\ Len(done) >= (IF n < k THEN n ELSE k)
             /\ n <= k => Len(done) = n
             /\ \A i \in 1 .. (IF n < k THEN n ELSE k) : done[i] = path[i]
           T == {n \in 0 .. Len(path) : ~InFront(n, f[n])}
<1>2. ASSUME T # {} PROVE FALSE
  <2>1. PICK n \in T : \A y \in T : n =< y
    <3>1. T \subseteq Nat
      OBVIOUS
    <3> HIDE DEF T
    <3>2. Min(T) \in T /\ \A y \in T : Min(T) =< y
      BY <1>2, <3>1, LeastIsThere
    <3>. QED
      BY <3>2
  <2>2. n # 0
    <3>1. f[0] = <<>>
      BY <1>1 DEF ResolvesTo
    <3>2. \A i \in 1 .. (IF 0 < k THEN 0 ELSE k) : FALSE
      OBVIOUS
    <3>3. InFront(0, f[0])
      BY <3>1, <3>2
    <3>. QED
      BY <2>1, <3>3
  <2>3. n \in 1 .. Len(path) /\ n - 1 \in 0 .. Len(path) /\ InFront(n - 1, f[n - 1])
    BY <2>1, <2>2
  <2> DEFINE sofar == f[n - 1]
  <2>4. f[n] = IF path[n] \in Nowhere THEN sofar ELSE Append(sofar, path[n])
    <3>1. f[n] = Resolved(sofar, path[n])
      BY <1>1, <2>3 DEF ResolvesTo
    <3> HIDE DEF sofar
    <3>. QED
      BY <2>3, <3>1 DEF Resolved
  <2>5. /\ sofar \in Seq(S) /\ path[n] \in S
        /\ Len(sofar) >= (IF n - 1 < k THEN n - 1 ELSE k)
        /\ n - 1 <= k => Len(sofar) = n - 1
        /\ \A i \in 1 .. (IF n - 1 < k THEN n - 1 ELSE k) : sofar[i] = path[i]
    BY <2>3
  <2> HIDE DEF sofar
  <2>6. CASE n <= k
    <3>1. f[n] = Append(sofar, path[n]) /\ Len(sofar) = n - 1
      BY <2>3, <2>4, <2>5, <2>6
    <3>2. InFront(n, f[n])
      BY <2>3, <2>5, <2>6, <3>1
    <3>. QED
      BY <2>1, <3>2
  <2>7. CASE n > k
    <3>1. Len(sofar) >= k /\ \A i \in 1 .. k : sofar[i] = path[i]
      BY <2>3, <2>5, <2>7
    <3>2. CASE f[n] = sofar
      <4>1. InFront(n, f[n])
        BY <2>3, <2>5, <2>7, <3>1, <3>2
      <4>. QED
        BY <2>1, <4>1
    <3>3. CASE f[n] = Append(sofar, path[n])
      <4>1. InFront(n, f[n])
        BY <2>3, <2>5, <2>7, <3>1, <3>3
      <4>. QED
        BY <2>1, <4>1
    <3>. QED
      BY <2>4, <3>2, <3>3
  <2>. QED
    BY <2>3, <2>6, <2>7
<1>3. InFront(Len(path), f[Len(path)])
  BY <1>2
<1>. QED
  BY <1>1, <1>3

\* A name that says in its segments whose it is.
SaysWhose(t) ==
  \/ t.name[1] \in {"tenant", "tenants"}
     /\ t.name[2] = t.by.tenantId /\ t.name[4] = WorkspaceName(t.by)
  \/ t.name[1] = "secret"
     /\ t.name[3] = t.by.tenantId /\ t.name[5] = WorkspaceName(t.by)

\* Ids that path.resolve takes for the names they are.
IdsAreNames ==
  \A c \in Contexts : {c.tenantId, WorkspaceName(c)} \cap (Nowhere \cup {".."}) = {}

\* Names reach the storage as the ports make them, or as good as.
Plain == storage # "filesystem" \/ IdsAreNames

ScopeInv ==
  /\ storage \in {"s3", "filesystem"}
  /\ Plain => \A t \in touched : t.by \in Contexts /\ SaysWhose(t)
  /\ \A q \in asked :
       /\ q.scope.tenantId = q.by.tenantId
       /\ q.by.workspaceId # NoWorkspace => q.scope.workspaceId = q.by.workspaceId

\* Whatever a key holds, the segments the ports put before it stay in front.
LEMMA NamesSayWhose ==
  ASSUME NEW Segments, NEW c \in [tenantId : Segments, workspaceId : Segments \cup {NoWorkspace}],
         NEW key \in Seq(Segments)
  PROVE  /\ \A kind : SaysWhose([name |-> tenantKey(c, kind, key), by |-> c])
         /\ SaysWhose([name |-> storagePrefix(c) \o WithoutSlashes(key), by |-> c])
         /\ SaysWhose([name |-> <<"secret">> \o tenantCredentialPrefix(c) \o WithoutSlashes(key),
                       by |-> c])
<1> DEFINE W == WorkspaceName(c)
           S == Segments \cup {"secret", "tenants", "workspaces", "integrations", c.tenantId, W}
           rest == WithoutSlashes(key)
<1>1. rest \in Seq(Segments)
  BY RestIsSequence
<1> HIDE DEF W, rest
<1>2. ASSUME NEW kind
      PROVE  SaysWhose([name |-> tenantKey(c, kind, key), by |-> c])
  <2> DEFINE name == <<"tenant", c.tenantId, "workspace", W, kind>> \o key
  <2>1. name[1] = "tenant" /\ name[2] = c.tenantId /\ name[4] = W
    OBVIOUS
  <2>2. tenantKey(c, kind, key) = name
    BY DEF tenantKey, W
  <2> HIDE DEF name
  <2> QED
    BY <2>1, <2>2 DEF SaysWhose, W
<1>3. /\ storagePrefix(c) \in Seq(S) /\ Len(storagePrefix(c)) = 4
      /\ storagePrefix(c)[1] = "tenants" /\ storagePrefix(c)[2] = c.tenantId
      /\ storagePrefix(c)[4] = W
  <2> HIDE DEF S
  <2>1. storagePrefix(c) = <<"tenants", c.tenantId, "workspaces", W>>
    BY DEF storagePrefix, W
  <2>2. {"tenants", c.tenantId, "workspaces", W} \subseteq S
    BY DEF S
  <2> QED
    BY <2>1, <2>2
<1>4. rest \in Seq(S)
  BY <1>1
<1>5. <<"integrations">> \in Seq(S) /\ <<"secret">> \in Seq(S) /\ Len(<<"secret">>) = 1
  OBVIOUS
<1> HIDE DEF S
<1>6. SaysWhose([name |-> storagePrefix(c) \o rest, by |-> c])
  <2> DEFINE name == storagePrefix(c) \o rest
  <2>1. name = storagePrefix(c) \o rest
    OBVIOUS
  <2> HIDE DEF name
  <2>2. \A n \in 1 .. Len(storagePrefix(c)) : name[n] = storagePrefix(c)[n]
    <3>1. storagePrefix(c) \in Seq(S)
      BY <1>3
    <3> QED
      BY <1>4, <2>1, <3>1, Joined
  <2>3. name[1] = "tenants" /\ name[2] = c.tenantId /\ name[4] = W
    BY <1>3, <2>2
  <2>4. SaysWhose([name |-> name, by |-> c])
    BY <2>3 DEF SaysWhose, W
  <2> QED
    BY <2>4 DEF name
<1>7. SaysWhose([name |-> <<"secret">> \o tenantCredentialPrefix(c) \o rest, by |-> c])
  <2> DEFINE last   == <<"integrations">>
             prefix == tenantCredentialPrefix(c)
             first  == <<"secret">>
             front  == first \o prefix
             name   == front \o rest
  <2>1. prefix = storagePrefix(c) \o last /\ front = first \o prefix /\ name = front \o rest
    BY DEF tenantCredentialPrefix
  <2>2. last \in Seq(S) /\ Len(last) = 1
    BY <1>5
  <2>3. first \in Seq(S) /\ Len(first) = 1 /\ first[1] = "secret"
    BY <1>5
  <2> HIDE DEF last, prefix, first, front, name
  <2>4. /\ prefix \in Seq(S) /\ Len(prefix) = Len(storagePrefix(c)) + Len(last)
        /\ \A n \in 1 .. Len(storagePrefix(c)) : prefix[n] = storagePrefix(c)[n]
    <3>1. storagePrefix(c) \in Seq(S) /\ last \in Seq(S)
      BY <1>3, <2>2
    <3> QED
      BY <2>1, <3>1, Joined
  <2>5. Len(prefix) = 5 /\ prefix[2] = c.tenantId /\ prefix[4] = W
    BY <1>3, <2>2, <2>4
  <2>6. /\ front \in Seq(S) /\ Len(front) = Len(first) + Len(prefix)
        /\ \A n \in 1 .. Len(first) : front[n] = first[n]
        /\ \A n \in 1 .. Len(prefix) : front[Len(first) + n] = prefix[n]
    <3>1. first \in Seq(S) /\ prefix \in Seq(S)
      BY <2>3, <2>4
    <3> QED
      BY <2>1, <3>1, Joined
  <2>7. front[Len(first) + 2] = prefix[2] /\ front[Len(first) + 4] = prefix[4]
    BY <2>5, <2>6
  <2>8. Len(front) = 6 /\ front[1] = "secret" /\ front[3] = c.tenantId /\ front[5] = W
    BY <2>3, <2>5, <2>6, <2>7
  <2>9. \A n \in 1 .. Len(front) : name[n] = front[n]
    BY <1>4, <2>1, <2>6, Joined
  <2>10. name[1] = "secret" /\ name[3] = c.tenantId /\ name[5] = W
    BY <2>8, <2>9
  <2>11. SaysWhose([name |-> name, by |-> c])
    BY <2>10 DEF SaysWhose, W
  <2> QED
    BY <2>11 DEF name, front, first, prefix
<1> QED
  BY <1>2, <1>6, <1>7 DEF rest

\* Over the filesystem too, unless an id is a segment path.resolve acts on.
LEMMA ResolvedSaysWhose ==
  ASSUME NEW Segments, NEW c \in [tenantId : Segments, workspaceId : Segments \cup {NoWorkspace}],
         NEW key \in Seq(Segments), relativeStorageKey(key), c \in Contexts, IdsAreNames
  PROVE  SaysWhose([name |-> ResolvePath(storagePrefix(c) \o WithoutSlashes(key)), by |-> c])
<1> DEFINE W == WorkspaceName(c)
           Names == Segments \ {".."}
           S == Names \cup {"tenants", "workspaces", c.tenantId, W}
           rest == WithoutSlashes(key)
           prefix == storagePrefix(c)
           path == prefix \o rest
<1>1. rest \in Seq(Names)
  <2>1. \A n \in 1 .. Len(key) : key[n] # ".."
    BY DEF relativeStorageKey, Contains
  <2>2. key \in Seq(Names)
    BY <2>1
  <2>. QED
    BY <2>2, RestIsSequence
<1>2. \A s \in S : s # ".."
  <2>1. c.tenantId # ".." /\ W # ".."
    BY DEF IdsAreNames
  <2>. QED
    BY <2>1
<1>3. /\ prefix \in Seq(S) /\ Len(prefix) = 4
      /\ prefix[1] = "tenants" /\ prefix[2] = c.tenantId /\ prefix[3] = "workspaces"
      /\ prefix[4] = W
  <2>1. prefix = <<"tenants", c.tenantId, "workspaces", W>>
    BY DEF storagePrefix
  <2>2. {"tenants", c.tenantId, "workspaces", W} \subseteq S
    OBVIOUS
  <2> HIDE DEF S, prefix, W
  <2>. QED
    BY <2>1, <2>2
<1>4. "tenants" \notin Nowhere /\ "workspaces" \notin Nowhere
  BY Zenon DEF Nowhere
<1>5. c.tenantId \notin Nowhere /\ W \notin Nowhere
  BY DEF IdsAreNames
<1>6. rest \in Seq(S)
  BY <1>1
<1> HIDE DEF S, Names, rest, prefix, W
<1>7. path \in Seq(S) /\ Len(path) >= 4 /\ \A n \in 1 .. 4 : path[n] = prefix[n]
  <2>1. path = prefix \o rest
    OBVIOUS
  <2> HIDE DEF path
  <2>2. /\ path \in Seq(S) /\ Len(path) = Len(prefix) + Len(rest)
        /\ \A n \in 1 .. Len(prefix) : path[n] = prefix[n]
    <3>1. prefix \in Seq(S)
      BY <1>3
    <3>. QED
      BY <1>6, <2>1, <3>1, Joined
  <2>. QED
    BY <1>3, <1>6, <2>2
<1> HIDE DEF path
<1>8. \A n \in 1 .. Len(path) : path[n] # ".."
  BY <1>2, <1>7
<1>9. \A n \in 1 .. 4 : path[n] \notin Nowhere
  BY <1>3, <1>4, <1>5, <1>7
<1>10. \A n \in 1 .. 4 : ResolvePath(path)[n] = path[n]
  <2>1. path \in Seq(S) /\ 4 \in 0 .. Len(path)
    BY <1>7
  <2>. QED
    BY <1>8, <1>9, <2>1, FrontStays
<1>11. /\ ResolvePath(path)[1] = "tenants" /\ ResolvePath(path)[2] = c.tenantId
       /\ ResolvePath(path)[4] = W
  BY <1>3, <1>7, <1>10
<1>. QED
  BY <1>11 DEF SaysWhose, path, prefix, rest, W

\* For any tenants, workspaces and keys: over every service that keeps names as they
\* are, and over the filesystem unless an id is "", "." or "..", no two contexts use one
\* name.
THEOREM ScopesStayApart ==
  ASSUME NEW Segments, Keys \subseteq Seq(Segments),
         Contexts \subseteq [tenantId : Segments, workspaceId : Segments \cup {NoWorkspace}]
  PROVE  ScopeSpec => [](Plain => ScopesAreDisjoint)
<1>1. ScopeInit => ScopeInv
  BY DEF ScopeInit, ScopeInv
<1>2. ScopeInv /\ [ScopeNext]_scopeVars => ScopeInv'
  <2> SUFFICES ASSUME ScopeInv, [ScopeNext]_scopeVars PROVE ScopeInv'
    OBVIOUS
  <2>1. ASSUME NEW c \in Contexts, NEW name, Touch(c, name),
               Plain => SaysWhose([name |-> name, by |-> c])
        PROVE  ScopeInv'
    BY <2>1 DEF Touch, ScopeInv, SaysWhose, Plain
  <2>2. ASSUME NEW c \in Contexts, NEW scope, Ask(c, scope), scope.tenantId = c.tenantId,
               c.workspaceId # NoWorkspace => scope.workspaceId = c.workspaceId
        PROVE  ScopeInv'
    BY <2>2 DEF Ask, ScopeInv, SaysWhose, Plain
  <2>3. ASSUME NEW c \in Contexts, NEW key \in Keys,
               UseKey(c, key) \/ UseObject(c, key) \/ UseSecret(c, key)
        PROVE  ScopeInv'
    <3>1. /\ \A kind : SaysWhose([name |-> tenantKey(c, kind, key), by |-> c])
          /\ SaysWhose([name |-> storagePrefix(c) \o WithoutSlashes(key), by |-> c])
          /\ SaysWhose([name |-> <<"secret">> \o tenantCredentialPrefix(c)
                                    \o WithoutSlashes(key), by |-> c])
      BY NamesSayWhose
    <3>2. CASE UseKey(c, key)
      <4>1. PICK kind : Touch(c, tenantKey(c, kind, key))
        BY <3>2 DEF UseKey
      <4> QED
        BY <3>1, <4>1, <2>1
    <3>3. CASE UseObject(c, key)
      <4> DEFINE name == storagePrefix(c) \o WithoutSlashes(key)
      <4>1. relativeStorageKey(key)
            /\ Touch(c, IF storage = "s3" THEN name ELSE ResolvePath(name))
        BY <3>3 DEF UseObject
      <4>2. IdsAreNames => SaysWhose([name |-> ResolvePath(name), by |-> c])
        BY <4>1, ResolvedSaysWhose
      <4>3. storage = "s3" \/ (storage = "filesystem" /\ storage # "s3")
        BY DEF ScopeInv
      <4> HIDE DEF name
      <4>. QED
        <5>1. CASE storage = "s3"
          BY <2>1, <3>1, <4>1, <5>1 DEF name
        <5>2. CASE storage = "filesystem"
          BY <2>1, <4>1, <4>2, <4>3, <5>2 DEF Plain
        <5>. QED
          BY <4>3, <5>1, <5>2
    <3>4. CASE UseSecret(c, key)
      BY <3>1, <3>4, <2>1 DEF UseSecret
    <3> QED
      BY <2>3, <3>2, <3>3, <3>4
  <2>4. ASSUME NEW c \in Contexts, NEW d \in Contexts, AskScoped(c, d) \/ publish(c, d)
        PROVE  ScopeInv'
    BY <2>4, <2>2 DEF AskScoped, publish
  <2>5. CASE UNCHANGED scopeVars
    BY <2>5 DEF scopeVars, ScopeInv, SaysWhose, Plain
  <2> QED
    BY <2>3, <2>4, <2>5 DEF ScopeNext
<1>3. ScopeInv => (Plain => ScopesAreDisjoint)
  <2> SUFFICES ASSUME ScopeInv, Plain,
                      NEW t \in touched, NEW u \in touched, t.name = u.name
               PROVE  t.by = u.by
    BY DEF ScopeInv, ScopesAreDisjoint
  <2>1. t.by \in Contexts /\ u.by \in Contexts /\ SaysWhose(t) /\ SaysWhose(u)
    BY DEF ScopeInv
  <2>2. t.by.tenantId = u.by.tenantId /\ WorkspaceName(t.by) = WorkspaceName(u.by)
    BY <2>1 DEF SaysWhose
  <2>3. t.by.workspaceId = u.by.workspaceId
    BY <2>1, <2>2, ScopeAssumption DEF WorkspaceName
  <2> QED
    BY <2>1, <2>2, <2>3
<1> QED
  BY <1>1, <1>2, <1>3, PTL DEF ScopeSpec, Plain
-----------------------------------------------------------------------------
(* Cache *)

\* The call in flight is the one that loads, what the cache holds is the newest it held,
\* and what a load in flight has read is no older.
CacheInv ==
  /\ CacheTypeOK
  /\ \A c \in CacheCalls : atCache[c] \in Loading <=> inFlight = c
  /\ newest <= version
  /\ cached # 0 => cached = newest
  /\ \A c \in CacheCalls :
       /\ before[c] <= newest
       /\ atCache[c] \in {"set", "report", "settled"} /\ value[c] # 0 =>
            newest <= value[c] /\ value[c] <= version
       /\ atCache[c] \in {"hit", "done"} => before[c] <= value[c]
       /\ atCache[c] = "hit" => value[c] # 0
       /\ atCache[c] = "join" =>
            /\ owner[c] \in CacheCalls
            /\ atCache[owner[c]] \in Loading \cup {"done", "failed"}
            /\ atCache[owner[c]] # "load" /\ value[owner[c]] # 0 =>
                 before[c] <= value[owner[c]]

LEMMA CacheInvariance == CacheSpec => []CacheInv
<1> USE CacheAssumption
<1>1. CacheInit => CacheInv
  <2> SUFFICES ASSUME CacheInit PROVE CacheInv
    OBVIOUS
  <2>1. CacheTypeOK
    BY DEF CacheInit, CacheTypeOK, CacheSteps
  <2>2. \A c \in CacheCalls : atCache[c] = "new" /\ before[c] = 0 /\ inFlight # c
    BY DEF CacheInit
  <2> QED
    BY <2>1, <2>2 DEF CacheInit, CacheInv, Loading
<1>2. CacheInv /\ [CacheNext]_cacheVars => CacheInv'
  <2> SUFFICES ASSUME CacheInv, [CacheNext]_cacheVars PROVE CacheInv'
    OBVIOUS
  <2> USE DEF CacheInv, CacheTypeOK, CacheSteps, Loading, MoveOn, keeping, breaker
  <2>1. ASSUME NEW c \in CacheCalls, BeginCached(c) PROVE CacheInv'
    BY <2>1 DEF BeginCached
  <2>2. ASSUME NEW c \in CacheCalls, CacheGet(c) PROVE CacheInv'
    BY <2>2 DEF CacheGet, succeed
  <2>3. ASSUME NEW c \in CacheCalls, TryFails(c) PROVE CacheInv'
    BY <2>3 DEF TryFails, Mishap, fail
  <2>4. ASSUME NEW c \in CacheCalls, RecordRejects(c) PROVE CacheInv'
    BY <2>4 DEF RecordRejects, Mishap
  <2>5. ASSUME NEW c \in CacheCalls, ReturnHit(c) PROVE CacheInv'
    BY <2>5 DEF ReturnHit
  <2>6. ASSUME NEW c \in CacheCalls, JoinOrLoad(c) PROVE CacheInv'
    BY <2>6 DEF JoinOrLoad
  <2>7. ASSUME NEW c \in CacheCalls, LoadReturns(c) PROVE CacheInv'
    BY <2>7 DEF LoadReturns
  <2>8. ASSUME NEW c \in CacheCalls, LoadRejects(c) PROVE CacheInv'
    BY <2>8 DEF LoadRejects, Mishap
  <2>9. ASSUME NEW c \in CacheCalls, CacheSet(c) PROVE CacheInv'
    <3>1. CacheTypeOK'
      BY <2>9 DEF CacheSet, Store, succeed
    <3>2. /\ newest' <= version /\ newest <= newest' /\ (cached' # 0 => cached' = newest')
          /\ value[c] # 0 => newest' = value[c]
          /\ value[c] = 0 => newest' = newest
      BY <2>9 DEF CacheSet, Store
    <3>3. /\ atCache[c] = "set" /\ atCache' = [atCache EXCEPT ![c] = "settled"]
          /\ UNCHANGED <<version, inFlight, owner, value, before>>
      BY <2>9 DEF CacheSet, Store
    <3> QED
      BY <3>1, <3>2, <3>3
  <2>10. ASSUME NEW c \in CacheCalls, CacheSetFails(c) PROVE CacheInv'
    BY <2>10 DEF CacheSetFails, Store, Mishap, fail
  <2>11. ASSUME NEW c \in CacheCalls, ReportSet(c) PROVE CacheInv'
    BY <2>11 DEF ReportSet, Mishap
  <2>12. ASSUME NEW c \in CacheCalls, LeaveFlight(c) PROVE CacheInv'
    BY <2>12 DEF LeaveFlight, Outcome
  <2>13. ASSUME NEW c \in CacheCalls, ReturnJoined(c) PROVE CacheInv'
    BY <2>13 DEF ReturnJoined, Outcome
  <2>14. CASE ChangeLoaded
    BY <2>14 DEF ChangeLoaded
  <2>15. CASE ExpireCached
    BY <2>15 DEF ExpireCached
  <2>16. CASE ResetOver
    BY <2>16 DEF ResetOver
  <2>17. CASE UNCHANGED cacheVars
    BY <2>17 DEF cacheVars
  <2> QED
    BY <2>1, <2>2, <2>3, <2>4, <2>5, <2>6, <2>7, <2>8, <2>9, <2>10, <2>11, <2>12, <2>13,
       <2>14, <2>15, <2>16, <2>17 DEF CacheNext
<1> QED
  BY <1>1, <1>2, PTL DEF CacheSpec

\* For any number of calls, failures and changes.
THEOREM AnswersNeverGoBack == CacheSpec => []CallsNeverGoBack
<1>1. CacheInv => CallsNeverGoBack
  BY DEF CacheInv, CallsNeverGoBack
<1> QED
  BY <1>1, CacheInvariance, PTL
-----------------------------------------------------------------------------
(* Memory limiter *)

\* Of a key whose window was never dropped, the Map has the window it is in, with the
\* count of what passed.
LimiterInv ==
  /\ LimiterTypeOK
  /\ IsFiniteSet(Tracked) /\ Cardinality(Tracked) <= maxTrackedKeys + 1
  /\ \A k \in LimitedKeys \ evicted :
       /\ passed[k] <= MaxRequests
       /\ k \in Live => until[k] = windows[k].resetAt /\ passed[k] = windows[k].count
       /\ now < until[k] => k \in Live

\* What consume goes on with leaves room for one window more than it began with, and
\* whose live window it has not is dropped.
LEMMA KeptFits ==
  ASSUME LimiterInv, NEW kept \in Kept
  PROVE  /\ kept \subseteq Tracked /\ IsFiniteSet(kept)
         /\ Cardinality(kept) <= maxTrackedKeys
         /\ Live \ kept \subseteq Dropped(kept)
<1> USE LimiterAssumption
<1>1. CASE kept \in removeExpired
  <2>1. /\ kept \subseteq Live /\ Cardinality(kept) <= maxTrackedKeys
        /\ kept # Live => Cardinality(kept) = maxTrackedKeys
    BY <1>1 DEF removeExpired, Newest
  <2>2. Live \subseteq Tracked /\ IsFiniteSet(Live) /\ IsFiniteSet(kept)
    BY <2>1, FS_Subset DEF LimiterInv, Live
  <2>3. CASE kept = Live
    BY <2>1, <2>2, <2>3 DEF Dropped
  <2>4. CASE kept # Live
    <3>1. Cardinality(kept) < Cardinality(Live)
      <4>1. Cardinality(kept) <= Cardinality(Live)
            /\ (Cardinality(kept) = Cardinality(Live) => kept = Live)
        BY <2>1, <2>2, FS_Subset
      <4>2. Cardinality(kept) \in Nat /\ Cardinality(Live) \in Nat
        BY <2>2, FS_CardinalityType
      <4>. QED
        BY <4>1, <4>2, <2>4
    <3>2. Cardinality(Live) > maxTrackedKeys
      BY <2>1, <2>4, <3>1
    <3>. QED
      BY <2>1, <2>2, <3>2 DEF Dropped
  <2>. QED
    BY <2>3, <2>4
<1>2. Cardinality(Tracked) \in Nat /\ maxTrackedKeys \in Nat /\ IsFiniteSet(Tracked)
  BY FS_CardinalityType DEF LimiterInv
<1>3. CASE kept = Tracked /\ Cardinality(Tracked) < maxTrackedKeys
  BY <1>2, <1>3 DEF Live
<1>. QED
  BY <1>1, <1>2, <1>3 DEF Kept

LEMMA ConsumeKeepsLimiter ==
  ASSUME LimiterInv, NEW k \in LimitedKeys, NEW kept \in Kept,
         BeginWindow(kept, k) \/ Refuse(kept, k) \/ Pass(kept, k),
         operations' = (operations + 1) % CleanEvery, UNCHANGED now
  PROVE  LimiterInv'
<1> USE LimiterAssumption DEF LimiterInv, LimiterTypeOK
<1>1. /\ kept \subseteq Tracked /\ IsFiniteSet(kept) /\ Cardinality(kept) <= maxTrackedKeys
      /\ Live \ kept \subseteq Dropped(kept)
  BY KeptFits
<1>2. operations' \in 0 .. CleanEvery - 1
  OBVIOUS
<1>3. /\ Cardinality(kept) <= maxTrackedKeys + 1
      /\ IsFiniteSet(kept \cup {k}) /\ Cardinality(kept \cup {k}) <= maxTrackedKeys + 1
  <2>1. Cardinality(kept) \in Nat /\ maxTrackedKeys \in Nat
    BY <1>1, FS_CardinalityType
  <2>2. /\ IsFiniteSet(kept \cup {k})
        /\ Cardinality(kept \cup {k}) \in {Cardinality(kept), Cardinality(kept) + 1}
    BY <1>1, FS_AddElement
  <2>. QED
    BY <1>1, <2>1, <2>2
<1>4. CASE BeginWindow(kept, k)
  <2> DEFINE window == [count |-> 1, resetAt |-> now + WindowLength]
  <2>1. /\ windows' = [l \in kept \cup {k} |-> IF l = k THEN window ELSE windows[l]]
        /\ older' = (older \cap (kept \X kept))
                      \cup {<<l, k>> : l \in IF k \in kept THEN {} ELSE kept}
        /\ k \notin kept \cap Live
    BY <1>4 DEF BeginWindow, Set
  <2>2. /\ passed' = [passed EXCEPT ![k] = IF now >= until[k] THEN 1
                                           ELSE IF @ > MaxRequests THEN @ ELSE @ + 1]
        /\ until' = [until EXCEPT ![k] = IF now < until[k] THEN @ ELSE now + WindowLength]
        /\ evicted' = (IF now >= until[k] THEN evicted \ {k} ELSE evicted) \cup Dropped(kept)
    BY <1>4 DEF BeginWindow, Count
  <2>3. Tracked' = kept \cup {k}
    BY <2>1 DEF Tracked
  <2>4. LimiterTypeOK'
    <3>1. windows' \in [Tracked' -> [count : 1 .. MaxRequests, resetAt : Nat]]
      BY <1>1, <2>1, <2>3 DEF Tracked
    <3>2. older' \subseteq Tracked' \X Tracked'
      BY <2>1, <2>3
    <3>3. passed' \in [LimitedKeys -> 0 .. MaxRequests + 1] /\ until' \in [LimitedKeys -> Nat]
      BY <2>2
    <3>4. evicted' \subseteq LimitedKeys
      BY <2>2 DEF Dropped, Live
    <3>. QED
      BY <1>1, <1>2, <2>3, <3>1, <3>2, <3>3, <3>4
  <2>5. ASSUME NEW l \in LimitedKeys \ evicted'
        PROVE  /\ passed'[l] <= MaxRequests
               /\ l \in Live' => until'[l] = windows'[l].resetAt /\ passed'[l] = windows'[l].count
               /\ now' < until'[l] => l \in Live'
    <3>1. CASE l = k
      <4>1. now >= until[k]
        BY <1>1, <2>1, <2>2, <2>5, <3>1
      <4>. QED
        BY <2>1, <2>2, <2>3, <3>1, <4>1 DEF Live
    <3>2. CASE l # k
      <4>1. l \notin evicted /\ l \notin Live \ kept
        BY <1>1, <2>2, <2>5, <3>2
      <4>2. passed'[l] = passed[l] /\ until'[l] = until[l]
        BY <2>2, <3>2
      <4>3. l \in Live' => l \in Live /\ windows'[l] = windows[l]
        BY <1>1, <2>1, <2>3, <3>2 DEF Live
      <4>4. l \in Live => l \in Live'
        BY <2>1, <2>3, <3>2, <4>1 DEF Live
      <4>. QED
        BY <4>1, <4>2, <4>3, <4>4
    <3>. QED
      BY <3>1, <3>2
  <2>. QED
    BY <1>3, <2>3, <2>4, <2>5
<1>5. CASE Refuse(kept, k)
  <2>1. /\ windows' = [l \in kept |-> windows[l]]
        /\ older' = older \cap (kept \X kept)
        /\ evicted' = evicted \cup Dropped(kept)
        /\ UNCHANGED <<passed, until>>
    BY <1>5 DEF Refuse
  <2>2. Tracked' = kept
    BY <2>1 DEF Tracked
  <2>3. LimiterTypeOK'
    <3>1. windows' \in [Tracked' -> [count : 1 .. MaxRequests, resetAt : Nat]]
      BY <1>1, <2>1, <2>2 DEF Tracked
    <3>2. older' \subseteq Tracked' \X Tracked' /\ evicted' \subseteq LimitedKeys
      BY <2>1, <2>2 DEF Dropped, Live
    <3>. QED
      BY <1>1, <1>2, <2>1, <2>2, <3>1, <3>2
  <2>4. ASSUME NEW l \in LimitedKeys \ evicted'
        PROVE  /\ passed'[l] <= MaxRequests
               /\ l \in Live' => until'[l] = windows'[l].resetAt /\ passed'[l] = windows'[l].count
               /\ now' < until'[l] => l \in Live'
    <3>1. l \notin evicted /\ l \notin Live \ kept
      BY <1>1, <2>1, <2>4
    <3>2. (l \in Live' <=> l \in Live) /\ (l \in Live => windows'[l] = windows[l])
      BY <1>1, <2>1, <2>2, <3>1 DEF Live
    <3>. QED
      BY <2>1, <3>1, <3>2
  <2>. QED
    BY <1>1, <1>3, <2>2, <2>3, <2>4
<1>6. CASE Pass(kept, k)
  <2>1. /\ k \in kept /\ k \in Live /\ windows[k].count < MaxRequests
        /\ windows' = [l \in kept \cup {k} |->
                         IF l = k THEN [windows[k] EXCEPT !.count = @ + 1] ELSE windows[l]]
        /\ older' = (older \cap (kept \X kept))
                      \cup {<<l, k>> : l \in IF k \in kept THEN {} ELSE kept}
    BY <1>6 DEF Pass, Set
  <2>2. /\ passed' = [passed EXCEPT ![k] = IF now >= until[k] THEN 1
                                           ELSE IF @ > MaxRequests THEN @ ELSE @ + 1]
        /\ until' = [until EXCEPT ![k] = IF now < until[k] THEN @ ELSE now + WindowLength]
        /\ evicted' = evicted \cup Dropped(kept)
    BY <1>6, <2>1 DEF Pass, Count
  <2>3. Tracked' = kept \cup {k} /\ kept \cup {k} = kept
    BY <2>1 DEF Tracked
  <2>4. windows[k] \in [count : 1 .. MaxRequests, resetAt : Nat]
    BY <1>1, <2>1
  <2>5. LimiterTypeOK'
    <3>1. windows' \in [Tracked' -> [count : 1 .. MaxRequests, resetAt : Nat]]
      BY <1>1, <2>1, <2>3, <2>4 DEF Tracked
    <3>2. older' \subseteq Tracked' \X Tracked'
      BY <2>1, <2>3
    <3>3. passed' \in [LimitedKeys -> 0 .. MaxRequests + 1] /\ until' \in [LimitedKeys -> Nat]
      BY <2>2
    <3>4. evicted' \subseteq LimitedKeys
      BY <2>2 DEF Dropped, Live
    <3>. QED
      BY <1>1, <1>2, <2>3, <3>1, <3>2, <3>3, <3>4
  <2>6. ASSUME NEW l \in LimitedKeys \ evicted'
        PROVE  /\ passed'[l] <= MaxRequests
               /\ l \in Live' => until'[l] = windows'[l].resetAt /\ passed'[l] = windows'[l].count
               /\ now' < until'[l] => l \in Live'
    <3>1. l \notin evicted /\ l \notin Live \ kept
      BY <1>1, <2>2, <2>6
    <3>2. CASE l = k
      <4>1. until[k] = windows[k].resetAt /\ passed[k] = windows[k].count /\ now < until[k]
        BY <2>1, <3>1, <3>2 DEF Live
      <4>2. passed'[k] = passed[k] + 1 /\ until'[k] = until[k]
        BY <2>1, <2>2, <4>1
      <4>3. windows'[k].count = windows[k].count + 1 /\ windows'[k].resetAt = windows[k].resetAt
        BY <2>1, <2>4
      <4>. QED
        BY <2>1, <2>3, <3>2, <4>1, <4>2, <4>3 DEF Live
    <3>3. CASE l # k
      <4>1. passed'[l] = passed[l] /\ until'[l] = until[l]
        BY <2>2, <3>3
      <4>2. l \in Live' => l \in Live /\ windows'[l] = windows[l]
        BY <1>1, <2>1, <2>3, <3>3 DEF Live
      <4>3. l \in Live => l \in Live'
        BY <2>1, <2>3, <3>1, <3>3 DEF Live
      <4>. QED
        BY <3>1, <4>1, <4>2, <4>3
    <3>. QED
      BY <3>2, <3>3
  <2>. QED
    BY <1>3, <2>3, <2>5, <2>6
<1>. QED
  BY <1>4, <1>5, <1>6

LEMMA LimiterInvariance == LimiterSpec => []LimiterInv
<1>1. LimiterInit => LimiterInv
  <2> SUFFICES ASSUME LimiterInit PROVE LimiterInv
    OBVIOUS
  <2>1. Tracked = {} /\ Live = {}
    BY DEF LimiterInit, Tracked, Live
  <2>2. IsFiniteSet(Tracked) /\ Cardinality(Tracked) = 0
    BY <2>1, FS_EmptySet
  <2>3. LimiterTypeOK
    BY <2>1, LimiterAssumption DEF LimiterInit, LimiterTypeOK
  <2>. QED
    BY <2>1, <2>2, <2>3, LimiterAssumption DEF LimiterInit, LimiterInv
<1>2. LimiterInv /\ [LimiterNext]_limiterVars => LimiterInv'
  <2> SUFFICES ASSUME LimiterInv, [LimiterNext]_limiterVars PROVE LimiterInv'
    OBVIOUS
  <2>1. ASSUME NEW k \in LimitedKeys, consume(k) PROVE LimiterInv'
    BY <2>1, ConsumeKeepsLimiter DEF consume
  <2>2. CASE Tick
    <3>1. /\ now' = now + 1 /\ now < MaxTime
          /\ UNCHANGED <<windows, older, operations, passed, until, evicted>>
      BY <2>2 DEF Tick
    <3>2. Tracked' = Tracked /\ \A k \in Tracked : k \in Live' <=> windows[k].resetAt > now + 1
      BY <3>1 DEF Tracked, Live
    <3>3. LimiterTypeOK'
      BY <3>1, <3>2, LimiterAssumption DEF LimiterInv, LimiterTypeOK
    <3>4. \A k \in Live' : k \in Live
      BY <3>1, <3>2 DEF Live, LimiterInv, LimiterTypeOK, Tracked
    <3>. QED
      BY <3>1, <3>2, <3>3, <3>4 DEF LimiterInv, LimiterTypeOK, Live
  <2>3. CASE UNCHANGED limiterVars
    BY <2>3 DEF limiterVars, LimiterInv, LimiterTypeOK, Tracked, Live
  <2>. QED
    BY <2>1, <2>2, <2>3 DEF LimiterNext
<1>. QED
  BY <1>1, <1>2, PTL DEF LimiterSpec

\* For any keys, limits, windows and bounds: only a key whose live window was dropped
\* for room passes its limit, and the Map never grows past its bound by more than one.
THEOREM LimitHolds == LimiterSpec => []LimitHoldsUnlessEvicted
<1>1. LimiterInv => LimitHoldsUnlessEvicted
  BY DEF LimiterInv, LimitHoldsUnlessEvicted
<1>. QED
  BY <1>1, LimiterInvariance, PTL
-----------------------------------------------------------------------------
(* Operations collector *)

\* What a count of the findings a source has had throughout may be.
Counts(s) ==
  /\ Cardinality(standing[s] \cap Critical) <= summary[s].critical
  /\ Cardinality(standing[s] \cap High) <= summary[s].high

\* A source that answered, and had no more than a page of findings, counted at least
\* those that are standing now.
CollectorInv ==
  /\ CollectorTypeOK
  /\ \A s \in Counters : standing[s] \subseteq present[s]
  /\ DOMAIN summary = Sources
  /\ \A s \in Sources :
       summary[s] = Unanswered \/ (summary[s].critical \in Nat /\ summary[s].high \in Nat)
  /\ \A s \in Counters :
       \/ summary[s] = Unanswered
       \/ summary[s].state = "UNAVAILABLE"
       \/ summary[s].truncated
       \/ Counts(s)

\* Findings of one severity, of a set of findings and of a smaller one.
LEMMA FewerFindings ==
  ASSUME NEW S \in SUBSET Findings, NEW T \in SUBSET S, NEW severity
  PROVE  /\ Cardinality(T \cap severity) \in Nat /\ Cardinality(S \cap severity) \in Nat
         /\ Cardinality(T \cap severity) <= Cardinality(S \cap severity)
<1>1. IsFiniteSet(S \cap severity)
  BY FS_Subset, CollectorAssumption
<1>2. IsFiniteSet(T \cap severity)
      /\ Cardinality(T \cap severity) <= Cardinality(S \cap severity)
  BY <1>1, FS_Subset
<1>. QED
  BY <1>1, <1>2, FS_CardinalityType

LEMMA CollectorInvariance == CollectorSpec => []CollectorInv
<1> USE CollectorAssumption DEF CollectorInv, CollectorTypeOK
<1>1. CollectorInit => CollectorInv
  <2>1. Counters \subseteq Sources
    BY DEF Sources, Scanners
  <2> SUFFICES ASSUME CollectorInit PROVE CollectorInv
    OBVIOUS
  <2>2. present \in [Counters -> SUBSET Findings] /\ standing = present
        /\ changes \in 0 .. MaxChanges
    BY DEF CollectorInit
  <2>3. DOMAIN summary = Sources /\ \A s \in Sources : summary[s] = Unanswered
    BY DEF CollectorInit
  <2>. QED
    BY <2>1, <2>2, <2>3 DEF CollectorInit
<1>2. CollectorInv /\ [CollectorNext]_collectorVars => CollectorInv'
  <2> SUFFICES ASSUME CollectorInv, [CollectorNext]_collectorVars PROVE CollectorInv'
    OBVIOUS
  <2>1. ASSUME NEW s \in Counters, NEW f \in Findings, Change(s, f) PROVE CollectorInv'
    <3>1. /\ changes' \in 0 .. MaxChanges
          /\ present' = [present EXCEPT ![s] = IF f \in @ THEN @ \ {f} ELSE @ \cup {f}]
          /\ standing' = [standing EXCEPT ![s] = @ \ {f}]
          /\ UNCHANGED <<listing, summary>>
      BY <2>1 DEF Change
    <3>2. ASSUME NEW t \in Counters
          PROVE  /\ standing'[t] \subseteq present'[t] /\ standing'[t] \subseteq standing[t]
                 /\ present'[t] \in SUBSET Findings
      BY <3>1
    <3>3. ASSUME NEW t \in Counters, Counts(t),
                 summary[t].critical \in Nat, summary[t].high \in Nat
          PROVE  Counts(t)'
      <4>1. standing[t] \in SUBSET Findings /\ standing'[t] \in SUBSET standing[t]
        BY <3>2
      <4>2. /\ Cardinality(standing'[t] \cap Critical) \in Nat
            /\ Cardinality(standing[t] \cap Critical) \in Nat
            /\ Cardinality(standing'[t] \cap Critical) <= Cardinality(standing[t] \cap Critical)
        BY <4>1, FewerFindings
      <4>3. /\ Cardinality(standing'[t] \cap High) \in Nat
            /\ Cardinality(standing[t] \cap High) \in Nat
            /\ Cardinality(standing'[t] \cap High) <= Cardinality(standing[t] \cap High)
        BY <4>1, FewerFindings
      <4>. QED
        BY <3>1, <3>3, <4>2, <4>3 DEF Counts
    <3>4. Counters \subseteq Sources
      BY DEF Sources, Scanners
    <3>. QED
      BY <3>1, <3>2, <3>3, <3>4
  <2>2. ASSUME NEW s \in Sources, NEW result, Summarise(s, result),
               result.state \in States, result.critical \in Nat, result.high \in Nat,
               s \in Counters =>
                 \/ result.state = "UNAVAILABLE"
                 \/ result.truncated
                 \/ /\ Cardinality(standing[s] \cap Critical) <= result.critical
                    /\ Cardinality(standing[s] \cap High) <= result.high
        PROVE  CollectorInv'
    <3>1. UNCHANGED <<present, listing, standing, changes>> /\ Counters \subseteq Sources
      BY <2>2 DEF Summarise, Sources, Scanners
    <3>2. /\ DOMAIN summary' = Sources /\ summary'[s] = result
          /\ \A t \in Sources \ {s} : summary'[t] = summary[t]
      BY <2>2 DEF Summarise
    <3>3. ASSUME NEW t \in Sources
          PROVE  /\ summary'[t] = Unanswered \/ summary'[t].state \in States
                 /\ \/ summary'[t] = Unanswered
                    \/ summary'[t].critical \in Nat /\ summary'[t].high \in Nat
      BY <2>2, <3>2
    <3>4. ASSUME NEW t \in Counters
          PROVE  \/ summary'[t] = Unanswered
                 \/ summary'[t].state = "UNAVAILABLE"
                 \/ summary'[t].truncated
                 \/ Counts(t)'
      <4>1. CASE t = s
        BY <2>2, <3>1, <3>2, <4>1 DEF Counts
      <4>2. CASE t # s
        BY <3>1, <3>2, <4>2 DEF Counts
      <4>. QED
        BY <4>1, <4>2
    <3>. QED
      BY <3>1, <3>2, <3>3, <3>4
  <2>3. ASSUME NEW s \in Sources, Unavailable(s) PROVE CollectorInv'
    BY <2>2, <2>3 DEF Unavailable, State, States
  <2>4. CASE collectCloudWatch \/ collectCloudTrail \/ collectCosts \/ collectBackup
    BY <2>2, <2>4
    DEF collectCloudWatch, collectCloudTrail, collectCosts, collectBackup, State, States,
        Sources, Scanners, Counters
  <2>5. CASE ListDetectors \/ ListFindings
    <3>1. CASE Summarise("guardDuty", State("NOT_CONFIGURED"))
               \/ Summarise("guardDuty", State("HEALTHY"))
      BY <2>2, <3>1 DEF State, States, Sources, Scanners, Counters
    <3>2. CASE listing' = TRUE /\ UNCHANGED <<present, summary, standing, changes>>
      BY <3>2 DEF Counts
    <3>. QED
      BY <2>5, <3>1, <3>2 DEF ListDetectors, ListFindings
  <2>6. ASSUME NEW s \in Counters, CollectFindings(s) PROVE CollectorInv'
    <3>1. PICK page \in SUBSET present[s] :
            Summarise(s, [state |-> "HEALTHY", critical |-> Cardinality(page \cap Critical),
                          high |-> Cardinality(page \cap High),
                          truncated |-> page # present[s]])
      BY <2>6 DEF CollectFindings, Pages, kSubset, Counted
    <3>2. present[s] \in SUBSET Findings /\ standing[s] \in SUBSET present[s]
          /\ s \in Sources
      BY DEF Sources, Scanners
    <3>3. Cardinality(page \cap Critical) \in Nat /\ Cardinality(page \cap High) \in Nat
      BY <3>2, FewerFindings
    <3>4. page = present[s] =>
            /\ Cardinality(standing[s] \cap Critical) <= Cardinality(page \cap Critical)
            /\ Cardinality(standing[s] \cap High) <= Cardinality(page \cap High)
      BY <3>2, FewerFindings
    <3>. QED
      BY <2>2, <3>1, <3>2, <3>3, <3>4 DEF States
  <2>7. CASE UNCHANGED collectorVars
    BY <2>7 DEF collectorVars, Counts
  <2>. QED
    BY <2>1, <2>3, <2>4, <2>5, <2>6, <2>7 DEF CollectorNext
<1>. QED
  BY <1>1, <1>2, PTL DEF CollectorSpec

\* For any findings, page length and number of changes: a posture that is HEALTHY hides
\* no finding that was there throughout, of a source with no more than a page of them.
THEOREM FindingsAreShown == CollectorSpec => []StandingFindingsAreShown
<1>1. CollectorInv => StandingFindingsAreShown
  <2> SUFFICES ASSUME CollectorInv, Collected, posture = "HEALTHY"
               PROVE  /\ criticalFindings
                           >= Listed("securityHub", Critical) + Listed("inspector", Critical)
                      /\ highFindings >= Listed("securityHub", High) + Listed("inspector", High)
    BY DEF StandingFindingsAreShown
  <2>1. \A s \in Scanners :
          /\ summary[s].state # "UNAVAILABLE"
          /\ summary[s].critical \in Nat /\ summary[s].high \in Nat
    BY DEF Collected, posture, CollectorInv, Sources
  <2>2. ASSUME NEW s \in Counters
        PROVE  /\ Listed(s, Critical) \in 0 .. summary[s].critical
               /\ Listed(s, High) \in 0 .. summary[s].high
    <3>1. s \in Scanners /\ s \in Sources /\ standing[s] \in SUBSET Findings
      BY DEF Scanners, Sources, CollectorInv, CollectorTypeOK
    <3>2. /\ Cardinality(standing[s] \cap Critical) \in Nat
          /\ Cardinality(standing[s] \cap High) \in Nat
      BY <3>1, FewerFindings
    <3>3. summary[s].truncated \/ Counts(s)
      BY <2>1, <3>1 DEF CollectorInv, Collected
    <3>. QED
      BY <2>1, <3>1, <3>2, <3>3 DEF Listed, Counts
  <2>3. "securityHub" \in Counters /\ "inspector" \in Counters
        /\ \A s \in Counters : s \in Scanners
        /\ "guardDuty" \in Scanners
    BY DEF Counters, Scanners
  <2>. QED
    BY <2>1, <2>2, <2>3 DEF criticalFindings, highFindings
<1>. QED
  BY <1>1, CollectorInvariance, PTL
-----------------------------------------------------------------------------
(* Section 19 *)

\* What may be said of a record, stored or in a request's hands.
SoundRecord(c) ==
  /\ c \in Records
  /\ Approved(c) => c.approvedBy \in approvals \cup posted

\* It is of the requestor and the environment that the row is of.
OfRow(c) ==
  row # Nil /\ c.requestedBy = row.requestedBy /\ c.environment = row.environment

\* While no write is rolled back, all that was read of the change agrees with the row.
RequestorStays ==
  /\ row = Nil => approvals = {}
  /\ \A c \in held : c # Nil => OfRow(c)
  /\ \A p \in Posts : waits[p] = "save" => OfRow(found[p])
  /\ row # Nil /\ row.environment = "production" => \A a \in approvals : a # row.requestedBy

Section19Inv ==
  /\ Section19TypeOK
  /\ \A a \in approvals : a \in Privileged
  /\ \A c \in Seen : c # Nil => SoundRecord(c)
  /\ \A p \in Posts :
       /\ waits[p] \in {"policy", "read", "save"} => route[p] \in Requested /\ by[p] \in Actors
       /\ waits[p] \in {"read", "save"} /\ route[p] = "APPROVED" => by[p] \in Privileged
       /\ waits[p] = "insert" => found[p] \in Records
       /\ waits[p] = "save" => SoundRecord(found[p]) /\ MayMove(p, found[p])
  /\ ~undone => RequestorStays

\* An upsert of a sound record of the row leaves a sound row of the same requestor.
LEMMA UpsertKeeps ==
  ASSUME Section19Inv, NEW c \in Records, Upsert(c)
  PROVE  /\ row' \in Records /\ row' # Nil
         /\ row'.status = c.status /\ row'.approvedBy = c.approvedBy
         /\ row # Nil => /\ row'.requestedBy = row.requestedBy
                         /\ row'.environment = row.environment
PROOF
<1>1. CASE row = Nil
  BY <1>1, Section19Assumption DEF Upsert
<1>2. CASE row # Nil
  <2>1. row \in Records
    BY <1>2 DEF Section19Inv, Section19TypeOK
  <2> QED BY <1>2, <2>1, Section19Assumption DEF Upsert, Records
<1> QED BY <1>1, <1>2

LEMMA Section19Invariance == Section19Spec => []Section19Inv
PROOF
<1> USE Section19Assumption
<1>1. Section19Init => Section19Inv
  <2> SUFFICES ASSUME Section19Init PROVE Section19Inv
    OBVIOUS
  <2>1. Section19TypeOK
    BY DEF Section19Init, Section19TypeOK
  <2>2. Seen = {Nil} /\ approvals = {} /\ \A p \in Posts : waits[p] = "new"
    BY DEF Section19Init, Seen
  <2>3. RequestorStays
    BY <2>2 DEF Section19Init, RequestorStays
  <2> QED BY <2>1, <2>2, <2>3 DEF Section19Inv
<1>2. Section19Inv /\ [Section19Next]_section19Vars => Section19Inv'
  <2> SUFFICES ASSUME Section19Inv, [Section19Next]_section19Vars PROVE Section19Inv'
    OBVIOUS
  <2> USE DEF Section19Inv, Section19TypeOK
  <2>1. ASSUME NEW p \in Posts, NEW body \in Bodies, PostChange(p, body) PROVE Section19Inv'
    <3>1. /\ waits[p] = "new" /\ waits' = [waits EXCEPT ![p] = "insert"]
          /\ found' = [found EXCEPT ![p] = body] /\ body \in Records /\ posts' = posts + 1
          /\ UNCHANGED <<row, held, route, by, approvals, posted, undone>>
      BY <2>1 DEF PostChange, BeginPost, WaitFor
    <3>2. Section19TypeOK'
      BY <3>1
    <3>3. ~undone' => RequestorStays'
      BY <3>1 DEF RequestorStays, OfRow
    <3>4. \A q \in Posts \ {p} : waits'[q] = waits[q] /\ found'[q] = found[q]
      BY <3>1
    <3>5. waits'[p] = "insert" /\ found'[p] = body
      BY <3>1
    <3>6. \A c : SoundRecord(c)' <=> SoundRecord(c)
      BY <3>1 DEF SoundRecord, Approved
    <3>7. Seen' = Seen /\ \A q, c : MayMove(q, c)' <=> MayMove(q, c)
      BY <3>1 DEF Seen, MayMove
    <3> QED
      BY <3>1, <3>2, <3>3, <3>4, <3>5, <3>6, <3>7
  <2>2. ASSUME NEW p \in Posts, NEW a \in Actors, NEW s \in Requested,
               PostTransition(p, a, s)
        PROVE  Section19Inv'
    <3>1. /\ waits[p] = "new" /\ posts' = posts + 1
          /\ waits' = [waits EXCEPT ![p] = IF s = "APPROVED" THEN "policy" ELSE "read"]
          /\ route' = [route EXCEPT ![p] = s] /\ by' = [by EXCEPT ![p] = a]
          /\ UNCHANGED <<row, held, found, approvals, posted, undone>>
      BY <2>2 DEF PostTransition, BeginPost, WaitFor
    <3>2. Section19TypeOK'
      BY <3>1
    <3>3. ~undone' => RequestorStays'
      BY <3>1 DEF RequestorStays, OfRow
    <3>4. \A q \in Posts \ {p} : /\ waits'[q] = waits[q] /\ route'[q] = route[q]
                                 /\ by'[q] = by[q]
                                 /\ \A c : MayMove(q, c)' <=> MayMove(q, c)
      BY <3>1 DEF MayMove
    <3>5. /\ waits'[p] = IF s = "APPROVED" THEN "policy" ELSE "read"
          /\ route'[p] = s /\ by'[p] = a
      BY <3>1
    <3>6. \A c : SoundRecord(c)' <=> SoundRecord(c)
      BY <3>1 DEF SoundRecord, Approved
    <3>7. Seen' = Seen
      BY <3>1 DEF Seen
    <3> QED
      BY <3>1, <3>2, <3>3, <3>4, <3>5, <3>6, <3>7
  <2>3. ASSUME NEW p \in Posts, InsertChange(p) PROVE Section19Inv'
    <3>1. /\ waits[p] = "insert" /\ waits' = [waits EXCEPT ![p] = "audit"]
          /\ Connected /\ Upsert(found[p]) /\ found[p] \in Records
          /\ posted' = IF Approved(found[p]) THEN posted \cup {found[p].approvedBy} ELSE posted
          /\ UNCHANGED <<route, by, found, posts, approvals, undone>>
      BY <2>3 DEF InsertChange, WaitFor
    <3>2. /\ row' \in Records /\ row' # Nil
          /\ row'.status = found[p].status /\ row'.approvedBy = found[p].approvedBy
          /\ row # Nil => /\ row'.requestedBy = row.requestedBy
                          /\ row'.environment = row.environment
      BY <3>1, UpsertKeeps
    <3>3. Section19TypeOK'
      BY <3>1, <3>2 DEF Connected, Records
    <3>4. \A c : SoundRecord(c) => SoundRecord(c)'
      BY <3>1 DEF SoundRecord, Approved
    <3>5. \A c \in Seen' : c # Nil => SoundRecord(c)'
      <4>1. SoundRecord(row)'
        BY <3>1, <3>2 DEF SoundRecord, Approved
      <4>2. \A c \in held' : c \in Seen
        BY <3>1 DEF Connected, Seen
      <4> QED BY <3>4, <4>1, <4>2 DEF Seen
    <3>6. ~undone' => RequestorStays'
      BY <3>1, <3>2 DEF RequestorStays, OfRow, Connected
    <3>7. \A q \in Posts : waits'[q] # "audit" => waits'[q] = waits[q]
      BY <3>1
    <3> QED
      BY <3>1, <3>3, <3>4, <3>5, <3>6, <3>7 DEF MayMove
  <2>4. ASSUME NEW p \in Posts, CheckPolicy(p) PROVE Section19Inv'
    <3>1. /\ UNCHANGED <<row, held, posts, approvals, posted, undone>>
          /\ waits[p] = "policy"
          /\ \/ /\ by[p] \in Privileged /\ waits' = [waits EXCEPT ![p] = "read"]
                /\ UNCHANGED <<route, by, found>>
             \/ EndPost(p)
      BY <2>4 DEF CheckPolicy, WaitFor
    <3>2. CASE EndPost(p)
      BY <3>1, <3>2 DEF EndPost, MayMove, RequestorStays, OfRow, Seen, SoundRecord, Approved
    <3>3. CASE /\ by[p] \in Privileged /\ waits' = [waits EXCEPT ![p] = "read"]
               /\ UNCHANGED <<route, by, found>>
      BY <3>1, <3>3 DEF MayMove, RequestorStays, OfRow, Seen, SoundRecord, Approved
    <3> QED BY <3>1, <3>2, <3>3
  <2>5. ASSUME NEW p \in Posts, requireChange(p) PROVE Section19Inv'
    <3>1. PICK c \in Seen :
            /\ waits[p] = "read"
            /\ UNCHANGED <<row, held, posts, approvals, posted, undone>>
            /\ IF c # Nil /\ MayMove(p, c)
               THEN /\ waits' = [waits EXCEPT ![p] = "save"]
                    /\ found' = [found EXCEPT ![p] = c]
                    /\ UNCHANGED <<route, by>>
               ELSE EndPost(p)
      BY <2>5 DEF requireChange, WaitFor
    <3>2. CASE ~(c # Nil /\ MayMove(p, c))
      <4>1. EndPost(p)
        BY <3>1, <3>2
      <4> QED
        BY <3>1, <4>1 DEF EndPost, MayMove, RequestorStays, OfRow, Seen, SoundRecord, Approved
    <3>3. CASE c # Nil /\ MayMove(p, c)
      <4>1. /\ waits' = [waits EXCEPT ![p] = "save"] /\ found' = [found EXCEPT ![p] = c]
            /\ UNCHANGED <<route, by>> /\ SoundRecord(c) /\ c \in Records
        BY <3>1, <3>3 DEF SoundRecord
      <4>2. ~undone => OfRow(c)
        BY <3>1, <3>3 DEF RequestorStays, Seen, OfRow
      <4>3. Section19TypeOK'
        BY <3>1, <4>1
      <4>4. MayMove(p, c)' /\ SoundRecord(c)'
        BY <3>1, <3>3, <4>1 DEF MayMove, SoundRecord, Approved
      <4>5. ~undone' => RequestorStays'
        BY <3>1, <4>1, <4>2 DEF RequestorStays, OfRow
      <4>6. \A q \in Posts \ {p} : waits'[q] = waits[q] /\ found'[q] = found[q]
        BY <4>1
      <4>7. waits'[p] = "save" /\ found'[p] = c
        BY <4>1
      <4>8. \A d : SoundRecord(d)' <=> SoundRecord(d)
        BY <3>1 DEF SoundRecord, Approved
      <4>9. \A q, d : MayMove(q, d)' <=> MayMove(q, d)
        BY <4>1 DEF MayMove
      <4>10. Seen' = Seen
        BY <3>1 DEF Seen
      <4> QED
        BY <3>1, <4>1, <4>3, <4>4, <4>5, <4>6, <4>7, <4>8, <4>9, <4>10
    <3> QED BY <3>2, <3>3
  <2>6. ASSUME NEW p \in Posts, saveChange(p) PROVE Section19Inv'
    <3>1. /\ waits[p] = "save" /\ waits' = [waits EXCEPT ![p] = "audit"]
          /\ Connected /\ Upsert(Updated(p))
          /\ approvals' = IF route[p] = "APPROVED" THEN approvals \cup {by[p]} ELSE approvals
          /\ UNCHANGED <<route, by, found, posts, posted, undone>>
      BY <2>6 DEF saveChange, WaitFor
    <3>2. /\ SoundRecord(found[p]) /\ found[p] \in Records /\ by[p] \in Actors
          /\ route[p] \in Requested /\ MayMove(p, found[p])
          /\ route[p] = "APPROVED" => by[p] \in Privileged
      BY <3>1 DEF SoundRecord
    <3>3. /\ Updated(p) \in Records /\ Updated(p).status = route[p]
          /\ Updated(p).requestedBy = found[p].requestedBy
          /\ Updated(p).approvedBy =
               IF route[p] = "APPROVED" THEN by[p] ELSE found[p].approvedBy
      BY <3>2 DEF Updated, Records, Requested, Statuses
    <3>4. /\ row' \in Records /\ row' # Nil
          /\ row'.status = route[p] /\ row'.approvedBy = Updated(p).approvedBy
          /\ row # Nil => /\ row'.requestedBy = row.requestedBy
                          /\ row'.environment = row.environment
      BY <3>1, <3>3, UpsertKeeps
    <3>5. route[p] = "PROVISIONING" => found[p].status = "APPROVED"
      BY <3>2 DEF MayMove, Graph, Records, Statuses
    <3>6. SoundRecord(row)'
      BY <3>1, <3>2, <3>3, <3>4, <3>5 DEF SoundRecord, Approved
    <3>7. \A c : SoundRecord(c) => SoundRecord(c)'
      BY <3>1 DEF SoundRecord, Approved
    <3>8. Section19TypeOK'
      BY <3>1, <3>2, <3>4 DEF Connected
    <3>9. \A c \in Seen' : c # Nil => SoundRecord(c)'
      <4>1. \A c \in held' : c \in Seen
        BY <3>1 DEF Connected, Seen
      <4> QED BY <3>6, <3>7, <4>1 DEF Seen
    <3>10. ~undone' => RequestorStays'
      <4> SUFFICES ASSUME ~undone PROVE RequestorStays'
        BY <3>1
      <4>1. RequestorStays /\ OfRow(found[p])
        BY <3>1 DEF RequestorStays
      <4>2. route[p] = "APPROVED" /\ row.environment = "production" => by[p] # row.requestedBy
        BY <3>2, <4>1 DEF MayMove, OfRow
      <4>3. row'.requestedBy = row.requestedBy /\ row'.environment = row.environment
        BY <3>4, <4>1 DEF OfRow
      <4>4. \A c : OfRow(c) => OfRow(c)'
        BY <3>4, <4>3 DEF OfRow
      <4>5. \A c \in held' : c # Nil => OfRow(c)'
        BY <3>1, <4>1, <4>4 DEF Connected, RequestorStays, OfRow
      <4>6. \A q \in Posts : waits'[q] = "save" => OfRow(found[q])'
        BY <3>1, <4>1, <4>4 DEF RequestorStays, OfRow
      <4> QED
        BY <3>1, <3>4, <4>1, <4>2, <4>3, <4>5, <4>6 DEF RequestorStays, OfRow
    <3>11. \A a \in approvals' : a \in Privileged
      BY <3>1, <3>2
    <3>12. \A q \in Posts : waits'[q] # "audit" => waits'[q] = waits[q]
      BY <3>1
    <3> QED
      BY <3>1, <3>7, <3>8, <3>9, <3>10, <3>11, <3>12 DEF MayMove
  <2>7. ASSUME NEW p \in Posts, appendAudit(p) PROVE Section19Inv'
    BY <2>7 DEF appendAudit, EndPost, MayMove, RequestorStays, OfRow, Seen, SoundRecord, Approved
  <2>8. ASSUME NEW p \in Posts, StatementRejects(p) PROVE Section19Inv'
    BY <2>8 DEF StatementRejects, EndPost, MayMove, RequestorStays, OfRow, Seen, SoundRecord,
                Approved
  <2>9. CASE ActivationEnds
    <3>1. /\ held' = {} /\ UNCHANGED <<route, by, waits, found, posts, approvals, posted>>
          /\ \/ row' = row /\ undone' = undone
             \/ row' \in held /\ undone' = TRUE
      BY <2>9 DEF ActivationEnds
    <3>2. \A c : SoundRecord(c) => SoundRecord(c)'
      BY <3>1 DEF SoundRecord, Approved
    <3>3. row' \in Seen
      BY <3>1 DEF Seen
    <3>4. \A c \in Seen' : c # Nil => SoundRecord(c)'
      BY <3>1, <3>2, <3>3 DEF Seen
    <3>5. ~undone' => RequestorStays'
      BY <3>1 DEF RequestorStays, OfRow
    <3>6. Section19TypeOK'
      BY <3>1
    <3> QED
      BY <3>1, <3>2, <3>4, <3>5, <3>6 DEF MayMove
  <2>10. CASE UNCHANGED section19Vars
    BY <2>10 DEF section19Vars, MayMove, RequestorStays, OfRow, Seen, SoundRecord, Approved
  <2> QED
    BY <2>1, <2>2, <2>3, <2>4, <2>5, <2>6, <2>7, <2>8, <2>9, <2>10 DEF Section19Next
<1> QED BY <1>1, <1>2, PTL DEF Section19Spec

\* For any number of requests, operators and roles, and any bodies of creations.
THEOREM ApproversAreOthers == Section19Spec => []ApprovalsAreByOthers
PROOF
<1>1. Section19Inv => ApprovalsAreByOthers
  BY DEF Section19Inv, SoundRecord, RequestorStays, Seen, ApprovalsAreByOthers
<1> QED BY <1>1, Section19Invariance, PTL
-----------------------------------------------------------------------------
(* All of them *)

LEMMA ScopeTypes == ScopeSpec => []ScopeTypeOK
<1>1. ScopeInit => ScopeTypeOK
  BY DEF ScopeInit, ScopeTypeOK
<1>2. ScopeTypeOK /\ [ScopeNext]_scopeVars => ScopeTypeOK'
  BY DEF ScopeTypeOK, ScopeNext, UseKey, UseObject, UseSecret, Touch, AskScoped, publish,
     Ask, scopeVars
<1>. QED
  BY <1>1, <1>2, PTL DEF ScopeSpec

\* The variables of every library and service keep their types.
LEMMA ServiceTypes == Spec => []TypeOK
<1>1. /\ LeaseInv => LeaseTypeOK
      /\ DomainInv => DomainTypeOK
      /\ ResilienceInv => ResilienceTypeOK
      /\ GatewayInv => GatewayTypeOK
      /\ UploadInv => UploadTypeOK
      /\ LimiterInv => LimiterTypeOK
      /\ Section19Inv => Section19TypeOK
      /\ CollectorInv => CollectorTypeOK
      /\ CacheInv => CacheTypeOK
  BY DEF LeaseInv, DomainInv, ResilienceInv, GatewayInv, UploadInv, LimiterInv,
     Section19Inv, CollectorInv, CacheInv
<1>. QED
  BY <1>1, SubjectsAreComponents, LeaseInvariance, DomainInvariance, ResilienceInvariance,
     GatewayInvariance, UploadInvariance, ScopeTypes, LimiterInvariance,
     Section19Invariance, CollectorInvariance, CacheInvariance, PTL DEF TypeOK

\* Side by side, with whatever the others do, each library and service keeps what the
\* run of Services checks of it, for any constants; on the filesystem the ids must be
\* names.
THEOREM EveryServiceHolds ==
  ASSUME NEW Segments, Keys \subseteq Seq(Segments),
         Contexts \subseteq [tenantId : Segments, workspaceId : Segments \cup {NoWorkspace}]
  PROVE  Spec => []( /\ TypeOK
                     /\ ExclusiveUnlessLost /\ TakenNamesAreRefused /\ SlotsAreKept
                     /\ QuotaOvershoot /\ ApprovedPassedInspection /\ UploadsAreKept
                     /\ Plain => ScopesAreDisjoint
                     /\ LimitHoldsUnlessEvicted /\ ApprovalsAreByOthers
                     /\ StandingFindingsAreShown /\ CallsNeverGoBack )
<1>1. ScopeSpec => [](Plain => ScopesAreDisjoint)
  BY ScopesStayApart
<1>. QED
  BY <1>1, SubjectsAreComponents, ServiceTypes, LocksAreExclusive, NamesAreRefused, SlotsStay,
     QuotaIsOvershotByCallsUnderWay, UninspectedStaysOut, ApprovedUploadsStay, LimitHolds,
     ApproversAreOthers, FindingsAreShown, AnswersNeverGoBack, PTL
=============================================================================
