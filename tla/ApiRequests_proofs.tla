-------------------------- MODULE ApiRequests_proofs --------------------------
(***************************************************************************)
(* What ApiRequests guarantees for any requests, keys and bounds.  The     *)
(* invariant speaks of requests between their lookup and their answer: a   *)
(* response that is live under their key has been live since they looked,  *)
(* and one that was told the key is taken has a response to show for it,   *)
(* unless rows outlive their entries, as they do in PostgreSQL.            *)
(***************************************************************************)
EXTENDS ApiRequests, FiniteSetTheorems, TLAPS

\* A live entry has a response, a request that has arrived a key, and answers
\* come last.
WellFormed ==
  /\ \A k \in Keys : live[k] => response[k] \in Requests
  /\ \A r \in Requests : pc[r] # "new" => key[r] \in Keys
  /\ \A r \in Requests : answer[r] # "none" => pc[r] = "done"

\* A request at work on its key has seen what is live there.
WorkingHasSeen ==
  \A r \in Requests :
    pc[r] \in {"put", "read"} /\ live[key[r]] => response[key[r]] \in seen[r]

\* A request that found its key taken has seen a response.
LoserHasSeen == \A r \in Requests : pc[r] = "read" => seen[r] # {}

HandlerInv ==
  /\ WellFormed
  /\ WorkingHasSeen
  /\ AnswersWereLive
  /\ Backend # "postgres" => LoserHasSeen /\ ConflictMeansRace

\* A counter counts at least the requests it let pass.
LimitInv ==
  /\ \A w \in Workspaces : admitted[w] <= count[w]
  /\ QuotaMax > 0 => served <= quota
  /\ LimitsHold

IInv == TypeOK /\ HandlerInv /\ LimitInv

handling == <<entries, requests, seen>>

------------------------------------------------------------------------------
\* The first state is one: no request has arrived and nothing is stored.
LEMMA InitIInv == Init => IInv
<1> SUFFICES ASSUME Init PROVE IInv
  OBVIOUS
<1> USE DEF Init, NoEntries
<1>1. TypeOK
  BY DEF TypeOK, EntriesType, Answer
<1>2. HandlerInv
  BY DEF HandlerInv, WellFormed, WorkingHasSeen, AnswersWereLive, LoserHasSeen,
         ConflictMeansRace
<1>3. LimitInv
  BY RequestsAssumption DEF LimitInv, LimitsHold
<1> QED
  BY <1>1, <1>2, <1>3 DEF IInv

\* A commit keeps the types of what it writes.
LEMMA CommitType ==
  ASSUME TypeOK, NEW r \in Requests, key[r] \in Keys, Commit(r)
  PROVE  EntriesType' /\ seen' \in [Requests -> SUBSET Requests]
<1>1. EntriesType'
  BY RequestsAssumption DEF TypeOK, EntriesType, Commit, put
<1>2. seen' \in [Requests -> SUBSET Requests]
  BY DEF TypeOK, Commit
<1> QED
  BY <1>1, <1>2

\* The types are preserved by every action.
LEMMA NextType ==
  ASSUME TypeOK, HandlerInv, Next
  PROVE  TypeOK'
<1> USE DEF TypeOK, EntriesType, Answer, entries, requests, limits
<1>0. \A r \in Requests : pc[r] # "new" =>
        key[r] \in Keys /\ workspace(key[r]) \in Workspaces
  BY DEF HandlerInv, WellFormed, Workspaces
<1>1. ASSUME NEW r \in Requests, NEW k \in Keys, Arrive(r, k) PROVE TypeOK'
  BY <1>1 DEF Arrive, Goto
<1>2. ASSUME NEW r \in Requests, ConsumeRequestLimit(r) PROVE TypeOK'
  BY <1>0, <1>2 DEF ConsumeRequestLimit, Goto, Reply
<1>3. ASSUME NEW r \in Requests, ConsumeQuota(r) PROVE TypeOK'
  BY <1>3 DEF ConsumeQuota, Goto, Reply
<1>4. ASSUME NEW r \in Requests, LookUp(r) PROVE TypeOK'
  BY <1>0, <1>4, StoreAssumption, RequestsAssumption DEF LookUp, Goto, Reply, get
<1>5. ASSUME NEW r \in Requests, putIfAbsent(r) PROVE TypeOK'
  <2>1. CASE Occupied(key[r])
    BY <1>5, <2>1 DEF putIfAbsent, Goto
  <2>2. CASE ~Occupied(key[r])
    <3>1. EntriesType' /\ seen' \in [Requests -> SUBSET Requests]
      BY <1>0, <1>5, <2>2, CommitType DEF putIfAbsent
    <3> QED
      BY <1>5, <2>2, <3>1 DEF putIfAbsent, Goto, Reply
  <2> QED
    BY <2>1, <2>2
<1>6. ASSUME NEW r \in Requests, ReadWinner(r) PROVE TypeOK'
  BY <1>0, <1>6, RequestsAssumption DEF ReadWinner, Goto, Reply, get
<1>7. ASSUME NEW r \in Requests, Fail(r) PROVE TypeOK'
  BY <1>7 DEF Fail, Goto, Reply
<1>8. ASSUME NEW r \in Requests, LoseReply(r) PROVE TypeOK'
  <2>1. CASE pc[r] = "put" /\ Commit(r) /\ UNCHANGED <<count, quota>>
    <3>1. EntriesType' /\ seen' \in [Requests -> SUBSET Requests]
      BY <1>0, <2>1, CommitType
    <3> QED
      BY <1>8, <2>1, <3>1 DEF LoseReply
  <2>2. CASE pc[r] \in {"rate", "quota"}
    BY <1>0, <1>8, <2>2 DEF LoseReply
  <2> QED
    BY <1>8, <2>1, <2>2 DEF LoseReply
<1>9. ASSUME NEW k \in Keys, Expire(k) PROVE TypeOK'
  BY <1>9 DEF Expire, lapse
<1>10. ASSUME NEW w \in Workspaces, EndWindow(w) PROVE TypeOK'
  BY <1>10 DEF EndWindow
<1>11. CASE EndQuotaPeriod
  BY <1>11 DEF EndQuotaPeriod
<1> QED
  BY <1>1, <1>2, <1>3, <1>4, <1>5, <1>6, <1>7, <1>8, <1>9, <1>10, <1>11 DEF Next

------------------------------------------------------------------------------
\* A request that moves on with nothing to show for it, or ends so.
LEMMA MovingOn ==
  ASSUME TypeOK, HandlerInv, NEW r \in Requests,
         pc[r] \in {"rate", "quota", "get", "put", "read"},
         \/ /\ pc' = [pc EXCEPT ![r] = "quota"] \/ pc' = [pc EXCEPT ![r] = "get"]
            /\ UNCHANGED <<answer, body>>
         \/ Reply(r, "limited", NoResponse)
         \/ Reply(r, "error", NoResponse),
         UNCHANGED <<entries, key, seen>>
  PROVE  HandlerInv'
<1> USE DEF TypeOK, EntriesType, entries, HandlerInv, Reply, Goto
<1>1. WellFormed'
  BY DEF WellFormed
<1>2. WorkingHasSeen'
  BY DEF WorkingHasSeen
<1>3. AnswersWereLive'
  BY DEF AnswersWereLive
<1>4. ASSUME Backend # "postgres" PROVE LoserHasSeen' /\ ConflictMeansRace'
  BY <1>4 DEF LoserHasSeen, ConflictMeansRace
<1> QED
  BY <1>1, <1>2, <1>3, <1>4

\* What a commit does: the requests at work on the key have seen the response.
LEMMA CommitSeen ==
  ASSUME TypeOK, NEW r \in Requests, key[r] \in Keys, Commit(r)
  PROVE  /\ \A q \in Requests : seen[q] \subseteq seen'[q]
         /\ \A q \in Working(key[r]) : r \in seen'[q]
         /\ \A k \in Keys \ {key[r]} : response'[k] = response[k] /\ live'[k] = live[k]
         /\ response'[key[r]] = r /\ live'[key[r]]
  BY DEF TypeOK, EntriesType, Commit, put, Working

\* A commit, whether its caller is answered or has to send it again.
LEMMA Committing ==
  ASSUME TypeOK, HandlerInv, NEW r \in Requests, pc[r] = "put", Commit(r),
         \/ UNCHANGED requests
         \/ Reply(r, "created", r) /\ key' = key
  PROVE  HandlerInv'
<1> USE DEF TypeOK, EntriesType, HandlerInv, Reply, Goto, requests
<1>0. key[r] \in Keys /\ r \in Working(key[r])
  BY DEF WellFormed, Working
<1>1. \A q \in Requests : seen[q] \subseteq seen'[q]
  BY <1>0, CommitSeen
<1>2. \A q \in Working(key[r]) : r \in seen'[q]
  BY <1>0, CommitSeen
<1>3. \A k \in Keys \ {key[r]} : response'[k] = response[k] /\ live'[k] = live[k]
  BY <1>0, CommitSeen
<1>4. response'[key[r]] = r /\ live'[key[r]]
  BY <1>0, CommitSeen
<1>5. WellFormed'
  BY <1>0, <1>3, <1>4 DEF WellFormed
<1>6. WorkingHasSeen'
  <2> SUFFICES ASSUME NEW q \in Requests, pc'[q] \in {"put", "read"}, live'[key'[q]]
               PROVE  response'[key'[q]] \in seen'[q]
    BY DEF WorkingHasSeen
  <2>1. pc[q] \in {"put", "read"} /\ key'[q] = key[q] /\ key[q] \in Keys
    BY DEF WellFormed
  <2>2. CASE key[q] = key[r]
    BY <1>2, <1>4, <2>1, <2>2 DEF Working
  <2>3. CASE key[q] # key[r]
    BY <1>1, <1>3, <2>1, <2>3 DEF WorkingHasSeen
  <2> QED
    BY <2>2, <2>3
<1>7. AnswersWereLive'
  BY <1>0, <1>1, <1>2 DEF AnswersWereLive
<1>8. ASSUME Backend # "postgres" PROVE LoserHasSeen' /\ ConflictMeansRace'
  <2>1. LoserHasSeen'
    BY <1>1, <1>8 DEF LoserHasSeen
  <2>2. ConflictMeansRace'
    BY <1>1, <1>8 DEF ConflictMeansRace
  <2> QED
    BY <2>1, <2>2
<1> QED
  BY <1>5, <1>6, <1>7, <1>8

\* A lookup, which may find the answer.
LEMMA LookingUp ==
  ASSUME TypeOK, HandlerInv, NEW r \in Requests, LookUp(r)
  PROVE  HandlerInv'
<1> USE DEF TypeOK, EntriesType, HandlerInv, LookUp, Reply, Goto, get, entries
<1>0. key[r] \in Keys
  BY DEF WellFormed
<1>1. WellFormed'
  BY <1>0 DEF WellFormed
<1>2. WorkingHasSeen'
  BY <1>0, StoreAssumption, RequestsAssumption DEF WorkingHasSeen, WellFormed
<1>3. AnswersWereLive'
  BY <1>0, StoreAssumption, RequestsAssumption DEF AnswersWereLive, WellFormed
<1>4. ASSUME Backend # "postgres" PROVE LoserHasSeen' /\ ConflictMeansRace'
  <2>1. LoserHasSeen'
    BY <1>4 DEF LoserHasSeen
  <2>2. ConflictMeansRace'
    BY <1>4 DEF ConflictMeansRace, WellFormed
  <2> QED
    BY <2>1, <2>2
<1> QED
  BY <1>1, <1>2, <1>3, <1>4

\* A put that finds the key taken: unless rows outlive entries, by a response
\* the request has seen.
LEMMA LosingThePut ==
  ASSUME TypeOK, HandlerInv, NEW r \in Requests, putIfAbsent(r), Occupied(key[r])
  PROVE  HandlerInv'
<1> USE DEF TypeOK, EntriesType, HandlerInv, putIfAbsent, Goto, entries
<1>1. WellFormed'
  BY DEF WellFormed
<1>2. WorkingHasSeen'
  BY DEF WorkingHasSeen
<1>3. AnswersWereLive'
  BY DEF AnswersWereLive
<1>4. ASSUME Backend # "postgres" PROVE LoserHasSeen' /\ ConflictMeansRace'
  <2>1. seen[r] # {}
    BY <1>4 DEF Occupied, WorkingHasSeen
  <2>2. LoserHasSeen'
    BY <1>4, <2>1 DEF LoserHasSeen
  <2>3. ConflictMeansRace'
    BY <1>4 DEF ConflictMeansRace
  <2> QED
    BY <2>2, <2>3
<1> QED
  BY <1>1, <1>2, <1>3, <1>4

\* The loser's read, of a response it has seen or of an entry that is over.
LEMMA ReadingTheWinner ==
  ASSUME TypeOK, HandlerInv, NEW r \in Requests, ReadWinner(r)
  PROVE  HandlerInv'
<1> USE DEF TypeOK, EntriesType, HandlerInv, ReadWinner, Reply, Goto, get, entries
<1>1. WellFormed'
  BY DEF WellFormed
<1>2. WorkingHasSeen'
  BY DEF WorkingHasSeen
<1>3. AnswersWereLive'
  BY StoreAssumption, RequestsAssumption DEF AnswersWereLive, WorkingHasSeen
<1>4. ASSUME Backend # "postgres" PROVE LoserHasSeen' /\ ConflictMeansRace'
  BY <1>4 DEF LoserHasSeen, ConflictMeansRace
<1> QED
  BY <1>1, <1>2, <1>3, <1>4

\* The handler's half is preserved by every action.
LEMMA NextHandler ==
  ASSUME TypeOK, HandlerInv, Next
  PROVE  HandlerInv'
<1> USE DEF entries, requests
<1>1. ASSUME NEW r \in Requests, NEW k \in Keys, Arrive(r, k) PROVE HandlerInv'
  <2> USE <1>1 DEF Arrive, Goto, TypeOK, HandlerInv
  <2>1. WellFormed'
    BY DEF WellFormed
  <2>2. WorkingHasSeen' /\ AnswersWereLive'
    BY DEF WorkingHasSeen, AnswersWereLive
  <2>3. ASSUME Backend # "postgres" PROVE LoserHasSeen' /\ ConflictMeansRace'
    BY <2>3 DEF LoserHasSeen, ConflictMeansRace
  <2> QED
    BY <2>1, <2>2, <2>3
<1>2. ASSUME NEW r \in Requests, ConsumeRequestLimit(r) PROVE HandlerInv'
  BY <1>2, MovingOn DEF ConsumeRequestLimit, Goto
<1>3. ASSUME NEW r \in Requests, ConsumeQuota(r) PROVE HandlerInv'
  BY <1>3, MovingOn DEF ConsumeQuota, Goto
<1>4. ASSUME NEW r \in Requests, LookUp(r) PROVE HandlerInv'
  BY <1>4, LookingUp
<1>5. ASSUME NEW r \in Requests, putIfAbsent(r) PROVE HandlerInv'
  BY <1>5, LosingThePut, Committing DEF putIfAbsent
<1>6. ASSUME NEW r \in Requests, ReadWinner(r) PROVE HandlerInv'
  BY <1>6, ReadingTheWinner
<1>7. ASSUME NEW r \in Requests, Fail(r) PROVE HandlerInv'
  <2>1. pc[r] \in {"rate", "quota", "get", "put", "read"}
    BY <1>7 DEF Fail, TypeOK
  <2> QED
    BY <1>7, <2>1, MovingOn DEF Fail
<1>8. ASSUME UNCHANGED handling PROVE HandlerInv'
  BY <1>8 DEF handling, HandlerInv, WellFormed, WorkingHasSeen, AnswersWereLive,
              LoserHasSeen, ConflictMeansRace
<1>9. ASSUME NEW r \in Requests, LoseReply(r) PROVE HandlerInv'
  <2>1. CASE pc[r] = "put" /\ Commit(r)
    BY <1>9, <2>1, Committing DEF LoseReply
  <2>2. CASE UNCHANGED <<entries, seen>>
    BY <1>8, <1>9, <2>2 DEF LoseReply, handling
  <2> QED
    BY <1>9, <2>1, <2>2 DEF LoseReply
<1>10. ASSUME NEW k \in Keys, Expire(k) PROVE HandlerInv'
  <2> USE <1>10 DEF Expire, lapse, TypeOK, EntriesType, HandlerInv
  <2>1. WellFormed'
    BY DEF WellFormed
  <2>2. WorkingHasSeen' /\ AnswersWereLive'
    BY DEF WorkingHasSeen, AnswersWereLive, WellFormed
  <2>3. ASSUME Backend # "postgres" PROVE LoserHasSeen' /\ ConflictMeansRace'
    BY <2>3 DEF LoserHasSeen, ConflictMeansRace
  <2> QED
    BY <2>1, <2>2, <2>3
<1>11. ASSUME NEW w \in Workspaces, EndWindow(w) PROVE HandlerInv'
  BY <1>8, <1>11 DEF EndWindow, handling
<1>12. CASE EndQuotaPeriod
  BY <1>8, <1>12 DEF EndQuotaPeriod, handling
<1> QED
  BY <1>1, <1>2, <1>3, <1>4, <1>5, <1>6, <1>7, <1>9, <1>10, <1>11, <1>12 DEF Next

\* The limits' half is preserved by every action.
LEMMA NextLimit ==
  ASSUME TypeOK, HandlerInv, LimitInv, Next
  PROVE  LimitInv'
<1> USE RequestsAssumption DEF TypeOK, LimitInv, LimitsHold
<1>0. \A r \in Requests : pc[r] # "new" => workspace(key[r]) \in Workspaces
  BY DEF HandlerInv, WellFormed, Workspaces
<1>1. ASSUME NEW r \in Requests, ConsumeRequestLimit(r) PROVE LimitInv'
  <2> DEFINE w == workspace(key[r])
  <2>1. w \in Workspaces
    BY <1>0, <1>1 DEF ConsumeRequestLimit
  <2>2. count' = [count EXCEPT ![w] = @ + 1] /\ UNCHANGED <<quota, served>>
    BY <1>1 DEF ConsumeRequestLimit
  <2>3. \/ count[w] + 1 <= RequestMax /\ admitted' = [admitted EXCEPT ![w] = @ + 1]
        \/ UNCHANGED admitted
    BY <1>1 DEF ConsumeRequestLimit
  <2> HIDE DEF w
  <2> QED
    BY <2>1, <2>2, <2>3
<1>2. ASSUME NEW r \in Requests, ConsumeQuota(r) PROVE LimitInv'
  BY <1>2 DEF ConsumeQuota
<1>3. ASSUME NEW r \in Requests, LoseReply(r) PROVE LimitInv'
  BY <1>0, <1>3 DEF LoseReply
<1>4. ASSUME NEW w \in Workspaces, EndWindow(w) PROVE LimitInv'
  BY <1>4 DEF EndWindow
<1>5. CASE EndQuotaPeriod
  BY <1>5 DEF EndQuotaPeriod
<1>6. ASSUME UNCHANGED limits PROVE LimitInv'
  BY <1>6 DEF limits
<1>7. ASSUME NEW r \in Requests, NEW k \in Keys, Arrive(r, k) PROVE LimitInv'
  BY <1>6, <1>7 DEF Arrive
<1>8. ASSUME NEW r \in Requests,
             LookUp(r) \/ putIfAbsent(r) \/ ReadWinner(r) \/ Fail(r)
      PROVE  LimitInv'
  BY <1>6, <1>8 DEF LookUp, putIfAbsent, ReadWinner, Fail
<1>9. ASSUME NEW k \in Keys, Expire(k) PROVE LimitInv'
  BY <1>6, <1>9 DEF Expire
<1> QED
  BY <1>1, <1>2, <1>3, <1>4, <1>5, <1>7, <1>8, <1>9 DEF Next

\* The invariant is inductive, and so holds of every behaviour.
THEOREM RequestInvariance == Spec => []IInv
<1>1. Init => IInv
  BY InitIInv
<1>2. IInv /\ [Next]_vars => IInv'
  <2> SUFFICES ASSUME IInv, [Next]_vars PROVE IInv'
    OBVIOUS
  <2>1. CASE Next
    BY <2>1, NextType, NextHandler, NextLimit DEF IInv
  <2>2. CASE UNCHANGED vars
    <3> USE <2>2 DEF vars, entries, requests, limits
    <3>1. TypeOK'
      BY DEF IInv, TypeOK, EntriesType
    <3>2. HandlerInv'
      BY DEF IInv, HandlerInv, WellFormed, WorkingHasSeen, AnswersWereLive,
             LoserHasSeen, ConflictMeansRace
    <3>3. LimitInv'
      BY DEF IInv, LimitInv, LimitsHold
    <3> QED
      BY <3>1, <3>2, <3>3 DEF IInv
  <2> QED
    BY <2>1, <2>2
<1> QED
  BY <1>1, <1>2, PTL DEF Spec

\* Every variable keeps its type.
THEOREM RequestTypeCorrect == Spec => []TypeOK
<1>1. IInv => TypeOK
  BY DEF IInv
<1> QED
  BY <1>1, RequestInvariance, PTL

\* Whoever wins and whatever expires, a client is answered with a response that
\* was live under its key during its request, over every adapter.
THEOREM RequestsShareTheAnswer == Spec => []AnswersWereLive
<1>1. IInv => AnswersWereLive
  BY DEF IInv, HandlerInv
<1> QED
  BY <1>1, RequestInvariance, PTL

\* Over Redis and in process, nobody is told 409 for a key that no request
\* committed while he was at work; the assumption is needed, because PostgreSQL
\* refuses a key for ever once its entry has expired.
THEOREM ConflictsAreRaces ==
  ASSUME Backend # "postgres"
  PROVE  Spec => []ConflictMeansRace
<1>1. IInv => ConflictMeansRace
  BY DEF IInv, HandlerInv
<1> QED
  BY <1>1, RequestInvariance, PTL

\* However many replicas count, and however often a command is sent again, no
\* window lets more through than its limit.
THEOREM LimitsAreKept == Spec => []LimitsHold
<1>1. IInv => LimitsHold
  BY DEF IInv, LimitInv
<1> QED
  BY <1>1, RequestInvariance, PTL

------------------------------------------------------------------------------
\* The requests that created a resource under a key.
Creators(k) == {r \in Requests : key[r] = k /\ answer[r] = "created"}

\* Every creation began the life of an entry, which is over or is the live one.
CreationInv ==
  \A k \in Keys :
    Cardinality(Creators(k)) <= expiries[k] + (IF live[k] THEN 1 ELSE 0)

\* A step that answers nobody with a creation, and ends no entry's life
\* uncounted, preserves it.
LEMMA NoCreation ==
  ASSUME TypeOK, TypeOK', CreationInv,
         \A k \in Keys : Creators(k)' \subseteq Creators(k),
         \A k \in Keys : expiries[k] + (IF live[k] THEN 1 ELSE 0)
                         <= expiries'[k] + (IF live'[k] THEN 1 ELSE 0)
  PROVE  CreationInv'
<1> SUFFICES ASSUME NEW k \in Keys
             PROVE  Cardinality(Creators(k)') <= expiries'[k] + (IF live'[k] THEN 1 ELSE 0)
  BY DEF CreationInv
<1>1. IsFiniteSet(Creators(k)) /\ IsFiniteSet(Creators(k)')
  BY FS_Subset, RequestsAssumption DEF Creators
<1>2. Cardinality(Creators(k)') <= Cardinality(Creators(k))
  BY <1>1, FS_Subset
<1>3. Cardinality(Creators(k)) \in Nat /\ Cardinality(Creators(k)') \in Nat
  BY <1>1, FS_CardinalityType
<1>4. expiries[k] \in Nat /\ expiries'[k] \in Nat
  BY DEF TypeOK
<1> QED
  BY <1>2, <1>3, <1>4 DEF CreationInv

\* A put that is answered adds one creation and one life.
LEMMA OneCreation ==
  ASSUME IInv, TypeOK', CreationInv, NEW r \in Requests,
         putIfAbsent(r), ~Occupied(key[r])
  PROVE  CreationInv'
<1> USE DEF putIfAbsent, Reply, Goto
<1>0. /\ key[r] \in Keys /\ answer[r] = "none"
      /\ TypeOK
  BY DEF IInv, HandlerInv, WellFormed
<1>1. ~live[key[r]] /\ live' = [live EXCEPT ![key[r]] = TRUE]
  BY <1>0, StoreAssumption, RequestsAssumption
  DEF IInv, HandlerInv, WellFormed, Occupied, Commit, put
<1> SUFFICES ASSUME NEW k \in Keys
             PROVE  Cardinality(Creators(k)') <= expiries'[k] + (IF live'[k] THEN 1 ELSE 0)
  BY DEF CreationInv
<1>2. IsFiniteSet(Creators(k)) /\ Cardinality(Creators(k)) \in Nat
  BY FS_Subset, FS_CardinalityType, RequestsAssumption DEF Creators
<1>3. expiries'[k] = expiries[k] /\ expiries[k] \in Nat
  BY <1>0 DEF TypeOK
<1>4. CASE k = key[r]
  <2>1. Creators(k)' = Creators(k) \cup {r}
    BY <1>0, <1>4 DEF Creators, TypeOK
  <2>2. Cardinality(Creators(k)') <= Cardinality(Creators(k)) + 1
    <3> DEFINE created == Creators(k)
    <3> HIDE DEF created
    <3>1. IsFiniteSet(created) /\ Cardinality(created) \in Nat
      BY <1>2 DEF created
    <3>2. Cardinality(created \cup {r})
            = IF r \in created THEN Cardinality(created) ELSE Cardinality(created) + 1
      BY <3>1, FS_AddElement, Zenon
    <3>3. Cardinality(created \cup {r}) <= Cardinality(created) + 1
      BY <3>1, <3>2
    <3> QED
      BY <2>1, <3>3 DEF created
  <2>3. Cardinality(Creators(k)) <= expiries[k]
    BY <1>1, <1>2, <1>3, <1>4 DEF CreationInv
  <2>4. live'[k]
    BY <1>0, <1>1, <1>4 DEF TypeOK, EntriesType
  <2>5. Cardinality(Creators(k)') \in Nat
    BY <1>2, <2>1, FS_AddElement, FS_CardinalityType
  <2> QED
    BY <1>2, <1>3, <2>2, <2>3, <2>4, <2>5
<1>5. CASE k # key[r]
  <2>1. Creators(k)' = Creators(k)
    BY <1>0, <1>5 DEF Creators, TypeOK
  <2>2. live'[k] = live[k]
    BY <1>0, <1>1, <1>5 DEF TypeOK, EntriesType
  <2> QED
    BY <1>3, <2>1, <2>2 DEF CreationInv
<1> QED
  BY <1>4, <1>5

\* The creations are preserved by every action.
LEMMA NextCreation ==
  ASSUME IInv, TypeOK', CreationInv, [Next]_vars
  PROVE  CreationInv'
<1> USE DEF IInv, entries, requests, limits
<1>0. \A r \in Requests : pc[r] # "new" => key[r] \in Keys
  BY DEF HandlerInv, WellFormed
<1>1. ASSUME \A k \in Keys : Creators(k)' \subseteq Creators(k),
             UNCHANGED <<expiries, live>>
      PROVE  CreationInv'
  BY <1>1, NoCreation DEF TypeOK
<1>2. ASSUME NEW r \in Requests, Reply(r, "replayed", body'[r]) \/ Reply(r, "conflict", NoResponse)
               \/ Reply(r, "limited", NoResponse) \/ Reply(r, "error", NoResponse),
             UNCHANGED <<key, expiries, live>>
      PROVE  CreationInv'
  <2>1. \A k \in Keys : Creators(k)' \subseteq Creators(k)
    BY <1>2 DEF Creators, TypeOK, Reply
  <2> QED
    BY <1>1, <1>2, <2>1
<1>3. ASSUME UNCHANGED <<key, answer, expiries, live>> PROVE CreationInv'
  BY <1>1, <1>3 DEF Creators
<1>4. ASSUME NEW r \in Requests, NEW k \in Keys, Arrive(r, k) PROVE CreationInv'
  <2>1. \A j \in Keys : Creators(j)' \subseteq Creators(j)
    BY <1>4 DEF Arrive, Creators, HandlerInv, WellFormed, TypeOK
  <2> QED
    BY <1>1, <1>4, <2>1 DEF Arrive
<1>5. ASSUME NEW r \in Requests, ConsumeRequestLimit(r) \/ ConsumeQuota(r)
      PROVE  CreationInv'
  BY <1>2, <1>3, <1>5 DEF ConsumeRequestLimit, ConsumeQuota
<1>6. ASSUME NEW r \in Requests, LookUp(r) \/ ReadWinner(r) PROVE CreationInv'
  <2>0. UNCHANGED <<key, expiries, live>>
    BY <1>6 DEF LookUp, ReadWinner
  <2>1. CASE Reply(r, "replayed", get(key[r]))
    <3>1. Reply(r, "replayed", body'[r])
      BY <2>1 DEF Reply, TypeOK
    <3> QED
      BY <1>2, <2>0, <3>1
  <2>2. CASE Reply(r, "conflict", NoResponse)
    BY <1>2, <2>0, <2>2
  <2>3. CASE UNCHANGED answer
    BY <1>3, <2>0, <2>3
  <2> QED
    BY <1>6, <2>1, <2>2, <2>3 DEF LookUp, ReadWinner
<1>7. ASSUME NEW r \in Requests, putIfAbsent(r) PROVE CreationInv'
  <2>1. CASE Occupied(key[r])
    BY <1>3, <1>7, <2>1 DEF putIfAbsent
  <2> QED
    BY <1>7, <2>1, OneCreation
<1>8. ASSUME NEW r \in Requests, Fail(r) PROVE CreationInv'
  BY <1>2, <1>8 DEF Fail
<1>9. ASSUME NEW r \in Requests, LoseReply(r) PROVE CreationInv'
  <2>1. CASE pc[r] = "put" /\ Commit(r)
    <3>1. \A k \in Keys : Creators(k)' \subseteq Creators(k)
      BY <1>9 DEF LoseReply, Creators
    <3>2. live' = [live EXCEPT ![key[r]] = TRUE] /\ UNCHANGED expiries
      BY <1>9, <2>1 DEF LoseReply, Commit, put
    <3>3. \A k \in Keys : expiries[k] + (IF live[k] THEN 1 ELSE 0)
                           <= expiries'[k] + (IF live'[k] THEN 1 ELSE 0)
      BY <3>2 DEF TypeOK, EntriesType
    <3> QED
      BY <3>1, <3>3, NoCreation
  <2> QED
    BY <1>3, <1>9, <2>1 DEF LoseReply
<1>10. ASSUME NEW k \in Keys, Expire(k) PROVE CreationInv'
  <2>1. \A j \in Keys : Creators(j)' \subseteq Creators(j)
    BY <1>10 DEF Expire, Creators
  <2>2. \A j \in Keys : expiries[j] + (IF live[j] THEN 1 ELSE 0)
                         <= expiries'[j] + (IF live'[j] THEN 1 ELSE 0)
    BY <1>10 DEF Expire, lapse, TypeOK, EntriesType
  <2> QED
    BY <2>1, <2>2, NoCreation
<1>11. CASE EndQuotaPeriod \/ (\E w \in Workspaces : EndWindow(w)) \/ UNCHANGED vars
  BY <1>3, <1>11 DEF EndQuotaPeriod, EndWindow, vars
<1> QED
  BY <1>4, <1>5, <1>6, <1>7, <1>8, <1>9, <1>10, <1>11 DEF Next

\* Of all the requests with one key, at most one creates a resource in each life
\* of its entry, over every adapter.
THEOREM KeysCreateOnce == Spec => []CreatedOncePerLife
<1>1. Init => CreationInv
  <2> SUFFICES ASSUME Init, NEW k \in Keys
               PROVE  Cardinality(Creators(k)) <= expiries[k] + (IF live[k] THEN 1 ELSE 0)
    BY DEF CreationInv
  <2>1. Creators(k) = {}
    BY DEF Init, Creators
  <2> QED
    BY <2>1, FS_EmptySet DEF Init, NoEntries
<1>2. IInv /\ IInv' /\ CreationInv /\ [Next]_vars => CreationInv'
  BY NextCreation DEF IInv
<1>3. CreationInv => CreatedOncePerLife
  BY DEF CreationInv, CreatedOncePerLife, Creators
<1> QED
  BY <1>1, <1>2, <1>3, RequestInvariance, PTL DEF Spec
==============================================================================
