----------------------------- MODULE AIGateway ------------------------------
(***************************************************************************)
(* The AI gateway (services/ai/src/gateway.ts): calls of generate by one   *)
(* tenant with a monthly token quota, a primary provider and a fallback,   *)
(* retries, and a time limit per attempt.  The providers and the usage     *)
(* store are ports; a call may end at any of its awaits.                   *)
(***************************************************************************)
EXTENDS Naturals, FiniteSets

CONSTANTS
  AICalls,     \* calls of generate at a time
  Quota,       \* tenantTokenQuota
  Charges,     \* tokens an accepted answer may be charged for, input and output: only
               \*   the output tokens have a limit, maxOutputTokens
  MaxRetries,  \* maxRetries
  MaxMonths    \* bound: months that begin

ASSUME GatewayAssumption ==
  /\ {Quota, MaxRetries, MaxMonths} \subseteq Nat \ {0}
  /\ Charges \subseteq Nat
  /\ IsFiniteSet(AICalls)

Providers == {"primary", "fallback"}

VARIABLES
  used,      \* tokens recorded for the tenant in the current window
  atGate,    \* the await each call of generate is at
  provider,  \* whom it asks
  retries,   \* attempts that failed
  tokens,    \* inputTokens + outputTokens of the answer it has, 0 without one
  months,    \* months begun
  overdrawn  \* history: charges of the window that came when it had reached the quota

gatewayVars == <<used, atGate, provider, retries, tokens, months, overdrawn>>

\* The awaits of generate after the tenant's quota was read.
PastQuota == {"attempt", "fallback", "validate", "charge"}

GatewayTypeOK ==
  /\ used \in Nat
  /\ atGate \in [AICalls -> {"idle", "authorize", "quota", "report"} \cup PastQuota]
  /\ provider \in [AICalls -> Providers]
  /\ retries \in [AICalls -> 0 .. MaxRetries]
  /\ tokens \in [AICalls -> Charges \cup {0}]
  /\ months \in 0 .. MaxMonths
  /\ overdrawn \in Nat

GatewayInit ==
  /\ used = 0
  /\ atGate = [a \in AICalls |-> "idle"]
  /\ provider = [a \in AICalls |-> "primary"]
  /\ retries = [a \in AICalls |-> 0]
  /\ tokens = [a \in AICalls |-> 0]
  /\ months = 0
  /\ overdrawn = 0

\* A call is answered or throws, and its slot is free for another.
Leave(a) ==
  /\ atGate' = [atGate EXCEPT ![a] = "idle"]
  /\ provider' = [provider EXCEPT ![a] = "primary"]
  /\ retries' = [retries EXCEPT ![a] = 0]
  /\ tokens' = [tokens EXCEPT ![a] = 0]

Await(a, from, to) == atGate[a] = from /\ atGate' = [atGate EXCEPT ![a] = to]

\* The request's limits hold: up to the first await.
generate(a) ==
  /\ Await(a, "idle", "authorize")
  /\ UNCHANGED <<used, provider, retries, tokens, months, overdrawn>>

\* authorize and validateInput.
Authorized(a) ==
  /\ Await(a, "authorize", "quota")
  /\ UNCHANGED <<used, provider, retries, tokens, months, overdrawn>>

\* Faulty variant: a quota that is reached is enough for one more call.
getUsedTokensLate(a) ==
  /\ Await(a, "quota", "attempt")
  /\ used <= Quota
  /\ UNCHANGED <<used, provider, retries, tokens, months, overdrawn>>

\* getUsedTokens, of the window of the current month.
getUsedTokens(a) ==
  /\ Await(a, "quota", "attempt")
  /\ used < Quota
  /\ UNCHANGED <<used, provider, retries, tokens, months, overdrawn>>

\* AI_TENANT_QUOTA_EXCEEDED
QuotaExceeded(a) ==
  /\ atGate[a] = "quota"
  /\ used >= Quota
  /\ Leave(a)
  /\ UNCHANGED <<used, months, overdrawn>>

\* The answer of an attempt.
Answer(a, n) ==
  /\ Await(a, "attempt", "validate")
  /\ tokens' = [tokens EXCEPT ![a] = n]
  /\ UNCHANGED <<used, provider, retries, months, overdrawn>>

\* An attempt fails or its time is over: one more, the fallback's turn, or no answer.
AttemptFailed(a) ==
  /\ atGate[a] = "attempt"
  /\ IF retries[a] < MaxRetries
     THEN /\ retries' = [retries EXCEPT ![a] = @ + 1]
          /\ UNCHANGED <<atGate, provider, tokens>>
     ELSE IF provider[a] = "primary"
     THEN /\ atGate' = [atGate EXCEPT ![a] = "fallback"]
          /\ UNCHANGED <<provider, retries, tokens>>
     ELSE Leave(a)
  /\ UNCHANGED <<used, months, overdrawn>>

\* Telemetry of the fallback is recorded, and the fallback is asked.
AskFallback(a) ==
  /\ Await(a, "fallback", "attempt")
  /\ provider' = [provider EXCEPT ![a] = "fallback"]
  /\ retries' = [retries EXCEPT ![a] = 0]
  /\ UNCHANGED <<used, tokens, months, overdrawn>>

validateOutput(a) ==
  /\ Await(a, "validate", "charge")
  /\ UNCHANGED <<used, provider, retries, tokens, months, overdrawn>>

\* Whatever the tokens are by now: nothing compares them with the quota again.
addUsage(a) ==
  /\ Await(a, "charge", "report")
  /\ used' = used + tokens[a]
  /\ overdrawn' = IF used >= Quota THEN overdrawn + 1 ELSE overdrawn
  /\ UNCHANGED <<provider, retries, tokens, months>>

\* Telemetry of the request, and the answer.
Report(a) ==
  /\ atGate[a] = "report"
  /\ Leave(a)
  /\ UNCHANGED <<used, months, overdrawn>>

\* A port rejects, or the call's own limits refuse the answer, which is not charged.  A
\* charge that is recorded although its reply is lost is addUsage and then this.
CallThrows(a) ==
  /\ atGate[a] \notin {"idle", "attempt"}
  /\ Leave(a)
  /\ UNCHANGED <<used, months, overdrawn>>

NewMonth ==
  /\ months < MaxMonths
  /\ months' = months + 1
  /\ used' = 0
  /\ overdrawn' = 0
  /\ UNCHANGED <<atGate, provider, retries, tokens>>

GatewayNext ==
  \/ NewMonth
  \/ \E a \in AICalls :
       \/ generate(a) \/ Authorized(a) \/ getUsedTokens(a) \/ QuotaExceeded(a)
       \/ \E n \in Charges : Answer(a, n)
       \/ AttemptFailed(a) \/ AskFallback(a) \/ validateOutput(a) \/ addUsage(a)
       \/ Report(a) \/ CallThrows(a)

GatewaySpec == GatewayInit /\ [][GatewayNext]_gatewayVars

\* The calls that found the quota not yet reached and are not yet charged.
Under == {a \in AICalls : atGate[a] \in PastQuota}

\* The quota is read before the call and charged after it.  Once a month's tokens have
\* reached it, only the calls that were then under way are still charged, each once and
\* whatever its answer costs: of the calls there can be at a time, all but the one whose
\* charge reached it.
QuotaOvershoot ==
  IF used < Quota THEN overdrawn = 0
  ELSE overdrawn + Cardinality(Under) < Cardinality(AICalls)
=============================================================================
