------------------------ MODULE OperationsCollector -------------------------
(***************************************************************************)
(* One collect of AwsOperationsCollector (services/operations/src/aws-     *)
(* operations-collector.ts): seven sources asked at once, each of which    *)
(* answers or fails when it will while what it reports on goes on          *)
(* changing, and the snapshot made of their summaries.                     *)
(***************************************************************************)
EXTENDS Naturals, FiniteSets, FiniteSetsExt

CONSTANTS
  Findings,      \* security findings, of any source
  Critical,      \* those of severity CRITICAL
  High,          \* and HIGH
  FindingsPage,  \* MaxResults of a list of findings
  Unanswered,    \* no summary
  MaxChanges,    \* bound: findings that come and go during a collection
  MaxUnavailable \* bound: sources that fail

ASSUME CollectorAssumption ==
  /\ IsFiniteSet(Findings)
  /\ Critical \subseteq Findings /\ High \subseteq Findings /\ Critical \cap High = {}
  /\ FindingsPage \in Nat \ {0} /\ MaxChanges \in Nat /\ MaxUnavailable \in Nat

Counters == {"securityHub", "inspector"}
Scanners == Counters \cup {"guardDuty"}
Sources  == Scanners \cup {"cloudWatch", "cloudTrail", "costs", "backup"}

VARIABLES
  present,   \* the findings of the sources whose severities are counted
  listing,   \* GuardDuty has named its detector, and its findings are asked for
  summary,   \* what each source came to
  standing,  \* history: findings there since the collection began
  changes    \* findings that came and went

collectorVars == <<present, listing, summary, standing, changes>>

States == {"HEALTHY", "DEGRADED", "UNAVAILABLE", "NOT_CONFIGURED"}

CollectorTypeOK ==
  /\ present \in [Counters -> SUBSET Findings]
  /\ listing \in BOOLEAN
  /\ \A s \in Sources : summary[s] = Unanswered \/ summary[s].state \in States
  /\ standing \in [Counters -> SUBSET Findings]
  /\ changes \in 0 .. MaxChanges

CollectorInit ==
  /\ present \in [Counters -> {{}, Findings}]
  /\ listing = FALSE
  /\ summary = [s \in Sources |-> Unanswered]
  /\ standing = present
  /\ changes = 0

\* A finding comes, or is resolved.
Change(s, f) ==
  /\ changes < MaxChanges
  /\ changes' = changes + 1
  /\ present' = [present EXCEPT ![s] = IF f \in @ THEN @ \ {f} ELSE @ \cup {f}]
  /\ standing' = [standing EXCEPT ![s] = @ \ {f}]
  /\ UNCHANGED <<listing, summary>>

Summarise(s, result) ==
  /\ summary[s] = Unanswered
  /\ summary' = [summary EXCEPT ![s] = result]
  /\ UNCHANGED <<present, listing, standing, changes>>

State(state) == [state |-> state, critical |-> 0, high |-> 0, truncated |-> FALSE]

\* safe: a call that fails makes its source UNAVAILABLE.
Unavailable(s) ==
  /\ Cardinality({t \in Sources \ {s} : summary[t] = State("UNAVAILABLE")}) < MaxUnavailable
  /\ Summarise(s, State("UNAVAILABLE"))

\* The metrics of the last five minutes, the latest events, the month's costs by
\* service: whatever they are, their source is HEALTHY.
collectCloudWatch == Summarise("cloudWatch", State("HEALTHY"))
collectCloudTrail == Summarise("cloudTrail", State("HEALTHY"))
collectCosts      == Summarise("costs", State("HEALTHY"))

\* DEGRADED if a job of the page failed or was aborted.
collectBackup == \E state \in {"HEALTHY", "DEGRADED"} : Summarise("backup", State(state))

\* ListDetectors: none, or the first one's findings are asked for next.
ListDetectors ==
  /\ ~listing
  /\ \/ Summarise("guardDuty", State("NOT_CONFIGURED"))
     \/ /\ summary["guardDuty"] = Unanswered
        /\ listing' = TRUE
        /\ UNCHANGED <<present, summary, standing, changes>>

\* A page of GuardDuty's finding ids, whose severities are not known.
ListFindings == listing /\ Summarise("guardDuty", State("HEALTHY"))

\* A page of the findings there are.
Pages(s) == kSubset(Min({FindingsPage, Cardinality(present[s])}), present[s])

Counted(page) ==
  [critical |-> Cardinality(page \cap Critical), high |-> Cardinality(page \cap High)]

\* collectSecurityHub and collectInspector.
CollectFindings(s) ==
  \E page \in Pages(s) :
    Summarise(s, [state |-> "HEALTHY", critical |-> Counted(page).critical,
                  high |-> Counted(page).high, truncated |-> page # present[s]])

CollectorNext ==
  \/ \E s \in Counters, f \in Findings : Change(s, f)
  \/ \E s \in Sources : Unavailable(s)
  \/ collectCloudWatch \/ collectCloudTrail \/ collectCosts \/ collectBackup
  \/ ListDetectors \/ ListFindings
  \/ \E s \in Counters : CollectFindings(s)

CollectorSpec == CollectorInit /\ [][CollectorNext]_collectorVars

\* Promise.all is over, and the snapshot is made.
Collected == \A s \in Sources : summary[s] # Unanswered

\* Faulty variant: only a posture nobody reports on is degraded.
postureIfNone ==
  IF \A s \in Scanners : summary[s].state = "UNAVAILABLE" THEN "DEGRADED" ELSE "HEALTHY"

posture ==
  IF \E s \in Scanners : summary[s].state = "UNAVAILABLE" THEN "DEGRADED" ELSE "HEALTHY"

\* Nobody knows the severities of GuardDuty's findings, which stay 0.
criticalFindings ==
  summary["guardDuty"].critical + summary["securityHub"].critical + summary["inspector"].critical
highFindings ==
  summary["guardDuty"].high + summary["securityHub"].high + summary["inspector"].high

\* Findings a source had throughout, unless it had more than a page of them.
Listed(s, severity) ==
  IF summary[s].truncated THEN 0 ELSE Cardinality(standing[s] \cap severity)

\* Critical and high findings that Security Hub or Inspector had throughout are in the
\* numbers the security page shows, unless that page is DEGRADED, or their source had
\* more than a page of findings.
StandingFindingsAreShown ==
  (Collected /\ posture = "HEALTHY") =>
    /\ criticalFindings >= Listed("securityHub", Critical) + Listed("inspector", Critical)
    /\ highFindings >= Listed("securityHub", High) + Listed("inspector", High)
=============================================================================
