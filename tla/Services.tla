------------------------------ MODULE Services ------------------------------
(***************************************************************************)
(* The libraries and services that share no state with one another, side   *)
(* by side: a behaviour is a behaviour of one of them, the subject, and    *)
(* the others stay as they begin.                                          *)
(***************************************************************************)
EXTENDS Leases, DomainServices, Resilience, AIGateway, Uploads, TenantScope,
        MemoryLimiter, Section19Changes, OperationsCollector, CacheAside

VARIABLE subject

Subjects == {"leases", "domain", "resilience", "gateway", "uploads", "scope", "limiter",
             "section19", "collector", "cache"}

servicesVars ==
  <<subject, leaseVars, domainVars, resilienceVars, gatewayVars, uploadVars, scopeVars,
    limiterVars, section19Vars, collectorVars, cacheVars>>

TypeOK ==
  /\ LeaseTypeOK /\ DomainTypeOK /\ ResilienceTypeOK /\ GatewayTypeOK
  /\ UploadTypeOK /\ ScopeTypeOK /\ LimiterTypeOK /\ Section19TypeOK
  /\ CollectorTypeOK /\ CacheTypeOK

Init ==
  /\ subject \in Subjects
  /\ LeaseInit /\ DomainInit /\ ResilienceInit /\ GatewayInit
  /\ UploadInit /\ ScopeInit /\ LimiterInit /\ Section19Init
  /\ CollectorInit /\ CacheInit
  /\ subject # "leases"    => adapter = "redis"
  /\ subject # "scope"     => storage = "s3"
  /\ subject # "collector" => present = [s \in Counters |-> {}]

OthersStay ==
  /\ subject # "leases"     => UNCHANGED leaseVars
  /\ subject # "domain"     => UNCHANGED domainVars
  /\ subject # "resilience" => UNCHANGED resilienceVars
  /\ subject # "gateway"    => UNCHANGED gatewayVars
  /\ subject # "uploads"    => UNCHANGED uploadVars
  /\ subject # "scope"      => UNCHANGED scopeVars
  /\ subject # "limiter"    => UNCHANGED limiterVars
  /\ subject # "section19"  => UNCHANGED section19Vars
  /\ subject # "collector"  => UNCHANGED collectorVars
  /\ subject # "cache"      => UNCHANGED cacheVars

Next ==
  /\ UNCHANGED subject
  /\ OthersStay
  /\ \/ subject = "leases"     /\ LeaseNext
     \/ subject = "domain"     /\ DomainNext
     \/ subject = "resilience" /\ ResilienceNext
     \/ subject = "gateway"    /\ GatewayNext
     \/ subject = "uploads"    /\ UploadNext
     \/ subject = "scope"      /\ ScopeNext
     \/ subject = "limiter"    /\ LimiterNext
     \/ subject = "section19"  /\ Section19Next
     \/ subject = "collector"  /\ CollectorNext
     \/ subject = "cache"      /\ CacheNext

Spec == Init /\ [][Next]_servicesVars
=============================================================================
