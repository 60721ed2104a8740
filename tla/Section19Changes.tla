-------------------------- MODULE Section19Changes --------------------------
(***************************************************************************)
(* One change request of the Section 19 control plane (apps/platform-      *)
(* control-api/src/section19): the routes, the transitions of              *)
(* ControlPlaneService over its graph, read, checked, saved and audited in *)
(* separate statements, and the policy that approval evaluates on a read   *)
(* of its own.  The body of a creation is not validated and is spread over *)
(* the defaults, so it may say anything of the new record, and may name a  *)
(* change that exists.                                                     *)
(*                                                                         *)
(* Every statement goes through pool.query, and may get a connection on    *)
(* which an activation of a configuration (ConfigActivation) has a         *)
(* transaction open: its write is then committed or rolled back with it.   *)
(***************************************************************************)
EXTENDS Naturals, FiniteSets

CONSTANTS
  Posts,       \* requests of the routes at a time
  Actors,      \* operators
  Privileged,  \* those with a role that evaluatePlatformPolicy accepts
  Nil,         \* nobody, and no record
  Bodies,      \* the records creations ask for: the defaults and what a body puts there
  MaxPosts     \* bound: requests made

Statuses ==
  {"DRAFT", "VALIDATING", "IMPACT_ANALYSIS", "WAITING_APPROVAL", "APPROVED",
   "PROVISIONING", "DEPLOYING", "VERIFYING", "STABILIZING", "COMPLETED", "FAILED",
   "ROLLING_BACK", "ROLLED_BACK"}

Graph ==
  [s \in Statuses |->
     CASE s = "DRAFT"            -> {"VALIDATING"}
       [] s = "VALIDATING"       -> {"IMPACT_ANALYSIS", "FAILED"}
       [] s = "IMPACT_ANALYSIS"  -> {"WAITING_APPROVAL", "APPROVED", "FAILED"}
       [] s = "WAITING_APPROVAL" -> {"APPROVED", "FAILED"}
       [] s = "APPROVED"         -> {"PROVISIONING", "DEPLOYING", "FAILED"}
       [] s = "PROVISIONING"     -> {"DEPLOYING", "FAILED"}
       [] s = "DEPLOYING"        -> {"VERIFYING", "FAILED"}
       [] s = "VERIFYING"        -> {"STABILIZING", "FAILED"}
       [] s = "STABILIZING"      -> {"COMPLETED", "FAILED"}
       [] s = "FAILED"           -> {"ROLLING_BACK"}
       [] s = "ROLLING_BACK"     -> {"ROLLED_BACK"}
       [] OTHER                  -> {}]

\* What the routes ask for: validate, plan, approve, apply, rollback.
Requested == {"VALIDATING", "IMPACT_ANALYSIS", "APPROVED", "PROVISIONING", "ROLLING_BACK"}

\* "elsewhere" is any environment but production.
Records ==
  [status      : Statuses,
   requestedBy : Actors,
   approvedBy  : Actors \cup {Nil},
   environment : {"production", "elsewhere"}]

ASSUME Section19Assumption ==
  /\ Privileged \subseteq Actors
  /\ Nil \notin Actors \cup Records
  /\ Bodies \subseteq Records
  /\ MaxPosts \in Nat

VARIABLES
  row,       \* the row of platform_change, or Nil
  held,      \* what it was before an open transaction of an activation wrote it, if one did
  route,     \* the status each request asks for, or Nil
  by,        \* its actor
  waits,     \* the await it is at
  found,     \* the record it has read, or creates
  posts,     \* requests made
  \* history variables
  approvals, \* who approved by a transition
  posted,    \* approvers of the records that a creation stored as approved or applied
  undone     \* whether a write was rolled back

section19Vars ==
  <<row, held, route, by, waits, found, posts, approvals, posted, undone>>

Section19TypeOK ==
  /\ row \in Records \cup {Nil}
  /\ held \subseteq Records \cup {Nil}
  /\ route \in [Posts -> Requested \cup {Nil}]
  /\ by \in [Posts -> Actors \cup {Nil}]
  /\ waits \in [Posts -> {"new", "insert", "policy", "read", "save", "audit"}]
  /\ found \in [Posts -> Records \cup {Nil}]
  /\ posts \in Nat
  /\ approvals \subseteq Actors
  /\ posted \subseteq Actors \cup {Nil}
  /\ undone \in BOOLEAN

Section19Init ==
  /\ row = Nil
  /\ held = {}
  /\ route = [p \in Posts |-> Nil]
  /\ by = [p \in Posts |-> Nil]
  /\ waits = [p \in Posts |-> "new"]
  /\ found = [p \in Posts |-> Nil]
  /\ posts = 0
  /\ approvals = {}
  /\ posted = {}
  /\ undone = FALSE

WaitFor(p, step) == waits' = [waits EXCEPT ![p] = step]

\* The reply, or an error: the request is over.
EndPost(p) ==
  /\ waits' = [waits EXCEPT ![p] = "new"]
  /\ route' = [route EXCEPT ![p] = Nil]
  /\ by' = [by EXCEPT ![p] = Nil]
  /\ found' = [found EXCEPT ![p] = Nil]

BeginPost(p, step) ==
  /\ waits[p] = "new"
  /\ posts < MaxPosts
  /\ posts' = posts + 1
  /\ WaitFor(p, step)
  /\ UNCHANGED <<row, held, approvals, posted, undone>>

\* POST /platform/changes: createChange up to its insert.
PostChange(p, body) ==
  /\ BeginPost(p, "insert")
  /\ found' = [found EXCEPT ![p] = body]
  /\ UNCHANGED <<route, by>>

\* The other routes.  The desired state a validate may carry is valid.
PostTransition(p, a, next) ==
  /\ row # Nil
  /\ BeginPost(p, IF next = "APPROVED" THEN "policy" ELSE "read")
  /\ route' = [route EXCEPT ![p] = next]
  /\ by' = [by EXCEPT ![p] = a]
  /\ UNCHANGED found

\* The row on any connection: in the open transaction, and as it is for the others.
Seen == {row} \cup held

\* A write while the row is held has to be that transaction's: others wait for its end.
\* Before, it gets the connection of one, or does not.
Connected == held' = held \/ (held = {} /\ held' = {row})

\* Faulty variant: an upsert that takes over the requestor and the environment too.
UpsertAll(c) == row' = c

\* saveChange of the repository: DO UPDATE leaves the requestor and the environment.
Upsert(c) ==
  row' = IF row = Nil THEN c
         ELSE [c EXCEPT !.requestedBy = row.requestedBy, !.environment = row.environment]

Approved(c) == c.status \in {"APPROVED", "PROVISIONING"}

InsertChange(p) ==
  /\ waits[p] = "insert"
  /\ WaitFor(p, "audit")
  /\ Connected
  /\ Upsert(found[p])
  /\ posted' = IF Approved(found[p]) THEN posted \cup {found[p].approvedBy} ELSE posted
  /\ UNCHANGED <<route, by, found, posts, approvals, undone>>

\* The approve route's own requireChange, and evaluatePlatformPolicy: the operation is
\* change-provider and approved is true, so what is left is the actor's role.
CheckPolicy(p) ==
  /\ waits[p] = "policy"
  /\ \E c \in Seen :
       IF c # Nil /\ by[p] \in Privileged
       THEN WaitFor(p, "read") /\ UNCHANGED <<route, by, found>>
       ELSE EndPost(p)
  /\ UNCHANGED <<row, held, posts, approvals, posted, undone>>

\* requireChange of transition, and its checks.  Only a change that says it is of
\* production keeps its requestor from approving it.
MayMove(p, c) ==
  /\ route[p] \in Graph[c.status]
  /\ ~(route[p] = "APPROVED" /\ c.environment = "production" /\ by[p] = c.requestedBy)

requireChange(p) ==
  /\ waits[p] = "read"
  /\ \E c \in Seen :
       IF c # Nil /\ MayMove(p, c)
       THEN /\ WaitFor(p, "save")
            /\ found' = [found EXCEPT ![p] = c]
            /\ UNCHANGED <<route, by>>
       ELSE EndPost(p)
  /\ UNCHANGED <<row, held, posts, approvals, posted, undone>>

\* The record that was read, with the new status and who approved.
Updated(p) ==
  [found[p] EXCEPT !.status = route[p],
                   !.approvedBy = IF route[p] = "APPROVED" THEN by[p] ELSE @]

saveChange(p) ==
  /\ waits[p] = "save"
  /\ WaitFor(p, "audit")
  /\ Connected
  /\ Upsert(Updated(p))
  /\ approvals' = IF route[p] = "APPROVED" THEN approvals \cup {by[p]} ELSE approvals
  /\ UNCHANGED <<route, by, found, posts, posted, undone>>

appendAudit(p) ==
  /\ waits[p] = "audit"
  /\ EndPost(p)
  /\ UNCHANGED <<row, held, posts, approvals, posted, undone>>

\* A statement fails, or the process ends.
StatementRejects(p) ==
  /\ waits[p] # "new"
  /\ EndPost(p)
  /\ UNCHANGED <<row, held, posts, approvals, posted, undone>>

\* The COMMIT or the ROLLBACK of the activation whose transaction it was.
ActivationEnds ==
  /\ held # {}
  /\ held' = {}
  /\ \/ UNCHANGED <<row, undone>>
     \/ row' \in held /\ undone' = TRUE
  /\ UNCHANGED <<route, by, waits, found, posts, approvals, posted>>

Section19Next ==
  \/ ActivationEnds
  \/ \E p \in Posts :
       \/ \E body \in Bodies : PostChange(p, body)
       \/ \E a \in Actors, s \in Requested : PostTransition(p, a, s)
       \/ InsertChange(p) \/ CheckPolicy(p) \/ requireChange(p)
       \/ saveChange(p) \/ appendAudit(p) \/ StatementRejects(p)

Section19Spec == Section19Init /\ [][Section19Next]_section19Vars

\* Whoever approves a change that is of production is of the policy's roles and is not
\* its requestor, however requests overwrite each other's record and whatever later
\* creations say of the change, unless a write of it was rolled back.  And a change that
\* is approved or applied has an approver of that kind, or one that a creation's body
\* gave it.
ApprovalsAreByOthers ==
  row # Nil =>
    /\ \A a \in approvals :
         /\ a \in Privileged
         /\ row.environment = "production" /\ ~undone => a # row.requestedBy
    /\ Approved(row) => row.approvedBy \in approvals \cup posted
=============================================================================
