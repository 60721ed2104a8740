---------------------------- MODULE ControlPages ----------------------------
(***************************************************************************)
(* The control pages of platform-control-api over PostgreSQL: PUT          *)
(* /pages/:page, POST /emergency, which reads the emergency page, merges   *)
(* one operator's settings into it and writes it back, and the refresh of  *)
(* the operations collector, which stores one snapshot as several pages at *)
(* once.  Every statement is a step, and a write of a page and its audit   *)
(* row are two.                                                            *)
(*                                                                         *)
(* Each statement goes to a pool that is shared with Section 19, and may   *)
(* get a connection on which an activation of a configuration has left a   *)
(* transaction open (ConfigActivation).  Audit rows are followed into such *)
(* a transaction, which may then be rolled back; upserts of pages are      *)
(* taken to commit by themselves.                                          *)
(*                                                                         *)
(* A page's content is abstract, except that of the emergency page: a      *)
(* setting for each kill switch and for maintenance mode.  Several         *)
(* replicas serve requests and run refreshes.                              *)
(***************************************************************************)
EXTENDS Naturals, FiniteSets

CONSTANTS
  Switches,     \* kill switches
  OpsPages,     \* the pages a refresh stores
  Bodies,       \* bodies of PUT for these pages
  Initial,      \* initialPage, of a page without a row
  NoPage,       \* the page of a request that has not arrived
  Requests,     \* requests of operators
  Refreshes,    \* refreshes of the collector
  MaxFailures   \* bound: statements that fail or run in an open transaction, and
                \* processes that die

\* "maintenanceMode" and "emergency" are the names of a setting and of a page.
Settings == Switches \cup {"maintenanceMode"}
Pages    == OpsPages \cup {"emergency"}
Snapshots == 1 .. Cardinality(Refreshes)

ASSUME PagesAssumption ==
  /\ IsFiniteSet(Refreshes)
  /\ IsFiniteSet(Requests)
  /\ "maintenanceMode" \notin Switches
  /\ "emergency" \notin OpsPages
  /\ NoPage \notin Pages
  /\ Bodies \cap Nat = {}
  /\ Initial \notin Bodies \cup Nat
  /\ MaxFailures \in Nat

\* A setting is absent, on or off; an absent one is off.
Setting   == {"unset", "on", "off"}
Emergency == [Settings -> Setting]
Off(v)    == v # "on"

VARIABLES
  stored,     \* control_page_runtime: the pages other than emergency
  emergency,  \* and that one
  audits,     \* by page, rows "control-page.<page>.updated"
  updates,    \* rows "emergency.desired-state.updated"
  heldAudits, \* as audits, rows that an open transaction has inserted
  heldUpdates,\* as updates, rows that an open transaction has inserted
  pc,         \* the await each request is at
  posting,    \* whether it is a POST /emergency
  page,       \* the page it writes
  body,       \* what it writes to it
  settings,   \* what it writes to emergency
  phase,      \* where each refresh is
  snapshot,   \* the snapshot it collected, by when it was collected
  unwritten,  \* pages whose upsert it awaits
  unaudited,  \* pages whose audit row it awaits
  failures,   \* statements that failed or ran in an open transaction, processes that died
  \* history variables
  writes,     \* by page, upserts
  dropped,    \* by page, upserts whose audit row will not come
  undone,     \* by page, upserts whose audit row was rolled back
  refused,    \* by refresh, pages whose own upsert failed
  behind,     \* by refresh, those still storing when it had collected
  last,       \* by setting, what was last asked for it
  asked,      \* by request, the settings it was asked to change
  stale,      \* by request, settings others changed since it read the page
  lost        \* settings a stale write undid

open     == <<heldAudits, heldUpdates, undone>>
table    == <<stored, emergency, writes, audits, updates, open>>
requests == <<pc, posting, page, body, settings, asked, stale>>
refresh  == <<phase, snapshot, unwritten, unaudited, refused, behind>>
vars     == <<table, requests, refresh, failures, dropped, last, lost>>

TypeOK ==
  /\ stored \in [OpsPages -> Bodies \cup Snapshots \cup {Initial}]
  /\ emergency \in Emergency
  /\ audits \in [Pages -> Nat]
  /\ updates \in Nat
  /\ pc \in [Requests -> {"new", "set", "audit", "update", "read", "done"}]
  /\ posting \in [Requests -> BOOLEAN]
  /\ page \in [Requests -> Pages \cup {NoPage}]
  /\ body \in [Requests -> Bodies \cup {Initial}]
  /\ settings \in [Requests -> Emergency]
  /\ phase \in [Refreshes -> {"idle", "collecting", "storing", "died"}]
  /\ snapshot \in [Refreshes -> Nat]
  /\ unwritten \in [Refreshes -> SUBSET OpsPages]
  /\ unaudited \in [Refreshes -> SUBSET OpsPages]
  /\ failures \in Nat
  /\ writes \in [Pages -> Nat]
  /\ dropped \in [Pages -> Nat]
  /\ heldAudits \in [Pages -> Nat]
  /\ heldUpdates \in Nat
  /\ undone \in [Pages -> Nat]
  /\ refused \in [Refreshes -> SUBSET OpsPages]
  /\ behind \in [Refreshes -> SUBSET Refreshes]
  /\ last \in Emergency
  /\ asked \in [Requests -> SUBSET Settings]
  /\ stale \in [Requests -> SUBSET Settings]
  /\ lost \subseteq Settings

\* initialPage('emergency')
NoSettings == [s \in Settings |-> IF s = "maintenanceMode" THEN "off" ELSE "unset"]

Init ==
  /\ stored = [p \in OpsPages |-> Initial]
  /\ emergency = NoSettings
  /\ audits = [p \in Pages |-> 0]
  /\ updates = 0
  /\ pc = [r \in Requests |-> "new"]
  /\ posting = [r \in Requests |-> FALSE]
  /\ page = [r \in Requests |-> NoPage]
  /\ body = [r \in Requests |-> Initial]
  /\ settings = [r \in Requests |-> NoSettings]
  /\ phase = [c \in Refreshes |-> "idle"]
  /\ snapshot = [c \in Refreshes |-> 0]
  /\ unwritten = [c \in Refreshes |-> {}]
  /\ unaudited = [c \in Refreshes |-> {}]
  /\ failures = 0
  /\ writes = [p \in Pages |-> 0]
  /\ dropped = [p \in Pages |-> 0]
  /\ heldAudits = [p \in Pages |-> 0]
  /\ heldUpdates = 0
  /\ undone = [p \in Pages |-> 0]
  /\ refused = [c \in Refreshes |-> {}]
  /\ behind = [c \in Refreshes |-> {}]
  /\ last = NoSettings
  /\ asked = [r \in Requests |-> {}]
  /\ stale = [r \in Requests |-> {}]
  /\ lost = {}

Goto(r, step) == pc' = [pc EXCEPT ![r] = step]

Interrupt == failures < MaxFailures /\ failures' = failures + 1
------------------------------------------------------------------------------
(* PUT /pages/:page and POST /emergency *)

\* The bodies of a POST: maintenance mode or not, and at most one switch.
Toggles == UNION {[ks -> {"on", "off"}] : ks \in {{}} \cup {{k} : k \in Switches}}
EmergencyBodies == [maintenanceMode : Setting, killSwitches : Toggles]

Asked(b) ==
  DOMAIN b.killSwitches \cup (IF b.maintenanceMode = "unset" THEN {} ELSE {"maintenanceMode"})

\* Faulty variant: switches that replace those of the page.
MergeForgets(current, b) ==
  [s \in Settings |->
     IF s \in DOMAIN b.killSwitches THEN b.killSwitches[s]
     ELSE IF s # "maintenanceMode" THEN "unset"
     ELSE IF b.maintenanceMode # "unset" THEN b.maintenanceMode
     ELSE current[s]]

\* What a POST makes of the page it has read: an absent maintenance mode becomes off.
Merge(current, b) ==
  [s \in Settings |->
     IF s \in DOMAIN b.killSwitches THEN b.killSwitches[s]
     ELSE IF s # "maintenanceMode" THEN current[s]
     ELSE IF b.maintenanceMode # "unset" THEN b.maintenanceMode
     ELSE IF current[s] # "unset" THEN current[s]
     ELSE "off"]

\* POST /emergency, with the page as it is now.
PostEmergency(r, b) ==
  /\ pc[r] = "new"
  /\ Goto(r, "set")
  /\ posting' = [posting EXCEPT ![r] = TRUE]
  /\ page' = [page EXCEPT ![r] = "emergency"]
  /\ settings' = [settings EXCEPT ![r] = Merge(emergency, b)]
  /\ asked' = [asked EXCEPT ![r] = Asked(b)]
  /\ UNCHANGED <<table, body, stale, refresh, failures, dropped, last, lost>>

\* PUT /pages/:page, of the emergency page and of another.
PutEmergency(r, e) ==
  /\ pc[r] = "new"
  /\ Goto(r, "set")
  /\ page' = [page EXCEPT ![r] = "emergency"]
  /\ settings' = [settings EXCEPT ![r] = e]
  /\ asked' = [asked EXCEPT ![r] = Settings]
  /\ UNCHANGED <<table, posting, body, stale, refresh, failures, dropped, last, lost>>

PutPage(r, p, b) ==
  /\ pc[r] = "new"
  /\ Goto(r, "set")
  /\ page' = [page EXCEPT ![r] = p]
  /\ body' = [body EXCEPT ![r] = b]
  /\ UNCHANGED <<table, posting, settings, asked, stale, refresh, failures, dropped,
                 last, lost>>

\* What a request keeps to write is not needed after its write.
Forget(r) ==
  /\ body' = [body EXCEPT ![r] = Initial]
  /\ settings' = [settings EXCEPT ![r] = NoSettings]
  /\ asked' = [asked EXCEPT ![r] = {}]

\* setPage's upsert.  What the request was not asked to change and others changed
\* since it read the page is lost.
setPage(r) ==
  /\ pc[r] = "set"
  /\ Goto(r, "audit")
  /\ Forget(r)
  /\ writes' = [writes EXCEPT ![page[r]] = @ + 1]
  /\ IF page[r] = "emergency"
     THEN /\ emergency' = settings[r]
          /\ last' = [s \in Settings |-> IF s \in asked[r] THEN settings[r][s] ELSE last[s]]
          /\ stale' = [q \in Requests |->
                         IF q = r THEN {}
                         ELSE IF pc[q] = "set" /\ posting[q] THEN stale[q] \cup asked[r]
                         ELSE stale[q]]
          /\ lost' = (lost \cup stale[r]) \ asked[r]
          /\ UNCHANGED stored
     ELSE /\ stored' = [stored EXCEPT ![page[r]] = body[r]]
          /\ UNCHANGED <<emergency, last, stale, lost>>
  /\ UNCHANGED <<audits, updates, open, posting, page, refresh, failures, dropped>>

\* Faulty variant: a POST records its own row only.
AuditPageOfPut(r) ==
  /\ pc[r] = "audit"
  /\ IF posting[r]
     THEN Goto(r, "update") /\ UNCHANGED audits
     ELSE Goto(r, "read") /\ audits' = [audits EXCEPT ![page[r]] = @ + 1]
  /\ UNCHANGED <<stored, emergency, writes, updates, open, posting, page, body, settings,
                 asked, stale, refresh, failures, dropped, last, lost>>

\* The insert of a page's audit row commits, or runs in an open transaction.
recordAudit(p) ==
  \/ /\ audits' = [audits EXCEPT ![p] = @ + 1]
     /\ UNCHANGED <<heldAudits, failures>>
  \/ /\ heldAudits' = [heldAudits EXCEPT ![p] = @ + 1]
     /\ Interrupt
     /\ UNCHANGED audits

\* setPage's recordAudit.
AuditPage(r) ==
  /\ pc[r] = "audit"
  /\ Goto(r, IF posting[r] THEN "update" ELSE "read")
  /\ recordAudit(page[r])
  /\ UNCHANGED <<stored, emergency, writes, updates, heldUpdates, undone, posting, page, body,
                 settings, asked, stale, refresh, dropped, last, lost>>

\* POST /emergency's own recordAudit.
AuditUpdate(r) ==
  /\ pc[r] = "update"
  /\ Goto(r, "read")
  /\ \/ updates' = updates + 1 /\ UNCHANGED <<heldUpdates, failures>>
     \/ heldUpdates' = heldUpdates + 1 /\ Interrupt /\ UNCHANGED updates
  /\ UNCHANGED <<stored, emergency, writes, audits, heldAudits, undone, posting, page, body,
                 settings, asked, stale, refresh, dropped, last, lost>>

\* The transaction of an activation ends, by its COMMIT or its ROLLBACK, and with it the
\* audit rows inserted in it, each for itself as transactions are not told apart.
EndAudit(p) ==
  /\ heldAudits[p] > 0
  /\ heldAudits' = [heldAudits EXCEPT ![p] = @ - 1]
  /\ \/ audits' = [audits EXCEPT ![p] = @ + 1] /\ UNCHANGED undone
     \/ undone' = [undone EXCEPT ![p] = @ + 1] /\ UNCHANGED audits
  /\ UNCHANGED <<stored, emergency, writes, updates, heldUpdates, requests, refresh, failures,
                 dropped, last, lost>>

EndUpdate ==
  /\ heldUpdates > 0
  /\ heldUpdates' = heldUpdates - 1
  /\ updates' \in {updates, updates + 1}
  /\ UNCHANGED <<stored, emergency, writes, audits, heldAudits, undone, requests, refresh,
                 failures, dropped, last, lost>>

\* A request is over, and what it kept is gone.
Finish(r) ==
  /\ Goto(r, "done")
  /\ Forget(r)
  /\ posting' = [posting EXCEPT ![r] = FALSE]
  /\ page' = [page EXCEPT ![r] = NoPage]
  /\ stale' = [stale EXCEPT ![r] = {}]

\* The reply, with the page as it is by now.
Respond(r) ==
  /\ pc[r] = "read"
  /\ Finish(r)
  /\ UNCHANGED <<table, refresh, failures, dropped, last, lost>>

\* A statement fails, or the process dies.
Fail(r) ==
  /\ pc[r] \in {"set", "audit", "update", "read"}
  /\ Interrupt
  /\ Finish(r)
  /\ dropped' = IF pc[r] = "audit" THEN [dropped EXCEPT ![page[r]] = @ + 1] ELSE dropped
  /\ UNCHANGED <<table, refresh, last, lost>>
------------------------------------------------------------------------------
(* refreshOperations *)

\* The interval, or the start of a process.
refreshOperations(c) ==
  /\ phase[c] = "idle"
  /\ phase' = [phase EXCEPT ![c] = "collecting"]
  /\ UNCHANGED <<table, requests, snapshot, unwritten, unaudited, refused, behind,
                 failures, dropped, last, lost>>

\* collect, whose last step dates the snapshot.
collect(c) ==
  /\ phase[c] = "collecting"
  /\ phase' = [phase EXCEPT ![c] = "storing"]
  /\ snapshot' = [snapshot EXCEPT ![c] =
                     1 + Cardinality({d \in Refreshes : snapshot[d] > 0})]
  /\ unwritten' = [unwritten EXCEPT ![c] = OpsPages]
  /\ behind' = [behind EXCEPT ![c] = {d \in Refreshes : unwritten[d] # {}}]
  /\ UNCHANGED <<table, requests, unaudited, refused, failures, dropped, last, lost>>

\* One of the upserts of Promise.all.
setSnapshot(c, p) ==
  /\ p \in unwritten[c]
  /\ stored' = [stored EXCEPT ![p] = snapshot[c]]
  /\ writes' = [writes EXCEPT ![p] = @ + 1]
  /\ unwritten' = [unwritten EXCEPT ![c] = @ \ {p}]
  /\ unaudited' = [unaudited EXCEPT ![c] = @ \cup {p}]
  /\ UNCHANGED <<emergency, audits, updates, open, requests, phase, snapshot, refused, behind,
                 failures, dropped, last, lost>>

AuditSnapshot(c, p) ==
  /\ p \in unaudited[c]
  /\ recordAudit(p)
  /\ unaudited' = [unaudited EXCEPT ![c] = @ \ {p}]
  /\ UNCHANGED <<stored, emergency, writes, updates, heldUpdates, undone, requests, phase,
                 snapshot, unwritten, refused, behind, dropped, last, lost>>

\* Faulty variant: upserts one after another, of which the first that fails ends
\* the refresh.
setSnapshotFailsAll(c, p) ==
  /\ p \in unwritten[c]
  /\ Interrupt
  /\ unwritten' = [unwritten EXCEPT ![c] = {}]
  /\ refused' = [refused EXCEPT ![c] = @ \cup {p}]
  /\ UNCHANGED <<table, requests, phase, snapshot, unaudited, behind, dropped, last, lost>>

\* An upsert, or an audit row, fails: Promise.all rejects and the refresh logs it,
\* but the others go on.
setSnapshotFails(c, p) ==
  /\ p \in unwritten[c]
  /\ Interrupt
  /\ unwritten' = [unwritten EXCEPT ![c] = @ \ {p}]
  /\ refused' = [refused EXCEPT ![c] = @ \cup {p}]
  /\ UNCHANGED <<table, requests, phase, snapshot, unaudited, behind, dropped, last, lost>>

AuditSnapshotFails(c, p) ==
  /\ p \in unaudited[c]
  /\ Interrupt
  /\ unaudited' = [unaudited EXCEPT ![c] = @ \ {p}]
  /\ dropped' = [dropped EXCEPT ![p] = @ + 1]
  /\ UNCHANGED <<table, requests, phase, snapshot, unwritten, refused, behind, last, lost>>

\* The process dies during a refresh.
Die(c) ==
  /\ phase[c] = "collecting" \/ unwritten[c] \cup unaudited[c] # {}
  /\ Interrupt
  /\ phase' = [phase EXCEPT ![c] = "died"]
  /\ unwritten' = [unwritten EXCEPT ![c] = {}]
  /\ unaudited' = [unaudited EXCEPT ![c] = {}]
  /\ dropped' = [p \in Pages |-> IF p \in unaudited[c] THEN dropped[p] + 1 ELSE dropped[p]]
  /\ UNCHANGED <<table, requests, snapshot, refused, behind, last, lost>>
------------------------------------------------------------------------------
Next ==
  \/ \E r \in Requests :
       \/ \E b \in EmergencyBodies : PostEmergency(r, b)
       \/ \E e \in Emergency : PutEmergency(r, e)
       \/ \E p \in OpsPages, b \in Bodies : PutPage(r, p, b)
       \/ setPage(r) \/ AuditPage(r) \/ AuditUpdate(r) \/ Respond(r) \/ Fail(r)
  \/ \E c \in Refreshes :
       \/ refreshOperations(c) \/ collect(c) \/ Die(c)
       \/ \E p \in OpsPages :
            \/ setSnapshot(c, p) \/ AuditSnapshot(c, p)
            \/ setSnapshotFails(c, p) \/ AuditSnapshotFails(c, p)
  \/ \E p \in Pages : EndAudit(p)
  \/ EndUpdate

Spec == Init /\ [][Next]_vars
------------------------------------------------------------------------------
(* Properties *)

\* A kill switch, and maintenance mode, reads as it was last set by anyone, unless a
\* POST /emergency that had read the page before wrote it after; an upsert of the page
\* is taken to commit.
SettingsStayUnlessRaced ==
  \A s \in Settings \ lost : Off(emergency[s]) <=> Off(last[s])

\* Requests that are between the upsert of a page and its audit row.
Auditing(p) == {r \in Requests : pc[r] = "audit" /\ page[r] = p}

\* Every upsert of a page, an operator's or the collector's, has its one audit row, or
\* will have it, but for two ways of losing it: its process failed between the two, or
\* the row was inserted in a transaction of an activation that was rolled back.  And an
\* emergency update is recorded only after the row of its page.
WritesAreAudited ==
  /\ \A p \in Pages :
       writes[p] = audits[p] + heldAudits[p] + undone[p] + dropped[p]
                     + Cardinality(Auditing(p))
                     + Cardinality({c \in Refreshes : p \in unaudited[c]})
  /\ updates + heldUpdates <=
       audits["emergency"] + heldAudits["emergency"] + undone["emergency"]

\* Once the newest refresh is over, a page whose own upsert did not fail shows its
\* snapshot, or what an operator put there, or an older snapshot whose refresh was
\* still storing when the newest had collected.
FreshUnlessOverlapped ==
  \A c \in Refreshes :
    /\ phase[c] = "storing" /\ unwritten[c] = {}
    /\ \A d \in Refreshes : snapshot[d] <= snapshot[c]
    => \A p \in OpsPages \ refused[c] :
         stored[p] \in {snapshot[c]} \cup Bodies \cup {snapshot[d] : d \in behind[c]}
=============================================================================
