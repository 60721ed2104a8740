------------------------- MODULE ControlPages_proofs -------------------------
(***************************************************************************)
(* Proofs about ControlPages, for any number of kill switches, pages,      *)
(* operators' requests and refreshes.                                      *)
(*                                                                         *)
(* Three invariants, each relative to the types and to what a request or a *)
(* refresh holds at each await: CountInv counts upserts against audit      *)
(* rows; SettingsInv says that what a request is about to write over a     *)
(* setting it was not asked to change is what it read, and is marked as    *)
(* stale once that has changed; SnapshotInv orders snapshots by the time   *)
(* they were collected and names the refreshes that may still overwrite a  *)
(* newer one.                                                              *)
(***************************************************************************)
EXTENDS ControlPages, FiniteSetTheorems, TLAPS

\* The refreshes that have collected a snapshot.
Dated == {d \in Refreshes : snapshot[d] > 0}

\* What requests and refreshes hold at each of their awaits.
Held ==
  /\ \A r \in Requests :
       /\ pc[r] \in {"set", "audit"} => page[r] \in Pages
       /\ pc[r] = "new" => ~posting[r]
       /\ posting[r] => page[r] = "emergency"
       /\ pc[r] = "set" /\ page[r] # "emergency" => body[r] \in Bodies
       /\ pc[r] = "set" /\ page[r] = "emergency" /\ ~posting[r] => asked[r] = Settings
  /\ \A c \in Refreshes :
       /\ phase[c] \in {"idle", "collecting"} => snapshot[c] = 0
       /\ phase[c] = "storing" => snapshot[c] > 0
       /\ phase[c] # "storing" => unwritten[c] = {} /\ unaudited[c] = {}
       /\ unwritten[c] \cap unaudited[c] = {}
       /\ snapshot[c] <= Cardinality(Dated)

Base == TypeOK /\ Held
------------------------------------------------------------------------------
\* One element more, one element less.
LEMMA CountAdded ==
  ASSUME NEW S, IsFiniteSet(S), NEW x, x \notin S, NEW T, T = S \cup {x}
  PROVE  Cardinality(S) \in Nat /\ Cardinality(T) = Cardinality(S) + 1
BY FS_AddElement, FS_CardinalityType

LEMMA CountRemoved ==
  ASSUME NEW S, IsFiniteSet(S), NEW x \in S, NEW T, T = S \ {x}
  PROVE  /\ Cardinality(S) \in Nat /\ Cardinality(T) \in Nat
         /\ Cardinality(S) = Cardinality(T) + 1
<1>1. IsFiniteSet(T)
  BY FS_Subset
<1>2. x \notin T /\ S = T \cup {x}
  OBVIOUS
<1>. QED
  BY <1>1, <1>2, FS_AddElement, FS_CardinalityType

\* As many snapshots have been dated as there are refreshes, at most.
LEMMA DatedCount ==
  /\ IsFiniteSet(Dated)
  /\ Cardinality(Dated) \in Nat
  /\ Cardinality(Refreshes) \in Nat
  /\ Cardinality(Dated) <= Cardinality(Refreshes)
<1>1. Dated \subseteq Refreshes /\ IsFiniteSet(Refreshes)
  BY PagesAssumption DEF Dated
<1>. QED
  BY <1>1, FS_Subset, FS_CardinalityType

\* The date of a new snapshot is later than all and within the number of refreshes.
LEMMA CollectCount ==
  ASSUME Base, NEW c \in Refreshes, collect(c)
  PROVE  /\ snapshot'[c] = Cardinality(Dated) + 1
         /\ \A d \in Refreshes \ {c} : snapshot'[d] = snapshot[d]
         /\ \A d \in Refreshes : snapshot[d] < snapshot'[c]
         /\ Cardinality(Dated') = Cardinality(Dated) + 1
         /\ snapshot'[c] \in Snapshots
<1>1. /\ snapshot'[c] = 1 + Cardinality(Dated)
      /\ \A d \in Refreshes \ {c} : snapshot'[d] = snapshot[d]
  BY DEF collect, Dated, Base, TypeOK
<1>2. c \notin Dated
  <2>1. phase[c] = "collecting"
    BY DEF collect
  <2>2. snapshot[c] = 0
    BY <2>1 DEF Base, Held
  <2>. QED
    BY <2>2 DEF Dated
<1>3. IsFiniteSet(Dated) /\ Cardinality(Dated) \in Nat
  BY DatedCount
<1>4. Dated' = Dated \cup {c}
  BY <1>1, <1>3 DEF Dated
<1>5. Cardinality(Dated') = Cardinality(Dated) + 1
  BY <1>2, <1>3, <1>4, FS_AddElement
<1>6. /\ Dated' \subseteq Refreshes /\ IsFiniteSet(Refreshes)
  BY <1>4, PagesAssumption DEF Dated
<1>7. /\ Cardinality(Dated') <= Cardinality(Refreshes)
      /\ Cardinality(Refreshes) \in Nat
  BY <1>6, FS_Subset, FS_CardinalityType
<1>8. \A d \in Refreshes : snapshot[d] < snapshot'[c]
  BY <1>1, <1>3 DEF Base, Held, TypeOK
<1>. QED
  BY <1>1, <1>3, <1>5, <1>7, <1>8 DEF Snapshots

\* What an operator's POST makes of the settings keeps their type.
LEMMA MergeType ==
  ASSUME NEW e \in Emergency, NEW b \in EmergencyBodies
  PROVE  Merge(e, b) \in Emergency /\ Asked(b) \subseteq Settings
<1>1. /\ b.maintenanceMode \in Setting
      /\ b.killSwitches \in Toggles
  BY DEF EmergencyBodies
<1>2. PICK ks \in {{}} \cup {{k} : k \in Switches} : b.killSwitches \in [ks -> {"on", "off"}]
  BY <1>1 DEF Toggles
<1>3. /\ DOMAIN b.killSwitches \subseteq Switches
      /\ \A s \in DOMAIN b.killSwitches : b.killSwitches[s] \in Setting
  BY <1>2 DEF Setting
<1>. QED
  BY <1>1, <1>3 DEF Merge, Asked, Emergency, Settings, Setting

\* An unasked setting is read by everyone as before.
LEMMA MergeKeeps ==
  ASSUME NEW e \in Emergency, NEW b \in EmergencyBodies, NEW s \in Settings \ Asked(b)
  PROVE  Off(Merge(e, b)[s]) <=> Off(e[s])
<1>1. s \notin DOMAIN b.killSwitches
  BY DEF Asked
<1>2. s = "maintenanceMode" => b.maintenanceMode = "unset"
  BY DEF Asked
<1>3. Merge(e, b)[s] = IF s # "maintenanceMode" THEN e[s]
                       ELSE IF e[s] # "unset" THEN e[s] ELSE "off"
  BY <1>1, <1>2 DEF Merge
<1>. QED
  BY <1>3 DEF Off

LEMMA NoSettingsType == NoSettings \in Emergency
BY DEF NoSettings, Emergency, Setting
------------------------------------------------------------------------------
LEMMA InitBase == Init => Base
<1> SUFFICES ASSUME Init PROVE Base
  OBVIOUS
<1>1. TypeOK
  BY NoSettingsType DEF Init, TypeOK, Pages
<1>2. \A c \in Refreshes : snapshot[c] <= Cardinality(Dated)
  BY DatedCount DEF Init
<1>3. Held
  BY <1>2 DEF Init, Held
<1>. QED
  BY <1>1, <1>3 DEF Base

LEMMA FinishType ==
  ASSUME TypeOK, NEW r \in Requests, Finish(r)
  PROVE  /\ pc' \in [Requests -> {"new", "set", "audit", "update", "read", "done"}]
         /\ posting' \in [Requests -> BOOLEAN]
         /\ page' \in [Requests -> Pages \cup {NoPage}]
         /\ body' \in [Requests -> Bodies \cup {Initial}]
         /\ settings' \in [Requests -> Emergency]
         /\ asked' \in [Requests -> SUBSET Settings]
         /\ stale' \in [Requests -> SUBSET Settings]
BY NoSettingsType DEF TypeOK, Finish, Forget, Goto

LEMMA NextType == Base /\ [Next]_vars => TypeOK'
<1> SUFFICES ASSUME Base, [Next]_vars PROVE TypeOK'
  OBVIOUS
<1>. TypeOK /\ Held
  BY DEF Base
<1>. "emergency" \in Pages /\ OpsPages \subseteq Pages
  BY DEF Pages
<1>1. ASSUME NEW r \in Requests, NEW b \in EmergencyBodies, PostEmergency(r, b)
      PROVE  TypeOK'
  <2>1. Merge(emergency, b) \in Emergency /\ Asked(b) \subseteq Settings
    BY MergeType DEF TypeOK
  <2>. QED
    BY <1>1, <2>1 DEF PostEmergency, Goto, TypeOK, table, open, refresh
<1>2. ASSUME NEW r \in Requests, NEW e \in Emergency, PutEmergency(r, e)
      PROVE  TypeOK'
  BY <1>2 DEF PutEmergency, Goto, TypeOK, table, open, refresh
<1>3. ASSUME NEW r \in Requests, NEW p \in OpsPages, NEW b \in Bodies, PutPage(r, p, b)
      PROVE  TypeOK'
  BY <1>3 DEF PutPage, Goto, TypeOK, table, open, refresh
<1>4. ASSUME NEW r \in Requests, setPage(r)
      PROVE  TypeOK'
  <2>1. page[r] \in Pages /\ pc[r] = "set"
    BY <1>4 DEF setPage, Held
  <2>2. /\ pc' \in [Requests -> {"new", "set", "audit", "update", "read", "done"}]
        /\ body' \in [Requests -> Bodies \cup {Initial}]
        /\ settings' \in [Requests -> Emergency]
        /\ asked' \in [Requests -> SUBSET Settings]
        /\ writes' \in [Pages -> Nat]
    BY <1>4, <2>1, NoSettingsType DEF setPage, Forget, Goto, TypeOK
  <2>3. CASE page[r] = "emergency"
    <3>1. emergency' \in Emergency /\ last' \in Emergency
      <4>1. settings[r] \in Emergency /\ last \in Emergency
        BY DEF TypeOK
      <4>2. /\ emergency' = settings[r]
            /\ last' = [s \in Settings |->
                          IF s \in asked[r] THEN settings[r][s] ELSE last[s]]
        BY <1>4, <2>3 DEF setPage
      <4>. QED
        BY <4>1, <4>2 DEF Emergency
    <3>2. stale' \in [Requests -> SUBSET Settings] /\ lost' \subseteq Settings
      <4>1. /\ stale \in [Requests -> SUBSET Settings] /\ lost \subseteq Settings
            /\ asked[r] \subseteq Settings /\ stale[r] \subseteq Settings
        BY DEF TypeOK
      <4>2. /\ stale' = [q \in Requests |->
                           IF q = r THEN {}
                           ELSE IF pc[q] = "set" /\ posting[q] THEN stale[q] \cup asked[r]
                           ELSE stale[q]]
            /\ lost' = (lost \cup stale[r]) \ asked[r]
        BY <1>4, <2>3 DEF setPage
      <4>. QED
        BY <4>1, <4>2
    <3>. QED
      BY <1>4, <2>2, <2>3, <3>1, <3>2 DEF setPage, TypeOK, refresh, open
  <2>4. CASE page[r] # "emergency"
    <3>1. stored' \in [OpsPages -> Bodies \cup Snapshots \cup {Initial}]
      BY <1>4, <2>1, <2>4 DEF setPage, TypeOK, Pages
    <3>. QED
      BY <1>4, <2>2, <2>4, <3>1 DEF setPage, TypeOK, refresh, open
  <2>. QED
    BY <2>3, <2>4
<1>5. ASSUME NEW r \in Requests, AuditPage(r) \/ AuditUpdate(r)
      PROVE  TypeOK'
  <2>1. /\ pc' \in [Requests -> {"new", "set", "audit", "update", "read", "done"}]
        /\ UNCHANGED <<stored, emergency, writes, undone, posting, page, body, settings,
                       asked, stale, refresh, dropped, last, lost>>
    BY <1>5 DEF AuditPage, AuditUpdate, Goto, TypeOK
  <2>2. /\ audits' \in [Pages -> Nat] /\ heldAudits' \in [Pages -> Nat]
        /\ updates' \in Nat /\ heldUpdates' \in Nat
        /\ failures' \in Nat
    <3>1. CASE AuditPage(r)
      <4>1. recordAudit(page[r]) /\ UNCHANGED <<updates, heldUpdates>>
        BY <3>1 DEF AuditPage
      <4>2. /\ audits \in [Pages -> Nat] /\ heldAudits \in [Pages -> Nat]
            /\ updates \in Nat /\ heldUpdates \in Nat /\ failures \in Nat
        BY DEF TypeOK
      <4>. QED
        BY <4>1, <4>2 DEF recordAudit, Interrupt
    <3>2. CASE AuditUpdate(r)
      BY <3>2 DEF AuditUpdate, Interrupt, TypeOK
    <3>. QED
      BY <1>5, <3>1, <3>2
  <2>. QED
    BY <2>1, <2>2 DEF TypeOK, refresh
<1>6. ASSUME NEW r \in Requests, Respond(r)
      PROVE  TypeOK'
  BY <1>6, FinishType DEF Respond, TypeOK, table, open, refresh
<1>7. ASSUME NEW r \in Requests, Fail(r)
      PROVE  TypeOK'
  <2>1. failures' \in Nat /\ dropped' \in [Pages -> Nat]
    <3>1. failures' \in Nat
      BY <1>7 DEF Fail, Interrupt, TypeOK
    <3>2. dropped' = dropped \/ dropped' = [dropped EXCEPT ![page[r]] = @ + 1]
      BY <1>7 DEF Fail
    <3>. QED
      BY <3>1, <3>2 DEF TypeOK
  <2>2. Finish(r)
    BY <1>7 DEF Fail
  <2>. QED
    BY <1>7, <2>1, <2>2, FinishType DEF Fail, TypeOK, table, open, refresh
<1>8. ASSUME NEW c \in Refreshes, refreshOperations(c)
      PROVE  TypeOK'
  BY <1>8 DEF refreshOperations, TypeOK, table, open, requests
<1>9. ASSUME NEW c \in Refreshes, collect(c)
      PROVE  TypeOK'
  <2>1. snapshot' \in [Refreshes -> Nat]
    <3>1. snapshot' = [snapshot EXCEPT ![c] = 1 + Cardinality(Dated)]
      BY <1>9 DEF collect, Dated
    <3>. QED
      BY <3>1, DatedCount DEF TypeOK
  <2>2. /\ phase' \in [Refreshes -> {"idle", "collecting", "storing", "died"}]
        /\ unwritten' \in [Refreshes -> SUBSET OpsPages]
        /\ behind' \in [Refreshes -> SUBSET Refreshes]
    BY <1>9 DEF collect, TypeOK
  <2>. QED
    BY <1>9, <2>1, <2>2 DEF collect, TypeOK, table, open, requests
<1>10. ASSUME NEW c \in Refreshes, Die(c)
       PROVE  TypeOK'
  <2>1. failures' \in Nat /\ dropped' \in [Pages -> Nat]
    BY <1>10 DEF Die, Interrupt, TypeOK
  <2>2. /\ phase' \in [Refreshes -> {"idle", "collecting", "storing", "died"}]
        /\ unwritten' \in [Refreshes -> SUBSET OpsPages]
        /\ unaudited' \in [Refreshes -> SUBSET OpsPages]
    BY <1>10 DEF Die, TypeOK
  <2>. QED
    BY <1>10, <2>1, <2>2 DEF Die, TypeOK, table, open, requests
<1>11. ASSUME NEW c \in Refreshes, NEW p \in OpsPages, setSnapshot(c, p)
       PROVE  TypeOK'
  <2>1. phase[c] = "storing" /\ snapshot[c] \in Nat /\ snapshot[c] > 0
    BY <1>11 DEF setSnapshot, Held, TypeOK
  <2>2. snapshot[c] \in Snapshots
    BY <2>1, DatedCount DEF Held, Snapshots
  <2>3. /\ stored' \in [OpsPages -> Bodies \cup Snapshots \cup {Initial}]
        /\ writes' \in [Pages -> Nat]
        /\ unwritten' \in [Refreshes -> SUBSET OpsPages]
        /\ unaudited' \in [Refreshes -> SUBSET OpsPages]
    BY <1>11, <2>2 DEF setSnapshot, TypeOK
  <2>. QED
    BY <1>11, <2>3 DEF setSnapshot, TypeOK, requests, open
<1>12. ASSUME NEW c \in Refreshes, NEW p \in OpsPages,
              \/ AuditSnapshot(c, p) \/ setSnapshotFails(c, p) \/ AuditSnapshotFails(c, p)
       PROVE  TypeOK'
  <2>1. CASE AuditSnapshot(c, p)
    <3>1. unaudited' \in [Refreshes -> SUBSET OpsPages]
      BY <2>1 DEF AuditSnapshot, TypeOK
    <3>2. recordAudit(p)
      BY <2>1 DEF AuditSnapshot
    <3>3. /\ audits' \in [Pages -> Nat] /\ heldAudits' \in [Pages -> Nat]
          /\ failures' \in Nat
      BY <3>2 DEF recordAudit, Interrupt, TypeOK
    <3>. QED
      BY <2>1, <3>1, <3>3 DEF AuditSnapshot, TypeOK, requests
  <2>2. CASE setSnapshotFails(c, p)
    <3>1. /\ unwritten' \in [Refreshes -> SUBSET OpsPages]
          /\ refused' \in [Refreshes -> SUBSET OpsPages]
          /\ failures' \in Nat
      BY <2>2 DEF setSnapshotFails, Interrupt, TypeOK
    <3>. QED
      BY <2>2, <3>1 DEF setSnapshotFails, TypeOK, table, open, requests
  <2>3. CASE AuditSnapshotFails(c, p)
    <3>1. /\ unaudited' \in [Refreshes -> SUBSET OpsPages]
          /\ dropped' \in [Pages -> Nat]
          /\ failures' \in Nat
      BY <2>3 DEF AuditSnapshotFails, Interrupt, TypeOK
    <3>. QED
      BY <2>3, <3>1 DEF AuditSnapshotFails, TypeOK, table, open, requests
  <2>. QED
    BY <1>12, <2>1, <2>2, <2>3
<1>13. ASSUME NEW p \in Pages, EndAudit(p)
       PROVE  TypeOK'
  <2>1. /\ audits' \in [Pages -> Nat] /\ heldAudits' \in [Pages -> Nat]
        /\ undone' \in [Pages -> Nat]
    <3>1. /\ audits \in [Pages -> Nat] /\ heldAudits \in [Pages -> Nat]
          /\ undone \in [Pages -> Nat]
      BY DEF TypeOK
    <3>2. /\ heldAudits[p] > 0 /\ heldAudits' = [heldAudits EXCEPT ![p] = @ - 1]
          /\ audits' = audits \/ audits' = [audits EXCEPT ![p] = @ + 1]
          /\ undone' = undone \/ undone' = [undone EXCEPT ![p] = @ + 1]
      BY <1>13 DEF EndAudit
    <3>. QED
      BY <3>1, <3>2
  <2>. QED
    BY <1>13, <2>1 DEF EndAudit, TypeOK, requests, refresh
<1>14. ASSUME EndUpdate
       PROVE  TypeOK'
  <2>1. updates' \in Nat /\ heldUpdates' \in Nat
    BY <1>14 DEF EndUpdate, TypeOK
  <2>. QED
    BY <1>14, <2>1 DEF EndUpdate, TypeOK, requests, refresh
<1>15. CASE UNCHANGED vars
  BY <1>15 DEF vars, table, open, requests, refresh, TypeOK
<1>. QED
  BY <1>1, <1>2, <1>3, <1>4, <1>5, <1>6, <1>7, <1>8, <1>9, <1>10, <1>11, <1>12, <1>13,
     <1>14, <1>15
  DEF Next

\* What requests and refreshes hold is kept.
LEMMA NextHeld == Base /\ [Next]_vars => Held'
<1> SUFFICES ASSUME Base, [Next]_vars PROVE Held'
  OBVIOUS
<1>. TypeOK /\ Held
  BY DEF Base
<1>. "emergency" \in Pages /\ OpsPages \subseteq Pages /\ "emergency" \notin OpsPages
  BY PagesAssumption DEF Pages
<1>1. ASSUME NEW r \in Requests,
             \/ \E b \in EmergencyBodies : PostEmergency(r, b)
             \/ \E e \in Emergency : PutEmergency(r, e)
             \/ \E p \in OpsPages, b \in Bodies : PutPage(r, p, b)
             \/ setPage(r) \/ AuditPage(r) \/ AuditUpdate(r) \/ Respond(r) \/ Fail(r)
      PROVE  Held'
  <2>1. UNCHANGED <<phase, snapshot, unwritten, unaudited>>
    BY <1>1 DEF PostEmergency, PutEmergency, PutPage, setPage, AuditPage, AuditUpdate,
                Respond, Fail, refresh
  <2>2. Dated' = Dated
    BY <2>1 DEF Dated
  <2>3. \A q \in Requests \ {r} :
          /\ pc'[q] = pc[q] /\ page'[q] = page[q] /\ posting'[q] = posting[q]
          /\ body'[q] = body[q] /\ asked'[q] = asked[q]
    BY <1>1 DEF PostEmergency, PutEmergency, PutPage, setPage, AuditPage, AuditUpdate,
                Respond, Fail, Finish, Forget, Goto, TypeOK
  <2>4. /\ pc'[r] \in {"set", "audit"} => page'[r] \in Pages
        /\ pc'[r] # "new"
        /\ posting'[r] => page'[r] = "emergency"
        /\ pc'[r] = "set" /\ page'[r] # "emergency" => body'[r] \in Bodies
        /\ pc'[r] = "set" /\ page'[r] = "emergency" /\ ~posting'[r] => asked'[r] = Settings
    <3>1. CASE \E b \in EmergencyBodies : PostEmergency(r, b)
      BY <3>1 DEF PostEmergency, Goto, TypeOK
    <3>2. CASE \E e \in Emergency : PutEmergency(r, e)
      BY <3>2 DEF PutEmergency, Goto, TypeOK, Held
    <3>3. CASE \E p \in OpsPages, b \in Bodies : PutPage(r, p, b)
      BY <3>3 DEF PutPage, Goto, TypeOK, Held
    <3>4. CASE setPage(r) \/ AuditPage(r) \/ AuditUpdate(r)
      BY <3>4 DEF setPage, AuditPage, AuditUpdate, Goto, TypeOK, Held
    <3>5. CASE Respond(r) \/ Fail(r)
      BY <3>5 DEF Respond, Fail, Finish, Goto, TypeOK
    <3>. QED
      BY <1>1, <3>1, <3>2, <3>3, <3>4, <3>5
  <2>. QED
    BY <2>1, <2>2, <2>3, <2>4 DEF Held
<1>2. ASSUME NEW c \in Refreshes, collect(c)
      PROVE  Held'
  <2>1. /\ snapshot'[c] = Cardinality(Dated) + 1
        /\ \A d \in Refreshes \ {c} : snapshot'[d] = snapshot[d]
        /\ Cardinality(Dated') = Cardinality(Dated) + 1
        /\ Cardinality(Dated) \in Nat
    BY <1>2, CollectCount, DatedCount
  <2>2. UNCHANGED <<pc, page, posting, body, asked>>
    BY <1>2 DEF collect, requests
  <2>3. phase[c] = "collecting" /\ unaudited[c] = {}
    BY <1>2 DEF collect, Held
  <2>4. /\ phase'[c] = "storing" /\ unaudited' = unaudited
        /\ \A d \in Refreshes \ {c} : phase'[d] = phase[d] /\ unwritten'[d] = unwritten[d]
    BY <1>2 DEF collect, TypeOK
  <2>5. \A d \in Refreshes : snapshot'[d] <= Cardinality(Dated')
    BY <2>1 DEF Held, TypeOK
  <2>. QED
    BY <2>1, <2>2, <2>3, <2>4, <2>5 DEF Held
<1>3. ASSUME NEW c \in Refreshes,
             \/ refreshOperations(c) \/ Die(c)
             \/ \E p \in OpsPages : \/ setSnapshot(c, p) \/ AuditSnapshot(c, p)
                                    \/ setSnapshotFails(c, p) \/ AuditSnapshotFails(c, p)
      PROVE  Held'
  <2>1. UNCHANGED <<pc, page, posting, body, asked, snapshot>>
    BY <1>3 DEF refreshOperations, Die, setSnapshot, AuditSnapshot, setSnapshotFails,
                AuditSnapshotFails, requests
  <2>2. Dated' = Dated
    BY <2>1 DEF Dated
  <2>3. \A d \in Refreshes \ {c} : /\ phase'[d] = phase[d]
                                   /\ unwritten'[d] = unwritten[d]
                                   /\ unaudited'[d] = unaudited[d]
    BY <1>3 DEF refreshOperations, Die, setSnapshot, AuditSnapshot, setSnapshotFails,
                AuditSnapshotFails, TypeOK
  <2>4. /\ phase'[c] \in {"idle", "collecting"} => snapshot[c] = 0
        /\ phase'[c] = "storing" => snapshot[c] > 0
        /\ phase'[c] # "storing" => unwritten'[c] = {} /\ unaudited'[c] = {}
        /\ unwritten'[c] \cap unaudited'[c] = {}
    <3>1. CASE refreshOperations(c) \/ Die(c)
      BY <3>1 DEF refreshOperations, Die, TypeOK, Held
    <3>2. ASSUME NEW p \in OpsPages,
                 \/ setSnapshot(c, p) \/ AuditSnapshot(c, p)
                 \/ setSnapshotFails(c, p) \/ AuditSnapshotFails(c, p)
          PROVE  /\ phase'[c] = "storing" /\ snapshot[c] > 0
                 /\ unwritten'[c] \cap unaudited'[c] = {}
      BY <3>2 DEF setSnapshot, AuditSnapshot, setSnapshotFails, AuditSnapshotFails,
                  TypeOK, Held
    <3>. QED
      BY <1>3, <3>1, <3>2
  <2>. QED
    BY <2>1, <2>2, <2>3, <2>4 DEF Held
<1>4. ASSUME UNCHANGED <<requests, refresh>>
      PROVE  Held'
  BY <1>4 DEF requests, refresh, Held, Dated
<1>5. CASE UNCHANGED vars
  BY <1>4, <1>5 DEF vars
<1>. QED
  BY <1>1, <1>2, <1>3, <1>4, <1>5 DEF Next, EndAudit, EndUpdate
------------------------------------------------------------------------------
(* Snapshots *)

\* Snapshots are told apart by their dates; a refresh that still writes one is
\* known to every refresh that has collected a newer one.
Dates ==
  /\ \A c, d \in Refreshes : snapshot[c] = snapshot[d] /\ snapshot[c] > 0 => c = d
  /\ \A c \in Refreshes : \A d \in behind[c] : snapshot[d] > 0
  /\ \A c, d \in Refreshes :
       unwritten[d] # {} /\ snapshot[d] < snapshot[c] => d \in behind[c]

\* What a page shows once a refresh has written its snapshot there: that one, what
\* an operator put, a newer one, or one that was still being written.
Shown(c, p) ==
  \/ stored[p] \in {snapshot[c]} \cup Bodies
  \/ \E d \in behind[c] : stored[p] = snapshot[d]
  \/ \E d \in Refreshes : snapshot[d] > snapshot[c] /\ stored[p] = snapshot[d]

SnapshotInv ==
  /\ Dates
  /\ \A c \in Refreshes : \A p \in OpsPages \ (unwritten[c] \cup refused[c]) :
       phase[c] = "storing" => Shown(c, p)

LEMMA InitSnapshots == Init => SnapshotInv
BY DEF Init, SnapshotInv, Dates

LEMMA NextSnapshots == Base /\ SnapshotInv /\ [Next]_vars => SnapshotInv'
<1> SUFFICES ASSUME Base, SnapshotInv, [Next]_vars PROVE SnapshotInv'
  OBVIOUS
<1>. TypeOK /\ Held /\ Dates
  BY DEF Base, SnapshotInv
<1>1. ASSUME NEW c \in Refreshes, collect(c)
      PROVE  SnapshotInv'
  <2>1. /\ \A d \in Refreshes \ {c} : snapshot'[d] = snapshot[d]
        /\ \A d \in Refreshes : snapshot[d] < snapshot'[c]
        /\ snapshot[c] = 0 /\ snapshot'[c] > 0 /\ snapshot'[c] \in Nat
    <3>1. phase[c] = "collecting"
      BY <1>1 DEF collect
    <3>2. snapshot[c] = 0
      BY <3>1 DEF Held
    <3>. QED
      BY <1>1, <3>2, CollectCount, DatedCount
  <2>2. /\ stored' = stored /\ refused' = refused
        /\ behind'[c] = {d \in Refreshes : unwritten[d] # {}}
        /\ unwritten'[c] = OpsPages
        /\ \A d \in Refreshes \ {c} : /\ behind'[d] = behind[d]
                                      /\ unwritten'[d] = unwritten[d]
                                      /\ phase'[d] = phase[d]
    BY <1>1 DEF collect, table, TypeOK
  <2>3. \A d \in Refreshes : unwritten[d] # {} => d # c /\ snapshot[d] > 0
    BY <1>1 DEF Held, collect, TypeOK
  <2>4. \A d \in Refreshes : c \notin behind[d]
    BY <2>1 DEF Dates
  <2>5. \A d, e \in Refreshes :
          snapshot'[d] = snapshot'[e] /\ snapshot'[d] > 0 => d = e
    <3>1. \A d \in Refreshes \ {c} : snapshot'[d] # snapshot'[c]
      BY <2>1 DEF TypeOK
    <3>. QED
      BY <2>1, <3>1 DEF Dates
  <2>6. \A d \in Refreshes : \A e \in behind'[d] : snapshot'[e] > 0
    BY <2>1, <2>2, <2>3, <2>4 DEF Dates, TypeOK
  <2>7. \A d, e \in Refreshes :
          unwritten'[e] # {} /\ snapshot'[e] < snapshot'[d] => e \in behind'[d]
    <3>1. ASSUME NEW d \in Refreshes, NEW e \in Refreshes, unwritten'[e] # {},
                 snapshot'[e] < snapshot'[d]
          PROVE  e \in behind'[d]
      <4>1. CASE d = c
        BY <3>1, <4>1, <2>1, <2>2
      <4>2. CASE d # c /\ e = c
        BY <3>1, <4>2, <2>1 DEF TypeOK
      <4>3. CASE d # c /\ e # c
        BY <3>1, <4>3, <2>1, <2>2 DEF Dates
      <4>. QED
        BY <4>1, <4>2, <4>3
    <3>. QED
      BY <3>1
  <2>8. ASSUME NEW d \in Refreshes, NEW p \in OpsPages, p \notin unwritten'[d],
               p \notin refused'[d], phase'[d] = "storing"
        PROVE  Shown(d, p)'
    <3>1. d # c
      BY <2>2, <2>8
    <3>2. Shown(d, p)
      BY <2>2, <2>8, <3>1 DEF SnapshotInv
    <3>3. snapshot[d] > 0
      BY <2>2, <2>8, <3>1 DEF Held
    <3>4. CASE stored[p] \in {snapshot[d]} \cup Bodies
      BY <3>1, <3>4, <2>1, <2>2 DEF Shown
    <3>5. CASE \E e \in behind[d] : stored[p] = snapshot[e]
      <4>1. PICK e \in behind[d] : stored[p] = snapshot[e]
        BY <3>5
      <4>2. e \in behind'[d] /\ snapshot'[e] = snapshot[e]
        BY <3>1, <2>1, <2>2, <2>4, <4>1 DEF TypeOK
      <4>. QED
        BY <4>1, <4>2, <2>2 DEF Shown
    <3>6. CASE \E e \in Refreshes : snapshot[e] > snapshot[d] /\ stored[p] = snapshot[e]
      <4>1. PICK e \in Refreshes : snapshot[e] > snapshot[d] /\ stored[p] = snapshot[e]
        BY <3>6
      <4>2. e # c
        BY <3>3, <4>1, <2>1 DEF TypeOK
      <4>. QED
        BY <3>1, <4>1, <4>2, <2>1, <2>2 DEF Shown
    <3>. QED
      BY <3>2, <3>4, <3>5, <3>6 DEF Shown
  <2>. QED
    BY <2>5, <2>6, <2>7, <2>8 DEF SnapshotInv, Dates
<1>2. ASSUME NEW c \in Refreshes, NEW p \in OpsPages, setSnapshot(c, p)
      PROVE  SnapshotInv'
  <2>1. /\ UNCHANGED <<snapshot, behind, refused, phase>>
        /\ stored'[p] = snapshot[c]
        /\ \A q \in OpsPages \ {p} : stored'[q] = stored[q]
        /\ unwritten'[c] = unwritten[c] \ {p}
        /\ \A d \in Refreshes \ {c} : unwritten'[d] = unwritten[d]
        /\ p \in unwritten[c]
    BY <1>2 DEF setSnapshot, TypeOK
  <2>2. Dates'
    BY <2>1 DEF Dates
  <2>3. ASSUME NEW d \in Refreshes, phase[d] = "storing"
        PROVE  Shown(d, p)'
    <3>1. snapshot[d] > 0 /\ snapshot[d] \in Nat /\ snapshot[c] \in Nat
      BY <2>3 DEF Held, TypeOK
    <3>2. CASE snapshot[c] < snapshot[d]
      <4>1. c \in behind[d]
        BY <2>1, <3>2 DEF Dates
      <4>. QED
        BY <4>1, <2>1 DEF Shown
    <3>3. CASE snapshot[c] = snapshot[d]
      BY <3>3, <2>1 DEF Shown
    <3>4. CASE snapshot[c] > snapshot[d]
      BY <3>4, <2>1 DEF Shown
    <3>. QED
      BY <3>1, <3>2, <3>3, <3>4
  <2>4. ASSUME NEW d \in Refreshes, NEW q \in OpsPages \ {p}, q \notin unwritten'[d],
               q \notin refused[d], phase[d] = "storing"
        PROVE  Shown(d, q)'
    <3>1. q \notin unwritten[d]
      BY <2>1, <2>4
    <3>2. Shown(d, q)
      BY <2>4, <3>1 DEF SnapshotInv
    <3>. QED
      BY <3>2, <2>1 DEF Shown
  <2>. QED
    BY <2>1, <2>2, <2>3, <2>4 DEF SnapshotInv
<1>3. ASSUME NEW r \in Requests, setPage(r)
      PROVE  SnapshotInv'
  <2>1. UNCHANGED <<snapshot, behind, refused, phase, unwritten>>
    BY <1>3 DEF setPage, refresh
  <2>2. \A p \in OpsPages : stored'[p] = stored[p] \/ stored'[p] \in Bodies
    BY <1>3 DEF setPage, Held, TypeOK
  <2>3. Dates'
    BY <2>1 DEF Dates
  <2>4. \A c \in Refreshes, p \in OpsPages : Shown(c, p) => Shown(c, p)'
    BY <2>1, <2>2 DEF Shown
  <2>. QED
    BY <2>1, <2>3, <2>4 DEF SnapshotInv
<1>4. ASSUME UNCHANGED <<snapshot, behind, stored>>,
             \A c \in Refreshes :
               /\ unwritten'[c] \subseteq unwritten[c]
               /\ phase'[c] = "storing" =>
                    /\ phase[c] = "storing"
                    /\ unwritten[c] \cup refused[c] \subseteq unwritten'[c] \cup refused'[c]
      PROVE  SnapshotInv'
  <2>1. Dates'
    BY <1>4 DEF Dates
  <2>2. \A c \in Refreshes, p \in OpsPages : Shown(c, p) => Shown(c, p)'
    BY <1>4 DEF Shown
  <2>. QED
    BY <1>4, <2>1, <2>2 DEF SnapshotInv
<1>5. ASSUME NEW r \in Requests,
             \/ \E b \in EmergencyBodies : PostEmergency(r, b)
             \/ \E e \in Emergency : PutEmergency(r, e)
             \/ \E p \in OpsPages, b \in Bodies : PutPage(r, p, b)
             \/ AuditPage(r) \/ AuditUpdate(r) \/ Respond(r) \/ Fail(r)
      PROVE  SnapshotInv'
  <2>1. UNCHANGED <<snapshot, behind, stored, unwritten, refused, phase>>
    BY <1>5 DEF PostEmergency, PutEmergency, PutPage, AuditPage, AuditUpdate, Respond,
                Fail, table, refresh
  <2>. QED
    BY <2>1, <1>4
<1>6. ASSUME NEW c \in Refreshes,
             \/ refreshOperations(c) \/ Die(c)
             \/ \E p \in OpsPages : \/ AuditSnapshot(c, p) \/ setSnapshotFails(c, p)
                                    \/ AuditSnapshotFails(c, p)
      PROVE  SnapshotInv'
  <2>1. UNCHANGED <<snapshot, behind, stored>>
    BY <1>6 DEF refreshOperations, Die, AuditSnapshot, setSnapshotFails,
                AuditSnapshotFails, table
  <2>2. \A d \in Refreshes :
          /\ unwritten'[d] \subseteq unwritten[d]
          /\ phase'[d] = "storing" =>
               /\ phase[d] = "storing"
               /\ unwritten[d] \cup refused[d] \subseteq unwritten'[d] \cup refused'[d]
    BY <1>6 DEF refreshOperations, Die, AuditSnapshot, setSnapshotFails,
                AuditSnapshotFails, TypeOK
  <2>. QED
    BY <2>1, <2>2, <1>4
<1>7. CASE (\E p \in Pages : EndAudit(p)) \/ EndUpdate
  BY <1>7, <1>4 DEF EndAudit, EndUpdate, refresh
<1>8. CASE UNCHANGED vars
  BY <1>8, <1>4 DEF vars, table, refresh
<1>. QED
  BY <1>1, <1>2, <1>3, <1>5, <1>6, <1>7, <1>8 DEF Next
------------------------------------------------------------------------------
(* Settings *)

\* What a request is about to write over a setting it was not asked to change is
\* what is there, unless the setting is marked stale for it.
Unasked ==
  \A r \in Requests :
    pc[r] = "set" /\ page[r] = "emergency" =>
      \A s \in Settings \ (asked[r] \cup stale[r] \cup lost) :
        Off(settings[r][s]) <=> Off(last[s])

SettingsInv == SettingsStayUnlessRaced /\ Unasked

LEMMA InitSettings == Init => SettingsInv
BY DEF Init, SettingsInv, SettingsStayUnlessRaced, Unasked

LEMMA NextSettings == Base /\ SettingsInv /\ [Next]_vars => SettingsInv'
<1> SUFFICES ASSUME Base, SettingsInv, [Next]_vars PROVE SettingsInv'
  OBVIOUS
<1>. TypeOK /\ Held /\ SettingsStayUnlessRaced /\ Unasked
  BY DEF Base, SettingsInv
<1>1. ASSUME NEW r \in Requests, NEW b \in EmergencyBodies, PostEmergency(r, b)
      PROVE  SettingsInv'
  <2>1. /\ UNCHANGED <<emergency, last, lost, stale>>
        /\ settings'[r] = Merge(emergency, b) /\ asked'[r] = Asked(b)
        /\ \A q \in Requests \ {r} : /\ pc'[q] = pc[q] /\ page'[q] = page[q]
                                     /\ settings'[q] = settings[q] /\ asked'[q] = asked[q]
    BY <1>1 DEF PostEmergency, Goto, TypeOK, table
  <2>2. \A s \in Settings \ (Asked(b) \cup lost) :
          Off(Merge(emergency, b)[s]) <=> Off(last[s])
    <3>1. emergency \in Emergency
      BY DEF TypeOK
    <3>2. TAKE s \in Settings \ (Asked(b) \cup lost)
    <3>3. Off(emergency[s]) <=> Off(last[s])
      BY DEF SettingsStayUnlessRaced
    <3>4. Off(Merge(emergency, b)[s]) <=> Off(emergency[s])
      BY <3>1, MergeKeeps
    <3>. QED
      BY <3>3, <3>4
  <2>3. SettingsStayUnlessRaced'
    BY <2>1 DEF SettingsStayUnlessRaced, Off
  <2>4. Unasked'
    BY <2>1, <2>2 DEF Unasked, Off
  <2>. QED
    BY <2>3, <2>4 DEF SettingsInv
<1>2. ASSUME NEW r \in Requests, NEW e \in Emergency, PutEmergency(r, e)
      PROVE  SettingsInv'
  <2>1. /\ UNCHANGED <<emergency, last, lost, stale>>
        /\ asked'[r] = Settings
        /\ \A q \in Requests \ {r} : /\ pc'[q] = pc[q] /\ page'[q] = page[q]
                                     /\ settings'[q] = settings[q] /\ asked'[q] = asked[q]
    BY <1>2 DEF PutEmergency, Goto, TypeOK, table
  <2>. QED
    BY <2>1 DEF SettingsInv, SettingsStayUnlessRaced, Unasked, Off
<1>3. ASSUME NEW r \in Requests, setPage(r), page[r] = "emergency"
      PROVE  SettingsInv'
  <2>1. /\ pc[r] = "set" /\ pc'[r] = "audit"
        /\ \A q \in Requests \ {r} : /\ pc'[q] = pc[q] /\ settings'[q] = settings[q]
                                     /\ asked'[q] = asked[q]
        /\ page' = page
    BY <1>3 DEF setPage, Forget, Goto, TypeOK
  <2>2. /\ emergency' = settings[r]
        /\ last' = [s \in Settings |-> IF s \in asked[r] THEN settings[r][s] ELSE last[s]]
        /\ stale' = [q \in Requests |->
                       IF q = r THEN {}
                       ELSE IF pc[q] = "set" /\ posting[q] THEN stale[q] \cup asked[r]
                       ELSE stale[q]]
        /\ lost' = (lost \cup stale[r]) \ asked[r]
    BY <1>3 DEF setPage
  <2>3. SettingsStayUnlessRaced'
    <3>1. SUFFICES ASSUME NEW s \in Settings, s \notin lost'
                   PROVE  Off(emergency'[s]) <=> Off(last'[s])
      BY DEF SettingsStayUnlessRaced, Off
    <3>2. CASE s \in asked[r]
      BY <3>2, <2>2
    <3>3. CASE s \notin asked[r]
      <4>1. s \notin stale[r] /\ s \notin lost
        BY <3>1, <3>3, <2>2
      <4>2. Off(settings[r][s]) <=> Off(last[s])
        BY <4>1, <3>3, <2>1, <1>3 DEF Unasked
      <4>. QED
        BY <4>2, <3>3, <2>2
    <3>. QED
      BY <3>2, <3>3
  <2>4. Unasked'
    <3>1. SUFFICES ASSUME NEW q \in Requests, pc'[q] = "set", page'[q] = "emergency",
                          NEW s \in Settings, s \notin asked'[q], s \notin stale'[q],
                          s \notin lost'
                   PROVE  Off(settings'[q][s]) <=> Off(last'[s])
      BY DEF Unasked, Off
    <3>2. q # r /\ pc[q] = "set" /\ page[q] = "emergency" /\ s \notin asked[q]
      BY <3>1, <2>1
    <3>3. posting[q]
      BY <3>2 DEF Held
    <3>4. s \notin stale[q] /\ s \notin asked[r]
      BY <3>1, <3>2, <3>3, <2>2
    <3>5. s \notin lost
      BY <3>1, <3>4, <2>2
    <3>6. Off(settings[q][s]) <=> Off(last[s])
      BY <3>2, <3>4, <3>5 DEF Unasked
    <3>. QED
      BY <3>2, <3>4, <3>6, <2>1, <2>2
  <2>. QED
    BY <2>3, <2>4 DEF SettingsInv
<1>4. ASSUME UNCHANGED <<emergency, last, lost>>,
             \A q \in Requests :
               pc'[q] = "set" /\ page'[q] = "emergency" =>
                 /\ pc[q] = "set" /\ page[q] = "emergency"
                 /\ settings'[q] = settings[q] /\ asked'[q] = asked[q]
                 /\ stale'[q] = stale[q]
      PROVE  SettingsInv'
  BY <1>4 DEF SettingsInv, SettingsStayUnlessRaced, Unasked, Off
<1>5. ASSUME NEW r \in Requests,
             \/ \E p \in OpsPages, b \in Bodies : PutPage(r, p, b)
             \/ setPage(r) /\ page[r] # "emergency"
             \/ AuditPage(r) \/ AuditUpdate(r) \/ Respond(r) \/ Fail(r)
      PROVE  SettingsInv'
  <2>1. /\ UNCHANGED <<emergency, last, lost>>
        /\ ~(pc'[r] = "set" /\ page'[r] = "emergency")
        /\ \A q \in Requests \ {r} :
             /\ pc'[q] = pc[q] /\ page'[q] = page[q] /\ settings'[q] = settings[q]
             /\ asked'[q] = asked[q] /\ stale'[q] = stale[q]
    BY <1>5, PagesAssumption
    DEF PutPage, setPage, AuditPage, AuditUpdate, Respond, Fail, Finish, Forget, Goto,
        TypeOK, table
  <2>. QED
    BY <2>1, <1>4
<1>6. ASSUME NEW c \in Refreshes,
             \/ refreshOperations(c) \/ collect(c) \/ Die(c)
             \/ \E p \in OpsPages : \/ setSnapshot(c, p) \/ AuditSnapshot(c, p)
                                    \/ setSnapshotFails(c, p) \/ AuditSnapshotFails(c, p)
      PROVE  SettingsInv'
  <2>1. UNCHANGED <<emergency, last, lost, requests>>
    BY <1>6 DEF refreshOperations, collect, Die, setSnapshot, AuditSnapshot,
                setSnapshotFails, AuditSnapshotFails, table
  <2>. QED
    BY <2>1, <1>4 DEF requests
<1>7. CASE (\E p \in Pages : EndAudit(p)) \/ EndUpdate
  BY <1>7, <1>4 DEF EndAudit, EndUpdate, requests
<1>8. CASE UNCHANGED vars
  BY <1>8, <1>4 DEF vars, table, requests
<1>. QED
  BY <1>1, <1>2, <1>3, <1>5, <1>6, <1>7, <1>8 DEF Next
------------------------------------------------------------------------------
(* Audit rows *)

\* Refreshes that are between the upsert of a page and its audit row.
Snapping(p) == {c \in Refreshes : p \in unaudited[c]}

\* Operators' updates of the emergency page whose page has been recorded, and which
\* are about to be recorded themselves.
Updating == {r \in Requests : pc[r] = "update"}

\* By page, audit rows that have been inserted, those that an open transaction holds
\* and those that were rolled back with one included.
Rows     == [p \in Pages |-> audits[p] + heldAudits[p] + undone[p]]
Recorded == updates + heldUpdates

CountInv ==
  /\ \A p \in Pages :
       writes[p] = Rows[p] + dropped[p] + Cardinality(Auditing(p))
                     + Cardinality(Snapping(p))
  /\ Recorded + Cardinality(Updating) <= Rows["emergency"]

LEMMA SetsAreFinite ==
  /\ \A p \in Pages : /\ IsFiniteSet(Auditing(p)) /\ Cardinality(Auditing(p)) \in Nat
                      /\ IsFiniteSet(Snapping(p)) /\ Cardinality(Snapping(p)) \in Nat
  /\ IsFiniteSet(Updating) /\ Cardinality(Updating) \in Nat
<1>1. /\ \A p \in Pages : Auditing(p) \subseteq Requests /\ Snapping(p) \subseteq Refreshes
      /\ Updating \subseteq Requests
  BY DEF Auditing, Snapping, Updating
<1>. QED
  BY <1>1, PagesAssumption, FS_Subset, FS_CardinalityType

\* A page's row is counted wherever it is inserted.
LEMMA RowCounts ==
  ASSUME TypeOK
  PROVE  /\ Rows \in [Pages -> Nat] /\ Recorded \in Nat
         /\ UNCHANGED <<audits, heldAudits, undone>> => Rows' = Rows
         /\ UNCHANGED <<updates, heldUpdates>> => Recorded' = Recorded
         /\ \A p \in Pages : recordAudit(p) /\ UNCHANGED undone =>
              Rows' = [Rows EXCEPT ![p] = @ + 1]
<1>1. Rows \in [Pages -> Nat] /\ Recorded \in Nat
  BY DEF Rows, Recorded, TypeOK
<1>2. ASSUME NEW p \in Pages, recordAudit(p), UNCHANGED undone
      PROVE  Rows' = [Rows EXCEPT ![p] = @ + 1]
  <2>1. \A q \in Pages : audits[q] \in Nat /\ heldAudits[q] \in Nat /\ undone[q] \in Nat
    BY DEF TypeOK
  <2>2. /\ \A q \in Pages \ {p} : audits'[q] = audits[q] /\ heldAudits'[q] = heldAudits[q]
        /\ \/ audits'[p] = audits[p] + 1 /\ heldAudits'[p] = heldAudits[p]
           \/ audits'[p] = audits[p] /\ heldAudits'[p] = heldAudits[p] + 1
    BY <1>2 DEF recordAudit, TypeOK
  <2>3. \A q \in Pages :
          audits'[q] + heldAudits'[q] + undone'[q]
            = IF q = p THEN audits[q] + heldAudits[q] + undone[q] + 1
              ELSE audits[q] + heldAudits[q] + undone[q]
    BY <1>2, <2>1, <2>2
  <2>. QED
    BY <2>3 DEF Rows
<1>. QED
  BY <1>1, <1>2 DEF Rows, Recorded

\* The end of a transaction moves a row, or takes an update's row away.
LEMMA EndCounts ==
  ASSUME TypeOK, (\E p \in Pages : EndAudit(p)) \/ EndUpdate
  PROVE  Rows' = Rows /\ Recorded' \in Nat /\ Recorded' <= Recorded
<1>1. ASSUME NEW p \in Pages, EndAudit(p)
      PROVE  Rows' = Rows /\ Recorded' = Recorded
  BY <1>1 DEF EndAudit, Rows, Recorded, TypeOK
<1>2. ASSUME EndUpdate
      PROVE  Rows' = Rows /\ Recorded' \in Nat /\ Recorded' <= Recorded
  <2>1. Rows' = Rows
    BY <1>2 DEF EndUpdate, Rows
  <2>2. /\ heldUpdates \in Nat /\ heldUpdates > 0 /\ heldUpdates' = heldUpdates - 1
        /\ updates \in Nat /\ (updates' = updates \/ updates' = updates + 1)
    BY <1>2 DEF EndUpdate, TypeOK
  <2>3. Recorded' \in Nat /\ Recorded' <= Recorded
    BY <2>2 DEF Recorded
  <2>. QED
    BY <2>1, <2>3
<1>. QED
  BY <1>1, <1>2, RowCounts

LEMMA InitCounts == Init => CountInv
<1> SUFFICES ASSUME Init PROVE CountInv
  OBVIOUS
<1>1. /\ \A p \in Pages : Auditing(p) = {} /\ Snapping(p) = {}
      /\ Updating = {}
  BY DEF Init, Auditing, Snapping, Updating
<1>2. Cardinality({}) = 0
  BY FS_EmptySet
<1>3. "emergency" \in Pages
  BY DEF Pages
<1>4. \A p \in Pages : writes[p] = 0 /\ Rows[p] = 0 /\ dropped[p] = 0
  BY DEF Init, Rows
<1>5. \A p \in Pages : Cardinality(Auditing(p)) = 0 /\ Cardinality(Snapping(p)) = 0
  BY <1>1, <1>2
<1>6. Cardinality(Updating) = 0 /\ Recorded = 0
  BY <1>1, <1>2 DEF Init, Recorded
<1>. QED
  BY <1>3, <1>4, <1>5, <1>6 DEF CountInv

LEMMA NextCounts == Base /\ CountInv /\ [Next]_vars => CountInv'
<1> SUFFICES ASSUME Base, CountInv, [Next]_vars PROVE CountInv'
  OBVIOUS
<1>. TypeOK /\ Held
  BY DEF Base
<1>. "emergency" \in Pages /\ OpsPages \subseteq Pages /\ "emergency" \notin OpsPages
  BY PagesAssumption DEF Pages
<1>0. /\ \A p \in Pages : /\ IsFiniteSet(Auditing(p)) /\ Cardinality(Auditing(p)) \in Nat
                          /\ IsFiniteSet(Snapping(p)) /\ Cardinality(Snapping(p)) \in Nat
                          /\ writes[p] \in Nat /\ Rows[p] \in Nat /\ dropped[p] \in Nat
      /\ IsFiniteSet(Updating) /\ Cardinality(Updating) \in Nat
      /\ Recorded \in Nat
  BY SetsAreFinite, RowCounts DEF TypeOK
<1>1. ASSUME UNCHANGED <<writes, Rows, dropped, Recorded>>,
             \A p \in Pages : Auditing(p)' = Auditing(p) /\ Snapping(p)' = Snapping(p),
             Updating' = Updating
      PROVE  CountInv'
  BY <1>1 DEF CountInv
<1>2. ASSUME NEW r \in Requests,
             \/ \E b \in EmergencyBodies : PostEmergency(r, b)
             \/ \E e \in Emergency : PutEmergency(r, e)
             \/ \E p \in OpsPages, b \in Bodies : PutPage(r, p, b)
             \/ Respond(r)
             \/ Fail(r) /\ pc[r] \in {"set", "read"}
      PROVE  CountInv'
  <2>1. /\ UNCHANGED <<writes, Rows, dropped, Recorded, unaudited>>
        /\ pc[r] \notin {"audit", "update"} /\ pc'[r] \notin {"audit", "update"}
        /\ \A q \in Requests \ {r} : pc'[q] = pc[q] /\ page'[q] = page[q]
    BY <1>2, RowCounts
    DEF PostEmergency, PutEmergency, PutPage, Respond, Fail, Finish, Goto, TypeOK, table,
        open, refresh
  <2>2. \A p \in Pages : Auditing(p)' = Auditing(p) /\ Snapping(p)' = Snapping(p)
    BY <2>1 DEF Auditing, Snapping
  <2>3. Updating' = Updating
    BY <2>1 DEF Updating
  <2>. QED
    BY <2>1, <2>2, <2>3, <1>1
<1>3. ASSUME NEW r \in Requests, setPage(r)
      PROVE  CountInv'
  <2>0. PICK p \in Pages : p = page[r]
    BY <1>3 DEF setPage, Held
  <2>1. /\ pc[r] = "set" /\ pc'[r] = "audit"
        /\ \A q \in Requests \ {r} : pc'[q] = pc[q]
        /\ UNCHANGED <<page, Rows, dropped, Recorded, unaudited>>
        /\ writes'[p] = writes[p] + 1
        /\ \A q \in Pages \ {p} : writes'[q] = writes[q]
    BY <1>3, <2>0, RowCounts DEF setPage, Goto, TypeOK, refresh, open
  <2>2. /\ r \notin Auditing(p) /\ Auditing(p)' = Auditing(p) \cup {r}
        /\ \A q \in Pages \ {p} : Auditing(q)' = Auditing(q)
        /\ \A q \in Pages : Snapping(q)' = Snapping(q)
    BY <2>0, <2>1 DEF Auditing, Snapping
  <2>3. Updating' = Updating
    BY <2>1 DEF Updating
  <2>4. Cardinality(Auditing(p)') = Cardinality(Auditing(p)) + 1
    BY <2>1, <2>2, <1>0, CountAdded
  <2>5. ASSUME NEW q \in Pages
        PROVE  writes'[q] = Rows'[q] + dropped'[q] + Cardinality(Auditing(q)')
                              + Cardinality(Snapping(q)')
    <3>1. writes[q] = Rows[q] + dropped[q] + Cardinality(Auditing(q))
                        + Cardinality(Snapping(q))
      BY DEF CountInv
    <3>2. CASE q = p
      <4>1. /\ Auditing(q)' = Auditing(p)' /\ Auditing(q) = Auditing(p)
            /\ Snapping(q)' = Snapping(p)' /\ Snapping(q) = Snapping(p)
        BY <3>2 DEF Auditing, Snapping
      <4>. QED
        BY <1>0, <4>1, <2>1, <2>2, <2>4, <3>1, <3>2
    <3>3. CASE q # p
      <4>1. /\ Cardinality(Auditing(q)') = Cardinality(Auditing(q))
            /\ Cardinality(Snapping(q)') = Cardinality(Snapping(q))
        BY <2>1, <2>2, <2>4, <3>3
      <4>. QED
        BY <1>0, <2>1, <2>2, <2>4, <3>1, <3>3, <4>1
    <3>. QED
      BY <3>2, <3>3
  <2>. QED
    BY <2>1, <2>3, <2>5 DEF CountInv
<1>4. ASSUME NEW r \in Requests, pc[r] = "audit", AuditPage(r) \/ Fail(r)
      PROVE  CountInv'
  <2>0. PICK p \in Pages : p = page[r]
    BY <1>4 DEF Held
  <2>1. /\ pc'[r] # "audit"
        /\ \A q \in Requests \ {r} : pc'[q] = pc[q] /\ page'[q] = page[q]
        /\ UNCHANGED <<writes, Recorded, unaudited>>
    BY <1>4, RowCounts
    DEF AuditPage, Fail, Finish, Goto, TypeOK, Held, table, open, refresh
  <2>2. /\ r \in Auditing(p) /\ Auditing(p)' = Auditing(p) \ {r}
        /\ \A q \in Pages \ {p} : Auditing(q)' = Auditing(q)
        /\ \A q \in Pages : Snapping(q)' = Snapping(q)
    <3>1. r \in Auditing(p) /\ \A q \in Pages \ {p} : r \notin Auditing(q)
      BY <1>4, <2>0 DEF Auditing
    <3>2. Auditing(p)' = Auditing(p) \ {r}
      BY <2>1 DEF Auditing
    <3>3. ASSUME NEW q \in Pages \ {p}
          PROVE  Auditing(q)' = Auditing(q)
      BY <1>4, <2>0, <2>1 DEF Auditing
    <3>4. \A q \in Pages : Snapping(q)' = Snapping(q)
      BY <2>1 DEF Snapping
    <3>. QED
      BY <3>1, <3>2, <3>3, <3>4
  <2>3. /\ Cardinality(Auditing(p)') \in Nat
        /\ Cardinality(Auditing(p)) = Cardinality(Auditing(p)') + 1
    BY <2>1, <2>2, <1>0, CountRemoved
  <2>4. /\ \A q \in Pages \ {p} : Rows'[q] = Rows[q] /\ dropped'[q] = dropped[q]
        /\ Rows'[p] + dropped'[p] = Rows[p] + dropped[p] + 1
    <3>1. CASE AuditPage(r)
      <4>1. Rows' = [Rows EXCEPT ![p] = @ + 1] /\ dropped' = dropped
        BY <2>0, <3>1, RowCounts DEF AuditPage
      <4>. QED
        BY <4>1, <2>1, <1>0, RowCounts DEF TypeOK
    <3>2. CASE Fail(r)
      <4>1. dropped' = [dropped EXCEPT ![p] = @ + 1] /\ Rows' = Rows
        BY <2>0, <3>2, <1>4, RowCounts DEF Fail, table, open
      <4>. QED
        BY <4>1, <2>1, <1>0, RowCounts DEF TypeOK
    <3>. QED
      BY <1>4, <3>1, <3>2
  <2>5. \A q \in Pages : Rows'[q] \in Nat /\ dropped'[q] \in Nat
    <3>1. TypeOK'
      BY NextType
    <3>. QED
      BY <3>1 DEF TypeOK, Rows
  <2>6. ASSUME NEW q \in Pages
        PROVE  writes'[q] = Rows'[q] + dropped'[q] + Cardinality(Auditing(q)')
                              + Cardinality(Snapping(q)')
    <3>1. writes[q] = Rows[q] + dropped[q] + Cardinality(Auditing(q))
                        + Cardinality(Snapping(q))
      BY DEF CountInv
    <3>2. CASE q = p
      <4>1. /\ Auditing(q)' = Auditing(p)' /\ Auditing(q) = Auditing(p)
            /\ Snapping(q)' = Snapping(p)' /\ Snapping(q) = Snapping(p)
        BY <3>2 DEF Auditing, Snapping
      <4>. QED
        BY <1>0, <4>1, <2>1, <2>2, <2>3, <2>4, <2>5, <3>1, <3>2
    <3>3. CASE q # p
      <4>1. /\ Cardinality(Auditing(q)') = Cardinality(Auditing(q))
            /\ Cardinality(Snapping(q)') = Cardinality(Snapping(q))
        BY <2>1, <2>2, <2>3, <2>4, <2>5, <3>3
      <4>. QED
        BY <1>0, <2>1, <2>2, <2>3, <2>4, <2>5, <3>1, <3>3, <4>1
    <3>. QED
      BY <3>2, <3>3
  <2>7. Recorded' + Cardinality(Updating') <= Rows'["emergency"]
    <3>1. r \notin Updating
      BY <1>4 DEF Updating
    <3>2. CASE pc'[r] = "update"
      <4>1. AuditPage(r) /\ posting[r]
        BY <1>4, <3>2 DEF AuditPage, Fail, Finish, Goto, TypeOK
      <4>2. Rows' = [Rows EXCEPT !["emergency"] = @ + 1]
        BY <4>1, RowCounts DEF AuditPage, Held
      <4>3. Rows'["emergency"] = Rows["emergency"] + 1
        BY <4>2, RowCounts
      <4>4. Updating' = Updating \cup {r}
        BY <2>1, <3>2 DEF Updating
      <4>5. Cardinality(Updating') = Cardinality(Updating) + 1
        BY <3>1, <4>4, <1>0, CountAdded
      <4>. QED
        BY <4>3, <4>5, <2>1, <1>0 DEF CountInv
    <3>3. CASE pc'[r] # "update"
      <4>1. Updating' = Updating
        BY <2>1, <3>1, <3>3 DEF Updating
      <4>2. Rows["emergency"] <= Rows'["emergency"]
        <5>1. Rows' = Rows \/ Rows' = [Rows EXCEPT ![p] = @ + 1]
          BY <1>4, <2>0, RowCounts DEF AuditPage, Fail, table, open
        <5>. QED
          BY <5>1, <1>0, RowCounts
      <4>. QED
        BY <4>1, <4>2, <2>1, <2>5, <1>0 DEF CountInv
    <3>. QED
      BY <3>2, <3>3
  <2>. QED
    BY <2>6, <2>7 DEF CountInv
<1>5. ASSUME NEW r \in Requests, pc[r] = "update", AuditUpdate(r) \/ Fail(r)
      PROVE  CountInv'
  <2>1. /\ pc'[r] \notin {"audit", "update"}
        /\ \A q \in Requests \ {r} : pc'[q] = pc[q] /\ page'[q] = page[q]
        /\ UNCHANGED <<writes, audits, heldAudits, undone, dropped, unaudited>>
    BY <1>5 DEF AuditUpdate, Fail, Finish, Goto, TypeOK, table, open, refresh
  <2>5. Rows' = Rows
    BY <2>1, RowCounts
  <2>6. Recorded' = Recorded \/ Recorded' = Recorded + 1
    <3>1. \/ UNCHANGED <<updates, heldUpdates>>
          \/ updates' = updates + 1 /\ UNCHANGED heldUpdates
          \/ heldUpdates' = heldUpdates + 1 /\ UNCHANGED updates
      BY <1>5 DEF AuditUpdate, Fail, table, open
    <3>. QED
      BY <3>1 DEF Recorded, TypeOK
  <2>2. \A p \in Pages : Auditing(p)' = Auditing(p) /\ Snapping(p)' = Snapping(p)
    BY <1>5, <2>1 DEF Auditing, Snapping
  <2>3. r \in Updating /\ Updating' = Updating \ {r}
    BY <1>5, <2>1 DEF Updating
  <2>4. /\ Cardinality(Updating') \in Nat
        /\ Cardinality(Updating) = Cardinality(Updating') + 1
    BY <2>3, <1>0, CountRemoved
  <2>. QED
    BY <1>0, <2>1, <2>2, <2>4, <2>5, <2>6 DEF CountInv
<1>6. ASSUME NEW c \in Refreshes, NEW p \in OpsPages, setSnapshot(c, p)
      PROVE  CountInv'
  <2>1. /\ UNCHANGED <<pc, page, Rows, dropped, Recorded>>
        /\ writes'[p] = writes[p] + 1
        /\ \A q \in Pages \ {p} : writes'[q] = writes[q]
        /\ p \notin unaudited[c] /\ unaudited'[c] = unaudited[c] \cup {p}
        /\ \A d \in Refreshes \ {c} : unaudited'[d] = unaudited[d]
    BY <1>6, RowCounts DEF setSnapshot, requests, TypeOK, Held, open
  <2>2. /\ c \notin Snapping(p) /\ Snapping(p)' = Snapping(p) \cup {c}
        /\ \A q \in Pages \ {p} : Snapping(q)' = Snapping(q)
        /\ \A q \in Pages : Auditing(q)' = Auditing(q)
        /\ Updating' = Updating
    BY <2>1 DEF Snapping, Auditing, Updating
  <2>3. Cardinality(Snapping(p)') = Cardinality(Snapping(p)) + 1
    BY <2>2, <1>0, CountAdded
  <2>4. ASSUME NEW q \in Pages
        PROVE  writes'[q] = Rows'[q] + dropped'[q] + Cardinality(Auditing(q)')
                              + Cardinality(Snapping(q)')
    <3>1. writes[q] = Rows[q] + dropped[q] + Cardinality(Auditing(q))
                        + Cardinality(Snapping(q))
      BY DEF CountInv
    <3>2. CASE q = p
      <4>1. /\ Auditing(q)' = Auditing(p)' /\ Auditing(q) = Auditing(p)
            /\ Snapping(q)' = Snapping(p)' /\ Snapping(q) = Snapping(p)
        BY <3>2 DEF Auditing, Snapping
      <4>. QED
        BY <1>0, <4>1, <2>1, <2>2, <2>3, <3>1, <3>2
    <3>3. CASE q # p
      <4>1. /\ Cardinality(Auditing(q)') = Cardinality(Auditing(q))
            /\ Cardinality(Snapping(q)') = Cardinality(Snapping(q))
        BY <2>1, <2>2, <2>3, <3>3
      <4>. QED
        BY <1>0, <2>1, <2>2, <2>3, <3>1, <3>3, <4>1
    <3>. QED
      BY <3>2, <3>3
  <2>. QED
    BY <2>1, <2>2, <2>4 DEF CountInv
<1>7. ASSUME NEW c \in Refreshes, NEW p \in OpsPages,
             AuditSnapshot(c, p) \/ AuditSnapshotFails(c, p)
      PROVE  CountInv'
  <2>1. /\ UNCHANGED <<pc, page, writes, Recorded>>
        /\ p \in unaudited[c] /\ unaudited'[c] = unaudited[c] \ {p}
        /\ \A d \in Refreshes \ {c} : unaudited'[d] = unaudited[d]
    BY <1>7, RowCounts
    DEF AuditSnapshot, AuditSnapshotFails, requests, table, open, TypeOK
  <2>2. /\ \A q \in Pages \ {p} : Rows'[q] = Rows[q] /\ dropped'[q] = dropped[q]
        /\ Rows'[p] + dropped'[p] = Rows[p] + dropped[p] + 1
        /\ Rows'[p] \in Nat /\ dropped'[p] \in Nat
    <3>1. CASE AuditSnapshot(c, p)
      <4>1. Rows' = [Rows EXCEPT ![p] = @ + 1] /\ dropped' = dropped
        BY <3>1, RowCounts DEF AuditSnapshot
      <4>. QED
        BY <4>1, <1>0, RowCounts
    <3>2. CASE AuditSnapshotFails(c, p)
      <4>1. Rows' = Rows /\ dropped' = [dropped EXCEPT ![p] = @ + 1]
        BY <3>2, RowCounts DEF AuditSnapshotFails, table, open
      <4>. QED
        BY <4>1, <1>0 DEF TypeOK
    <3>. QED
      BY <1>7, <3>1, <3>2
  <2>3. /\ c \in Snapping(p) /\ Snapping(p)' = Snapping(p) \ {c}
        /\ \A q \in Pages \ {p} : Snapping(q)' = Snapping(q)
        /\ \A q \in Pages : Auditing(q)' = Auditing(q)
        /\ Updating' = Updating
    BY <2>1 DEF Snapping, Auditing, Updating
  <2>4. /\ Cardinality(Snapping(p)') \in Nat
        /\ Cardinality(Snapping(p)) = Cardinality(Snapping(p)') + 1
    BY <2>3, <1>0, CountRemoved
  <2>5. ASSUME NEW q \in Pages
        PROVE  writes'[q] = Rows'[q] + dropped'[q] + Cardinality(Auditing(q)')
                              + Cardinality(Snapping(q)')
    <3>1. writes[q] = Rows[q] + dropped[q] + Cardinality(Auditing(q))
                        + Cardinality(Snapping(q))
      BY DEF CountInv
    <3>2. CASE q = p
      <4>1. /\ Auditing(q)' = Auditing(p)' /\ Auditing(q) = Auditing(p)
            /\ Snapping(q)' = Snapping(p)' /\ Snapping(q) = Snapping(p)
        BY <3>2 DEF Auditing, Snapping
      <4>. QED
        BY <1>0, <4>1, <2>1, <2>2, <2>3, <2>4, <3>1, <3>2
    <3>3. CASE q # p
      <4>1. /\ Cardinality(Auditing(q)') = Cardinality(Auditing(q))
            /\ Cardinality(Snapping(q)') = Cardinality(Snapping(q))
        BY <2>1, <2>2, <2>3, <2>4, <3>3
      <4>. QED
        BY <1>0, <2>1, <2>2, <2>3, <2>4, <3>1, <3>3, <4>1
    <3>. QED
      BY <3>2, <3>3
  <2>. QED
    BY <2>1, <2>2, <2>3, <2>5 DEF CountInv
<1>8. ASSUME NEW c \in Refreshes, Die(c)
      PROVE  CountInv'
  <2>1. /\ UNCHANGED <<pc, page, writes, Rows, Recorded>>
        /\ unaudited'[c] = {} /\ unaudited[c] \subseteq OpsPages
        /\ \A d \in Refreshes \ {c} : unaudited'[d] = unaudited[d]
        /\ \A p \in Pages :
             dropped'[p] = IF p \in unaudited[c] THEN dropped[p] + 1 ELSE dropped[p]
    BY <1>8, RowCounts DEF Die, requests, table, open, TypeOK
  <2>2. /\ \A p \in Pages : Auditing(p)' = Auditing(p)
        /\ Updating' = Updating
    BY <2>1 DEF Auditing, Updating
  <2>3. ASSUME NEW p \in Pages
        PROVE  writes'[p] = Rows'[p] + dropped'[p] + Cardinality(Auditing(p)')
                              + Cardinality(Snapping(p)')
    <3>1. CASE p \in unaudited[c]
      <4>1. c \in Snapping(p) /\ Snapping(p)' = Snapping(p) \ {c}
        BY <2>1, <3>1 DEF Snapping
      <4>2. /\ Cardinality(Snapping(p)') \in Nat
            /\ Cardinality(Snapping(p)) = Cardinality(Snapping(p)') + 1
        BY <4>1, <1>0, CountRemoved
      <4>3. Cardinality(Auditing(p)') = Cardinality(Auditing(p))
        BY <2>2
      <4>4. writes[p] = Rows[p] + dropped[p] + Cardinality(Auditing(p))
                          + Cardinality(Snapping(p))
        BY DEF CountInv
      <4>5. /\ writes'[p] = writes[p] /\ Rows'[p] = Rows[p]
            /\ dropped'[p] = dropped[p] + 1
        BY <2>1, <3>1
      <4>. QED
        BY <1>0, <4>2, <4>3, <4>4, <4>5
    <3>2. CASE p \notin unaudited[c]
      <4>1. Snapping(p)' = Snapping(p)
        BY <2>1, <3>2 DEF Snapping
      <4>. QED
        BY <1>0, <2>1, <2>2, <3>2, <4>1 DEF CountInv
    <3>. QED
      BY <3>1, <3>2
  <2>. QED
    BY <2>1, <2>2, <2>3 DEF CountInv
<1>9. ASSUME NEW c \in Refreshes,
             refreshOperations(c) \/ collect(c) \/ \E p \in OpsPages : setSnapshotFails(c, p)
      PROVE  CountInv'
  <2>1. UNCHANGED <<pc, page, writes, Rows, dropped, Recorded, unaudited>>
    BY <1>9, RowCounts
    DEF refreshOperations, collect, setSnapshotFails, requests, table, open
  <2>2. /\ \A p \in Pages : Auditing(p)' = Auditing(p) /\ Snapping(p)' = Snapping(p)
        /\ Updating' = Updating
    BY <2>1 DEF Auditing, Snapping, Updating
  <2>. QED
    BY <2>1, <2>2, <1>1
<1>10. CASE UNCHANGED vars
  BY <1>10, <1>1, RowCounts
  DEF vars, table, open, requests, refresh, Auditing, Snapping, Updating
<1>11. ASSUME NEW r \in Requests, AuditPage(r) \/ AuditUpdate(r) \/ Fail(r)
       PROVE  CountInv'
  <2>1. pc[r] \in {"set", "audit", "update", "read"}
    BY <1>11 DEF AuditPage, AuditUpdate, Fail
  <2>2. CASE pc[r] = "audit"
    BY <1>11, <2>2, <1>4 DEF AuditUpdate
  <2>3. CASE pc[r] = "update"
    BY <1>11, <2>3, <1>5 DEF AuditPage
  <2>4. CASE pc[r] \in {"set", "read"}
    BY <1>11, <2>4, <1>2 DEF AuditPage, AuditUpdate
  <2>. QED
    BY <2>1, <2>2, <2>3, <2>4
<1>12. CASE (\E p \in Pages : EndAudit(p)) \/ EndUpdate
  <2>1. UNCHANGED <<pc, page, unaudited, writes, dropped>>
    BY <1>12 DEF EndAudit, EndUpdate, requests, refresh
  <2>2. /\ \A p \in Pages : Auditing(p)' = Auditing(p) /\ Snapping(p)' = Snapping(p)
        /\ Updating' = Updating
    BY <2>1 DEF Auditing, Snapping, Updating
  <2>3. Rows' = Rows /\ Recorded' \in Nat /\ Recorded' <= Recorded
    BY <1>12, EndCounts
  <2>. QED
    BY <1>0, <2>1, <2>2, <2>3 DEF CountInv
<1>. QED
  BY <1>2, <1>3, <1>6, <1>7, <1>8, <1>9, <1>10, <1>11, <1>12 DEF Next
------------------------------------------------------------------------------
(* The theorems *)

\* Base is an invariant of the specification: types, and what each await holds.
THEOREM Invariance == Spec => []Base
<1>1. Base /\ [Next]_vars => Base'
  BY NextType, NextHeld DEF Base
<1>. QED
  BY <1>1, InitBase, PTL DEF Spec

\* Every variable keeps its type.
THEOREM TypeCorrect == Spec => []TypeOK
<1>1. Base => TypeOK
  BY DEF Base
<1>. QED
  BY <1>1, Invariance, PTL

\* A setting reads as it was last set, unless a POST /emergency that had read the
\* page before wrote it after: the read and the merge of the handler are safe
\* whenever they are not overtaken.
THEOREM SettingsStay == Spec => []SettingsStayUnlessRaced
<1>1. SettingsInv => SettingsStayUnlessRaced
  BY DEF SettingsInv
<1>. QED
  BY <1>1, InitSettings, NextSettings, Invariance, PTL DEF Spec

\* No write of a page escapes its audit row but by a failure between the two, or by
\* the rollback of the transaction in which the row was inserted.
THEOREM PagesAreAudited == Spec => []WritesAreAudited
<1>1. ASSUME Base, CountInv
      PROVE  WritesAreAudited
  <2>1. /\ \A p \in Pages : Rows[p] = audits[p] + heldAudits[p] + undone[p]
        /\ "emergency" \in Pages
    BY DEF Rows, Pages
  <2>2. Recorded \in Nat /\ Rows \in [Pages -> Nat] /\ Cardinality(Updating) \in Nat
    BY <1>1, RowCounts, SetsAreFinite DEF Base
  <2>3. /\ Rows["emergency"] \in Nat
        /\ Recorded + Cardinality(Updating) <= Rows["emergency"]
    BY <1>1, <2>1, <2>2 DEF CountInv
  <2>4. updates + heldUpdates <= Rows["emergency"]
    BY <2>2, <2>3 DEF Recorded
  <2>. QED
    BY <1>1, <2>1, <2>4 DEF CountInv, WritesAreAudited, Snapping
<1>. QED
  BY <1>1, InitCounts, NextCounts, Invariance, PTL DEF Spec

\* The newest snapshot is what a page shows in the end, but for what operators put
\* there and for refreshes that were still storing when it was collected.
THEOREM PagesAreFresh == Spec => []FreshUnlessOverlapped
<1>1. Base /\ SnapshotInv => FreshUnlessOverlapped
  <2> SUFFICES ASSUME Base, SnapshotInv, NEW c \in Refreshes,
                      phase[c] = "storing", unwritten[c] = {},
                      \A d \in Refreshes : snapshot[d] <= snapshot[c],
                      NEW p \in OpsPages \ refused[c]
               PROVE  stored[p] \in {snapshot[c]} \cup Bodies
                                      \cup {snapshot[d] : d \in behind[c]}
    BY DEF FreshUnlessOverlapped
  <2>1. Shown(c, p)
    BY DEF SnapshotInv
  <2>2. \A d \in Refreshes : ~(snapshot[d] > snapshot[c])
    BY DEF Base, TypeOK
  <2>. QED
    BY <2>1, <2>2 DEF Shown
<1>. QED
  BY <1>1, InitSnapshots, NextSnapshots, Invariance, PTL DEF Spec
============================================================================
