-------------------------- MODULE AtomicActivation --------------------------
(***************************************************************************)
(* What activateConfigVersion is meant to be: a request asks for a version *)
(* and that version becomes the active one, in a single step or never;     *)
(* afterwards the request has its audit row.  Other handlers have rows as  *)
(* well.                                                                   *)
(***************************************************************************)
CONSTANTS Versions, NoVersion, Requests, Writers

VARIABLES
  active,   \* the versions that are active
  version,  \* what each request asked for
  applied,  \* requests that took effect
  rows      \* users whose row is there

vars == <<active, version, applied, rows>>

Init ==
  /\ \E v \in Versions : active = {v}
  /\ version = [u \in Requests \cup Writers |-> NoVersion]
  /\ applied = {} /\ rows = {}

Ask(r, v) ==
  /\ version[r] = NoVersion /\ r \notin applied
  /\ version' = [version EXCEPT ![r] = v]
  /\ UNCHANGED <<active, applied, rows>>

\* The version asked for, if there is one, replaces whatever is active.
Activate(r) ==
  /\ r \notin applied /\ version[r] \in Versions
  /\ active' = {version[r]}
  /\ applied' = applied \cup {r}
  /\ UNCHANGED <<version, rows>>

Record(u) ==
  /\ u \notin rows /\ (u \in Requests => u \in applied)
  /\ rows' = rows \cup {u}
  /\ UNCHANGED <<active, version, applied>>

Next ==
  \/ \E r \in Requests : Activate(r) \/ \E v \in Versions \cup {NoVersion} : Ask(r, v)
  \/ \E u \in Requests \cup Writers : Record(u)

Spec == Init /\ [][Next]_vars
=============================================================================
