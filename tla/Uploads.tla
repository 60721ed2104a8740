------------------------------ MODULE Uploads -------------------------------
(***************************************************************************)
(* One upload of the document service (services/document/src/              *)
(* upload-security.ts): the client puts the object through a signed URL,   *)
(* as often as it likes while the URL lives; inspectAndApprove reads it,   *)
(* checks it, copies it out of quarantine and queues its processing, and   *)
(* may be called again.  Storage, scanner and queue are ports, any of      *)
(* whose calls may fail, and the process may end between two of them.      *)
(***************************************************************************)
EXTENDS Naturals, FiniteSets

CONSTANTS
  Contents,     \* what clients put
  Accepted,     \* those of the size and the magic bytes announced, and no archive bomb
  Clean,        \* those the scanner and the content policy pass
  NoObject,     \* of a key without an object
  Inspections   \* calls of inspectAndApprove

ASSUME UploadsAssumption ==
  Accepted \subseteq Contents /\ Clean \subseteq Contents /\ NoObject \notin Contents

VARIABLES
  urlLive,     \* the signed URL's time is not over
  quarantine,  \* the object of the quarantine key
  approved,    \* the object of the approved key
  processing,  \* the bytes the queued job names by their sha256
  inspect,     \* the await each call is at
  bytes,       \* the bytes it has read
  deleted      \* history: the quarantined object was deleted

uploadVars == <<urlLive, quarantine, approved, processing, inspect, bytes, deleted>>

Objects == Contents \cup {NoObject}

UploadTypeOK ==
  /\ urlLive \in BOOLEAN
  /\ quarantine \in Objects
  /\ approved \in Objects
  /\ processing \in Objects
  /\ inspect \in [Inspections ->
       {"authorize", "get", "scan", "put", "delete", "enqueue", "done", "failed"}]
  /\ bytes \in [Inspections -> Objects]
  /\ deleted \in BOOLEAN

UploadInit ==
  /\ urlLive = TRUE
  /\ quarantine = NoObject
  /\ approved = NoObject
  /\ processing = NoObject
  /\ inspect = [i \in Inspections |-> "authorize"]
  /\ bytes = [i \in Inspections |-> NoObject]
  /\ deleted = FALSE

ToStep(i, step) == inspect' = [inspect EXCEPT ![i] = step]

ClientPuts(x) ==
  /\ urlLive
  /\ quarantine' = x
  /\ UNCHANGED <<urlLive, approved, processing, inspect, bytes, deleted>>

UrlExpires ==
  /\ urlLive
  /\ urlLive' = FALSE
  /\ UNCHANGED <<quarantine, approved, processing, inspect, bytes, deleted>>

\* validateDescriptor and authorize.
authorize(i) ==
  /\ inspect[i] = "authorize"
  /\ ToStep(i, "get")
  /\ UNCHANGED <<urlLive, quarantine, approved, processing, bytes, deleted>>

\* storage.get, and the checks that need no await.  A key without an object throws.
getObject(i) ==
  /\ inspect[i] = "get"
  /\ ToStep(i, IF quarantine \in Accepted THEN "scan" ELSE "failed")
  /\ bytes' = [bytes EXCEPT ![i] = quarantine]
  /\ UNCHANGED <<urlLive, quarantine, approved, processing, deleted>>

\* scan and contentPolicy.
scan(i) ==
  /\ inspect[i] = "scan"
  /\ ToStep(i, IF bytes[i] \in Clean THEN "put" ELSE "failed")
  /\ UNCHANGED <<urlLive, quarantine, approved, processing, bytes, deleted>>

\* Faulty variant: the object is copied as it is by now.
copyApproved(i) ==
  /\ inspect[i] = "put"
  /\ ToStep(i, "delete")
  /\ approved' = quarantine
  /\ UNCHANGED <<urlLive, quarantine, processing, bytes, deleted>>

\* storage.put of the bytes that were inspected.
putApproved(i) ==
  /\ inspect[i] = "put"
  /\ ToStep(i, "delete")
  /\ approved' = bytes[i]
  /\ UNCHANGED <<urlLive, quarantine, processing, bytes, deleted>>

deleteQuarantined(i) ==
  /\ inspect[i] = "delete"
  /\ ToStep(i, "enqueue")
  /\ quarantine' = NoObject
  /\ deleted' = TRUE
  /\ UNCHANGED <<urlLive, approved, processing, bytes>>

\* The job's key is the upload's: the queue keeps the first.
enqueueProcessing(i) ==
  /\ inspect[i] = "enqueue"
  /\ ToStep(i, "done")
  /\ processing' = IF processing = NoObject THEN bytes[i] ELSE processing
  /\ UNCHANGED <<urlLive, quarantine, approved, bytes, deleted>>

\* Faulty variant: a copy that fails is no reason to stop.
CopyIsOptional(i) ==
  /\ inspect[i] \in {"authorize", "get", "scan", "put", "delete", "enqueue"}
  /\ ToStep(i, IF inspect[i] = "put" THEN "delete" ELSE "failed")
  /\ UNCHANGED <<urlLive, quarantine, approved, processing, bytes, deleted>>

\* A port rejects, or the process ends.
InspectionFails(i) ==
  /\ inspect[i] \in {"authorize", "get", "scan", "put", "delete", "enqueue"}
  /\ ToStep(i, "failed")
  /\ UNCHANGED <<urlLive, quarantine, approved, processing, bytes, deleted>>

UploadNext ==
  \/ UrlExpires
  \/ \E x \in Contents : ClientPuts(x)
  \/ \E i \in Inspections :
       \/ authorize(i) \/ getObject(i) \/ scan(i) \/ putApproved(i)
       \/ deleteQuarantined(i) \/ enqueueProcessing(i) \/ InspectionFails(i)

UploadSpec == UploadInit /\ [][UploadNext]_uploadVars

\* What is approved, and what is processed, are bytes that passed every check,
\* whatever the client put between a check and the copy.
ApprovedPassedInspection ==
  {approved, processing} \subseteq (Accepted \cap Clean) \cup {NoObject}

\* The quarantined object goes only after its approved copy is there, and a call that
\* returned has left both the copy and a job behind.
UploadsAreKept ==
  /\ deleted => approved # NoObject
  /\ \A i \in Inspections :
       inspect[i] = "done" => approved # NoObject /\ processing # NoObject
=============================================================================
