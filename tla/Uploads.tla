------------------------------ MODULE Uploads -------------------------------
(***************************************************************************)
(* A movie file on its way from the Studio into storage: the upload        *)
(* manager of the desktop app, the media service that plans and closes     *)
(* uploads, the bucket, and the title's row the stored key is attached to. *)
(* Sizes are counted in parts.                                             *)
(***************************************************************************)
EXTENDS Integers, FiniteSets

CONSTANTS Uploads,     \* entries of the tray
          ObjectKeys,        \* object keys the media service may draw, also the upload ids
          Files,       \* files that may be picked: [kind, type, size]
          Types,       \* content types allowed for a kind of media
          MaxSize,     \* the cap of a kind, in parts
          Threshold,   \* size from which a film is sent in parts
          Bucket,      \* object storage is configured; otherwise the local disk
          Lanes,       \* parts sent at once
          MaxAttempts, \* attempts at one part
          MaxRetries,  \* bound: retries asked for in the tray
          MaxFaults,   \* bound: calls that fail or whose answer is lost
          NoValue

ASSUME UploadConstants ==
  /\ {Threshold, Lanes, MaxAttempts} \subseteq Nat \ {0}
  /\ {MaxRetries, MaxFaults} \subseteq Nat
  /\ \A f \in Files : f.size \in Nat \ {0} /\ f.kind \in DOMAIN Types
  /\ NoValue \notin ObjectKeys

VARIABLES upload,   \* the manager's items
          session,  \* multipart uploads at the bucket: closed, or the parts held
          object,   \* stored objects by size; 0 when there is none
          aborting, \* abort calls sent and not awaited
          leaked,   \* sessions whose opening or closing call failed
          row,      \* the title's row: a key for each kind of media
          attach,   \* requests to attach a key, between their read and their write
          retries, faults

uploadVars == <<upload, session, object, aborting, leaked, row, attach, retries, faults>>
budget == <<retries, faults>>

Closed == {0}
Absent == [status |-> "absent"]
Fresh == [status |-> "uploading", shown |-> TRUE, running |-> TRUE, step |-> "presign", key |-> NoValue,
          multipart |-> NoValue, verified |-> FALSE, part |-> <<>>, failed |-> FALSE]

Listed(u) == upload[u].status # "absent"
InTray(u) == Listed(u) /\ upload[u].shown
Drop(u) == upload[u].status = "cancelled"

UploadsInit ==
  /\ upload = [u \in Uploads |-> Absent]
  /\ session = [k \in ObjectKeys |-> Closed]
  /\ object = [k \in ObjectKeys |-> 0]
  /\ aborting = {} /\ leaked = {}
  /\ row = [kind \in DOMAIN Types |-> NoValue]
  /\ attach = [u \in Uploads |-> NoValue]
  /\ retries = 0 /\ faults = 0

-----------------------------------------------------------------------------
(* Media service: presignUpload.                                           *)

Film(f) == f.kind \in {"video", "trailer"}

PlanFor(f) ==
  IF f.type \notin Types[f.kind] \/ f.size > MaxSize[f.kind] THEN "refused"
  ELSE IF Bucket /\ Film(f) /\ f.size >= Threshold THEN "parts" ELSE "whole"

\* randomUUID: a key is drawn once.
Unused(k) == /\ object[k] = 0 /\ session[k] = Closed /\ k \notin leaked
             /\ \A u \in Uploads : Listed(u) => upload[u].key # k

Set(u, fields) ==
  [upload EXCEPT ![u] = [x \in DOMAIN @ |-> IF x \in DOMAIN fields THEN fields[x] ELSE @[x]]]

Ended(u, fields) ==
  Set(u, [x \in {"running", "step"} \cup DOMAIN fields |->
            CASE x = "running" -> FALSE [] x = "step" -> "ended" [] OTHER -> fields[x]])

\* The catch of start: a cancelled item is left as it is; an open multipart upload is
\* aborted, and awaited, before the item becomes an error.
Catch(u) ==
  IF Drop(u) THEN Ended(u, <<>>)
  ELSE IF upload[u].multipart # NoValue THEN Set(u, [step |-> "clean", multipart |-> NoValue])
  ELSE Ended(u, [status |-> "error"])

Fault == faults < MaxFaults /\ faults' = faults + 1

-----------------------------------------------------------------------------
(* The tray.                                                               *)

\* enqueue and the first steps of start, which run at once.
enqueue(u) ==
  /\ ~Listed(u)
  /\ \E f \in Files :
       upload' = [upload EXCEPT ![u] =
         [x \in DOMAIN Fresh \cup {"file"} |-> IF x = "file" THEN f ELSE Fresh[x]]]
  /\ UNCHANGED <<session, object, aborting, leaked, row, attach, budget>>

\* Requests in flight are aborted; a stored key that is being attached is not recalled.
cancel(u) ==
  /\ InTray(u) /\ upload[u].status = "uploading"
  /\ LET k == upload[u].multipart
     IN  /\ upload' = Set(u, [status |-> "cancelled", multipart |-> NoValue])
         /\ aborting' = aborting \cup (IF k = NoValue THEN {} ELSE {k})
  /\ UNCHANGED <<session, object, leaked, row, attach, budget>>

\* Bytes that were verified are not sent again.
retry(u) ==
  /\ InTray(u) /\ ~upload[u].running /\ retries < MaxRetries
  /\ upload[u].status \in {"error", "cancelled"}
  /\ upload' = Set(u, [status |-> "uploading", running |-> TRUE, multipart |-> NoValue,
                       failed |-> FALSE, part |-> <<>>,
                       step |-> IF upload[u].verified THEN "attach" ELSE "presign"])
  /\ retries' = retries + 1
  /\ UNCHANGED <<session, object, aborting, leaked, row, attach, faults>>

\* Also clearFinished.  What start still awaits goes on with the entry gone.
dismiss(u) ==
  /\ InTray(u) /\ upload[u].status \in {"done", "error", "cancelled"}
  /\ upload' = Set(u, [shown |-> FALSE])
  /\ UNCHANGED <<session, object, aborting, leaked, row, attach, budget>>

-----------------------------------------------------------------------------
(* start, step by step.                                                    *)

At(u, step) == Listed(u) /\ upload[u].running /\ upload[u].step = step

PresignRefused(u) ==
  /\ At(u, "presign") /\ PlanFor(upload[u].file) = "refused"
  /\ upload' = Catch(u)
  /\ UNCHANGED <<session, object, aborting, leaked, row, attach, budget>>

\* The answer never arrives: the session, if one was opened, has no owner.
PresignLost(u) ==
  /\ At(u, "presign") /\ Fault
  /\ upload' = Catch(u)
  /\ IF PlanFor(upload[u].file) = "parts"
     THEN \E k \in ObjectKeys : /\ Unused(k)
                          /\ session' = [session EXCEPT ![k] = {}]
                          /\ leaked' = leaked \cup {k}
     ELSE UNCHANGED <<session, leaked>>
  /\ UNCHANGED <<object, aborting, row, attach, retries>>

\* Mutant: an upload cancelled while it was being planned is dropped without a word.
PresignPartsForgets(u) ==
  /\ At(u, "presign") /\ PlanFor(upload[u].file) = "parts"
  /\ \E k \in ObjectKeys :
       /\ Unused(k)
       /\ session' = [session EXCEPT ![k] = {}]
       /\ upload' = IF Drop(u) THEN Ended(u, <<>>)
                    ELSE Set(u, [step |-> "parts", key |-> k, multipart |-> k,
                                 part |-> [n \in 1..upload[u].file.size |->
                                             [state |-> "todo", attempts |-> 0]]])
  /\ UNCHANGED <<object, aborting, leaked, row, attach, budget>>

PresignParts(u) ==
  /\ At(u, "presign") /\ PlanFor(upload[u].file) = "parts"
  /\ \E k \in ObjectKeys :
       /\ Unused(k)
       /\ session' = [session EXCEPT ![k] = {}]
       /\ upload' = IF Drop(u) THEN Set(u, [step |-> "clean", key |-> k])
                    ELSE Set(u, [step |-> "parts", key |-> k, multipart |-> k,
                                 part |-> [n \in 1..upload[u].file.size |->
                                             [state |-> "todo", attempts |-> 0]]])
  /\ UNCHANGED <<object, aborting, leaked, row, attach, budget>>

PresignWhole(u) ==
  /\ At(u, "presign") /\ PlanFor(upload[u].file) = "whole"
  /\ \E k \in ObjectKeys :
       /\ Unused(k)
       /\ upload' = IF Drop(u) THEN Ended(u, <<>>) ELSE Set(u, [step |-> "put", key |-> k])
  /\ UNCHANGED <<session, object, aborting, leaked, row, attach, budget>>

\* The abort that start itself awaits: after a cancel during the presign its failure
\* reaches the catch; in the catch it is swallowed, and the item becomes an error
\* even when it was cancelled meanwhile.
Cleaned(u, ok) ==
  /\ At(u, "clean")
  /\ ok \/ Fault
  /\ session' = IF ok THEN [session EXCEPT ![upload[u].key] = Closed] ELSE session
  /\ leaked' = IF ok \/ session[upload[u].key] = Closed THEN leaked
               ELSE leaked \cup {upload[u].key}
  /\ upload' = IF upload[u].part = <<>> THEN Ended(u, <<>>) ELSE Ended(u, [status |-> "error"])
  /\ (ok => faults' = faults)
  /\ UNCHANGED <<object, aborting, row, attach, retries>>

\* An abort nobody waits for.
Aborted(k, ok) ==
  /\ k \in aborting
  /\ ok \/ Fault
  /\ aborting' = aborting \ {k}
  /\ session' = IF ok THEN [session EXCEPT ![k] = Closed] ELSE session
  /\ leaked' = IF ok \/ session[k] = Closed THEN leaked ELSE leaked \cup {k}
  /\ (ok => faults' = faults)
  /\ UNCHANGED <<upload, object, row, attach, retries>>

-----------------------------------------------------------------------------
(* multipartPut: workers take parts in order and send each up to           *)
(* MaxAttempts times.                                                      *)

PartsIn(u, states) == {n \in DOMAIN upload[u].part : upload[u].part[n].state \in states}
Stopped(u) == upload[u].failed \/ Drop(u)

SendPart(u) ==
  /\ At(u, "parts") /\ ~Stopped(u)
  /\ Cardinality(PartsIn(u, {"sending", "pausing"})) < Lanes
  /\ \E n \in PartsIn(u, {"todo"}) :
       /\ \A m \in PartsIn(u, {"todo"}) : n <= m
       /\ upload' = [upload EXCEPT ![u].part[n] = [state |-> "sending", attempts |-> 1]]
  /\ UNCHANGED <<session, object, aborting, leaked, row, attach, budget>>

PartStored(u, n) ==
  /\ At(u, "parts") /\ n \in PartsIn(u, {"sending"}) /\ ~Stopped(u)
  /\ session[upload[u].key] # Closed
  /\ session' = [session EXCEPT ![upload[u].key] = @ \cup {n}]
  /\ upload' = [upload EXCEPT ![u].part[n].state = "sent"]
  /\ UNCHANGED <<object, aborting, leaked, row, attach, budget>>

\* The third failure fails the upload and aborts its other requests.
PartFails(u, n) ==
  /\ At(u, "parts") /\ n \in PartsIn(u, {"sending"}) /\ ~Stopped(u)
  /\ Fault
  /\ upload' =
       IF upload[u].part[n].attempts = MaxAttempts
       THEN [upload EXCEPT ![u].failed = TRUE, ![u].part[n].state = "dropped"]
       ELSE [upload EXCEPT ![u].part[n].state = "pausing"]
  /\ UNCHANGED <<session, object, aborting, leaked, row, attach, retries>>

PartAgain(u, n) ==
  /\ At(u, "parts") /\ n \in PartsIn(u, {"pausing"}) /\ ~Stopped(u)
  /\ upload' = [upload EXCEPT ![u].part[n] = [state |-> "sending", attempts |-> @.attempts + 1]]
  /\ UNCHANGED <<session, object, aborting, leaked, row, attach, budget>>

\* A request that is aborted, or a pause that ends, after the upload was stopped; the
\* bytes of an aborted request may have reached the bucket.
PartDropped(u, n) ==
  /\ At(u, "parts") /\ n \in PartsIn(u, {"sending", "pausing"}) /\ Stopped(u)
  /\ upload' = [upload EXCEPT ![u].part[n].state = "dropped"]
  /\ \/ UNCHANGED session
     \/ /\ upload[u].part[n].state = "sending" /\ session[upload[u].key] # Closed
        /\ session' = [session EXCEPT ![upload[u].key] = @ \cup {n}]
  /\ UNCHANGED <<object, aborting, leaked, row, attach, budget>>

\* Promise.all of the workers.
PartsEnd(u) ==
  /\ At(u, "parts") /\ PartsIn(u, {"sending", "pausing"}) = {}
  /\ Stopped(u) \/ PartsIn(u, {"todo"}) = {}
  /\ upload' = IF Stopped(u) THEN Catch(u) ELSE Set(u, [step |-> "complete"])
  /\ UNCHANGED <<session, object, aborting, leaked, row, attach, budget>>

\* completeMultipartUpload: the object is what the listed parts hold.  The answer may
\* be lost after the bucket has assembled it.
Complete(u, ok) ==
  /\ At(u, "complete")
  /\ LET k == upload[u].key
         listed == PartsIn(u, {"sent"})
         valid == session[k] # Closed /\ listed # {}
         next == IF Drop(u) THEN Ended(u, <<>>)
                 ELSE Set(u, [step |-> "stat", multipart |-> NoValue])
     IN  /\ \/ ok /\ valid /\ upload' = next /\ UNCHANGED faults
            \/ (~ok \/ ~valid) /\ upload' = Catch(u) /\ (IF ok THEN UNCHANGED faults ELSE Fault)
         /\ \/ /\ valid
               /\ object' = [object EXCEPT ![k] = Cardinality(listed)]
               /\ session' = [session EXCEPT ![k] = Closed]
            \/ (~ok \/ ~valid) /\ UNCHANGED <<object, session>>
  /\ UNCHANGED <<aborting, leaked, row, attach, retries>>

-----------------------------------------------------------------------------
(* A single PUT: to the bucket, or through saveLocal to the disk, which    *)
(* removes the file of a request that breaks off.                          *)

PutDone(u) ==
  /\ At(u, "put") /\ ~Drop(u)
  /\ object' = [object EXCEPT ![upload[u].key] = upload[u].file.size]
  /\ upload' = Set(u, [step |-> "stat"])
  /\ UNCHANGED <<session, aborting, leaked, row, attach, budget>>

PutFails(u) ==
  /\ At(u, "put")
  /\ IF Drop(u) THEN UNCHANGED faults ELSE Fault
  /\ \/ UNCHANGED object
     \/ object' = [object EXCEPT ![upload[u].key] = upload[u].file.size]
  /\ upload' = Catch(u)
  /\ UNCHANGED <<session, aborting, leaked, row, attach, retries>>

\* uploadStat: an object of another size is not attached.
Stat(u) ==
  /\ At(u, "stat")
  /\ upload' = IF Drop(u) THEN Ended(u, <<>>)
               ELSE IF object[upload[u].key] = upload[u].file.size
                    THEN Set(u, [step |-> "attach", verified |-> TRUE])
                    ELSE Catch(u)
  /\ UNCHANGED <<session, object, aborting, leaked, row, attach, budget>>

-----------------------------------------------------------------------------
(* onAttached: PATCH of the title, which reads its row and writes it back  *)
(* whole.                                                                  *)

ReadForAttach(u) ==
  /\ At(u, "attach")
  /\ attach' = [attach EXCEPT ![u] = row]
  /\ upload' = Set(u, [step |-> "attaching"])
  /\ UNCHANGED <<session, object, aborting, leaked, row, budget>>

Attach(u, ok) ==
  /\ At(u, "attaching")
  /\ ok \/ Fault
  /\ row' \in {[attach[u] EXCEPT ![upload[u].file.kind] = upload[u].key]} \cup (IF ok THEN {} ELSE {row})
  /\ attach' = [attach EXCEPT ![u] = NoValue]
  /\ upload' = IF ok /\ ~Drop(u) THEN Ended(u, [status |-> "done"])
               ELSE IF ok THEN Ended(u, <<>>) ELSE Catch(u)
  /\ (ok => faults' = faults)
  /\ UNCHANGED <<session, object, aborting, leaked, retries>>

UploadsNext ==
  \/ \E u \in Uploads :
       \/ enqueue(u) \/ cancel(u) \/ retry(u) \/ dismiss(u)
       \/ PresignRefused(u) \/ PresignLost(u) \/ PresignParts(u) \/ PresignWhole(u)
       \/ SendPart(u) \/ PartsEnd(u)
       \/ \E n \in 1..(IF Listed(u) THEN upload[u].file.size ELSE 0) :
            PartStored(u, n) \/ PartFails(u, n) \/ PartAgain(u, n) \/ PartDropped(u, n)
       \/ PutDone(u) \/ PutFails(u) \/ Stat(u)
       \/ ReadForAttach(u)
       \/ \E ok \in BOOLEAN : Cleaned(u, ok) \/ Complete(u, ok) \/ Attach(u, ok)
  \/ \E k \in ObjectKeys, ok \in BOOLEAN : Aborted(k, ok)

UploadsSpec == UploadsInit /\ [][UploadsNext]_uploadVars

-----------------------------------------------------------------------------
\* Only a whole file is ever attached: whatever is lost, retried or cancelled on the
\* way, what the title refers to is an object of the size of the file it was made from
\* (uploads.ts: "Storage verification failed").
AttachedIsWhole ==
  \A u \in Uploads :
    (Listed(u) /\ upload[u].key # NoValue /\ row[upload[u].file.kind] = upload[u].key) =>
      object[upload[u].key] = upload[u].file.size

\* No multipart upload is left open and paid for: one that is open belongs to a running
\* upload, or an abort for it is on its way, unless the call that would have closed it,
\* or the answer that named it, was lost (start, cancel, abortMultipartUpload).
SessionsAreClosed ==
  \A k \in ObjectKeys :
    session[k] # Closed =>
      \/ k \in aborting \cup leaked
      \/ \E u \in Uploads : Listed(u) /\ upload[u].running /\ upload[u].key = k

\* "uploads three parts concurrently, verifies storage and attaches before done"
\* (uploads.test.mjs): a file the tray shows as done is on the title, until another of
\* its kind is.
DoneIsAttached ==
  \A u \in Uploads :
    (Listed(u) /\ upload[u].status = "done") =>
      \E v \in Uploads : /\ Listed(v) /\ upload[v].file.kind = upload[u].file.kind
                         /\ row[upload[u].file.kind] = upload[v].key

\* Only a whole file is ever attached, and nothing the tray opened in object storage is
\* left open and paid for (uploads.ts, start, cancel, retry).
UploadsAreWhole == AttachedIsWhole /\ SessionsAreClosed

=============================================================================
