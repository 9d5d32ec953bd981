--------------------------- MODULE FileLifecycle ---------------------------
(***************************************************************************)
(* The life of a file in file-service: uploaded, scanned, digested,        *)
(* downloaded, marked for deletion and erased.                             *)
(*                                                                         *)
(* A file is a Mongo document and a blob, changed one after the other by   *)
(* request handlers and by the jobs of the file-service-work queue, which  *)
(* carries the service's own domain events.  Each of them reads the        *)
(* document once, goes on with the entity it read while the others write,  *)
(* and saves single fields with an upsert.                                 *)
(*                                                                         *)
(* The queue is the abstract one that WorkQueue implements as long as no   *)
(* connection is lost under a live process (WorkQueueProofs).              *)
(***************************************************************************)
EXTENDS Integers

CONSTANTS
    Files,        \* files clients upload; also names their file-uploaded event
    Requests,     \* deletions of a file; also names their file-deleted event
    Target,       \* the file each deletion is for
    MaxCrashes    \* bound: jobs that end with their pod over a behaviour

Events == Files \cup Requests

ASSUME EventsAssumption == Files \cap Requests = {}
ASSUME TargetAssumption == Target \in [Requests -> Files]
ASSUME BoundsAssumption == MaxCrashes \in Nat

VARIABLES
    doc,          \* the fields that are present or true in each file's document
    blob,         \* files whose content the storage holds
    tainted,      \* files whose content the scanner finds infected
    upload,       \* how far each upload has come
    request,      \* how far each deletion has come
    item, succeeded, failures,   \* the work queue
    job,          \* what the handler of each event is waiting for
    digests,      \* digest jobs under way, and what they wait for
    reading,      \* downloads under way, and whether they asked for unsafe ones
    early,        \* history: files deleted by a client that found them listed
                  \* before they were uploaded
    served,       \* history: files delivered to a download that is not unsafe
    crashes       \* jobs that ended with their pod so far

queueVars   == <<item, succeeded, failures>>
requestVars == <<upload, request, reading, early, served>>
storageVars == <<blob, tainted>>
vars == <<doc, storageVars, requestVars, queueVars, job, digests, crashes>>

Queue == INSTANCE AtLeastOnce WITH Items <- Events, Unparseable <- {}

(* "id" stands for the key, "owner" for the fields an upload sets (tenant, *)
(* type, name, creator), without which the repository finds no document.   *)
Field == {"id", "owner", "deleted", "scanned", "infected", "digest"}

TypeOK ==
    /\ doc \in [Files -> SUBSET Field]
    /\ \A f \in Files : doc[f] # {} => "id" \in doc[f]
    /\ blob \subseteq Files
    /\ tainted \subseteq Files
    /\ upload \in [Files -> {"none", "saved", "stored", "sized", "finished",
                             "failing", "removing", "failed"}]
    /\ request \in [Requests -> {"none", "found", "marked", "finished"}]
    /\ item \in [Events -> {"unsent", "lost", "accepted", "retried", "acked", "dead"}]
    /\ succeeded \subseteq Events
    /\ failures \in [Events -> 0..2]
    /\ job \in [Events -> {"idle", "scanning", "opened", "scanned",
                           "erasing", "erased", "removed"}]
    /\ digests \subseteq Files \X {"get", "open", "write"}
    /\ reading \subseteq Files \X {"safe", "unsafe"}
    /\ early \cup served \subseteq Files
    /\ crashes \in 0..MaxCrashes

Init ==
    /\ doc = [f \in Files |-> {}]
    /\ blob = {}
    /\ tainted = {}
    /\ upload = [f \in Files |-> "none"]
    /\ request = [r \in Requests |-> "none"]
    /\ Queue!Init
    /\ job = [e \in Events |-> "idle"]
    /\ digests = {}
    /\ reading = {}
    /\ early = {} /\ served = {}
    /\ crashes = 0

----------------------------------------------------------------------------
(* The repository and the storage.                                         *)

(* get(id) finds a document that has an owner.                             *)
Found(f) == "owner" \in doc[f]

(* The entity may be read: readFile() on what get(id) found.               *)
Readable(f) == Found(f) /\ doc[f] \cap {"deleted", "infected"} = {}

(* Mutant: a partial save writes the rest of the entity it read as well.   *)
SaveEntity(f, entity, fields) ==
    doc' = [doc EXCEPT ![f] = {"id", "owner"} \cup (entity \cap fields)]

(* save(entity, update) writes the fields of the update, and inserts a     *)
(* document of just those fields where there is none any more.             *)
Save(f, entity, fields) ==
    doc' = [doc EXCEPT ![f] = {"id"} \cup (@ \ fields) \cup (entity \cap fields)]

(* A saved lastAccessed or size: only the upsert matters here.             *)
Touch(f) == Save(f, {}, {})

(* Mutant: a blob the storage failed to delete is taken for deleted.       *)
EraseContentUnchecked(f) == UNCHANGED blob

EraseContent(f) == blob' = blob \ {f}

EraseRecord(f) == doc' = [doc EXCEPT ![f] = {}]

----------------------------------------------------------------------------
(* Upload (POST /files), and copy, whose content comes from another blob:  *)
(* the document is saved, the content stored, its size saved, the event    *)
(* sent.                                                                   *)

UploadStep(f, from, to) ==
    /\ upload[f] \in from
    /\ upload' = [upload EXCEPT ![f] = to]
    /\ UNCHANGED <<request, reading, early, served, job, digests, crashes>>

SaveRecord(f) ==
    /\ UploadStep(f, {"none"}, "saved")
    /\ doc' = [doc EXCEPT ![f] = {"id", "owner"}]
    /\ UNCHANGED <<storageVars, queueVars>>

StoreContent(f) ==
    /\ UploadStep(f, {"saved"}, "stored")
    /\ blob' = blob \cup {f}
    /\ tainted' \in {tainted, tainted \cup {f}}
    /\ UNCHANGED <<doc, queueVars>>

SaveSize(f) ==
    /\ UploadStep(f, {"stored"}, "sized")
    /\ Touch(f)
    /\ UNCHANGED <<storageVars, queueVars>>

(* The response is written and the event sent, which may get lost on its   *)
(* way through event-service.                                              *)
SendUploaded(f) ==
    /\ UploadStep(f, {"sized"}, "finished")
    /\ Queue!Accept(f)
    /\ UNCHANGED <<doc, storageVars>>

(* Storing fails, or the upload is aborted: delete(true).                  *)
UploadFails(f) ==
    /\ UploadStep(f, {"saved", "stored", "sized"}, "failing")
    /\ UNCHANGED <<doc, storageVars, queueVars>>

UndoContent(f) ==
    /\ UploadStep(f, {"failing"}, "removing")
    /\ EraseContent(f)
    /\ UNCHANGED <<doc, tainted, queueVars>>

UndoRecord(f) ==
    /\ UploadStep(f, {"removing"}, "failed")
    /\ EraseRecord(f)
    /\ UNCHANGED <<storageVars, queueVars>>

Upload(f) ==
    \/ SaveRecord(f) \/ StoreContent(f) \/ SaveSize(f) \/ SendUploaded(f)
    \/ UploadFails(f) \/ UndoContent(f) \/ UndoRecord(f)

----------------------------------------------------------------------------
(* Deletion (DELETE /files/:fileId, and the daily retention job, which     *)
(* leaves out documents that are marked already).                          *)

FindForDeletion(r) ==
    /\ request[r] = "none"
    /\ Found(Target[r])
    /\ request' = [request EXCEPT ![r] = "found"]
    /\ early' = IF upload[Target[r]] = "finished" THEN early ELSE early \cup {Target[r]}
    /\ UNCHANGED <<doc, storageVars, upload, reading, served, queueVars, job, digests, crashes>>

MarkForDeletion(r) ==
    /\ request[r] = "found"
    /\ request' = [request EXCEPT ![r] = "marked"]
    /\ Save(Target[r], {"deleted"}, {"deleted"})
    /\ UNCHANGED <<storageVars, upload, reading, early, served, queueVars, job, digests, crashes>>

SendDeleted(r) ==
    /\ request[r] = "marked"
    /\ request' = [request EXCEPT ![r] = "finished"]
    /\ Queue!Accept(r)
    /\ UNCHANGED <<doc, storageVars, upload, reading, early, served, job, digests, crashes>>

Delete(r) == FindForDeletion(r) \/ MarkForDeletion(r) \/ SendDeleted(r)

----------------------------------------------------------------------------
(* Download (GET /files/:fileId/download).                                 *)

FindForDownload(f, mode) ==
    /\ Readable(f)
    /\ mode = "safe" => "scanned" \in doc[f]
    /\ reading' = reading \cup {<<f, mode>>}
    /\ UNCHANGED <<doc, storageVars, upload, request, early, served, queueVars, job, digests,
                   crashes>>

(* The stream is opened and lastAccessed saved; without a blob it fails.   *)
OpenDownload(f, mode) ==
    /\ <<f, mode>> \in reading
    /\ reading' = reading \ {<<f, mode>>}
    /\ IF f \in blob
       THEN /\ Touch(f)
            /\ served' = IF mode = "safe" THEN served \cup {f} ELSE served
       ELSE UNCHANGED <<doc, served>>
    /\ UNCHANGED <<storageVars, upload, request, early, queueVars, job, digests, crashes>>

Download(f) ==
    \E mode \in {"safe", "unsafe"} : FindForDownload(f, mode) \/ OpenDownload(f, mode)

----------------------------------------------------------------------------
(* The queue's jobs.  An accepted or retried item has one handler at most. *)

CanTake(e) == job[e] = "idle" /\ item[e] \in Queue!Accepted

JobStep(e, from, to) ==
    /\ job[e] = from
    /\ job' = [job EXCEPT ![e] = to]

(* done().                                                                 *)
JobDone(e) ==
    /\ job' = [job EXCEPT ![e] = "idle"]
    /\ Queue!Complete(e)

(* Mutant: every failure is requeued.                                      *)
JobRequeued(e) ==
    /\ job' = [job EXCEPT ![e] = "idle"]
    /\ item' = [item EXCEPT ![e] = "retried"]
    /\ failures' = [failures EXCEPT ![e] = @ + 1]
    /\ UNCHANGED succeeded

(* done(err).                                                              *)
JobFailed(e) ==
    /\ job' = [job EXCEPT ![e] = "idle"]
    /\ Queue!Retry(e) \/ Queue!GiveUp(e)

(* The handler of file-uploaded starts a digest job, whose outcome the     *)
(* queue does not hear of, and scans the file unless it is gone or marked. *)
TakeUploaded(f) ==
    /\ CanTake(f)
    /\ digests' = digests \cup {<<f, "get">>}
    /\ \/ /\ Readable(f)
          /\ JobStep(f, "idle", "scanning")
          /\ UNCHANGED queueVars
       \/ /\ Found(f) /\ "deleted" \notin doc[f] /\ "infected" \in doc[f]
          /\ JobFailed(f)
       \/ /\ ~Found(f) \/ "deleted" \in doc[f]
          /\ JobDone(f)
    /\ UNCHANGED <<doc, storageVars, requestVars, crashes>>

(* The scanner reads the content, which saves lastAccessed.                *)
OpenForScan(f) ==
    /\ f \in blob
    /\ JobStep(f, "scanning", "opened")
    /\ Touch(f)
    /\ UNCHANGED <<storageVars, requestVars, queueVars, digests, crashes>>

Verdict(f) == IF f \in tainted THEN {"scanned", "infected"} ELSE {"scanned"}

(* Mutant: the verdict is saved without the infection it found.            *)
UpdateScannedOnly(f) == Save(f, Verdict(f), {"scanned"})

(* updateScanResult on an entity that was not infected when it was read.   *)
UpdateScanResult(f) == Save(f, Verdict(f), {"scanned", "infected"})

SaveVerdict(f) ==
    /\ JobStep(f, "opened", "scanned")
    /\ UpdateScanResult(f)
    /\ UNCHANGED <<storageVars, requestVars, queueVars, digests, crashes>>

ScanDone(f) ==
    /\ job[f] = "scanned"
    /\ JobDone(f)
    /\ UNCHANGED <<doc, storageVars, requestVars, digests, crashes>>

(* Mutant: the job returns without done() when there is no document.       *)
TakeDeletedSilent(r) ==
    /\ CanTake(r)
    /\ Found(Target[r])
    /\ IF "deleted" \in doc[Target[r]]
       THEN JobStep(r, "idle", "erasing") /\ UNCHANGED queueVars
       ELSE JobFailed(r)
    /\ UNCHANGED <<doc, storageVars, requestVars, digests, crashes>>

(* The handler of file-deleted: the document has to be marked.             *)
TakeDeleted(r) ==
    /\ CanTake(r)
    /\ LET f == Target[r] IN
        \/ /\ Found(f) /\ "deleted" \in doc[f]
           /\ JobStep(r, "idle", "erasing")
           /\ UNCHANGED queueVars
        \/ /\ Found(f) /\ "deleted" \notin doc[f]
           /\ JobFailed(r)
        \/ /\ ~Found(f)
           /\ JobDone(r)
    /\ UNCHANGED <<doc, storageVars, requestVars, digests, crashes>>

(* Mutant: the record is deleted before the content.                       *)
EraseRecordFirst(r) ==
    /\ \/ /\ JobStep(r, "erasing", "erased")
          /\ EraseRecord(Target[r])
          /\ UNCHANGED blob
       \/ /\ JobStep(r, "erased", "removed")
          /\ EraseContent(Target[r])
          /\ UNCHANGED doc
    /\ UNCHANGED <<tainted, requestVars, queueVars, digests, crashes>>

(* delete(): the content, then the record.                                 *)
Erase(r) ==
    /\ \/ /\ JobStep(r, "erasing", "erased")
          /\ EraseContent(Target[r])
          /\ UNCHANGED doc
       \/ /\ JobStep(r, "erased", "removed")
          /\ EraseRecord(Target[r])
          /\ UNCHANGED blob
    /\ UNCHANGED <<tainted, requestVars, queueVars, digests, crashes>>

DeleteDone(r) ==
    /\ job[r] = "removed"
    /\ JobDone(r)
    /\ UNCHANGED <<doc, storageVars, requestVars, digests, crashes>>

(* The repository, the storage or the scanner fails a job, perhaps in the  *)
(* answer to a write that was done.                                        *)
JobFails(e) ==
    /\ job[e] # "idle"
    /\ JobFailed(e)
    /\ UNCHANGED <<doc, storageVars, requestVars, digests, crashes>>

(* The pod of a job dies and the item is redelivered.                      *)
JobDies(e) ==
    /\ job[e] # "idle"
    /\ crashes < MaxCrashes
    /\ crashes' = crashes + 1
    /\ job' = [job EXCEPT ![e] = "idle"]
    /\ Queue!Interrupt(e) \/ (item[e] = "retried" /\ UNCHANGED queueVars)
    /\ UNCHANGED <<doc, storageVars, requestVars, digests>>

Work(e) ==
    \/ e \in Files /\ (TakeUploaded(e) \/ OpenForScan(e) \/ SaveVerdict(e) \/ ScanDone(e))
    \/ e \in Requests /\ (TakeDeleted(e) \/ Erase(e) \/ DeleteDone(e))
    \/ JobFails(e)

----------------------------------------------------------------------------
(* The digest job, which goes on whatever the queue makes of its item.     *)

DigestStep(f, from, to) ==
    /\ <<f, from>> \in digests
    /\ digests' = (digests \ {<<f, from>>}) \cup to
    /\ UNCHANGED <<storageVars, requestVars, job, crashes>>

(* Mutant: the digest job is given the done callback of the scan job.      *)
DigestCallsDone(f) ==
    /\ DigestStep(f, "write", {})
    /\ Save(f, {"digest"}, {"digest"})
    /\ IF item[f] \in Queue!Accepted THEN Queue!Complete(f) ELSE UNCHANGED queueVars

DigestGet(f) ==
    /\ Readable(f) /\ "digest" \notin doc[f]
    /\ DigestStep(f, "get", {<<f, "open">>})
    /\ UNCHANGED <<doc, queueVars>>

DigestOpen(f) ==
    /\ f \in blob
    /\ DigestStep(f, "open", {<<f, "write">>})
    /\ Touch(f)
    /\ UNCHANGED queueVars

DigestWrite(f) ==
    /\ DigestStep(f, "write", {})
    /\ Save(f, {"digest"}, {"digest"})
    /\ UNCHANGED queueVars

(* There is nothing to do, a step fails, or the pod dies: no one retries.  *)
DigestEnds(f) ==
    /\ \E from \in {"get", "open", "write"} : DigestStep(f, from, {})
    /\ UNCHANGED <<doc, queueVars>>

Digest(f) == DigestGet(f) \/ DigestOpen(f) \/ DigestWrite(f) \/ DigestEnds(f)

----------------------------------------------------------------------------

Next ==
    \/ \E f \in Files : Upload(f) \/ Download(f) \/ Digest(f)
    \/ \E r \in Requests : Delete(r)
    \/ \E e \in Events : Work(e) \/ JobDies(e)

Spec == Init /\ [][Next]_vars

(* The queue delivers, and the awaits of its jobs end.  No upload, request *)
(* or digest need go on: its pod may die, and nothing takes it up again.   *)
FairSpec == Spec /\ WF_vars(\E e \in Events : Work(e))

----------------------------------------------------------------------------
(* Properties.                                                             *)

(* Download of a file that has not been scanned takes an explicit unsafe:  *)
(* no other download ever delivers infected content, whatever it raced     *)
(* with, because no document is seen scanned and not yet infected.         *)
NoInfectedServed == served \cap tainted = {}

(* A file whose uploaded event the queue is done with has been scanned,    *)
(* unless it was deleted: a scan that a pod took with it is made up for.   *)
AckedIsScanned ==
    \A f \in Files :
        item[f] = "acked" => "scanned" \in doc[f] \/ "deleted" \in doc[f] \/ ~Found(f)

(* A file whose deleted event the queue is done with is gone for good,     *)
(* whatever else was working on it: its record always, its content unless  *)
(* the file was deleted while it was being uploaded.                       *)
AckedIsErased ==
    \A r \in Requests :
        item[r] = "acked" =>
            /\ ~Found(Target[r])
            /\ Target[r] \in blob => Target[r] \in early

(* The storage goes first so that there never is a file without a record   *)
(* (file.ts, delete): with the same proviso, no content is left behind     *)
(* that no record leads to.                                                *)
ContentHasRecord == \A f \in Files \ early : f \in blob => Found(f)

(* Nothing brings back a file that is marked for deletion, be it a scan, a *)
(* digest or a download that read it before it was marked or erased.       *)
MarkedForGood ==
    [][\A f \in Files :
          upload[f] = "finished" /\ (~Found(f) \/ "deleted" \in doc[f]) =>
              (~Found(f) \/ "deleted" \in doc[f])']_vars

(* A deletion the queue took ends with no record of the file or with the   *)
(* event on the dead letter queue, also when it overlaps the upload.       *)
DeletedIsErased ==
    \A r \in Requests :
        item[r] = "accepted" ~>
            \/ item[r] = "dead"
            \/ item[r] = "acked" /\ ~Found(Target[r])

(* The schema requires a file's tenant, type and name (mongo/schema.ts:5,  *)
(* :9, :25): every document has them.                                      *)
DocumentsAreComplete == \A f \in Files : doc[f] # {} => Found(f)

----------------------------------------------------------------------------
(* The inductive invariant behind the safety properties.                   *)

(* An event is on the queue once its request has sent it; only an accepted *)
(* one has a handler, of its own kind; failures are counted.               *)
QueueFollows ==
    /\ \A f \in Files :
        /\ item[f] = "unsent" <=> upload[f] # "finished"
        /\ job[f] \in {"idle", "scanning", "opened", "scanned"}
    /\ \A r \in Requests :
        /\ item[r] = "unsent" <=> request[r] # "finished"
        /\ job[r] \in {"idle", "erasing", "erased", "removed"}
    /\ \A e \in Events :
        /\ job[e] # "idle" => item[e] \in Queue!Accepted
        /\ item[e] \in {"unsent", "lost", "accepted"} => failures[e] = 0
        /\ item[e] = "retried" => failures[e] <= 1

(* The record is there before the content and after it, unless a client    *)
(* deletes the file meanwhile; nothing is read before it is uploaded.      *)
UploadsInOrder ==
    \A f \in Files :
        /\ upload[f] = "none" => ~Found(f)
        /\ upload[f] \in {"none", "removing", "failed"} => f \notin blob
        /\ f \notin early /\ upload[f] \in {"saved", "stored", "sized", "failing", "removing"}
               => Found(f)
        /\ upload[f] # "finished" =>
               "scanned" \notin doc[f] /\ f \notin served /\ <<f, "safe">> \notin reading

(* A deletion is of a file that was there, and uploaded unless it is early.*)
(* The content has gone before the record, and the record for good.        *)
DeletionsInOrder ==
    \A r \in Requests :
        /\ request[r] # "none" =>
               /\ upload[Target[r]] # "none"
               /\ Target[r] \notin early => upload[Target[r]] = "finished"
        /\ job[r] = "erased" => Target[r] \notin blob \ early
        /\ job[r] = "removed" \/ item[r] = "acked" => ~Found(Target[r])

(* No document has the verdict without the infection it found, and what    *)
(* was found safe for a download stays so.                                 *)
VerdictsAreTrue ==
    \A f \in Files :
        /\ "scanned" \in doc[f] /\ f \in tainted => "infected" \in doc[f]
        /\ <<f, "safe">> \in reading => f \notin tainted
        /\ job[f] = "scanned" => "scanned" \in doc[f] \/ ~Found(f)

IInv ==
    /\ TypeOK
    /\ QueueFollows
    /\ UploadsInOrder
    /\ DeletionsInOrder
    /\ VerdictsAreTrue
    /\ NoInfectedServed
    /\ AckedIsScanned
    /\ ContentHasRecord
=============================================================================
