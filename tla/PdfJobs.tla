------------------------------ MODULE PdfJobs ------------------------------
(***************************************************************************)
(* PDF generation jobs: the request handler and the queue worker of        *)
(* pdf-service over the work queue (WorkQueue) and the Redis job record    *)
(* of libs/job-common.                                                     *)
(*                                                                         *)
(* A job exists three times: as a message of the queue, as a record a      *)
(* client polls, and as the domain events the push service relays.  The    *)
(* worker changes them one after the other, with an await between each     *)
(* two, and a pod can die at every await.                                  *)
(***************************************************************************)
EXTENDS Integers, Sequences

CONSTANTS
    Jobs,         \* jobs clients request
    Pods,         \* pods of pdf-service
    None,         \* no job
    MaxCrashes,   \* bound: crashes of pods over a behaviour
    MaxDrops      \* bound: connections a pod loses while its process lives

ASSUME NoneAssumption == None \notin Jobs
ASSUME BoundsAssumption == MaxCrashes \in Nat /\ MaxDrops \in Nat

VARIABLES
    broker, redelivered, channel, epoch, tag, held, handlers, crashes,
    succeeded, failures,   \* the work queue
    request,      \* how far the request that creates each job has come
    record,       \* status of the job record, "none" where Redis has none
    phase,        \* what each unfinished handler is waiting for
    files,        \* files the file service holds for each job
    announced     \* outcome events sent for each job, in order

(* A job is serialized by enqueue, and always parses.                      *)
Queue == INSTANCE WorkQueue WITH Items <- Jobs, Unparseable <- {}

queueVars == <<broker, redelivered, channel, epoch, tag, held, handlers, crashes,
               succeeded, failures>>
jobVars == <<request, record, phase, files, announced>>
vars == <<queueVars, jobVars>>

Phase == {"generating", "recording", "recorded", "failing", "failRecorded"}

TypeOK ==
    /\ Queue!TypeOK
    /\ request \in [Jobs -> {"none", "created", "sent", "answered"}]
    /\ record \in [Jobs -> {"none", "queued", "completed", "failed"}]
    /\ phase \in [handlers -> Phase]
    /\ files \in [Jobs -> Nat]
    /\ announced \in [Jobs -> Seq({"generated", "failed"})]

Init ==
    /\ Queue!Init
    /\ request = [j \in Jobs |-> "none"]
    /\ record = [j \in Jobs |-> "none"]
    /\ phase = [h \in {} |-> "generating"]
    /\ files = [j \in Jobs |-> 0]
    /\ announced = [j \in Jobs |-> <<>>]

----------------------------------------------------------------------------
(* The request: POST /pdf/v1/jobs.                                         *)

(* The job record is created.                                              *)
CreateJob(j) ==
    /\ request[j] = "none"
    /\ request' = [request EXCEPT ![j] = "created"]
    /\ record' = [record EXCEPT ![j] = "queued"]
    /\ UNCHANGED <<queueVars, phase, files, announced>>

(* The job is put on the queue, or is not and the caller cannot tell.      *)
SendJob(j) ==
    /\ request[j] = "created"
    /\ request' = [request EXCEPT ![j] = "sent"]
    /\ Queue!Enqueue(j) \/ Queue!EnqueueLost(j)
    /\ UNCHANGED <<record, phase, files, announced>>

(* The client is told the job is queued; a worker may have had it by now.  *)
Answer(j) ==
    /\ request[j] = "sent"
    /\ request' = [request EXCEPT ![j] = "answered"]
    /\ UNCHANGED <<queueVars, record, phase, files, announced>>

(* Redis drops the record a day after it was last written.                 *)
Expire(j) ==
    /\ record[j] # "none"
    /\ record' = [record EXCEPT ![j] = "none"]
    /\ UNCHANGED <<queueVars, request, phase, files, announced>>

----------------------------------------------------------------------------
(* The worker: createGenerateJob.                                          *)

Advance(h, from, to) ==
    /\ h \in handlers
    /\ phase[h] = from
    /\ phase' = [phase EXCEPT ![h] = to]

(* The phases of the handlers that remain after one has ended.             *)
RestrictPhases == phase' = [h \in handlers' |-> phase[h]]

(* Mutant: only a queued record is updated.                                *)
UpdateRecordOnce(j, status) ==
    record' = [record EXCEPT ![j] = IF @ = "queued" THEN status ELSE @]

(* repository.update writes the new status into a record that is there.    *)
UpdateRecord(j, status) ==
    record' = [record EXCEPT ![j] = IF @ = "none" THEN @ ELSE status]

(* Mutant: the events carry the wrong definition.                          *)
AnnounceQueued(j, event) == announced' = [announced EXCEPT ![j] = Append(@, "queued")]

Announce(j, event) == announced' = [announced EXCEPT ![j] = Append(@, event)]

Start(p, j) ==
    /\ Queue!Deliver(p, j)
    /\ phase' = [h \in handlers' |->
                    IF h \in handlers THEN phase[h] ELSE "generating"]
    /\ UNCHANGED <<request, record, files, announced>>

(* Mutant: the upload is not awaited and may not happen.                   *)
UploadNotAwaited(h) ==
    /\ Advance(h, "generating", "recording")
    /\ Announce(h.item, "generated")
    /\ UNCHANGED <<queueVars, request, record, files>>

(* The PDF is generated and uploaded, and its event sent.                  *)
Upload(h) ==
    /\ Advance(h, "generating", "recording")
    /\ files' = [files EXCEPT ![h.item] = @ + 1]
    /\ Announce(h.item, "generated")
    /\ UNCHANGED <<queueVars, request, record>>

(* Mutant: the catch block calls done() without the error.                 *)
CatchSwallows(h) == Queue!Succeed(h) /\ RestrictPhases

(* The catch block: a first failure goes back to the queue at once, one on *)
(* a redelivery is recorded and announced first.                           *)
Catch(h) ==
    \/ /\ ~h.redelivered
       /\ Queue!Fail(h)
       /\ RestrictPhases
    \/ /\ h.redelivered
       /\ phase' = [phase EXCEPT ![h] = "failing"]
       /\ UNCHANGED queueVars

(* Token, configuration, template, rendering or upload fail.  An upload    *)
(* that fails on its way back has stored the file.                         *)
GenerateFails(h) ==
    /\ h \in handlers
    /\ phase[h] = "generating"
    /\ \E stored \in {0, 1} : files' = [files EXCEPT ![h.item] = @ + stored]
    /\ Catch(h)
    /\ UNCHANGED <<request, record, announced>>

(* repository.update(jobId, 'completed') is written by Redis ...           *)
RecordCompleted(h) ==
    /\ Advance(h, "recording", "recorded")
    /\ UpdateRecord(h.item, "completed")
    /\ UNCHANGED <<queueVars, request, files, announced>>

(* ... or is refused, which the catch block treats as a failed generation. *)
RecordCompletedFails(h) ==
    /\ h \in handlers
    /\ phase[h] = "recording"
    /\ Catch(h)
    /\ UNCHANGED <<request, record, files, announced>>

Done(h) ==
    /\ h \in handlers
    /\ phase[h] = "recorded"
    /\ Queue!Succeed(h)
    /\ RestrictPhases
    /\ UNCHANGED <<request, record, files, announced>>

(* repository.update(jobId, 'failed').  When Redis refuses it the async    *)
(* function rejects, nobody handles that and Node ends the process: that   *)
(* is a Crash.                                                             *)
RecordFailed(h) ==
    /\ Advance(h, "failing", "failRecorded")
    /\ UpdateRecord(h.item, "failed")
    /\ UNCHANGED <<queueVars, request, files, announced>>

(* Mutant: the failure event is left to the retry there will not be.       *)
DoneFailedSilently(h) ==
    /\ h \in handlers
    /\ phase[h] = "failRecorded"
    /\ Queue!Fail(h)
    /\ RestrictPhases
    /\ UNCHANGED <<request, record, files, announced>>

DoneFailed(h) ==
    /\ h \in handlers
    /\ phase[h] = "failRecorded"
    /\ Announce(h.item, "failed")
    /\ Queue!Fail(h)
    /\ RestrictPhases
    /\ UNCHANGED <<request, record, files>>

----------------------------------------------------------------------------

(* A pod dies with the handlers that run in it, whatever they wait for.    *)
Crash(p) ==
    /\ Queue!Crash(p)
    /\ RestrictPhases
    /\ UNCHANGED <<request, record, files, announced>>

Drop(p) == Queue!Drop(p) /\ UNCHANGED jobVars

Reopen(p) == Queue!Reopen(p) /\ UNCHANGED jobVars

Request == \E j \in Jobs : CreateJob(j) \/ SendJob(j) \/ Answer(j)

Take == \E p \in Pods, j \in Jobs : Start(p, j)

Work(h) ==
    \/ Upload(h) \/ GenerateFails(h)
    \/ RecordCompleted(h) \/ RecordCompletedFails(h) \/ Done(h)
    \/ RecordFailed(h) \/ DoneFailed(h)

Fault == \E p \in Pods : Crash(p) \/ Drop(p)

Recover == \E p \in Pods : Reopen(p)

Next ==
    \/ Request
    \/ \E j \in Jobs : Expire(j)
    \/ Take
    \/ \E h \in handlers : Work(h)
    \/ Fault
    \/ Recover

Spec == Init /\ [][Next]_vars

(* A worker's awaits end, the broker delivers, lost connections are made   *)
(* again.  No request need be made or go on: its pod may die.              *)
Fairness ==
    /\ WF_vars(Take)
    /\ WF_vars(\E h \in handlers : Work(h))
    /\ WF_vars(Recover)

FairSpec == Spec /\ Fairness

----------------------------------------------------------------------------
(* Properties.                                                             *)

(* The file of a job is stored and its event sent.                         *)
Generated(j) ==
    files[j] >= 1 /\ \E n \in DOMAIN announced[j] : announced[j][n] = "generated"

(* A client that polls a completed job finds its file uploaded and its     *)
(* event sent, whatever failed, crashed or ran twice in between.           *)
CompletedHasFile == \A j \in Jobs : record[j] = "completed" => Generated(j)

(* The last outcome event sent for a job is this one.                      *)
ToldLast(j, event) == announced[j] # <<>> /\ announced[j][Len(announced[j])] = event

(* The last outcome event sent for a job is the verdict of the queue: a    *)
(* listener of the stream that has heard nothing for the job after the     *)
(* queue is done with it has heard the truth last.                         *)
LastAnnouncementIsVerdict ==
    Queue!NeverDropped =>
        \A j \in Jobs : broker[j] \in Queue!Settled =>
            ToldLast(j, IF broker[j] = "acked" THEN "generated" ELSE "failed")

(* The record agrees with the queue's verdict for as long as it exists.    *)
RecordIsVerdict ==
    Queue!NeverDropped =>
        \A j \in Jobs :
            /\ broker[j] = "acked" => record[j] \in {"completed", "none"}
            /\ broker[j] = "dead" => record[j] \in {"failed", "none"}

(* Retries leave files behind, one for each delivery at most.              *)
FilesBounded ==
    Queue!NeverDropped => \A j \in Jobs : files[j] <= 2 + crashes

(* Every job the broker took has an outcome event sent for it in the end,  *)
(* until a connection is lost under a live process: after that a stale     *)
(* settlement may discard the job (see RedeliveredFailureDeadLetters).     *)
QueuedJobIsAnnounced ==
    \A j \in Jobs :
        Queue!NeverDropped /\ broker[j] = "ready" ~>
            announced[j] # <<>> \/ ~Queue!NeverDropped

----------------------------------------------------------------------------
(* The inductive invariant behind the safety properties.                   *)

(* The record of a job is created before the job can be on the queue.      *)
RecordedFirst ==
    \A j \in Jobs : request[j] \in {"none", "created"} => broker[j] = "unsent"

(* A handler that completes a record has stored the file and sent its      *)
(* event, and nobody takes either back.                                    *)
HandlersGenerated ==
    \A h \in handlers : phase[h] \in {"recording", "recorded"} => Generated(h.item)

(* Short of a lost connection nobody else tells of the job of a handler:   *)
(* what it told last is still what was told last.                          *)
HandlersTell ==
    Queue!NeverDropped =>
        \A h \in handlers :
            /\ phase[h] \in {"recording", "recorded"} => ToldLast(h.item, "generated")
            /\ phase[h] = "recorded" => record[h.item] \in {"completed", "none"}
            /\ phase[h] = "failRecorded" => record[h.item] \in {"failed", "none"}

(* Files are stored by deliveries, and a redelivery follows a crash or the *)
(* one retry.                                                              *)
FilesCounted ==
    Queue!NeverDropped =>
        /\ \A j \in Jobs :
               /\ broker[j] \in {"unsent", "ready"} /\ ~redelivered[j] => files[j] = 0
               /\ broker[j] = "ready" => files[j] <= 1 + crashes
               /\ files[j] <= 2 + crashes
        /\ \A h \in handlers :
               /\ ~h.redelivered => files[h.item] <= 1
               /\ phase[h] = "generating" =>
                      files[h.item] <= IF h.redelivered THEN 1 + crashes ELSE 0

IInv ==
    /\ TypeOK
    /\ Queue!IInv
    /\ RecordedFirst
    /\ CompletedHasFile
    /\ HandlersGenerated
    /\ HandlersTell
    /\ LastAnnouncementIsVerdict
    /\ RecordIsVerdict
    /\ FilesCounted
=============================================================================
