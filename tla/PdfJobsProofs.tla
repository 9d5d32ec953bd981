--------------------------- MODULE PdfJobsProofs ---------------------------
(***************************************************************************)
(* Proofs about PdfJobs, for any jobs and pods and any number of crashes   *)
(* and lost connections.  What holds of the queue under the worker is      *)
(* taken from the proofs about WorkQueue.                                  *)
(***************************************************************************)
EXTENDS PdfJobs, TLAPS

QueueProofs == INSTANCE WorkQueueProofs WITH Items <- Jobs, Unparseable <- {}

----------------------------------------------------------------------------
(* The worker over the queue.                                              *)

(* A handler knows a pod, a job and whether it was redelivered, and waits  *)
(* for something.                                                          *)
LEMMA HandlerFacts ==
  ASSUME TypeOK, NEW h \in handlers
  PROVE  /\ h.pod \in Pods /\ h.item \in Jobs /\ h.redelivered \in BOOLEAN
         /\ phase[h] \in Phase
BY DEF TypeOK, Queue!TypeOK, Queue!Handler

(* The worker does nothing to the queue but what a handler may do.         *)
LEMMA CatchStep ==
  ASSUME NEW h \in handlers, Catch(h)
  PROVE  Queue!Finish \/ UNCHANGED Queue!vars
BY DEF Catch, Queue!Finish, queueVars, Queue!vars, Queue!brokerVars,
       Queue!channelVars, Queue!historyVars

(* Every operation is an operation of the queue, or invisible to it.       *)
LEMMA QueueStep == [Next]_vars => [Queue!Next]_(Queue!vars)
<1> SUFFICES ASSUME [Next]_vars
             PROVE  [Queue!Next]_(Queue!vars)
  OBVIOUS
<1> DEFINE Kept == UNCHANGED Queue!vars
<1>0. UNCHANGED queueVars => Kept
  BY DEF queueVars, Queue!vars, Queue!brokerVars, Queue!channelVars, Queue!historyVars
<1>1. ASSUME NEW j \in Jobs, CreateJob(j) \/ Answer(j) \/ Expire(j)
      PROVE  Kept
  BY <1>0, <1>1 DEF CreateJob, Answer, Expire
<1>2. ASSUME NEW j \in Jobs, SendJob(j)
      PROVE  Queue!Produce
  BY <1>2 DEF SendJob, Queue!Produce
<1>3. ASSUME NEW p \in Pods, NEW j \in Jobs, Start(p, j)
      PROVE  Queue!Consume
  BY <1>3 DEF Start, Queue!Consume
<1>4. ASSUME NEW h \in handlers, Work(h)
      PROVE  Queue!Finish \/ Kept
  <2>1. CASE Upload(h) \/ RecordCompleted(h) \/ RecordFailed(h)
    BY <1>0, <2>1 DEF Upload, RecordCompleted, RecordFailed
  <2>2. CASE GenerateFails(h) \/ RecordCompletedFails(h)
    BY <2>2, CatchStep DEF GenerateFails, RecordCompletedFails
  <2>3. CASE Done(h) \/ DoneFailed(h)
    BY <2>3 DEF Done, DoneFailed, Queue!Finish
  <2> QED
    BY <1>4, <2>1, <2>2, <2>3 DEF Work
<1>5. ASSUME NEW p \in Pods, Crash(p) \/ Drop(p)
      PROVE  Queue!Fault
  BY <1>5 DEF Crash, Drop, Queue!Fault
<1>6. ASSUME NEW p \in Pods, Reopen(p)
      PROVE  Queue!Recover
  BY <1>6 DEF Reopen, Queue!Recover
<1>7. CASE UNCHANGED vars
  BY <1>0, <1>7 DEF vars
<1> HIDE DEF Kept
<1> USE DEF Queue!Next
<1>8. Kept => [Queue!Next]_(Queue!vars)
  BY DEF Kept
<1> QED
  BY <1>1, <1>2, <1>3, <1>4, <1>5, <1>6, <1>7, <1>8
     DEF Next, Request, Take, Fault, Recover

(* The worker keeps to the protocol of the queue, so that what is proved   *)
(* of the queue holds under it.                                            *)
THEOREM KeepsQueueProtocol == Spec => Queue!Spec
<1>1. Init => Queue!Init
  BY DEF Init
<1>2. QED
  BY <1>1, QueueStep, PTL DEF Spec, Queue!Spec

----------------------------------------------------------------------------
(* The facts about the queue the worker relies on.                         *)

(* The queue of the proofs is the queue of the worker.                     *)
LEMMA SameState ==
  /\ QueueProofs!TypeOK <=> Queue!TypeOK
  /\ QueueProofs!NeverDropped <=> Queue!NeverDropped
  /\ QueueProofs!HeldOnce <=> Queue!HeldOnce
  /\ QueueProofs!HandlersHold <=> Queue!HandlersHold
  /\ QueueProofs!IInv <=> Queue!IInv
<1> USE DEF QueueProofs!NeverDropped, Queue!NeverDropped
<1>1. QueueProofs!TypeOK <=> Queue!TypeOK
  BY DEF QueueProofs!TypeOK, QueueProofs!Location, QueueProofs!Handler,
         Queue!TypeOK, Queue!Location, Queue!Handler
<1>2. QueueProofs!HeldOnce <=> Queue!HeldOnce
  BY DEF QueueProofs!HeldOnce, Queue!HeldOnce
<1>3. QueueProofs!HandlersHold <=> Queue!HandlersHold
  BY DEF QueueProofs!HandlersHold, Queue!HandlersHold
<1>4. /\ QueueProofs!UnsentIsNew <=> Queue!UnsentIsNew
      /\ QueueProofs!FailuresCounted <=> Queue!FailuresCounted
      /\ QueueProofs!AckedWasProcessed <=> Queue!AckedWasProcessed
  BY DEF QueueProofs!UnsentIsNew, Queue!UnsentIsNew,
         QueueProofs!FailuresCounted, Queue!FailuresCounted,
         QueueProofs!AckedWasProcessed, Queue!AckedWasProcessed
<1> QED
  BY <1>1, <1>2, <1>3, <1>4 DEF QueueProofs!IInv, Queue!IInv

(* A settlement is the same in both, and so is the loss of a connection.   *)
LEMMA SameSettle ==
  ASSUME NEW h, NEW to
  PROVE  QueueProofs!Settle(h, to) <=> Queue!Settle(h, to)
BY DEF QueueProofs!Settle, QueueProofs!SettleNowhere, QueueProofs!SettleHeld,
       QueueProofs!SettleUnknown, QueueProofs!ReturnHeld,
       Queue!Settle, Queue!SettleNowhere, Queue!SettleHeld, Queue!SettleUnknown,
       Queue!ReturnHeld

(* And every step.                                                         *)
LEMMA SameStep ==
  /\ QueueProofs!Init <=> Queue!Init
  /\ [QueueProofs!Next]_(QueueProofs!vars) <=> [Queue!Next]_(Queue!vars)
  /\ \A p : QueueProofs!Drop(p) <=> Queue!Drop(p)
<1> USE DEF QueueProofs!brokerVars, QueueProofs!channelVars, QueueProofs!historyVars,
            Queue!brokerVars, Queue!channelVars, Queue!historyVars,
            QueueProofs!ReturnHeld, Queue!ReturnHeld
<1>1. QueueProofs!Init <=> Queue!Init
  BY DEF QueueProofs!Init, Queue!Init
<1>2. QueueProofs!Produce <=> Queue!Produce
  BY DEF QueueProofs!Produce, QueueProofs!Enqueue, QueueProofs!EnqueueLost,
         Queue!Produce, Queue!Enqueue, Queue!EnqueueLost
<1>3. QueueProofs!Consume <=> Queue!Consume
  BY DEF QueueProofs!Consume, QueueProofs!Deliver, QueueProofs!DeliverUnparseable,
         QueueProofs!CanDeliver,
         Queue!Consume, Queue!Deliver, Queue!DeliverUnparseable, Queue!CanDeliver
<1>4. QueueProofs!Finish <=> Queue!Finish
  BY SameSettle
     DEF QueueProofs!Finish, QueueProofs!Succeed, QueueProofs!Fail,
         QueueProofs!FailureTarget,
         Queue!Finish, Queue!Succeed, Queue!Fail, Queue!FailureTarget
<1>5. \A p : QueueProofs!Drop(p) <=> Queue!Drop(p)
  BY DEF QueueProofs!Drop, Queue!Drop
<1>6. \A p : QueueProofs!Crash(p) <=> Queue!Crash(p)
  BY DEF QueueProofs!Crash, Queue!Crash
<1>7. QueueProofs!Recover <=> Queue!Recover
  BY DEF QueueProofs!Recover, QueueProofs!Reopen, Queue!Recover, Queue!Reopen
<1>8. (UNCHANGED QueueProofs!vars) <=> (UNCHANGED Queue!vars)
  BY DEF QueueProofs!vars, Queue!vars
<1>9. QueueProofs!Next <=> Queue!Next
  BY <1>2, <1>3, <1>4, <1>5, <1>6, <1>7
     DEF QueueProofs!Next, QueueProofs!Fault, Queue!Next, Queue!Fault
<1> QED
  BY <1>1, <1>5, <1>8, <1>9

(* The inductive invariant of the queue holds under the worker.            *)
LEMMA QueueInvariance == Spec => []Queue!IInv
<1>1. QueueProofs!Spec => []QueueProofs!IInv
  BY QueueProofs!Invariance, NoneAssumption, BoundsAssumption
<1>2. QED
  BY <1>1, SameState, SameStep, KeepsQueueProtocol, PTL
     DEF Queue!Spec, QueueProofs!Spec

(* Connections lost are never forgotten.                                   *)
LEMMA NeverDroppedBefore ==
  ASSUME Queue!IInv, [Next]_vars, Queue!NeverDropped'
  PROVE  Queue!NeverDropped /\ \A p \in Pods : ~Drop(p)
BY QueueProofs!NeverDroppedBefore, NoneAssumption, BoundsAssumption,
   QueueStep, SameState, SameStep
   DEF Queue!IInv, Drop, QueueProofs!NeverDropped, Queue!NeverDropped

(* Until one is lost, a handler is alone with its job, and its job waits   *)
(* for it alone.                                                           *)
LEMMA Alone ==
  ASSUME Queue!IInv, Queue!NeverDropped, NEW h \in handlers
  PROVE  /\ broker[h.item] = "unacked"
         /\ redelivered[h.item] = h.redelivered
         /\ \A g \in handlers : g.item = h.item => g = h
<1>1. QueueProofs!TypeOK /\ QueueProofs!HeldOnce /\ QueueProofs!HandlersHold
      /\ QueueProofs!NeverDropped
  BY SameState DEF Queue!IInv
<1>2. broker[h.item] = "unacked"
  BY <1>1, QueueProofs!HandlersAreUnacked, NoneAssumption, BoundsAssumption
<1>3. ASSUME NEW g \in handlers, g.item = h.item
      PROVE  g = h
  BY <1>1, <1>3, QueueProofs!HandlersDiffer, NoneAssumption, BoundsAssumption
<1>4. redelivered[h.item] = h.redelivered
  BY DEF Queue!IInv, Queue!HandlersHold
<1> QED
  BY <1>2, <1>3, <1>4

(* And a settlement is that of its job.                                    *)
LEMMA Settling ==
  ASSUME Queue!IInv, Queue!NeverDropped, NEW h \in handlers,
         NEW to \in {"ready", "acked", "dead"}, Queue!Settle(h, to)
  PROVE  /\ broker' = [broker EXCEPT ![h.item] = to]
         /\ redelivered' =
            [redelivered EXCEPT ![h.item] = IF to = "ready" THEN TRUE ELSE @]
         /\ handlers' = handlers \ {h}
         /\ UNCHANGED crashes
<1>1. QueueProofs!TypeOK /\ QueueProofs!HandlersHold /\ QueueProofs!NeverDropped
  BY SameState DEF Queue!IInv
<1> QED
  BY <1>1, SameSettle, QueueProofs!SettlesOwnItem, NoneAssumption, BoundsAssumption

----------------------------------------------------------------------------
(* Types.                                                                  *)

Event == {"generated", "failed"}

(* What sending an outcome event does to what was announced.               *)
LEMMA AnnounceFacts ==
  ASSUME TypeOK, NEW j \in Jobs, NEW event \in Event, Announce(j, event)
  PROVE  /\ announced' \in [Jobs -> Seq(Event)]
         /\ \A i \in Jobs \ {j} : announced'[i] = announced[i]
         /\ announced'[j] = Append(announced[j], event)
         /\ ToldLast(j, event)'
         /\ event \in {announced'[j][n] : n \in DOMAIN announced'[j]}
         /\ \A n \in DOMAIN announced[j] :
                n \in DOMAIN announced'[j] /\ announced'[j][n] = announced[j][n]
<1>1. announced \in [Jobs -> Seq(Event)]
  BY DEF TypeOK, Event
<1>2. /\ announced'[j] = Append(announced[j], event)
      /\ \A i \in Jobs \ {j} : announced'[i] = announced[i]
      /\ announced' \in [Jobs -> Seq(Event)]
  BY <1>1 DEF Announce
<1> DEFINE s == announced[j]
           t == announced'[j]
<1>3. s \in Seq(Event) /\ t = Append(s, event)
  BY <1>1, <1>2
<1> HIDE DEF s, t
<1>4. /\ t # <<>> /\ Len(t) \in DOMAIN t /\ t[Len(t)] = event
      /\ \A n \in DOMAIN s : n \in DOMAIN t /\ t[n] = s[n]
  BY <1>3
<1> QED
  BY <1>2, <1>4 DEF s, t, ToldLast

(* A handler of the queue that ends is gone.                               *)
LEMMA Ends ==
  ASSUME NEW h, Queue!Succeed(h) \/ Queue!Fail(h)
  PROVE  handlers' = handlers \ {h}
BY DEF Queue!Succeed, Queue!Fail, Queue!Settle

(* The catch block ends its handler or goes on to record the failure.      *)
LEMMA CatchFacts ==
  ASSUME TypeOK, NEW h \in handlers, Catch(h)
  PROVE  /\ phase' \in [handlers' -> Phase]
         /\ handlers' \subseteq handlers
         /\ \A g \in handlers' \ {h} : phase'[g] = phase[g]
         /\ h \in handlers' => phase'[h] = "failing"
<1>1. CASE Queue!Fail(h) /\ RestrictPhases
  BY <1>1, Ends DEF RestrictPhases, TypeOK
<1>2. CASE phase' = [phase EXCEPT ![h] = "failing"] /\ UNCHANGED queueVars
  BY <1>2 DEF queueVars, TypeOK, Phase
<1> QED
  BY <1>1, <1>2 DEF Catch

(* Every operation preserves the types of all variables.                   *)
LEMMA TypeStep == TypeOK /\ Queue!TypeOK' /\ [Next]_vars => TypeOK'
<1> SUFFICES ASSUME TypeOK, Queue!TypeOK', [Next]_vars
             PROVE  TypeOK'
  OBVIOUS
<1> USE DEF queueVars, jobVars
<1>1. ASSUME NEW j \in Jobs, CreateJob(j) \/ SendJob(j) \/ Answer(j)
      PROVE  TypeOK'
  <2>1. UNCHANGED <<handlers, phase, files, announced>>
    BY <1>1 DEF CreateJob, SendJob, Answer, Queue!Enqueue, Queue!EnqueueLost
  <2> QED
    BY <1>1, <2>1 DEF CreateJob, SendJob, Answer, TypeOK
<1>2. ASSUME NEW j \in Jobs, Expire(j)
      PROVE  TypeOK'
  BY <1>2 DEF Expire, TypeOK
<1>3. ASSUME NEW p \in Pods, NEW j \in Jobs, Start(p, j)
      PROVE  TypeOK'
  BY <1>3 DEF Start, TypeOK, Phase
<1>4. ASSUME NEW h \in handlers, Work(h)
      PROVE  TypeOK'
  <2>0. h.item \in Jobs
    BY HandlerFacts
  <2>1. CASE Upload(h)
    <3>1. announced' \in [Jobs -> Seq(Event)]
      BY <2>0, <2>1, AnnounceFacts DEF Upload, Event
    <3>2. phase' \in [handlers' -> Phase] /\ files' \in [Jobs -> Nat]
      BY <2>0, <2>1 DEF Upload, Advance, TypeOK, Phase
    <3>3. UNCHANGED <<request, record>>
      BY <2>1 DEF Upload
    <3> QED
      BY <3>1, <3>2, <3>3 DEF TypeOK, Event
  <2>2. CASE GenerateFails(h)
    <3>1. PICK stored \in {0, 1} : files' = [files EXCEPT ![h.item] = @ + stored]
      BY <2>2 DEF GenerateFails
    <3>2. files' \in [Jobs -> Nat]
      BY <2>0, <3>1 DEF TypeOK
    <3> QED
      BY <2>2, <3>2, CatchFacts DEF GenerateFails, TypeOK
  <2>3. CASE RecordCompleted(h)
    BY <2>0, <2>3 DEF RecordCompleted, Advance, UpdateRecord, TypeOK, Phase
  <2>4. CASE RecordCompletedFails(h)
    BY <2>4, CatchFacts DEF RecordCompletedFails, TypeOK
  <2>5. CASE Done(h)
    BY <2>5, Ends DEF Done, RestrictPhases, TypeOK
  <2>6. CASE RecordFailed(h)
    BY <2>0, <2>6 DEF RecordFailed, Advance, UpdateRecord, TypeOK, Phase
  <2>7. CASE DoneFailed(h)
    <3>1. announced' \in [Jobs -> Seq(Event)]
      BY <2>0, <2>7, AnnounceFacts DEF DoneFailed, Event
    <3>2. phase' \in [handlers' -> Phase]
      BY <2>7, Ends DEF DoneFailed, RestrictPhases, TypeOK
    <3>3. UNCHANGED <<request, record, files>>
      BY <2>7 DEF DoneFailed
    <3> QED
      BY <3>1, <3>2, <3>3 DEF TypeOK, Event
  <2> QED
    BY <1>4, <2>1, <2>2, <2>3, <2>4, <2>5, <2>6, <2>7 DEF Work
<1>5. ASSUME NEW p \in Pods, Crash(p)
      PROVE  TypeOK'
  BY <1>5 DEF Crash, Queue!Crash, RestrictPhases, TypeOK
<1>6. ASSUME NEW p \in Pods, Drop(p) \/ Reopen(p)
      PROVE  TypeOK'
  BY <1>6 DEF Drop, Reopen, Queue!Drop, Queue!Reopen, TypeOK
<1>7. CASE UNCHANGED vars
  BY <1>7 DEF vars, TypeOK
<1> QED
  BY <1>1, <1>2, <1>3, <1>4, <1>5, <1>6, <1>7
     DEF Next, Request, Take, Fault, Recover

----------------------------------------------------------------------------
(* Completed jobs have their file.                                         *)

(* Files and events stay.                                                  *)
LEMMA GeneratedKept ==
  ASSUME TypeOK, [Next]_vars, NEW j \in Jobs, Generated(j)
  PROVE  Generated(j)'
<1> USE DEF queueVars, jobVars
<1>1. ASSUME UNCHANGED <<files, announced>>
      PROVE  Generated(j)'
  BY <1>1 DEF Generated
<1>2. ASSUME NEW h \in handlers, Work(h)
      PROVE  Generated(j)'
  <2>0. h.item \in Jobs
    BY HandlerFacts
  <2>1. files'[j] \in Nat /\ files'[j] >= files[j]
    <3>1. ASSUME NEW n \in Nat, files' = [files EXCEPT ![h.item] = @ + n]
          PROVE  files'[j] \in Nat /\ files'[j] >= files[j]
      BY <2>0, <3>1 DEF TypeOK
    <3>2. CASE Upload(h)
      BY <3>1, <3>2 DEF Upload
    <3>3. CASE GenerateFails(h)
      BY <3>1, <3>3 DEF GenerateFails
    <3>4. CASE UNCHANGED files
      BY <3>4 DEF TypeOK
    <3> QED
      BY <1>2, <3>2, <3>3, <3>4
         DEF Work, RecordCompleted, RecordCompletedFails, Done, RecordFailed, DoneFailed
  <2>2. \A n \in DOMAIN announced[j] :
            n \in DOMAIN announced'[j] /\ announced'[j][n] = announced[j][n]
    <3>1. CASE Upload(h)
      BY <2>0, <3>1, AnnounceFacts DEF Upload, Event
    <3>2. CASE DoneFailed(h)
      BY <2>0, <3>2, AnnounceFacts DEF DoneFailed, Event
    <3> QED
      BY <1>2, <3>1, <3>2
         DEF Work, GenerateFails, RecordCompleted, RecordCompletedFails, Done, RecordFailed
  <2>3. files[j] \in Nat /\ files'[j] >= 1
    BY <1>2, <2>1 DEF TypeOK, Generated
  <2> QED
    BY <2>2, <2>3 DEF Generated
<1> QED
  BY <1>1, <1>2
     DEF Next, Request, CreateJob, SendJob, Answer, Expire, Take, Start, Fault, Crash,
         Drop, Recover, Reopen, vars

(* A handler that has uploaded has generated.                              *)
LEMMA UploadGenerates ==
  ASSUME TypeOK, NEW h \in handlers, Upload(h)
  PROVE  Generated(h.item)'
<1>0. h.item \in Jobs
  BY HandlerFacts
<1>1. files'[h.item] >= 1
  BY <1>0 DEF Upload, TypeOK
<1>2. "generated" \in {announced'[h.item][n] : n \in DOMAIN announced'[h.item]}
  BY <1>0, AnnounceFacts DEF Upload, Event
<1> QED
  BY <1>1, <1>2 DEF Generated

(* Every operation lets a handler pass its upload only when it has stored  *)
(* the file and sent the event.                                            *)
LEMMA HandlersGeneratedStep ==
  TypeOK /\ HandlersGenerated /\ [Next]_vars => HandlersGenerated'
<1> SUFFICES ASSUME TypeOK, HandlersGenerated, [Next]_vars,
                    NEW g \in handlers', phase'[g] \in {"recording", "recorded"}
             PROVE  Generated(g.item)'
  BY DEF HandlersGenerated
<1> USE DEF queueVars, jobVars
<1>0. ASSUME g \in handlers, phase[g] \in {"recording", "recorded"}
      PROVE  Generated(g.item)'
  BY <1>0, HandlerFacts, GeneratedKept DEF HandlersGenerated
<1>1. ASSUME UNCHANGED <<handlers, phase>>
      PROVE  Generated(g.item)'
  BY <1>0, <1>1
<1>2. CASE Request
  BY <1>1, <1>2
     DEF Request, CreateJob, SendJob, Answer, Queue!Enqueue, Queue!EnqueueLost
<1>3. ASSUME NEW p \in Pods, NEW j \in Jobs, Start(p, j)
      PROVE  Generated(g.item)'
  BY <1>0, <1>3 DEF Start
<1>4. ASSUME NEW h \in handlers, Work(h)
      PROVE  Generated(g.item)'
  <2>1. CASE Upload(h)
    <3>1. g \in handlers /\ (g # h => phase'[g] = phase[g])
      BY <2>1 DEF Upload, Advance, TypeOK
    <3> QED
      BY <1>0, <2>1, <3>1, UploadGenerates
  <2>2. CASE RecordCompleted(h) \/ RecordFailed(h)
    <3>1. g \in handlers /\ (g # h => phase'[g] = phase[g])
      BY <2>2 DEF RecordCompleted, RecordFailed, Advance, TypeOK
    <3>2. g = h => phase[h] = "recording"
      BY <2>2 DEF RecordCompleted, RecordFailed, Advance, TypeOK
    <3> QED
      BY <1>0, <3>1, <3>2
  <2>3. CASE GenerateFails(h) \/ RecordCompletedFails(h)
    BY <1>0, <2>3, CatchFacts DEF GenerateFails, RecordCompletedFails
  <2>4. CASE Done(h) \/ DoneFailed(h)
    BY <1>0, <2>4, Ends DEF Done, DoneFailed, RestrictPhases
  <2> QED
    BY <1>4, <2>1, <2>2, <2>3, <2>4 DEF Work
<1>5. ASSUME NEW p \in Pods, Crash(p)
      PROVE  Generated(g.item)'
  BY <1>0, <1>5 DEF Crash, Queue!Crash, RestrictPhases
<1>6. ASSUME NEW p \in Pods, Drop(p) \/ Reopen(p)
      PROVE  Generated(g.item)'
  BY <1>1, <1>6 DEF Drop, Reopen, Queue!Drop, Queue!Reopen
<1>7. CASE (\E j \in Jobs : Expire(j)) \/ UNCHANGED vars
  BY <1>1, <1>7 DEF Expire, vars
<1> QED
  BY <1>2, <1>3, <1>4, <1>5, <1>6, <1>7 DEF Next, Take, Fault, Recover

(* And completes a record only then.                                       *)
LEMMA CompletedHasFileStep ==
  TypeOK /\ HandlersGenerated /\ CompletedHasFile /\ [Next]_vars => CompletedHasFile'
<1> SUFFICES ASSUME TypeOK, HandlersGenerated, CompletedHasFile, [Next]_vars,
                    NEW j \in Jobs, record'[j] = "completed"
             PROVE  Generated(j)'
  BY DEF CompletedHasFile
<1> USE DEF queueVars, jobVars
<1>1. CASE record[j] = "completed"
  BY <1>1, GeneratedKept DEF CompletedHasFile
<1>2. CASE record[j] # "completed"
  <2>1. ASSUME NEW h \in handlers, RecordCompleted(h)
        PROVE  Generated(j)'
    <3>1. h.item \in Jobs /\ phase[h] = "recording"
      BY <2>1, HandlerFacts DEF RecordCompleted, Advance
    <3>2. j = h.item
      BY <1>2, <2>1, <3>1 DEF RecordCompleted, UpdateRecord, TypeOK
    <3> QED
      BY <3>1, <3>2, GeneratedKept DEF HandlersGenerated
  <2>2. ASSUME NEW h \in handlers, RecordFailed(h)
        PROVE  FALSE
    BY <1>2, <2>2, HandlerFacts DEF RecordFailed, UpdateRecord, TypeOK
  <2>3. ASSUME NEW i \in Jobs, CreateJob(i) \/ Expire(i)
        PROVE  FALSE
    BY <1>2, <2>3 DEF CreateJob, Expire, TypeOK
  <2>4. record' # record
    BY <1>2
  <2> QED
    BY <2>1, <2>2, <2>3, <2>4
       DEF Next, Request, SendJob, Answer, Take, Start, Work, Upload, GenerateFails,
           RecordCompletedFails, Done, DoneFailed, Fault, Crash, Drop, Recover, Reopen,
           vars
<1> QED
  BY <1>1, <1>2

----------------------------------------------------------------------------
(* Behaviours in which no connection is lost under a live process.         *)

(* A handler's work touches no job but its own, and no other handler.      *)
LEMMA OthersKept ==
  ASSUME TypeOK, Queue!IInv, Queue!NeverDropped, NEW h \in handlers, Work(h)
  PROVE  /\ \A i \in Jobs \ {h.item} :
                /\ broker'[i] = broker[i] /\ redelivered'[i] = redelivered[i]
                /\ record'[i] = record[i]
                /\ files'[i] = files[i]
                /\ announced'[i] = announced[i]
         /\ UNCHANGED <<request, crashes>>
         /\ handlers' \subseteq handlers
         /\ \A g \in handlers' \ {h} :
                g.item \in Jobs \ {h.item} /\ phase'[g] = phase[g]
<1> USE DEF queueVars
<1>0. h.item \in Jobs
  BY HandlerFacts
<1>1. \A g \in handlers \ {h} : g.item \in Jobs \ {h.item}
  BY Alone, HandlerFacts
<1>2. ASSUME NEW to \in {"ready", "acked", "dead"}, Queue!Settle(h, to)
      PROVE  /\ \A i \in Jobs \ {h.item} :
                     broker'[i] = broker[i] /\ redelivered'[i] = redelivered[i]
             /\ UNCHANGED crashes
  BY <1>0, <1>2, Settling DEF TypeOK, Queue!TypeOK
<1>3. ASSUME Queue!Succeed(h) \/ Queue!Fail(h)
      PROVE  /\ \A i \in Jobs \ {h.item} :
                     broker'[i] = broker[i] /\ redelivered'[i] = redelivered[i]
             /\ UNCHANGED crashes
  BY <1>2, <1>3 DEF Queue!Succeed, Queue!Fail, Queue!FailureTarget
<1>4. ASSUME Catch(h)
      PROVE  /\ \A i \in Jobs \ {h.item} :
                     broker'[i] = broker[i] /\ redelivered'[i] = redelivered[i]
             /\ UNCHANGED crashes
             /\ handlers' \subseteq handlers
             /\ \A g \in handlers' \ {h} : phase'[g] = phase[g]
  BY <1>3, <1>4, CatchFacts DEF Catch
<1>5. CASE Upload(h)
  <2>1. \A i \in Jobs \ {h.item} : announced'[i] = announced[i]
    BY <1>0, <1>5, AnnounceFacts DEF Upload, Event
  <2> QED
    BY <1>0, <1>1, <1>5, <2>1 DEF Upload, Advance, TypeOK
<1>6. CASE GenerateFails(h)
  <2>1. \A i \in Jobs \ {h.item} : files'[i] = files[i]
    BY <1>0, <1>6 DEF GenerateFails, TypeOK
  <2> QED
    BY <1>1, <1>4, <1>6, <2>1 DEF GenerateFails
<1>7. CASE RecordCompleted(h) \/ RecordFailed(h)
  BY <1>0, <1>1, <1>7 DEF RecordCompleted, RecordFailed, Advance, UpdateRecord, TypeOK
<1>8. CASE RecordCompletedFails(h)
  BY <1>1, <1>4, <1>8 DEF RecordCompletedFails
<1>9. CASE Done(h)
  BY <1>1, <1>3, <1>9, Ends DEF Done, RestrictPhases
<1>10. CASE DoneFailed(h)
  <2>1. \A i \in Jobs \ {h.item} : announced'[i] = announced[i]
    BY <1>0, <1>10, AnnounceFacts DEF DoneFailed, Event
  <2> QED
    BY <1>1, <1>3, <1>10, <2>1, Ends DEF DoneFailed, RestrictPhases
<1> QED
  BY <1>5, <1>6, <1>7, <1>8, <1>9, <1>10 DEF Work

(* The catch block leaves the job on the queue, or the handler at work.    *)
LEMMA CatchReturns ==
  ASSUME TypeOK, Queue!IInv, Queue!NeverDropped, NEW h \in handlers, Catch(h)
  PROVE  \/ /\ ~h.redelivered /\ handlers' = handlers \ {h}
            /\ broker'[h.item] = "ready" /\ redelivered'[h.item]
         \/ /\ h.redelivered /\ h \in handlers' /\ phase'[h] = "failing"
            /\ broker'[h.item] = "unacked" /\ redelivered'[h.item]
<1>0. h.item \in Jobs
  BY HandlerFacts
<1>1. CASE ~h.redelivered /\ Queue!Fail(h)
  <2>1. Queue!Settle(h, "ready")
    BY <1>1 DEF Queue!Fail, Queue!FailureTarget
  <2>2. /\ broker' = [broker EXCEPT ![h.item] = "ready"]
        /\ redelivered' =
              [redelivered EXCEPT ![h.item] = IF "ready" = "ready" THEN TRUE ELSE @]
        /\ handlers' = handlers \ {h}
    BY <2>1, Settling
  <2> QED
    BY <1>0, <1>1, <2>2 DEF TypeOK, Queue!TypeOK
<1>2. CASE h.redelivered /\ phase' = [phase EXCEPT ![h] = "failing"]
           /\ UNCHANGED queueVars
  BY <1>2, Alone DEF queueVars, TypeOK
<1> QED
  BY <1>1, <1>2 DEF Catch

(* done() and done(err) settle the job.                                    *)
LEMMA DoneSettles ==
  ASSUME TypeOK, Queue!IInv, Queue!NeverDropped, NEW h \in handlers
  PROVE  /\ Queue!Succeed(h) => broker'[h.item] = "acked"
         /\ Queue!Fail(h) => /\ broker'[h.item] = IF h.redelivered THEN "dead" ELSE "ready"
                             /\ redelivered'[h.item]
<1>0. h.item \in Jobs /\ redelivered[h.item] = h.redelivered /\ h.redelivered \in BOOLEAN
  BY HandlerFacts, Alone
<1>1. ASSUME Queue!Succeed(h)
      PROVE  broker'[h.item] = "acked"
  BY <1>0, <1>1, Settling DEF Queue!Succeed, TypeOK, Queue!TypeOK
<1>2. ASSUME Queue!Fail(h)
      PROVE  /\ broker'[h.item] = IF h.redelivered THEN "dead" ELSE "ready"
             /\ redelivered'[h.item]
  <2>1. PICK to \in {"ready", "dead"} :
            /\ Queue!Settle(h, to)
            /\ to = IF h.redelivered THEN "dead" ELSE "ready"
    BY <1>2 DEF Queue!Fail, Queue!FailureTarget
  <2>2. /\ broker' = [broker EXCEPT ![h.item] = to]
        /\ redelivered' =
              [redelivered EXCEPT ![h.item] = IF to = "ready" THEN TRUE ELSE @]
    BY <2>1, Settling
  <2> QED
    BY <1>0, <2>1, <2>2 DEF TypeOK, Queue!TypeOK
<1> QED
  BY <1>1, <1>2

(* Only a producer sends a job.                                            *)
LEMMA UnsentKept ==
  ASSUME Queue!IInv, NEW j \in Jobs, broker[j] = "unsent",
         Queue!Consume \/ Queue!Finish \/ Queue!Fault \/ Queue!Recover
                       \/ UNCHANGED Queue!vars
  PROVE  broker'[j] = "unsent"
<1>0. \A p \in Pods : held[p] # j
  BY DEF Queue!IInv, Queue!HeldOnce
<1>1. CASE Queue!Consume
  BY <1>1
     DEF Queue!Consume, Queue!Deliver, Queue!DeliverUnparseable, Queue!CanDeliver,
         Queue!IInv, Queue!TypeOK
<1>2. CASE Queue!Finish
  <2>1. ASSUME NEW h \in handlers, NEW to, Queue!Settle(h, to)
        PROVE  broker'[j] = "unsent"
    <3>1. h.pod \in Pods
      BY DEF Queue!IInv, Queue!TypeOK, Queue!Handler
    <3> QED
      BY <1>0, <2>1, <3>1
         DEF Queue!Settle, Queue!SettleNowhere, Queue!SettleHeld, Queue!SettleUnknown,
             Queue!ReturnHeld, Queue!IInv, Queue!TypeOK
  <2> QED
    BY <1>2, <2>1 DEF Queue!Finish, Queue!Succeed, Queue!Fail
<1>3. CASE Queue!Fault
  BY <1>0, <1>3 DEF Queue!Fault, Queue!Crash, Queue!Drop, Queue!ReturnHeld
<1>4. CASE Queue!Recover \/ UNCHANGED Queue!vars
  BY <1>4 DEF Queue!Recover, Queue!Reopen, Queue!vars, Queue!brokerVars
<1> QED
  BY <1>1, <1>2, <1>3, <1>4

(* A record is created while no handler knows its job.                     *)
LEMMA RecordedFirstStep ==
  TypeOK /\ Queue!IInv /\ RecordedFirst /\ [Next]_vars => RecordedFirst'
<1> SUFFICES ASSUME TypeOK, Queue!IInv, RecordedFirst, [Next]_vars,
                    NEW j \in Jobs, request'[j] \in {"none", "created"}
             PROVE  broker'[j] = "unsent"
  BY DEF RecordedFirst
<1> USE DEF queueVars, jobVars
<1>1. ASSUME NEW i \in Jobs, CreateJob(i) \/ Answer(i)
      PROVE  broker'[j] = "unsent"
  <2>1. request[j] \in {"none", "created"}
    BY <1>1 DEF CreateJob, Answer, TypeOK
  <2> QED
    BY <1>1, <2>1 DEF CreateJob, Answer, RecordedFirst
<1>2. ASSUME NEW i \in Jobs, SendJob(i)
      PROVE  broker'[j] = "unsent"
  <2>1. j # i /\ request[j] \in {"none", "created"}
    BY <1>2 DEF SendJob, TypeOK
  <2> QED
    BY <1>2, <2>1
       DEF SendJob, Queue!Enqueue, Queue!EnqueueLost, RecordedFirst, TypeOK,
           Queue!TypeOK
<1>3. ASSUME UNCHANGED request,
             Queue!Consume \/ Queue!Finish \/ Queue!Fault \/ Queue!Recover
                           \/ UNCHANGED Queue!vars
      PROVE  broker'[j] = "unsent"
  BY <1>3, UnsentKept DEF RecordedFirst
<1>4. UNCHANGED queueVars => UNCHANGED Queue!vars
  BY DEF Queue!vars, Queue!brokerVars, Queue!channelVars, Queue!historyVars
<1>5. ASSUME NEW p \in Pods, NEW i \in Jobs, Start(p, i)
      PROVE  broker'[j] = "unsent"
  BY <1>3, <1>5 DEF Start, Queue!Consume
<1>6. ASSUME NEW h \in handlers, Work(h)
      PROVE  broker'[j] = "unsent"
  <2>1. CASE Upload(h) \/ RecordCompleted(h) \/ RecordFailed(h)
    BY <1>3, <1>4, <2>1 DEF Upload, RecordCompleted, RecordFailed
  <2>2. CASE GenerateFails(h) \/ RecordCompletedFails(h)
    BY <1>3, <2>2, CatchStep DEF GenerateFails, RecordCompletedFails
  <2>3. CASE Done(h) \/ DoneFailed(h)
    BY <1>3, <2>3 DEF Done, DoneFailed, Queue!Finish
  <2> QED
    BY <1>6, <2>1, <2>2, <2>3 DEF Work
<1>7. CASE Fault
  BY <1>3, <1>7 DEF Fault, Crash, Drop, Queue!Fault
<1>8. CASE Recover
  BY <1>3, <1>8 DEF Recover, Reopen, Queue!Recover
<1>9. CASE (\E i \in Jobs : Expire(i)) \/ UNCHANGED vars
  BY <1>3, <1>4, <1>9 DEF Expire, vars
<1> QED
  BY <1>1, <1>2, <1>5, <1>6, <1>7, <1>8, <1>9 DEF Next, Request, Take

(* What a handler told last is still what was told last of its job.        *)
LEMMA HandlersTellStep ==
  TypeOK /\ Queue!IInv /\ RecordedFirst /\ HandlersTell /\ [Next]_vars => HandlersTell'
<1> DEFINE Tells(h) ==
      /\ phase[h] \in {"recording", "recorded"} => ToldLast(h.item, "generated")
      /\ phase[h] = "recorded" => record[h.item] \in {"completed", "none"}
      /\ phase[h] = "failRecorded" => record[h.item] \in {"failed", "none"}
<1> SUFFICES ASSUME TypeOK, Queue!IInv, RecordedFirst, HandlersTell, [Next]_vars,
                    Queue!NeverDropped', NEW g \in handlers'
             PROVE  Tells(g)'
  BY DEF HandlersTell
<1> USE DEF queueVars, jobVars
<1>0. Queue!NeverDropped /\ \A p \in Pods : ~Drop(p)
  BY NeverDroppedBefore
<1>1. \A h \in handlers : Tells(h) /\ h.item \in Jobs /\ broker[h.item] = "unacked"
  BY <1>0, Alone, HandlerFacts DEF HandlersTell
<1>2. ASSUME g \in handlers,
             phase'[g] = phase[g],
             record'[g.item] \in {record[g.item], "none"},
             announced'[g.item] = announced[g.item]
      PROVE  Tells(g)'
  BY <1>1, <1>2 DEF ToldLast
<1>3. CASE Request
  <2>1. UNCHANGED <<handlers, phase, announced>>
    BY <1>3 DEF Request, CreateJob, SendJob, Answer, Queue!Enqueue, Queue!EnqueueLost
  <2>2. ASSUME NEW j \in Jobs, CreateJob(j)
        PROVE  record'[g.item] = record[g.item]
    <3>1. broker[j] = "unsent"
      BY <2>2 DEF CreateJob, RecordedFirst
    <3> QED
      BY <1>1, <2>1, <2>2, <3>1 DEF CreateJob, TypeOK
  <2>3. record'[g.item] = record[g.item]
    BY <1>3, <2>2 DEF Request, SendJob, Answer
  <2> QED
    BY <1>2, <2>1, <2>3
<1>4. ASSUME NEW j \in Jobs, Expire(j)
      PROVE  Tells(g)'
  BY <1>1, <1>2, <1>4 DEF Expire, TypeOK
<1>5. ASSUME NEW p \in Pods, NEW j \in Jobs, Start(p, j)
      PROVE  Tells(g)'
  <2>1. CASE g \in handlers
    BY <1>2, <1>5, <2>1 DEF Start
  <2>2. CASE g \notin handlers
    BY <1>5, <2>2 DEF Start
  <2> QED
    BY <2>1, <2>2
<1>6. ASSUME NEW h \in handlers, Work(h)
      PROVE  Tells(g)'
  <2>1. CASE g # h
    <3>1. /\ g \in handlers /\ g.item \in Jobs \ {h.item} /\ phase'[g] = phase[g]
          /\ \A i \in Jobs \ {h.item} :
                 record'[i] = record[i] /\ announced'[i] = announced[i]
      BY <1>0, <1>6, <2>1, OthersKept
    <3> QED
      BY <1>2, <3>1
  <2>2. CASE g = h
    <3>1. CASE Upload(h)
      <4>1. phase'[h] = "recording" /\ ToldLast(h.item, "generated")'
        BY <1>1, <3>1, AnnounceFacts DEF Upload, Advance, TypeOK, Event
      <4> QED
        BY <2>2, <4>1
    <3>2. CASE RecordCompleted(h)
      <4>1. phase[h] = "recording" /\ phase'[h] = "recorded" /\ UNCHANGED announced
        BY <3>2 DEF RecordCompleted, Advance, TypeOK
      <4>2. record'[h.item] \in {"completed", "none"}
        BY <1>1, <3>2 DEF RecordCompleted, UpdateRecord, TypeOK
      <4> QED
        BY <1>1, <2>2, <4>1, <4>2 DEF ToldLast
    <3>3. CASE RecordFailed(h)
      <4>1. phase'[h] = "failRecorded"
        BY <3>3 DEF RecordFailed, Advance, TypeOK
      <4>2. record'[h.item] \in {"failed", "none"}
        BY <1>1, <3>3 DEF RecordFailed, UpdateRecord, TypeOK
      <4> QED
        BY <2>2, <4>1, <4>2
    <3>4. CASE GenerateFails(h) \/ RecordCompletedFails(h)
      <4>1. phase'[g] = "failing"
        BY <2>2, <3>4, CatchFacts DEF GenerateFails, RecordCompletedFails
      <4> QED
        BY <4>1
    <3>5. CASE Done(h) \/ DoneFailed(h)
      BY <2>2, <3>5, Ends DEF Done, DoneFailed
    <3> QED
      BY <1>6, <3>1, <3>2, <3>3, <3>4, <3>5 DEF Work
  <2> QED
    BY <2>1, <2>2
<1>7. ASSUME NEW p \in Pods, Crash(p)
      PROVE  Tells(g)'
  BY <1>2, <1>7 DEF Crash, Queue!Crash, RestrictPhases
<1>8. ASSUME NEW p \in Pods, Reopen(p)
      PROVE  Tells(g)'
  BY <1>2, <1>8 DEF Reopen, Queue!Reopen
<1>9. CASE UNCHANGED vars
  BY <1>2, <1>9 DEF vars
<1> QED
  BY <1>0, <1>3, <1>4, <1>5, <1>6, <1>7, <1>8, <1>9 DEF Next, Take, Fault, Recover

(* The last event and the record of a job are the verdict of the queue.    *)
LEMMA VerdictStep ==
  TypeOK /\ Queue!IInv /\ RecordedFirst /\ HandlersTell
         /\ LastAnnouncementIsVerdict /\ RecordIsVerdict /\ [Next]_vars
    => LastAnnouncementIsVerdict' /\ RecordIsVerdict'
<1> DEFINE Judged(j) ==
      /\ broker[j] = "acked" => ToldLast(j, "generated") /\ record[j] \in {"completed", "none"}
      /\ broker[j] = "dead" => ToldLast(j, "failed") /\ record[j] \in {"failed", "none"}
<1>a. /\ LastAnnouncementIsVerdict /\ RecordIsVerdict
        => (Queue!NeverDropped => \A j \in Jobs : Judged(j))
      /\ (Queue!NeverDropped' => \A j \in Jobs : Judged(j)')
        => LastAnnouncementIsVerdict' /\ RecordIsVerdict'
  BY DEF LastAnnouncementIsVerdict, RecordIsVerdict, Queue!Settled
<1> SUFFICES ASSUME TypeOK, Queue!IInv, RecordedFirst, HandlersTell,
                    LastAnnouncementIsVerdict, RecordIsVerdict, [Next]_vars,
                    Queue!NeverDropped', NEW j \in Jobs
             PROVE  Judged(j)'
  BY <1>a
<1> USE DEF queueVars, jobVars
<1>0. Queue!NeverDropped /\ \A p \in Pods : ~Drop(p)
  BY NeverDroppedBefore
<1>1. Judged(j)
  BY <1>0, <1>a
<1>2. ASSUME broker'[j] = broker[j],
             record'[j] \in {record[j], "none"},
             announced'[j] = announced[j]
      PROVE  Judged(j)'
  BY <1>1, <1>2 DEF ToldLast
<1>3. ASSUME broker'[j] \notin {"acked", "dead"}
      PROVE  Judged(j)'
  BY <1>3
<1>4. ASSUME NEW i \in Jobs, CreateJob(i) \/ Answer(i) \/ Expire(i)
      PROVE  Judged(j)'
  <2>1. CASE CreateJob(i)
    <3>1. broker[i] = "unsent"
      BY <2>1 DEF CreateJob, RecordedFirst
    <3>2. i # j => record'[j] = record[j]
      BY <2>1 DEF CreateJob, TypeOK
    <3> QED
      BY <1>2, <1>3, <2>1, <3>1, <3>2 DEF CreateJob
  <2>2. CASE Answer(i) \/ Expire(i)
    BY <1>2, <2>2 DEF Answer, Expire, TypeOK
  <2> QED
    BY <1>4, <2>1, <2>2
<1>5. ASSUME NEW i \in Jobs, SendJob(i)
      PROVE  Judged(j)'
  <2>1. broker'[j] \in {broker[j], "ready", "lost"}
    BY <1>5 DEF SendJob, Queue!Enqueue, Queue!EnqueueLost, TypeOK, Queue!TypeOK
  <2> QED
    BY <1>2, <1>3, <1>5, <2>1 DEF SendJob
<1>6. ASSUME NEW p \in Pods, NEW i \in Jobs, Start(p, i)
      PROVE  Judged(j)'
  <2>1. broker'[j] \in {broker[j], "unacked"}
    BY <1>6 DEF Start, Queue!Deliver, TypeOK, Queue!TypeOK
  <2> QED
    BY <1>2, <1>3, <1>6, <2>1 DEF Start
<1>7. ASSUME NEW h \in handlers, Work(h)
      PROVE  Judged(j)'
  <2>1. CASE j # h.item
    BY <1>0, <1>2, <1>7, <2>1, OthersKept
  <2>2. CASE j = h.item
    <3>1. broker[j] = "unacked"
      BY <1>0, <2>2, Alone
    <3>2. CASE Upload(h) \/ RecordCompleted(h) \/ RecordFailed(h)
      BY <1>3, <3>1, <3>2 DEF Upload, RecordCompleted, RecordFailed
    <3>3. CASE GenerateFails(h) \/ RecordCompletedFails(h)
      <4>1. Catch(h)
        BY <3>3 DEF GenerateFails, RecordCompletedFails
      <4>2. broker'[h.item] \in {"ready", "unacked"}
        BY <1>0, <4>1, CatchReturns
      <4> QED
        BY <1>3, <2>2, <4>2
    <3>4. CASE Done(h)
      <4>1. broker'[j] = "acked"
        BY <1>0, <2>2, <3>4, DoneSettles DEF Done
      <4>2. ToldLast(j, "generated") /\ record[j] \in {"completed", "none"}
        BY <1>0, <2>2, <3>4 DEF Done, HandlersTell
      <4> QED
        BY <3>4, <4>1, <4>2 DEF Done, ToldLast
    <3>5. CASE DoneFailed(h)
      <4>1. broker'[h.item] \in {"dead", "ready"}
        BY <1>0, <3>5, DoneSettles DEF DoneFailed
      <4>2. ToldLast(h.item, "failed")'
        BY <2>2, <3>5, AnnounceFacts DEF DoneFailed, Event
      <4>3. record'[h.item] \in {"failed", "none"}
        BY <1>0, <3>5 DEF DoneFailed, HandlersTell
      <4> QED
        BY <2>2, <4>1, <4>2, <4>3
    <3> QED
      BY <1>7, <3>2, <3>3, <3>4, <3>5 DEF Work
  <2> QED
    BY <2>1, <2>2
<1>8. ASSUME NEW p \in Pods, Crash(p)
      PROVE  Judged(j)'
  <2>1. broker'[j] \in {broker[j], "ready"}
    BY <1>8 DEF Crash, Queue!Crash, Queue!ReturnHeld
  <2> QED
    BY <1>2, <1>3, <1>8, <2>1 DEF Crash
<1>9. ASSUME NEW p \in Pods, Reopen(p)
      PROVE  Judged(j)'
  BY <1>2, <1>9 DEF Reopen, Queue!Reopen, Queue!brokerVars
<1>10. CASE UNCHANGED vars
  BY <1>2, <1>10 DEF vars
<1> HIDE DEF Judged
<1> QED
  BY <1>0, <1>4, <1>5, <1>6, <1>7, <1>8, <1>9, <1>10
     DEF Next, Request, Take, Fault, Recover

----------------------------------------------------------------------------
(* Files are bounded by deliveries.                                        *)

(* A delivery stores one file at most, and there are no more deliveries of *)
(* a job than one, one for the retry and one for every crash.              *)
LEMMA FilesCountedStep ==
  TypeOK /\ Queue!IInv /\ FilesCounted /\ [Next]_vars => FilesCounted'
<1> DEFINE JobCounted(j) ==
             /\ broker[j] \in {"unsent", "ready"} /\ ~redelivered[j] => files[j] = 0
             /\ broker[j] = "ready" => files[j] <= 1 + crashes
             /\ files[j] <= 2 + crashes
           WorkCounted(h) ==
             /\ ~h.redelivered => files[h.item] <= 1
             /\ phase[h] = "generating" =>
                    files[h.item] <= IF h.redelivered THEN 1 + crashes ELSE 0
<1> SUFFICES ASSUME TypeOK, Queue!IInv, FilesCounted, [Next]_vars, Queue!NeverDropped'
             PROVE  /\ \A j \in Jobs : JobCounted(j)'
                    /\ \A g \in handlers' : WorkCounted(g)'
  BY DEF FilesCounted
<1> USE DEF queueVars, jobVars
<1>0. Queue!NeverDropped /\ \A p \in Pods : ~Drop(p)
  BY NeverDroppedBefore
<1>1. /\ \A j \in Jobs : JobCounted(j) /\ files[j] \in Nat
      /\ \A h \in handlers : WorkCounted(h) /\ h.item \in Jobs
      /\ crashes \in Nat
  BY <1>0, HandlerFacts DEF FilesCounted, TypeOK, Queue!TypeOK
<1>2. ASSUME UNCHANGED <<broker, redelivered, handlers, phase, files, crashes>>
      PROVE  /\ \A j \in Jobs : JobCounted(j)'
             /\ \A g \in handlers' : WorkCounted(g)'
  BY <1>1, <1>2
<1>3. ASSUME NEW j \in Jobs, SendJob(j)
      PROVE  /\ \A i \in Jobs : JobCounted(i)'
             /\ \A g \in handlers' : WorkCounted(g)'
  <2>1. /\ UNCHANGED <<redelivered, handlers, phase, files, crashes>>
        /\ broker[j] = "unsent"
        /\ \A i \in Jobs \ {j} : broker'[i] = broker[i]
    BY <1>3 DEF SendJob, Queue!Enqueue, Queue!EnqueueLost, TypeOK, Queue!TypeOK
  <2>2. files[j] = 0
    BY <1>1, <2>1 DEF Queue!IInv, Queue!UnsentIsNew
  <2> QED
    BY <1>1, <2>1, <2>2
<1>4. ASSUME NEW p \in Pods, NEW j \in Jobs, Start(p, j)
      PROVE  /\ \A i \in Jobs : JobCounted(i)'
             /\ \A g \in handlers' : WorkCounted(g)'
  <2>1. /\ UNCHANGED <<redelivered, files, crashes>>
        /\ broker[j] = "ready" /\ broker'[j] = "unacked"
        /\ \A i \in Jobs \ {j} : broker'[i] = broker[i]
    BY <1>4 DEF Start, Queue!Deliver, Queue!CanDeliver, TypeOK, Queue!TypeOK
  <2>2. \A i \in Jobs : JobCounted(i)'
    BY <1>1, <2>1
  <2>3. ASSUME NEW g \in handlers'
        PROVE  WorkCounted(g)'
    <3>1. CASE g \in handlers
      <4>1. phase'[g] = phase[g]
        BY <1>4, <3>1 DEF Start
      <4> QED
        BY <1>1, <2>1, <3>1, <4>1
    <3>2. CASE g \notin handlers
      <4>1. g.item = j /\ g.redelivered = redelivered[j]
        BY <1>4, <3>2 DEF Start, Queue!Deliver
      <4>2. files'[g.item] = files[j] /\ crashes' = crashes
        BY <2>1, <4>1
      <4>3. /\ ~redelivered[j] => files[j] = 0
            /\ files[j] <= 1 + crashes
        BY <1>1, <2>1
      <4> QED
        BY <1>1, <4>1, <4>2, <4>3
    <3> QED
      BY <3>1, <3>2
  <2> QED
    BY <2>2, <2>3
<1>5. ASSUME NEW h \in handlers, Work(h)
      PROVE  /\ \A i \in Jobs : JobCounted(i)'
             /\ \A g \in handlers' : WorkCounted(g)'
  <2>0. /\ h.item \in Jobs /\ broker[h.item] = "unacked" /\ UNCHANGED crashes
        /\ redelivered[h.item] = h.redelivered /\ h.redelivered \in BOOLEAN
    BY <1>0, <1>5, Alone, HandlerFacts, OthersKept
  <2>1. ASSUME NEW i \in Jobs \ {h.item}
        PROVE  JobCounted(i)'
    BY <1>0, <1>1, <1>5, OthersKept
  <2>2. ASSUME NEW g \in handlers' \ {h}
        PROVE  WorkCounted(g)'
    <3>1. /\ g \in handlers /\ phase'[g] = phase[g]
          /\ files'[g.item] = files[g.item] /\ UNCHANGED crashes
      BY <1>0, <1>5, OthersKept
    <3> QED
      BY <1>1, <3>1
  <2>3. JobCounted(h.item)' /\ (h \in handlers' => WorkCounted(h)')
    <3>1. ASSUME NEW stored \in {0, 1}, phase[h] = "generating",
                 files' = [files EXCEPT ![h.item] = @ + stored]
          PROVE  /\ files'[h.item] \in Nat /\ files'[h.item] <= 2 + crashes
                 /\ ~h.redelivered => files'[h.item] <= 1
      <4>1. files'[h.item] = files[h.item] + stored
        BY <2>0, <3>1 DEF TypeOK
      <4> QED
        BY <1>1, <2>0, <3>1, <4>1
    <3>2. ASSUME UNCHANGED files
          PROVE  /\ files'[h.item] \in Nat /\ files'[h.item] <= 2 + crashes
                 /\ ~h.redelivered => files'[h.item] <= 1
      BY <1>1, <2>0, <3>2
    <3>3. /\ \/ broker'[h.item] \in {"unacked", "acked", "dead"}
             \/ broker'[h.item] = "ready" /\ redelivered'[h.item] /\ ~h.redelivered
          /\ h \in handlers' => phase'[h] # "generating"
      <4>1. CASE Upload(h) \/ RecordCompleted(h) \/ RecordFailed(h)
        BY <2>0, <4>1 DEF Upload, RecordCompleted, RecordFailed, Advance, TypeOK
      <4>2. CASE GenerateFails(h) \/ RecordCompletedFails(h)
        <5>1. Catch(h)
          BY <4>2 DEF GenerateFails, RecordCompletedFails
        <5> QED
          BY <1>0, <5>1, CatchReturns
      <4>3. CASE Done(h) \/ DoneFailed(h)
        BY <1>0, <4>3, DoneSettles, Ends DEF Done, DoneFailed
      <4> QED
        BY <1>5, <4>1, <4>2, <4>3 DEF Work
    <3>4. /\ files'[h.item] \in Nat /\ files'[h.item] <= 2 + crashes
          /\ ~h.redelivered => files'[h.item] <= 1
      <4>1. CASE Upload(h)
        BY <3>1, <4>1 DEF Upload, Advance
      <4>2. CASE GenerateFails(h)
        BY <3>1, <4>2 DEF GenerateFails
      <4>3. CASE UNCHANGED files
        BY <3>2, <4>3
      <4> QED
        BY <1>5, <4>1, <4>2, <4>3
           DEF Work, RecordCompleted, RecordCompletedFails, Done, RecordFailed, DoneFailed
    <3>5. files'[h.item] <= 1 => files'[h.item] <= 1 + crashes
      BY <1>1, <3>4
    <3> QED
      BY <2>0, <3>3, <3>4, <3>5
  <2> QED
    BY <2>1, <2>2, <2>3
<1>6. ASSUME NEW p \in Pods, Crash(p)
      PROVE  /\ \A i \in Jobs : JobCounted(i)'
             /\ \A g \in handlers' : WorkCounted(g)'
  <2>1. /\ crashes' = crashes + 1 /\ UNCHANGED files /\ handlers' \subseteq handlers
        /\ \A g \in handlers' : phase'[g] = phase[g]
        /\ \A i \in Jobs :
              \/ broker'[i] = broker[i] /\ redelivered'[i] = redelivered[i]
              \/ broker'[i] = "ready" /\ redelivered'[i]
    BY <1>6 DEF Crash, Queue!Crash, Queue!ReturnHeld, RestrictPhases
  <2>2. ASSUME NEW i \in Jobs
        PROVE  JobCounted(i)'
    BY <1>1, <2>1
  <2>3. ASSUME NEW g \in handlers'
        PROVE  WorkCounted(g)'
    BY <1>1, <2>1
  <2> QED
    BY <2>2, <2>3
<1>7. ASSUME NEW p \in Pods, Reopen(p)
      PROVE  UNCHANGED <<broker, redelivered, handlers, phase, files, crashes>>
  BY <1>7 DEF Reopen, Queue!Reopen, Queue!brokerVars
<1>8. ASSUME NEW j \in Jobs, CreateJob(j) \/ Answer(j) \/ Expire(j)
      PROVE  UNCHANGED <<broker, redelivered, handlers, phase, files, crashes>>
  BY <1>8 DEF CreateJob, Answer, Expire
<1>9. CASE UNCHANGED vars
  BY <1>2, <1>9 DEF vars
<1> HIDE DEF JobCounted, WorkCounted
<1> QED
  BY <1>0, <1>2, <1>3, <1>4, <1>5, <1>6, <1>7, <1>8, <1>9
     DEF Next, Request, Take, Fault, Recover

----------------------------------------------------------------------------
(* The safety properties.                                                  *)

(* The inductive invariant holds in every behaviour.                       *)
THEOREM Invariance == Spec => []IInv
<1> DEFINE Local == /\ TypeOK /\ RecordedFirst /\ CompletedHasFile /\ HandlersGenerated
                    /\ HandlersTell /\ LastAnnouncementIsVerdict /\ RecordIsVerdict
                    /\ FilesCounted
<1>1. Init => Local
  <2> SUFFICES ASSUME Init
               PROVE  Local
    OBVIOUS
  <2> USE DEF Init
  <2>1. TypeOK
    BY DEF TypeOK, Queue!Init, Queue!TypeOK, Queue!Location
  <2>2. RecordedFirst /\ CompletedHasFile
    BY DEF RecordedFirst, CompletedHasFile, Queue!Init
  <2>3. HandlersGenerated /\ HandlersTell
    BY DEF HandlersGenerated, HandlersTell, Queue!Init
  <2>4. LastAnnouncementIsVerdict /\ RecordIsVerdict
    BY DEF LastAnnouncementIsVerdict, RecordIsVerdict, Queue!Settled, Queue!Init
  <2>5. FilesCounted
    BY DEF FilesCounted, Queue!Init
  <2> QED
    BY <2>1, <2>2, <2>3, <2>4, <2>5
<1>2. Local /\ Queue!IInv /\ Queue!IInv' /\ [Next]_vars => Local'
  <2>1. Queue!IInv' => Queue!TypeOK'
    BY DEF Queue!IInv
  <2> QED
    BY <2>1, TypeStep, RecordedFirstStep, HandlersGeneratedStep, CompletedHasFileStep,
       HandlersTellStep, VerdictStep, FilesCountedStep
<1>3. Local /\ Queue!IInv => IInv
  BY DEF IInv
<1> HIDE DEF Local
<1>4. QED
  BY <1>1, <1>2, <1>3, QueueInvariance, PTL DEF Spec

(* The types of all variables are preserved by every operation.            *)
THEOREM TypeCorrect == Spec => []TypeOK
<1>1. IInv => TypeOK
  BY DEF IInv
<1>2. QED
  BY <1>1, Invariance, PTL

(* A completed record always has its file and its event, even after lost   *)
(* connections have put two handlers to work on one job.                   *)
THEOREM CompletedHasFileAlways == Spec => []CompletedHasFile
<1>1. IInv => CompletedHasFile
  BY DEF IInv
<1>2. QED
  BY <1>1, Invariance, PTL

(* Short of a lost connection, the last event sent for a settled job is    *)
(* the verdict of the queue.                                               *)
THEOREM LastAnnouncementIsVerdictAlways == Spec => []LastAnnouncementIsVerdict
<1>1. IInv => LastAnnouncementIsVerdict
  BY DEF IInv
<1>2. QED
  BY <1>1, Invariance, PTL

(* And so is its record, for as long as Redis keeps it.                    *)
THEOREM RecordIsVerdictAlways == Spec => []RecordIsVerdict
<1>1. IInv => RecordIsVerdict
  BY DEF IInv
<1>2. QED
  BY <1>1, Invariance, PTL

(* A job leaves two files at most, and one more for every crash.           *)
THEOREM FilesBoundedAlways == Spec => []FilesBounded
<1>1. IInv => FilesBounded
  BY DEF IInv, FilesCounted, FilesBounded
<1>2. QED
  BY <1>1, Invariance, PTL
=============================================================================
