------------------------ MODULE FileLifecycleProofs ------------------------
(***************************************************************************)
(* Proofs about FileLifecycle, for any files, any deletions of them and    *)
(* any number of crashes.                                                  *)
(***************************************************************************)
EXTENDS FileLifecycle, TLAPS

(* A partial save keeps key and owner fields as they are, whatever entity  *)
(* its handler has read.                                                   *)
LEMMA SaveFacts ==
  ASSUME TypeOK, NEW f \in Files, NEW entity, NEW fields \in SUBSET Field,
         "id" \notin fields, "owner" \notin fields, Save(f, entity, fields)
  PROVE  /\ doc' \in [Files -> SUBSET Field]
         /\ \A g \in Files : doc'[g] # {} => "id" \in doc'[g]
         /\ \A g \in Files : Found(g)' <=> Found(g)
         /\ \A g \in Files : g # f => doc'[g] = doc[g]
         /\ \A x \in Field \ {"id"} :
                x \in doc'[f] <=> IF x \in fields THEN x \in entity ELSE x \in doc[f]
<1> USE DEF TypeOK, Save, Field, Found
<1>1. doc'[f] = {"id"} \cup (doc[f] \ fields) \cup (entity \cap fields)
  OBVIOUS
<1>2. \A g \in Files : g # f => doc'[g] = doc[g]
  OBVIOUS
<1>3. {"id"} \cup (doc[f] \ fields) \cup (entity \cap fields) \in SUBSET Field
  OBVIOUS
<1>4. doc' \in [Files -> SUBSET Field]
  BY <1>3
<1> QED
  BY <1>1, <1>2, <1>4

(* So does the save of an access or a size, which changes nothing else.    *)
LEMMA TouchFacts ==
  ASSUME TypeOK, NEW f \in Files, Touch(f)
  PROVE  /\ doc' \in [Files -> SUBSET Field]
         /\ \A g \in Files : doc'[g] # {} => "id" \in doc'[g]
         /\ \A g \in Files : Found(g)' <=> Found(g)
         /\ \A g \in Files : \A x \in Field \ {"id"} : x \in doc'[g] <=> x \in doc[g]
<1>1. Save(f, {}, {})
  BY DEF Touch
<1> QED
  BY <1>1, SaveFacts

(* What the queue may do with an event.                                    *)
QueueTyped ==
    /\ item \in [Events -> {"unsent", "lost", "accepted", "retried", "acked", "dead"}]
    /\ succeeded \subseteq Events
    /\ failures \in [Events -> 0..2]

(* Sending an event keeps the types of the queue.                          *)
LEMMA AcceptTyped ==
  ASSUME TypeOK, NEW e \in Events, Queue!Accept(e)
  PROVE  QueueTyped'
BY DEF TypeOK, QueueTyped, Queue!Accept

(* So does the end of a handler, which fails no more than twice.           *)
LEMMA DoneTyped ==
  ASSUME TypeOK, QueueFollows, NEW e \in Events, JobDone(e) \/ JobFailed(e)
  PROVE  /\ QueueTyped'
         /\ job' = [job EXCEPT ![e] = "idle"]
<1>1. failures[e] \in 0 .. 2 /\ (item[e] \in {"accepted", "retried"} => failures[e] <= 1)
  BY DEF TypeOK, QueueFollows
<1>2. CASE JobDone(e)
  BY <1>2 DEF JobDone, Queue!Complete, TypeOK, QueueTyped
<1>3. CASE JobFailed(e)
  <2>1. item[e] \in {"accepted", "retried"} /\ failures' = [failures EXCEPT ![e] = @ + 1]
    BY <1>3 DEF JobFailed, Queue!Retry, Queue!GiveUp
  <2>2. failures' \in [Events -> 0..2]
    BY <1>1, <2>1 DEF TypeOK
  <2> QED
    BY <1>3, <2>2 DEF JobFailed, Queue!Retry, Queue!GiveUp, TypeOK, QueueTyped
<1> QED
  BY <1>2, <1>3

(* Every operation preserves the types of all variables.                   *)
LEMMA TypeStep == TypeOK /\ QueueFollows /\ [Next]_vars => TypeOK'
<1> SUFFICES ASSUME TypeOK, QueueFollows, [Next]_vars
             PROVE  TypeOK'
  OBVIOUS
<1> USE DEF storageVars, requestVars, queueVars, Events
<1>1. ASSUME NEW f \in Files, Upload(f)
      PROVE  TypeOK'
  <2>1. CASE SaveRecord(f)
    <3>1. doc' \in [Files -> SUBSET Field] /\ \A g \in Files : doc'[g] # {} => "id" \in doc'[g]
      BY <2>1 DEF SaveRecord, TypeOK, Field
    <3> QED
      BY <2>1, <3>1 DEF SaveRecord, UploadStep, TypeOK
  <2>2. CASE StoreContent(f)
    BY <2>2 DEF StoreContent, UploadStep, TypeOK
  <2>3. CASE SaveSize(f)
    BY <2>3, TouchFacts DEF SaveSize, UploadStep, TypeOK
  <2>4. CASE SendUploaded(f)
    BY <2>4, AcceptTyped DEF SendUploaded, UploadStep, TypeOK, QueueTyped
  <2>5. CASE UploadFails(f)
    BY <2>5 DEF UploadFails, UploadStep, TypeOK
  <2>6. CASE UndoContent(f)
    BY <2>6 DEF UndoContent, EraseContent, UploadStep, TypeOK
  <2>7. CASE UndoRecord(f)
    BY <2>7 DEF UndoRecord, EraseRecord, UploadStep, TypeOK
  <2> QED
    BY <1>1, <2>1, <2>2, <2>3, <2>4, <2>5, <2>6, <2>7 DEF Upload
<1>2. ASSUME NEW r \in Requests, Delete(r)
      PROVE  TypeOK'
  <2> USE TargetAssumption
  <2>1. CASE FindForDeletion(r)
    BY <2>1 DEF FindForDeletion, TypeOK
  <2>2. CASE MarkForDeletion(r)
    <3>1. Save(Target[r], {"deleted"}, {"deleted"}) /\ {"deleted"} \in SUBSET Field
      BY <2>2 DEF MarkForDeletion, Field
    <3> QED
      BY <2>2, <3>1, SaveFacts DEF MarkForDeletion, TypeOK
  <2>3. CASE SendDeleted(r)
    BY <2>3, AcceptTyped DEF SendDeleted, TypeOK, QueueTyped
  <2> QED
    BY <1>2, <2>1, <2>2, <2>3 DEF Delete
<1>3. ASSUME NEW f \in Files, NEW mode \in {"safe", "unsafe"},
             FindForDownload(f, mode) \/ OpenDownload(f, mode)
      PROVE  TypeOK'
  <2>1. CASE FindForDownload(f, mode)
    BY <2>1 DEF FindForDownload, TypeOK
  <2>2. CASE OpenDownload(f, mode)
    BY <2>2, TouchFacts DEF OpenDownload, TypeOK
  <2> QED
    BY <1>3, <2>1, <2>2
<1>4. ASSUME NEW f \in Files, Digest(f)
      PROVE  TypeOK'
  <2>1. digests' \subseteq Files \X {"get", "open", "write"}
    BY <1>4 DEF Digest, DigestGet, DigestOpen, DigestWrite, DigestEnds, DigestStep, TypeOK
  <2>2. CASE DigestWrite(f)
    <3>1. Save(f, {"digest"}, {"digest"}) /\ {"digest"} \in SUBSET Field
      BY <2>2 DEF DigestWrite, Field
    <3> QED
      BY <2>1, <2>2, <3>1, SaveFacts DEF DigestWrite, DigestStep, TypeOK
  <2>3. CASE DigestOpen(f)
    BY <2>1, <2>3, TouchFacts DEF DigestOpen, DigestStep, TypeOK
  <2>4. CASE DigestGet(f) \/ DigestEnds(f)
    BY <2>1, <2>4 DEF DigestGet, DigestEnds, DigestStep, TypeOK
  <2> QED
    BY <1>4, <2>2, <2>3, <2>4 DEF Digest
<1>5. ASSUME NEW f \in Files, TakeUploaded(f)
      PROVE  TypeOK'
  <2>1. digests' \subseteq Files \X {"get", "open", "write"}
    BY <1>5 DEF TakeUploaded, TypeOK
  <2>2. QueueTyped' /\ job' \in [Events -> {"idle", "scanning", "opened", "scanned",
                                            "erasing", "erased", "removed"}]
    <3>1. CASE JobStep(f, "idle", "scanning") /\ UNCHANGED queueVars
      BY <3>1 DEF JobStep, TypeOK, QueueTyped
    <3>2. CASE JobDone(f) \/ JobFailed(f)
      BY <3>2, DoneTyped DEF TypeOK
    <3> QED
      BY <1>5, <3>1, <3>2 DEF TakeUploaded
  <2> QED
    BY <1>5, <2>1, <2>2 DEF TakeUploaded, TypeOK, QueueTyped
<1>6. ASSUME NEW f \in Files, OpenForScan(f)
      PROVE  TypeOK'
  BY <1>6, TouchFacts DEF OpenForScan, JobStep, TypeOK
<1>7. ASSUME NEW f \in Files, SaveVerdict(f)
      PROVE  TypeOK'
  <2>1. Save(f, Verdict(f), {"scanned", "infected"}) /\ {"scanned", "infected"} \in SUBSET Field
    BY <1>7 DEF SaveVerdict, UpdateScanResult, Field
  <2> QED
    BY <1>7, <2>1, SaveFacts DEF SaveVerdict, JobStep, TypeOK
<1>8. ASSUME NEW r \in Requests, TakeDeleted(r)
      PROVE  TypeOK'
  <2>1. QueueTyped' /\ job' \in [Events -> {"idle", "scanning", "opened", "scanned",
                                            "erasing", "erased", "removed"}]
    <3>1. CASE JobStep(r, "idle", "erasing") /\ UNCHANGED queueVars
      BY <3>1 DEF JobStep, TypeOK, QueueTyped
    <3>2. CASE JobDone(r) \/ JobFailed(r)
      BY <3>2, DoneTyped DEF TypeOK
    <3> QED
      BY <1>8, <3>1, <3>2 DEF TakeDeleted
  <2> QED
    BY <1>8, <2>1 DEF TakeDeleted, TypeOK, QueueTyped
<1>9. ASSUME NEW r \in Requests, Erase(r)
      PROVE  TypeOK'
  BY <1>9, TargetAssumption DEF Erase, JobStep, EraseContent, EraseRecord, TypeOK
<1>10. ASSUME NEW e \in Events, JobDone(e) \/ JobFailed(e),
              UNCHANGED <<doc, storageVars, requestVars, digests, crashes>>
       PROVE  TypeOK'
  BY <1>10, DoneTyped DEF TypeOK, QueueTyped
<1>11. ASSUME NEW e \in Events, JobDies(e)
       PROVE  TypeOK'
  BY <1>11, BoundsAssumption DEF JobDies, Queue!Interrupt, TypeOK
<1>12. CASE UNCHANGED vars
  BY <1>12 DEF vars, TypeOK
<1> QED
  BY <1>1, <1>2, <1>3, <1>4, <1>5, <1>6, <1>7, <1>8, <1>9, <1>10, <1>11, <1>12
     DEF Next, Download, Work, ScanDone, DeleteDone, JobFails

----------------------------------------------------------------------------
(* What a step does to the queue and to the handlers.                      *)

(* What holds of an event that follows what is done to it.                 *)
Follows(e) ==
    /\ job[e] # "idle" => item[e] \in Queue!Accepted
    /\ item[e] \in {"unsent", "lost", "accepted"} => failures[e] = 0
    /\ item[e] = "retried" => failures[e] <= 1

(* The end of a handler concerns its event alone, which was sent before.   *)
LEMMA DoneFollows ==
  ASSUME TypeOK, QueueFollows, NEW e \in Events, JobDone(e) \/ JobFailed(e)
  PROVE  /\ Follows(e)'
         /\ item[e] # "unsent" /\ item'[e] # "unsent" /\ job'[e] = "idle"
         /\ \A d \in Events : d # e => /\ item'[d] = item[d]
                                       /\ job'[d] = job[d]
                                       /\ failures'[d] = failures[d]
<1> USE DEF TypeOK, QueueFollows, Follows, Queue!Accepted
<1>1. CASE JobDone(e)
  BY <1>1 DEF JobDone, Queue!Complete
<1>2. CASE JobFailed(e)
  <2>1. /\ job' = [job EXCEPT ![e] = "idle"]
        /\ failures' = [failures EXCEPT ![e] = @ + 1]
        /\ \/ item[e] = "accepted" /\ item' = [item EXCEPT ![e] = "retried"]
           \/ item[e] = "retried" /\ item' = [item EXCEPT ![e] = "dead"]
    BY <1>2 DEF JobFailed, Queue!Retry, Queue!GiveUp
  <2>2. failures[e] \in 0 .. 2 /\ failures'[e] = failures[e] + 1
    BY <2>1
  <2> QED
    BY <2>1, <2>2
<1> QED
  BY <1>1, <1>2

(* An event is on the queue once it was sent, and has a handler of its own *)
(* kind only while the queue has not let go of it.                         *)
LEMMA QueueStep == TypeOK /\ QueueFollows /\ [Next]_vars => QueueFollows'
<1> SUFFICES ASSUME TypeOK, QueueFollows, [Next]_vars
             PROVE  QueueFollows'
  OBVIOUS
<1> USE EventsAssumption DEF storageVars, requestVars, queueVars, Events, Queue!Accepted
<1>1. ASSUME NEW f \in Files, Upload(f)
      PROVE  QueueFollows'
  <2>1. CASE SendUploaded(f)
    BY <2>1 DEF SendUploaded, UploadStep, Queue!Accept, TypeOK, QueueFollows
  <2>2. CASE ~SendUploaded(f)
    <3>1. /\ UNCHANGED <<queueVars, job, request>>
          /\ \E to \in {"saved", "stored", "sized", "failing", "removing", "failed"} :
                 upload[f] # "finished" /\ upload' = [upload EXCEPT ![f] = to]
      BY <1>1, <2>2 DEF Upload, SaveRecord, StoreContent, SaveSize, UploadFails, UndoContent,
                        UndoRecord, UploadStep
    <3> QED
      BY <3>1 DEF TypeOK, QueueFollows
  <2> QED
    BY <2>1, <2>2
<1>2. ASSUME NEW r \in Requests, Delete(r)
      PROVE  QueueFollows'
  <2>1. CASE FindForDeletion(r) \/ MarkForDeletion(r)
    BY <2>1 DEF FindForDeletion, MarkForDeletion, TypeOK, QueueFollows
  <2>2. CASE SendDeleted(r)
    BY <2>2 DEF SendDeleted, Queue!Accept, TypeOK, QueueFollows
  <2> QED
    BY <1>2, <2>1, <2>2 DEF Delete
<1>3. ASSUME NEW f \in Files, Download(f) \/ Digest(f)
      PROVE  QueueFollows'
  <2>1. UNCHANGED <<queueVars, job, upload, request>>
    BY <1>3 DEF Download, FindForDownload, OpenDownload, Digest, DigestGet, DigestOpen,
                DigestWrite, DigestEnds, DigestStep
  <2> QED
    BY <2>1 DEF QueueFollows
<1>4. ASSUME NEW e \in Events, JobDone(e) \/ JobFailed(e), UNCHANGED requestVars
      PROVE  QueueFollows'
  BY <1>4, DoneFollows DEF QueueFollows, Follows
<1>5. ASSUME NEW f \in Files, TakeUploaded(f)
      PROVE  QueueFollows'
  <2>1. CASE JobStep(f, "idle", "scanning") /\ UNCHANGED queueVars
    BY <1>5, <2>1 DEF TakeUploaded, CanTake, JobStep, TypeOK, QueueFollows
  <2> QED
    BY <1>4, <1>5, <2>1 DEF TakeUploaded
<1>6. ASSUME NEW f \in Files, OpenForScan(f) \/ SaveVerdict(f)
      PROVE  QueueFollows'
  BY <1>6 DEF OpenForScan, SaveVerdict, JobStep, TypeOK, QueueFollows
<1>7. ASSUME NEW r \in Requests, TakeDeleted(r)
      PROVE  QueueFollows'
  <2>1. CASE JobStep(r, "idle", "erasing") /\ UNCHANGED queueVars
    BY <1>7, <2>1 DEF TakeDeleted, CanTake, JobStep, TypeOK, QueueFollows
  <2> QED
    BY <1>4, <1>7, <2>1 DEF TakeDeleted
<1>8. ASSUME NEW r \in Requests, Erase(r)
      PROVE  QueueFollows'
  BY <1>8 DEF Erase, JobStep, TypeOK, QueueFollows
<1>9. ASSUME NEW e \in Events, JobDies(e)
      PROVE  QueueFollows'
  BY <1>9 DEF JobDies, Queue!Interrupt, TypeOK, QueueFollows
<1>10. CASE UNCHANGED vars
  BY <1>10 DEF vars, QueueFollows
<1> QED
  BY <1>1, <1>2, <1>3, <1>4, <1>5, <1>6, <1>7, <1>8, <1>9, <1>10
     DEF Next, Work, ScanDone, DeleteDone, JobFails

(* Only its own handler takes an event further: everyone else leaves it    *)
(* alone, sends it or interrupts it.                                       *)
LEMMA OthersWork ==
  ASSUME TypeOK, QueueFollows, [Next]_vars, NEW d \in Events
  PROVE  /\ job'[d] = job[d] \/ Work(d) \/ job'[d] = "idle"
         /\ item'[d] = item[d] \/ Work(d) \/ item'[d] # "acked"
<1> USE DEF queueVars
<1>1. ASSUME NEW f \in Files, Upload(f) \/ Download(f) \/ Digest(f)
      PROVE  job'[d] = job[d] /\ (item'[d] = item[d] \/ item'[d] # "acked")
  BY <1>1 DEF Upload, UploadStep, SaveRecord, StoreContent, SaveSize, SendUploaded,
              UploadFails, UndoContent, UndoRecord, Download, FindForDownload, OpenDownload,
              Digest, DigestGet, DigestOpen, DigestWrite, DigestEnds, DigestStep, Queue!Accept,
              TypeOK, Events
<1>2. ASSUME NEW r \in Requests, Delete(r)
      PROVE  job'[d] = job[d] /\ (item'[d] = item[d] \/ item'[d] # "acked")
  BY <1>2 DEF Delete, FindForDeletion, MarkForDeletion, SendDeleted, Queue!Accept,
              TypeOK, Events
<1>3. ASSUME NEW e \in Events, e # d, Work(e)
      PROVE  job'[d] = job[d] /\ item'[d] = item[d]
  <2>1. CASE JobDone(e) \/ JobFailed(e)
    BY <1>3, <2>1, DoneFollows
  <2>2. CASE UNCHANGED queueVars /\ \E to : job' = [job EXCEPT ![e] = to]
    BY <1>3, <2>2 DEF TypeOK
  <2>3. ASSUME NEW from, NEW to, JobStep(e, from, to)
        PROVE  \E x : job' = [job EXCEPT ![e] = x]
    BY <2>3 DEF JobStep
  <2> QED
    BY <1>3, <2>1, <2>2, <2>3 DEF Work, TakeUploaded, OpenForScan, SaveVerdict, ScanDone,
                                  TakeDeleted, Erase, DeleteDone, JobFails
<1>4. ASSUME NEW e \in Events, JobDies(e)
      PROVE  /\ job'[d] = job[d] \/ job'[d] = "idle"
             /\ item'[d] = item[d] \/ item'[d] # "acked"
  BY <1>4 DEF JobDies, Queue!Interrupt, TypeOK
<1> QED
  BY <1>1, <1>2, <1>3, <1>4 DEF Next, vars

----------------------------------------------------------------------------
(* What a step does to a document.                                         *)

(* Only an upload makes a record, only an erasure takes it away, only a    *)
(* scan writes a verdict, and no other write takes away a mark or verdict. *)
LEMMA DocStep ==
  ASSUME TypeOK, [Next]_vars, NEW f \in Files
  PROVE  \/ SaveRecord(f)
         \/ UndoRecord(f)
         \/ \E r \in Requests : Erase(r) /\ job[r] = "erased" /\ Target[r] = f
         \/ SaveVerdict(f)
         \/ /\ Found(f)' <=> Found(f)
            /\ "deleted" \in doc[f] => "deleted" \in doc'[f]
            /\ \A x \in {"scanned", "infected"} : x \in doc'[f] <=> x \in doc[f]
<1> DEFINE Kept ==
      /\ Found(f)' <=> Found(f)
      /\ "deleted" \in doc[f] => "deleted" \in doc'[f]
      /\ \A x \in {"scanned", "infected"} : x \in doc'[f] <=> x \in doc[f]
<1> USE DEF Field
<1>1. ASSUME UNCHANGED doc
      PROVE  Kept
  BY <1>1 DEF Found
<1>2. ASSUME NEW g \in Files, Touch(g)
      PROVE  Kept
  BY <1>2, TouchFacts DEF Kept
<1>3. ASSUME NEW g \in Files, NEW fields \in SUBSET {"deleted", "digest"}, Save(g, fields, fields)
      PROVE  Kept
  <2>1. /\ Found(f)' <=> Found(f)
        /\ g # f => doc'[f] = doc[f]
        /\ \A x \in Field \ {"id"} :
               x \in doc'[g] <=> IF x \in fields THEN x \in fields ELSE x \in doc[g]
    BY <1>3, SaveFacts
  <2> QED
    BY <2>1
<1>4. ASSUME NEW g \in Files, g # f, SaveRecord(g) \/ UndoRecord(g) \/ SaveVerdict(g)
      PROVE  Kept
  BY <1>4 DEF SaveRecord, UndoRecord, EraseRecord, SaveVerdict, UpdateScanResult, Save, Found,
              TypeOK
<1>5. ASSUME NEW g \in Files, Upload(g), ~SaveRecord(f), ~UndoRecord(f)
      PROVE  Kept
  BY <1>1, <1>2, <1>4, <1>5
     DEF Upload, StoreContent, SaveSize, SendUploaded, UploadFails, UndoContent
<1>6. ASSUME NEW r \in Requests, Delete(r)
      PROVE  Kept
  BY <1>1, <1>3, <1>6, TargetAssumption
     DEF Delete, FindForDeletion, MarkForDeletion, SendDeleted
<1>7. ASSUME NEW g \in Files, Download(g) \/ Digest(g)
      PROVE  Kept
  BY <1>1, <1>2, <1>3, <1>7
     DEF Download, FindForDownload, OpenDownload, Digest, DigestGet, DigestOpen, DigestWrite,
         DigestEnds
<1>8. ASSUME NEW r \in Requests, Erase(r), ~(job[r] = "erased" /\ Target[r] = f)
      PROVE  Kept
  <2>1. CASE UNCHANGED doc
    BY <1>1, <2>1
  <2>2. CASE job[r] = "erased" /\ EraseRecord(Target[r])
    BY <1>8, <2>2, TargetAssumption DEF EraseRecord, Found, TypeOK
  <2> QED
    BY <1>8, <2>1, <2>2 DEF Erase, JobStep
<1>9. ASSUME NEW e \in Events, Work(e) \/ JobDies(e), ~SaveVerdict(f),
             ~\E r \in Requests : Erase(r) /\ job[r] = "erased" /\ Target[r] = f
      PROVE  Kept
  BY <1>1, <1>2, <1>4, <1>8, <1>9
     DEF Work, TakeUploaded, OpenForScan, ScanDone, TakeDeleted, DeleteDone, JobFails, JobDies
<1>10. CASE UNCHANGED vars
  BY <1>1, <1>10 DEF vars
<1> QED
  BY <1>5, <1>6, <1>7, <1>9, <1>10 DEF Next

(* Content comes with an upload, a safe download with a look at the file,  *)
(* and a delivery with a download.                                         *)
LEMMA StorageStep ==
  ASSUME TypeOK, [Next]_vars, NEW f \in Files
  PROVE  /\ Upload(f) \/ upload'[f] = upload[f]
         /\ f \in blob' => f \in blob \/ StoreContent(f)
         /\ f \in tainted' => f \in tainted \/ StoreContent(f)
         /\ f \in early => f \in early'
         /\ f \in served' => f \in served \/ <<f, "safe">> \in reading
         /\ <<f, "safe">> \in reading' => <<f, "safe">> \in reading \/ FindForDownload(f, "safe")
<1> USE DEF storageVars, requestVars
<1>1. ASSUME NEW g \in Files, Upload(g)
      PROVE  /\ Upload(f) \/ upload'[f] = upload[f]
             /\ f \in blob' => f \in blob \/ StoreContent(f)
             /\ f \in tainted' => f \in tainted \/ StoreContent(f)
             /\ UNCHANGED <<early, served, reading>>
  <2>1. CASE g = f
    BY <1>1, <2>1 DEF Upload, UploadStep, SaveRecord, StoreContent, SaveSize, SendUploaded,
                      UploadFails, UndoContent, UndoRecord, EraseContent
  <2>2. CASE g # f
    BY <1>1, <2>2 DEF Upload, UploadStep, SaveRecord, StoreContent, SaveSize, SendUploaded,
                      UploadFails, UndoContent, UndoRecord, EraseContent, TypeOK
  <2> QED
    BY <2>1, <2>2
<1>2. ASSUME NEW r \in Requests, Delete(r)
      PROVE  /\ UNCHANGED <<upload, blob, tainted, served, reading>>
             /\ f \in early => f \in early'
  BY <1>2 DEF Delete, FindForDeletion, MarkForDeletion, SendDeleted
<1>3. ASSUME NEW g \in Files, NEW mode \in {"safe", "unsafe"},
             FindForDownload(g, mode) \/ OpenDownload(g, mode)
      PROVE  /\ UNCHANGED <<upload, blob, tainted, early>>
             /\ f \in served' => f \in served \/ <<f, "safe">> \in reading
             /\ <<f, "safe">> \in reading' =>
                    <<f, "safe">> \in reading \/ FindForDownload(f, "safe")
  BY <1>3 DEF FindForDownload, OpenDownload
<1>4. ASSUME NEW g \in Files, Digest(g)
      PROVE  UNCHANGED <<upload, blob, tainted, early, served, reading>>
  BY <1>4 DEF Digest, DigestGet, DigestOpen, DigestWrite, DigestEnds, DigestStep
<1>5. ASSUME NEW e \in Events, Work(e) \/ JobDies(e)
      PROVE  /\ UNCHANGED <<upload, tainted, early, served, reading>>
             /\ f \in blob' => f \in blob
  BY <1>5 DEF Work, TakeUploaded, OpenForScan, SaveVerdict, ScanDone, TakeDeleted, Erase,
              EraseContent, DeleteDone, JobFails, JobDies
<1>6. CASE UNCHANGED vars
  BY <1>6 DEF vars
<1> QED
  BY <1>1, <1>2, <1>3, <1>4, <1>5, <1>6 DEF Next, Download

(* A handler works on a file whose upload has ended, or on a deletion that *)
(* was sent.                                                               *)
LEMMA HandledWasSent ==
  ASSUME QueueFollows
  PROVE  /\ \A f \in Files : job[f] # "idle" \/ item[f] # "unsent" => upload[f] = "finished"
         /\ \A r \in Requests : job[r] # "idle" \/ item[r] # "unsent" => request[r] = "finished"
BY DEF QueueFollows, Queue!Accepted, Events

----------------------------------------------------------------------------
(* The parts of the invariant.                                             *)

(* Uploads stay in order: who deletes a file meanwhile has made it early.  *)
LEMMA UploadsStep == IInv /\ [Next]_vars => UploadsInOrder'
<1> SUFFICES ASSUME IInv, [Next]_vars, NEW f \in Files
             PROVE  /\ upload'[f] = "none" => ~Found(f)'
                    /\ upload'[f] \in {"none", "removing", "failed"} => f \notin blob'
                    /\ /\ f \notin early'
                       /\ upload'[f] \in {"saved", "stored", "sized", "failing", "removing"}
                       => Found(f)'
                    /\ upload'[f] # "finished" =>
                           /\ "scanned" \notin doc'[f] /\ f \notin served'
                           /\ <<f, "safe">> \notin reading'
  BY DEF UploadsInOrder
<1>1. TypeOK /\ QueueFollows /\ UploadsInOrder /\ DeletionsInOrder
  BY DEF IInv
<1>2. CASE Upload(f)
  <2>1. UNCHANGED <<early, served, reading>> /\ upload[f] # "finished"
    BY <1>2 DEF Upload, UploadStep, SaveRecord, StoreContent, SaveSize, SendUploaded,
                UploadFails, UndoContent, UndoRecord
  <2>2. CASE SaveRecord(f)
    BY <1>1, <2>1, <2>2 DEF SaveRecord, UploadStep, storageVars, TypeOK, UploadsInOrder, Found
  <2>3. CASE StoreContent(f)
    BY <1>1, <2>1, <2>3 DEF StoreContent, UploadStep, TypeOK, UploadsInOrder, Found
  <2>4. CASE SaveSize(f)
    BY <1>1, <2>1, <2>4, TouchFacts
       DEF SaveSize, UploadStep, storageVars, TypeOK, UploadsInOrder, Field
  <2>5. CASE SendUploaded(f)
    BY <1>1, <2>1, <2>5 DEF SendUploaded, UploadStep, TypeOK, UploadsInOrder
  <2>6. CASE UploadFails(f)
    BY <1>1, <2>1, <2>6 DEF UploadFails, UploadStep, storageVars, TypeOK, UploadsInOrder, Found
  <2>7. CASE UndoContent(f)
    BY <1>1, <2>1, <2>7
       DEF UndoContent, EraseContent, UploadStep, TypeOK, UploadsInOrder, Found
  <2>8. CASE UndoRecord(f)
    BY <1>1, <2>1, <2>8
       DEF UndoRecord, EraseRecord, UploadStep, storageVars, TypeOK, UploadsInOrder, Found
  <2> QED
    BY <1>2, <2>2, <2>3, <2>4, <2>5, <2>6, <2>7, <2>8 DEF Upload
<1>3. CASE ~Upload(f)
  <2>1. /\ upload'[f] = upload[f]
        /\ f \in blob' => f \in blob
        /\ f \in early => f \in early'
        /\ f \in served' => f \in served \/ <<f, "safe">> \in reading
        /\ <<f, "safe">> \in reading' =>
               <<f, "safe">> \in reading \/ FindForDownload(f, "safe")
    BY <1>1, <1>3, StorageStep DEF Upload
  <2>2. FindForDownload(f, "safe") => upload[f] = "finished"
    BY <1>1 DEF FindForDownload, UploadsInOrder
  <2>3. CASE \E r \in Requests : Erase(r) /\ job[r] = "erased" /\ Target[r] = f
    <3>1. PICK r \in Requests : Erase(r) /\ job[r] = "erased" /\ Target[r] = f
      BY <2>3
    <3>2. doc'[f] = {}
      BY <1>1, <3>1, TargetAssumption DEF Erase, EraseRecord, JobStep, TypeOK
    <3>3. f \notin early => upload[f] = "finished"
      BY <1>1, <3>1, HandledWasSent DEF DeletionsInOrder
    <3> QED
      BY <1>1, <2>1, <2>2, <3>2, <3>3 DEF UploadsInOrder, Found
  <2>4. CASE SaveVerdict(f)
    <3>1. upload[f] = "finished"
      BY <1>1, <2>4, HandledWasSent DEF SaveVerdict, JobStep
    <3> QED
      BY <2>1, <3>1
  <2>5. CASE /\ Found(f)' <=> Found(f)
             /\ \A x \in {"scanned", "infected"} : x \in doc'[f] <=> x \in doc[f]
    BY <1>1, <2>1, <2>2, <2>5 DEF UploadsInOrder
  <2> QED
    BY <1>1, <1>3, <2>3, <2>4, <2>5, DocStep DEF Upload
<1> QED
  BY <1>2, <1>3

(* A record that is gone after its upload began does not come back.        *)
LEMMA GoneForGood ==
  ASSUME TypeOK, QueueFollows, [Next]_vars, NEW f \in Files, upload[f] # "none", ~Found(f)
  PROVE  ~Found(f)'
<1>1. CASE SaveRecord(f)
  BY <1>1 DEF SaveRecord, UploadStep
<1>2. CASE UndoRecord(f)
  BY <1>2 DEF UndoRecord, EraseRecord, Found, TypeOK
<1>3. CASE \E r \in Requests : Erase(r) /\ job[r] = "erased" /\ Target[r] = f
  BY <1>3 DEF Erase, EraseRecord, JobStep, Found, TypeOK
<1>4. CASE SaveVerdict(f)
  <2>1. Save(f, Verdict(f), {"scanned", "infected"}) /\ {"scanned", "infected"} \in SUBSET Field
    BY <1>4 DEF SaveVerdict, UpdateScanResult, Field
  <2> QED
    BY <2>1, SaveFacts
<1> QED
  BY <1>1, <1>2, <1>3, <1>4, DocStep

(* Deletions stay in order.                                                *)
LEMMA DeletionsStep == IInv /\ [Next]_vars => DeletionsInOrder'
<1> SUFFICES ASSUME IInv, [Next]_vars, NEW r \in Requests
             PROVE  /\ request'[r] # "none" =>
                           /\ upload'[Target[r]] # "none"
                           /\ Target[r] \notin early' => upload'[Target[r]] = "finished"
                    /\ job'[r] = "erased" => Target[r] \notin blob' \ early'
                    /\ job'[r] = "removed" \/ item'[r] = "acked" => ~Found(Target[r])'
  BY DEF DeletionsInOrder
<1> DEFINE f == Target[r]
<1>1. TypeOK /\ QueueFollows /\ UploadsInOrder /\ DeletionsInOrder /\ f \in Files
  BY TargetAssumption DEF IInv
<1> HIDE DEF f
<1>2. /\ upload[f] # "none" => upload'[f] # "none"
      /\ upload[f] = "finished" => upload'[f] = "finished"
      /\ StoreContent(f) => upload[f] = "saved"
      /\ f \in early => f \in early'
  BY <1>1, StorageStep
     DEF Upload, UploadStep, SaveRecord, StoreContent, SaveSize, SendUploaded,
         UploadFails, UndoContent, UndoRecord, TypeOK
<1>3. request'[r] = request[r] \/ FindForDeletion(r) \/ request[r] # "none"
  <2>1. ASSUME NEW q \in Requests, Delete(q)
        PROVE  request'[r] = request[r] \/ FindForDeletion(r) \/ request[r] # "none"
    BY <1>1, <2>1 DEF Delete, FindForDeletion, MarkForDeletion, SendDeleted, TypeOK
  <2>2. ASSUME NEW g \in Files, Upload(g) \/ Download(g) \/ Digest(g)
        PROVE  UNCHANGED request
    BY <2>2 DEF Upload, UploadStep, SaveRecord, StoreContent, SaveSize, SendUploaded,
                UploadFails, UndoContent, UndoRecord, Download, FindForDownload, OpenDownload,
                Digest, DigestGet, DigestOpen, DigestWrite, DigestEnds, DigestStep, requestVars
  <2>3. ASSUME NEW e \in Events, Work(e) \/ JobDies(e)
        PROVE  UNCHANGED request
    BY <2>3 DEF Work, TakeUploaded, OpenForScan, SaveVerdict, ScanDone, TakeDeleted, Erase,
                DeleteDone, JobFails, JobDies, requestVars
  <2> QED
    BY <2>1, <2>2, <2>3 DEF Next, vars, requestVars
<1>4. request'[r] # "none" =>
          upload'[f] # "none" /\ (f \notin early' => upload'[f] = "finished")
  <2>1. CASE FindForDeletion(r)
    BY <1>1, <1>2, <2>1 DEF FindForDeletion, UploadsInOrder, f
  <2> QED
    BY <1>1, <1>2, <1>3, <2>1 DEF DeletionsInOrder, f
<1>5. /\ job'[r] = job[r] \/ Work(r) \/ job'[r] = "idle"
      /\ item'[r] = item[r] \/ Work(r) \/ item'[r] # "acked"
  BY <1>1, OthersWork DEF Events
<1>6. CASE Work(r)
  <2>1. request[r] = "finished"
    BY <1>1, <1>6, HandledWasSent, EventsAssumption
       DEF Work, TakeDeleted, CanTake, Queue!Accepted, Erase, JobStep, DeleteDone, JobFails
  <2>2. TakeDeleted(r) \/ Erase(r) \/ DeleteDone(r) \/ JobFails(r)
    BY <1>6, EventsAssumption DEF Work
  <2>3. CASE JobFailed(r)
    <3>1. job'[r] = "idle" /\ item'[r] # "acked"
      BY <1>1, <2>3 DEF JobFailed, Queue!Retry, Queue!GiveUp, TypeOK, Events
    <3> QED
      BY <1>4, <3>1 DEF f
  <2>4. CASE JobDone(r) /\ (job[r] = "removed" \/ ~Found(f))
    <3>1. ~Found(f) /\ upload[f] # "none" /\ job'[r] = "idle"
      BY <1>1, <2>1, <2>4 DEF DeletionsInOrder, JobDone, TypeOK, Events, f
    <3> QED
      BY <1>1, <1>4, <3>1, GoneForGood DEF f
  <2>5. CASE JobStep(r, "idle", "erasing") /\ UNCHANGED queueVars
    <3>1. job'[r] = "erasing" /\ item'[r] = item[r]
      BY <1>1, <2>5 DEF JobStep, TypeOK, Events, queueVars
    <3>2. item[r] # "acked"
      BY <1>1, <2>2, <2>5 DEF TakeDeleted, CanTake, Queue!Accepted, Erase, DeleteDone, JobFails,
                              JobStep, QueueFollows, Events
    <3> QED
      BY <1>4, <3>1, <3>2 DEF f
  <2>6. CASE Erase(r)
    <3>1. CASE JobStep(r, "erasing", "erased") /\ EraseContent(f)
      BY <1>1, <1>4, <2>6, <3>1
         DEF Erase, JobStep, EraseContent, TypeOK, Events, QueueFollows, Queue!Accepted,
             queueVars, f
    <3>2. CASE JobStep(r, "erased", "removed") /\ EraseRecord(f)
      BY <1>1, <1>4, <3>2 DEF JobStep, EraseRecord, TypeOK, Events, Found, f
    <3> QED
      BY <2>6, <3>1, <3>2 DEF Erase, f
  <2> QED
    BY <2>2, <2>3, <2>4, <2>5, <2>6 DEF TakeDeleted, DeleteDone, JobFails, f
<1>7. CASE ~Work(r)
  <2>1. /\ job'[r] = job[r] \/ job'[r] = "idle"
        /\ item'[r] = item[r] \/ item'[r] # "acked"
    BY <1>5, <1>7
  <2>2. job[r] # "idle" \/ item[r] = "acked" => request[r] = "finished"
    BY <1>1, HandledWasSent
  <2>3. job'[r] = "erased" => f \notin blob' \ early'
    BY <1>1, <1>2, <2>1, <2>2, StorageStep DEF DeletionsInOrder, f
  <2>4. job'[r] = "removed" \/ item'[r] = "acked" => ~Found(f)'
    BY <1>1, <2>1, <2>2, GoneForGood DEF DeletionsInOrder, f
  <2> QED
    BY <1>4, <2>3, <2>4 DEF f
<1> QED
  BY <1>6, <1>7

(* A verdict is saved with its infection, and content is only stored       *)
(* before anyone can scan it.                                              *)
LEMMA VerdictsStep == IInv /\ [Next]_vars => VerdictsAreTrue'
<1> SUFFICES ASSUME IInv, [Next]_vars, NEW f \in Files
             PROVE  /\ "scanned" \in doc'[f] /\ f \in tainted' => "infected" \in doc'[f]
                    /\ <<f, "safe">> \in reading' => f \notin tainted'
                    /\ job'[f] = "scanned" => "scanned" \in doc'[f] \/ ~Found(f)'
  BY DEF VerdictsAreTrue
<1>1. TypeOK /\ QueueFollows /\ UploadsInOrder /\ VerdictsAreTrue
  BY DEF IInv
<1>2. /\ f \in tainted' => f \in tainted \/ StoreContent(f)
      /\ <<f, "safe">> \in reading' => <<f, "safe">> \in reading \/ FindForDownload(f, "safe")
  BY <1>1, StorageStep
<1>3. CASE StoreContent(f)
  <2>1. upload[f] = "saved" /\ UNCHANGED <<doc, reading, job>>
    BY <1>3 DEF StoreContent, UploadStep
  <2> QED
    BY <1>1, <2>1 DEF UploadsInOrder, VerdictsAreTrue, QueueFollows, Queue!Accepted, Found,
                      Events
<1>4. CASE SaveVerdict(f)
  <2>1. Save(f, Verdict(f), {"scanned", "infected"}) /\ {"scanned", "infected"} \in SUBSET Field
    BY <1>4 DEF SaveVerdict, UpdateScanResult, Field
  <2>2. \A x \in {"scanned", "infected"} : x \in doc'[f] <=> x \in Verdict(f)
    BY <1>1, <2>1, SaveFacts DEF Field
  <2>3. UNCHANGED <<tainted, reading>>
    BY <1>4 DEF SaveVerdict, storageVars, requestVars
  <2> QED
    BY <1>1, <2>2, <2>3 DEF Verdict, VerdictsAreTrue
<1>5. CASE ~StoreContent(f) /\ ~SaveVerdict(f)
  <2>1. /\ "scanned" \in doc'[f] =>
               "scanned" \in doc[f] /\ ("infected" \in doc[f] => "infected" \in doc'[f])
        /\ "scanned" \in doc[f] => "scanned" \in doc'[f] \/ ~Found(f)' \/ upload[f] = "none"
    <3>1. CASE SaveRecord(f)
      BY <1>1, <3>1 DEF SaveRecord, UploadStep, TypeOK
    <3>2. CASE UndoRecord(f)
      BY <1>1, <3>2 DEF UndoRecord, EraseRecord, TypeOK, Found
    <3>3. CASE \E r \in Requests : Erase(r) /\ job[r] = "erased" /\ Target[r] = f
      BY <1>1, <3>3 DEF Erase, EraseRecord, JobStep, TypeOK, Found
    <3> QED
      BY <1>1, <1>5, <3>1, <3>2, <3>3, DocStep
  <2>2. <<f, "safe">> \in reading' => f \notin tainted'
    BY <1>1, <1>2, <1>5 DEF FindForDownload, Readable, VerdictsAreTrue
  <2>3. CASE job'[f] = "scanned"
    <3>1. job[f] = "scanned"
      <4>1. CASE Work(f)
        BY <1>1, <1>5, <2>3, <4>1, EventsAssumption
           DEF Work, TakeUploaded, OpenForScan, ScanDone, JobFails, JobFailed, JobDone, JobStep,
               TypeOK, Events
      <4> QED
        BY <1>1, <2>3, <4>1, OthersWork DEF Events
    <3>2. upload[f] = "finished"
      BY <1>1, <3>1, HandledWasSent
    <3> QED
      BY <1>1, <1>2, <1>5, <2>1, <2>2, <3>1, <3>2, GoneForGood DEF VerdictsAreTrue
  <2> QED
    BY <1>1, <1>2, <1>5, <2>1, <2>2, <2>3 DEF VerdictsAreTrue
<1> QED
  BY <1>3, <1>4, <1>5

(* What a download has delivered was found clean.                          *)
LEMMA ServedStep == IInv /\ [Next]_vars => NoInfectedServed'
<1> SUFFICES ASSUME IInv, [Next]_vars, NEW f \in served', f \in tainted'
             PROVE  FALSE
  BY DEF NoInfectedServed
<1>1. f \in Files /\ TypeOK
  BY TypeStep DEF IInv, TypeOK
<1>2. f \in served \/ <<f, "safe">> \in reading
  BY <1>1, StorageStep
<1>3. f \in tainted \/ upload[f] = "saved"
  BY <1>1, StorageStep DEF StoreContent, UploadStep
<1> QED
  BY <1>1, <1>2, <1>3 DEF IInv, NoInfectedServed, UploadsInOrder, VerdictsAreTrue

(* The queue is done with an uploaded event for one of three reasons, and  *)
(* none of them goes away.                                                 *)
LEMMA ScannedStep == IInv /\ [Next]_vars => AckedIsScanned'
<1> SUFFICES ASSUME IInv, [Next]_vars, NEW f \in Files, item'[f] = "acked"
             PROVE  "scanned" \in doc'[f] \/ "deleted" \in doc'[f] \/ ~Found(f)'
  BY DEF AckedIsScanned
<1>1. TypeOK /\ QueueFollows /\ f \in Events
  BY DEF IInv, Events
<1>2. CASE item[f] = "acked"
  <2>1. upload[f] = "finished"
    BY <1>1, <1>2, HandledWasSent
  <2>2. CASE SaveRecord(f) \/ UndoRecord(f)
    BY <2>1, <2>2 DEF SaveRecord, UndoRecord, UploadStep
  <2>3. CASE \E r \in Requests : Erase(r) /\ job[r] = "erased" /\ Target[r] = f
    BY <1>1, <2>3 DEF Erase, EraseRecord, JobStep, TypeOK, Found
  <2>4. CASE SaveVerdict(f)
    BY <1>1, <1>2, <2>4 DEF SaveVerdict, JobStep, QueueFollows, Queue!Accepted
  <2> QED
    BY <1>1, <1>2, <2>2, <2>3, <2>4, DocStep DEF IInv, AckedIsScanned
<1>3. CASE item[f] # "acked"
  <2>1. Work(f)
    BY <1>1, <1>3, OthersWork
  <2>2. ~JobFailed(f) /\ ~UNCHANGED queueVars
    BY <1>1, <1>3 DEF JobFailed, Queue!Retry, Queue!GiveUp, TypeOK, queueVars
  <2>3. \/ UNCHANGED doc /\ (~Found(f) \/ "deleted" \in doc[f])
        \/ UNCHANGED doc /\ job[f] = "scanned"
    BY <2>1, <2>2, EventsAssumption
       DEF Work, TakeUploaded, OpenForScan, SaveVerdict, ScanDone, JobFails
  <2> QED
    BY <2>3 DEF IInv, VerdictsAreTrue, Found
<1> QED
  BY <1>2, <1>3

(* Content is stored after the record and erased before it.                *)
LEMMA ContentStep == IInv /\ [Next]_vars => ContentHasRecord'
<1> SUFFICES ASSUME IInv, [Next]_vars, NEW f \in Files \ early', f \in blob'
             PROVE  Found(f)'
  BY DEF ContentHasRecord
<1>1. TypeOK /\ UploadsInOrder /\ DeletionsInOrder
  BY DEF IInv
<1>2. f \notin early /\ (f \in blob \/ StoreContent(f))
  BY <1>1, StorageStep
<1>3. Found(f)
  BY <1>1, <1>2 DEF IInv, ContentHasRecord, StoreContent, UploadStep, UploadsInOrder
<1>4. CASE SaveRecord(f)
  BY <1>1, <1>3, <1>4 DEF SaveRecord, UploadStep, UploadsInOrder
<1>5. CASE UndoRecord(f)
  BY <1>1, <1>5 DEF UndoRecord, UploadStep, UploadsInOrder, storageVars
<1>6. CASE \E r \in Requests : Erase(r) /\ job[r] = "erased" /\ Target[r] = f
  BY <1>1, <1>2, <1>6 DEF Erase, JobStep, DeletionsInOrder
<1>7. CASE SaveVerdict(f)
  <2>1. Save(f, Verdict(f), {"scanned", "infected"}) /\ {"scanned", "infected"} \in SUBSET Field
    BY <1>7 DEF SaveVerdict, UpdateScanResult, Field
  <2> QED
    BY <1>1, <1>3, <2>1, SaveFacts
<1> QED
  BY <1>1, <1>3, <1>4, <1>5, <1>6, <1>7, DocStep

----------------------------------------------------------------------------
(* The theorems.                                                           *)

(* The inductive invariant.                                                *)
THEOREM Invariance == Spec => []IInv
<1>1. Init => IInv
  BY EventsAssumption, BoundsAssumption
     DEF Init, IInv, TypeOK, QueueFollows, UploadsInOrder, DeletionsInOrder, VerdictsAreTrue,
         NoInfectedServed, AckedIsScanned, ContentHasRecord, Found, Queue!Init, Events
<1>2. IInv /\ [Next]_vars => IInv'
  BY TypeStep, QueueStep, UploadsStep, DeletionsStep, VerdictsStep, ServedStep, ScannedStep,
     ContentStep DEF IInv
<1> QED
  BY <1>1, <1>2, PTL DEF Spec

(* The types of all variables.                                             *)
THEOREM TypeCorrect == Spec => []TypeOK
BY Invariance, PTL DEF IInv

(* No download that did not ask for unsafe content is ever delivered       *)
(* infected content, whatever uploads, scans and deletions it raced with.  *)
THEOREM NoInfectedServedAlways == Spec => []NoInfectedServed
BY Invariance, PTL DEF IInv

(* A file whose uploaded event the queue is done with has been scanned or  *)
(* deleted, however often its job failed or died.                          *)
THEOREM AckedIsScannedAlways == Spec => []AckedIsScanned
BY Invariance, PTL DEF IInv

(* A file whose deleted event the queue is done with has no record, and no *)
(* content unless it was deleted while it was being uploaded.              *)
THEOREM AckedIsErasedAlways == Spec => []AckedIsErased
<1>1. IInv => AckedIsErased
  BY TargetAssumption DEF IInv, TypeOK, DeletionsInOrder, ContentHasRecord, AckedIsErased
<1> QED
  BY <1>1, Invariance, PTL

(* With the same proviso, no content is left that no record leads to.      *)
THEOREM ContentHasRecordAlways == Spec => []ContentHasRecord
BY Invariance, PTL DEF IInv

(* No step brings back a file that is marked or gone.                      *)
THEOREM MarkedForGoodAlways == Spec => MarkedForGood
<1>1. IInv /\ [Next]_vars =>
          [\A f \in Files :
              upload[f] = "finished" /\ (~Found(f) \/ "deleted" \in doc[f]) =>
                  (~Found(f) \/ "deleted" \in doc[f])']_vars
  <2> SUFFICES ASSUME IInv, [Next]_vars, NEW f \in Files,
                      upload[f] = "finished", ~Found(f) \/ "deleted" \in doc[f]
               PROVE  (~Found(f) \/ "deleted" \in doc[f])'
    OBVIOUS
  <2>1. TypeOK /\ QueueFollows
    BY DEF IInv
  <2>2. CASE SaveRecord(f) \/ UndoRecord(f)
    BY <2>2 DEF SaveRecord, UndoRecord, UploadStep
  <2>3. CASE \E r \in Requests : Erase(r) /\ job[r] = "erased" /\ Target[r] = f
    BY <2>1, <2>3 DEF Erase, EraseRecord, JobStep, TypeOK, Found
  <2>4. CASE SaveVerdict(f)
    <3>1. Save(f, Verdict(f), {"scanned", "infected"})
          /\ {"scanned", "infected"} \in SUBSET Field
      BY <2>4 DEF SaveVerdict, UpdateScanResult, Field
    <3> QED
      BY <2>1, <3>1, SaveFacts DEF Field
  <2> QED
    BY <2>1, <2>2, <2>3, <2>4, DocStep
<1> QED
  BY <1>1, Invariance, PTL DEF Spec, MarkedForGood

(* Every step of the file service is a step of the work queue for one of   *)
(* its events, or leaves the queue alone: the handlers keep the queue's    *)
(* protocol, one outcome for each delivery.                                *)
THEOREM KeepsQueueProtocol == Spec => Queue!Spec
<1>1. Init => Queue!Init
  BY DEF Init
<1>2. [Next]_vars => [Queue!Next]_(Queue!avars)
  <2> SUFFICES ASSUME [Next]_vars
               PROVE  Queue!Next \/ UNCHANGED queueVars
    BY DEF queueVars, Queue!avars
  <2>1. ASSUME NEW f \in Files, Upload(f)
        PROVE  Queue!Next \/ UNCHANGED queueVars
    BY <2>1 DEF Upload, SaveRecord, StoreContent, SaveSize, SendUploaded, UploadFails,
                UndoContent, UndoRecord, Queue!Next, Events
  <2>2. ASSUME NEW f \in Files, Download(f) \/ Digest(f)
        PROVE  UNCHANGED queueVars
    BY <2>2 DEF Download, FindForDownload, OpenDownload, Digest, DigestGet, DigestOpen,
                DigestWrite, DigestEnds, DigestStep
  <2>3. ASSUME NEW r \in Requests, Delete(r)
        PROVE  Queue!Next \/ UNCHANGED queueVars
    BY <2>3 DEF Delete, FindForDeletion, MarkForDeletion, SendDeleted, Queue!Next, Events
  <2>4. ASSUME NEW e \in Events, JobDone(e) \/ JobFailed(e)
        PROVE  Queue!Next
    BY <2>4 DEF JobDone, JobFailed, Queue!Next
  <2>5. ASSUME NEW e \in Events, Work(e)
        PROVE  Queue!Next \/ UNCHANGED queueVars
    BY <2>4, <2>5 DEF Work, TakeUploaded, OpenForScan, SaveVerdict, ScanDone, TakeDeleted,
                      Erase, DeleteDone, JobFails
  <2>6. ASSUME NEW e \in Events, JobDies(e)
        PROVE  Queue!Next \/ UNCHANGED queueVars
    BY <2>6 DEF JobDies, Queue!Next
  <2> QED
    BY <2>1, <2>2, <2>3, <2>5, <2>6 DEF Next, vars, queueVars
<1> QED
  BY <1>1, <1>2, PTL DEF Spec, Queue!Spec
=============================================================================
