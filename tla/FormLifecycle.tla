--------------------------- MODULE FormLifecycle ---------------------------
(***************************************************************************)
(* A form of form-service: the requests of its applicant, clerks,          *)
(* assessors and administrators, and the daily jobs that lock and delete   *)
(* abandoned drafts.                                                       *)
(*                                                                         *)
(* Every handler reads the form, checks and changes the entity it has      *)
(* read, and saves all of it, with an upsert and without regard to what    *)
(* the document has become.  Creation goes on with the entity it made.     *)
(* Forms share nothing, so there is one.                                   *)
(***************************************************************************)
EXTENDS Integers, Sequences

CONSTANTS
    Requests,     \* requests made of the form, each by a handler of its own
    LockRuns,     \* pods that run the lock job
    DeleteRuns,   \* pods that run the delete job
    None,         \* no document, no data, no hash
    Gone,         \* a submission that was deleted
    MaxFailures   \* bound: handlers that end at an await over a behaviour

ASSUME ActorsAssumption ==
    /\ Requests \cap LockRuns = {}
    /\ (Requests \cup LockRuns) \cap DeleteRuns = {}
ASSUME NoneAssumption == None \notin Requests /\ Gone \notin Requests /\ None # Gone
ASSUME FailuresAssumption == MaxFailures \in Nat

VARIABLES
    doc,          \* the document of the form, None where Mongo has none
    submission,   \* the submission record each submit request made
    started,      \* requests that have been made
    todo,         \* the saves each handler has yet to make
    entity,       \* the entity each handler has in hand
    submits,      \* history: who submitted which data
    overlapped,   \* history: two handlers have had the form in hand at once
    failed,       \* history: the handlers that ended at an await
    failures      \* how often one did

vars == <<doc, submission, started, todo, entity, submits, overlapped, failed,
          failures>>

Jobs == LockRuns \cup DeleteRuns
Actors == Requests \cup Jobs

(* The data an update brings is named by the request that brings it.       *)
Data == Requests \cup {None}

Form == [status : {"draft", "locked", "submitted", "archived"},
         locked : {"null", "recent", "old"},
         submitted : BOOLEAN, hash : Data, data : Data, stale : BOOLEAN]

Submission == [id : Requests, data : Data, disposed : BOOLEAN]

ASSUME NoRecordAssumption == None \notin Form \cup Submission /\ Gone \notin Submission

Operation == {"create", "update", "submit", "record", "access", "unlock", "toDraft",
              "archive", "delete", "lock", "dispose", "deleteSubmission"}

TypeOK ==
    /\ doc \in Form \cup {None}
    /\ submission \in [Requests -> Submission \cup {None, Gone}]
    /\ started \subseteq Requests
    /\ todo \in [Actors -> Seq(Operation)]
    /\ entity \in [Actors -> Form \cup Submission \cup {None}]
    /\ submits \subseteq [by : Requests, data : Data]
    /\ overlapped \in BOOLEAN
    /\ failed \subseteq Actors
    /\ failures \in 0 .. MaxFailures

(* What FormEntity.create makes.                                          *)
NewForm == [status |-> "draft", locked |-> "null", submitted |-> FALSE,
            hash |-> None, data |-> None, stale |-> FALSE]

(* Before the form is created, or after.                                   *)
Init ==
    /\ doc \in {None, NewForm}
    /\ submission = [r \in Requests |-> None]
    /\ started = {}
    /\ todo = [a \in Actors |-> <<>>]
    /\ entity = [a \in Actors |-> None]
    /\ submits = {}
    /\ overlapped = FALSE
    /\ failed = {}
    /\ failures = 0

Busy(a) == todo[a] # <<>>

Exists == doc # None

----------------------------------------------------------------------------
(* Beginning of a handler: what it reads, and the saves that follow.       *)

(* Handler a has read e and goes on to the operations of plan.             *)
Begin(a, e, plan) ==
    /\ ~Busy(a)
    /\ todo' = [todo EXCEPT ![a] = plan]
    /\ entity' = [entity EXCEPT ![a] = e]
    /\ overlapped' = (overlapped \/ \E b \in Actors : Busy(b))
    /\ UNCHANGED <<doc, submission, submits, failed, failures>>

BeginRequest(r, e, plan) ==
    /\ r \notin started
    /\ started' = started \cup {r}
    /\ Begin(r, e, plan)

(* POST /forms, with data or files and to be submitted at once or neither. *)
(* The id is new, so only the first request can be this one.               *)
BeginCreate(r) ==
    /\ doc = None /\ started = {}
    /\ \E plan \in {<<"create">>, <<"create", "update">>, <<"create", "submit", "record">>,
                    <<"create", "update", "submit", "record">>} :
           BeginRequest(r, None, plan)

(* Mutant: a form is taken back to draft from any status.                  *)
PermittedAnyToDraft(op, form) ==
    CASE op = "access" -> form.status # "locked"
      [] op \in {"update", "submit"} -> form.status = "draft"
      [] op = "unlock" -> form.status = "locked"
      [] OTHER -> TRUE

(* What an operation requires of the entity its handler has read.          *)
Permitted(op, form) ==
    CASE op = "access" -> form.status # "locked"
      [] op \in {"update", "submit"} -> form.status = "draft"
      [] op = "unlock" -> form.status = "locked"
      [] op = "toDraft" -> form.status = "submitted"
      [] op \in {"archive", "delete"} -> TRUE

(* getForm, then one of the operations: the checks are made on the entity  *)
(* just read.  An operation that is not permitted changes nothing.         *)
BeginOperation(r) ==
    /\ Exists
    /\ \E op \in {"access", "update", "submit", "unlock", "toDraft", "archive", "delete"} :
           /\ Permitted(op, doc)
           /\ BeginRequest(r, doc, IF op = "submit" THEN <<"submit", "record">> ELSE <<op>>)

(* An assessor's disposition of a submission, an admin's deletion of it.   *)
BeginOnSubmission(r) ==
    \E s \in Requests, op \in {"dispose", "deleteSubmission"} :
        /\ submission[s] \in Submission
        /\ BeginRequest(r, submission[s], <<op>>)

(* The lock job finds drafts not accessed for fifteen days.                *)
FindStale(j) ==
    /\ Exists /\ doc.status = "draft" /\ doc.stale
    /\ Begin(j, doc, <<"lock">>)
    /\ UNCHANGED started

(* The delete job finds forms locked for fifteen days.                     *)
FindLocked(j) ==
    /\ Exists /\ doc.status = "locked" /\ doc.locked = "old"
    /\ Begin(j, doc, <<"delete">>)
    /\ UNCHANGED started

----------------------------------------------------------------------------
(* The saves.                                                              *)

Next1(a, op) == Busy(a) /\ Head(todo[a]) = op

(* The handler has done the first of its operations; one that has no more  *)
(* lets go of its entity.                                                  *)
Proceed(a, e) ==
    /\ todo' = [todo EXCEPT ![a] = Tail(@)]
    /\ entity' = [entity EXCEPT ![a] = IF Tail(todo[a]) = <<>> THEN None ELSE e]
    /\ UNCHANGED <<started, overlapped, failed, failures>>

(* MongoFormRepository.save: all of the entity, whatever is stored.        *)
Save(a, e) ==
    /\ doc' = e
    /\ Proceed(a, e)

Create(a) ==
    /\ Next1(a, "create")
    /\ Save(a, NewForm)
    /\ UNCHANGED <<submission, submits>>

Update(a) ==
    /\ Next1(a, "update")
    /\ Save(a, [entity[a] EXCEPT !.data = a])
    /\ UNCHANGED <<submission, submits>>

Submit(a) ==
    /\ Next1(a, "submit")
    /\ Save(a, [entity[a] EXCEPT !.status = "submitted", !.submitted = TRUE,
                                 !.hash = entity[a].data])
    /\ submits' = submits \cup {[by |-> a, data |-> entity[a].data]}
    /\ UNCHANGED submission

(* Mutant: a form that has a submission record gets no other.              *)
RecordOnce(a) ==
    /\ Next1(a, "record")
    /\ submission' =
           IF \E s \in Requests : submission[s] # None THEN submission
           ELSE [submission EXCEPT ![a] = [id |-> a, data |-> entity[a].data, disposed |-> FALSE]]
    /\ Proceed(a, entity[a])
    /\ UNCHANGED <<doc, submits>>

(* FormSubmissionEntity.create, from the entity that was saved.            *)
Record(a) ==
    /\ Next1(a, "record")
    /\ submission' = [submission EXCEPT ![a] = [id |-> a, data |-> entity[a].data,
                                                disposed |-> FALSE]]
    /\ Proceed(a, entity[a])
    /\ UNCHANGED <<doc, submits>>

Access(a) ==
    /\ Next1(a, "access")
    /\ Save(a, [entity[a] EXCEPT !.stale = FALSE])
    /\ UNCHANGED <<submission, submits>>

(* Mutant: the date of the lock is not written.                            *)
LockUndated(a) ==
    /\ Next1(a, "lock")
    /\ Save(a, [entity[a] EXCEPT !.status = "locked"])
    /\ UNCHANGED <<submission, submits>>

Lock(a) ==
    /\ Next1(a, "lock")
    /\ Save(a, [entity[a] EXCEPT !.status = "locked", !.locked = "recent"])
    /\ UNCHANGED <<submission, submits>>

(* Mutant: the date of the lock stays.                                     *)
UnlockKeepsDate(a) ==
    /\ Next1(a, "unlock")
    /\ Save(a, [entity[a] EXCEPT !.status = "draft", !.stale = FALSE])
    /\ UNCHANGED <<submission, submits>>

Unlock(a) ==
    /\ Next1(a, "unlock")
    /\ Save(a, [entity[a] EXCEPT !.status = "draft", !.locked = "null", !.stale = FALSE])
    /\ UNCHANGED <<submission, submits>>

SetToDraft(a) ==
    /\ Next1(a, "toDraft")
    /\ Save(a, [entity[a] EXCEPT !.status = "draft", !.stale = FALSE])
    /\ UNCHANGED <<submission, submits>>

(* Mutant: archiving marks the form with a status of its own.              *)
ArchiveDeleted(a) ==
    /\ Next1(a, "archive")
    /\ Save(a, [entity[a] EXCEPT !.status = "deleted"])
    /\ UNCHANGED <<submission, submits>>

Archive(a) ==
    /\ Next1(a, "archive")
    /\ Save(a, [entity[a] EXCEPT !.status = "archived"])
    /\ UNCHANGED <<submission, submits>>

(* delete: by id, whatever the document has become.                        *)
Delete(a) ==
    /\ Next1(a, "delete")
    /\ doc' = None
    /\ Proceed(a, None)
    /\ UNCHANGED <<submission, submits>>

(* Mutant: the record takes the data the form has now.                     *)
DisposeRefreshed(a) ==
    /\ Next1(a, "dispose")
    /\ submission' = [submission EXCEPT ![entity[a].id] =
                          [entity[a] EXCEPT !.disposed = TRUE,
                                            !.data = IF Exists THEN doc.data ELSE @]]
    /\ Proceed(a, None)
    /\ UNCHANGED <<doc, submits>>

(* dispositionSubmission: all of the record, with an upsert again.         *)
Dispose(a) ==
    /\ Next1(a, "dispose")
    /\ submission' = [submission EXCEPT ![entity[a].id] =
                          [entity[a] EXCEPT !.disposed = TRUE]]
    /\ Proceed(a, None)
    /\ UNCHANGED <<doc, submits>>

DeleteSubmission(a) ==
    /\ Next1(a, "deleteSubmission")
    /\ submission' = [submission EXCEPT ![entity[a].id] = Gone]
    /\ Proceed(a, None)
    /\ UNCHANGED <<doc, submits>>

Work(a) ==
    \/ Create(a) \/ Update(a) \/ Submit(a) \/ Record(a) \/ Access(a)
    \/ Lock(a) \/ Unlock(a) \/ SetToDraft(a) \/ Archive(a) \/ Delete(a)
    \/ Dispose(a) \/ DeleteSubmission(a)

(* A call the handler awaits fails, or its pod dies.                       *)
Fail(a) ==
    /\ Busy(a)
    /\ failures < MaxFailures
    /\ todo' = [todo EXCEPT ![a] = <<>>]
    /\ entity' = [entity EXCEPT ![a] = None]
    /\ failed' = failed \cup {a}
    /\ failures' = failures + 1
    /\ UNCHANGED <<doc, submission, started, submits, overlapped>>

(* Fifteen days pass, which no handler lasts.                              *)
Age ==
    /\ Exists
    /\ \A a \in Actors : ~Busy(a)
    /\ doc' = [doc EXCEPT !.stale = TRUE, !.locked = IF @ = "null" THEN @ ELSE "old"]
    /\ doc' # doc
    /\ UNCHANGED <<submission, started, todo, entity, submits, overlapped, failed, failures>>

Next ==
    \/ \E r \in Requests : BeginCreate(r) \/ BeginOperation(r) \/ BeginOnSubmission(r)
    \/ \E j \in LockRuns : FindStale(j)
    \/ \E j \in DeleteRuns : FindLocked(j)
    \/ \E a \in Actors : Work(a) \/ Fail(a)
    \/ Age

Spec == Init /\ [][Next]_vars

(* The jobs run every day, the calls a handler awaits end, time passes.    *)
(* Nobody need make a request.                                             *)
Fairness ==
    /\ WF_vars(\E j \in LockRuns : FindStale(j))
    /\ WF_vars(\E j \in DeleteRuns : FindLocked(j))
    /\ \A a \in Actors : WF_vars(Work(a))
    /\ WF_vars(Age)

FairSpec == Spec /\ Fairness

----------------------------------------------------------------------------
(* Properties.                                                             *)

FieldsFollow(form) ==
    /\ form.status = "locked" => form.locked # "null"
    /\ form.status \in {"draft", "submitted"} => form.locked = "null"
    /\ form.status = "submitted" => form.submitted /\ form.hash = form.data

(* The delete job finds a locked form by the date of its lock and would    *)
(* keep one without a date for ever; a draft or submitted form has none.   *)
(* The hash that finds duplicates is that of the data submitted, through a *)
(* return to draft and another submission.  Handlers that overwrite each   *)
(* other do so with whole entities, so both hold whatever their order.     *)
FieldsFollowStatus == Exists => FieldsFollow(doc)

(* A submitted form has a submission record of the data it holds, unless   *)
(* its submission is still being recorded, failed before it was, or the    *)
(* record was deleted.                                                     *)
SubmittedIsRecorded ==
    Exists /\ doc.status = "submitted" =>
        \E m \in submits :
            /\ m.data = doc.data
            /\ submission[m.by] # None \/ Busy(m.by) \/ m.by \in failed

(* The history of submissions is what was submitted: dispositions, late or *)
(* of a deleted record, and later submissions leave its data alone.        *)
SubmissionKeepsData ==
    \A s \in Requests :
        submission[s] \in Submission =>
            [by |-> s, data |-> submission[s].data] \in submits

(* What one save may do to a form: docs/services/form-service.md and the   *)
(* tutorial on form submissions.                                           *)
LifecycleStep ==
    \/ ~Exists /\ doc' = NewForm /\ \E r \in Requests : Next1(r, "create")
    \/ /\ Exists /\ doc' = None
       /\ (\E j \in DeleteRuns : Busy(j)) => doc.status = "locked" /\ doc.locked = "old"
    \/ /\ Exists /\ doc' # None
       /\ <<doc.status, doc'.status>> \in
              {<<"draft", "draft">>, <<"draft", "locked">>, <<"draft", "submitted">>,
               <<"locked", "draft">>, <<"locked", "locked">>,
               <<"submitted", "draft">>, <<"submitted", "submitted">>}
              \cup ({"draft", "locked", "submitted", "archived"} \X {"archived"})
       /\ doc'.data # doc.data => doc.status = "draft" /\ doc'.status = "draft"
       /\ doc.status = "draft" /\ doc'.status = "locked" => doc.stale

(* As long as no two handlers have had the form at once, its status        *)
(* follows the documented life cycle, its data changes only in draft, only *)
(* forms that were not accessed are locked and only those that stayed      *)
(* locked are purged, and a deleted form does not come back.               *)
LifecycleFollowed == [][~overlapped /\ doc' # doc => LifecycleStep]_vars

(* A draft that is abandoned is locked and then deleted, after whatever    *)
(* requests, overwritten saves and failures there have been.               *)
AbandonedIsPurged == <>[](Exists => doc.status \in {"submitted", "archived"})

----------------------------------------------------------------------------
(* The inductive invariant behind the safety properties.                   *)

(* What is left of a plan.                                                 *)
Plan ==
    {<<>>, <<"create", "update">>, <<"create", "submit", "record">>,
     <<"create", "update", "submit", "record">>, <<"update", "submit", "record">>,
     <<"submit", "record">>}
    \cup {<<op>> : op \in Operation \ {"submit"}}

(* A handler keeps to its plan, a job to its one operation.                *)
PlansFollow ==
    /\ \A a \in Actors : todo[a] \in Plan
    /\ \A j \in LockRuns : todo[j] \in {<<>>, <<"lock">>}
    /\ \A j \in DeleteRuns : todo[j] \in {<<>>, <<"delete">>}
    /\ \A r \in Requests : Busy(r) => r \in started

(* A form as it is stored, or as a handler has it in hand.                 *)
Fits(form) ==
    /\ form \in Form
    /\ FieldsFollow(form)
    /\ form.status = "submitted" => \E m \in submits : m.data = form.data

(* The entity a handler has in hand is one its next operation is for.      *)
Suits(a, op, e) ==
    /\ op \in {"update", "submit", "access", "unlock", "toDraft", "archive", "delete"} =>
           Fits(e) /\ Permitted(op, e)
    /\ op = "lock" => Fits(e) /\ e.status = "draft" /\ e.stale
    /\ op = "record" => Fits(e) /\ [by |-> a, data |-> e.data] \in submits
    /\ op \in {"dispose", "deleteSubmission"} =>
           e \in Submission /\ [by |-> e.id, data |-> e.data] \in submits
    /\ a \in DeleteRuns => e.status = "locked" /\ e.locked = "old"

EntitiesSuit == \A a \in Actors : Busy(a) => Suits(a, Head(todo[a]), entity[a])

(* As long as no two handlers have had the form at once, one that has it   *)
(* has it as it is stored.                                                 *)
AloneInHand ==
    ~overlapped =>
        \A a \in Actors : Busy(a) =>
            /\ \A b \in Actors : Busy(b) => b = a
            /\ Head(todo[a]) = "create" => doc = None
            /\ Head(todo[a]) \notin {"create", "dispose", "deleteSubmission"} =>
                   doc = entity[a]

(* Whoever submitted has recorded the submission, is about to, or failed.  *)
SubmitsTraced ==
    \A m \in submits :
        /\ m.by \in started
        /\ submission[m.by] # None \/ todo[m.by] = <<"record">> \/ m.by \in failed

IInv ==
    /\ TypeOK
    /\ PlansFollow
    /\ Exists => Fits(doc)
    /\ EntitiesSuit
    /\ AloneInHand
    /\ SubmitsTraced
    /\ \A s \in Requests : submission[s] \in Submission => submission[s].id = s
    /\ SubmissionKeepsData
=============================================================================
