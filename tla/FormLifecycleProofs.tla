------------------------ MODULE FormLifecycleProofs ------------------------
(***************************************************************************)
(* Proofs about FormLifecycle, for any requests, any pods that run its     *)
(* jobs and any number of failures.                                        *)
(***************************************************************************)
EXTENDS FormLifecycle, TLAPS

(* What a plan goes on with, once its first operation is done.             *)
LEMMA PlanFacts ==
  ASSUME NEW p \in Plan, p # <<>>
  PROVE  /\ Head(p) \in Operation
         /\ Tail(p) \in Plan
         /\ Head(p) = "submit" => Tail(p) = <<"record">>
         /\ Head(p) = "create" /\ Tail(p) # <<>> => Head(Tail(p)) \in {"update", "submit"}
         /\ Head(p) = "update" /\ Tail(p) # <<>> => Head(Tail(p)) = "submit"
         /\ Head(p) \notin {"create", "update", "submit"} => Tail(p) = <<>>
<1>1. CASE \E op \in Operation \ {"submit"} : p = <<op>>
  BY <1>1 DEF Plan
<1>2. CASE p \in {<<"create", "update">>, <<"create", "submit", "record">>,
                  <<"create", "update", "submit", "record">>,
                  <<"update", "submit", "record">>, <<"submit", "record">>}
  <2>1. CASE p = <<"create", "update">>
    BY <2>1 DEF Plan, Operation
  <2>2. CASE p = <<"create", "submit", "record">>
    BY <2>2 DEF Plan, Operation
  <2>3. CASE p = <<"create", "update", "submit", "record">>
    BY <2>3 DEF Plan, Operation
  <2>4. CASE p = <<"update", "submit", "record">>
    BY <2>4 DEF Plan, Operation
  <2>5. CASE p = <<"submit", "record">>
    BY <2>5 DEF Plan, Operation
  <2> QED
    BY <1>2, <2>1, <2>2, <2>3, <2>4, <2>5
<1> QED
  BY <1>1, <1>2 DEF Plan

(* A job has no plan but its own, and makes no request.                    *)
LEMMA RoleFacts ==
  ASSUME PlansFollow, NEW a \in Actors, Busy(a)
  PROVE  /\ a \in LockRuns => Head(todo[a]) = "lock" /\ Tail(todo[a]) = <<>>
         /\ a \in DeleteRuns => Head(todo[a]) = "delete" /\ Tail(todo[a]) = <<>>
         /\ Head(todo[a]) \notin {"lock", "delete"} => a \in Requests
<1>1. \A op : Head(<<op>>) = op /\ Tail(<<op>>) = <<>>
  OBVIOUS
<1>2. a \in LockRuns => todo[a] = <<"lock">>
  BY DEF PlansFollow, Busy
<1>3. a \in DeleteRuns => todo[a] = <<"delete">>
  BY DEF PlansFollow, Busy
<1> QED
  BY <1>1, <1>2, <1>3 DEF Actors, Jobs

(* A form made anew fits.                                                  *)
LEMMA NewFormFits == Fits(NewForm) /\ NewForm.status = "draft" /\ NewForm # None
<1>1. NewForm \in Form
  BY DEF NewForm, Form, Data
<1>2. NewForm.status = "draft" /\ NewForm.locked = "null"
  BY DEF NewForm
<1> QED
  BY <1>1, <1>2, NoRecordAssumption DEF Fits, FieldsFollow

----------------------------------------------------------------------------
(* Handlers, their plans and what they have in hand.                       *)

(* A handler that has done an operation goes on to the next of its plan;   *)
(* the others are where they were.                                         *)
LEMMA ProceedFacts ==
  ASSUME TypeOK, PlansFollow, NEW a \in Actors, Busy(a), NEW e, Proceed(a, e)
  PROVE  /\ todo' \in [Actors -> Seq(Operation)]
         /\ todo'[a] = Tail(todo[a])
         /\ entity'[a] = IF Tail(todo[a]) = <<>> THEN None ELSE e
         /\ \A b \in Actors : b # a => todo'[b] = todo[b] /\ entity'[b] = entity[b]
         /\ PlansFollow'
<1> USE DEF TypeOK, PlansFollow, Busy
<1>1. todo[a] \in Plan /\ todo[a] # <<>> /\ Tail(todo[a]) \in Plan
  BY PlanFacts
<1>2. Tail(todo[a]) \in Seq(Operation)
  OBVIOUS
<1>3. /\ todo' \in [Actors -> Seq(Operation)]
      /\ todo'[a] = Tail(todo[a])
      /\ entity'[a] = IF Tail(todo[a]) = <<>> THEN None ELSE e
      /\ \A b \in Actors : b # a => todo'[b] = todo[b] /\ entity'[b] = entity[b]
  BY <1>2 DEF Proceed
<1>4. PlansFollow'
  <2>1. \A b \in Actors : todo'[b] \in Plan
    BY <1>1, <1>3
  <2>2. /\ \A j \in LockRuns : todo'[j] \in {<<>>, <<"lock">>}
        /\ \A j \in DeleteRuns : todo'[j] \in {<<>>, <<"delete">>}
    BY <1>3, RoleFacts DEF Actors, Jobs
  <2>3. \A r \in Requests : todo'[r] # <<>> => r \in started'
    BY <1>3 DEF Proceed, Actors
  <2> QED
    BY <2>1, <2>2, <2>3
<1> QED
  BY <1>3, <1>4

(* What a handler has done leaves the stored form as it should be, and the *)
(* entity in hand as the next operation needs it.                          *)
WorkSuits(a) ==
    /\ submits' \subseteq [by : Requests, data : Data]
    /\ submits \subseteq submits'
    /\ (Exists => Fits(doc))'
    /\ (Busy(a) => Suits(a, Head(todo[a]), entity[a]))'
    /\ entity'[a] \in Form \cup {None}

(* An operation that is the last of its plan need only leave a form that   *)
(* fits, or none.                                                          *)
LEMMA LastSuits ==
  ASSUME TypeOK, PlansFollow, NEW a \in Actors, Busy(a), NEW e, Proceed(a, e),
         Head(todo[a]) \notin {"create", "update", "submit"},
         UNCHANGED submits, doc' = None \/ Fits(doc')
  PROVE  WorkSuits(a)
<1>1. todo'[a] = <<>> /\ entity'[a] = None
  BY ProceedFacts, PlanFacts DEF PlansFollow, Busy
<1> QED
  BY <1>1 DEF WorkSuits, TypeOK, Exists, Fits, Busy

(* Every operation is made for the entity in hand.                         *)
LEMMA WorkStep ==
  ASSUME TypeOK, PlansFollow, Exists => Fits(doc), EntitiesSuit,
         NEW a \in Actors, Work(a)
  PROVE  WorkSuits(a)
<1> DEFINE e == entity[a]
<1>1. CASE Create(a)
  <2>1. Busy(a) /\ Head(todo[a]) = "create" /\ Proceed(a, NewForm) /\ doc' = NewForm
        /\ UNCHANGED submits
    BY <1>1 DEF Create, Next1, Save
  <2>2. a \notin DeleteRuns
    BY <2>1, RoleFacts
  <2>3. todo'[a] = <<>> \/ Head(todo'[a]) \in {"update", "submit"}
    BY <2>1, ProceedFacts, PlanFacts DEF PlansFollow, Busy
  <2>4. Busy(a)' => entity'[a] = NewForm
    BY <2>1, ProceedFacts DEF Busy
  <2>5. entity'[a] \in Form \cup {None}
    BY <2>1, ProceedFacts, NewFormFits DEF Fits
  <2>6. \A op \in {"update", "submit"} : Permitted(op, NewForm)
    BY NewFormFits DEF Permitted
  <2>7. Fits(NewForm)'
    BY <2>1, NewFormFits DEF Fits
  <2> QED
    BY <2>1, <2>2, <2>3, <2>4, <2>5, <2>6, <2>7 DEF WorkSuits, TypeOK, Suits, Busy
<1>2. CASE Update(a)
  <2> DEFINE n == [e EXCEPT !.data = a]
  <2>1. Busy(a) /\ Head(todo[a]) = "update" /\ Proceed(a, n) /\ doc' = n
        /\ UNCHANGED submits
    BY <1>2 DEF Update, Next1, Save
  <2>2. a \in Requests /\ a \notin DeleteRuns
    BY <2>1, RoleFacts
  <2>3. Fits(e) /\ e.status = "draft"
    BY <2>1 DEF EntitiesSuit, Suits, Permitted
  <2>4. Fits(n) /\ n.status = "draft"
    BY <2>2, <2>3 DEF Fits, FieldsFollow, Form, Data
  <2>5. todo'[a] = <<>> \/ Head(todo'[a]) = "submit"
    BY <2>1, ProceedFacts, PlanFacts DEF PlansFollow, Busy
  <2>6. Busy(a)' => entity'[a] = n
    BY <2>1, ProceedFacts DEF Busy
  <2>7. entity'[a] \in Form \cup {None}
    BY <2>1, <2>4, ProceedFacts DEF Fits
  <2>8. Permitted("submit", n)
    BY <2>4 DEF Permitted
  <2>9. Fits(doc)'
    BY <2>1, <2>4 DEF Fits
  <2>10. (Busy(a) => Fits(entity[a]))'
    BY <2>1, <2>6, <2>9
  <2> QED
    BY <2>1, <2>2, <2>5, <2>6, <2>7, <2>8, <2>9, <2>10 DEF WorkSuits, TypeOK, Suits, Busy
<1>3. CASE Submit(a)
  <2> DEFINE n == [e EXCEPT !.status = "submitted", !.submitted = TRUE, !.hash = e.data]
             m == [by |-> a, data |-> e.data]
  <2>1. Busy(a) /\ Head(todo[a]) = "submit" /\ Proceed(a, n) /\ doc' = n
        /\ submits' = submits \cup {m}
    BY <1>3 DEF Submit, Next1, Save
  <2>2. a \in Requests /\ a \notin DeleteRuns
    BY <2>1, RoleFacts
  <2>3. Fits(e) /\ e.status = "draft"
    BY <2>1 DEF EntitiesSuit, Suits, Permitted
  <2>4. n \in Form /\ n.status = "submitted" /\ n.data = e.data /\ FieldsFollow(n)
    BY <2>3 DEF Fits, FieldsFollow, Form
  <2>5. m \in submits' /\ m \in [by : Requests, data : Data] /\ m.data = n.data
    BY <2>1, <2>2, <2>3, <2>4 DEF Fits, Form
  <2>6. todo'[a] = <<"record">>
    BY <2>1, ProceedFacts, PlanFacts DEF PlansFollow, Busy
  <2> HIDE DEF n, m
  <2>7. entity'[a] = n
    <3>1. <<"record">> # <<>>
      OBVIOUS
    <3> QED
      BY <2>1, <2>6, <3>1, ProceedFacts
  <2>8. Fits(doc)'
    BY <2>1, <2>4, <2>5 DEF Fits
  <2>9. Fits(entity[a])'
    BY <2>1, <2>7, <2>8
  <2>10. [by |-> a, data |-> entity'[a].data] \in submits'
    BY <2>4, <2>5, <2>7 DEF m
  <2>11. Head(todo'[a]) = "record"
    BY <2>6
  <2> QED
    BY <2>1, <2>2, <2>4, <2>5, <2>7, <2>8, <2>9, <2>10, <2>11 DEF WorkSuits, TypeOK, Suits
<1>4. CASE Record(a)
  BY <1>4, LastSuits DEF Record, Next1, Exists
<1>5. CASE Access(a)
  <2>1. Busy(a) /\ Head(todo[a]) = "access" /\ doc' = [e EXCEPT !.stale = FALSE]
    BY <1>5 DEF Access, Next1, Save
  <2>2. Fits(doc')
    BY <2>1 DEF EntitiesSuit, Suits, Fits, FieldsFollow, Form
  <2> QED
    BY <1>5, <2>1, <2>2, LastSuits DEF Access, Save
<1>6. CASE Lock(a)
  <2>1. Busy(a) /\ Head(todo[a]) = "lock"
        /\ doc' = [e EXCEPT !.status = "locked", !.locked = "recent"]
    BY <1>6 DEF Lock, Next1, Save
  <2>2. Fits(doc')
    BY <2>1 DEF EntitiesSuit, Suits, Fits, FieldsFollow, Form
  <2> QED
    BY <1>6, <2>1, <2>2, LastSuits DEF Lock, Save
<1>7. CASE Unlock(a)
  <2>1. Busy(a) /\ Head(todo[a]) = "unlock"
        /\ doc' = [e EXCEPT !.status = "draft", !.locked = "null", !.stale = FALSE]
    BY <1>7 DEF Unlock, Next1, Save
  <2>2. Fits(doc')
    BY <2>1 DEF EntitiesSuit, Suits, Fits, FieldsFollow, Form
  <2> QED
    BY <1>7, <2>1, <2>2, LastSuits DEF Unlock, Save
<1>8. CASE SetToDraft(a)
  <2>1. Busy(a) /\ Head(todo[a]) = "toDraft"
        /\ doc' = [e EXCEPT !.status = "draft", !.stale = FALSE]
    BY <1>8 DEF SetToDraft, Next1, Save
  <2>2. Fits(doc')
    BY <2>1 DEF EntitiesSuit, Suits, Permitted, Fits, FieldsFollow, Form
  <2> QED
    BY <1>8, <2>1, <2>2, LastSuits DEF SetToDraft, Save
<1>9. CASE Archive(a)
  <2>1. Busy(a) /\ Head(todo[a]) = "archive" /\ doc' = [e EXCEPT !.status = "archived"]
    BY <1>9 DEF Archive, Next1, Save
  <2>2. Fits(doc')
    BY <2>1 DEF EntitiesSuit, Suits, Fits, FieldsFollow, Form
  <2> QED
    BY <1>9, <2>1, <2>2, LastSuits DEF Archive, Save
<1>10. CASE Delete(a)
  BY <1>10, LastSuits DEF Delete, Next1
<1>11. CASE Dispose(a)
  BY <1>11, LastSuits DEF Dispose, Next1, Exists
<1>12. CASE DeleteSubmission(a)
  BY <1>12, LastSuits DEF DeleteSubmission, Next1, Exists
<1> QED
  BY <1>1, <1>2, <1>3, <1>4, <1>5, <1>6, <1>7, <1>8, <1>9, <1>10, <1>11, <1>12 DEF Work

(* An operation that reaches the records of submissions leaves each the    *)
(* data that was submitted, and takes back none.                           *)
LEMMA RecordsStep ==
  ASSUME IInv, NEW a \in Actors, Work(a)
  PROVE  /\ submission' \in [Requests -> Submission \cup {None, Gone}]
         /\ \A s \in Requests : submission'[s] \in Submission => submission'[s].id = s
         /\ SubmissionKeepsData'
         /\ \A s \in Requests : submission[s] # None => submission'[s] # None
<1> USE DEF IInv, TypeOK
<1>1. CASE Record(a)
  <2> DEFINE n == [id |-> a, data |-> entity[a].data, disposed |-> FALSE]
  <2>1. Busy(a) /\ Head(todo[a]) = "record" /\ submission' = [submission EXCEPT ![a] = n]
        /\ UNCHANGED submits
    BY <1>1 DEF Record, Next1
  <2>2. a \in Requests
    BY <2>1, RoleFacts
  <2>3. [by |-> a, data |-> entity[a].data] \in submits
    BY <2>1 DEF EntitiesSuit, Suits
  <2>4. entity[a].data \in Data
    BY <2>1 DEF EntitiesSuit, Suits, Fits, Form
  <2>5. n \in Submission /\ n # None /\ n.id = a /\ n.data = entity[a].data
    <3>1. n \in Submission
      BY <2>2, <2>4 DEF Submission
    <3> QED
      BY <3>1, NoRecordAssumption
  <2> HIDE DEF n
  <2> QED
    BY <2>1, <2>2, <2>3, <2>5 DEF SubmissionKeepsData
<1>2. CASE Dispose(a)
  <2> DEFINE n == [entity[a] EXCEPT !.disposed = TRUE]
             i == entity[a].id
  <2>1. Busy(a) /\ Head(todo[a]) = "dispose" /\ submission' = [submission EXCEPT ![i] = n]
        /\ UNCHANGED submits
    BY <1>2 DEF Dispose, Next1
  <2>2. entity[a] \in Submission /\ [by |-> i, data |-> entity[a].data] \in submits
    BY <2>1 DEF EntitiesSuit, Suits
  <2>3. /\ n \in Submission /\ n # None /\ n.id = i /\ n.data = entity[a].data
        /\ i \in Requests
    BY <2>2, NoRecordAssumption DEF Submission
  <2> HIDE DEF n, i
  <2> QED
    BY <2>1, <2>2, <2>3 DEF SubmissionKeepsData
<1>3. CASE DeleteSubmission(a)
  BY <1>3, NoneAssumption, NoRecordAssumption DEF DeleteSubmission, SubmissionKeepsData
<1>4. CASE UNCHANGED submission /\ submits \subseteq submits'
  BY <1>4 DEF SubmissionKeepsData
<1> QED
  BY <1>1, <1>2, <1>3, <1>4
     DEF Work, Create, Update, Submit, Access, Lock, Unlock, SetToDraft, Archive, Delete

(* The beginning of a handler: the plan is one, and the entity read is one *)
(* its first operation is for.                                             *)
LEMMA BeginStep ==
  ASSUME IInv, NEW a \in Actors, NEW e, NEW p \in Plan, p # <<>>, Begin(a, e, p),
         e \in Form \cup Submission \cup {None}, Suits(a, Head(p), e),
         a \in LockRuns => p = <<"lock">>, a \in DeleteRuns => p = <<"delete">>,
         a \in Requests => a \notin started /\ started' = started \cup {a},
         a \notin Requests => started' = started,
         Head(p) = "create" => doc = None,
         Head(p) \notin {"create", "dispose", "deleteSubmission"} => doc = e
  PROVE  IInv'
<1> USE DEF IInv, TypeOK, Begin
<1>1. /\ todo'[a] = p /\ entity'[a] = e /\ ~Busy(a) /\ Busy(a)'
      /\ \A b \in Actors : b # a => todo'[b] = todo[b] /\ entity'[b] = entity[b]
                                    /\ (Busy(b)' <=> Busy(b))
  BY DEF Busy
<1>2. p \in Seq(Operation)
  <2>1. \A w \in Operation : <<w>> \in Seq(Operation)
    OBVIOUS
  <2>2. \A w, x \in Operation : <<w, x>> \in Seq(Operation)
    OBVIOUS
  <2>3. \A w, x, y \in Operation : <<w, x, y>> \in Seq(Operation)
    OBVIOUS
  <2>4. \A w, x, y, z \in Operation : <<w, x, y, z>> \in Seq(Operation)
    OBVIOUS
  <2>5. /\ "create" \in Operation /\ "update" \in Operation
        /\ "submit" \in Operation /\ "record" \in Operation
    BY DEF Operation
  <2>6. \/ \E op \in Operation : p = <<op>>
        \/ p = <<"create", "update">> \/ p = <<"submit", "record">>
        \/ p = <<"create", "submit", "record">> \/ p = <<"update", "submit", "record">>
        \/ p = <<"create", "update", "submit", "record">>
    BY DEF Plan
  <2>7. CASE \E op \in Operation : p = <<op>>
    BY <2>1, <2>7
  <2>8. CASE p = <<"create", "update">> \/ p = <<"submit", "record">>
    BY <2>2, <2>5, <2>8
  <2>9. CASE p = <<"create", "submit", "record">>
    BY <2>3, <2>5, <2>9
  <2>10. CASE p = <<"update", "submit", "record">>
    BY <2>3, <2>5, <2>10
  <2>11. CASE p = <<"create", "update", "submit", "record">>
    BY <2>4, <2>5, <2>11
  <2> QED
    BY <2>6, <2>7, <2>8, <2>9, <2>10, <2>11
<1>3. TypeOK'
  <2>1. started' \subseteq Requests
    BY DEF Actors
  <2> QED
    BY <1>2, <2>1
<1>4. PlansFollow'
  BY <1>1, ActorsAssumption DEF PlansFollow, Actors, Jobs, Busy
<1>5. (Exists => Fits(doc))'
  BY DEF Exists, Fits
<1>6. EntitiesSuit'
  BY <1>1 DEF EntitiesSuit, Suits, Fits, Busy
<1>7. AloneInHand'
  BY <1>1 DEF AloneInHand, Busy
<1>8. SubmitsTraced'
  BY <1>1 DEF SubmitsTraced, Busy, Actors
<1>9. SubmissionKeepsData'
  BY DEF SubmissionKeepsData
<1> QED
  BY <1>3, <1>4, <1>5, <1>6, <1>7, <1>8, <1>9

(* Whatever a request or a job begins with.                                *)
LEMMA BeginsStep ==
  ASSUME IInv,
         \/ \E r \in Requests : BeginCreate(r) \/ BeginOperation(r) \/ BeginOnSubmission(r)
         \/ \E j \in LockRuns : FindStale(j)
         \/ \E j \in DeleteRuns : FindLocked(j)
  PROVE  IInv'
<1>1. ASSUME NEW r \in Requests
      PROVE  r \in Actors /\ r \notin LockRuns /\ r \notin DeleteRuns
  BY ActorsAssumption DEF Actors
<1>2. ASSUME NEW r \in Requests, NEW e, NEW p \in Plan, p # <<>>, BeginRequest(r, e, p),
             e \in Form \cup Submission \cup {None}, Suits(r, Head(p), e),
             Head(p) = "create" => doc = None,
             Head(p) \notin {"create", "dispose", "deleteSubmission"} => doc = e
      PROVE  IInv'
  BY <1>1, <1>2, BeginStep DEF BeginRequest
<1>3. \A op : <<op>> # <<>> /\ Head(<<op>>) = op
  OBVIOUS
<1>4. ASSUME NEW r \in Requests, BeginCreate(r)
      PROVE  IInv'
  <2>1. PICK p \in {<<"create">>, <<"create", "update">>, <<"create", "submit", "record">>,
                    <<"create", "update", "submit", "record">>} : BeginRequest(r, None, p)
    BY <1>4 DEF BeginCreate
  <2>2. p # <<>> /\ Head(p) = "create"
    BY <2>1
  <2>3. p \in Plan
    BY <2>1 DEF Plan, Operation
  <2>4. Suits(r, "create", None)
    BY <1>1 DEF Suits
  <2> QED
    BY <1>2, <1>4, <2>1, <2>2, <2>3, <2>4 DEF BeginCreate
<1>5. ASSUME NEW r \in Requests, BeginOperation(r)
      PROVE  IInv'
  <2>1. PICK op \in {"access", "update", "submit", "unlock", "toDraft", "archive", "delete"} :
            /\ Permitted(op, doc)
            /\ BeginRequest(r, doc, IF op = "submit" THEN <<"submit", "record">> ELSE <<op>>)
    BY <1>5 DEF BeginOperation
  <2>2. Fits(doc) /\ doc \in Form
    BY <1>5 DEF IInv, BeginOperation, Fits
  <2>3. Suits(r, op, doc)
    BY <1>1, <2>1, <2>2 DEF Suits
  <2>4. CASE op = "submit"
    <3>1. <<"submit", "record">> \in Plan /\ <<"submit", "record">> # <<>>
          /\ Head(<<"submit", "record">>) = "submit"
      BY DEF Plan
    <3> QED
      BY <1>2, <2>1, <2>2, <2>3, <2>4, <3>1
  <2>5. CASE op # "submit"
    <3>1. <<op>> \in Plan
      BY <2>5 DEF Plan, Operation
    <3> QED
      BY <1>2, <1>3, <2>1, <2>2, <2>3, <2>5, <3>1
  <2> QED
    BY <2>4, <2>5
<1>6. ASSUME NEW r \in Requests, BeginOnSubmission(r)
      PROVE  IInv'
  <2>1. PICK s \in Requests, op \in {"dispose", "deleteSubmission"} :
            submission[s] \in Submission /\ BeginRequest(r, submission[s], <<op>>)
    BY <1>6 DEF BeginOnSubmission
  <2>2. Suits(r, op, submission[s])
    BY <1>1, <2>1 DEF IInv, Suits, SubmissionKeepsData
  <2>3. <<op>> \in Plan
    BY DEF Plan, Operation
  <2> QED
    BY <1>2, <1>3, <2>1, <2>2, <2>3
<1>7. ASSUME NEW j \in LockRuns, FindStale(j)
      PROVE  IInv'
  <2>1. Fits(doc) /\ doc \in Form /\ Begin(j, doc, <<"lock">>) /\ started' = started
    BY <1>7 DEF IInv, FindStale, Fits
  <2>2. j \in Actors /\ j \notin Requests /\ j \notin DeleteRuns
    BY ActorsAssumption DEF Actors, Jobs
  <2>3. Suits(j, "lock", doc)
    BY <1>7, <2>1, <2>2 DEF Suits, FindStale
  <2>4. <<"lock">> \in Plan
    BY DEF Plan, Operation
  <2> QED
    BY <1>3, <2>1, <2>2, <2>3, <2>4, BeginStep
<1>8. ASSUME NEW j \in DeleteRuns, FindLocked(j)
      PROVE  IInv'
  <2>1. Fits(doc) /\ doc \in Form /\ Begin(j, doc, <<"delete">>) /\ started' = started
    BY <1>8 DEF IInv, FindLocked, Fits
  <2>2. j \in Actors /\ j \notin Requests /\ j \notin LockRuns
    BY ActorsAssumption DEF Actors, Jobs
  <2>3. Suits(j, "delete", doc)
    BY <1>8, <2>1 DEF Suits, FindLocked, Permitted
  <2>4. <<"delete">> \in Plan
    BY DEF Plan, Operation
  <2> QED
    BY <1>3, <2>1, <2>2, <2>3, <2>4, BeginStep
<1> QED
  BY <1>4, <1>5, <1>6, <1>7, <1>8

(* Whatever a handler does with a form it has in hand.                     *)
LEMMA WorksStep ==
  ASSUME IInv, NEW a \in Actors, Work(a)
  PROVE  IInv'
<1> USE DEF IInv
<1>1. Busy(a) /\ \E e : Proceed(a, e)
  BY DEF Work, Create, Update, Submit, Record, Access, Lock, Unlock, SetToDraft, Archive,
         Delete, Dispose, DeleteSubmission, Next1, Save
<1>2. /\ todo' \in [Actors -> Seq(Operation)] /\ PlansFollow'
      /\ \A b \in Actors : b # a => todo'[b] = todo[b] /\ entity'[b] = entity[b]
      /\ todo'[a] = Tail(todo[a])
      /\ UNCHANGED <<started, overlapped, failed, failures>>
      /\ \E e : entity' = [entity EXCEPT ![a] = e]
  BY <1>1, ProceedFacts DEF Proceed
<1>3. WorkSuits(a) /\ <<"record">> # <<>> /\ Head(<<"record">>) = "record"
  BY WorkStep
<1>4. TypeOK'
  <2>1. entity' \in [Actors -> Form \cup Submission \cup {None}]
    BY <1>2, <1>3 DEF TypeOK, WorkSuits
  <2>2. doc' \in Form \cup {None}
    BY <1>3 DEF WorkSuits, Exists, Fits
  <2> QED
    BY <1>2, <1>3, <2>1, <2>2, RecordsStep DEF TypeOK, WorkSuits
<1>5. EntitiesSuit'
  <2> SUFFICES ASSUME NEW b \in Actors, Busy(b)'
               PROVE  Suits(b, Head(todo[b]), entity[b])'
    BY DEF EntitiesSuit
  <2>1. CASE b = a
    BY <1>3, <2>1 DEF WorkSuits
  <2>2. CASE b # a
    <3>1. todo'[b] = todo[b] /\ entity'[b] = entity[b] /\ submits \subseteq submits'
      BY <1>2, <1>3, <2>2 DEF WorkSuits
    <3>2. Suits(b, Head(todo[b]), entity[b])
      BY <3>1 DEF EntitiesSuit, Busy
    <3> QED
      BY <3>1, <3>2 DEF Suits, Fits
  <2> QED
    BY <2>1, <2>2
<1>6. SubmitsTraced'
  <2> SUFFICES ASSUME NEW m \in submits'
               PROVE  /\ m.by \in started
                      /\ submission'[m.by] # None \/ todo'[m.by] = <<"record">>
                         \/ m.by \in failed
    BY <1>2 DEF SubmitsTraced
  <2>1. CASE m \in submits
    <3>1. m.by \in Requests
      BY <2>1 DEF TypeOK
    <3>2. CASE m.by = a /\ todo[a] = <<"record">>
      <4>1. Record(a)
        BY <3>2 DEF Work, Create, Update, Submit, Access, Lock, Unlock, SetToDraft,
           Archive, Delete, Dispose, DeleteSubmission, Next1
      <4>2. [id |-> a, data |-> entity[a].data, disposed |-> FALSE] \in Submission
        <5>1. Fits(entity[a])
          BY <1>1, <1>3, <3>2 DEF EntitiesSuit, Suits
        <5> QED
          BY <3>1, <3>2, <5>1 DEF Fits, Form, Submission
      <4>3. submission'[a] # None
        BY <3>1, <3>2, <4>1, <4>2, NoRecordAssumption DEF Record, TypeOK
      <4> QED
        BY <2>1, <3>2, <4>3 DEF SubmitsTraced
    <3>3. CASE ~(m.by = a /\ todo[a] = <<"record">>)
      BY <1>2, <2>1, <3>1, <3>3, RecordsStep DEF SubmitsTraced, Actors
    <3> QED
      BY <3>2, <3>3
  <2>2. CASE m \notin submits
    <3>1. Submit(a)
      BY <2>2 DEF Work, Create, Update, Record, Access, Lock, Unlock, SetToDraft,
         Archive, Delete, Dispose, DeleteSubmission
    <3>2. m.by = a /\ Head(todo[a]) = "submit"
      BY <2>2, <3>1 DEF Submit, Next1
    <3>3. a \in started
      BY <1>1, <3>2, RoleFacts DEF PlansFollow
    <3>4. Tail(todo[a]) = <<"record">>
      BY <1>1, <3>2, PlanFacts DEF PlansFollow, Busy
    <3> QED
      BY <1>2, <3>2, <3>3, <3>4
  <2> QED
    BY <2>1, <2>2
<1>7. AloneInHand'
  <2> SUFFICES ASSUME ~overlapped
               PROVE  /\ \A b \in Actors : b # a => ~Busy(b)'
                      /\ Busy(a)' => /\ Head(todo'[a]) # "create"
                                     /\ doc' = entity'[a]
    BY <1>2 DEF AloneInHand
  <2>1. \A b \in Actors : b # a => ~Busy(b)'
    BY <1>1, <1>2 DEF AloneInHand, Busy
  <2>2. ASSUME Busy(a)'
        PROVE  Head(todo'[a]) # "create" /\ doc' = entity'[a]
    <3>1. Head(todo[a]) \in {"create", "update", "submit"} /\ Head(todo'[a]) # "create"
      <4>1. todo[a] \in Plan /\ todo[a] # <<>> /\ Tail(todo[a]) # <<>>
        BY <1>1, <1>2, <2>2 DEF PlansFollow, Busy
      <4> QED
        BY <1>2, <1>3, <4>1, PlanFacts
    <3>2. Create(a) \/ Update(a) \/ Submit(a)
      BY <3>1 DEF Work, Record, Access, Lock, Unlock, SetToDraft, Archive, Delete, Dispose,
         DeleteSubmission, Next1
    <3>3. Proceed(a, doc')
      BY <3>2 DEF Create, Update, Submit, Save
    <3>4. entity'[a] = doc'
      BY <1>1, <1>2, <2>2, <3>3, ProceedFacts DEF Busy
    <3> QED
      BY <3>1, <3>4
  <2> QED
    BY <2>1, <2>2
<1> QED
  BY <1>2, <1>3, <1>4, <1>5, <1>6, <1>7, RecordsStep DEF WorkSuits

(* A handler that ends early lets go of its plan and its entity.           *)
LEMMA FailStep ==
  ASSUME IInv, NEW a \in Actors, Fail(a)
  PROVE  IInv'
<1> USE DEF IInv, Fail
<1>1. /\ ~Busy(a)'
      /\ \A b \in Actors : b # a => todo'[b] = todo[b] /\ entity'[b] = entity[b]
                                    /\ (Busy(b)' <=> Busy(b))
  BY DEF TypeOK, Busy
<1>2. TypeOK'
  <2>1. failures' \in 0 .. MaxFailures
    BY FailuresAssumption DEF TypeOK
  <2> QED
    BY <2>1 DEF TypeOK
<1>3. PlansFollow'
  BY DEF PlansFollow, Plan, Busy, TypeOK
<1>4. EntitiesSuit' /\ AloneInHand'
  BY <1>1 DEF EntitiesSuit, AloneInHand, Suits, Fits
<1>5. SubmitsTraced'
  <2>1. \A m \in submits : m.by \in Actors
    BY DEF TypeOK, Actors
  <2> QED
    BY <1>1, <2>1 DEF SubmitsTraced
<1>6. (Exists => Fits(doc))' /\ SubmissionKeepsData'
  BY DEF Exists, Fits, SubmissionKeepsData
<1> QED
  BY <1>2, <1>3, <1>4, <1>5, <1>6

(* Time passes over forms nobody has in hand.                              *)
LEMMA AgeStep ==
  ASSUME IInv, Age
  PROVE  IInv'
<1> USE DEF IInv, Age
<1>1. Fits(doc')
  BY DEF Fits, FieldsFollow, Form
<1>2. TypeOK' /\ (Exists => Fits(doc))'
  BY <1>1 DEF TypeOK, Fits
<1>3. PlansFollow' /\ EntitiesSuit' /\ AloneInHand'
  BY DEF PlansFollow, EntitiesSuit, AloneInHand, Busy
<1>4. SubmitsTraced' /\ SubmissionKeepsData'
  BY DEF SubmitsTraced, SubmissionKeepsData
<1> QED
  BY <1>2, <1>3, <1>4

(* One save of a handler that has the form to itself follows the life      *)
(* cycle.                                                                  *)
LEMMA AloneStep ==
  ASSUME IInv, ~overlapped, NEW a \in Actors, Work(a), doc' # doc
  PROVE  LifecycleStep
<1> USE DEF IInv
<1>1. Busy(a)
  BY DEF Work, Create, Update, Submit, Record, Access, Lock, Unlock, SetToDraft, Archive,
         Delete, Dispose, DeleteSubmission, Next1
<1>2. CASE Create(a)
  <2>1. Next1(a, "create") /\ doc' = NewForm
    BY <1>2 DEF Create, Save
  <2>2. a \in Requests /\ ~Exists
    BY <1>1, <2>1, RoleFacts DEF AloneInHand, Exists, Next1
  <2> QED
    BY <2>1, <2>2 DEF LifecycleStep
<1>3. ASSUME Head(todo[a]) \notin {"create", "record", "dispose", "deleteSubmission"}
      PROVE  doc = entity[a] /\ Fits(doc) /\ Exists
  <2>1. doc = entity[a]
    BY <1>1, <1>3 DEF AloneInHand
  <2>2. Head(todo[a]) \in Operation
    BY <1>1, PlanFacts DEF PlansFollow, Busy
  <2>3. Fits(entity[a])
    BY <1>1, <1>3, <2>2 DEF EntitiesSuit, Suits, Operation
  <2> QED
    BY <2>1, <2>3, NoRecordAssumption DEF Fits, Exists
<1>4. CASE Delete(a)
  <2>1. Head(todo[a]) = "delete" /\ doc' = None
    BY <1>4 DEF Delete, Next1
  <2>2. \A j \in DeleteRuns : Busy(j) => j = a
    BY <1>1 DEF AloneInHand, Actors, Jobs
  <2>3. a \in DeleteRuns => doc.status = "locked" /\ doc.locked = "old"
    BY <1>1, <1>3, <2>1 DEF EntitiesSuit, Suits
  <2> QED
    BY <1>3, <2>1, <2>2, <2>3 DEF LifecycleStep
<1> DEFINE Saved(d) ==
              /\ Exists /\ d # None
              /\ <<doc.status, d.status>> \in
                     {<<"draft", "draft">>, <<"draft", "locked">>, <<"draft", "submitted">>,
                      <<"locked", "draft">>, <<"locked", "locked">>,
                      <<"submitted", "draft">>, <<"submitted", "submitted">>}
                     \cup ({"draft", "locked", "submitted", "archived"} \X {"archived"})
              /\ d.data # doc.data => doc.status = "draft" /\ d.status = "draft"
              /\ doc.status = "draft" /\ d.status = "locked" => doc.stale
<1>5. Saved(doc') => LifecycleStep
  BY DEF LifecycleStep
<1> USE <1>1, <1>3, NoRecordAssumption DEF Next1, Save, EntitiesSuit, Suits, Permitted, Fits
<1>6. CASE Update(a)
  <2>1. doc.status = "draft" /\ doc' = [doc EXCEPT !.data = a] /\ a \in Requests
    BY <1>6, RoleFacts DEF Update
  <2>2. doc' \in Form
    BY <1>6, <2>1 DEF Update, Form, Data
  <2> QED
    BY <1>5, <1>6, <2>1, <2>2 DEF Update, Form
<1>7. CASE Submit(a)
  <2>1. doc.status = "draft" /\ doc.data \in Data
        /\ doc' = [doc EXCEPT !.status = "submitted", !.submitted = TRUE, !.hash = doc.data]
    BY <1>7 DEF Submit, Form
  <2>2. doc' \in Form
    BY <1>7, <2>1 DEF Submit, Form, Data
  <2> QED
    BY <1>5, <1>7, <2>1, <2>2 DEF Submit, Form
<1>8. CASE Access(a)
  <2>1. doc' = [doc EXCEPT !.stale = FALSE] /\ doc.status # "locked"
    BY <1>8 DEF Access
  <2>2. doc' \in Form
    BY <1>8, <2>1 DEF Access, Form
  <2> QED
    BY <1>5, <1>8, <2>1, <2>2 DEF Access, Form
<1>9. CASE Lock(a)
  <2>1. doc.status = "draft" /\ doc.stale
        /\ doc' = [doc EXCEPT !.status = "locked", !.locked = "recent"]
    BY <1>9 DEF Lock
  <2>2. doc' \in Form
    BY <1>9, <2>1 DEF Lock, Form
  <2> QED
    BY <1>5, <1>9, <2>1, <2>2 DEF Lock, Form
<1>10. CASE Unlock(a)
  <2>1. doc.status = "locked"
        /\ doc' = [doc EXCEPT !.status = "draft", !.locked = "null", !.stale = FALSE]
    BY <1>10 DEF Unlock
  <2>2. doc' \in Form
    BY <1>10, <2>1 DEF Unlock, Form
  <2> QED
    BY <1>5, <1>10, <2>1, <2>2 DEF Unlock, Form
<1>11. CASE SetToDraft(a)
  <2>1. doc.status = "submitted" /\ doc' = [doc EXCEPT !.status = "draft", !.stale = FALSE]
    BY <1>11 DEF SetToDraft
  <2>2. doc' \in Form
    BY <1>11, <2>1 DEF SetToDraft, Form
  <2> QED
    BY <1>5, <1>11, <2>1, <2>2 DEF SetToDraft, Form
<1>12. CASE Archive(a)
  <2>1. doc' = [doc EXCEPT !.status = "archived"]
    BY <1>12 DEF Archive
  <2>2. doc' \in Form
    BY <1>12, <2>1 DEF Archive, Form
  <2> QED
    BY <1>5, <1>12, <2>1, <2>2 DEF Archive, Form
<1> QED
  BY <1>2, <1>4, <1>6, <1>7, <1>8, <1>9, <1>10, <1>11, <1>12
     DEF Work, Record, Dispose, DeleteSubmission

----------------------------------------------------------------------------
(* The theorems.                                                           *)

(* Every reachable state satisfies the inductive invariant.                *)
THEOREM Invariance == Spec => []IInv
<1>1. Init => IInv
  <2> SUFFICES ASSUME Init
               PROVE  IInv
    OBVIOUS
  <2>1. TypeOK
    <3>1. doc \in Form \cup {None} /\ failures \in 0 .. MaxFailures
      BY NewFormFits, FailuresAssumption DEF Init, Fits
    <3>2. todo \in [Actors -> Seq(Operation)]
      BY DEF Init
    <3> QED
      BY <3>1, <3>2 DEF Init, TypeOK
  <2>2. Exists => Fits(doc)
    BY NewFormFits DEF Init, Exists
  <2>3. SubmissionKeepsData /\ \A s \in Requests : submission[s] \in Submission => FALSE
    BY NoRecordAssumption DEF Init, SubmissionKeepsData
  <2> QED
    BY <2>1, <2>2, <2>3
       DEF Init, IInv, PlansFollow, Plan, Actors, Jobs, Busy, EntitiesSuit, AloneInHand,
           SubmitsTraced
<1>2. IInv /\ [Next]_vars => IInv'
  <2>1. IInv /\ UNCHANGED vars => IInv'
    <3> SUFFICES ASSUME IInv, UNCHANGED vars
                 PROVE  IInv'
      OBVIOUS
    <3> USE DEF IInv, vars
    <3>1. TypeOK' /\ PlansFollow' /\ (Exists => Fits(doc))'
      BY DEF TypeOK, PlansFollow, Busy, Exists, Fits
    <3>2. EntitiesSuit' /\ AloneInHand'
      BY DEF EntitiesSuit, AloneInHand, Suits, Fits, Busy
    <3>3. SubmitsTraced' /\ SubmissionKeepsData'
      BY DEF SubmitsTraced, SubmissionKeepsData
    <3> QED
      BY <3>1, <3>2, <3>3
  <2> QED
    BY <2>1, BeginsStep, WorksStep, FailStep, AgeStep DEF Next
<1> QED
  BY <1>1, <1>2, PTL DEF Spec

(* Plans, entities, documents and records have their types.                *)
THEOREM TypeCorrect == Spec => []TypeOK
BY Invariance, PTL DEF IInv

(* The date of the lock, the date of the submission and the hash follow    *)
(* the status of a form, however handlers overwrite each other.            *)
THEOREM FieldsFollowStatusAlways == Spec => []FieldsFollowStatus
<1>1. IInv => FieldsFollowStatus
  BY DEF IInv, Fits, FieldsFollowStatus
<1> QED
  BY <1>1, Invariance, PTL

(* A form that is submitted has a record of the data it holds, unless the  *)
(* record is still to be made, was deleted, or its handler ended early.    *)
THEOREM SubmittedIsRecordedAlways == Spec => []SubmittedIsRecorded
<1>1. IInv => SubmittedIsRecorded
  <2>1. <<"record">> # <<>>
    OBVIOUS
  <2> QED
    BY <2>1 DEF IInv, Fits, SubmitsTraced, SubmittedIsRecorded, Busy
<1> QED
  BY <1>1, Invariance, PTL

(* The record of a submission keeps the data that was submitted.           *)
THEOREM SubmissionKeepsDataAlways == Spec => []SubmissionKeepsData
BY Invariance, PTL DEF IInv

(* As long as no two handlers have had the form at once, a step that       *)
(* changes it is one of its documented life cycle.                         *)
THEOREM LifecycleFollowedAlways == Spec => LifecycleFollowed
<1>1. IInv /\ [Next]_vars => [~overlapped /\ doc' # doc => LifecycleStep]_vars
  <2> SUFFICES ASSUME IInv, Next, ~overlapped, doc' # doc
               PROVE  LifecycleStep
    OBVIOUS
  <2>1. CASE Age
    BY <2>1, NoRecordAssumption DEF IInv, Age, LifecycleStep, Fits, Form, Exists
  <2>2. CASE \E a \in Actors : Work(a)
    BY <2>2, AloneStep
  <2> QED
    BY <2>1, <2>2
       DEF Next, BeginCreate, BeginOperation, BeginOnSubmission, FindStale, FindLocked,
           BeginRequest, Begin, Fail
<1> QED
  BY <1>1, Invariance, PTL DEF Spec, LifecycleFollowed
=============================================================================
