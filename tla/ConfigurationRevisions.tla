----------------------- MODULE ConfigurationRevisions -----------------------
(***************************************************************************)
(* One configuration (tenant, namespace and name) of configuration-service *)
(* and the requests made of it.                                            *)
(*                                                                         *)
(* Its revisions are documents of their own, numbered from zero; which one *)
(* is active is another document.  A handler reads the latest revision and *)
(* later writes, by number, what it made of it.  Nothing spans two of its  *)
(* awaits.  A handler may stop at any of them: it never goes on.           *)
(*                                                                         *)
(* What is assumed of the constants is in ConfigurationCache.              *)
(***************************************************************************)
EXTENDS Integers, FiniteSets

CONSTANTS
    Requests,     \* requests made of the configuration
    None          \* no revision

VARIABLES
    revisions,    \* the content of each revision in the store
    active,       \* the number the active revision document has
    op,           \* what each request asks for
    step,         \* how far each has come
    read,         \* the latest revision each has read
    found,        \* the active number an activation has read
    stream,       \* requests whose event is on its way to the caches
    overlapped    \* history: a deletion ran beside another handler

vars == <<revisions, active, op, step, read, found, stream, overlapped>>

(* Each revision request adds one number to at most two there were.        *)
Number == 0 .. 1 + Cardinality(Requests)

(* Content is named by the requests whose property it has.                 *)
Content == SUBSET Requests

Latest == [number : Number, content : Content]

Operation == [kind : {"update", "revise", "delete"}, target : {None}]
                 \cup [kind : {"activate"}, target : Number]

Step == {"none", "read", "sought", "compared", "checked", "cleared", "saved", "done"}

TypeOK ==
    /\ DOMAIN revisions \subseteq Number
    /\ \A n \in DOMAIN revisions : revisions[n] \in Content
    /\ active \in Number \cup {None}
    /\ op \in [Requests -> Operation \cup {None}]
    /\ step \in [Requests -> Step]
    /\ read \in [Requests -> Latest \cup {None}]
    /\ found \in [Requests -> Number \cup {None}]
    /\ stream \subseteq Requests
    /\ overlapped \in BOOLEAN

(* No configuration yet, or up to two revisions of one empty content.      *)
Init ==
    /\ \E n \in 0 .. 2 :
           /\ revisions = [k \in 0 .. n - 1 |-> {}]
           /\ active \in {None} \cup 0 .. n - 1
    /\ op = [r \in Requests |-> None]
    /\ step = [r \in Requests |-> "none"]
    /\ read = [r \in Requests |-> None]
    /\ found = [r \in Requests |-> None]
    /\ stream = {}
    /\ overlapped = FALSE

----------------------------------------------------------------------------
(* The repository.                                                         *)

Exists(n) == n \in DOMAIN revisions

(* get: the revision with the highest number.                              *)
FindLatest ==
    IF DOMAIN revisions = {} THEN None
    ELSE LET top == CHOOSE n \in DOMAIN revisions : \A m \in DOMAIN revisions : m <= n
         IN  [number |-> top, content |-> revisions[top]]

(* saveRevision: an upsert of the document with the number.                *)
SaveRevision(n, content) ==
    revisions' = [m \in DOMAIN revisions \cup {n} |->
                      IF m = n THEN content ELSE revisions[m]]

----------------------------------------------------------------------------
(* The handlers.                                                           *)

Advance(r, from, to) ==
    /\ step[r] = from
    /\ step' = [step EXCEPT ![r] = to]

(* A handler forgets what it read when it ends.                            *)
Finish(r, from) ==
    /\ Advance(r, from, "done")
    /\ read' = [read EXCEPT ![r] = None]
    /\ found' = [found EXCEPT ![r] = None]

(* eventService.send, which nobody awaits.                                 *)
Send(r) == stream' = stream \cup {r}

(* getConfigurationEntity.                                                 *)
Begin(r) ==
    /\ Advance(r, "none", "read")
    /\ \E o \in Operation : op' = [op EXCEPT ![r] = o]
    /\ read' = [read EXCEPT ![r] = FindLatest]
    /\ UNCHANGED <<revisions, active, found, stream, overlapped>>

Has(r, kind) == op[r] # None /\ op[r].kind = kind

(* What REPLACE, UPDATE and DELETE make of the content read: request r     *)
(* brings a property of its own, or takes one away that may not be there.  *)
Changed(r, content) ==
    {{r}, content, content \cup {r}} \cup {content \ {x} : x \in content}

(* Mutant: the first revision is saved without a number.                   *)
UpdatedNumberUnset(latest) == IF latest = None THEN None ELSE latest.number

UpdatedNumber(latest) == IF latest = None THEN 0 ELSE latest.number

(* PATCH, unless it would change nothing.                                  *)
Update(r) ==
    /\ Has(r, "update")
    /\ \E content \in Changed(r, IF read[r] = None THEN {} ELSE read[r].content) :
           IF read[r] # None /\ content = read[r].content
           THEN Finish(r, "read") /\ UNCHANGED revisions
           ELSE /\ SaveRevision(UpdatedNumber(read[r]), content)
                /\ Advance(r, "read", "saved")
                /\ UNCHANGED <<read, found>>
    /\ UNCHANGED <<active, op, stream, overlapped>>

(* Mutant: numbers start from one.                                         *)
RevisedNumberFromOne(latest) == IF latest = None THEN 1 ELSE latest.number + 1

RevisedNumber(latest) == IF latest = None THEN 0 ELSE latest.number + 1

(* POST of the create-revision operation.                                  *)
Revise(r) ==
    /\ Has(r, "revise")
    /\ SaveRevision(RevisedNumber(read[r]), IF read[r] = None THEN {} ELSE read[r].content)
    /\ Advance(r, "read", "saved")
    /\ UNCHANGED <<active, op, read, found, stream, overlapped>>

(* The answer and the event of an update or a revision.                    *)
Announce(r) ==
    /\ op[r] # None /\ op[r].kind \in {"update", "revise"}
    /\ Finish(r, "saved")
    /\ Send(r)
    /\ UNCHANGED <<revisions, active, op, overlapped>>

(* POST of the set-active-revision operation: the active revision is       *)
(* sought in two reads, the document and the revision it names.            *)
SeekActive(r) ==
    /\ Has(r, "activate")
    /\ Advance(r, "read", "sought")
    /\ found' = [found EXCEPT ![r] = active]
    /\ UNCHANGED <<revisions, active, op, read, stream, overlapped>>

(* Setting the active revision again changes nothing.                      *)
CompareActive(r) ==
    /\ Has(r, "activate")
    /\ IF found[r] = op[r].target /\ Exists(found[r])
       THEN Finish(r, "sought")
       ELSE Advance(r, "sought", "compared") /\ UNCHANGED <<read, found>>
    /\ UNCHANGED <<revisions, active, op, stream, overlapped>>

(* Mutant: the revision to activate is not looked for.                     *)
CheckTargetNot(r) ==
    /\ Has(r, "activate")
    /\ Advance(r, "compared", "checked")
    /\ UNCHANGED <<revisions, active, op, read, found, stream, overlapped>>

CheckTarget(r) ==
    /\ Has(r, "activate")
    /\ IF Exists(op[r].target)
       THEN Advance(r, "compared", "checked") /\ UNCHANGED <<read, found>>
       ELSE Finish(r, "compared")
    /\ UNCHANGED <<revisions, active, op, stream, overlapped>>

SetActive(r) ==
    /\ Has(r, "activate")
    /\ Advance(r, "checked", "saved")
    /\ active' = op[r].target
    /\ UNCHANGED <<revisions, op, read, found, stream, overlapped>>

(* The revision is read once more.  Where it is gone the handler fails on  *)
(* its absence, with the active document changed and no event sent.        *)
ConfirmActive(r) ==
    /\ Has(r, "activate")
    /\ Finish(r, "saved")
    /\ IF Exists(op[r].target) THEN Send(r) ELSE UNCHANGED stream
    /\ UNCHANGED <<revisions, active, op, overlapped>>

(* DELETE: the revisions, then the active revision.                        *)
DeleteRevisions(r) ==
    /\ Has(r, "delete")
    /\ Advance(r, "read", "cleared")
    /\ revisions' = <<>>
    /\ overlapped' = (overlapped \/ \E q \in Requests \ {r} : step[q] \notin {"none", "done"})
    /\ UNCHANGED <<active, op, read, found, stream>>

(* Its event is not one of the stream that services clear their caches by. *)
ClearActive(r) ==
    /\ Finish(r, "cleared")
    /\ active' = None
    /\ UNCHANGED <<revisions, op, stream, overlapped>>

Handle(r) ==
    \/ Begin(r)
    \/ Update(r) \/ Revise(r) \/ Announce(r)
    \/ SeekActive(r) \/ CompareActive(r) \/ CheckTarget(r)
    \/ SetActive(r) \/ ConfirmActive(r)
    \/ DeleteRevisions(r) \/ ClearActive(r)

Next == \E r \in Requests : Handle(r)

Spec == Init /\ [][Next]_vars

----------------------------------------------------------------------------
(* Properties.                                                             *)

(* Deletions that ran alone and to their end, as far as they have begun.   *)
DeletionsClean == ~overlapped /\ \A r \in Requests : step[r] # "cleared"

(* Revisions are numbered from zero without a gap, whoever else numbers    *)
(* one at the same time.                                                   *)
RevisionsContiguous ==
    ~overlapped => \A n \in DOMAIN revisions : 0 .. n \subseteq DOMAIN revisions

(* The active revision is a revision there is, so that the services do not *)
(* silently fall back to the latest: provided no deletion ran beside       *)
(* another request or stopped half way.                                    *)
ActiveExists == DeletionsClean /\ active # None => Exists(active)

----------------------------------------------------------------------------
(* The inductive invariant behind the properties.                          *)

(* The revision requests that have added a number.                         *)
Revised == {r \in Requests : Has(r, "revise") /\ step[r] \in {"saved", "done"}}

NumbersBounded ==
    /\ \A n \in DOMAIN revisions : n <= 1 + Cardinality(Revised)
    /\ \A r \in Requests : read[r] # None => read[r].number <= 1 + Cardinality(Revised)

(* A request is at a step of its operation.                                *)
StepsAreOfKind ==
    \A r \in Requests :
        /\ step[r] = "cleared" => op[r].kind = "delete"
        /\ step[r] = "checked" => op[r].kind = "activate"

(* Until a deletion runs beside another request, what a request has read   *)
(* and goes on with is still there.                                        *)
ReadsExist ==
    ~overlapped =>
        \A r \in Requests :
            /\ step[r] = "read" /\ read[r] # None => Exists(read[r].number)
            /\ step[r] = "checked" => Exists(op[r].target)
=============================================================================
