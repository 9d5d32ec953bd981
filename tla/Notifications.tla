---------------------------- MODULE Notifications ----------------------------
(***************************************************************************)
(* notification-service: the job that turns a domain event into            *)
(* notifications, and the job that sends them.                             *)
(*                                                                         *)
(* Each takes its work from a queue of its own (AtLeastOnce).  The first   *)
(* pages through the subscriptions of each notification type of the event  *)
(* and puts one notification for each on the second queue, without waiting *)
(* until it is there.  Subscribers may leave meanwhile.  The subscriptions *)
(* are those the criteria of the query and of shouldSend let through, and  *)
(* no event is one of the service's own, which are skipped.                *)
(***************************************************************************)
EXTENDS Integers, Sequences

CONSTANTS
    Events,         \* domain events on the event queue
    Subscribed,     \* the subscribers of each notification type of the events
    Leaving,        \* subscribers that may end their subscriptions
    Unsupported,    \* subscribers by a channel that has no provider
    PageSize,       \* subscriptions read at once
    MaxCrashes      \* bound: handlers that end with their pod over a behaviour

Types == DOMAIN Subscribed
SubscribersOf(t) == {Subscribed[t][k] : k \in DOMAIN Subscribed[t]}
Subscribers == UNION {SubscribersOf(t) : t \in Types}

(* A type has one subscription of a subscriber: it is saved under the two. *)
ASSUME SubscribedAssumption ==
    /\ Subscribed \in Seq(Seq(Subscribers))
    /\ Subscribed # <<>>
    /\ \A t \in Types : \A j, k \in DOMAIN Subscribed[t] :
           Subscribed[t][j] = Subscribed[t][k] => j = k
ASSUME SubscribersAssumption == Leaving \cup Unsupported \subseteq Subscribers
ASSUME BoundsAssumption == PageSize \in Nat \ {0} /\ MaxCrashes \in Nat

VARIABLES
    item, succeeded, failures,               \* the event queue
    sendItem, sendSucceeded, sendFailures,   \* the queue of notifications
    subscriptions,    \* the subscriptions of each type, in the store's order
    job,              \* what the handler of each event is at
    batch,            \* how often notifications of each event were generated
    enqueuing,        \* notifications on their way to the queue
    sent,             \* notifications whose handler has sent them
    delivered,        \* how often the provider took each notification
    generationFailed, \* failed generations, for which an event was sent
    sendFailed,       \* notifications for which a failure event was sent
    shifted,          \* history: where a subscriber left who was on a page read
    crashes

eventVars == <<item, succeeded, failures>>
sendVars == <<sendItem, sendSucceeded, sendFailures>>
vars == <<eventVars, sendVars, subscriptions, job, batch, enqueuing, sent, delivered,
          generationFailed, sendFailed, shifted, crashes>>

(* Only a handler that did not come back is followed by another generation.*)
Batch == 1 .. MaxCrashes + 1

Note ==
    {n \in [event : Events, type : Types, to : Subscribers, batch : Batch] :
        n.to \in SubscribersOf(n.type)}

EventQueue == INSTANCE AtLeastOnce WITH Items <- Events, Unparseable <- {}

SendQueue == INSTANCE AtLeastOnce WITH
    Items <- Note, Unparseable <- {},
    item <- sendItem, succeeded <- sendSucceeded, failures <- sendFailures

(* A handler is at a page of a type, having found subscribers before.      *)
Idle == [type |-> 0, skip |-> 0, found |-> {}]
AtType(t) == [type |-> t, skip |-> 0, found |-> {}]

TypeOK ==
    /\ item \in [Events -> {"unsent", "lost", "accepted", "retried", "acked", "dead"}]
    /\ failures \in [Events -> Nat] /\ succeeded \subseteq Events
    /\ sendItem \in [Note -> {"unsent", "lost", "accepted", "retried", "acked", "dead"}]
    /\ sendFailures \in [Note -> Nat] /\ sendSucceeded \subseteq Note
    /\ subscriptions \in [Types -> Seq(Subscribers)]
    /\ job \in [Events -> [type : {0} \cup Types, skip : Nat, found : SUBSET Subscribers]]
    /\ batch \in [Events -> {0} \cup Batch]
    /\ enqueuing \subseteq {n \in Note : sendItem[n] = "unsent"}
    /\ sent \subseteq {n \in Note : sendItem[n] \in SendQueue!Accepted}
    /\ delivered \in [Note -> Nat]
    /\ generationFailed \cup shifted \subseteq Events \X Types
    /\ sendFailed \subseteq Note
    /\ crashes \in 0 .. MaxCrashes

Init ==
    /\ EventQueue!Init
    /\ SendQueue!Init
    /\ subscriptions = Subscribed
    /\ job = [e \in Events |-> Idle]
    /\ batch = [e \in Events |-> 0]
    /\ enqueuing = {} /\ sent = {}
    /\ delivered = [n \in Note |-> 0]
    /\ generationFailed = {} /\ sendFailed = {} /\ shifted = {}
    /\ crashes = 0

----------------------------------------------------------------------------
(* The world around: events arrive, subscribers leave.                     *)

Publish(e) ==
    /\ EventQueue!Accept(e)
    /\ UNCHANGED <<sendVars, subscriptions, job, batch, enqueuing, sent, delivered,
                   generationFailed, sendFailed, shifted, crashes>>

(* unsubscribe, the k-th subscription: those behind it move up.            *)
Unsubscribe(t, k) ==
    /\ subscriptions[t][k] \in Leaving
    /\ subscriptions' =
           [subscriptions EXCEPT ![t] = SubSeq(@, 1, k - 1) \o SubSeq(@, k + 1, Len(@))]
    /\ shifted' = shifted \cup
           {<<e, t>> : e \in {e \in Events : job[e].type = t /\ k <= job[e].skip}}
    /\ UNCHANGED <<eventVars, sendVars, job, batch, enqueuing, sent, delivered,
                   generationFailed, sendFailed, crashes>>

----------------------------------------------------------------------------
(* The job of the event queue.                                             *)

CanProcess(e) == job[e] = Idle /\ item[e] \in EventQueue!Accepted

(* Token, configuration, tenant and directory are there.                   *)
Start(e) ==
    /\ CanProcess(e)
    /\ job' = [job EXCEPT ![e] = AtType(1)]
    /\ batch' = [batch EXCEPT ![e] = @ + 1]
    /\ UNCHANGED <<eventVars, sendVars, subscriptions, enqueuing, sent, delivered,
                   generationFailed, sendFailed, shifted, crashes>>

(* One of them is not: done(err), before anything was generated.           *)
StartFails(e) ==
    /\ CanProcess(e)
    /\ EventQueue!Retry(e) \/ EventQueue!GiveUp(e)
    /\ UNCHANGED <<sendVars, subscriptions, job, batch, enqueuing, sent, delivered,
                   generationFailed, sendFailed, shifted, crashes>>

(* The next type, or done() after the last.                                *)
FinishType(e) ==
    IF job[e].type + 1 \in Types
    THEN job' = [job EXCEPT ![e] = AtType(job[e].type + 1)] /\ UNCHANGED eventVars
    ELSE job' = [job EXCEPT ![e] = Idle] /\ EventQueue!Complete(e)

Page(e) ==
    LET list == subscriptions[job[e].type]
        rest == SubSeq(list, job[e].skip + 1, Len(list))
    IN  SubSeq(rest, 1, IF Len(rest) < PageSize THEN Len(rest) ELSE PageSize)

Found(e) == job[e].found \cup {Page(e)[k] : k \in DOMAIN Page(e)}

(* Mutant: a full page is taken for the last one where nothing is left.    *)
HasNextOver(page) == Len(page) > PageSize

(* encodeNext: only a page that is not full is known to be the last.       *)
HasNext(page) == Len(page) = PageSize

ReadPage(e) ==
    /\ job[e] # Idle
    /\ HasNext(Page(e))
    /\ job' = [job EXCEPT ![e].skip = @ + PageSize, ![e].found = Found(e)]
    /\ UNCHANGED <<eventVars, sendVars, subscriptions, batch, enqueuing, sent, delivered,
                   generationFailed, sendFailed, shifted, crashes>>

Notes(e, t, subscribers) ==
    {[event |-> e, type |-> t, to |-> s, batch |-> batch[e]] : s \in subscribers}

(* After the last page: enqueue is called for each notification, and no    *)
(* call is awaited.                                                        *)
ReadLastPage(e) ==
    /\ job[e] # Idle
    /\ ~HasNext(Page(e))
    /\ enqueuing' = enqueuing \cup Notes(e, job[e].type, Found(e))
    /\ FinishType(e)
    /\ UNCHANGED <<sendVars, subscriptions, batch, sent, delivered, generationFailed,
                   sendFailed, shifted, crashes>>

(* Mutant: the failure of one type fails the event.                        *)
GenerationFailsEvent(e) ==
    /\ job[e] # Idle
    /\ job' = [job EXCEPT ![e] = Idle]
    /\ EventQueue!Retry(e) \/ EventQueue!GiveUp(e)
    /\ UNCHANGED <<sendVars, subscriptions, batch, enqueuing, sent, delivered,
                   generationFailed, sendFailed, shifted, crashes>>

(* A type whose subscriptions cannot be read is given up with an event.    *)
GenerationFails(e) ==
    /\ job[e] # Idle
    /\ generationFailed' = generationFailed \cup {<<e, job[e].type>>}
    /\ FinishType(e)
    /\ UNCHANGED <<sendVars, subscriptions, batch, enqueuing, sent, delivered,
                   sendFailed, shifted, crashes>>

(* The notification gets to the queue, or enqueue loses it.                *)
Enqueue(n) ==
    /\ n \in enqueuing
    /\ enqueuing' = enqueuing \ {n}
    /\ SendQueue!Accept(n)
    /\ UNCHANGED <<eventVars, subscriptions, job, batch, sent, delivered,
                   generationFailed, sendFailed, shifted, crashes>>

----------------------------------------------------------------------------
(* The job of the queue of notifications.                                  *)

(* Mutant: a notification that is delivered again is not sent.             *)
CanSendOnce(n) == n \notin sent /\ sendItem[n] = "accepted"

CanSend(n) == n \notin sent /\ sendItem[n] \in SendQueue!Accepted

HasProvider(n) == n.to \notin Unsupported

Deliver(n) == delivered' = [delivered EXCEPT ![n] = @ + 1]

Send(n) ==
    /\ CanSend(n) /\ HasProvider(n)
    /\ Deliver(n)
    /\ sent' = sent \cup {n}
    /\ UNCHANGED <<eventVars, sendVars, subscriptions, job, batch, enqueuing,
                   generationFailed, sendFailed, shifted, crashes>>

(* Mutant: the notification is still held after done().                    *)
SendDoneHeld(n) ==
    /\ n \in sent
    /\ SendQueue!Complete(n)
    /\ UNCHANGED <<eventVars, subscriptions, job, batch, enqueuing, sent, delivered,
                   generationFailed, sendFailed, shifted, crashes>>

SendDone(n) ==
    /\ n \in sent
    /\ sent' = sent \ {n}
    /\ SendQueue!Complete(n)
    /\ UNCHANGED <<eventVars, subscriptions, job, batch, enqueuing, delivered,
                   generationFailed, sendFailed, shifted, crashes>>

(* Mutant: the failure is announced when it is to be retried.              *)
AnnounceFailureEarly(n) ==
    IF sendItem[n] = "accepted" THEN sendFailed' = sendFailed \cup {n}
    ELSE UNCHANGED sendFailed

(* An event is sent for the failure that will not be retried.              *)
AnnounceFailure(n) ==
    IF sendItem[n] = "retried" THEN sendFailed' = sendFailed \cup {n}
    ELSE UNCHANGED sendFailed

(* The provider fails, perhaps after it took the notification: done(err).  *)
SendFails(n) ==
    /\ CanSend(n) /\ HasProvider(n)
    /\ Deliver(n) \/ UNCHANGED delivered
    /\ SendQueue!Retry(n) \/ SendQueue!GiveUp(n)
    /\ AnnounceFailure(n)
    /\ UNCHANGED <<eventVars, subscriptions, job, batch, enqueuing, sent,
                   generationFailed, shifted, crashes>>

----------------------------------------------------------------------------
(* Pods.                                                                   *)

CountCrash == crashes < MaxCrashes /\ crashes' = crashes + 1

(* A pod dies while it processes an event.                                 *)
CrashProcessing(e) ==
    /\ CountCrash
    /\ job[e] # Idle
    /\ job' = [job EXCEPT ![e] = Idle]
    /\ \/ EventQueue!Interrupt(e)
       \/ item[e] = "retried" /\ UNCHANGED eventVars
    /\ UNCHANGED <<sendVars, subscriptions, batch, enqueuing, sent, delivered,
                   generationFailed, sendFailed, shifted>>

(* A pod dies while it sends a notification: of a bad chance, or because   *)
(* the handler throws where there is no provider and nothing catches that. *)
CrashSending(n) ==
    /\ CountCrash
    /\ sendItem[n] \in SendQueue!Accepted
    /\ sent' = sent \ {n}
    /\ \/ SendQueue!Interrupt(n)
       \/ sendItem[n] = "retried" /\ UNCHANGED sendVars
    /\ UNCHANGED <<eventVars, subscriptions, job, batch, enqueuing, delivered,
                   generationFailed, sendFailed, shifted>>

Process(e) == Start(e) \/ StartFails(e) \/ ReadPage(e) \/ ReadLastPage(e) \/ GenerationFails(e)

Work ==
    \/ \E e \in Events : Process(e)
    \/ \E n \in Note : Enqueue(n) \/ Send(n) \/ SendDone(n) \/ SendFails(n)

Next ==
    \/ \E e \in Events : Publish(e) \/ CrashProcessing(e)
    \/ \E t \in Types : \E k \in DOMAIN subscriptions[t] : Unsubscribe(t, k)
    \/ \E n \in Note : CrashSending(n)
    \/ Work

Spec == Init /\ [][Next]_vars

(* Both queues deliver, and the awaits of their jobs end.  A notification  *)
(* without a provider is not worked on: it ends one pod after another.     *)
FairSpec == Spec /\ WF_vars(Work)

----------------------------------------------------------------------------
(* Properties.                                                             *)

NotesOf(e, t, s) == {n \in Note : n.event = e /\ n.type = t /\ n.to = s}

(* A notification was made, whether it has got to its queue yet or not.    *)
Made(n) == n \in enqueuing \/ sendItem[n] # "unsent"

(* Nobody who stays subscribed is passed over: when the event queue is     *)
(* done with an event there is, or was, a notification for each of them,   *)
(* unless the failure of their type was announced, or a subscription on a  *)
(* page already read ended while the others were read.                     *)
NobodyPassedOver ==
    \A e \in Events, t \in Types : \A s \in SubscribersOf(t) \ Leaving :
        item[e] = "acked" =>
            \/ <<e, t>> \in generationFailed \cup shifted
            \/ \E n \in NotesOf(e, t, s) : Made(n)

(* A subscriber is sent an event's notification twice only after a crash   *)
(* or a failure of the provider: retries of the event itself, failures of  *)
(* other types and the pages read make no duplicates.                      *)
DuplicatesExplained ==
    \A e \in Events, t \in Types, s \in Subscribers :
        \/ crashes > 0
        \/ \E n \in NotesOf(e, t, s) : sendFailures[n] > 0
        \/ \A n, m \in NotesOf(e, t, s) :
               delivered[n] > 0 /\ delivered[m] > 0 => n = m /\ delivered[n] = 1

(* What the events say of a notification is what became of it: one the     *)
(* queue is done with was sent or its failure was announced, also where a  *)
(* crash has used up the retry, and no announced failure is retried.       *)
FailuresAnnounced ==
    \A n \in Note :
        /\ sendItem[n] = "acked" => delivered[n] > 0
        /\ sendItem[n] = "dead" <=> n \in sendFailed

(* An event the queue took ends on the dead letter queue, or with each of  *)
(* its notifications sent, announced as failed, or lost by enqueue.        *)
EventIsNotified ==
    \A e \in Events :
        item[e] = "accepted" ~>
            \/ item[e] = "dead"
            \/ /\ item[e] = "acked"
               /\ \A n \in Note : n.event = e /\ HasProvider(n) =>
                      n \notin enqueuing /\ sendItem[n] \notin SendQueue!Accepted

----------------------------------------------------------------------------
(* The inductive invariant behind the safety properties.                   *)

(* A handler has an event in hand, and an event is generated for once, and *)
(* once more after a crash.                                                *)
HandlersWork ==
    \A e \in Events :
        /\ job[e] # Idle =>
               /\ item[e] \in EventQueue!Accepted
               /\ job[e].type \in Types
               /\ job[e].found \subseteq SubscribersOf(job[e].type)
               /\ batch[e] >= 1
        /\ batch[e] <= crashes + 1
        /\ job[e] = Idle /\ item[e] # "acked" => batch[e] <= crashes

(* Only those who leave lose their subscription.                           *)
StaySubscribed ==
    \A t \in Types :
        /\ \A k \in DOMAIN subscriptions[t] : subscriptions[t][k] \in SubscribersOf(t)
        /\ \A s \in SubscribersOf(t) \ Leaving :
               \E k \in DOMAIN subscriptions[t] : subscriptions[t][k] = s

(* Who is on the pages read was found, unless one of them has left.        *)
PagesRead ==
    \A e \in Events : \A k \in 1 .. job[e].skip :
        job[e] # Idle /\ <<e, job[e].type>> \notin shifted =>
            /\ k \in DOMAIN subscriptions[job[e].type]
            /\ subscriptions[job[e].type][k] \in job[e].found

(* The notifications of a generation are made type by type.                *)
NotesInOrder ==
    \A n \in Note : Made(n) =>
        /\ n.batch <= batch[n.event]
        /\ job[n.event] # Idle /\ n.batch = batch[n.event] => n.type < job[n.event].type

(* A type that was passed has its notifications.                           *)
TypesNoted ==
    \A e \in Events, t \in Types : \A s \in SubscribersOf(t) \ Leaving :
        item[e] = "acked" \/ t < job[e].type =>
            \/ <<e, t>> \in generationFailed \cup shifted
            \/ \E n \in NotesOf(e, t, s) : Made(n)

(* The provider takes a notification once, until a failure or a crash.     *)
DeliveredOnce ==
    \A n \in Note :
        /\ sendItem[n] \in {"unsent", "lost"} => delivered[n] = 0
        /\ n \in sent => delivered[n] > 0
        /\ crashes = 0 /\ sendFailures[n] = 0 =>
               /\ delivered[n] <= 1
               /\ CanSend(n) => delivered[n] = 0

IInv ==
    /\ TypeOK
    /\ HandlersWork
    /\ StaySubscribed
    /\ PagesRead
    /\ NotesInOrder
    /\ TypesNoted
    /\ DeliveredOnce
    /\ FailuresAnnounced
=============================================================================
